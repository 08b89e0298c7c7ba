----------------------- MODULE ApplicationStatesProofs -----------------------
(***************************************************************************)
(* Proofs about ApplicationStates, for any set of states, any layout of    *)
(* the bitmap and any number of timeout slots.                             *)
(***************************************************************************)
EXTENDS ApplicationStates, TLAPS

SlotType == [state : State \cup {0}, timeout : Nat]

\* A tick or an evaluation is still to come for what the copy has seen.
Due(s) == IF iter = Evaluated /\ s \in snapshot THEN 1 ELSE 0

\* What holds of the slot i, which is in use.
SlotInv(i) ==
  /\ timeout_states[i].state \in State
  /\ timeout_states[i].state \in application_states
  /\ timeout_states[i].timeout > 0
  /\ asked[timeout_states[i].state] > 0
  /\ timeout_states[i].timeout + seen[timeout_states[i].state]
       = asked[timeout_states[i].state] - late[timeout_states[i].state]
           + Due(timeout_states[i].state)

Unique ==
  \A i, j \in timeout_mask : timeout_states[i].state = timeout_states[j].state => i = j

\* Every promise has its slot, and what is not promised has none.
Kept == \A s \in State : asked[s] > 0 => \E i \in timeout_mask : timeout_states[i].state = s

Free == \A i \in Slots : i \notin timeout_mask => timeout_states[i] = FreeSlot

Inv ==
  /\ TypeOK
  /\ \A i \in timeout_mask : SlotInv(i)
  /\ Unique
  /\ Kept
  /\ Free

-----------------------------------------------------------------------------
\* What a free slot is, and the order of the phases of the worker.
LEMMA SlotFacts ==
  /\ NoSlot \notin Slots /\ FreeSlot \in SlotType
  /\ FreeSlot.state = 0 /\ FreeSlot.timeout = 0
  /\ \A i \in Slots : i \in Nat
  /\ Copied \in Nat /\ Evaluated \in Nat /\ Evaluated # 0 /\ Copied < Evaluated /\ Copied > 0
BY StatesAssumption DEF NoSlot, Slots, FreeSlot, SlotType, Copied, Evaluated

\* find_timeout_state finds the slot of a state, if it has one.
LEMMA FindSlot ==
  ASSUME TypeOK, Unique, NEW s \in State
  PROVE  \/ /\ find_timeout_state(s) = NoSlot
            /\ SlotsOf(s) = {}
            /\ \A i \in timeout_mask : timeout_states[i].state # s
         \/ /\ find_timeout_state(s) # NoSlot
            /\ find_timeout_state(s) \in timeout_mask
            /\ find_timeout_state(s) \in Slots
            /\ timeout_states[find_timeout_state(s)].state = s
<1>1. CASE SlotsOf(s) = {}
  BY <1>1 DEF find_timeout_state, SlotsOf
<1>2. CASE SlotsOf(s) # {}
  <2>1. PICK i \in timeout_mask : timeout_states[i].state = s
    BY <1>2 DEF SlotsOf
  <2>2. i \in Slots /\ i \in Nat
    BY SlotFacts DEF TypeOK
  <2>3. SlotsOf(s) = {i}
    BY <2>1 DEF SlotsOf, Unique
  <2>4. IsLowest(i, SlotsOf(s))
    BY <2>2, <2>3 DEF IsLowest
  <2>5. \A j \in Slots : IsLowest(j, SlotsOf(s)) => j = i
    BY <2>3 DEF IsLowest
  <2>6. find_timeout_state(s) = i
    BY <1>2, <2>2, <2>4, <2>5 DEF find_timeout_state
  <2> QED BY <2>1, <2>2, <2>6, SlotFacts
<1> QED BY <1>1, <1>2

-----------------------------------------------------------------------------
(***************************************************************************)
(* Set and clear.                                                          *)
(***************************************************************************)
\* The slot of s, if any, is given back.
Dropped(s) ==
  /\ timeout_mask' = {i \in timeout_mask : timeout_states[i].state # s}
  /\ timeout_states' \in [Slots -> SlotType]
  /\ \A i \in Slots : timeout_states'[i] = IF i \in timeout_mask' THEN timeout_states[i]
                                           ELSE FreeSlot

\* Clearing the timeout of a state drops its slot and keeps the others.
LEMMA ClearDrops ==
  ASSUME Inv, NEW s \in State, clear_timeout_state(s)
  PROVE  Dropped(s)
<1>1. /\ timeout_states \in [Slots -> SlotType] /\ timeout_mask \subseteq Slots
      /\ TypeOK /\ Unique /\ Free
  BY DEF Inv, TypeOK, SlotType
<1>2. CASE find_timeout_state(s) = NoSlot
  <2>1. UNCHANGED slots
    BY <1>2 DEF clear_timeout_state
  <2>2. \A i \in timeout_mask : timeout_states[i].state # s
    BY <1>1, <1>2, FindSlot
  <2> QED BY <1>1, <2>1, <2>2 DEF slots, Free, Dropped
<1>3. CASE find_timeout_state(s) # NoSlot
  <2> DEFINE k == find_timeout_state(s)
  <2>1. /\ timeout_states' = [timeout_states EXCEPT ![k] = FreeSlot]
        /\ timeout_mask' = Toggle(timeout_mask, k)
    BY <1>3 DEF clear_timeout_state
  <2>2. k \in timeout_mask /\ k \in Slots /\ timeout_states[k].state = s
    BY <1>1, <1>3, FindSlot
  <2> HIDE DEF k
  <2>3. timeout_mask' = timeout_mask \ {k}
    BY <2>1, <2>2 DEF Toggle
  <2>4. timeout_mask' = {i \in timeout_mask : timeout_states[i].state # s}
    BY <1>1, <2>2, <2>3 DEF Unique
  <2>5. timeout_states' \in [Slots -> SlotType]
    BY <1>1, <2>1, SlotFacts, Zenon
  <2> QED BY <1>1, <2>1, <2>2, <2>3, <2>4, <2>5 DEF Free, Dropped
<1> QED BY <1>2, <1>3

\* A state that is not set has no slot to drop.
LEMMA NothingToDrop ==
  ASSUME Inv, NEW s \in State, s \notin application_states, UNCHANGED slots
  PROVE  Dropped(s)
<1>1. /\ timeout_states \in [Slots -> SlotType] /\ timeout_mask \subseteq Slots /\ Free
  BY DEF Inv, TypeOK, SlotType
<1>2. \A i \in timeout_mask : timeout_states[i].state # s
  BY DEF Inv, SlotInv
<1> QED BY <1>1, <1>2 DEF slots, Free, Dropped

\* TypeOK without the slots, which Dropped and the like establish.
RestType ==
  /\ application_states \subseteq State
  /\ iter \in 0 .. Evaluated
  /\ snapshot \subseteq State
  /\ registered \in 0 .. 1
  /\ told \in [State -> {"none", "set", "cleared"}]
  /\ ret \in [already : 0 .. 1, was : 0 .. 1]
  /\ asked \in [State -> Nat]
  /\ seen \in [State -> Nat]
  /\ late \in [State -> 0 .. 1]

\* The type invariant without the slots, for steps that leave them alone.
LEMMA TypeSplit ==
  /\ TypeOK <=> RestType /\ timeout_states \in [Slots -> SlotType] /\ timeout_mask \subseteq Slots
  /\ TypeOK' <=> RestType' /\ timeout_states' \in [Slots -> SlotType] /\ timeout_mask' \subseteq Slots
BY DEF TypeOK, RestType, SlotType

\* A new promise replaces that of its state only.
LEMMA PromiseType ==
  ASSUME RestType, NEW s \in State, NEW timeout \in Nat, Promise(s, timeout)
  PROVE  /\ asked' \in [State -> Nat] /\ seen' \in [State -> Nat] /\ late' \in [State -> 0 .. 1]
         /\ asked'[s] = timeout /\ seen'[s] = 0
         /\ late'[s] = IF timeout > 0 /\ iter = Evaluated /\ s \in snapshot THEN 1 ELSE 0
         /\ \A t \in State : t # s => /\ asked'[t] = asked[t] /\ seen'[t] = seen[t]
                                      /\ late'[t] = late[t]
BY DEF Promise, RestType, Bit

\* What callbacks were told keeps its type.
LEMMA NotifyType ==
  ASSUME RestType, NEW S, NEW e \in {"set", "cleared"}, Notify(S, e)
  PROVE  told' \in [State -> {"none", "set", "cleared"}]
BY DEF Notify, RestType

\* What a call returned keeps its type.
LEMMA ReturnedType ==
  ASSUME NEW b \in 0 .. 1, NEW s, Returned(b, s)
  PROVE  ret' \in [already : 0 .. 1, was : 0 .. 1]
BY DEF Returned, Bit

\* A membership as a bit.
LEMMA BitType ==
  ASSUME NEW s, NEW S PROVE Bit(s \in S) \in 0 .. 1
BY DEF Bit

\* A call that takes the timeout of s away keeps the invariant.
LEMMA ForgetKeeps ==
  ASSUME Inv, NEW s \in State, Dropped(s), Promise(s, 0), UNCHANGED <<iter, snapshot>>,
         application_states \ {s} \subseteq application_states', RestType'
  PROVE  Inv'
<1>1. RestType /\ timeout_states \in [Slots -> SlotType] /\ timeout_mask \subseteq Slots
  BY TypeSplit DEF Inv
<1>2. /\ timeout_mask' = {i \in timeout_mask : timeout_states[i].state # s}
      /\ timeout_mask' \subseteq Slots
      /\ timeout_states' \in [Slots -> SlotType]
      /\ \A i \in timeout_mask' : timeout_states'[i] = timeout_states[i]
      /\ \A i \in Slots : i \notin timeout_mask' => timeout_states'[i] = FreeSlot
  BY <1>1 DEF Dropped
<1>3. /\ asked'[s] = 0
      /\ \A t \in State : t # s => /\ asked'[t] = asked[t] /\ seen'[t] = seen[t]
                                   /\ late'[t] = late[t]
  BY <1>1, PromiseType, SMTT(30)
<1>4. TypeOK'
  BY <1>2, TypeSplit, SMTT(30)
<1>5. ASSUME NEW i \in timeout_mask' PROVE SlotInv(i)'
  <2>1. SlotInv(i) /\ timeout_states[i].state # s /\ timeout_states'[i] = timeout_states[i]
    BY <1>2 DEF Inv
  <2>2. timeout_states[i].state \in State /\ timeout_states[i].state \in application_states'
    BY <2>1 DEF SlotInv
  <2>3. Due(timeout_states[i].state)' = Due(timeout_states[i].state)
    BY <2>1 DEF Due
  <2> QED BY <1>3, <2>1, <2>2, <2>3 DEF SlotInv
<1>6. Unique'
  BY <1>2 DEF Inv, Unique
<1>7. Kept'
  <2> SUFFICES ASSUME NEW t \in State, asked'[t] > 0
               PROVE  \E i \in timeout_mask' : timeout_states'[i].state = t
    BY DEF Kept
  <2>1. t # s /\ asked[t] > 0
    BY <1>3
  <2>2. PICK i \in timeout_mask : timeout_states[i].state = t
    BY <2>1 DEF Inv, Kept
  <2> QED BY <1>2, <2>1, <2>2
<1>8. Free'
  BY <1>2 DEF Free
<1> QED BY <1>4, <1>5, <1>6, <1>7, <1>8 DEF Inv

\* infuse_state_set keeps the invariant.
LEMMA SetStep ==
  ASSUME Inv, NEW s \in State, infuse_state_set(s)
  PROVE  Inv'
<1>1. RestType  BY TypeSplit DEF Inv
<1>2. Dropped(s)
  BY ClearDrops, NothingToDrop DEF infuse_state_set
<1>3. Promise(s, 0) /\ UNCHANGED <<iter, snapshot, registered>>
      /\ application_states' = application_states \cup {s}
  BY DEF infuse_state_set, worker
<1>4. RestType'
  <2>1. told' \in [State -> {"none", "set", "cleared"}]
    BY <1>1, NotifyType DEF infuse_state_set
  <2>2. ret' \in [already : 0 .. 1, was : 0 .. 1]
    <3>1. Bit(s \in application_states) \in 0 .. 1  BY BitType
    <3> QED BY <3>1, ReturnedType DEF infuse_state_set
  <2>3. asked' \in [State -> Nat] /\ seen' \in [State -> Nat] /\ late' \in [State -> 0 .. 1]
    BY <1>1, <1>3, PromiseType
  <2> QED BY <1>1, <1>3, <2>1, <2>2, <2>3 DEF RestType
<1> QED BY <1>2, <1>3, <1>4, ForgetKeeps

\* infuse_state_clear keeps the invariant.
LEMMA ClearStep ==
  ASSUME Inv, NEW s \in State, infuse_state_clear(s)
  PROVE  Inv'
<1>1. RestType  BY TypeSplit DEF Inv
<1>2. Dropped(s)
  BY ClearDrops, NothingToDrop DEF infuse_state_clear, slots
<1>3. Promise(s, 0) /\ UNCHANGED <<iter, snapshot, registered>>
      /\ application_states' = application_states \ {s}
  BY DEF infuse_state_clear, worker
<1>4. RestType'
  <2>1. told' \in [State -> {"none", "set", "cleared"}]
    BY <1>1, NotifyType DEF infuse_state_clear, RestType
  <2>2. ret' \in [already : 0 .. 1, was : 0 .. 1]
    <3>1. Bit(s \in application_states) \in 0 .. 1  BY BitType
    <3> QED BY <3>1, ReturnedType DEF infuse_state_clear
  <2>3. asked' \in [State -> Nat] /\ seen' \in [State -> Nat] /\ late' \in [State -> 0 .. 1]
    BY <1>1, <1>3, PromiseType
  <2> QED BY <1>1, <1>3, <2>1, <2>2, <2>3 DEF RestType
<1> QED BY <1>2, <1>3, <1>4, ForgetKeeps

-----------------------------------------------------------------------------
(***************************************************************************)
(* Set with a timeout.                                                     *)
(***************************************************************************)
\* infuse_state_set_timeout keeps the invariant, with and without a free slot.
LEMMA SetTimeoutStep ==
  ASSUME Inv, NEW s \in State, NEW timeout \in 1 .. MaxTimeout,
         infuse_state_set_timeout(s, timeout)
  PROVE  Inv'
<1>1. RestType /\ timeout_states \in [Slots -> SlotType] /\ timeout_mask \subseteq Slots
      /\ TypeOK /\ Unique
  BY TypeSplit DEF Inv
<1>2. timeout \in Nat /\ timeout > 0
  BY StatesAssumption
<1>3. PICK k \in Slots :
        /\ SlotFor(s, k)
        /\ timeout_mask' = timeout_mask \cup {k}
        /\ timeout_states' = [timeout_states EXCEPT ![k] = [state |-> s, timeout |-> timeout]]
        /\ application_states' = application_states \cup {s}
        /\ Returned(IF k \in timeout_mask THEN 1 ELSE Bit(s \in application_states), s)
        /\ Notify({s}, "set")
        /\ Promise(s, timeout)
        /\ UNCHANGED <<iter, snapshot, registered>>
  BY Zenon DEF infuse_state_set_timeout, worker
<1> DEFINE cell == [state |-> s, timeout |-> timeout]
<1>4. cell \in SlotType /\ cell.state = s /\ cell.timeout = timeout
  BY <1>2, SMTT(30) DEF SlotType
<1> HIDE DEF cell
<1>5. /\ timeout_states' \in [Slots -> SlotType] /\ timeout_mask' \subseteq Slots
      /\ timeout_states'[k] = cell
      /\ \A i \in Slots : i # k => timeout_states'[i] = timeout_states[i]
  BY <1>1, <1>3, <1>4 DEF cell
<1>6. \A i \in timeout_mask : i # k => timeout_states[i].state # s
  BY <1>1, <1>3, FindSlot, SMTT(30) DEF SlotFor, Unique
<1>7. /\ asked'[s] = timeout /\ seen'[s] = 0
      /\ late'[s] = IF timeout > 0 /\ iter = Evaluated /\ s \in snapshot THEN 1 ELSE 0
      /\ \A t \in State : t # s => /\ asked'[t] = asked[t] /\ seen'[t] = seen[t]
                                   /\ late'[t] = late[t]
      /\ asked' \in [State -> Nat] /\ seen' \in [State -> Nat] /\ late' \in [State -> 0 .. 1]
  BY <1>1, <1>2, <1>3, PromiseType
<1>8. TypeOK'
  <2>1. told' \in [State -> {"none", "set", "cleared"}]
    BY <1>1, <1>3, NotifyType
  <2>2. ret' \in [already : 0 .. 1, was : 0 .. 1]
    <3>1. Bit(s \in application_states) \in 0 .. 1  BY BitType, SMTT(30)
    <3> QED BY <1>3, <3>1, ReturnedType, SMTT(30)
  <2>3. RestType'
    BY <1>1, <1>3, <1>7, <2>1, <2>2, SMTT(30) DEF RestType
  <2> QED BY <1>5, <2>3, TypeSplit, SMTT(30)
<1>9. SlotInv(k)'
  <2>1. Due(s)' = late'[s]
    BY <1>2, <1>3, <1>7, SMTT(30) DEF Due
  <2>2. timeout + seen'[s] = asked'[s] - late'[s] + late'[s]
    BY <1>2, <1>7, SMTT(30)
  <2> QED BY <1>2, <1>3, <1>4, <1>5, <1>7, <2>1, <2>2, SMTT(30) DEF SlotInv
<1>10. ASSUME NEW i \in timeout_mask', i # k PROVE SlotInv(i)'
  <2>1. /\ i \in timeout_mask /\ SlotInv(i) /\ timeout_states'[i] = timeout_states[i]
        /\ timeout_states[i].state # s
    BY <1>1, <1>3, <1>5, <1>6, <1>10, SMTT(30) DEF Inv
  <2>2. timeout_states[i].state \in State /\ timeout_states[i].state \in application_states'
    BY <1>3, <2>1, SMTT(30) DEF SlotInv
  <2>3. Due(timeout_states[i].state)' = Due(timeout_states[i].state)
    BY <1>3, <2>1 DEF Due
  <2> QED BY <1>7, <2>1, <2>2, <2>3, SMTT(30) DEF SlotInv
<1>11. Unique'
  BY <1>1, <1>3, <1>4, <1>5, <1>6, SMTT(30) DEF Unique
<1>12. Kept'
  <2> SUFFICES ASSUME NEW t \in State, asked'[t] > 0
               PROVE  \E i \in timeout_mask' : timeout_states'[i].state = t
    BY SMTT(30) DEF Kept
  <2>1. CASE t = s
    BY <1>3, <1>4, <1>5, <2>1, SMTT(30)
  <2>2. CASE t # s
    <3>1. asked[t] > 0  BY <1>7, <2>2, SMTT(30)
    <3>2. PICK i \in timeout_mask : timeout_states[i].state = t
      BY <3>1, SMTT(30) DEF Inv, Kept
    <3>3. i # k
      BY <1>1, <1>3, <2>2, <3>2, FindSlot DEF SlotFor, IsLowest
    <3> QED BY <1>1, <1>3, <1>5, <3>2, <3>3, SMTT(30)
  <2> QED BY <2>1, <2>2
<1>13. Free'
  BY <1>3, <1>5, SMTT(30) DEF Inv, Free
<1> QED BY <1>8, <1>9, <1>10, <1>11, <1>12, <1>13 DEF Inv

-----------------------------------------------------------------------------
(***************************************************************************)
(* The worker.                                                             *)
(***************************************************************************)
\* Copying the states word by word keeps the invariant.
LEMMA SnapshotStep ==
  ASSUME Inv, infuse_states_snapshot
  PROVE  Inv'
<1>1. RestType /\ timeout_states \in [Slots -> SlotType] /\ timeout_mask \subseteq Slots
  BY TypeSplit, SMTT(30) DEF Inv
<1>2. /\ iter < Copied /\ iter' = iter + 1 /\ snapshot' \subseteq State
      /\ iter # Evaluated /\ iter' # Evaluated /\ iter' \in 0 .. Evaluated
      /\ UNCHANGED <<application_states, timeout_states, timeout_mask, registered, told, ret,
                     asked, seen, late>>
  BY <1>1, SlotFacts DEF infuse_states_snapshot, slots, promise, RestType, Copied, Evaluated
<1>3. TypeOK'
  BY <1>1, <1>2, TypeSplit, SMTT(30) DEF RestType
<1>4. \A s : Due(s)' = 0 /\ Due(s) = 0
  BY <1>2 DEF Due
<1>5. \A i \in timeout_mask : SlotInv(i)'
  BY <1>2, <1>4, SMTT(30) DEF Inv, SlotInv
<1> QED BY <1>2, <1>3, <1>5 DEF Inv, Unique, Kept, Free

\* An evaluation keeps the invariant: it is counted for the states it saw.
LEMMA EvaluateStep ==
  ASSUME Inv, task_runner_iterate
  PROVE  Inv'
<1>1. RestType /\ timeout_states \in [Slots -> SlotType] /\ timeout_mask \subseteq Slots
  BY TypeSplit DEF Inv
<1>2. /\ iter = Copied /\ iter' = Evaluated
      /\ iter # Evaluated /\ iter' \in 0 .. Evaluated
      /\ UNCHANGED <<application_states, timeout_states, timeout_mask, snapshot, registered,
                     told, ret, asked, late>>
  BY SlotFacts, SMTT(30) DEF task_runner_iterate, slots
<1>3. /\ seen' \in [State -> Nat]
      /\ \A s \in State : asked[s] > 0 => seen'[s] = seen[s] + Due(s)'
  BY <1>1, <1>2 DEF task_runner_iterate, RestType, Due
<1>4. TypeOK'
  BY <1>1, <1>2, <1>3, TypeSplit, SMTT(30) DEF RestType
<1>5. ASSUME NEW i \in timeout_mask PROVE SlotInv(i)'
  <2>0. PICK s, t : s = timeout_states[i].state /\ t = timeout_states[i].timeout
    BY SMTT(30)
  <2>1. /\ s \in State /\ s \in application_states /\ t > 0 /\ asked[s] > 0
        /\ t + seen[s] = asked[s] - late[s] + Due(s)
    BY <2>0 DEF Inv, SlotInv
  <2>2. Due(s) = 0 /\ Due(s)' \in 0 .. 1
    BY <1>2 DEF Due
  <2>3. t \in Nat /\ seen[s] \in Nat /\ asked[s] \in Nat /\ late[s] \in Nat
    BY <1>1, <2>0, <2>1 DEF RestType, SlotType
  <2>4. seen'[s] = seen[s] + Due(s)'
    BY <1>3, <2>1
  <2>5. t + seen'[s] = asked[s] - late[s] + Due(s)'
    BY <2>1, <2>2, <2>3, <2>4
  <2> QED BY <1>2, <2>0, <2>1, <2>5 DEF SlotInv
<1> QED BY <1>2, <1>4, <1>5 DEF Inv, Unique, Kept, Free

\* A tick frees the slots that expire, counts down those it copied and
\* leaves the others alone.
LEMMA TickSlots ==
  ASSUME Inv, infuse_states_tick
  PROVE  /\ timeout_mask' = timeout_mask \ Expired /\ Expired \subseteq timeout_mask
         /\ timeout_states' \in [Slots -> SlotType]
         /\ \A i \in Expired : timeout_states'[i] = FreeSlot
         /\ \A i \in Slots : i \notin Counted => timeout_states'[i] = timeout_states[i]
         /\ \A i \in Counted : i \notin Expired =>
              /\ timeout_states'[i].state = timeout_states[i].state
              /\ timeout_states'[i].timeout = timeout_states[i].timeout - 1
              /\ timeout_states'[i].timeout > 0
<1>1. timeout_states \in [Slots -> SlotType] /\ timeout_mask \subseteq Slots
  BY TypeSplit DEF Inv
<1>2. /\ timeout_mask' = timeout_mask \ Expired /\ Expired \subseteq timeout_mask
      /\ Expired \subseteq Counted /\ Counted \subseteq timeout_mask
  BY DEF infuse_states_tick, Expired, Counted
<1>3. timeout_states' =
        [i \in Slots |-> IF i \in Expired THEN FreeSlot
                         ELSE IF i \in Counted
                         THEN [timeout_states[i] EXCEPT !.timeout = @ - 1]
                         ELSE timeout_states[i]]
  BY DEF infuse_states_tick
<1>4. ASSUME NEW i \in Counted, i \notin Expired
      PROVE  LET c == [timeout_states[i] EXCEPT !.timeout = @ - 1]
             IN  /\ c \in SlotType /\ c.state = timeout_states[i].state
                 /\ c.timeout = timeout_states[i].timeout - 1 /\ c.timeout > 0
  <2>1. timeout_states[i] \in SlotType /\ timeout_states[i].timeout > 0
    BY <1>1, <1>2 DEF Inv, SlotInv
  <2>2. timeout_states[i].timeout # 1
    BY <1>4 DEF Expired
  <2>3. timeout_states[i].timeout - 1 \in Nat /\ timeout_states[i].timeout - 1 > 0
    BY <2>1, <2>2 DEF SlotType
  <2> QED BY <2>1, <2>3, SMTT(30) DEF SlotType
<1>5. timeout_states' \in [Slots -> SlotType]
  <2>1. \A i \in Slots : timeout_states[i] \in SlotType
    BY <1>1
  <2> QED BY <1>3, <1>4, <2>1, SlotFacts
<1>6. \A i \in Counted : i \in Slots
  BY <1>1, <1>2
<1>7. \A i \in Expired : timeout_states'[i] = FreeSlot
  BY <1>2, <1>3, <1>6
<1>8. \A i \in Slots : i \notin Counted => timeout_states'[i] = timeout_states[i]
  BY <1>2, <1>3
<1>9. \A i \in Counted : i \notin Expired =>
        timeout_states'[i] = [timeout_states[i] EXCEPT !.timeout = @ - 1]
  BY <1>3, <1>6
<1> QED BY <1>2, <1>4, <1>5, <1>7, <1>8, <1>9, Zenon

\* infuse_states_tick keeps the invariant.
LEMMA TickStep ==
  ASSUME Inv, infuse_states_tick
  PROVE  Inv'
<1>1. RestType /\ timeout_states \in [Slots -> SlotType] /\ timeout_mask \subseteq Slots
  BY TypeSplit DEF Inv
<1> DEFINE gone == StatesOf(Expired)
<1>2. /\ iter = Evaluated /\ iter' = 0 /\ snapshot' = {} /\ UNCHANGED <<registered, ret>>
      /\ application_states' = application_states \ gone
      /\ Notify(gone, "cleared")
      /\ asked' = [s \in State |-> IF s \in gone THEN 0 ELSE asked[s]]
      /\ seen' = [s \in State |-> IF s \in gone THEN 0 ELSE seen[s]]
      /\ late' = [s \in State |-> IF s \in gone THEN 0 ELSE late[s]]
  BY DEF infuse_states_tick
<1>3. \A i \in timeout_mask : timeout_states[i].state \in gone <=> i \in Expired
  BY SMTT(30) DEF Inv, Unique, StatesOf, Expired, Counted
<1> HIDE DEF gone
<1>4. /\ asked' \in [State -> Nat] /\ seen' \in [State -> Nat] /\ late' \in [State -> 0 .. 1]
      /\ \A s \in State : s \notin gone => /\ asked'[s] = asked[s] /\ seen'[s] = seen[s]
                                           /\ late'[s] = late[s]
      /\ \A s \in State : s \in gone => asked'[s] = 0
  BY <1>1, <1>2 DEF RestType
<1>5. TypeOK'
  <2>1. told' \in [State -> {"none", "set", "cleared"}]
    BY <1>1, <1>2, NotifyType, SMTT(30)
  <2>2. RestType'
    BY <1>1, <1>2, <1>4, <2>1, SlotFacts, SMTT(30) DEF RestType
  <2> QED BY <1>1, <2>2, TickSlots, TypeSplit, SMTT(30)
<1>6. \A i \in timeout_mask' : /\ i \in timeout_mask /\ i \notin Expired /\ i \in Slots
                               /\ timeout_states'[i].state = timeout_states[i].state
  BY <1>1, TickSlots
<1>7. ASSUME NEW i \in timeout_mask' PROVE SlotInv(i)'
  <2>0. PICK s, t : s = timeout_states[i].state /\ t = timeout_states[i].timeout
    BY SMTT(30)
  <2>1. /\ s \in State /\ s \in application_states /\ t > 0 /\ asked[s] > 0
        /\ t + seen[s] = asked[s] - late[s] + Due(s)
    BY <1>6, <2>0, SMTT(30) DEF Inv, SlotInv
  <2>2. t \in Nat /\ seen[s] \in Nat /\ asked[s] \in Nat /\ late[s] \in Nat
    BY <1>1, <1>6, <2>0, <2>1, SMTT(30) DEF RestType, SlotType
  <2>3. s \notin gone
    BY <1>3, <1>6, <2>0, SMTT(30)
  <2>4. timeout_states'[i].timeout = t - Due(s) /\ timeout_states'[i].timeout > 0
    <3>1. CASE s \in snapshot
      <4>1. i \in Counted /\ i \notin Expired /\ Due(s) = 1
        BY <1>2, <1>6, <2>0, <3>1, SMTT(30) DEF Counted, Due
      <4> QED BY <2>0, <4>1, TickSlots, SMTT(30)
    <3>2. CASE s \notin snapshot
      <4>1. i \notin Counted /\ Due(s) = 0
        BY <2>0, <3>2 DEF Counted, Due
      <4>2. timeout_states'[i] = timeout_states[i]
        BY <1>6, <4>1, TickSlots, SMTT(30)
      <4> QED BY <2>0, <2>1, <2>2, <4>1, <4>2
    <3> QED BY <3>1, <3>2, SMTT(30)
  <2>5. Due(s)' = 0 /\ Due(s) \in 0 .. 1
    BY <1>2, SlotFacts DEF Due
  <2>6. timeout_states'[i].state = s /\ s \in application_states'
    BY <1>2, <1>6, <2>0, <2>1, <2>3, SMTT(30)
  <2>7. asked'[s] = asked[s] /\ seen'[s] = seen[s] /\ late'[s] = late[s]
    BY <1>4, <2>1, <2>3, SMTT(30)
  <2>8. timeout_states'[i].timeout + seen'[s] = asked'[s] - late'[s] + Due(s)'
    BY <2>1, <2>2, <2>4, <2>5, <2>7, SMTT(30)
  <2> QED BY <2>1, <2>4, <2>6, <2>7, <2>8, SMTT(30) DEF SlotInv
<1>8. Unique'
  BY <1>6 DEF Inv, Unique
<1>9. Kept'
  <2> SUFFICES ASSUME NEW s \in State, asked'[s] > 0
               PROVE  \E i \in timeout_mask' : timeout_states'[i].state = s
    BY DEF Kept
  <2>1. s \notin gone /\ asked[s] > 0
    BY <1>4, SMTT(30)
  <2>2. PICK i \in timeout_mask : timeout_states[i].state = s
    BY <2>1 DEF Inv, Kept
  <2>3. i \in timeout_mask'
    BY <1>3, <2>1, <2>2, TickSlots
  <2> QED BY <1>6, <2>2, <2>3
<1>10. Free'
  <2> SUFFICES ASSUME NEW i \in Slots, i \notin timeout_mask' PROVE timeout_states'[i] = FreeSlot
    BY SMTT(30) DEF Free
  <2>1. CASE i \in Expired
    BY <2>1, TickSlots, SMTT(30)
  <2>2. CASE i \notin Expired
    <3>1. i \notin timeout_mask
      BY <2>2, TickSlots
    <3>2. i \notin Counted
      BY <3>1 DEF Counted
    <3> QED BY <3>1, <3>2, TickSlots, SMTT(30) DEF Inv, Free
  <2> QED BY <2>1, <2>2
<1> QED BY <1>5, <1>7, <1>8, <1>9, <1>10, SMTT(30) DEF Inv

-----------------------------------------------------------------------------
(***************************************************************************)
(* The invariant and what it gives.                                        *)
(***************************************************************************)
\* The invariant holds at the start.
LEMMA InitInv == Init => Inv
<1> SUFFICES ASSUME Init PROVE Inv
  BY SMTT(30)
<1>1. TypeOK
  BY SlotFacts, SMTT(30) DEF Init, TypeOK, SlotType
<1> QED BY <1>1 DEF Init, Inv, Unique, Kept, Free

\* Steps that leave states, slots, worker and promises alone.
LEMMA OtherStep ==
  ASSUME Inv, UNCHANGED <<application_states, timeout_states, timeout_mask, iter, snapshot,
                          asked, seen, late>>,
         registered' \in 0 .. 1, told' \in [State -> {"none", "set", "cleared"}],
         ret' \in [already : 0 .. 1, was : 0 .. 1]
  PROVE  Inv'
<1>1. TypeOK'
  BY DEF Inv, TypeOK
<1>2. \A i \in timeout_mask : SlotInv(i)'
  BY SMTT(30) DEF Inv, SlotInv, Due
<1> QED BY <1>1, <1>2, SMTT(30) DEF Inv, Unique, Kept, Free

\* Every step keeps the invariant.
LEMMA NextInv == Inv /\ [Next]_vars => Inv'
<1> SUFFICES ASSUME Inv, [Next]_vars PROVE Inv'
  BY SMTT(30)
<1>1. /\ registered \in 0 .. 1 /\ told \in [State -> {"none", "set", "cleared"}]
      /\ ret \in [already : 0 .. 1, was : 0 .. 1]
  BY DEF Inv, TypeOK
<1>2. ASSUME NEW s \in State,
             \/ infuse_state_set(s)
             \/ infuse_state_clear(s)
             \/ infuse_state_set_timeout_full(s)
             \/ \E timeout \in 1 .. MaxTimeout : infuse_state_set_timeout(s, timeout)
      PROVE  Inv'
  <2>1. CASE infuse_state_set_timeout_full(s)
    <3>1. ret' \in [already : 0 .. 1, was : 0 .. 1]
      BY <2>1, ReturnedType, SMTT(30) DEF infuse_state_set_timeout_full
    <3> QED BY <1>1, <2>1, <3>1, OtherStep
            DEF infuse_state_set_timeout_full, slots, worker, promise
  <2> QED BY <1>2, <2>1, SetStep, ClearStep, SetTimeoutStep, SMTT(30)
<1>3. CASE infuse_state_register_callback \/ infuse_state_unregister_callback
  BY <1>1, <1>3, OtherStep DEF infuse_state_register_callback,
     infuse_state_unregister_callback, slots, worker, promise
<1>4. CASE Worker
  BY <1>4, SnapshotStep, EvaluateStep, TickStep, SMTT(30) DEF Worker
<1>5. CASE UNCHANGED vars
  BY <1>1, <1>5, OtherStep DEF vars, slots, worker, promise
<1> QED BY <1>2, <1>3, <1>4, <1>5 DEF Next

\* The invariant always holds.
LEMMA Induction == Spec => []Inv
BY InitInv, NextInv, PTL DEF Spec

\* Slots and bits agree.
LEMMA InvSlots == Inv => SlotsConsistent
BY DEF Inv, SlotInv, Unique, Free, SlotsConsistent

\* Exactly the states with a promise have a slot.
LEMMA InvNoStray == Inv => NoStrayTimeout
<1> SUFFICES ASSUME Inv, NEW s \in State
             PROVE  (asked[s] = 0) = (find_timeout_state(s) = NoSlot)
  BY DEF NoStrayTimeout
<1>1. asked[s] \in Nat
  BY DEF Inv, TypeOK
<1>2. CASE find_timeout_state(s) = NoSlot
  <2>1. \A i \in timeout_mask : timeout_states[i].state # s
    BY <1>2, FindSlot DEF Inv
  <2>2. ~(asked[s] > 0)
    BY <2>1 DEF Inv, Kept
  <2>3. asked[s] = 0
    BY <1>1, <2>2
  <2> QED BY <1>2, <2>3
<1>3. CASE find_timeout_state(s) # NoSlot
  <2>1. /\ find_timeout_state(s) \in timeout_mask
        /\ timeout_states[find_timeout_state(s)].state = s
    BY <1>3, FindSlot, SMTT(30) DEF Inv
  <2>2. asked[s] > 0
    BY <2>1 DEF Inv, SlotInv
  <2>3. asked[s] # 0
    BY <1>1, <2>2, SMTT(30)
  <2> QED BY <1>3, <2>3
<1> QED BY <1>2, <1>3, SMTT(30)

\* A state lasts for the evaluations it was asked to last.
LEMMA InvLasts == Inv => StateLasts
<1> SUFFICES ASSUME Inv, NEW s \in State, asked[s] > 0
             PROVE  Owed(s) = asked[s] - late[s]
  BY SMTT(30) DEF StateLasts
<1>1. /\ asked[s] \in Nat /\ seen[s] \in Nat /\ late[s] \in Nat
      /\ timeout_states \in [Slots -> SlotType] /\ TypeOK /\ Unique
  BY DEF Inv, TypeOK, SlotType
<1>2. PICK i \in timeout_mask : timeout_states[i].state = s
  BY SMTT(30) DEF Inv, Kept
<1>3. find_timeout_state(s) # NoSlot /\ find_timeout_state(s) = i
  BY <1>1, <1>2, FindSlot, SMTT(30) DEF Unique
<1>4. /\ timeout_states[i].timeout + seen[s] = asked[s] - late[s] + Due(s)
      /\ s \in application_states
  BY <1>2, SMTT(30) DEF Inv, SlotInv
<1>5. timeout_states[i].timeout \in Nat
  BY <1>1, <1>2 DEF TypeOK, SlotType
<1>6. Owed(s) = timeout_states[i].timeout + seen[s] - Due(s) /\ Due(s) \in 0 .. 1
  BY <1>3, <1>4, SMTT(30) DEF Owed, infuse_state_get_timeout, Due, Bit
<1> QED BY <1>1, <1>4, <1>5, <1>6, SMTT(30)

\* What callbacks are told, with what makes it inductive: an unregistered
\* callback was told nothing.
ToldInv == CallbacksTruthful /\ (registered = 0 => \A s \in State : told[s] = "none")

\* Every step keeps what is known of the callbacks.
LEMMA ToldStep == Inv /\ ToldInv /\ [Next]_vars => ToldInv'
<1> SUFFICES ASSUME Inv, ToldInv, [Next]_vars PROVE ToldInv'
  BY SMTT(30)
<1>1. told \in [State -> {"none", "set", "cleared"}] /\ registered \in 0 .. 1
  BY DEF Inv, TypeOK
<1>2. ASSUME NEW S, Notify(S, "set"), application_states' = application_states \cup S,
             registered' = registered
      PROVE  ToldInv'
  BY <1>1, <1>2, SMTT(30) DEF ToldInv, CallbacksTruthful, Notify
<1>3. ASSUME NEW S, Notify(S, "cleared"), application_states' = application_states \ S,
             registered' = registered
      PROVE  ToldInv'
  BY <1>1, <1>3 DEF ToldInv, CallbacksTruthful, Notify
<1>4. ASSUME NEW s \in State, infuse_state_set(s) PROVE ToldInv'
  BY <1>2, <1>4, SMTT(30) DEF infuse_state_set
<1>5. ASSUME NEW s \in State, NEW timeout \in 1 .. MaxTimeout, infuse_state_set_timeout(s, timeout)
      PROVE  ToldInv'
  BY <1>2, <1>5 DEF infuse_state_set_timeout
<1>6. ASSUME NEW s \in State, infuse_state_clear(s) PROVE ToldInv'
  <2>1. CASE s \in application_states
    BY <1>3, <1>6, <2>1, SMTT(30) DEF infuse_state_clear
  <2>2. CASE s \notin application_states
    BY <1>6, <2>2, SMTT(30) DEF infuse_state_clear, ToldInv, CallbacksTruthful
  <2> QED BY <2>1, <2>2, SMTT(30)
<1>7. CASE infuse_states_tick
  BY <1>3, <1>7 DEF infuse_states_tick
<1>8. CASE infuse_state_register_callback \/ infuse_state_unregister_callback
  BY <1>8, SMTT(30) DEF infuse_state_register_callback, infuse_state_unregister_callback, ToldInv,
     CallbacksTruthful
<1>9. ASSUME UNCHANGED <<application_states, told, registered>> PROVE ToldInv'
  BY <1>9 DEF ToldInv, CallbacksTruthful
<1>10. ASSUME NEW s \in State, infuse_state_set_timeout_full(s) PROVE ToldInv'
  BY <1>9, <1>10, SMTT(30) DEF infuse_state_set_timeout_full
<1>11. CASE infuse_states_snapshot \/ task_runner_iterate \/ UNCHANGED vars
  BY <1>9, <1>11 DEF infuse_states_snapshot, task_runner_iterate, vars
<1> QED BY <1>4, <1>5, <1>6, <1>7, <1>8, <1>10, <1>11 DEF Next, Worker

-----------------------------------------------------------------------------
\* Timeout slots are never leaked, shared or left with nothing to count, for any
\* number of states and slots: what infuse_state_set, _set_timeout, _clear and
\* the tick do to timeout_states and timeout_mask always matches the bitmap.
THEOREM SlotsAlwaysConsistent == Spec => []SlotsConsistent
BY Induction, InvSlots, PTL

\* A state is waiting for a timeout exactly when one was asked for and neither
\* infuse_state_set nor infuse_state_clear took it back.
THEOREM NeverStrayTimeout == Spec => []NoStrayTimeout
BY Induction, InvNoStray, PTL

\* infuse_states_tick gives every timeout of N seconds its N evaluations, but
\* for the one a restart between evaluation and tick may cost, whatever the
\* interleaving with the word by word copy and with other callers.
THEOREM StateAlwaysLasts == Spec => []StateLasts
BY Induction, InvLasts, PTL

\* Callbacks are told of every change of a state they know of.
THEOREM CallbacksAlwaysTruthful == Spec => []CallbacksTruthful
<1>1. Init => ToldInv
  BY DEF Init, ToldInv, CallbacksTruthful
<1>2. ToldInv => CallbacksTruthful
  BY DEF ToldInv
<1> QED BY <1>1, <1>2, Induction, ToldStep, PTL DEF Spec
=============================================================================
