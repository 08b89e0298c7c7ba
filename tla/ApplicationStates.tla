-------------------------- MODULE ApplicationStates --------------------------
(***************************************************************************)
(* The application states of lib/states/application_states.c: a bitmap of  *)
(* named states, some of which clear themselves after a number of seconds, *)
(* and the worker of subsys/task_runner/auto_iterate.c that once a second  *)
(* copies the bitmap, evaluates the task schedules on the copy and ticks   *)
(* the timeouts.                                                           *)
(*                                                                         *)
(* Any thread may set or clear a state at any time.  Those calls and the   *)
(* tick hold timeout_lock, a spinlock, and are atomic; the copy takes no   *)
(* lock and is made word by word.                                          *)
(***************************************************************************)
EXTENDS Integers, FiniteSets

CONSTANTS State,        \* enum infuse_state
          WordOf,        \* the word of the bitmap a state is in
          NumWords,      \* INFUSE_STATES_ARRAY_SIZE
          MaxTimeouts,   \* CONFIG_INFUSE_APPLICATION_STATES_MAX_TIMEOUTS
          MaxTimeout     \* bound on the timeouts asked for, in seconds

ASSUME StatesAssumption ==
  /\ NumWords \in Nat \ {0}
  /\ WordOf \in [State -> 0 .. NumWords - 1]
  /\ MaxTimeouts \in Nat
  /\ MaxTimeout \in Nat
  /\ 0 \notin State

VARIABLES application_states,  \* the states whose bit is set
          timeout_states,      \* slot -> [state, timeout]
          timeout_mask,        \* the slots in use
          iter,                \* progress of the iterate worker, see Evaluated
          snapshot,            \* the worker's copy of the bitmap
          registered,          \* a registered callback: 0 or 1
          told,                \* what that callback was last told of a state
          ret,                 \* what the last set or clear returned, and was
          asked,               \* ghost: timeout of the last set_timeout
          seen,                \* ghost: evaluations that saw the state since
          late                 \* ghost: it came between evaluation and tick

slots == <<timeout_states, timeout_mask>>
worker == <<iter, snapshot>>
promise == <<asked, seen, late>>
vars == <<application_states, slots, worker, registered, told, ret, promise>>

Slots == 0 .. MaxTimeouts - 1
NoSlot == MaxTimeouts
Bit(b) == IF b THEN 1 ELSE 0
IsLowest(i, S) == i \in S /\ \A j \in S : i <= j

\* The worker has copied words 0 .. iter - 1; with all words copied it
\* evaluates the schedules, then ticks.
Copied == NumWords
Evaluated == NumWords + 1

FreeSlot == [state |-> 0, timeout |-> 0]

Init ==
  /\ application_states = {}
  /\ timeout_states = [i \in Slots |-> FreeSlot]
  /\ timeout_mask = {}
  /\ iter = 0
  /\ snapshot = {}
  /\ registered = 0
  /\ told = [s \in State |-> "none"]
  /\ ret = [already |-> 0, was |-> 0]
  /\ asked = [s \in State |-> 0]
  /\ seen = [s \in State |-> 0]
  /\ late = [s \in State |-> 0]

-----------------------------------------------------------------------------
SlotsOf(s) == {i \in timeout_mask : timeout_states[i].state = s}

find_timeout_state(s) == IF SlotsOf(s) = {} THEN NoSlot ELSE CHOOSE i \in Slots : IsLowest(i, SlotsOf(s))

\* mask ^= BIT(i)
Toggle(mask, i) == IF i \in mask THEN mask \ {i} ELSE mask \cup {i}

clear_timeout_state(s) ==
  LET i == find_timeout_state(s)
  IN  IF i = NoSlot THEN UNCHANGED slots
      ELSE /\ timeout_states' = [timeout_states EXCEPT ![i] = FreeSlot]
           /\ timeout_mask' = Toggle(timeout_mask, i)

\* Notify the registered callbacks about a set of states.
Notify(states, event) ==
  told' = IF registered = 0 THEN told
          ELSE [s \in State |-> IF s \in states THEN event ELSE told[s]]

Returned(already, s) ==
  ret' = [already |-> already, was |-> Bit(s \in application_states)]

\* The promises made by infuse_state_set_timeout (ghost).
Promise(s, timeout) ==
  /\ asked' = [asked EXCEPT ![s] = timeout]
  /\ seen' = [seen EXCEPT ![s] = 0]
  /\ late' = [late EXCEPT ![s] = Bit(timeout > 0 /\ iter = Evaluated /\ s \in snapshot)]

infuse_state_set(s) ==
  /\ application_states' = application_states \cup {s}
  /\ IF s \in application_states THEN clear_timeout_state(s) ELSE UNCHANGED slots
  /\ Returned(Bit(s \in application_states), s)
  /\ Notify({s}, "set")
  /\ Promise(s, 0)
  /\ UNCHANGED <<worker, registered>>

\* Every slot is in use: nothing is set, nobody is notified.
infuse_state_set_timeout_full(s) ==
  /\ find_timeout_state(s) = NoSlot
  /\ Cardinality(timeout_mask) = MaxTimeouts
  /\ Returned(0, s)
  /\ UNCHANGED <<application_states, slots, worker, registered, told, promise>>

\* Mutant: a state that already has a slot gets a second one.
SlotFor_another(s, i) == IsLowest(i, Slots \ timeout_mask)

\* The slot the state has, or else the lowest free one.
SlotFor(s, i) ==
  IF find_timeout_state(s) # NoSlot THEN i = find_timeout_state(s)
  ELSE IsLowest(i, Slots \ timeout_mask)

infuse_state_set_timeout(s, timeout) ==
  \E i \in Slots :
    /\ SlotFor(s, i)
    /\ timeout_mask' = timeout_mask \cup {i}
    /\ timeout_states' = [timeout_states EXCEPT ![i] = [state |-> s, timeout |-> timeout]]
    /\ application_states' = application_states \cup {s}
    /\ Returned(IF i \in timeout_mask THEN 1 ELSE Bit(s \in application_states), s)
    /\ Notify({s}, "set")
    /\ Promise(s, timeout)
    /\ UNCHANGED <<worker, registered>>

infuse_state_clear(s) ==
  /\ application_states' = application_states \ {s}
  /\ IF s \in application_states
     THEN clear_timeout_state(s) /\ Notify({s}, "cleared")
     ELSE UNCHANGED <<slots, told>>
  /\ Returned(Bit(s \in application_states), s)
  /\ Promise(s, 0)
  /\ UNCHANGED <<worker, registered>>

infuse_state_register_callback ==
  /\ registered = 0
  /\ registered' = 1
  /\ told' = [s \in State |-> "none"]
  /\ UNCHANGED <<application_states, slots, worker, ret, promise>>

infuse_state_unregister_callback ==
  /\ registered = 1
  /\ registered' = 0
  /\ told' = [s \in State |-> "none"]
  /\ UNCHANGED <<application_states, slots, worker, ret, promise>>

-----------------------------------------------------------------------------
(***************************************************************************)
(* iterate_worker                                                          *)
(***************************************************************************)
\* Mutant: the worker is not scheduled again while a timeout is pending.
infuse_states_snapshot_waits ==
  /\ iter < Copied
  /\ iter = 0 => timeout_mask = {}
  /\ iter' = iter + 1
  /\ snapshot' = snapshot \cup {s \in application_states : WordOf[s] = iter}
  /\ UNCHANGED <<application_states, slots, registered, told, ret, promise>>

\* Copy one word.
infuse_states_snapshot ==
  /\ iter < Copied
  /\ iter' = iter + 1
  /\ snapshot' = snapshot \cup {s \in application_states : WordOf[s] = iter}
  /\ UNCHANGED <<application_states, slots, registered, told, ret, promise>>

\* The schedules are evaluated on the copy.
task_runner_iterate ==
  /\ iter = Copied
  /\ iter' = Evaluated
  /\ seen' = [s \in State |-> IF s \in snapshot /\ asked[s] > 0 THEN seen[s] + 1 ELSE seen[s]]
  /\ UNCHANGED <<application_states, slots, snapshot, registered, told, ret, asked, late>>

\* Mutant: every timeout is counted, also of states the copy does not have.
Counted_all == timeout_mask

Counted == {i \in timeout_mask : timeout_states[i].state \in snapshot}
Expired == {i \in Counted : timeout_states[i].timeout = 1}
StatesOf(S) == {timeout_states[i].state : i \in S}

\* Mutant: expired states are cleared without telling anybody.
infuse_states_tick_silent ==
  /\ iter = Evaluated
  /\ timeout_states' =
       [i \in Slots |-> IF i \in Expired THEN FreeSlot
                        ELSE IF i \in Counted
                        THEN [timeout_states[i] EXCEPT !.timeout = @ - 1]
                        ELSE timeout_states[i]]
  /\ timeout_mask' = timeout_mask \ Expired
  /\ application_states' = application_states \ StatesOf(Expired)
  /\ asked' = [s \in State |-> IF s \in StatesOf(Expired) THEN 0 ELSE asked[s]]
  /\ seen' = [s \in State |-> IF s \in StatesOf(Expired) THEN 0 ELSE seen[s]]
  /\ late' = [s \in State |-> IF s \in StatesOf(Expired) THEN 0 ELSE late[s]]
  /\ iter' = 0 /\ snapshot' = {}
  /\ UNCHANGED <<registered, told, ret>>

\* Count down the timeouts of the states that were evaluated.
infuse_states_tick ==
  /\ iter = Evaluated
  /\ timeout_states' =
       [i \in Slots |-> IF i \in Expired THEN FreeSlot
                        ELSE IF i \in Counted
                        THEN [timeout_states[i] EXCEPT !.timeout = @ - 1]
                        ELSE timeout_states[i]]
  /\ timeout_mask' = timeout_mask \ Expired
  /\ application_states' = application_states \ StatesOf(Expired)
  /\ Notify(StatesOf(Expired), "cleared")
  /\ asked' = [s \in State |-> IF s \in StatesOf(Expired) THEN 0 ELSE asked[s]]
  /\ seen' = [s \in State |-> IF s \in StatesOf(Expired) THEN 0 ELSE seen[s]]
  /\ late' = [s \in State |-> IF s \in StatesOf(Expired) THEN 0 ELSE late[s]]
  /\ iter' = 0 /\ snapshot' = {}
  /\ UNCHANGED <<registered, ret>>

-----------------------------------------------------------------------------
Worker == infuse_states_snapshot \/ task_runner_iterate \/ infuse_states_tick

Next ==
  \/ \E s \in State :
       \/ infuse_state_set(s)
       \/ infuse_state_clear(s)
       \/ infuse_state_set_timeout_full(s)
       \/ \E timeout \in 1 .. MaxTimeout : infuse_state_set_timeout(s, timeout)
  \/ infuse_state_register_callback
  \/ infuse_state_unregister_callback
  \/ Worker

Spec == Init /\ [][Next]_vars

\* The worker reschedules itself every second; callers may never come.
FairSpec == Spec /\ WF_vars(Worker)

-----------------------------------------------------------------------------
(***************************************************************************)
(* Properties.                                                             *)
(***************************************************************************)
\* Every variable keeps its type.
TypeOK ==
  /\ application_states \subseteq State
  /\ timeout_states \in [Slots -> [state : State \cup {0}, timeout : Nat]]
  /\ timeout_mask \subseteq Slots
  /\ iter \in 0 .. Evaluated
  /\ snapshot \subseteq State
  /\ registered \in 0 .. 1
  /\ told \in [State -> {"none", "set", "cleared"}]
  /\ ret \in [already : 0 .. 1, was : 0 .. 1]
  /\ asked \in [State -> Nat]
  /\ seen \in [State -> Nat]
  /\ late \in [State -> 0 .. 1]

\* A slot never outlives its state: each slot in use belongs to one state that
\* is set, no two slots to the same state, and what it has left is not 0 (the
\* tick would wrap an unsigned 16 bit 0 around to 18 hours).
SlotsConsistent ==
  /\ \A i \in timeout_mask :
       /\ timeout_states[i].state \in application_states
       /\ timeout_states[i].timeout > 0
       /\ \A j \in timeout_mask :
            timeout_states[i].state = timeout_states[j].state => i = j
  /\ \A i \in Slots \ timeout_mask : timeout_states[i] = FreeSlot

\* -1 stands for -EINVAL.
infuse_state_get_timeout(s) ==
  IF s \notin application_states THEN -1
  ELSE IF find_timeout_state(s) = NoSlot THEN 0
  ELSE timeout_states[find_timeout_state(s)].timeout

\* The evaluations a state has had and is still to have: the timeout left is
\* counted down by the tick only, after the evaluation.
Owed(s) ==
  infuse_state_get_timeout(s) + seen[s] - Bit(iter = Evaluated /\ s \in snapshot)

\* A state set for N seconds that nobody sets again or clears is evaluated as
\* set exactly N times, and N - 1 times only if it was set before and is
\* restarted between evaluation and tick: no other race between callers, the
\* copy and the tick costs or adds an evaluation.
StateLasts ==
  \A s \in State : asked[s] > 0 => Owed(s) = asked[s] - late[s]

\* A state without a promised timeout never times out: it keeps no slot.
NoStrayTimeout ==
  \A s \in State : (asked[s] = 0) = (find_timeout_state(s) = NoSlot)

\* What a callback was last told of a state is what the state is, whichever of
\* the callers and the tick changed it.
CallbacksTruthful ==
  \A s \in State :
    /\ told[s] = "set" => s \in application_states
    /\ told[s] = "cleared" => s \notin application_states

\* A state that has a timeout clears, unless it is set again and again.
TimesOut ==
  \A s \in State :
    \/ []<>(asked[s] = 0)
    \/ []<><<\E timeout \in 1 .. MaxTimeout : infuse_state_set_timeout(s, timeout)>>_vars
=============================================================================
