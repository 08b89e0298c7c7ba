--------------------------- MODULE KvStoreProofs ----------------------------
(***************************************************************************)
(* The key-value store for any keys, values and threads, any number of     *)
(* calls and restarts.  That no value of another application is left       *)
(* holds however the calls of the threads interleave.  That the CRC and    *)
(* the subscribers are current at rest holds as long as calls do not       *)
(* overlap, whichever threads make them: the store has no lock around a    *)
(* write, its reflection and its callbacks.                                *)
(***************************************************************************)
EXTENDS KvStore, TLAPS

Places == {"idle", "delete", "fallback", "slot", "sum", "assign", "notify", "read_back"}

ThreadType ==
    [at : Places, op : {"none", "write", "delete", "fallback"}, key : Keys, value : Stored,
     sum : [Keys -> Stored], result : {"none", "zero", "error", "data", "done"}]

TypeInv ==
    /\ nvs \in [Keys -> Stored]
    /\ slots \in [Keys -> Stored]
    /\ reflect \in [Keys -> Stored]
    /\ told \in [Keys -> Stored]
    /\ th \in [Threads -> ThreadType]
    /\ boot \in {"check", "clear", "up"}

\* Calls do not overlap.
Busy(t) == th[t].at # "idle"
Serial == \A t, u \in Threads : Busy(t) /\ Busy(u) => t = u

\* Only values are foreign; the application runs on foreign values, or is about
\* to, only after a reset that was not finished.
OwnInv ==
    /\ foreign \subseteq {k \in Keys : nvs[k] # None}
    /\ boot = "up" /\ cut = "no" => foreign = {}
    /\ boot = "check" /\ cut = "no" /\ app_id # "other" => foreign = {}

\* What a thread at a place owes: the store has its value, which the slot, the
\* CRC or the subscribers do not have yet.
Written(f, t) == nvs = [f EXCEPT ![th[t].key] = th[t].value]

ReflectOwed(t) ==
    CASE th[t].at = "slot" -> Written(slots, t)
      [] th[t].at = "sum" -> slots = nvs
      [] th[t].at = "assign" -> slots = nvs /\ th[t].sum = nvs
      [] OTHER -> slots = nvs /\ reflect = nvs

ReflectInv ==
    /\ boot = "check" => slots = nvs /\ reflect = nvs
    /\ boot = "up" /\ cut # "failed" =>
         /\ \A t \in Threads : Busy(t) => ReflectOwed(t)
         /\ (\A t \in Threads : ~Busy(t)) => slots = nvs /\ reflect = nvs

ToldOwed(t) ==
    IF th[t].at \in {"slot", "sum", "assign", "notify"} THEN Written(told, t) ELSE told = nvs

ToldInv ==
    boot = "up" =>
        /\ \A t \in Threads : Busy(t) => ToldOwed(t)
        /\ (\A t \in Threads : ~Busy(t)) => told = nvs

\* Nothing is called before the device is up.
BootInv == boot # "up" => \A t \in Threads : ~Busy(t)

ThreadStep(t) ==
    \/ \E k \in Keys, v \in Values : kv_store_write(t, k, v) \/ kv_store_read_fallback(t, k, v)
    \/ \E k \in Keys : kv_store_delete(t, k)
    \/ nvs_delete(t) \/ write_fallback(t)
    \/ update_slot(t) \/ sum_slots(t) \/ assign_crc(t) \/ notify(t) \/ read_back(t)

-----------------------------------------------------------------------------
(***************************************************************************)
(* Types, and what every step of a thread leaves alone.                    *)
(***************************************************************************)
\* A thread that reboot or Init makes is idle.
LEMMA IdleType == \A k \in Keys : IdleThread(k) \in ThreadType /\ IdleThread(k).at = "idle"
  BY DEF IdleThread, ThreadType, Places, Stored

\* The types hold, and nothing is called, when the device starts.
LEMMA InitTypes == Init => TypeInv /\ BootInv
<1> SUFFICES ASSUME Init PROVE TypeInv /\ BootInv
  OBVIOUS
<1>1. PICK k \in Keys : th = [t \in Threads |-> IdleThread(k)]
  BY DEF Init
<1>2. th \in [Threads -> ThreadType]
  BY <1>1, IdleType
<1>3. \A t \in Threads : ~Busy(t)
  BY <1>1, IdleType DEF Busy
<1> QED
  BY <1>2, <1>3 DEF Init, TypeInv, BootInv

\* A thread that goes on at a place keeps its type and moves no other thread.
LEMMA GoType ==
  ASSUME TypeInv, NEW t \in Threads, NEW op \in {"none", "write", "delete", "fallback"},
         NEW at \in Places, NEW k \in Keys, NEW v \in Stored,
         NEW result \in {"none", "zero", "error", "data", "done"}, Go(t, op, at, k, v, result)
  PROVE  /\ th' \in [Threads -> ThreadType]
         /\ \A u \in Threads : u # t => th'[u] = th[u]
         /\ th'[t].at = at /\ th'[t].key = k /\ th'[t].value = v
<1> DEFINE r == [th[t] EXCEPT !.op = op, !.at = at, !.key = k, !.value = v, !.result = result]
<1>1. th \in [Threads -> ThreadType]
  BY Zenon DEF TypeInv
<1>2. th' = [th EXCEPT ![t] = r]
  BY Zenon DEF Go
<1>3. r \in ThreadType /\ r.at = at /\ r.key = k /\ r.value = v
  <2>1. th[t] \in ThreadType
    BY <1>1, Zenon
  <2> QED
    BY <2>1, ZenonT(40) DEF ThreadType
<1> HIDE DEF r
<1> QED
  BY <1>1, <1>2, <1>3, Zenon

\* nvs_write either stores the value and goes on at the slot, or returns.
LEMMA WriteType ==
  ASSUME TypeInv, NEW t \in Threads, NEW op \in {"write", "fallback"}, NEW k \in Keys,
         NEW v \in Stored, nvs_write(t, op, k, v)
  PROVE  /\ nvs' \in [Keys -> Stored]
         /\ th' \in [Threads -> ThreadType]
         /\ \A u \in Threads : u # t => th'[u] = th[u]
         /\ \/ /\ th'[t].at = "slot" /\ th'[t].key = k /\ th'[t].value = v
               /\ nvs' = [nvs EXCEPT ![k] = v] /\ foreign' = foreign \ {k}
            \/ th'[t].at = "idle" /\ UNCHANGED <<nvs, foreign>>
<1>0. {"slot", "idle"} \subseteq Places /\ nvs \in [Keys -> Stored]
  BY SMTT(30) DEF Places, TypeInv
<1>1. CASE nvs' = [nvs EXCEPT ![k] = v] /\ foreign' = foreign \ {k} /\ Go(t, op, "slot", k, v, "none")
  <2>1. nvs' \in [Keys -> Stored]
    BY <1>0, <1>1, SMTT(30)
  <2> QED
    BY <1>0, <1>1, <2>1, GoType
<1>2. CASE Go(t, op, "idle", k, v, "zero") /\ UNCHANGED <<nvs, foreign>>
  BY <1>0, <1>2, GoType, SMTT(30)
<1>3. CASE Go(t, op, "idle", k, v, "error") /\ UNCHANGED <<nvs, foreign>>
  BY <1>0, <1>3, GoType
<1> QED
  BY <1>1, <1>2, <1>3 DEF nvs_write

\* The steps of a call that store nothing, by where they lead.
LEMMA ReadType ==
  ASSUME TypeInv, NEW t \in Threads, NEW k \in Keys, NEW v \in Values,
         kv_store_read_fallback(t, k, v)
  PROVE  /\ th' \in [Threads -> ThreadType]
         /\ \A u \in Threads : u # t => th'[u] = th[u]
         /\ th'[t].at \in {"fallback", "idle"}
<1>0. {"fallback", "idle"} \subseteq Places /\ v \in Stored /\ nvs[k] \in Stored
  BY SMTT(30) DEF Places, Stored, TypeInv
<1>1. CASE Go(t, "fallback", "fallback", k, v, "none")
  BY <1>0, <1>1, GoType, SMTT(30)
<1>2. CASE Go(t, "fallback", "idle", k, nvs[k], "data")
  BY <1>0, <1>2, GoType
<1> QED
  BY <1>1, <1>2 DEF kv_store_read_fallback

\* kv_store_delete goes on to delete, or returns.
LEMMA DeleteType ==
  ASSUME TypeInv, NEW t \in Threads, NEW k \in Keys, kv_store_delete(t, k)
  PROVE  /\ th' \in [Threads -> ThreadType]
         /\ \A u \in Threads : u # t => th'[u] = th[u]
         /\ th'[t].at \in {"delete", "idle"}
<1>0. {"delete", "idle"} \subseteq Places /\ None \in Stored
  BY SMTT(30) DEF Places, Stored
<1>1. CASE Go(t, "delete", "idle", k, None, "error")
  BY <1>0, <1>1, GoType
<1>2. CASE Go(t, "delete", "delete", k, None, "none")
  BY <1>0, <1>2, GoType, SMTT(30)
<1> QED
  BY <1>1, <1>2 DEF kv_store_delete

\* The second read of a read with fallback returns.
LEMMA ReadBackType ==
  ASSUME TypeInv, NEW t \in Threads, read_back(t)
  PROVE  /\ th' \in [Threads -> ThreadType]
         /\ \A u \in Threads : u # t => th'[u] = th[u]
         /\ th'[t].at = "idle"
<1> DEFINE k == th[t].key
<1>0. "idle" \in Places /\ k \in Keys /\ nvs[k] \in Stored
  BY SMTT(30) DEF Places, TypeInv, ThreadType
<1>1. CASE Go(t, "fallback", "idle", k, nvs[k], "error")
  <2> HIDE DEF k
  <2> QED
    BY <1>0, <1>1, GoType, SMTT(30)
<1>2. CASE Go(t, "fallback", "idle", k, nvs[k], "data")
  <2> HIDE DEF k
  <2> QED
    BY <1>0, <1>2, GoType, SMTT(30)
<1> QED
  BY <1>1, <1>2 DEF read_back

\* nvs_delete either deletes the value and goes on at the slot, or returns.
LEMMA NvsDeleteType ==
  ASSUME TypeInv, NEW t \in Threads, nvs_delete(t)
  PROVE  /\ nvs' \in [Keys -> Stored]
         /\ th' \in [Threads -> ThreadType]
         /\ \A u \in Threads : u # t => th'[u] = th[u]
         /\ \/ /\ th'[t].at = "slot" /\ th'[t].key = th[t].key /\ th'[t].value = None
               /\ nvs' = [nvs EXCEPT ![th[t].key] = None]
            \/ th'[t].at = "idle" /\ UNCHANGED <<nvs, foreign>>
<1> DEFINE k == th[t].key
<1>0. {"slot", "idle"} \subseteq Places /\ k \in Keys /\ None \in Stored /\ nvs \in [Keys -> Stored]
  BY DEF Places, TypeInv, ThreadType, Stored
<1>1. CASE nvs' = [nvs EXCEPT ![k] = None] /\ Go(t, "delete", "slot", k, None, "none")
  <2> HIDE DEF k
  <2>1. nvs' \in [Keys -> Stored]
    BY <1>0, <1>1, SMTT(30)
  <2>2. /\ th' \in [Threads -> ThreadType]
        /\ \A u \in Threads : u # t => th'[u] = th[u]
        /\ th'[t].at = "slot" /\ th'[t].key = k /\ th'[t].value = None
    BY <1>0, <1>1, GoType
  <2> QED
    BY <1>1, <2>1, <2>2 DEF k
<1>2. CASE UNCHANGED <<nvs, foreign>> /\ Go(t, "delete", "idle", k, None, "error")
  <2> HIDE DEF k
  <2>1. /\ th' \in [Threads -> ThreadType]
        /\ \A u \in Threads : u # t => th'[u] = th[u]
        /\ th'[t].at = "idle"
    BY <1>0, <1>2, GoType, SMTT(30)
  <2> QED
    BY <1>0, <1>2, <2>1, SMTT(30)
<1> QED
  BY <1>1, <1>2 DEF nvs_delete

\* A step of a thread, as far as the others see it: the boot is over and stays
\* over, the thread moves no other one, and if it goes from idle to idle it leaves
\* no trace.
Moves(t) ==
    /\ TypeInv'
    /\ boot = "up" /\ UNCHANGED <<boot, cut, app_id>>
    /\ \A u \in Threads : u # t => th'[u] = th[u]
    /\ Busy(t) \/ Busy(t)' \/ UNCHANGED <<nvs, foreign, slots, reflect, told>>

\* Every step of a thread is such a step.
LEMMA ThreadMoves ==
  ASSUME TypeInv, BootInv, NEW t \in Threads, ThreadStep(t)
  PROVE  Moves(t)
<1> USE DEF Places, Moves
<1>1. ASSUME NEW k \in Keys, NEW v \in Values, kv_store_write(t, k, v) PROVE Moves(t)
  BY <1>1, WriteType DEF kv_store_write, Calls, TypeInv, Busy, Stored
<1>2. ASSUME NEW k \in Keys, NEW v \in Values, kv_store_read_fallback(t, k, v) PROVE Moves(t)
  BY <1>2, ReadType, SMTT(30) DEF kv_store_read_fallback, Calls, TypeInv, Busy
<1>3. ASSUME NEW k \in Keys, kv_store_delete(t, k) PROVE Moves(t)
  BY <1>3, DeleteType DEF kv_store_delete, Calls, TypeInv, Busy
<1>4. CASE nvs_delete(t)
  BY <1>4, NvsDeleteType, SMTT(30) DEF nvs_delete, TypeInv, BootInv, Busy
<1>5. CASE write_fallback(t)
  BY <1>5, WriteType DEF write_fallback, TypeInv, BootInv, Busy, ThreadType
<1>6. CASE update_slot(t)
  <2>1. th[t] \in ThreadType
    BY DEF TypeInv
  <2>2. th' = [th EXCEPT ![t] = [th[t] EXCEPT !.at = "sum"]]
    BY <1>6 DEF update_slot
  <2>3. [th[t] EXCEPT !.at = "sum"] \in ThreadType
    BY <2>1, SMTT(30) DEF TypeInv, ThreadType
  <2>4. /\ th' \in [Threads -> ThreadType]
        /\ \A u \in Threads : u # t => th'[u] = th[u]
    BY <2>2, <2>3 DEF TypeInv
  <2> QED
    BY <1>6, <2>1, <2>4 DEF update_slot, TypeInv, BootInv, Busy, ThreadType
<1>7. CASE sum_slots(t)
  <2>1. th[t] \in ThreadType
    BY DEF TypeInv
  <2>2. th' = [th EXCEPT ![t] = [th[t] EXCEPT !.at = "assign", !.sum = slots]]
    BY <1>7, Zenon DEF sum_slots
  <2>3. [th[t] EXCEPT !.at = "assign", !.sum = slots] \in ThreadType
    BY <2>1, Zenon DEF TypeInv, ThreadType
  <2>4. /\ th' \in [Threads -> ThreadType]
        /\ \A u \in Threads : u # t => th'[u] = th[u]
    BY <2>2, <2>3 DEF TypeInv
  <2> QED
    BY <1>7, <2>1, <2>4 DEF sum_slots, TypeInv, BootInv, Busy, ThreadType
<1>8. CASE assign_crc(t)
  <2>1. th[t] \in ThreadType
    BY DEF TypeInv
  <2>2. th' = [th EXCEPT ![t] = [th[t] EXCEPT !.at = "notify"]]
    BY <1>8 DEF assign_crc
  <2>3. [th[t] EXCEPT !.at = "notify"] \in ThreadType
    BY <2>1, ZenonT(40) DEF TypeInv, ThreadType
  <2>4. /\ th' \in [Threads -> ThreadType]
        /\ \A u \in Threads : u # t => th'[u] = th[u]
    BY <2>2, <2>3, SMTT(30) DEF TypeInv
  <2> QED
    BY <1>8, <2>1, <2>4, Zenon DEF assign_crc, TypeInv, BootInv, Busy, ThreadType
<1>9. CASE notify(t)
  <2> DEFINE at == IF th[t].op = "fallback" THEN "read_back" ELSE "idle"
             result == IF th[t].op = "fallback" THEN th[t].result ELSE "done"
  <2>1. th[t] \in ThreadType /\ at \in Places /\ result \in {"none", "zero", "error", "data", "done"}
    BY DEF TypeInv, ThreadType
  <2>2. th' = [th EXCEPT ![t] = [th[t] EXCEPT !.at = at, !.result = result]]
    BY <1>9, Zenon DEF notify
  <2> HIDE DEF at, result
  <2>3. [th[t] EXCEPT !.at = at, !.result = result] \in ThreadType
    BY <2>1, Zenon DEF ThreadType
  <2>4. /\ th' \in [Threads -> ThreadType]
        /\ \A u \in Threads : u # t => th'[u] = th[u]
    BY <2>2, <2>3 DEF TypeInv
  <2> QED
    BY <1>9, <2>1, <2>4 DEF notify, TypeInv, BootInv, Busy, ThreadType
<1>10. CASE read_back(t)
  BY <1>10, ReadBackType DEF read_back, TypeInv, BootInv, Busy
<1> QED
  BY <1>1, <1>2, <1>3, <1>4, <1>5, <1>6, <1>7, <1>8, <1>9, <1>10, SMTT(30) DEF ThreadStep

\* The steps are those of the boot, restarts and those of threads.
LEMMA NextCases ==
  ASSUME Next
  PROVE  Boot \/ reboot \/ \E t \in Threads : ThreadStep(t)
BY DEF Next, ThreadStep

\* The boot moves no thread.
LEMMA BootMoves ==
  ASSUME TypeInv, BootInv, Boot
  PROVE  TypeInv' /\ BootInv' /\ th' = th /\ boot # "up"
BY DEF Boot, infuse_common_boot, nvs_clear, kv_store_reset, BootUp, kv_reflect_init, TypeInv, BootInv,
       Busy, Stored

\* After a restart no call is under way.
LEMMA RebootMoves ==
  ASSUME TypeInv, reboot
  PROVE  TypeInv' /\ BootInv'
<1>1. th' \in [Threads -> ThreadType]
  BY IdleType DEF reboot, TypeInv, ThreadType
<1>2. \A t \in Threads : ~Busy(t)'
  BY IdleType DEF reboot, TypeInv, ThreadType, Busy
<1> QED
  BY <1>1, <1>2 DEF reboot, kv_reflect_init, TypeInv, BootInv

\* Every step keeps the types, and nothing is called before the device is up.
LEMMA TypesStep == TypeInv /\ BootInv /\ [Next]_vars => TypeInv' /\ BootInv'
<1> SUFFICES ASSUME TypeInv, BootInv, [Next]_vars PROVE TypeInv' /\ BootInv'
  OBVIOUS
<1>1. CASE UNCHANGED vars
  BY <1>1, SMTT(30) DEF vars, TypeInv, BootInv, Busy
<1>2. ASSUME NEW t \in Threads, ThreadStep(t) PROVE TypeInv' /\ BootInv'
  BY <1>2, ThreadMoves, SMTT(30) DEF Moves, BootInv
<1> QED
  BY <1>1, <1>2, BootMoves, RebootMoves, NextCases

-----------------------------------------------------------------------------
(***************************************************************************)
(* No value of another application is left.                                *)
(***************************************************************************)
\* A thread stores or deletes one value, which is then its own, or none.
LEMMA ThreadStores ==
  ASSUME TypeInv, NEW t \in Threads, ThreadStep(t)
  PROVE  \/ UNCHANGED <<nvs, foreign>>
         \/ \E k \in Keys, v \in Stored : nvs' = [nvs EXCEPT ![k] = v] /\ foreign' = foreign \ {k}
<1>1. th[t].key \in Keys /\ th[t].value \in Stored
  BY DEF TypeInv, ThreadType
<1>2. CASE \E k \in Keys, v \in Values : kv_store_write(t, k, v)
  BY <1>2, SMTT(30) DEF kv_store_write, nvs_write, Stored
<1>3. CASE nvs_delete(t)
  BY <1>1, <1>3, SMTT(30) DEF nvs_delete, Stored
<1>4. CASE write_fallback(t)
  BY <1>1, <1>4 DEF write_fallback, nvs_write
<1> QED
  BY <1>2, <1>3, <1>4
  DEF ThreadStep, kv_store_read_fallback, kv_store_delete, update_slot, sum_slots, assign_crc, notify, read_back

\* Every step keeps OwnInv, calls that overlap included.
LEMMA OwnStep == TypeInv /\ BootInv /\ OwnInv /\ [Next]_vars => OwnInv'
<1> SUFFICES ASSUME TypeInv, BootInv, OwnInv, [Next]_vars PROVE OwnInv'
  BY SMTT(30)
<1>1. CASE UNCHANGED vars
  BY <1>1 DEF vars, OwnInv
<1>2. CASE Boot
  BY <1>2, SMTT(30) DEF Boot, infuse_common_boot, nvs_clear, kv_store_reset, BootUp, kv_reflect_init, TypeInv, OwnInv
<1>3. CASE reboot
  BY <1>3 DEF reboot, kv_reflect_init, TypeInv, OwnInv
<1>4. ASSUME NEW t \in Threads, ThreadStep(t) PROVE OwnInv'
  <2>1. \/ UNCHANGED <<nvs, foreign>>
        \/ \E k \in Keys, v \in Stored : nvs' = [nvs EXCEPT ![k] = v] /\ foreign' = foreign \ {k}
    BY <1>4, ThreadStores
  <2>2. boot = "up" /\ UNCHANGED <<boot, cut, app_id>>
    BY <1>4, ThreadMoves, SMTT(30) DEF Moves
  <2> QED
    BY <2>1, <2>2, SMTT(30) DEF OwnInv, TypeInv
<1> QED
  BY <1>1, <1>2, <1>3, <1>4, NextCases

-----------------------------------------------------------------------------
(***************************************************************************)
(* What a thread owes, in a behaviour where calls do not overlap.          *)
(***************************************************************************)

\* A thread that owes the reflection state a change goes on to owe it, or makes it.
LEMMA ReflectLocal ==
  ASSUME TypeInv, NEW t \in Threads, ThreadStep(t), ReflectOwed(t)
  PROVE  ReflectOwed(t)'
<1>0. th \in [Threads -> ThreadType] /\ th[t].key \in Keys /\ th[t].value \in Stored
  BY DEF TypeInv, ThreadType
<1> USE <1>0 DEF ReflectOwed, Written, ThreadType
<1>1. ASSUME NEW k \in Keys, NEW v \in Values, kv_store_write(t, k, v) PROVE ReflectOwed(t)'
  BY <1>1, WriteType DEF kv_store_write, Calls, Stored
<1>2. ASSUME NEW k \in Keys, NEW v \in Values, kv_store_read_fallback(t, k, v) PROVE ReflectOwed(t)'
  BY <1>2, ReadType, SMTT(30) DEF kv_store_read_fallback, Calls
<1>3. ASSUME NEW k \in Keys, kv_store_delete(t, k) PROVE ReflectOwed(t)'
  BY <1>3, DeleteType, SMTT(30) DEF kv_store_delete, Calls
<1>4. CASE nvs_delete(t)
  BY <1>4, NvsDeleteType, SMTT(30) DEF nvs_delete
<1>5. CASE write_fallback(t)
  BY <1>5, WriteType DEF write_fallback
<1>6. CASE update_slot(t)
  BY <1>6 DEF update_slot
<1>7. CASE sum_slots(t)
  BY <1>7 DEF sum_slots
<1>8. CASE assign_crc(t)
  BY <1>8 DEF assign_crc
<1>9. CASE notify(t)
  BY <1>9, SMTT(30) DEF notify
<1>10. CASE read_back(t)
  BY <1>10, ReadBackType, SMTT(30) DEF read_back
<1> QED
  BY <1>1, <1>2, <1>3, <1>4, <1>5, <1>6, <1>7, <1>8, <1>9, <1>10 DEF ThreadStep

\* So does one that owes the subscribers a callback.
LEMMA ToldLocal ==
  ASSUME TypeInv, NEW t \in Threads, ThreadStep(t), ToldOwed(t)
  PROVE  ToldOwed(t)'
<1>0. th \in [Threads -> ThreadType] /\ th[t].key \in Keys /\ th[t].value \in Stored
  BY DEF TypeInv, ThreadType
<1> USE <1>0 DEF ToldOwed, Written, ThreadType
<1>1. ASSUME NEW k \in Keys, NEW v \in Values, kv_store_write(t, k, v) PROVE ToldOwed(t)'
  BY <1>1, WriteType, SMTT(30) DEF kv_store_write, Calls, Stored
<1>2. ASSUME NEW k \in Keys, NEW v \in Values, kv_store_read_fallback(t, k, v) PROVE ToldOwed(t)'
  BY <1>2, ReadType, SMTT(30) DEF kv_store_read_fallback, Calls
<1>3. ASSUME NEW k \in Keys, kv_store_delete(t, k) PROVE ToldOwed(t)'
  BY <1>3, DeleteType, SMTT(30) DEF kv_store_delete, Calls
<1>4. CASE nvs_delete(t)
  BY <1>4, NvsDeleteType, SMTT(30) DEF nvs_delete
<1>5. CASE write_fallback(t)
  BY <1>5, WriteType DEF write_fallback
<1>6. CASE update_slot(t)
  BY <1>6 DEF update_slot
<1>7. CASE sum_slots(t)
  BY <1>7, SMTT(30) DEF sum_slots
<1>8. CASE assign_crc(t)
  BY <1>8 DEF assign_crc
<1>9. CASE notify(t)
  BY <1>9, SMTT(30) DEF notify
<1>10. CASE read_back(t)
  BY <1>10, ReadBackType, SMTT(30) DEF read_back
<1> QED
  BY <1>1, <1>2, <1>3, <1>4, <1>5, <1>6, <1>7, <1>8, <1>9, <1>10, SMTT(30) DEF ThreadStep

\* Of the threads only one is in a call, before and after its step.
LEMMA Alone ==
  ASSUME NEW t \in Threads, Moves(t), Serial, Serial', Busy(t) \/ Busy(t)', NEW u \in Threads, u # t
  PROVE  ~Busy(u) /\ ~Busy(u)'
BY SMTT(30) DEF Moves, Serial, Busy

\* Every step keeps ReflectInv when calls do not overlap.
LEMMA ReflectStep == TypeInv /\ BootInv /\ ReflectInv /\ Serial /\ Serial' /\ [Next]_vars => ReflectInv'
<1> SUFFICES ASSUME TypeInv, BootInv, ReflectInv, Serial, Serial', [Next]_vars PROVE ReflectInv'
  BY SMTT(30)
<1>1. CASE UNCHANGED vars
  BY <1>1, SMTT(30) DEF vars, ReflectInv, Busy, ReflectOwed, Written
<1>2. CASE Boot
  <2>1. \A t \in Threads : ~Busy(t)'
    BY <1>2, BootMoves DEF BootInv, Busy
  <2> QED
    BY <1>2, <2>1, SMTT(30)
    DEF Boot, infuse_common_boot, nvs_clear, kv_store_reset, BootUp, kv_reflect_init, ReflectInv
<1>3. CASE reboot
  BY <1>3 DEF reboot, kv_reflect_init, ReflectInv
<1>4. ASSUME NEW t \in Threads, ThreadStep(t) PROVE ReflectInv'
  <2>1. Moves(t)
    BY <1>4, ThreadMoves, SMTT(30)
  <2> SUFFICES ASSUME cut # "failed"
               PROVE  /\ \A u \in Threads : Busy(u)' => ReflectOwed(u)'
                      /\ (\A u \in Threads : ~Busy(u)') => slots' = nvs' /\ reflect' = nvs'
    BY <2>1 DEF Moves, ReflectInv
  <2>2. CASE Busy(t) \/ Busy(t)'
    <3>1. ReflectOwed(t)
      BY <2>1, <2>2, Alone DEF ReflectInv, ReflectOwed, Moves, Busy
    <3>2. ReflectOwed(t)'
      BY <3>1, <1>4, ReflectLocal, SMTT(30)
    <3>3. ~Busy(t)' => slots' = nvs' /\ reflect' = nvs'
      BY <3>2, SMTT(30) DEF ReflectOwed, Busy
    <3> QED
      BY <2>1, <2>2, <3>2, <3>3, Alone, SMTT(30)
  <2>3. CASE ~Busy(t) /\ ~Busy(t)'
    <3>1. \A u \in Threads : Busy(u)' <=> Busy(u)
      BY <2>1, <2>3 DEF Moves, Busy
    <3>2. \A u \in Threads : Busy(u) /\ ReflectOwed(u) => ReflectOwed(u)'
      BY <2>1, <2>3, SMTT(30) DEF Moves, ReflectOwed, Written
    <3> QED
      BY <2>1, <2>3, <3>1, <3>2, SMTT(30) DEF Moves, ReflectInv
  <2> QED
    BY <2>2, <2>3
<1> QED
  BY <1>1, <1>2, <1>3, <1>4, NextCases

\* Every step keeps ToldInv when calls do not overlap.
LEMMA ToldStep == TypeInv /\ BootInv /\ ToldInv /\ Serial /\ Serial' /\ [Next]_vars => ToldInv'
<1> SUFFICES ASSUME TypeInv, BootInv, ToldInv, Serial, Serial', [Next]_vars PROVE ToldInv'
  OBVIOUS
<1>1. CASE UNCHANGED vars
  BY <1>1, SMTT(30) DEF vars, ToldInv, Busy, ToldOwed, Written
<1>2. CASE Boot
  <2>1. \A t \in Threads : ~Busy(t)'
    BY <1>2, BootMoves DEF BootInv, Busy
  <2> QED
    BY <1>2, <2>1, SMTT(30) DEF Boot, infuse_common_boot, nvs_clear, kv_store_reset, BootUp, ToldInv
<1>3. CASE reboot
  BY <1>3 DEF reboot, ToldInv
<1>4. ASSUME NEW t \in Threads, ThreadStep(t) PROVE ToldInv'
  <2>1. Moves(t)
    BY <1>4, ThreadMoves
  <2> SUFFICES /\ \A u \in Threads : Busy(u)' => ToldOwed(u)'
               /\ (\A u \in Threads : ~Busy(u)') => told' = nvs'
    BY DEF ToldInv
  <2>2. CASE Busy(t) \/ Busy(t)'
    <3>1. ToldOwed(t)
      BY <2>1, <2>2, Alone DEF ToldInv, ToldOwed, Moves, Busy
    <3>2. ToldOwed(t)'
      BY <3>1, <1>4, ToldLocal, SMTT(30)
    <3>3. ~Busy(t)' => told' = nvs'
      BY <3>2, SMTT(30) DEF ToldOwed, Busy
    <3> QED
      BY <2>1, <2>2, <3>2, <3>3, Alone, SMTT(30)
  <2>3. CASE ~Busy(t) /\ ~Busy(t)'
    <3>1. \A u \in Threads : Busy(u)' <=> Busy(u)
      BY <2>1, <2>3, SMTT(30) DEF Moves, Busy
    <3>2. \A u \in Threads : Busy(u) /\ ToldOwed(u) => ToldOwed(u)'
      BY <2>1, <2>3, SMTT(30) DEF Moves, ToldOwed, Written
    <3> QED
      BY <2>1, <2>3, <3>1, <3>2, SMTT(30) DEF Moves, ToldInv
  <2> QED
    BY <2>2, <2>3, SMTT(30)
<1> QED
  BY <1>1, <1>2, <1>3, <1>4, NextCases

-----------------------------------------------------------------------------

\* infuse_common_boot: however the calls of any number of threads interleave, and
\* wherever restarts cut them or the reset of the store, an application that is
\* up runs on no value another application stored, unless a reset failed or was
\* cut.
THEOREM AlwaysOwnValues == Spec => []OwnValuesOnly
<1>1. Init => TypeInv /\ BootInv /\ OwnInv
  BY InitTypes DEF Init, OwnInv
<1>2. TypeInv /\ BootInv /\ OwnInv /\ [Next]_vars => (TypeInv /\ BootInv /\ OwnInv)'
  BY TypesStep, OwnStep
<1>3. OwnInv => OwnValuesOnly
  BY SMTT(30) DEF OwnInv, OwnValuesOnly
<1> QED
  BY <1>1, <1>2, <1>3, PTL DEF Spec

\* kv_reflect_key_updated: in a behaviour where calls do not overlap, whichever
\* threads make them, the slots and the global CRC are those of the stored
\* values whenever no call is under way, after failed writes and restarts too.
THEOREM ReflectsWhenSerial == Spec /\ []Serial => []ReflectsStore
<1>1. Init => TypeInv /\ BootInv /\ ReflectInv
  BY InitTypes, SMTT(30) DEF Init, ReflectInv
<1>2. TypeInv /\ BootInv /\ ReflectInv /\ Serial /\ Serial' /\ [Next]_vars
        => (TypeInv /\ BootInv /\ ReflectInv)'
  BY TypesStep, ReflectStep, SMTT(30)
<1>3. ReflectInv => ReflectsStore
  BY SMTT(30) DEF ReflectInv, ReflectsStore, AtRest, Busy
<1> QED
  BY <1>1, <1>2, <1>3, PTL DEF Spec

\* kv_store_write and kv_store_delete with their callbacks: under the same
\* condition the last callback of a key gave the value that is stored.
THEOREM SubscribersWhenSerial == Spec /\ []Serial => []SubscribersCurrent
<1>1. Init => TypeInv /\ BootInv /\ ToldInv
  BY InitTypes DEF Init, ToldInv
<1>2. TypeInv /\ BootInv /\ ToldInv /\ Serial /\ Serial' /\ [Next]_vars
        => (TypeInv /\ BootInv /\ ToldInv)'
  BY TypesStep, ToldStep
<1>3. ToldInv => SubscribersCurrent
  BY DEF ToldInv, SubscribersCurrent, AtRest, Busy
<1> QED
  BY <1>1, <1>2, <1>3, PTL DEF Spec

=============================================================================
