------------------------------- MODULE KvStore -------------------------------
(***************************************************************************)
(* The key-value store, subsys/fs/kv_store: values kept by NVS or ZMS, the *)
(* reflection state that tells the cloud whether any of them changed, and  *)
(* callbacks on every change; and the check of infuse_common_boot that the *)
(* store belongs to the running application.                               *)
(*                                                                         *)
(* The calls into the file system are atomic, it locks itself.  What the   *)
(* store does around them is not: any thread may run between the write of  *)
(* a value, the update of its reflection slot, the computation of the      *)
(* global CRC over the slots, its assignment and the callbacks.  A CRC is  *)
(* modelled by what it is computed over.                                   *)
(***************************************************************************)
EXTENDS Naturals, FiniteSets

CONSTANTS Keys,         \* the keys, all of them reflected
          Values,       \* what may be stored
          None,         \* no value
          Threads,      \* the threads that use the store
          MaxOps,       \* how many calls they make
          MaxReboots    \* how often the device restarts

ASSUME KvAssumption ==
    /\ None \notin Values
    /\ MaxOps \in Nat /\ MaxReboots \in Nat

VARIABLES
    nvs,        \* the value of every key
    app_id,     \* the stored KV_KEY_INFUSE_APPLICATION_ID: "mine", "other" or None
    foreign,    \* history: the keys whose value another application wrote
    slots,      \* value_crc_slots
    reflect,    \* reflect_crc
    told,       \* the value of every key as the callbacks know it
    th,         \* where every thread is
    boot,       \* how far infuse_common_boot is
    cut,        \* history: nvs_clear "failed", or since then or by that the device "restarted"
    ops,        \* how many calls were made
    reboots     \* how often the device restarted

vars == <<nvs, app_id, foreign, slots, reflect, told, th, boot, ops, cut, reboots>>

Stored == Values \cup {None}

IdleThread(k) == [at |-> "idle", op |-> "none", key |-> k, value |-> None, sum |-> [j \in Keys |-> None],
                  result |-> "none"]

-----------------------------------------------------------------------------

\* A thread enters a call
Calls(t) ==
    /\ boot = "up"
    /\ th[t].at = "idle"
    /\ ops < MaxOps
    /\ ops' = ops + 1
    /\ UNCHANGED <<app_id, boot, cut, reboots>>

\* Thread t goes on at a place, or returns
Go(t, op, at, k, v, result) ==
    th' = [th EXCEPT ![t] = [@ EXCEPT !.op = op, !.at = at, !.key = k, !.value = v, !.result = result]]

\* nvs_write: returns the length, 0 if the value is already stored, or an error
nvs_write(t, op, k, v) ==
    \/ /\ nvs[k] # v
       /\ nvs' = [nvs EXCEPT ![k] = v]
       /\ foreign' = foreign \ {k}
       /\ Go(t, op, "slot", k, v, "none")
    \/ /\ nvs[k] = v
       /\ Go(t, op, "idle", k, v, "zero")
       /\ UNCHANGED <<nvs, foreign>>
    \/ /\ Go(t, op, "idle", k, v, "error")
       /\ UNCHANGED <<nvs, foreign>>

kv_store_write(t, k, v) ==
    /\ Calls(t)
    /\ nvs_write(t, "write", k, v)
    /\ UNCHANGED <<slots, reflect, told>>

\* A delete first looks whether there is a value
kv_store_delete(t, k) ==
    /\ Calls(t)
    /\ IF nvs[k] = None THEN Go(t, "delete", "idle", k, None, "error")
                        ELSE Go(t, "delete", "delete", k, None, "none")
    /\ UNCHANGED <<nvs, foreign, slots, reflect, told>>

nvs_delete(t) ==
    /\ th[t].at = "delete"
    /\ LET k == th[t].key
       IN  \/ /\ nvs' = [nvs EXCEPT ![k] = None]
              /\ foreign' = foreign \ {k}
              /\ Go(t, "delete", "slot", k, None, "none")
           \/ /\ Go(t, "delete", "idle", k, None, "error")
              /\ UNCHANGED <<nvs, foreign>>
    /\ UNCHANGED <<app_id, slots, reflect, told, boot, ops, cut, reboots>>

kv_store_read_fallback(t, k, fallback) ==
    /\ Calls(t)
    /\ IF nvs[k] = None THEN Go(t, "fallback", "fallback", k, fallback, "none")
                        ELSE Go(t, "fallback", "idle", k, nvs[k], "data")
    /\ UNCHANGED <<nvs, foreign, slots, reflect, told>>

\* The key did not exist: the fallback value is written
write_fallback(t) ==
    /\ th[t].at = "fallback"
    /\ nvs_write(t, "fallback", th[t].key, th[t].value)
    /\ UNCHANGED <<app_id, slots, reflect, told, boot, ops, cut, reboots>>

\* Deleted values keep their slot
update_slot_not_deleted(t) ==
    /\ th[t].at = "slot"
    /\ slots' = IF th[t].value = None THEN slots ELSE [slots EXCEPT ![th[t].key] = th[t].value]
    /\ th' = [th EXCEPT ![t].at = "sum"]
    /\ UNCHANGED <<nvs, app_id, foreign, reflect, told, boot, ops, cut, reboots>>

\* kv_reflect_key_updated: the slot, the CRC over the slots, its assignment
update_slot(t) ==
    /\ th[t].at = "slot"
    /\ slots' = [slots EXCEPT ![th[t].key] = th[t].value]
    /\ th' = [th EXCEPT ![t].at = "sum"]
    /\ UNCHANGED <<nvs, app_id, foreign, reflect, told, boot, ops, cut, reboots>>

sum_slots(t) ==
    /\ th[t].at = "sum"
    /\ th' = [th EXCEPT ![t].at = "assign", ![t].sum = slots]
    /\ UNCHANGED <<nvs, app_id, foreign, slots, reflect, told, boot, ops, cut, reboots>>

assign_crc(t) ==
    /\ th[t].at = "assign"
    /\ reflect' = th[t].sum
    /\ th' = [th EXCEPT ![t].at = "notify"]
    /\ UNCHANGED <<nvs, app_id, foreign, slots, told, boot, ops, cut, reboots>>

\* A delete makes no callbacks
notify_writes(t) ==
    /\ th[t].at = "notify"
    /\ told' = IF th[t].op = "delete" THEN told ELSE [told EXCEPT ![th[t].key] = th[t].value]
    /\ th' = [th EXCEPT ![t].at = IF th[t].op = "fallback" THEN "read_back" ELSE "idle",
                        ![t].result = IF th[t].op = "fallback" THEN @ ELSE "done"]
    /\ UNCHANGED <<nvs, app_id, foreign, slots, reflect, boot, ops, cut, reboots>>

\* The callbacks; a read with a fallback then reads the value back
notify(t) ==
    /\ th[t].at = "notify"
    /\ told' = [told EXCEPT ![th[t].key] = th[t].value]
    /\ th' = [th EXCEPT ![t].at = IF th[t].op = "fallback" THEN "read_back" ELSE "idle",
                        ![t].result = IF th[t].op = "fallback" THEN @ ELSE "done"]
    /\ UNCHANGED <<nvs, app_id, foreign, slots, reflect, boot, ops, cut, reboots>>

read_back(t) ==
    /\ th[t].at = "read_back"
    /\ LET k == th[t].key
       IN  Go(t, "fallback", "idle", k, nvs[k], IF nvs[k] = None THEN "error" ELSE "data")
    /\ UNCHANGED <<nvs, app_id, foreign, slots, reflect, told, boot, ops, cut, reboots>>

-----------------------------------------------------------------------------
(***************************************************************************)
(* Booting.  kv_store_init mounts the file system and computes the         *)
(* reflection state, then infuse_common_boot looks at the application ID.  *)
(* No other thread uses the store until it is done, and subscribers start  *)
(* from the values they find.                                              *)
(***************************************************************************)

\* kv_reflect_init, over a store that nobody else changes
kv_reflect_init(stored) ==
    /\ slots' = stored
    /\ reflect' = stored

\* The end of infuse_common_boot: the application ID is stored
BootUp ==
    /\ app_id' = "mine"
    /\ boot' = "up"
    /\ told' = nvs

\* The application ID is only written, never compared
infuse_common_boot_any ==
    /\ boot = "check"
    /\ BootUp
    /\ UNCHANGED <<nvs, foreign, slots, reflect, th, ops, cut, reboots>>

infuse_common_boot ==
    /\ boot = "check"
    /\ IF app_id = "other"
       THEN boot' = "clear" /\ UNCHANGED <<app_id, told>>
       ELSE BootUp
    /\ UNCHANGED <<nvs, foreign, slots, reflect, th, ops, cut, reboots>>

\* nvs_clear erases the sectors of the file system, the one that holds the
\* application ID like any other, in an order the keys do not determine.
nvs_clear ==
    /\ boot = "clear"
    /\ \/ /\ \E k \in Keys : nvs[k] # None /\ nvs' = [nvs EXCEPT ![k] = None] /\ foreign' = foreign \ {k}
          /\ UNCHANGED <<app_id, told, boot, slots, reflect, cut>>
       \/ /\ app_id # None
          /\ app_id' = None
          /\ UNCHANGED <<nvs, foreign, told, boot, slots, reflect, cut>>
       \/ /\ cut' = "failed"        \* the result of kv_store_reset is ignored
          /\ BootUp
          /\ UNCHANGED <<nvs, foreign, slots, reflect>>
    /\ UNCHANGED <<th, ops, reboots>>

\* Everything was erased: the rest of kv_store_reset, and of the boot
kv_store_reset ==
    /\ boot = "clear"
    /\ app_id = None
    /\ \A k \in Keys : nvs[k] = None
    /\ kv_reflect_init(nvs)
    /\ BootUp
    /\ cut' = "no"
    /\ UNCHANGED <<nvs, foreign, th, ops, reboots>>

reboot ==
    /\ reboots < MaxReboots
    /\ cut' = IF boot = "clear" \/ cut # "no" THEN "restarted" ELSE "no"
    /\ reboots' = reboots + 1
    /\ boot' = "check"
    /\ kv_reflect_init(nvs)
    /\ th' = [t \in Threads |-> IdleThread(th[t].key)]
    /\ UNCHANGED <<nvs, app_id, foreign, told, ops>>

-----------------------------------------------------------------------------

\* A store that is empty, that this application wrote, or another one
Init ==
    /\ \E k \in Keys : th = [t \in Threads |-> IdleThread(k)]
    /\ app_id \in {"mine", "other", None}
    /\ nvs \in [Keys -> Stored]
    /\ app_id = None => \A k \in Keys : nvs[k] = None
    /\ foreign = IF app_id = "other" THEN {k \in Keys : nvs[k] # None} ELSE {}
    /\ slots = nvs
    /\ reflect = nvs
    /\ told = nvs
    /\ boot = "check"
    /\ ops = 0
    /\ cut = "no"
    /\ reboots = 0

Boot == infuse_common_boot \/ nvs_clear \/ kv_store_reset

Next ==
    \/ Boot
    \/ reboot
    \/ \E t \in Threads :
          \/ \E k \in Keys, v \in Values : kv_store_write(t, k, v) \/ kv_store_read_fallback(t, k, v)
          \/ \E k \in Keys : kv_store_delete(t, k)
          \/ nvs_delete(t)
          \/ write_fallback(t)
          \/ update_slot(t)
          \/ sum_slots(t)
          \/ assign_crc(t)
          \/ notify(t)
          \/ read_back(t)

Spec == Init /\ [][Next]_vars

-----------------------------------------------------------------------------

AtRest == boot = "up" /\ \A t \in Threads : th[t].at = "idle"

\* "While this value does not change value, there have been no changes to any
\* KV data that need to be actioned by the cloud" (kv_store_reflect_crc in
\* kv_store.h): with no call under way, the global CRC is that of the values
\* that are stored, after failed writes and restarts at any point.  A reset of
\* the store that failed half way leaves the CRC as it was until the next
\* restart.
ReflectsStore == AtRest /\ cut # "failed" => slots = nvs /\ reflect = nvs

\* The last callback of a key was made with the value that is stored
\* (struct kv_store_cb in kv_store.h), with no call under way.
SubscribersCurrent == AtRest => told = nvs

\* An application never runs on values another application stored: the check
\* of infuse_common_boot, "Resetting KV store due to INFUSE_APPLICATION_ID".
\* The exception is a reset that was not finished.
OwnValuesOnly == boot = "up" /\ cut = "no" => foreign = {}

=============================================================================
