----------------------------- MODULE TaskRunner -----------------------------
(***************************************************************************)
(* The task runner, subsys/task_runner/runner.c, with schedules that are   *)
(* loaded from the KV store (CONFIG_KV_STORE_KEY_TASK_SCHEDULES).          *)
(*                                                                         *)
(* Three kinds of actor share its state: the thread that calls             *)
(* task_runner_iterate once a second, the tasks it starts (threads or      *)
(* items of the Infuse workqueue), and any thread that writes schedules to *)
(* the KV store, whose kv_value_changed callback asks for a reload.        *)
(*                                                                         *)
(* An iteration is one step, except for the loading of the schedules: that *)
(* makes a call to the KV store per slot, and other threads run between    *)
(* the calls.  Tasks are seen through what the runner does to them and     *)
(* asks of them: started, told to terminate, ended.                        *)
(***************************************************************************)
EXTENDS Integers, Sequences, TaskSchedule

CONSTANTS tsk,              \* the task_id of every task, a sequence
          SkipTasks,        \* the tasks whose device failed to initialise
          default_sch,      \* the schedules the application provides, a sequence
          RANGE,            \* CONFIG_KV_STORE_KEY_TASK_SCHEDULES_RANGE
          Written,          \* the schedules that may be written to the KV store
          AppStates,        \* the sets of application states an iteration may see
          Charges,          \* the battery charges an iteration may see
          EpochOffset,      \* GPS time at boot
          MaxUptime,        \* uptime stops here, in seconds
          MaxStep,          \* the most seconds from one iteration to the next
          MaxWrites,        \* how many writes other threads make
          MaxReboots,       \* how often the device restarts
          WritesDuringLoad, \* whether other threads write while schedules load
          StoreFaults       \* whether a write of the loader may fail

UINT8_MAX == 255

\* What is assumed of a schedule: its fields, and the numbers that times are
\* compared with
IsSchedule(s) ==
    /\ DOMAIN s = DOMAIN ZeroSchedule
    /\ s.lockout_s \in Nat
    /\ s.after.schedule_idx \in Nat /\ s.after.duration_s \in Nat

Provided == {default_sch[i] : i \in DOMAIN default_sch}

ASSUME RunnerAssumption ==
    /\ RANGE \in 1 .. UINT8_MAX
    /\ tsk \in Seq(Nat) /\ Len(tsk) < UINT8_MAX
    /\ default_sch \in Seq(Provided) /\ Len(default_sch) <= RANGE
    /\ \A s \in Provided \cup Written : IsSchedule(s)
    /\ MaxUptime \in Nat /\ MaxStep \in Nat \ {0} /\ MaxWrites \in Nat /\ MaxReboots \in Nat
    /\ WritesDuringLoad \in BOOLEAN /\ StoreFaults \in BOOLEAN

VARIABLES
    kv,             \* the schedule keys of the KV store
    kv_id,          \* whether the stored KV_KEY_TASK_SCHEDULES_DEFAULT_ID is the expected one
    old,            \* history: the slots whose value belongs to an earlier set of schedules
    writer,         \* the key another thread wrote and has not reported yet
    flags,          \* runner_flags
    sch,            \* the schedules in use
    sch_num,        \* how many of them are evaluated
    sch_states,     \* their scheduling state
    tsk_states,     \* the runner's view of every task
    exec,           \* whether every task really executes
    signal,         \* the terminate_signal of every task
    loader,         \* where task_runner_schedules_load is
    uptime,         \* the uptime of the last iteration
    event,          \* the last event reported for every schedule
    history,        \* history: true start and end of the last run of every schedule
    kept,           \* history: slots the loader was to override and left as they were
    writes,         \* how many writes were made
    reboots         \* how often the device restarted

store == <<kv, kv_id, old, kept>>
run == <<sch_states, tsk_states, exec, signal, event, history>>
vars == <<kv, kv_id, old, kept, writer, flags, sch, sch_num, sch_states, tsk_states, exec, signal,
          loader, uptime, event, history, writes, reboots>>

Slots == 0 .. RANGE - 1
Tasks == DOMAIN tsk
Missing == [stored |-> FALSE]   \* a key with no value
ID == -1                        \* KV_KEY_TASK_SCHEDULES_DEFAULT_ID, below the keys of the slots
NoKey == -2

TRIGGER == "FLAGS_TRIGGER_SCHEDULE_RELOAD"
TERMINATING == "FLAGS_TASKS_TERMINATING"
RELOADING == "FLAGS_TASKS_RELOADING"

default_num == Len(default_sch)

\* default_schedules[i], counted from zero as in the code
Default(i) == default_sch[i + 1]

\* Counts that only matter up to the largest timeout stop there.
MaxRuntime == MaxUptime
Saturated(n) == IF n > MaxRuntime THEN MaxRuntime ELSE n

NoState == [task_idx |-> UINT8_MAX, linked |-> UINT8_MAX,
            last_run |-> 0, last_terminate |-> 0, runtime |-> 0]

Idle == [at |-> "idle", i |-> 0, num_eval |-> 0, boot |-> FALSE]

\* A loader that has set FLAGS_TASKS_RELOADING and read the default ID, called
\* by task_runner_init (boot) or by an iteration
Loading(boot) == [at |-> IF kv_id THEN "read" ELSE "override", i |-> 0, num_eval |-> 0, boot |-> boot]

-----------------------------------------------------------------------------
(***************************************************************************)
(* Starting and ending tasks.  r holds the variables of "run" while an     *)
(* iteration goes through its loops.  A loop is one operator on the set of *)
(* the slots or tasks it gets to.                                          *)
(***************************************************************************)
Run == [sch_states |-> sch_states, tsk_states |-> tsk_states, exec |-> exec,
        signal |-> signal, event |-> event, history |-> history]

SetRun(r) ==
    /\ sch_states' = r.sch_states
    /\ tsk_states' = r.tsk_states
    /\ exec' = r.exec
    /\ signal' = r.signal
    /\ event' = r.event
    /\ history' = r.history

\* What the event callback of a schedule has seen: the last event, or that
\* one came that cannot follow the one before it
Report(last, e) ==
    IF \/ e = "started" /\ last \in {"none", "stopped"}
       \/ e = "terminate_request" /\ last \in {"started", "terminate_request"}
       \/ e = "stopped" /\ last \in {"started", "terminate_request"}
    THEN e ELSE "out_of_order"

\* The schedules among some slots that name task t
Naming(r, slots, t) == {i \in slots : r.sch_states[i].task_idx = t}

\* The time of the start is not noted
task_start_unnoted(r, slots, now) ==
    LET Free(t) == Naming(r, slots, t) = {}
    IN  [r EXCEPT !.sch_states = [i \in Slots |-> IF i \in slots THEN [@[i] EXCEPT !.runtime = 0]
                                                                 ELSE @[i]],
                  !.tsk_states = [t \in Tasks |->
                                     IF Free(t) THEN @[t]
                                     ELSE [running |-> TRUE,
                                           schedule_idx |-> CHOOSE i \in Naming(r, slots, t) : TRUE]],
                  !.signal = [t \in Tasks |-> @[t] /\ Free(t)],
                  !.exec = [t \in Tasks |-> IF Free(t) THEN @[t] ELSE "active"],
                  !.event = [i \in Slots |-> IF i \in slots THEN Report(@[i], "started") ELSE @[i]],
                  !.history = [i \in Slots |-> IF i \in slots THEN [@[i] EXCEPT !.start = now] ELSE @[i]]]

\* The tasks of some schedules, each its own, are started
task_start(r, slots, now) ==
    LET Free(t) == Naming(r, slots, t) = {}
    IN  [r EXCEPT !.sch_states = [i \in Slots |->
                                     IF i \in slots THEN [@[i] EXCEPT !.last_run = now, !.runtime = 0]
                                                    ELSE @[i]],
                  !.tsk_states = [t \in Tasks |->
                                     IF Free(t) THEN @[t]
                                     ELSE [running |-> TRUE,
                                           schedule_idx |-> CHOOSE i \in Naming(r, slots, t) : TRUE]],
                  !.signal = [t \in Tasks |-> @[t] /\ Free(t)],
                  !.exec = [t \in Tasks |-> IF Free(t) THEN @[t] ELSE "active"],
                  !.event = [i \in Slots |-> IF i \in slots THEN Report(@[i], "started") ELSE @[i]],
                  !.history = [i \in Slots |-> IF i \in slots THEN [@[i] EXCEPT !.start = now] ELSE @[i]]]

\* The tasks of some schedules are told to terminate
task_terminate(r, slots) ==
    [r EXCEPT !.signal = [t \in Tasks |-> @[t] \/ Naming(r, slots, t) # {}],
              !.event = [i \in Slots |-> IF i \in slots THEN Report(@[i], "terminate_request") ELSE @[i]]]

\* The thread can be joined, or the work item is no longer pending
task_has_terminated(r, t) == r.exec[t] # "active"

\* The end of a task is noted but not reported
Reap_unreported(r, now) ==
    LET ended == {t \in Tasks : r.tsk_states[t].running /\ task_has_terminated(r, t)}
        Of(i) == \E t \in ended : r.tsk_states[t].schedule_idx = i
    IN  [r EXCEPT !.sch_states = [i \in Slots |-> IF Of(i) THEN [@[i] EXCEPT !.last_terminate = now]
                                                           ELSE @[i]],
                  !.tsk_states = [t \in Tasks |-> IF t \in ended THEN [@[t] EXCEPT !.running = FALSE]
                                                                 ELSE @[t]],
                  !.history = [i \in Slots |-> IF Of(i) THEN [@[i] EXCEPT !.end = now] ELSE @[i]]]

\* The first loop of an iteration: tasks that ended since the last one
Reap(r, now) ==
    LET ended == {t \in Tasks : r.tsk_states[t].running /\ task_has_terminated(r, t)}
        Of(i) == \E t \in ended : r.tsk_states[t].schedule_idx = i
    IN  [r EXCEPT !.sch_states = [i \in Slots |-> IF Of(i) THEN [@[i] EXCEPT !.last_terminate = now]
                                                           ELSE @[i]],
                  !.tsk_states = [t \in Tasks |-> IF t \in ended THEN [@[t] EXCEPT !.running = FALSE]
                                                                 ELSE @[t]],
                  !.event = [i \in Slots |-> IF Of(i) THEN Report(@[i], "stopped") ELSE @[i]],
                  !.history = [i \in Slots |-> IF Of(i) THEN [@[i] EXCEPT !.end = now] ELSE @[i]]]

\* The tasks are reported as terminating, but not told
TerminateAll_silent(r) ==
    [r EXCEPT !.event = [i \in Slots |-> IF @[i] = "started" THEN "terminate_request" ELSE @[i]]]

\* Schedule i is the one that runs its task
Runs(r, i) ==
    LET t == r.sch_states[i].task_idx
    IN  t # UINT8_MAX /\ r.tsk_states[t].running /\ r.tsk_states[t].schedule_idx = i

\* The reload that terminates every task the schedules in use are running
TerminateAll(r) == task_terminate(r, {i \in 0 .. sch_num - 1 : Runs(r, i)})

-----------------------------------------------------------------------------
(***************************************************************************)
(* Evaluating the schedules                                                *)
(***************************************************************************)

\* last_terminate of the schedule state is linked to
LinkedTerminate(r, i) ==
    LET l == r.sch_states[i].linked
    IN  IF l = UINT8_MAX THEN 0 ELSE r.sch_states[l].last_terminate

Counted(r, slots) ==
    [r EXCEPT !.sch_states = [i \in Slots |-> IF i \in slots
                                              THEN [r.sch_states[i] EXCEPT !.runtime = Saturated(@ + 1)]
                                              ELSE r.sch_states[i]]]

\* Schedule i finds its task free and is to start it
ToStart(r, i, now, app_states, soc) ==
    LET t == r.sch_states[i].task_idx
    IN  /\ t # UINT8_MAX /\ t \notin SkipTasks
        /\ ~r.tsk_states[t].running
        /\ \/ sch[i].validity = TASK_VALID_PERMANENTLY_RUNS
           \/ task_schedule_should_start(sch[i], r.sch_states[i], LinkedTerminate(r, i), app_states,
                                         now, now + EpochOffset, soc)

\* The loop over the schedules.  All that a turn sees of the turns before it is
\* that one of them took its task: the schedule that comes first starts it.
EvaluateSchedules(r, num, now, app_states, soc) ==
    LET permanent == {i \in Slots : sch[i].validity = TASK_VALID_PERMANENTLY_RUNS}
        running == {i \in 0 .. num - 1 : Runs(r, i) /\ r.sch_states[i].task_idx \notin SkipTasks}
        waiting == {i \in 0 .. num - 1 : ToStart(r, i, now, app_states, soc)}
        starting == {i \in waiting : \A j \in waiting :
                        j < i => r.sch_states[j].task_idx # r.sch_states[i].task_idx}
        counted == Counted(task_start(r, starting, now), running \cup (starting \cap permanent))
        ending == {i \in running \ permanent :
                      task_schedule_should_terminate(sch[i], counted.sch_states[i], app_states, soc)}
    IN  task_terminate(counted, ending)

Evaluate(r, num, now) ==
    \E app_states \in AppStates, soc \in Charges :
        SetRun(EvaluateSchedules(r, num, now, app_states, soc))

-----------------------------------------------------------------------------
(***************************************************************************)
(* Loading the schedules                                                   *)
(***************************************************************************)

\* A schedule that was replaced has no run to look back on.
SetSchedule(i, s) ==
    /\ sch' = [sch EXCEPT ![i] = s]
    /\ history' = IF s = sch[i] THEN history ELSE [history EXCEPT ![i].start = -1]

\* A write or a delete of the loader; the result is ignored, and the callback
\* it makes returns at once because FLAGS_TASKS_RELOADING is set.
LoaderStores(i, value) ==
    \/ /\ kv' = [kv EXCEPT ![i] = value]
       /\ old' = old \ {i}
       /\ UNCHANGED kept
    \/ /\ StoreFaults
       /\ kept' = kept \cup {i}
       /\ UNCHANGED <<kv, old>>

NextSlot(evaluated) ==
    loader' = [loader EXCEPT !.i = @ + 1, !.num_eval = IF evaluated THEN loader.i + 1 ELSE @]

\* A slot of the KV store is overridden with its default schedule, or cleared
OverrideSlot ==
    /\ loader.at = "override"
    /\ loader.i < RANGE
    /\ LET i == loader.i
       IN  \/ /\ i < default_num
              /\ task_schedule_validate(Default(i))
              /\ LoaderStores(i, Default(i))
              /\ SetSchedule(i, Default(i))
              /\ NextSlot(TRUE)
           \/ /\ i < default_num
              /\ ~task_schedule_validate(Default(i))
              /\ kept' = kept \cup {i}
              /\ NextSlot(FALSE)
              /\ UNCHANGED <<kv, old, sch, history>>
           \/ /\ i >= default_num
              /\ LoaderStores(i, Missing)
              /\ NextSlot(FALSE)
              /\ UNCHANGED <<sch, history>>
    /\ UNCHANGED <<writer, flags, sch_num, sch_states, tsk_states, exec, signal,
                   uptime, event, writes, reboots>>

\* The default ID is stored before the slots
override_slot_id_first == OverrideSlot /\ kv_id' = TRUE

override_slot == OverrideSlot /\ UNCHANGED kv_id

\* A slot is read from the KV store, unless its default schedule is locked
read_slot ==
    /\ loader.at = "read"
    /\ loader.i < RANGE
    /\ LET i == loader.i
           locked == i < default_num /\ Default(i).locked
       IN  /\ SetSchedule(i, IF locked THEN Default(i)
                             ELSE IF kv[i] # Missing THEN kv[i] ELSE ZeroSchedule)
           /\ NextSlot(locked \/ kv[i] # Missing)
    /\ UNCHANGED <<kv, kv_id, old, kept, writer, flags, sch_num, sch_states, tsk_states, exec, signal,
                   uptime, event, writes, reboots>>

TaskWithId(id) ==
    LET found == {t \in Tasks : tsk[t] = id}
    IN  IF found = {} THEN UINT8_MAX ELSE CHOOSE t \in found : \A u \in found : t <= u

\* The links are checked against the number of default schedules.
init_schedules(states, num) ==
    [i \in Slots |->
        LET s == sch[i]
            t == IF task_schedule_validate(s) THEN TaskWithId(s.task_id) ELSE UINT8_MAX
            link == IF s.periodicity_type = TASK_PERIODICITY_AFTER /\ s.after.schedule_idx < default_num
                    THEN s.after.schedule_idx ELSE UINT8_MAX
        IN  IF i >= num THEN states[i]
            ELSE IF t = UINT8_MAX THEN [states[i] EXCEPT !.task_idx = UINT8_MAX, !.linked = UINT8_MAX]
            ELSE [NoState EXCEPT !.task_idx = t, !.linked = link]]

\* The end of task_runner_schedules_load and what its caller does next:
\* task_runner_init ends, an iteration goes on to its schedules.
load_done ==
    /\ loader.at # "idle"
    /\ loader.i = RANGE
    /\ \/ kv_id' = (kv_id \/ loader.at = "override")
       \/ StoreFaults /\ kv_id' = kv_id
    /\ flags' = flags \ {RELOADING}
    /\ sch_num' = loader.num_eval
    /\ loader' = Idle
    /\ LET r == [Run EXCEPT !.sch_states = init_schedules(@, loader.num_eval)]
       IN  IF loader.boot THEN SetRun(r) ELSE Evaluate(r, loader.num_eval, uptime)
    /\ UNCHANGED <<kv, old, kept, writer, sch, uptime, writes, reboots>>

-----------------------------------------------------------------------------
(***************************************************************************)
(* task_runner_iterate, at an uptime past that of the last iteration; at   *)
(* the bound the uptime stands still.                                      *)
(***************************************************************************)
Uptimes ==
    IF uptime = MaxUptime THEN {MaxUptime}
    ELSE {now \in uptime + 1 .. uptime + MaxStep : now <= MaxUptime}

\* No reload is asked for or under way
iterate_evaluates ==
    /\ loader.at = "idle"
    /\ flags = {}
    /\ uptime' \in Uptimes
    /\ Evaluate(Reap(Run, uptime'), sch_num, uptime')
    /\ UNCHANGED <<kv, kv_id, old, kept, writer, flags, sch, sch_num, loader, writes, reboots>>

\* The reload does not wait for the tasks it terminated
iterate_handle_task_reload_at_once ==
    /\ loader.at = "idle"
    /\ flags # {}
    /\ uptime' \in Uptimes
    /\ LET reaped == Reap(Run, uptime')
           r == IF TRIGGER \in flags THEN TerminateAll(reaped) ELSE reaped
       IN  /\ SetRun(r)
           /\ flags' = {RELOADING}
           /\ loader' = Loading(FALSE)
    /\ UNCHANGED <<kv, kv_id, old, kept, writer, sch, sch_num, writes, reboots>>

\* A reload was asked for: tasks are told to terminate once, and the
\* schedules are loaded in the first iteration that finds none running.
\* For an invalid schedule the code reads tsk_states[UINT8_MAX], memory that
\* is not part of the array; what is there is taken not to look like a running
\* task of that schedule.
iterate_handle_task_reload ==
    /\ loader.at = "idle"
    /\ flags # {}
    /\ uptime' \in Uptimes
    /\ LET reaped == Reap(Run, uptime')
           r == IF TRIGGER \in flags THEN TerminateAll(reaped) ELSE reaped
           stopped == \A t \in Tasks : ~r.tsk_states[t].running
       IN  /\ SetRun(r)
           /\ flags' = IF stopped THEN {RELOADING} ELSE {TERMINATING}
           /\ loader' = IF stopped THEN Loading(FALSE) ELSE loader
    /\ UNCHANGED <<kv, kv_id, old, kept, writer, sch, sch_num, writes, reboots>>

-----------------------------------------------------------------------------
(***************************************************************************)
(* The KV store, used by another thread.  A write that changes nothing     *)
(* makes no callback.  Missing stands for a deleted value and for one      *)
(* whose size is not that of a schedule.                                   *)
(***************************************************************************)
CanWrite ==
    /\ writer = NoKey
    /\ writes < MaxWrites
    /\ WritesDuringLoad \/ loader.at = "idle"
    /\ writes' = writes + 1
    /\ UNCHANGED <<flags, sch, sch_num, sch_states, tsk_states, exec, signal, loader, uptime,
                   event, history, kept, reboots>>

kv_store_write(i, value) ==
    /\ CanWrite
    /\ kv[i] # value
    /\ kv' = [kv EXCEPT ![i] = value]
    /\ old' = old \ {i}
    /\ writer' = i
    /\ UNCHANGED kv_id

\* Another default ID is stored: all schedules are to be the defaults again.
kv_store_write_id ==
    /\ CanWrite
    /\ kv_id
    /\ kv_id' = FALSE
    /\ old' = {i \in Slots : kv[i] # Missing}
    /\ writer' = ID
    /\ UNCHANGED kv

\* Only a change of the default ID asks for a reload
kv_value_changed_id_only ==
    /\ writer # NoKey
    /\ writer' = NoKey
    /\ flags' = IF RELOADING \in flags \/ writer # ID THEN flags ELSE flags \cup {TRIGGER}
    /\ UNCHANGED <<kv, kv_id, old, kept, sch, sch_num, sch_states, tsk_states, exec, signal, loader,
                   uptime, event, history, writes, reboots>>

\* The callback of the write
kv_value_changed ==
    /\ writer # NoKey
    /\ writer' = NoKey
    /\ flags' = IF RELOADING \in flags THEN flags ELSE flags \cup {TRIGGER}
    /\ UNCHANGED <<kv, kv_id, old, kept, sch, sch_num, sch_states, tsk_states, exec, signal, loader,
                   uptime, event, history, writes, reboots>>

\* A task returns, on its own or because it was told to
task_returns(t) ==
    /\ exec[t] = "active"
    /\ exec' = [exec EXCEPT ![t] = "ended"]
    /\ UNCHANGED <<kv, kv_id, old, kept, writer, flags, sch, sch_num, sch_states, tsk_states, signal,
                   loader, uptime, event, history, writes, reboots>>

\* What the device is in when task_runner_init has started to load: only the
\* KV store survives a restart.
Booting ==
    /\ writer' = NoKey
    /\ flags' = {RELOADING}
    /\ sch' = [i \in Slots |-> ZeroSchedule]
    /\ sch_num' = 0
    /\ sch_states' = [i \in Slots |-> NoState]
    /\ tsk_states' = [t \in Tasks |-> [running |-> FALSE, schedule_idx |-> UINT8_MAX]]
    /\ exec' = [t \in Tasks |-> "ended"]
    /\ signal' = [t \in Tasks |-> FALSE]
    /\ loader' = Loading(TRUE)
    /\ uptime' = -1
    /\ event' = [i \in Slots |-> "none"]
    /\ history' = [i \in Slots |-> [start |-> -1, end |-> -1]]

reboot ==
    /\ reboots < MaxReboots
    /\ reboots' = reboots + 1
    /\ Booting
    /\ UNCHANGED <<kv, kv_id, old, kept, writes>>

-----------------------------------------------------------------------------

\* A first boot of this firmware, over an empty KV store or one that an
\* earlier set of schedules left behind, or a boot that finds its own set
Init ==
    /\ kv \in [Slots -> Written \cup {Missing}]
    /\ kv_id \in BOOLEAN
    /\ old = IF kv_id THEN {} ELSE {i \in Slots : kv[i] # Missing}
    /\ kept = {}
    /\ writer = NoKey
    /\ flags = {RELOADING}
    /\ sch = [i \in Slots |-> ZeroSchedule]
    /\ sch_num = 0
    /\ sch_states = [i \in Slots |-> NoState]
    /\ tsk_states = [t \in Tasks |-> [running |-> FALSE, schedule_idx |-> UINT8_MAX]]
    /\ exec = [t \in Tasks |-> "ended"]
    /\ signal = [t \in Tasks |-> FALSE]
    /\ loader = Loading(TRUE)
    /\ uptime = -1
    /\ event = [i \in Slots |-> "none"]
    /\ history = [i \in Slots |-> [start |-> -1, end |-> -1]]
    /\ writes = 0
    /\ reboots = 0

\* The thread that iterates
Iterate == iterate_evaluates \/ iterate_handle_task_reload \/ override_slot \/ read_slot \/ load_done

Next ==
    \/ Iterate
    \/ \E i \in Slots, value \in Written \cup {Missing} : kv_store_write(i, value)
    \/ kv_store_write_id
    \/ kv_value_changed
    \/ \E t \in Tasks : task_returns(t)
    \/ reboot

Spec == Init /\ [][Next]_vars

\* Iterations are scheduled on a work queue and never end; a thread that
\* wrote a value goes on to its callback; a task that was told to terminate
\* returns, which is what the runner asks of every task.
FairSpec ==
    /\ Spec
    /\ WF_vars(Iterate)
    /\ WF_vars(kv_value_changed)
    /\ \A t \in Tasks : WF_vars(task_returns(t) /\ signal[t])

-----------------------------------------------------------------------------

\* A task executes only while the runner counts it as running, from a valid
\* schedule that is in use and names it, and never while schedules are being
\* loaded: the schedule a task was given a pointer to (task_start) does not
\* change under it.  Reloads, tasks that end by themselves and schedules that
\* share a task are all in between.
ExecutesItsSchedule ==
    \A t \in Tasks :
        exec[t] = "active" =>
            LET i == tsk_states[t].schedule_idx
            IN  /\ tsk_states[t].running
                /\ loader.at = "idle"
                /\ i < sch_num
                /\ sch_states[i].task_idx = t
                /\ sch[i].task_id = tsk[t]
                /\ task_schedule_validate(sch[i])

\* The events of a schedule come in order, whatever is reloaded in between:
\* it is started, may be requested to terminate, is stopped, and only then
\* started again (the event_cb calls of task_start, task_terminate and
\* task_has_terminated).
EventsInOrder == \A i \in Slots : event[i] # "out_of_order"

\* The KV store says it holds this set of schedules only when nothing of an
\* earlier set is left in it: the default ID is stored last
\* (task_runner_schedules_load), so a restart in the middle of overriding the
\* slots starts over.  The loader ignores the results of its writes and skips
\* default schedules that are not valid: those slots are the only exception.
NoOldSchedules == kv_id => old \subseteq kept

\* What the KV store says slot i is to be
Expected(i) ==
    IF i < default_num /\ Default(i).locked THEN Default(i)
    ELSE IF kv[i] # Missing THEN kv[i] ELSE ZeroSchedule

AtRest == loader.at = "idle" /\ flags = {} /\ writer = NoKey

\* "Any writes to the underlying task schedule KV slots will replace the
\* default schedule" (doc/embedded/app_features/task_runner.rst, Updating Task
\* Schedules): with no reload asked for or under way, the schedules in use are
\* those of the KV store.
SchedulesCurrent ==
    AtRest => /\ kv_id
              /\ \A i \in Slots : IF i < sch_num THEN sch[i] = Expected(i)
                                   ELSE Expected(i) = ZeroSchedule

\* Schedule i is started in a step
Starts(i) == history'[i].start # history[i].start /\ history'[i].start # -1

\* "Task can only run N seconds after previous run started"
\* (TASK_PERIODICITY_LOCKOUT in schedule.h), for as long as the schedule in
\* the slot stays the same.
LockoutRespected ==
    [][\A i \in Slots :
          /\ Starts(i)
          /\ sch[i].periodicity_type = TASK_PERIODICITY_LOCKOUT
          /\ history[i].start # -1
          => uptime' - history[i].start >= sch[i].lockout_s]_vars

\* "Task can only run N seconds after another schedule terminates"
\* (TASK_PERIODICITY_AFTER in schedule.h): the task of the linked schedule was
\* seen to end exactly that long before, also when schedules are reloaded in
\* between.
AfterRespected ==
    [][\A i \in Slots :
          Starts(i) /\ sch[i].periodicity_type = TASK_PERIODICITY_AFTER =>
            /\ sch[i].after.schedule_idx \in Slots
            /\ history'[sch[i].after.schedule_idx].end = uptime' - sch[i].after.duration_s]_vars

\* A change of the schedules is loaded in the end: every task the reload
\* waits for returns once it was told to (iterate_handle_task_reload).
ReloadHappens == TRIGGER \in flags ~> RELOADING \in flags

=============================================================================
