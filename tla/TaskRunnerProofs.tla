-------------------------- MODULE TaskRunnerProofs --------------------------
(***************************************************************************)
(* Proofs about the task runner, for any number of tasks and slots, any    *)
(* schedules and any times.                                                *)
(*                                                                         *)
(* The first part is about the loops of an iteration, as operators on the  *)
(* runner's view r of its tasks: what each changes, and that it keeps      *)
(* Good(r, n), the view of a runner that evaluates n schedules, true.      *)
(* The second part takes that to the steps of the specification (IInv).    *)
(* The others add what each property needs on top of it: the slots the     *)
(* loader has passed, and when schedules start.                            *)
(***************************************************************************)
EXTENDS TaskRunner, TLAPS

\* The values the variables range over
Schedules == Written \cup Provided \cup {ZeroSchedule}
States == [task_idx : Tasks \cup {UINT8_MAX}, linked : Slots \cup {UINT8_MAX},
           last_run : Int, last_terminate : Int, runtime : Int]
TaskStates == [running : BOOLEAN, schedule_idx : Slots \cup {UINT8_MAX}]
Spans == [start : Int, end : Int]
Events == {"none", "started", "terminate_request", "stopped", "out_of_order"}
AtWork == {"started", "terminate_request"}

RunType == [sch_states : [Slots -> States], tsk_states : [Tasks -> TaskStates],
            exec : [Tasks -> {"active", "ended"}], signal : [Tasks -> BOOLEAN],
            event : [Slots -> Events], history : [Slots -> Spans]]

\* A task executes only if it is running, and runs from one of the first n
\* schedules, which names it and was reported as started.
TasksGood(r, n) ==
    \A t \in Tasks :
        /\ r.exec[t] = "active" => r.tsk_states[t].running
        /\ r.tsk_states[t].running =>
              LET i == r.tsk_states[t].schedule_idx
              IN  i \in 0 .. n - 1 /\ r.sch_states[i].task_idx = t /\ r.event[i] \in AtWork

\* What was reported of a schedule is in order, and it is at work only if a
\* task runs from it.
EventsGood(r) ==
    \A i \in Slots :
        /\ r.event[i] # "out_of_order"
        /\ r.event[i] \in AtWork =>
              \E t \in Tasks : r.tsk_states[t].running /\ r.tsk_states[t].schedule_idx = i

\* The end of a run that the schedules know of is the true one.
EndsGood(r) ==
    \A i \in Slots : r.sch_states[i].last_terminate # 0 =>
                        r.history[i].end = r.sch_states[i].last_terminate

Good(r, n) == TasksGood(r, n) /\ EventsGood(r) /\ EndsGood(r)

\* Slots, tasks and UINT8_MAX as numbers.
LEMMA Numbers == /\ RANGE \in Nat /\ RANGE <= 255 /\ UINT8_MAX = 255 /\ UINT8_MAX \notin Slots
                 /\ Slots \subseteq Nat /\ Tasks \subseteq Nat /\ UINT8_MAX \notin Tasks
                 /\ \A n \in 0 .. RANGE : 0 .. n - 1 \subseteq Slots
BY RunnerAssumption, SMTT(30) DEF UINT8_MAX, Slots, Tasks

\* Which events follow which.
LEMMA Reported ==
  /\ \A x, e : Report(x, e) \in {e, "out_of_order"}
  /\ \A x \in AtWork : Report(x, "stopped") = "stopped"
                       /\ Report(x, "terminate_request") = "terminate_request"
  /\ \A x \in {"none", "stopped"} : Report(x, "started") = "started"
BY SMTT(30) DEF Report, AtWork

\* The first loop of an iteration keeps types.
LEMMA ReapType == ASSUME NEW r \in RunType, NEW now \in Int PROVE Reap(r, now) \in RunType
<1>1. \A x \in States : [x EXCEPT !.last_terminate = now] \in States
  BY DEF States
<1>2. \A x \in TaskStates : [x EXCEPT !.running = FALSE] \in TaskStates
  BY Zenon DEF TaskStates
<1>3. \A x \in Spans : [x EXCEPT !.end = now] \in Spans
  BY DEF Spans
<1> QED BY <1>1, <1>2, <1>3, Reported, Zenon DEF Reap, RunType, Events

\* The tasks whose end an iteration is about to notice
Ended(r) == {t \in Tasks : r.tsk_states[t].running /\ r.exec[t] # "active"}
EndedIn(r, i) == \E t \in Ended(r) : r.tsk_states[t].schedule_idx = i

\* What the first loop of an iteration changes
Reaped(r, now, q) ==
    /\ \A t \in Tasks :
          /\ q.exec[t] = r.exec[t]
          /\ q.tsk_states[t].running <=> r.tsk_states[t].running /\ r.exec[t] = "active"
          /\ q.tsk_states[t].schedule_idx = r.tsk_states[t].schedule_idx
    /\ \A i \in Slots :
          /\ q.sch_states[i].task_idx = r.sch_states[i].task_idx
          /\ q.sch_states[i].linked = r.sch_states[i].linked
          /\ q.sch_states[i].last_run = r.sch_states[i].last_run
          /\ q.history[i].start = r.history[i].start
          /\ q.sch_states[i].last_terminate =
               IF EndedIn(r, i) THEN now ELSE r.sch_states[i].last_terminate
          /\ q.history[i].end = IF EndedIn(r, i) THEN now ELSE r.history[i].end
          /\ q.event[i] = IF EndedIn(r, i) THEN Report(r.event[i], "stopped") ELSE r.event[i]

\* The first loop of an iteration.
LEMMA ReapFields ==
  ASSUME NEW r \in RunType, NEW now \in Int
  PROVE  Reaped(r, now, Reap(r, now))
<1> DEFINE q == Reap(r, now)
<1>1. q.exec = r.exec
  BY Zenon DEF Reap, RunType
<1>2. q.tsk_states = [t \in Tasks |-> IF t \in Ended(r) THEN [r.tsk_states[t] EXCEPT !.running = FALSE]
                                                         ELSE r.tsk_states[t]]
  BY Zenon DEF Reap, RunType, Ended, task_has_terminated
<1>3. q.sch_states = [i \in Slots |-> IF EndedIn(r, i)
                                      THEN [r.sch_states[i] EXCEPT !.last_terminate = now]
                                      ELSE r.sch_states[i]]
  BY Zenon DEF Reap, RunType, Ended, EndedIn, task_has_terminated
<1>4. q.event = [i \in Slots |-> IF EndedIn(r, i) THEN Report(r.event[i], "stopped") ELSE r.event[i]]
  BY Zenon DEF Reap, RunType, Ended, EndedIn, task_has_terminated
<1>5. q.history = [i \in Slots |-> IF EndedIn(r, i) THEN [r.history[i] EXCEPT !.end = now]
                                                    ELSE r.history[i]]
  BY Zenon DEF Reap, RunType, Ended, EndedIn, task_has_terminated
<1>6. \A x \in TaskStates : /\ [x EXCEPT !.running = FALSE].running = FALSE
                            /\ [x EXCEPT !.running = FALSE].schedule_idx = x.schedule_idx
  BY DEF TaskStates
<1>7. \A x \in States : LET y == [x EXCEPT !.last_terminate = now]
                        IN  /\ y.task_idx = x.task_idx /\ y.linked = x.linked
                            /\ y.last_run = x.last_run /\ y.last_terminate = now
  BY DEF States
<1>8. \A x \in Spans : LET y == [x EXCEPT !.end = now] IN y.start = x.start /\ y.end = now
  BY DEF Spans
<1>9. /\ \A t \in Tasks : r.tsk_states[t] \in TaskStates /\ r.tsk_states[t].running \in BOOLEAN
      /\ \A i \in Slots : r.sch_states[i] \in States /\ r.history[i] \in Spans
  BY DEF RunType, TaskStates
<1>10. \A t \in Tasks :
              /\ q.exec[t] = r.exec[t]
              /\ q.tsk_states[t].running <=> r.tsk_states[t].running /\ r.exec[t] = "active"
              /\ q.tsk_states[t].schedule_idx = r.tsk_states[t].schedule_idx
  <2> TAKE t \in Tasks
  <2>1. CASE t \in Ended(r)
    BY <1>1, <1>2, <1>6, <1>9, <2>1, Zenon DEF Ended
  <2>2. CASE t \notin Ended(r)
    BY <1>1, <1>2, <1>9, <2>2, Zenon DEF Ended
  <2> QED BY <2>1, <2>2
<1> HIDE DEF q
<1>11. Reaped(r, now, q)
  BY <1>3, <1>4, <1>5, <1>7, <1>8, <1>9, <1>10 DEF Reaped
<1> QED BY <1>11, Zenon DEF q

\* Noticing the ends of tasks keeps the runner's view of them true.
LEMMA ReapGood ==
  ASSUME NEW r \in RunType, NEW now \in Int, NEW n \in 0 .. RANGE, Good(r, n)
  PROVE  Good(Reap(r, now), n)
<1> DEFINE q == Reap(r, now)
<1>1. Reaped(r, now, q)  BY ReapFields, Zenon
<1> HIDE DEF q
<1>2. 0 .. n - 1 \subseteq Slots  BY Numbers
<1>3. TasksGood(q, n)
  <2> SUFFICES ASSUME NEW t \in Tasks
               PROVE  /\ q.exec[t] = "active" => q.tsk_states[t].running
                      /\ q.tsk_states[t].running =>
                            LET i == q.tsk_states[t].schedule_idx
                            IN  i \in 0 .. n - 1 /\ q.sch_states[i].task_idx = t /\ q.event[i] \in AtWork
    BY Zenon DEF TasksGood
  <2>1. q.exec[t] = "active" => q.tsk_states[t].running
    BY <1>1, ZenonT(40) DEF Good, TasksGood, Reaped
  <2>2. ASSUME q.tsk_states[t].running
        PROVE  LET i == q.tsk_states[t].schedule_idx
               IN  i \in 0 .. n - 1 /\ q.sch_states[i].task_idx = t /\ q.event[i] \in AtWork
    <3> DEFINE i == r.tsk_states[t].schedule_idx
    <3>1. /\ r.tsk_states[t].running /\ r.exec[t] = "active"
          /\ q.tsk_states[t].schedule_idx = i
      BY <1>1, <2>2, Zenon DEF Reaped
    <3>2. i \in 0 .. n - 1 /\ r.sch_states[i].task_idx = t /\ r.event[i] \in AtWork
      BY <3>1, Zenon DEF Good, TasksGood
    <3>3. i \in Slots /\ q.sch_states[i].task_idx = t
      BY <1>1, <1>2, <3>2, Zenon DEF Reaped
    <3>4. ~EndedIn(r, i)
      BY <3>1, <3>2, Zenon DEF Good, TasksGood, EndedIn, Ended
    <3>5. q.event[i] = r.event[i]
      BY <1>1, <3>3, <3>4, Zenon DEF Reaped
    <3> QED BY <3>1, <3>2, <3>3, <3>5, Zenon
  <2> QED BY <2>1, <2>2
<1>4. EventsGood(q)
  <2> SUFFICES ASSUME NEW i \in Slots
               PROVE  /\ q.event[i] # "out_of_order"
                      /\ q.event[i] \in AtWork =>
                           \E t \in Tasks : q.tsk_states[t].running /\ q.tsk_states[t].schedule_idx = i
    BY Zenon DEF EventsGood
  <2>1. CASE EndedIn(r, i)
    <3>1. r.event[i] \in AtWork
      BY <2>1, Zenon DEF EndedIn, Ended, Good, TasksGood
    <3>2. q.event[i] = "stopped"
      BY <1>1, <2>1, <3>1, Reported, ZenonT(40) DEF Reaped
    <3> QED BY <3>2 DEF AtWork
  <2>2. CASE ~EndedIn(r, i)
    <3>1. q.event[i] = r.event[i]
      BY <1>1, <2>2, Zenon DEF Reaped
    <3>2. ASSUME q.event[i] \in AtWork
          PROVE  \E t \in Tasks : q.tsk_states[t].running /\ q.tsk_states[t].schedule_idx = i
      <4>1. PICK t \in Tasks : r.tsk_states[t].running /\ r.tsk_states[t].schedule_idx = i
        BY <3>1, <3>2, Zenon DEF Good, EventsGood
      <4>2. r.exec[t] = "active"
        BY <2>2, <4>1, Zenon DEF EndedIn, Ended
      <4>3. q.tsk_states[t].running /\ q.tsk_states[t].schedule_idx = i
        BY <1>1, <4>1, <4>2, Zenon DEF Reaped
      <4> QED BY <4>3, Zenon
    <3>3. q.event[i] # "out_of_order"
      BY <3>1, Zenon DEF Good, EventsGood
    <3> QED BY <3>2, <3>3
  <2> QED BY <2>1, <2>2
<1>5. EndsGood(q)
  <2> SUFFICES ASSUME NEW i \in Slots, q.sch_states[i].last_terminate # 0
               PROVE  q.history[i].end = q.sch_states[i].last_terminate
    BY Zenon DEF EndsGood
  <2> QED BY <1>1, ZenonT(40) DEF Good, EndsGood, Reaped
<1> QED BY <1>3, <1>4, <1>5, Zenon DEF Good, q

-----------------------------------------------------------------------------
\* Schedules that may start together: their tasks are free, and each has its own
MayStart(r, slots, n) ==
    /\ slots \subseteq 0 .. n - 1
    /\ \A i \in slots : /\ r.sch_states[i].task_idx \in Tasks
                        /\ ~r.tsk_states[r.sch_states[i].task_idx].running
    /\ \A i, j \in slots : r.sch_states[i].task_idx = r.sch_states[j].task_idx => i = j

\* What starting the tasks of some schedules changes
Started(r, slots, now, q) ==
    /\ \A t \in Tasks : Naming(r, slots, t) = {} =>
          q.exec[t] = r.exec[t] /\ q.tsk_states[t] = r.tsk_states[t]
    /\ \A t \in Tasks : Naming(r, slots, t) # {} =>
          q.tsk_states[t].running /\ q.tsk_states[t].schedule_idx \in Naming(r, slots, t)
    /\ \A i \in Slots :
          /\ q.sch_states[i].task_idx = r.sch_states[i].task_idx
          /\ q.sch_states[i].linked = r.sch_states[i].linked
          /\ q.sch_states[i].last_terminate = r.sch_states[i].last_terminate
          /\ q.history[i].end = r.history[i].end
          /\ q.sch_states[i].last_run = IF i \in slots THEN now ELSE r.sch_states[i].last_run
          /\ q.history[i].start = IF i \in slots THEN now ELSE r.history[i].start
          /\ q.event[i] = IF i \in slots THEN Report(r.event[i], "started") ELSE r.event[i]

\* Starting tasks.
LEMMA StartFields ==
  ASSUME NEW r \in RunType, NEW slots \in SUBSET Slots, NEW now \in Int
  PROVE  Started(r, slots, now, task_start(r, slots, now)) /\ task_start(r, slots, now) \in RunType
<1> DEFINE q == task_start(r, slots, now)
<1>1. q.exec = [t \in Tasks |-> IF Naming(r, slots, t) = {} THEN r.exec[t] ELSE "active"]
  BY Zenon DEF task_start, RunType
<1>2. q.tsk_states = [t \in Tasks |-> IF Naming(r, slots, t) = {} THEN r.tsk_states[t]
                        ELSE [running |-> TRUE,
                              schedule_idx |-> CHOOSE i \in Naming(r, slots, t) : TRUE]]
  BY Zenon DEF task_start, RunType
<1>3. q.sch_states = [i \in Slots |-> IF i \in slots
                        THEN [r.sch_states[i] EXCEPT !.last_run = now, !.runtime = 0]
                        ELSE r.sch_states[i]]
  BY Zenon DEF task_start, RunType
<1>4. q.event = [i \in Slots |-> IF i \in slots THEN Report(r.event[i], "started") ELSE r.event[i]]
  BY Zenon DEF task_start, RunType
<1>5. q.history = [i \in Slots |-> IF i \in slots THEN [r.history[i] EXCEPT !.start = now]
                                                  ELSE r.history[i]]
  BY Zenon DEF task_start, RunType
<1>6. q.signal = [t \in Tasks |-> r.signal[t] /\ Naming(r, slots, t) = {}]
  BY Zenon DEF task_start, RunType
<1>7. /\ \A x \in States : [x EXCEPT !.last_run = now, !.runtime = 0] \in States
      /\ \A x \in Spans : [x EXCEPT !.start = now] \in Spans
  <2>1. \A x \in States : [x EXCEPT !.last_run = now, !.runtime = 0] \in States
    <3>1. 0 \in Int  OBVIOUS
    <3> QED BY <3>1, Zenon DEF States
  <2>2. \A x \in Spans : [x EXCEPT !.start = now] \in Spans
    BY DEF Spans
  <2> QED BY <2>1, <2>2, Zenon
<1>8. /\ \A x \in States : LET y == [x EXCEPT !.last_run = now, !.runtime = 0]
                           IN  /\ y.task_idx = x.task_idx /\ y.linked = x.linked
                               /\ y.last_run = now /\ y.last_terminate = x.last_terminate
      /\ \A x \in Spans : LET y == [x EXCEPT !.start = now] IN y.start = now /\ y.end = x.end
  <2>1. \A x \in States : LET y == [x EXCEPT !.last_run = now, !.runtime = 0]
                          IN  /\ y.task_idx = x.task_idx /\ y.linked = x.linked
                              /\ y.last_run = now /\ y.last_terminate = x.last_terminate
    BY DEF States
  <2>2. \A x \in Spans : LET y == [x EXCEPT !.start = now] IN y.start = now /\ y.end = x.end
    BY DEF Spans
  <2> QED BY <2>1, <2>2, Zenon
<1>9. /\ \A t \in Tasks : r.tsk_states[t] \in TaskStates /\ r.exec[t] \in {"active", "ended"}
      /\ \A i \in Slots : r.sch_states[i] \in States /\ r.history[i] \in Spans /\ r.event[i] \in Events
  BY DEF RunType
<1> HIDE DEF q
<1>10. \A t \in Tasks : Naming(r, slots, t) = {} => q.exec[t] = r.exec[t] /\ q.tsk_states[t] = r.tsk_states[t]
  BY <1>1, <1>2, Zenon
<1>11. \A t \in Tasks : Naming(r, slots, t) # {} =>
              /\ q.exec[t] = "active"
              /\ q.tsk_states[t].running
              /\ q.tsk_states[t].schedule_idx \in Naming(r, slots, t)
              /\ q.tsk_states[t] \in TaskStates
  <2> TAKE t \in Tasks
  <2> HAVE Naming(r, slots, t) # {}
  <2> DEFINE c == CHOOSE i \in Naming(r, slots, t) : TRUE
  <2>1. c \in Naming(r, slots, t)
    <3>1. \E i \in Naming(r, slots, t) : TRUE  BY Zenon
    <3> QED BY <3>1, Zenon
  <2>2. q.tsk_states[t] = [running |-> TRUE, schedule_idx |-> c]
    BY <1>2, Zenon
  <2> HIDE DEF c
  <2>3. c \in Slots  BY <2>1 DEF Naming
  <2>4. q.exec[t] = "active"  BY <1>1, Zenon
  <2> QED BY <2>1, <2>2, <2>3, <2>4 DEF TaskStates
<1>12. q.exec \in [Tasks -> {"active", "ended"}] /\ q.tsk_states \in [Tasks -> TaskStates]
  <2>1. \A t \in Tasks : q.exec[t] \in {"active", "ended"} /\ q.tsk_states[t] \in TaskStates
    BY <1>9, <1>10, <1>11, Zenon
  <2>2. /\ q.exec = [t \in Tasks |-> q.exec[t]]
        /\ q.tsk_states = [t \in Tasks |-> q.tsk_states[t]]
    BY <1>1, <1>2, Zenon
  <2> QED BY <2>1, <2>2, Zenon
<1>13. \A i \in Slots : IF i \in slots
         THEN /\ q.sch_states[i] = [r.sch_states[i] EXCEPT !.last_run = now, !.runtime = 0]
              /\ q.history[i] = [r.history[i] EXCEPT !.start = now]
         ELSE q.sch_states[i] = r.sch_states[i] /\ q.history[i] = r.history[i]
  BY <1>3, <1>5, Zenon
<1>14. q.sch_states \in [Slots -> States] /\ q.history \in [Slots -> Spans]
  <2>1. ASSUME NEW i \in Slots PROVE q.sch_states[i] \in States /\ q.history[i] \in Spans
    <3>1. r.sch_states[i] \in States /\ r.history[i] \in Spans  BY <1>9, Zenon
    <3>2. CASE i \in slots
      <4>1. [r.sch_states[i] EXCEPT !.last_run = now, !.runtime = 0] \in States  BY <1>7, <3>1, Zenon
      <4>2. [r.history[i] EXCEPT !.start = now] \in Spans  BY <1>7, <3>1, Zenon
      <4> QED BY <1>13, <3>2, <4>1, <4>2, Zenon
    <3>3. CASE i \notin slots
      BY <1>13, <3>1, <3>3, Zenon
    <3> QED BY <3>2, <3>3
  <2>2. /\ q.sch_states = [i \in Slots |-> q.sch_states[i]]
        /\ q.history = [i \in Slots |-> q.history[i]]
    BY <1>3, <1>5, Zenon
  <2> QED BY <2>1, <2>2, Zenon
<1>15. q.event \in [Slots -> Events] /\ q.signal \in [Tasks -> BOOLEAN]
  BY <1>4, <1>6, <1>9, Reported DEF Events
<1>16. q \in RunType
  <2>1. \A x \in RunType : [x EXCEPT !.sch_states = q.sch_states, !.tsk_states = q.tsk_states,
                                      !.signal = q.signal, !.exec = q.exec, !.event = q.event,
                                      !.history = q.history] \in RunType
    BY <1>12, <1>14, <1>15, Zenon DEF RunType
  <2>2. q = [r EXCEPT !.sch_states = q.sch_states, !.tsk_states = q.tsk_states,
                      !.signal = q.signal, !.exec = q.exec, !.event = q.event,
                      !.history = q.history]
    BY <1>1, <1>2, <1>3, <1>4, <1>5, <1>6, Zenon DEF q, task_start
  <2> QED BY <2>1, <2>2, Zenon
<1>17. \A i \in Slots :
         /\ q.sch_states[i].task_idx = r.sch_states[i].task_idx
         /\ q.sch_states[i].linked = r.sch_states[i].linked
         /\ q.sch_states[i].last_terminate = r.sch_states[i].last_terminate
         /\ q.history[i].end = r.history[i].end
         /\ q.sch_states[i].last_run = IF i \in slots THEN now ELSE r.sch_states[i].last_run
         /\ q.history[i].start = IF i \in slots THEN now ELSE r.history[i].start
         /\ q.event[i] = IF i \in slots THEN Report(r.event[i], "started") ELSE r.event[i]
  <2> TAKE i \in Slots
  <2>1. q.event[i] = IF i \in slots THEN Report(r.event[i], "started") ELSE r.event[i]
    BY <1>4, Zenon
  <2>2. CASE i \in slots
    <3>1. r.sch_states[i] \in States /\ r.history[i] \in Spans  BY <1>9, Zenon
    <3>2. /\ q.sch_states[i] = [r.sch_states[i] EXCEPT !.last_run = now, !.runtime = 0]
          /\ q.history[i] = [r.history[i] EXCEPT !.start = now]
      BY <1>13, <2>2, Zenon
    <3>3. /\ q.sch_states[i].task_idx = r.sch_states[i].task_idx
          /\ q.sch_states[i].linked = r.sch_states[i].linked
          /\ q.sch_states[i].last_terminate = r.sch_states[i].last_terminate
          /\ q.sch_states[i].last_run = now
      BY <1>8, <3>1, <3>2, ZenonT(40)
    <3>4. q.history[i].start = now /\ q.history[i].end = r.history[i].end
      BY <1>8, <3>1, <3>2, ZenonT(40)
    <3> QED BY <2>1, <2>2, <3>3, <3>4, Zenon
  <2>3. CASE i \notin slots
    BY <1>13, <2>1, <2>3, Zenon
  <2> QED BY <2>2, <2>3
<1>18. Started(r, slots, now, q)
  BY <1>10, <1>11, <1>17, Zenon DEF Started
<1> QED BY <1>16, <1>18, Zenon DEF q

\* Starting tasks that are free keeps the runner's view of all of them true.
LEMMA StartGood ==
  ASSUME NEW r \in RunType, NEW n \in 0 .. RANGE, NEW slots, NEW now \in Int,
         Good(r, n), MayStart(r, slots, n)
  PROVE  Good(task_start(r, slots, now), n)
<1> DEFINE q == task_start(r, slots, now)
<1>1. 0 .. n - 1 \subseteq Slots  BY Numbers
<1>2. slots \subseteq 0 .. n - 1 /\ slots \in SUBSET Slots
  BY <1>1, Zenon DEF MayStart
<1>3. Started(r, slots, now, q)  BY <1>2, StartFields, Zenon
<1> HIDE DEF q
<1>4. ASSUME NEW t \in Tasks, r.tsk_states[t].running
      PROVE  Naming(r, slots, t) = {} /\ r.tsk_states[t].schedule_idx \notin slots
  <2>1. Naming(r, slots, t) = {}
    BY <1>4, Zenon DEF MayStart, Naming
  <2>2. r.sch_states[r.tsk_states[t].schedule_idx].task_idx = t
    BY <1>4, Zenon DEF Good, TasksGood
  <2> QED BY <2>1, <2>2, Zenon DEF Naming
<1>5. ASSUME NEW i \in slots PROVE q.event[i] = "started"
  <2>1. i \in Slots  BY <1>2, Zenon
  <2>2. r.event[i] \notin AtWork
    <3> SUFFICES ASSUME r.event[i] \in AtWork PROVE FALSE  OBVIOUS
    <3>1. PICK t \in Tasks : r.tsk_states[t].running /\ r.tsk_states[t].schedule_idx = i
      BY <2>1, Zenon DEF Good, EventsGood
    <3> QED BY <1>4, <3>1, Zenon
  <2>3. r.event[i] \in Events /\ r.event[i] # "out_of_order"
    BY <2>1, Zenon DEF Good, EventsGood, RunType
  <2>4. r.event[i] \in {"none", "stopped"}
    BY <2>2, <2>3, ZenonT(40) DEF Events, AtWork
  <2> QED BY <1>3, <2>1, <2>4, Reported, Zenon DEF Started
<1>6. TasksGood(q, n)
  <2> SUFFICES ASSUME NEW t \in Tasks
               PROVE  /\ q.exec[t] = "active" => q.tsk_states[t].running
                      /\ q.tsk_states[t].running =>
                            LET i == q.tsk_states[t].schedule_idx
                            IN  i \in 0 .. n - 1 /\ q.sch_states[i].task_idx = t /\ q.event[i] \in AtWork
    BY Zenon DEF TasksGood
  <2>1. CASE Naming(r, slots, t) = {}
    <3> DEFINE i == r.tsk_states[t].schedule_idx
    <3>1. q.exec[t] = r.exec[t] /\ q.tsk_states[t] = r.tsk_states[t]
      BY <1>3, <2>1, Zenon DEF Started
    <3>2. q.exec[t] = "active" => q.tsk_states[t].running
      BY <3>1, Zenon DEF Good, TasksGood
    <3>3. ASSUME r.tsk_states[t].running
          PROVE  i \in 0 .. n - 1 /\ q.sch_states[i].task_idx = t /\ q.event[i] \in AtWork
      <4>1. i \in 0 .. n - 1 /\ r.sch_states[i].task_idx = t /\ r.event[i] \in AtWork
        BY <3>3, Zenon DEF Good, TasksGood
      <4>2. i \notin slots  BY <1>4, <3>3, Zenon
      <4>3. i \in Slots  BY <1>1, <4>1, Zenon
      <4>4. q.sch_states[i].task_idx = r.sch_states[i].task_idx /\ q.event[i] = r.event[i]
        BY <1>3, <4>2, <4>3, Zenon DEF Started
      <4> QED BY <4>1, <4>4, Zenon
    <3> QED BY <3>1, <3>2, <3>3, Zenon
  <2>2. CASE Naming(r, slots, t) # {}
    <3> DEFINE i == q.tsk_states[t].schedule_idx
    <3>1. q.tsk_states[t].running /\ i \in Naming(r, slots, t)
      BY <1>3, <2>2, Zenon DEF Started
    <3>2. i \in slots /\ r.sch_states[i].task_idx = t
      BY <3>1, Zenon DEF Naming
    <3>3. q.sch_states[i].task_idx = t /\ i \in 0 .. n - 1
      BY <1>2, <1>3, <3>2, Zenon DEF Started
    <3>4. q.event[i] \in AtWork
      BY <1>5, <3>2, Zenon DEF AtWork
    <3> QED BY <3>1, <3>3, <3>4, Zenon
  <2> QED BY <2>1, <2>2
<1>7. EventsGood(q)
  <2> SUFFICES ASSUME NEW i \in Slots
               PROVE  /\ q.event[i] # "out_of_order"
                      /\ q.event[i] \in AtWork =>
                           \E t \in Tasks : q.tsk_states[t].running /\ q.tsk_states[t].schedule_idx = i
    BY Zenon DEF EventsGood
  <2>1. CASE i \in slots
    <3> DEFINE t == r.sch_states[i].task_idx
    <3>1. t \in Tasks  BY <2>1, Zenon DEF MayStart
    <3>2. i \in Naming(r, slots, t)  BY <2>1, Zenon DEF Naming
    <3>3. q.tsk_states[t].running /\ q.tsk_states[t].schedule_idx \in Naming(r, slots, t)
      BY <1>3, <3>1, <3>2, Zenon DEF Started
    <3>4. q.tsk_states[t].schedule_idx = i
      BY <2>1, <3>3, Zenon DEF Naming, MayStart
    <3>5. q.event[i] # "out_of_order"
      BY <1>5, <2>1
    <3> QED BY <3>1, <3>3, <3>4, <3>5, Zenon
  <2>2. CASE i \notin slots
    <3>1. q.event[i] = r.event[i]
      BY <1>3, <2>2, Zenon DEF Started
    <3>2. ASSUME r.event[i] \in AtWork
          PROVE  \E t \in Tasks : q.tsk_states[t].running /\ q.tsk_states[t].schedule_idx = i
      <4>1. PICK t \in Tasks : r.tsk_states[t].running /\ r.tsk_states[t].schedule_idx = i
        BY <3>2, Zenon DEF Good, EventsGood
      <4>2. q.tsk_states[t] = r.tsk_states[t]
        BY <1>3, <1>4, <4>1, Zenon DEF Started
      <4> QED BY <4>1, <4>2, Zenon
    <3>3. r.event[i] # "out_of_order"
      BY Zenon DEF Good, EventsGood
    <3> QED BY <3>1, <3>2, <3>3, Zenon
  <2> QED BY <2>1, <2>2
<1>8. EndsGood(q)
  BY <1>3, ZenonT(40) DEF Good, EndsGood, Started
<1> QED BY <1>6, <1>7, <1>8, Zenon DEF Good, q

\* What counting and asking for the end of tasks leave alone
Kept(r, q) ==
    /\ q.exec = r.exec /\ q.tsk_states = r.tsk_states /\ q.history = r.history
    /\ \A i \in Slots : /\ q.sch_states[i].task_idx = r.sch_states[i].task_idx
                        /\ q.sch_states[i].linked = r.sch_states[i].linked
                        /\ q.sch_states[i].last_run = r.sch_states[i].last_run
                        /\ q.sch_states[i].last_terminate = r.sch_states[i].last_terminate

\* Counting how long tasks run.
LEMMA CountFields ==
  ASSUME NEW r \in RunType, NEW slots
  PROVE  Kept(r, Counted(r, slots)) /\ Counted(r, slots).event = r.event /\ Counted(r, slots) \in RunType
<1> DEFINE q == Counted(r, slots)
           C(x) == [x EXCEPT !.runtime = Saturated(@ + 1)]
<1>1. q.exec = r.exec /\ q.tsk_states = r.tsk_states /\ q.history = r.history /\ q.event = r.event
  BY Zenon DEF Counted, RunType
<1>2. q.sch_states = [i \in Slots |-> IF i \in slots THEN C(r.sch_states[i]) ELSE r.sch_states[i]]
  BY Zenon DEF Counted, RunType
<1>3. \A n \in Int : Saturated(n + 1) \in Int
  BY RunnerAssumption DEF Saturated, MaxRuntime
<1>4. \A x \in States : C(x) \in States
  <2>1. \A x \in States : x.runtime \in Int  BY DEF States
  <2> QED BY <1>3, <2>1, Zenon DEF States
<1>5. \A x \in States : /\ C(x).task_idx = x.task_idx /\ C(x).linked = x.linked
                        /\ C(x).last_run = x.last_run /\ C(x).last_terminate = x.last_terminate
  BY Zenon DEF States
<1>6. \A i \in Slots : r.sch_states[i] \in States
  BY DEF RunType
<1>7. q \in RunType
  <2>1. q.sch_states \in [Slots -> States]
    BY <1>2, <1>4, <1>6, Zenon
  <2>2. \A f \in [Slots -> States] : [r EXCEPT !.sch_states = f] \in RunType
    BY Zenon DEF RunType
  <2>3. q = [r EXCEPT !.sch_states = q.sch_states]
    BY <1>2, Zenon DEF Counted
  <2> QED BY <2>1, <2>2, <2>3, Zenon
<1>8. ASSUME NEW i \in Slots
      PROVE  /\ q.sch_states[i].task_idx = r.sch_states[i].task_idx
             /\ q.sch_states[i].linked = r.sch_states[i].linked
             /\ q.sch_states[i].last_run = r.sch_states[i].last_run
             /\ q.sch_states[i].last_terminate = r.sch_states[i].last_terminate
  <2>1. q.sch_states[i] = C(r.sch_states[i]) \/ q.sch_states[i] = r.sch_states[i]
    BY <1>2, Zenon
  <2> QED BY <1>5, <1>6, <2>1, ZenonT(40)
<1> HIDE DEF q
<1> QED BY <1>1, <1>7, <1>8, Zenon DEF Kept, q

\* What the event callbacks see of tasks that are told to terminate
Told(r, slots, q) ==
    \A i \in Slots : q.event[i] = IF i \in slots THEN Report(r.event[i], "terminate_request")
                                                 ELSE r.event[i]

\* Telling tasks to terminate.
LEMMA TerminateFields ==
  ASSUME NEW r \in RunType, NEW slots, NEW q, q = task_terminate(r, slots)
  PROVE  Kept(r, q) /\ q \in RunType /\ Told(r, slots, q)
<1>1. q.exec = r.exec /\ q.tsk_states = r.tsk_states /\ q.history = r.history
      /\ q.sch_states = r.sch_states
  BY Zenon DEF task_terminate, RunType
<1>2. q.event = [i \in Slots |-> IF i \in slots THEN Report(r.event[i], "terminate_request")
                                                ELSE r.event[i]]
  BY Zenon DEF task_terminate, RunType
<1>3. q.signal = [t \in Tasks |-> r.signal[t] \/ Naming(r, slots, t) # {}]
  BY Zenon DEF task_terminate, RunType
<1>4. q.event \in [Slots -> Events]
  <2>1. \A i \in Slots : r.event[i] \in Events  BY DEF RunType
  <2> QED BY <1>2, <2>1, Reported DEF Events
<1>5. q.signal \in [Tasks -> BOOLEAN]
  BY <1>3
<1>6. q \in RunType
  <2>1. \A f \in [Tasks -> BOOLEAN], g \in [Slots -> Events] : [r EXCEPT !.signal = f, !.event = g] \in RunType
    BY Zenon DEF RunType
  <2>2. q = [r EXCEPT !.signal = q.signal, !.event = q.event]
    BY <1>2, <1>3, Zenon DEF task_terminate
  <2>3. [r EXCEPT !.signal = q.signal, !.event = q.event] \in RunType
    BY <1>4, <1>5, <2>1, Zenon
  <2> QED BY <2>2, <2>3, Zenon
<1>7. Told(r, slots, q)  BY <1>2, Zenon DEF Told
<1>8. Kept(r, q)  BY <1>1, Zenon DEF Kept
<1> QED BY <1>6, <1>7, <1>8

\* Neither makes the runner's view of the tasks untrue.
LEMMA KeptGood ==
  ASSUME NEW r \in RunType, NEW q, NEW n \in 0 .. RANGE, Good(r, n), Kept(r, q),
         \A i \in Slots : \/ q.event[i] = r.event[i]
                          \/ r.event[i] \in AtWork /\ q.event[i] = "terminate_request"
  PROVE  Good(q, n)
<1>1. 0 .. n - 1 \subseteq Slots  BY Numbers, SMTT(30)
<1>2. \A i \in Slots : /\ r.event[i] \in AtWork <=> q.event[i] \in AtWork
                       /\ r.event[i] # "out_of_order" => q.event[i] # "out_of_order"
  BY SMTT(30) DEF AtWork
<1>3. TasksGood(q, n)
  <2> SUFFICES ASSUME NEW t \in Tasks
               PROVE  /\ r.exec[t] = "active" => r.tsk_states[t].running
                      /\ r.tsk_states[t].running =>
                            LET i == r.tsk_states[t].schedule_idx
                            IN  i \in 0 .. n - 1 /\ q.sch_states[i].task_idx = t /\ q.event[i] \in AtWork
    BY ZenonT(40) DEF TasksGood, Kept
  <2>1. r.exec[t] = "active" => r.tsk_states[t].running
    BY Zenon DEF Good, TasksGood
  <2>2. ASSUME r.tsk_states[t].running
        PROVE  LET i == r.tsk_states[t].schedule_idx
               IN  i \in 0 .. n - 1 /\ q.sch_states[i].task_idx = t /\ q.event[i] \in AtWork
    <3> DEFINE i == r.tsk_states[t].schedule_idx
    <3>1. i \in 0 .. n - 1 /\ r.sch_states[i].task_idx = t /\ r.event[i] \in AtWork
      BY <2>2, Zenon DEF Good, TasksGood
    <3>2. i \in Slots  BY <1>1, <3>1, Zenon
    <3> QED BY <1>2, <3>1, <3>2, Zenon DEF Kept
  <2> QED BY <2>1, <2>2
<1>4. EventsGood(q)
  <2>1. ASSUME NEW i \in Slots, q.event[i] \in AtWork
        PROVE  \E t \in Tasks : r.tsk_states[t].running /\ r.tsk_states[t].schedule_idx = i
    BY <1>2, <2>1, Zenon DEF Good, EventsGood
  <2>2. \A i \in Slots : q.event[i] # "out_of_order"
    BY <1>2, Zenon DEF Good, EventsGood
  <2> QED BY <2>1, <2>2, ZenonT(40) DEF EventsGood, Kept
<1>5. EndsGood(q)
  BY Zenon DEF Good, EndsGood, Kept
<1> QED BY <1>3, <1>4, <1>5, Zenon DEF Good

-----------------------------------------------------------------------------
\* What the loop over the first n schedules changes
Evaluated(r, n, now, app_states, soc, q) ==
    \A i \in Slots :
        /\ q.sch_states[i].task_idx = r.sch_states[i].task_idx
        /\ q.sch_states[i].linked = r.sch_states[i].linked
        /\ q.sch_states[i].last_terminate = r.sch_states[i].last_terminate
        /\ q.history[i].end = r.history[i].end
        /\ \/ /\ q.sch_states[i].last_run = r.sch_states[i].last_run
              /\ q.history[i].start = r.history[i].start
           \/ /\ i \in 0 .. n - 1 /\ ToStart(r, i, now, app_states, soc)
              /\ q.sch_states[i].last_run = now /\ q.history[i].start = now

\* The loop over the schedules starts a task only if it is free and only once,
\* and asks only running tasks to terminate.
LEMMA EvaluateGood ==
  ASSUME NEW r \in RunType, NEW n \in 0 .. RANGE, NEW now \in Int, NEW app_states, NEW soc,
         Good(r, n)
  PROVE  LET q == EvaluateSchedules(r, n, now, app_states, soc)
         IN  q \in RunType /\ Good(q, n) /\ Evaluated(r, n, now, app_states, soc, q)
<1> DEFINE permanent == {i \in Slots : sch[i].validity = TASK_VALID_PERMANENTLY_RUNS}
           running == {i \in 0 .. n - 1 : Runs(r, i) /\ r.sch_states[i].task_idx \notin SkipTasks}
           waiting == {i \in 0 .. n - 1 : ToStart(r, i, now, app_states, soc)}
           starting == {i \in waiting : \A j \in waiting :
                          j < i => r.sch_states[j].task_idx # r.sch_states[i].task_idx}
           begun == task_start(r, starting, now)
           counted == Counted(begun, running \cup (starting \cap permanent))
           ending == {i \in running \ permanent :
                        task_schedule_should_terminate(sch[i], counted.sch_states[i], app_states, soc)}
           q == task_terminate(counted, ending)
<1>1. EvaluateSchedules(r, n, now, app_states, soc) = q
  BY Zenon DEF EvaluateSchedules
<1>2. 0 .. n - 1 \subseteq Slots /\ 0 .. n - 1 \subseteq Int /\ UINT8_MAX \notin Tasks
  BY Numbers
<1>3. \A i \in Slots : r.sch_states[i].task_idx \in Tasks \cup {UINT8_MAX}
  BY DEF RunType, States
<1>4. \A i \in running : /\ r.sch_states[i].task_idx \in Tasks
                         /\ r.tsk_states[r.sch_states[i].task_idx].running
                         /\ r.tsk_states[r.sch_states[i].task_idx].schedule_idx = i
                         /\ i \in Slots
  BY <1>2, <1>3, ZenonT(40) DEF Runs
<1>5. \A i \in waiting : /\ i \in 0 .. n - 1 /\ i \in Int /\ r.sch_states[i].task_idx \in Tasks
                         /\ ~r.tsk_states[r.sch_states[i].task_idx].running
                         /\ ToStart(r, i, now, app_states, soc)
  BY <1>2, <1>3, ZenonT(40) DEF ToStart
<1>6. \A i \in ending : i \in running  BY Zenon
<1> HIDE DEF running, waiting, permanent, ending
<1>7. MayStart(r, starting, n)
  <2>1. \A i \in starting : i \in waiting  OBVIOUS
  <2>2. ASSUME NEW i \in starting, NEW j \in starting,
               r.sch_states[i].task_idx = r.sch_states[j].task_idx
        PROVE  i = j
    <3>1. ~(i < j) /\ ~(j < i)  BY <2>1, <2>2, Zenon
    <3>2. i \in Int /\ j \in Int  BY <1>5, <2>1, Zenon
    <3> QED BY <3>1, <3>2
  <2> HIDE DEF starting
  <2>3. starting \subseteq 0 .. n - 1  BY <1>5, <2>1, Zenon
  <2> QED BY <1>5, <2>1, <2>2, <2>3, Zenon DEF MayStart
<1>8. \A i \in starting : ToStart(r, i, now, app_states, soc)
  BY <1>5
<1> HIDE DEF starting
<1>9. starting \in SUBSET Slots /\ starting \subseteq 0 .. n - 1
  BY <1>2, <1>7, Zenon DEF MayStart
<1>10. Good(begun, n) /\ begun \in RunType /\ Started(r, starting, now, begun)
  BY <1>7, <1>9, StartGood, StartFields, Zenon
<1> HIDE DEF begun
<1>11. counted \in RunType /\ Kept(begun, counted) /\ counted.event = begun.event
  BY <1>10, CountFields, Zenon
<1> HIDE DEF counted
<1>12. Good(counted, n)
  BY <1>10, <1>11, KeptGood, Zenon
<1>13. \A i \in running : counted.event[i] \in AtWork
  <2> TAKE i \in running
  <2> DEFINE t == r.sch_states[i].task_idx
  <2>1. t \in Tasks /\ r.tsk_states[t].running /\ r.tsk_states[t].schedule_idx = i
    BY <1>4, Zenon
  <2>2. Naming(r, starting, t) = {}
    BY <1>7, <2>1, Zenon DEF MayStart, Naming
  <2>3. begun.tsk_states[t] = r.tsk_states[t]
    BY <1>10, <2>1, <2>2, Zenon DEF Started
  <2>4. begun.event[i] \in AtWork
    BY <1>10, <2>1, <2>3, ZenonT(40) DEF Good, TasksGood
  <2> QED BY <1>11, <2>4, Zenon
<1>14. Kept(counted, q) /\ q \in RunType /\ Told(counted, ending, q)
  <2>1. q = task_terminate(counted, ending)  OBVIOUS
  <2> HIDE DEF q
  <2> QED BY <1>11, <2>1, TerminateFields, Zenon
<1> HIDE DEF q
<1>15. \A i \in Slots : \/ q.event[i] = counted.event[i]
                        \/ counted.event[i] \in AtWork /\ q.event[i] = "terminate_request"
  <2> TAKE i \in Slots
  <2>1. CASE i \in ending
    BY <1>6, <1>13, <1>14, <2>1, Reported, Zenon DEF Told
  <2>2. CASE i \notin ending
    BY <1>14, <2>2, Zenon DEF Told
  <2> QED BY <2>1, <2>2
<1>16. Good(q, n)
  BY <1>11, <1>12, <1>14, <1>15, KeptGood, Zenon
<1>17. Evaluated(r, n, now, app_states, soc, q)
  <2> SUFFICES ASSUME NEW i \in Slots
               PROVE  /\ q.sch_states[i].task_idx = r.sch_states[i].task_idx
                      /\ q.sch_states[i].linked = r.sch_states[i].linked
                      /\ q.sch_states[i].last_terminate = r.sch_states[i].last_terminate
                      /\ q.history[i].end = r.history[i].end
                      /\ \/ /\ q.sch_states[i].last_run = r.sch_states[i].last_run
                            /\ q.history[i].start = r.history[i].start
                         \/ /\ i \in 0 .. n - 1 /\ ToStart(r, i, now, app_states, soc)
                            /\ q.sch_states[i].last_run = now /\ q.history[i].start = now
    BY Zenon DEF Evaluated
  <2>1. /\ q.history = begun.history
        /\ q.sch_states[i].task_idx = begun.sch_states[i].task_idx
        /\ q.sch_states[i].linked = begun.sch_states[i].linked
        /\ q.sch_states[i].last_run = begun.sch_states[i].last_run
        /\ q.sch_states[i].last_terminate = begun.sch_states[i].last_terminate
    BY <1>11, <1>14, Zenon DEF Kept
  <2>2. /\ begun.sch_states[i].task_idx = r.sch_states[i].task_idx
        /\ begun.sch_states[i].linked = r.sch_states[i].linked
        /\ begun.sch_states[i].last_terminate = r.sch_states[i].last_terminate
        /\ begun.history[i].end = r.history[i].end
        /\ begun.sch_states[i].last_run = IF i \in starting THEN now ELSE r.sch_states[i].last_run
        /\ begun.history[i].start = IF i \in starting THEN now ELSE r.history[i].start
    BY <1>10, Zenon DEF Started
  <2> QED BY <1>8, <1>9, <2>1, <2>2, SMT
<1> QED BY <1>1, <1>14, <1>16, <1>17, Zenon

\* Asking every task that runs to terminate.
LEMMA TerminateAllGood ==
  ASSUME NEW r \in RunType, sch_num \in 0 .. RANGE, Good(r, sch_num)
  PROVE  LET q == TerminateAll(r) IN q \in RunType /\ Good(q, sch_num) /\ Kept(r, q)
<1> DEFINE slots == {i \in 0 .. sch_num - 1 : Runs(r, i)}
           q == TerminateAll(r)
<1>1. q = task_terminate(r, slots)  BY Zenon DEF TerminateAll
<1>2. \A i \in slots : i \in Slots /\ Runs(r, i)  BY Numbers
<1> HIDE DEF q, slots
<1>3. q \in RunType /\ Kept(r, q) /\ Told(r, slots, q)
  BY <1>1, TerminateFields, Zenon
<1>4. \A i \in slots : r.event[i] \in AtWork
  <2> TAKE i \in slots
  <2> DEFINE t == r.sch_states[i].task_idx
  <2>1. t \in Tasks
    <3>1. r.sch_states[i].task_idx \in Tasks \cup {UINT8_MAX}  BY <1>2 DEF RunType, States
    <3> QED BY <1>2, <3>1, Zenon DEF Runs
  <2>2. r.tsk_states[t].running /\ r.tsk_states[t].schedule_idx = i
    BY <1>2, Zenon DEF Runs
  <2> QED BY <2>1, <2>2, Zenon DEF Good, TasksGood
<1>5. \A i \in Slots : \/ q.event[i] = r.event[i]
                       \/ r.event[i] \in AtWork /\ q.event[i] = "terminate_request"
  <2> TAKE i \in Slots
  <2>1. CASE i \in slots
    BY <1>3, <1>4, <2>1, Reported, Zenon DEF Told
  <2>2. CASE i \notin slots
    BY <1>3, <2>2, Zenon DEF Told
  <2> QED BY <2>1, <2>2
<1>6. Good(q, sch_num)  BY <1>3, <1>5, KeptGood, Zenon
<1> QED BY <1>3, <1>6, Zenon DEF q

-----------------------------------------------------------------------------
INSTANCE WellFoundedInduction

\* A set of natural numbers has a smallest member.
LEMMA Smallest ==
  ASSUME NEW S \in SUBSET Nat, S # {}
  PROVE  \E m \in S : \A k \in S : m <= k
<1> DEFINE Below == OpToRel(<, Nat)
<1>1. IsWellFoundedOn(Below, Nat)
  BY NatLessThanWellFounded, Zenon
<1>2. \A x, y \in Nat : y < x => <<y, x>> \in Below
  BY DEF OpToRel
<1> HIDE DEF Below
<1>3. PICK x \in S : \A y \in S : ~(<<y, x>> \in Below)
  BY <1>1, WFMin, Zenon
<1>4. \A y \in S : x \in Nat /\ y \in Nat /\ ~(y < x)
  BY <1>2, <1>3, Zenon
<1>5. \A y \in S : x <= y  BY <1>4
<1> QED BY <1>5, Zenon

\* The task a schedule names is one with its identifier.
LEMMA TaskFound ==
  ASSUME NEW id
  PROVE  TaskWithId(id) \in {t \in Tasks : tsk[t] = id} \cup {UINT8_MAX}
<1> DEFINE found == {t \in Tasks : tsk[t] = id}
<1>1. CASE found = {}
  BY <1>1, Zenon DEF TaskWithId
<1>2. CASE found # {}
  <2>1. found \in SUBSET Nat  BY Numbers, Zenon
  <2>2. \E t \in found : \A u \in found : t <= u
    <3> HIDE DEF found
    <3> QED BY <1>2, <2>1, Smallest, Zenon
  <2>3. (CHOOSE t \in found : \A u \in found : t <= u) \in found
    <3> HIDE DEF found
    <3> QED BY <2>2, Zenon
  <2>4. TaskWithId(id) = CHOOSE t \in found : \A u \in found : t <= u
    BY <1>2, Zenon DEF TaskWithId
  <2> HIDE DEF found
  <2>5. TaskWithId(id) \in found  BY <2>3, <2>4, Zenon
  <2> QED BY <2>5, Zenon DEF found
<1> QED BY <1>1, <1>2, Zenon

\* Schedule s is valid, has the task it names, and is linked to no other
\* schedule than it says.
Suits(s, state) ==
    /\ task_schedule_validate(s)
    /\ s.task_id = tsk[state.task_idx]
    /\ state.linked # UINT8_MAX =>
          state.linked = s.after.schedule_idx /\ s.after.schedule_idx \in Slots

\* So are the first n schedules that have a task.
InUse(schedules, states, n) ==
    \A i \in 0 .. n - 1 : states[i].task_idx # UINT8_MAX => Suits(schedules[i], states[i])

\* What init_schedules leaves of the runs of a schedule
Forgotten(states, q) ==
    \A i \in Slots : /\ q[i].last_terminate \in {0, states[i].last_terminate}
                     /\ q[i].last_run \in {0, states[i].last_run}

\* Schedules that were loaded.
LEMMA InitGood ==
  ASSUME sch \in [Slots -> Schedules], NEW n \in 0 .. RANGE, NEW states \in [Slots -> States],
         NEW q, q = init_schedules(states, n)
  PROVE  q \in [Slots -> States] /\ InUse(sch, q, n) /\ Forgotten(states, q)
<1>1. q = [i \in Slots |-> q[i]]
  <2> DEFINE E(i) ==
               LET s == sch[i]
                   t == IF task_schedule_validate(s) THEN TaskWithId(s.task_id) ELSE UINT8_MAX
                   link == IF s.periodicity_type = TASK_PERIODICITY_AFTER /\ s.after.schedule_idx < default_num
                           THEN s.after.schedule_idx ELSE UINT8_MAX
               IN  IF i >= n THEN states[i]
                   ELSE IF t = UINT8_MAX
                   THEN [states[i] EXCEPT !.task_idx = UINT8_MAX, !.linked = UINT8_MAX]
                   ELSE [NoState EXCEPT !.task_idx = t, !.linked = link]
  <2>1. q = [i \in Slots |-> E(i)]  BY Zenon DEF init_schedules
  <2> HIDE DEF E
  <2> QED BY <2>1, Zenon
<1>2. ASSUME NEW i \in Slots
      PROVE  /\ q[i] \in States
             /\ q[i].last_terminate \in {0, states[i].last_terminate}
             /\ q[i].last_run \in {0, states[i].last_run}
             /\ i < n /\ q[i].task_idx # UINT8_MAX => Suits(sch[i], q[i])
  <2> DEFINE s == sch[i]
             t == IF task_schedule_validate(s) THEN TaskWithId(s.task_id) ELSE UINT8_MAX
             link == IF s.periodicity_type = TASK_PERIODICITY_AFTER /\ s.after.schedule_idx < default_num
                     THEN s.after.schedule_idx ELSE UINT8_MAX
  <2>1. /\ i >= n => q[i] = states[i]
        /\ i < n /\ t = UINT8_MAX =>
             q[i] = [states[i] EXCEPT !.task_idx = UINT8_MAX, !.linked = UINT8_MAX]
        /\ i < n /\ t # UINT8_MAX => q[i] = [NoState EXCEPT !.task_idx = t, !.linked = link]
    <3>1. i \in Int /\ n \in Int  BY Numbers
    <3>2. i < n <=> ~(i >= n)  BY <3>1
    <3>3. q[i] = IF i >= n THEN states[i]
                 ELSE IF t = UINT8_MAX
                 THEN [states[i] EXCEPT !.task_idx = UINT8_MAX, !.linked = UINT8_MAX]
                 ELSE [NoState EXCEPT !.task_idx = t, !.linked = link]
      BY Zenon DEF init_schedules
    <3> HIDE DEF t, link
    <3> QED BY <3>2, <3>3, Zenon
  <2>2. t # UINT8_MAX => task_schedule_validate(s) /\ t \in Tasks /\ tsk[t] = s.task_id
    BY TaskFound, Zenon
  <2>3. link \in Slots \cup {UINT8_MAX} /\ (link # UINT8_MAX => link = s.after.schedule_idx)
    <3>1. s \in Schedules  BY Zenon
    <3>2. s.after.schedule_idx \in Nat
      BY <3>1, RunnerAssumption, SMTT(30) DEF Schedules, IsSchedule, ZeroSchedule
    <3>3. default_num <= RANGE /\ default_num \in Nat
      BY RunnerAssumption DEF default_num
    <3> QED BY <3>2, <3>3, Numbers, SMTT(30) DEF Slots
  <2> HIDE DEF t, link
  <2>4. states[i] \in States  OBVIOUS
  <2>5. CASE i >= n
    <3>1. ~(i < n)  BY <2>5, Numbers, SMTT(30)
    <3> QED BY <2>1, <2>4, <2>5, <3>1, Zenon
  <2>6. CASE i < n /\ t = UINT8_MAX
    <3>1. \A x \in States : LET y == [x EXCEPT !.task_idx = UINT8_MAX, !.linked = UINT8_MAX]
                            IN  /\ y \in States /\ y.task_idx = UINT8_MAX
                                /\ y.last_terminate = x.last_terminate /\ y.last_run = x.last_run
      BY Zenon DEF States
    <3> QED BY <2>1, <2>4, <2>6, <3>1, Zenon
  <2>7. CASE i < n /\ t # UINT8_MAX
    <3>1. q[i] = [task_idx |-> t, linked |-> link, last_run |-> 0, last_terminate |-> 0, runtime |-> 0]
      BY <2>1, <2>7, Zenon DEF NoState
    <3>2. /\ q[i] \in States
          /\ q[i].last_terminate = 0 /\ q[i].last_run = 0
          /\ q[i].task_idx = t /\ q[i].linked = link
      BY <2>2, <2>3, <2>7, <3>1 DEF States
    <3>3. 0 \in {0, states[i].last_terminate} /\ 0 \in {0, states[i].last_run}  OBVIOUS
    <3>4. Suits(sch[i], q[i])
      BY <2>2, <2>3, <2>7, <3>2, Zenon DEF Suits
    <3> QED BY <3>2, <3>3, <3>4, Zenon
  <2>8. i \in Int /\ n \in Int  BY Numbers
  <2> QED BY <2>5, <2>6, <2>7, <2>8
<1>3. q \in [Slots -> States]  BY <1>1, <1>2, Zenon
<1>4. Forgotten(states, q)  BY <1>2, Zenon DEF Forgotten
<1>5. InUse(sch, q, n)
  <2>1. \A i \in 0 .. n - 1 : i \in Slots /\ i < n  BY Numbers
  <2> QED BY <1>2, <2>1, Zenon DEF InUse
<1> QED BY <1>3, <1>4, <1>5

-----------------------------------------------------------------------------
(***************************************************************************)
(* The states of the runner                                                *)
(***************************************************************************)
Loaders == [at : {"idle", "read", "override"}, i : 0 .. RANGE, num_eval : 0 .. RANGE, boot : BOOLEAN]

\* The store, the schedules and the loader
LoadType ==
    /\ kv \in [Slots -> Schedules \cup {Missing}]
    /\ kv_id \in BOOLEAN
    /\ old \subseteq Slots /\ kept \subseteq Slots
    /\ writer \in Slots \cup {ID, NoKey}
    /\ sch \in [Slots -> Schedules]
    /\ sch_num \in 0 .. RANGE
    /\ loader \in Loaders
    /\ uptime \in Int

\* Schedules are loaded with no task running, and other threads see
\* FLAGS_TASKS_RELOADING for just as long.
LoaderInv ==
    IF loader.at = "idle" THEN RELOADING \notin flags
    ELSE flags = {RELOADING} /\ \A t \in Tasks : ~tsk_states[t].running

IInv ==
    /\ LoadType
    /\ Run \in RunType
    /\ LoaderInv
    /\ Good(Run, sch_num)
    /\ loader.at = "idle" => InUse(sch, sch_states, sch_num)

\* The view of the tasks after a step is the one it worked out.
LEMMA RunSet == ASSUME NEW q \in RunType, SetRun(q) PROVE Run' = q
BY DEF SetRun, Run, RunType

\* The parts of the view of the tasks.
LEMMA RunParts == /\ Run.sch_states = sch_states /\ Run.tsk_states = tsk_states /\ Run.exec = exec
                  /\ Run.signal = signal /\ Run.event = event /\ Run.history = history
BY Zenon DEF Run

\* The parts of the view of the tasks after a step.
LEMMA RunPartsNext == /\ Run'.sch_states = sch_states' /\ Run'.tsk_states = tsk_states'
                      /\ Run'.exec = exec' /\ Run'.signal = signal'
                      /\ Run'.event = event' /\ Run'.history = history'
BY Zenon DEF Run

\* A schedule keeps suiting its task while both stay the same.
LEMMA InUseKept ==
  ASSUME NEW c, NEW f, NEW g, NEW n \in 0 .. RANGE, InUse(c, f, n),
         \A i \in Slots : g[i].task_idx = f[i].task_idx /\ g[i].linked = f[i].linked
  PROVE  InUse(c, g, n)
<1>1. 0 .. n - 1 \subseteq Slots  BY Numbers
<1>2. ASSUME NEW i \in 0 .. n - 1, g[i].task_idx # UINT8_MAX
      PROVE  Suits(c[i], g[i])
  <2>1. g[i].task_idx = f[i].task_idx /\ g[i].linked = f[i].linked  BY <1>1, Zenon
  <2>2. Suits(c[i], f[i])  BY <1>2, <2>1, Zenon DEF InUse
  <2> QED BY <2>1, <2>2, Zenon DEF Suits
<1> QED BY <1>2, Zenon DEF InUse

\* A default schedule is a schedule, and no schedule is a missing value.
LEMMA Defaults ==
  /\ default_num \in 0 .. RANGE
  /\ \A i \in Slots : i < default_num => Default(i) \in Schedules
  /\ ZeroSchedule \in Schedules /\ Missing \notin Schedules
  /\ \A s \in Schedules : /\ s.lockout_s \in Nat /\ s.after.duration_s \in Nat
                          /\ s.after.schedule_idx \in Nat
<1>1. default_num \in 0 .. RANGE
  BY RunnerAssumption DEF default_num
<1>2. ASSUME NEW i \in Slots, i < default_num PROVE Default(i) \in Schedules
  <2>1. i + 1 \in 1 .. Len(default_sch)
    BY <1>2, RunnerAssumption, Numbers, SMTT(30) DEF default_num, Slots
  <2>2. default_sch[i + 1] \in Provided
    BY <2>1, RunnerAssumption, SMTT(30) DEF Provided
  <2> QED BY <2>2, Zenon DEF Default, Schedules
<1>3. \A s \in Schedules : IsSchedule(s)
  <2>1. IsSchedule(ZeroSchedule)  BY DEF IsSchedule, ZeroSchedule
  <2> QED BY <2>1, RunnerAssumption, Zenon DEF Schedules
<1>4. Missing \notin Schedules
  <2>1. DOMAIN Missing # DOMAIN ZeroSchedule
    <3>1. "stored" \in DOMAIN Missing  BY SMTT(30) DEF Missing
    <3>2. "stored" \notin DOMAIN ZeroSchedule  BY DEF ZeroSchedule
    <3> QED BY <3>1, <3>2, ZenonT(40)
  <2> QED BY <1>3, <2>1, Zenon DEF IsSchedule
<1>5. ZeroSchedule \in Schedules  BY Zenon DEF Schedules
<1> QED BY <1>1, <1>2, <1>3, <1>4, <1>5 DEF IsSchedule

\* What a restart leaves of the tasks.
Fresh ==
    [sch_states |-> [i \in Slots |-> NoState],
     tsk_states |-> [t \in Tasks |-> [running |-> FALSE, schedule_idx |-> UINT8_MAX]],
     exec |-> [t \in Tasks |-> "ended"], signal |-> [t \in Tasks |-> FALSE],
     event |-> [i \in Slots |-> "none"], history |-> [i \in Slots |-> [start |-> -1, end |-> -1]]]

\* After a restart no task runs.
LEMMA FreshGood ==
  /\ Fresh \in RunType /\ Good(Fresh, 0)
  /\ \A t \in Tasks : ~Fresh.tsk_states[t].running
  /\ \A i \in Slots : Fresh.history[i].start = -1
<1> DEFINE idle == [running |-> FALSE, schedule_idx |-> UINT8_MAX]
           never == [start |-> -1, end |-> -1]
<1>1. /\ Fresh.sch_states = [i \in Slots |-> NoState] /\ Fresh.tsk_states = [t \in Tasks |-> idle]
      /\ Fresh.exec = [t \in Tasks |-> "ended"] /\ Fresh.signal = [t \in Tasks |-> FALSE]
      /\ Fresh.event = [i \in Slots |-> "none"] /\ Fresh.history = [i \in Slots |-> never]
  BY Zenon DEF Fresh
<1>2. NoState \in States /\ NoState.last_terminate = 0
  BY DEF NoState, States
<1>3. idle \in TaskStates /\ ~idle.running
  BY DEF TaskStates
<1>4. never \in Spans /\ never.start = -1
  BY DEF Spans
<1>5. "none" \in Events /\ "none" \notin AtWork /\ "none" # "out_of_order" /\ "ended" # "active"
  BY DEF Events, AtWork
<1> HIDE DEF idle, never
<1>6. Fresh \in RunType
  <2>1. Fresh = [sch_states |-> [i \in Slots |-> NoState], tsk_states |-> [t \in Tasks |-> idle],
                 exec |-> [t \in Tasks |-> "ended"], signal |-> [t \in Tasks |-> FALSE],
                 event |-> [i \in Slots |-> "none"], history |-> [i \in Slots |-> never]]
    BY Zenon DEF Fresh, idle, never
  <2> HIDE DEF Fresh
  <2> QED BY <1>2, <1>3, <1>4, <1>5, <2>1, Zenon DEF RunType
<1> HIDE DEF Fresh
<1>7. TasksGood(Fresh, 0)  BY <1>1, <1>3, <1>5, Zenon DEF TasksGood
<1>8. EventsGood(Fresh)  BY <1>1, <1>5, ZenonT(40) DEF EventsGood
<1>9. EndsGood(Fresh)  BY <1>1, <1>2, ZenonT(40) DEF EndsGood
<1> QED BY <1>1, <1>3, <1>4, <1>6, <1>7, <1>8, <1>9, ZenonT(40) DEF Good

\* A loader that starts.
LEMMA LoadingType == ASSUME NEW b \in BOOLEAN PROVE Loading(b) \in Loaders /\ Loading(b).at # "idle"
BY RunnerAssumption DEF Loading, Loaders

\* The states the runner starts in.
LEMMA InitIInv == Init => IInv
<1> SUFFICES ASSUME Init PROVE IInv  OBVIOUS
<1>1. Run = Fresh  BY Zenon DEF Init, Run, Fresh
<1>2. LoadType
  <2>1. kv \in [Slots -> Schedules \cup {Missing}]
    BY DEF Init, Schedules
  <2>2. sch \in [Slots -> Schedules]
    BY Defaults, Zenon DEF Init
  <2>3. loader \in Loaders
    BY LoadingType, Zenon DEF Init
  <2>4. kv_id \in BOOLEAN /\ kept \subseteq Slots /\ writer \in Slots \cup {ID, NoKey}
        /\ sch_num \in 0 .. RANGE /\ uptime \in Int /\ old \subseteq Slots
    BY Numbers DEF Init
  <2> QED BY <2>1, <2>2, <2>3, <2>4, Zenon DEF LoadType
<1>3. loader.at # "idle"  BY LoadingType, Zenon DEF Init
<1>4. LoaderInv
  <2>1. \A t \in Tasks : ~tsk_states[t].running  BY <1>1, FreshGood, RunParts, Zenon
  <2>2. flags = {RELOADING}  BY Zenon DEF Init
  <2> QED BY <1>3, <2>1, <2>2, Zenon DEF LoaderInv
<1>5. Good(Run, sch_num)  BY <1>1, FreshGood, Zenon DEF Init
<1> QED BY <1>1, <1>2, <1>3, <1>4, <1>5, FreshGood, Zenon DEF IInv

\* Views of the tasks that differ in when schedules started
SameButStarts(r, q) ==
    /\ q.exec = r.exec /\ q.tsk_states = r.tsk_states
    /\ q.sch_states = r.sch_states /\ q.event = r.event
    /\ \A i \in Slots : q.history[i].end = r.history[i].end

\* When schedules started does not make the runner's view untrue.
LEMMA GoodSame ==
  ASSUME NEW r, NEW q, NEW n, Good(r, n), SameButStarts(r, q)
  PROVE  Good(q, n)
<1>1. TasksGood(q, n)  BY Zenon DEF Good, TasksGood, SameButStarts
<1>2. EventsGood(q)  BY DEF Good, EventsGood, SameButStarts
<1>3. EndsGood(q)  BY Zenon DEF Good, EndsGood, SameButStarts
<1> QED BY <1>1, <1>2, <1>3, Zenon DEF Good

\* What an iteration does once it has noticed which tasks ended.
LEMMA EvaluateStep ==
  ASSUME NEW r \in RunType, NEW n \in 0 .. RANGE, NEW now \in Int, Good(r, n),
         InUse(sch, r.sch_states, n), Evaluate(r, n, now)
  PROVE  /\ Run' \in RunType /\ Good(Run', n) /\ InUse(sch, Run'.sch_states, n)
         /\ \E app_states \in AppStates, soc \in Charges : Evaluated(r, n, now, app_states, soc, Run')
<1>1. PICK app_states \in AppStates, soc \in Charges :
             SetRun(EvaluateSchedules(r, n, now, app_states, soc))
  BY Zenon DEF Evaluate
<1> DEFINE q == EvaluateSchedules(r, n, now, app_states, soc)
<1>2. q \in RunType /\ Good(q, n) /\ Evaluated(r, n, now, app_states, soc, q)
  BY EvaluateGood, Zenon
<1> HIDE DEF q
<1>3. Run' = q
  <2>1. SetRun(q)  BY <1>1, Zenon DEF q
  <2> QED BY <1>2, <2>1, RunSet, Zenon
<1>4. InUse(sch, q.sch_states, n)
  <2>1. \A i \in Slots : /\ q.sch_states[i].task_idx = r.sch_states[i].task_idx
                         /\ q.sch_states[i].linked = r.sch_states[i].linked
    BY <1>2, Zenon DEF Evaluated
  <2> QED BY <2>1, InUseKept, Zenon
<1> QED BY <1>2, <1>3, <1>4, Zenon

\* The uptime of an iteration is a number.
LEMMA UptimesType == ASSUME uptime \in Int PROVE Uptimes \subseteq Int
BY RunnerAssumption DEF Uptimes

\* What an iteration knows once it has noticed which tasks ended.
LEMMA ReapStep ==
  ASSUME IInv, loader.at = "idle", NEW now \in Int
  PROVE  LET r == Reap(Run, now)
         IN  /\ r \in RunType /\ Good(r, sch_num) /\ InUse(sch, r.sch_states, sch_num)
             /\ Reaped(Run, now, r)
<1> DEFINE r == Reap(Run, now)
<1>1. Run \in RunType /\ Good(Run, sch_num) /\ InUse(sch, Run.sch_states, sch_num) /\ sch_num \in 0 .. RANGE
  BY RunParts, Zenon DEF IInv, LoadType
<1>2. r \in RunType /\ Good(r, sch_num) /\ Reaped(Run, now, r)
  BY <1>1, ReapType, ReapGood, ReapFields, Zenon
<1> HIDE DEF r
<1>3. \A i \in Slots : /\ r.sch_states[i].task_idx = Run.sch_states[i].task_idx
                       /\ r.sch_states[i].linked = Run.sch_states[i].linked
  BY <1>2, Zenon DEF Reaped
<1>4. InUse(sch, r.sch_states, sch_num)
  BY <1>1, <1>3, InUseKept, ZenonT(40)
<1> QED BY <1>2, <1>4, Zenon DEF r

\* An iteration that goes through its schedules.
LEMMA EvaluatesIInv == IInv /\ iterate_evaluates => IInv'
<1> SUFFICES ASSUME IInv, iterate_evaluates PROVE IInv'  OBVIOUS
<1>1. loader.at = "idle" /\ uptime' \in Int /\ sch_num \in 0 .. RANGE
  BY UptimesType, Zenon DEF iterate_evaluates, IInv, LoadType
<1> DEFINE r == Reap(Run, uptime')
<1>2. r \in RunType /\ Good(r, sch_num) /\ InUse(sch, r.sch_states, sch_num)
  BY <1>1, ReapStep, Zenon
<1>3. Evaluate(r, sch_num, uptime')  BY Zenon DEF iterate_evaluates
<1> HIDE DEF r
<1>4. Run' \in RunType /\ Good(Run', sch_num) /\ InUse(sch, Run'.sch_states, sch_num)
  BY <1>1, <1>2, <1>3, EvaluateStep, Zenon
<1>5. /\ kv' = kv /\ kv_id' = kv_id /\ old' = old /\ kept' = kept /\ writer' = writer /\ flags' = flags
      /\ sch' = sch /\ sch_num' = sch_num /\ loader' = loader
  BY Zenon DEF iterate_evaluates
<1>6. LoadType'  BY <1>1, <1>5, Zenon DEF IInv, LoadType
<1>7. LoaderInv'  BY <1>1, <1>5, Zenon DEF IInv, LoaderInv
<1> QED BY <1>4, <1>5, <1>6, <1>7, RunPartsNext, Zenon DEF IInv

\* An iteration that was asked for a reload.
LEMMA ReloadIInv == IInv /\ iterate_handle_task_reload => IInv'
<1> SUFFICES ASSUME IInv, iterate_handle_task_reload PROVE IInv'  OBVIOUS
<1>1. loader.at = "idle" /\ uptime' \in Int /\ sch_num \in 0 .. RANGE
  BY UptimesType, Zenon DEF iterate_handle_task_reload, IInv, LoadType
<1> DEFINE reaped == Reap(Run, uptime')
           r == IF TRIGGER \in flags THEN TerminateAll(reaped) ELSE reaped
           stopped == \A t \in Tasks : ~r.tsk_states[t].running
<1>2. reaped \in RunType /\ Good(reaped, sch_num) /\ InUse(sch, reaped.sch_states, sch_num)
  BY <1>1, ReapStep, Zenon
<1>3. /\ SetRun(r)
      /\ flags' = (IF stopped THEN {RELOADING} ELSE {TERMINATING})
      /\ loader' = (IF stopped THEN Loading(FALSE) ELSE loader)
  BY Zenon DEF iterate_handle_task_reload
<1> HIDE DEF reaped
<1>4. r \in RunType /\ Good(r, sch_num) /\ InUse(sch, r.sch_states, sch_num)
  <2>1. CASE TRIGGER \in flags
    <3>1. r = TerminateAll(reaped)  BY <2>1, Zenon
    <3>2. r \in RunType /\ Good(r, sch_num) /\ Kept(reaped, r)
      BY <1>1, <1>2, <3>1, TerminateAllGood, Zenon
    <3> HIDE DEF r
    <3>3. \A i \in Slots : /\ r.sch_states[i].task_idx = reaped.sch_states[i].task_idx
                           /\ r.sch_states[i].linked = reaped.sch_states[i].linked
      BY <3>2, Zenon DEF Kept
    <3>4. InUse(sch, r.sch_states, sch_num)
      BY <1>1, <1>2, <3>3, InUseKept, Zenon
    <3> QED BY <3>2, <3>4
  <2>2. CASE TRIGGER \notin flags
    BY <1>2, <2>2, Zenon
  <2> QED BY <2>1, <2>2
<1> HIDE DEF r
<1>5. Run' = r  BY <1>3, <1>4, RunSet, Zenon
<1>6. /\ kv' = kv /\ kv_id' = kv_id /\ old' = old /\ kept' = kept /\ writer' = writer
      /\ sch' = sch /\ sch_num' = sch_num
  BY Zenon DEF iterate_handle_task_reload
<1>7. LoadType'
  <2>1. loader' \in Loaders
    BY <1>3, LoadingType, Zenon DEF IInv, LoadType
  <2> QED BY <1>1, <1>6, <2>1, Zenon DEF IInv, LoadType
<1>8. LoaderInv'
  <2>1. stopped => \A t \in Tasks : ~tsk_states'[t].running
    BY <1>5, RunPartsNext, Zenon
  <2> HIDE DEF stopped
  <2>2. CASE stopped
    <3>1. loader'.at # "idle"  BY <1>3, <2>2, LoadingType, Zenon
    <3> QED BY <1>3, <2>1, <2>2, <3>1, Zenon DEF LoaderInv
  <2>3. CASE ~stopped
    <3>1. RELOADING \notin {TERMINATING}  BY DEF RELOADING, TERMINATING
    <3> QED BY <1>1, <1>3, <2>3, <3>1, Zenon DEF LoaderInv
  <2> QED BY <2>2, <2>3
<1> QED BY <1>4, <1>5, <1>6, <1>7, <1>8, RunPartsNext, Zenon DEF IInv

\* What replacing the schedule of a slot changes
Replaced(i, s) ==
    /\ sch' \in [Slots -> Schedules] /\ sch'[i] = s
    /\ \A j \in Slots : j # i => sch'[j] = sch[j]
    /\ history' \in [Slots -> Spans]
    /\ \A j \in Slots : /\ history'[j].end = history[j].end
                        /\ history'[j].start \in {history[j].start, -1}

\* Replacing the schedule of a slot.
LEMMA SetScheduleIs ==
  ASSUME sch \in [Slots -> Schedules], history \in [Slots -> Spans],
         NEW i \in Slots, NEW s \in Schedules, SetSchedule(i, s)
  PROVE  Replaced(i, s)
<1>1. /\ sch' \in [Slots -> Schedules] /\ sch'[i] = s
      /\ \A j \in Slots : j # i => sch'[j] = sch[j]
  BY Zenon DEF SetSchedule
<1>2. -1 \in Int  OBVIOUS
<1>3. \A x \in Spans : LET y == [x EXCEPT !.start = -1] IN y \in Spans /\ y.start = -1 /\ y.end = x.end
  BY <1>2, Zenon DEF Spans
<1> DEFINE cut == [history[i] EXCEPT !.start = -1]
<1>4. history' = history \/ history' = [history EXCEPT ![i] = cut]
  BY Zenon DEF SetSchedule
<1>5. cut \in Spans /\ cut.start = -1 /\ cut.end = history[i].end
  BY <1>3, Zenon
<1> HIDE DEF cut
<1>6. history' \in [Slots -> Spans]  BY <1>4, <1>5, Zenon
<1>7. ASSUME NEW j \in Slots
      PROVE  history'[j].end = history[j].end /\ history'[j].start \in {history[j].start, -1}
  <2>1. history'[j] = history[j] \/ (j = i /\ history'[j] = cut)  BY <1>4, Zenon
  <2> QED BY <1>5, <2>1, Zenon
<1> QED BY <1>1, <1>6, <1>7, Zenon DEF Replaced

\* The loader goes on to the next slot.
LEMMA NextSlotIs ==
  ASSUME loader \in Loaders, loader.i < RANGE, NEW b \in BOOLEAN, NextSlot(b)
  PROVE  /\ loader' \in Loaders /\ loader'.at = loader.at /\ loader'.i = loader.i + 1
         /\ loader'.num_eval = (IF b THEN loader.i + 1 ELSE loader.num_eval)
         /\ loader'.boot = loader.boot
<1>1. loader.i \in 0 .. RANGE /\ loader.i + 1 \in 0 .. RANGE
  BY Numbers DEF Loaders
<1>2. loader' = [loader EXCEPT !.i = loader.i + 1,
                               !.num_eval = IF b THEN loader.i + 1 ELSE loader.num_eval]
  BY Zenon DEF NextSlot, Loaders
<1> DEFINE e == IF b THEN loader.i + 1 ELSE loader.num_eval
<1>3. e \in 0 .. RANGE  BY <1>1 DEF Loaders
<1> HIDE DEF e
<1>4. loader' = [loader EXCEPT !.i = loader.i + 1, !.num_eval = e]  BY <1>2, Zenon DEF e
<1>5. \A k \in 0 .. RANGE : LET l == [loader EXCEPT !.i = k, !.num_eval = e]
                            IN  /\ l \in Loaders /\ l.at = loader.at /\ l.i = k
                                /\ l.num_eval = e /\ l.boot = loader.boot
  BY <1>3, Zenon DEF Loaders
<1> QED BY <1>1, <1>4, <1>5, Zenon DEF e

\* A write of the loader keeps the store a store.
LEMMA StoresType ==
  ASSUME LoadType, NEW i \in Slots, NEW value \in Schedules \cup {Missing}, LoaderStores(i, value)
  PROVE  /\ kv' \in [Slots -> Schedules \cup {Missing}] /\ old' \subseteq Slots /\ kept' \subseteq Slots
         /\ ~StoreFaults => kv' = [kv EXCEPT ![i] = value] /\ kept' = kept /\ old' = old \ {i}
         /\ old' \ kept' \subseteq (old \ kept) \ {i}
         /\ kept \subseteq kept'
<1>1. ~StoreFaults => kv' = [kv EXCEPT ![i] = value] /\ kept' = kept /\ old' = old \ {i}
  BY Zenon DEF LoaderStores
<1>2. \/ kv' = [kv EXCEPT ![i] = value] /\ old' = old \ {i} /\ kept' = kept
      \/ kept' = kept \cup {i} /\ kv' = kv /\ old' = old
  BY Zenon DEF LoaderStores
<1>3. kv' \in [Slots -> Schedules \cup {Missing}]  BY <1>2, Zenon DEF LoadType
<1>4. /\ old' \subseteq Slots /\ kept' \subseteq Slots
      /\ old' \ kept' \subseteq (old \ kept) \ {i} /\ kept \subseteq kept'
  BY <1>2 DEF LoadType
<1> QED BY <1>1, <1>3, <1>4

\* While schedules load, only when they started is changed of the tasks.
LEMMA LoadStep ==
  ASSUME IInv, loader.at # "idle", LoadType', loader'.at = loader.at, flags' = flags, sch_num' = sch_num,
         history' \in [Slots -> Spans],
         \A i \in Slots : history'[i].end = history[i].end,
         UNCHANGED <<sch_states, tsk_states, exec, signal, event>>
  PROVE  IInv'
<1>1. Run' \in RunType
  <2>1. Run' = [Run EXCEPT !.history = history']
    BY DEF Run
  <2>2. \A r \in RunType : \A h \in [Slots -> Spans] : [r EXCEPT !.history = h] \in RunType
    BY SMTT(30) DEF RunType
  <2> QED BY <2>1, <2>2, Zenon DEF IInv
<1>2. Good(Run', sch_num)
  <2>1. Good(Run, sch_num)  BY Zenon DEF IInv
  <2>2. SameButStarts(Run, Run')
    BY RunParts, RunPartsNext, Zenon DEF SameButStarts
  <2> QED BY <2>1, <2>2, GoodSame, Zenon
<1>3. LoaderInv'  BY ZenonT(40) DEF IInv, LoaderInv
<1> QED BY <1>1, <1>2, <1>3, Zenon DEF IInv

\* A slot is read.
LEMMA ReadIInv == IInv /\ read_slot => IInv'
<1> SUFFICES ASSUME IInv, read_slot PROVE IInv'  OBVIOUS
<1> DEFINE i == loader.i
           locked == i < default_num /\ Default(i).locked
           s == IF locked THEN Default(i) ELSE IF kv[i] # Missing THEN kv[i] ELSE ZeroSchedule
<1>1. i \in Slots /\ i < RANGE /\ loader.at = "read" /\ loader.at # "idle" /\ loader \in Loaders
  BY Numbers DEF IInv, LoadType, Loaders, read_slot, Slots
<1>2. SetSchedule(i, s) /\ NextSlot(locked \/ kv[i] # Missing)
  BY Zenon DEF read_slot
<1>3. s \in Schedules
  BY <1>1, Defaults, Zenon DEF IInv, LoadType
<1> HIDE DEF s, locked
<1>4. sch \in [Slots -> Schedules] /\ history \in [Slots -> Spans]
  BY RunParts, Zenon DEF IInv, LoadType, RunType
<1>5. Replaced(i, s)
  BY <1>1, <1>2, <1>3, <1>4, SetScheduleIs, Zenon
<1>6. loader' \in Loaders /\ loader'.at = loader.at
  BY <1>1, <1>2, NextSlotIs, Zenon
<1>7. /\ kv' = kv /\ kv_id' = kv_id /\ old' = old /\ kept' = kept /\ writer' = writer /\ flags' = flags
      /\ sch_num' = sch_num /\ uptime' = uptime
      /\ UNCHANGED <<sch_states, tsk_states, exec, signal, event>>
  BY Zenon DEF read_slot
<1>8. LoadType'
  BY <1>5, <1>6, <1>7, Zenon DEF IInv, LoadType, Replaced
<1> QED BY <1>1, <1>5, <1>6, <1>7, <1>8, LoadStep, ZenonT(40) DEF Replaced

\* A slot is overridden.
LEMMA OverrideIInv == IInv /\ override_slot => IInv'
<1> SUFFICES ASSUME IInv, override_slot PROVE IInv'  OBVIOUS
<1> DEFINE i == loader.i
<1>1. i \in Slots /\ i < RANGE /\ loader.at # "idle" /\ loader \in Loaders
  BY Numbers DEF IInv, LoadType, Loaders, override_slot, OverrideSlot, Slots
<1>2. sch \in [Slots -> Schedules] /\ history \in [Slots -> Spans]
  BY RunParts, Zenon DEF IInv, LoadType, RunType
<1>3. /\ kv_id' = kv_id /\ writer' = writer /\ flags' = flags /\ sch_num' = sch_num /\ uptime' = uptime
      /\ UNCHANGED <<sch_states, tsk_states, exec, signal, event>>
  BY Zenon DEF override_slot, OverrideSlot
<1>4. /\ sch' \in [Slots -> Schedules] /\ history' \in [Slots -> Spans]
      /\ \A j \in Slots : history'[j].end = history[j].end
      /\ loader' \in Loaders /\ loader'.at = loader.at
      /\ kv' \in [Slots -> Schedules \cup {Missing}] /\ old' \subseteq Slots /\ kept' \subseteq Slots
  <2>1. CASE i < default_num /\ LoaderStores(i, Default(i)) /\ SetSchedule(i, Default(i)) /\ NextSlot(TRUE)
    <3>1. Default(i) \in Schedules  BY <1>1, <2>1, Defaults, Zenon
    <3>2. Replaced(i, Default(i))  BY <1>1, <1>2, <2>1, <3>1, SetScheduleIs, ZenonT(40)
    <3>3. loader' \in Loaders /\ loader'.at = loader.at  BY <1>1, <2>1, NextSlotIs, Zenon
    <3>4. kv' \in [Slots -> Schedules \cup {Missing}] /\ old' \subseteq Slots /\ kept' \subseteq Slots
      BY <1>1, <2>1, <3>1, StoresType, Zenon DEF IInv
    <3> QED BY <3>2, <3>3, <3>4, Zenon DEF Replaced
  <2>2. CASE kept' = kept \cup {i} /\ NextSlot(FALSE) /\ UNCHANGED <<kv, old, sch, history>>
    <3>1. loader' \in Loaders /\ loader'.at = loader.at  BY <1>1, <2>2, NextSlotIs, Zenon
    <3>2. kv' \in [Slots -> Schedules \cup {Missing}] /\ old' \subseteq Slots /\ kept' \subseteq Slots
      BY <1>1, <2>2, Zenon DEF IInv, LoadType
    <3> QED BY <1>2, <2>2, <3>1, <3>2, Zenon
  <2>3. CASE LoaderStores(i, Missing) /\ NextSlot(FALSE) /\ UNCHANGED <<sch, history>>
    <3>1. loader' \in Loaders /\ loader'.at = loader.at  BY <1>1, <2>3, NextSlotIs, Zenon
    <3>2. kv' \in [Slots -> Schedules \cup {Missing}] /\ old' \subseteq Slots /\ kept' \subseteq Slots
      BY <1>1, <2>3, StoresType, Zenon DEF IInv
    <3> QED BY <1>2, <2>3, <3>1, <3>2, ZenonT(40)
  <2> QED BY <2>1, <2>2, <2>3, Zenon DEF override_slot, OverrideSlot
<1>5. LoadType'
  BY <1>3, <1>4, Zenon DEF IInv, LoadType
<1> QED BY <1>1, <1>3, <1>4, <1>5, LoadStep, ZenonT(40)

\* The view of the tasks once the schedules are loaded.
LEMMA DoneRun ==
  ASSUME IInv, loader.at # "idle"
  PROVE  LET r == [Run EXCEPT !.sch_states = init_schedules(@, loader.num_eval)]
         IN  /\ r \in RunType /\ Good(r, loader.num_eval)
             /\ InUse(sch, r.sch_states, loader.num_eval)
             /\ r.history = history
<1> DEFINE n == loader.num_eval
           q == init_schedules(sch_states, n)
           r == [Run EXCEPT !.sch_states = init_schedules(@, loader.num_eval)]
<1>1. /\ Run \in RunType /\ Good(Run, sch_num) /\ n \in 0 .. RANGE /\ sch \in [Slots -> Schedules]
      /\ sch_states \in [Slots -> States]
  BY RunParts, Zenon DEF IInv, LoadType, Loaders, RunType
<1>2. q \in [Slots -> States] /\ InUse(sch, q, n) /\ Forgotten(sch_states, q)
  BY <1>1, InitGood, Zenon
<1>3. r = [Run EXCEPT !.sch_states = q]
  BY RunParts, Zenon
<1> HIDE DEF q, r
<1>4. /\ r.sch_states = q /\ r.exec = exec /\ r.tsk_states = tsk_states
      /\ r.event = event /\ r.history = history
  <2>1. \A x \in RunType : \A f : LET y == [x EXCEPT !.sch_states = f]
                                  IN  /\ y.sch_states = f /\ y.exec = x.exec /\ y.tsk_states = x.tsk_states
                                      /\ y.event = x.event /\ y.history = x.history
    BY Zenon DEF RunType
  <2> QED BY <1>1, <1>3, <2>1, RunParts, ZenonT(40)
<1>5. r \in RunType
  <2>1. \A x \in RunType : \A f \in [Slots -> States] : [x EXCEPT !.sch_states = f] \in RunType
    BY DEF RunType
  <2> QED BY <1>1, <1>2, <1>3, <2>1, Zenon
<1>6. \A t \in Tasks : ~tsk_states[t].running
  BY Zenon DEF IInv, LoaderInv
<1>7. TasksGood(r, n)
  <2>1. \A t \in Tasks : exec[t] = "active" => tsk_states[t].running
    BY <1>1, RunParts, Zenon DEF Good, TasksGood
  <2> QED BY <1>4, <1>6, <2>1, Zenon DEF TasksGood
<1>8. EventsGood(r)
  <2>1. EventsGood(Run)  BY <1>1, Zenon DEF Good
  <2>2. \A i \in Slots : event[i] # "out_of_order" /\ event[i] \notin AtWork
    BY <1>6, <2>1, RunParts, Zenon DEF EventsGood
  <2> QED BY <1>4, <2>2, Zenon DEF EventsGood
<1>9. EndsGood(r)
  <2>1. \A i \in Slots : sch_states[i].last_terminate # 0 => history[i].end = sch_states[i].last_terminate
    BY <1>1, RunParts, Zenon DEF Good, EndsGood
  <2> QED BY <1>2, <1>4, <2>1, Zenon DEF EndsGood, Forgotten
<1>10. Good(r, n)  BY <1>7, <1>8, <1>9, Zenon DEF Good
<1> QED BY <1>2, <1>4, <1>5, <1>10, Zenon DEF r

\* The schedules are loaded.
LEMMA DoneIInv == IInv /\ load_done => IInv'
<1> SUFFICES ASSUME IInv, load_done PROVE IInv'  OBVIOUS
<1> DEFINE n == loader.num_eval
           r == [Run EXCEPT !.sch_states = init_schedules(@, loader.num_eval)]
<1>1. loader.at # "idle" /\ n \in 0 .. RANGE /\ uptime \in Int
  BY Zenon DEF load_done, IInv, LoadType, Loaders
<1>2. r \in RunType /\ Good(r, n) /\ InUse(sch, r.sch_states, n)
  BY <1>1, DoneRun, Zenon
<1>3. SetRun(r) \/ Evaluate(r, n, uptime)  BY Zenon DEF load_done
<1> HIDE DEF r
<1>4. Run' \in RunType /\ Good(Run', n) /\ InUse(sch, Run'.sch_states, n)
  <2>1. CASE SetRun(r)
    BY <1>2, <2>1, RunSet, Zenon
  <2>2. CASE Evaluate(r, n, uptime)
    BY <1>1, <1>2, <2>2, EvaluateStep, Zenon
  <2> QED BY <1>3, <2>1, <2>2, SMTT(30)
<1>5. /\ kv' = kv /\ old' = old /\ kept' = kept /\ writer' = writer /\ sch' = sch /\ uptime' = uptime
      /\ sch_num' = n /\ loader' = Idle /\ flags' = flags \ {RELOADING}
  BY Zenon DEF load_done
<1>6. kv_id' \in BOOLEAN  BY Zenon DEF load_done, IInv, LoadType
<1>7. Idle \in Loaders /\ Idle.at = "idle"
  BY Numbers DEF Idle, Loaders
<1>8. LoadType'  BY <1>1, <1>5, <1>6, <1>7, Zenon DEF IInv, LoadType
<1>9. LoaderInv'  BY <1>5, <1>7, Zenon DEF LoaderInv
<1> QED BY <1>4, <1>5, <1>8, <1>9, RunPartsNext, Zenon DEF IInv

\* Steps that leave the tasks and the schedules alone.
LEMMA StoreStep ==
  ASSUME IInv, LoadType', LoaderInv', loader' = loader, sch' = sch, sch_num' = sch_num, UNCHANGED run
  PROVE  IInv'
<1>1. Run' = Run  BY DEF Run, run
<1>2. sch_states' = sch_states  BY DEF run
<1> QED BY <1>1, <1>2, Zenon DEF IInv

\* Another thread writes a schedule, or another default ID, and is called back.
LEMMA WriterIInv ==
  ASSUME IInv,
         \/ \E i \in Slots, value \in Written \cup {Missing} : kv_store_write(i, value)
         \/ kv_store_write_id
         \/ kv_value_changed
  PROVE  IInv'
<1>1. /\ loader' = loader /\ sch' = sch /\ sch_num' = sch_num /\ kept' = kept /\ uptime' = uptime
      /\ tsk_states' = tsk_states /\ UNCHANGED run
  BY DEF kv_store_write, kv_store_write_id, kv_value_changed, CanWrite, run
<1>2. LoadType'
  <2>1. ASSUME NEW i \in Slots, NEW value \in Written \cup {Missing}, kv_store_write(i, value)
        PROVE  LoadType'
    <3>1. kv' = [kv EXCEPT ![i] = value] /\ old' = old \ {i} /\ writer' = i /\ kv_id' = kv_id
      BY <2>1, Zenon DEF kv_store_write
    <3>2. value \in Schedules \cup {Missing}  BY DEF Schedules
    <3>3. kv' \in [Slots -> Schedules \cup {Missing}]  BY <3>1, <3>2, ZenonT(40) DEF IInv, LoadType
    <3> QED BY <1>1, <3>1, <3>3 DEF IInv, LoadType
  <2>2. CASE kv_store_write_id
    <3>1. kv' = kv /\ old' \subseteq Slots /\ writer' = ID /\ kv_id' = FALSE
      BY <2>2, SMTT(30) DEF kv_store_write_id
    <3> QED BY <1>1, <3>1, Zenon DEF IInv, LoadType
  <2>3. CASE kv_value_changed
    <3>1. kv' = kv /\ old' = old /\ writer' = NoKey /\ kv_id' = kv_id
      BY <2>3, Zenon DEF kv_value_changed
    <3> QED BY <1>1, <3>1 DEF IInv, LoadType
  <2> QED BY <2>1, <2>2, <2>3, SMTT(30)
<1>3. LoaderInv'
  <2>1. flags' = flags \/ (RELOADING \notin flags /\ flags' = flags \cup {TRIGGER})
    BY Zenon DEF kv_store_write, kv_store_write_id, kv_value_changed, CanWrite
  <2>2. RELOADING # TRIGGER  BY DEF RELOADING, TRIGGER
  <2> QED BY <1>1, <2>1, <2>2, Zenon DEF IInv, LoaderInv
<1> QED BY <1>1, <1>2, <1>3, StoreStep, ZenonT(40)

\* A task returns.
LEMMA ReturnsIInv == ASSUME IInv, NEW t \in Tasks, task_returns(t) PROVE IInv'
<1>1. exec \in [Tasks -> {"active", "ended"}]  BY RunParts, Zenon DEF IInv, RunType
<1>2. exec' = [exec EXCEPT ![t] = "ended"]  BY Zenon DEF task_returns
<1>3. exec' \in [Tasks -> {"active", "ended"}] /\ \A u \in Tasks : exec'[u] = "active" => exec[u] = "active"
  BY <1>1, <1>2, SMTT(30)
<1>4. UNCHANGED <<kv, kv_id, old, kept, writer, flags, sch, sch_num, sch_states, tsk_states, signal,
                  loader, uptime, event, history>>
  BY DEF task_returns
<1>5. Run' = [Run EXCEPT !.exec = exec']  BY <1>4 DEF Run
<1>6. Run' \in RunType
  <2>1. \A x \in RunType : \A f \in [Tasks -> {"active", "ended"}] : [x EXCEPT !.exec = f] \in RunType
    BY SMTT(30) DEF RunType
  <2> QED BY <1>3, <1>5, <2>1, Zenon DEF IInv
<1>7. /\ Run'.sch_states = Run.sch_states /\ Run'.tsk_states = Run.tsk_states
      /\ Run'.event = Run.event /\ Run'.history = Run.history
      /\ \A u \in Tasks : Run'.exec[u] = "active" => Run.exec[u] = "active"
  BY <1>3, <1>4, RunParts, RunPartsNext, Zenon
<1>8. Good(Run', sch_num)
  <2>1. TasksGood(Run, sch_num) /\ EventsGood(Run) /\ EndsGood(Run)  BY Zenon DEF IInv, Good
  <2>2. TasksGood(Run', sch_num)  BY <1>7, <2>1, ZenonT(40) DEF TasksGood
  <2>3. EventsGood(Run')  BY <1>7, <2>1 DEF EventsGood
  <2>4. EndsGood(Run')  BY <1>7, <2>1, Zenon DEF EndsGood
  <2> QED BY <2>2, <2>3, <2>4, Zenon DEF Good
<1>9. LoadType'  BY <1>4, Zenon DEF IInv, LoadType
<1>10. LoaderInv'  BY <1>4, Zenon DEF IInv, LoaderInv
<1>11. loader' = loader /\ sch' = sch /\ sch_states' = sch_states /\ sch_num' = sch_num
  BY <1>4, Zenon
<1> QED BY <1>6, <1>8, <1>9, <1>10, <1>11, Zenon DEF IInv

\* A restart.
LEMMA RebootIInv == IInv /\ reboot => IInv'
<1> SUFFICES ASSUME IInv, reboot PROVE IInv'  OBVIOUS
<1>1. Run' = Fresh  BY Zenon DEF reboot, Booting, Run, Fresh
<1>2. /\ kv' = kv /\ kv_id' = kv_id /\ old' = old /\ kept' = kept /\ writer' = NoKey
      /\ flags' = {RELOADING} /\ sch' = [i \in Slots |-> ZeroSchedule] /\ sch_num' = 0
      /\ loader' = Loading(TRUE) /\ uptime' = -1
  BY Zenon DEF reboot, Booting
<1>3. loader' \in Loaders /\ loader'.at # "idle"  BY <1>2, LoadingType, Zenon
<1>4. LoadType'
  <2>1. sch' \in [Slots -> Schedules]  BY <1>2, Defaults, Zenon
  <2>2. sch_num' \in 0 .. RANGE /\ uptime' \in Int  BY <1>2, Numbers, SMTT(30)
  <2> QED BY <1>2, <1>3, <2>1, <2>2, ZenonT(40) DEF IInv, LoadType
<1>5. LoaderInv'
  BY <1>1, <1>2, <1>3, FreshGood, RunPartsNext, Zenon DEF LoaderInv
<1>6. Good(Run', sch_num')  BY <1>1, <1>2, FreshGood, ZenonT(40)
<1> QED BY <1>1, <1>3, <1>4, <1>5, <1>6, FreshGood, Zenon DEF IInv

\* Every step keeps the runner's view of its tasks true.
LEMMA NextIInv == IInv /\ [Next]_vars => IInv'
<1> SUFFICES ASSUME IInv, [Next]_vars PROVE IInv'  BY SMTT(30)
<1>1. CASE UNCHANGED vars
  <2>1. /\ UNCHANGED <<kv, kv_id, old, kept, writer, flags, sch, sch_num, tsk_states, loader, uptime>>
        /\ UNCHANGED run
    BY <1>1, SMTT(30) DEF vars, run
  <2>2. LoadType' /\ LoaderInv'
    BY <2>1, Zenon DEF IInv, LoadType, LoaderInv
  <2> QED BY <2>1, <2>2, StoreStep, Zenon
<1> QED BY <1>1, EvaluatesIInv, ReloadIInv, OverrideIInv, ReadIInv, DoneIInv, WriterIInv, ReturnsIInv,
           RebootIInv, ZenonT(40) DEF Next, Iterate

\* The runner's view of its tasks is always true.
THEOREM RunnerInvariant == Spec => []IInv
BY InitIInv, NextIInv, PTL DEF Spec

\* A task executes only from a valid schedule that is in use and names it, and
\* never while task_runner_schedules_load replaces the schedules: for any
\* number of tasks and slots, whatever is written to the KV store, whenever
\* tasks return and the device restarts.
THEOREM AlwaysExecutesItsSchedule == Spec => []ExecutesItsSchedule
<1>1. IInv => ExecutesItsSchedule
  <2> SUFFICES ASSUME IInv, NEW t \in Tasks, exec[t] = "active"
               PROVE  LET i == tsk_states[t].schedule_idx
                      IN  /\ tsk_states[t].running
                          /\ loader.at = "idle"
                          /\ i < sch_num
                          /\ sch_states[i].task_idx = t
                          /\ sch[i].task_id = tsk[t]
                          /\ task_schedule_validate(sch[i])
    BY Zenon DEF ExecutesItsSchedule
  <2> DEFINE i == tsk_states[t].schedule_idx
  <2>1. TasksGood(Run, sch_num)  BY Zenon DEF IInv, Good
  <2>2. /\ tsk_states[t].running /\ i \in 0 .. sch_num - 1 /\ sch_states[i].task_idx = t
    BY <2>1, RunParts, Zenon DEF TasksGood
  <2>3. loader.at = "idle"  BY <2>2, Zenon DEF IInv, LoaderInv
  <2>4. t # UINT8_MAX  BY Numbers
  <2>5. Suits(sch[i], sch_states[i])
    BY <2>2, <2>3, <2>4, ZenonT(40) DEF IInv, InUse
  <2>6. i < sch_num  BY <2>2, Numbers, SMTT(30) DEF IInv, LoadType
  <2> QED BY <2>2, <2>3, <2>5, <2>6, Zenon DEF Suits
<1> QED BY <1>1, RunnerInvariant, PTL

\* The events task_runner reports of a schedule always come in order.
THEOREM EventsAlwaysInOrder == Spec => []EventsInOrder
<1>1. IInv => EventsInOrder
  BY RunParts, Zenon DEF IInv, Good, EventsGood, EventsInOrder
<1> QED BY <1>1, RunnerInvariant, PTL

-----------------------------------------------------------------------------
(***************************************************************************)
(* Schedules of an earlier firmware                                        *)
(***************************************************************************)

\* While the slots are overridden the default ID is not stored, and the slots
\* that were passed hold nothing of an earlier set.
OldInv ==
    /\ kv_id => old \subseteq kept
    /\ loader.at = "override" => ~kv_id /\ \A j \in old : j < loader.i => j \in kept

\* A loader that starts to override finds no default ID.
LEMMA LoadingOld == ASSUME NEW b PROVE /\ Loading(b).i = 0
                                       /\ Loading(b).at = "override" <=> ~kv_id
BY DEF Loading

\* What the loader does to a slot it overrides.
LEMMA OverrideIs ==
  ASSUME IInv, override_slot
  PROVE  /\ old' \ kept' \subseteq (old \ kept) \ {loader.i} /\ kv_id' = kv_id
         /\ loader.at = "override" /\ loader'.at = "override" /\ loader'.i = loader.i + 1
         /\ loader.i \in Slots
<1> DEFINE i == loader.i
<1>1. i \in Slots /\ i < RANGE /\ loader \in Loaders /\ LoadType
  BY Numbers DEF IInv, LoadType, Loaders, override_slot, OverrideSlot, Slots
<1>2. loader.at = "override" /\ kv_id' = kv_id  BY Zenon DEF override_slot, OverrideSlot
<1>3. loader'.at = "override" /\ loader'.i = loader.i + 1
  <2>1. NextSlot(TRUE) \/ NextSlot(FALSE)  BY Zenon DEF override_slot, OverrideSlot
  <2> QED BY <1>1, <1>2, <2>1, NextSlotIs, Zenon
<1>4. old' \ kept' \subseteq (old \ kept) \ {i}
  <2>1. CASE i < default_num /\ LoaderStores(i, Default(i))
    BY <1>1, <2>1, Defaults, StoresType, Zenon
  <2>2. CASE kept' = kept \cup {i} /\ old' = old
    BY <2>2, Zenon
  <2>3. CASE LoaderStores(i, Missing)
    BY <1>1, <2>3, StoresType, ZenonT(40)
  <2> QED BY <2>1, <2>2, <2>3, Zenon DEF override_slot, OverrideSlot
<1> QED BY <1>1, <1>2, <1>3, <1>4, SMTT(30)

\* Every step keeps what is left of an earlier set out of the slots passed.
LEMMA NextOldInv == IInv /\ OldInv /\ [Next]_vars => OldInv'
<1> SUFFICES ASSUME IInv, OldInv, [Next]_vars PROVE OldInv'  BY SMTT(30)
<1>1. old \subseteq Slots /\ loader.i \in Int  BY Numbers DEF IInv, LoadType, Loaders
<1>2. CASE UNCHANGED <<old, kept, kv_id, loader>>
  BY <1>2, Zenon DEF OldInv
<1>3. ASSUME NEW b, loader' = Loading(b), UNCHANGED <<old, kept, kv_id>> PROVE OldInv'
  <2>1. loader'.i = 0 /\ (loader'.at = "override" <=> ~kv_id)  BY <1>3, LoadingOld, Zenon
  <2>2. \A j \in Slots : ~(j < 0)  BY Numbers
  <2> QED BY <1>1, <1>3, <2>1, <2>2, Zenon DEF OldInv
<1>4. CASE iterate_handle_task_reload
  <2>1. UNCHANGED <<old, kept, kv_id>> /\ (loader' = loader \/ loader' = Loading(FALSE))
    BY <1>4, Zenon DEF iterate_handle_task_reload
  <2> QED BY <1>2, <1>3, <2>1, Zenon
<1>5. CASE override_slot
  <2>1. /\ old' \ kept' \subseteq (old \ kept) \ {loader.i} /\ kv_id' = kv_id
        /\ loader.at = "override" /\ loader'.at = "override" /\ loader'.i = loader.i + 1
    BY <1>5, OverrideIs, SMTT(30)
  <2>2. ~kv_id  BY <2>1, Zenon DEF OldInv
  <2>3. ASSUME NEW j \in old', j < loader.i + 1 PROVE j \in kept'
    <3> SUFFICES ASSUME j \notin kept' PROVE FALSE  OBVIOUS
    <3>1. j \in old /\ j \notin kept /\ j # loader.i  BY <2>1, <2>3, SMTT(30)
    <3>2. j < loader.i  BY <1>1, <2>3, <3>1, Numbers
    <3> QED BY <2>1, <3>1, <3>2, Zenon DEF OldInv
  <2> QED BY <2>1, <2>2, <2>3, Zenon DEF OldInv
<1>6. CASE read_slot
  <2>1. loader.at = "read" /\ UNCHANGED <<old, kept, kv_id>>  BY <1>6, Zenon DEF read_slot
  <2>2. loader'.at # "override"
    <3>1. loader \in Loaders /\ loader.i < RANGE  BY <1>6, Zenon DEF IInv, LoadType, read_slot
    <3>2. \E b \in BOOLEAN : NextSlot(b)
      <4>1. NextSlot((loader.i < default_num /\ Default(loader.i).locked) \/ kv[loader.i] # Missing)
        BY <1>6, Zenon DEF read_slot
      <4> QED BY <4>1, Zenon
    <3> QED BY <2>1, <3>1, <3>2, NextSlotIs, SMTT(30)
  <2> QED BY <2>1, <2>2, Zenon DEF OldInv
<1>7. CASE load_done
  <2>1. UNCHANGED <<old, kept>> /\ loader' = Idle  BY <1>7, Zenon DEF load_done
  <2>2. loader'.at # "override"  BY <2>1 DEF Idle
  <2>3. kv_id' => kv_id \/ loader.at = "override"  BY <1>7, Zenon DEF load_done
  <2>4. loader.at = "override" => old \subseteq kept
    <3>1. \A j \in Slots : j < loader.i  BY <1>7, Numbers DEF load_done, Slots
    <3> QED BY <1>1, <3>1, Zenon DEF OldInv
  <2> QED BY <2>1, <2>2, <2>3, <2>4, ZenonT(40) DEF OldInv
<1>8. ASSUME NEW i \in Slots, NEW value, kv_store_write(i, value) PROVE OldInv'
  <2>1. old' = old \ {i} /\ UNCHANGED <<kept, kv_id, loader>>
    BY <1>8, Zenon DEF kv_store_write, CanWrite
  <2> QED BY <2>1, Zenon DEF OldInv
<1>9. CASE kv_store_write_id
  <2>1. kv_id /\ kv_id' = FALSE /\ loader' = loader  BY <1>9, Zenon DEF kv_store_write_id, CanWrite
  <2> QED BY <2>1, Zenon DEF OldInv
<1>10. CASE reboot
  <2>1. loader' = Loading(TRUE) /\ UNCHANGED <<old, kept, kv_id>>  BY <1>10, Zenon DEF reboot, Booting
  <2> QED BY <1>3, <2>1, Zenon
<1>11. CASE iterate_evaluates
  BY <1>2, <1>11, Zenon DEF iterate_evaluates
<1>12. CASE kv_value_changed
  BY <1>2, <1>12, Zenon DEF kv_value_changed
<1>13. ASSUME NEW t \in Tasks, task_returns(t) PROVE OldInv'
  BY <1>2, <1>13, Zenon DEF task_returns
<1>14. CASE UNCHANGED vars
  BY <1>2, <1>14, Zenon DEF vars
<1> QED BY <1>4, <1>5, <1>6, <1>7, <1>8, <1>9, <1>10, <1>11, <1>12, <1>13, <1>14, ZenonT(40) DEF Next, Iterate

\* Restarts and failing writes at any point of task_runner_schedules_load
\* leave no schedule of an earlier set behind a stored default ID, other than
\* in slots the loader was to override and could not.
THEOREM NeverOldSchedules == Spec => []NoOldSchedules
<1>1. Init => OldInv
  <2> SUFFICES ASSUME Init PROVE OldInv  OBVIOUS
  <2>1. loader.i = 0 /\ (loader.at = "override" <=> ~kv_id)  BY LoadingOld, Zenon DEF Init
  <2>2. kv_id => old = {}  BY Zenon DEF Init
  <2>3. \A j \in old : ~(j < 0)
    <3>1. old \subseteq Slots  BY InitIInv, Zenon DEF IInv, LoadType
    <3> QED BY <3>1, Numbers
  <2> QED BY <2>1, <2>2, <2>3, Zenon DEF OldInv
<1>2. OldInv => NoOldSchedules  BY Zenon DEF OldInv, NoOldSchedules
<1> QED BY <1>1, <1>2, NextOldInv, RunnerInvariant, PTL DEF Spec

-----------------------------------------------------------------------------
(***************************************************************************)
(* Schedules in use and schedules in the store                             *)
(***************************************************************************)

\* Every default schedule is valid
ValidDefaults == \A i \in Slots : i < default_num => task_schedule_validate(Default(i))

\* What values c of the store say slot j is to be
ExpectedOf(c, j) ==
    IF j < default_num /\ Default(j).locked THEN Default(j)
    ELSE IF c[j] # Missing THEN c[j] ELSE ZeroSchedule

\* The slots that loader l has passed
PassedRead(c, s, l) ==
    \A j \in Slots : j < l.i => /\ s[j] = ExpectedOf(c, j)
                                /\ j >= l.num_eval => ExpectedOf(c, j) = ZeroSchedule
PassedOverride(c, s, l) ==
    /\ l.num_eval = IF l.i <= default_num THEN l.i ELSE default_num
    /\ \A j \in Slots : j < l.i => IF j < default_num THEN s[j] = ExpectedOf(c, j)
                                   ELSE ExpectedOf(c, j) = ZeroSchedule

\* All schedules are as the store says, the first n of them in use
Current(c, s, n) ==
    \A j \in Slots : IF j < n THEN s[j] = ExpectedOf(c, j) ELSE ExpectedOf(c, j) = ZeroSchedule

CurrentInv ==
    /\ AtRest => kv_id /\ Current(kv, sch, sch_num)
    /\ loader.at = "read" => kv_id /\ PassedRead(kv, sch, loader)
    /\ loader.at = "override" => PassedOverride(kv, sch, loader)

\* No slot is passed when loading starts.
LEMMA LoadingPassed ==
  ASSUME NEW b, NEW c, NEW s, NEW l, l = Loading(b)
  PROVE  /\ l.at # "idle" /\ PassedRead(c, s, l) /\ PassedOverride(c, s, l)
         /\ l.at = "read" => kv_id
<1>1. l.i = 0 /\ l.num_eval = 0 /\ l.at # "idle" /\ (l.at = "read" => kv_id)
  BY DEF Loading
<1>2. \A j \in Slots : ~(j < 0)  BY Numbers, SMTT(30)
<1>3. 0 <= default_num  BY Defaults, Numbers, SMTT(30)
<1> QED BY <1>1, <1>2, <1>3, SMTT(30) DEF PassedRead, PassedOverride

\* A slot that is read is as the store says.
LEMMA ReadPassed ==
  ASSUME IInv, CurrentInv, read_slot
  PROVE  CurrentInv'
<1> DEFINE i == loader.i
           locked == i < default_num /\ Default(i).locked
           b == locked \/ kv[i] # Missing
           s == IF locked THEN Default(i) ELSE IF kv[i] # Missing THEN kv[i] ELSE ZeroSchedule
<1>1. i \in Slots /\ i < RANGE /\ loader.at = "read" /\ loader \in Loaders /\ b \in BOOLEAN
  BY Numbers DEF IInv, LoadType, Loaders, read_slot, Slots
<1>2. SetSchedule(i, s) /\ NextSlot(b) /\ kv' = kv /\ kv_id' = kv_id
  BY Zenon DEF read_slot
<1>3. s \in Schedules /\ s = ExpectedOf(kv, i) /\ (~b => s = ZeroSchedule)
  BY <1>1, Defaults, Zenon DEF IInv, LoadType, ExpectedOf
<1> HIDE DEF s, locked, b
<1>4. sch \in [Slots -> Schedules] /\ history \in [Slots -> Spans]
  BY RunParts, ZenonT(40) DEF IInv, LoadType, RunType
<1>5. Replaced(i, s)
  BY <1>1, <1>2, <1>3, <1>4, SetScheduleIs, Zenon
<1>6. /\ loader'.at = "read" /\ loader'.i = i + 1
      /\ loader'.num_eval = IF b THEN i + 1 ELSE loader.num_eval
  BY <1>1, <1>2, NextSlotIs, ZenonT(40)
<1>7. kv_id /\ PassedRead(kv, sch, loader)  BY <1>1, Zenon DEF CurrentInv
<1>8. PassedRead(kv, sch', loader')
  <2> SUFFICES ASSUME NEW j \in Slots, j < i + 1
               PROVE  /\ sch'[j] = ExpectedOf(kv, j)
                      /\ j >= loader'.num_eval => ExpectedOf(kv, j) = ZeroSchedule
    BY <1>6, Zenon DEF PassedRead
  <2>1. i \in Int /\ j \in Int /\ loader.num_eval \in Int  BY <1>1, Numbers, SMTT(30) DEF Loaders
  <2>2. CASE j = i
    <3>1. sch'[j] = ExpectedOf(kv, j)  BY <1>3, <1>5, <2>2, ZenonT(40) DEF Replaced
    <3>2. j >= loader'.num_eval => ~b  BY <1>6, <2>1, <2>2
    <3> QED BY <1>3, <2>2, <3>1, <3>2, Zenon
  <2>3. CASE j # i
    <3>1. j < i  BY <2>1, <2>3
    <3>2. sch'[j] = sch[j]  BY <1>5, <2>3, ZenonT(40) DEF Replaced
    <3>3. j >= loader'.num_eval => j >= loader.num_eval  BY <1>6, <2>1
    <3> QED BY <1>7, <3>1, <3>2, <3>3, Zenon DEF PassedRead
  <2> QED BY <2>2, <2>3, SMTT(30)
<1> QED BY <1>2, <1>6, <1>7, <1>8, SMTT(30) DEF CurrentInv, AtRest

\* A slot that is overridden is as the store says.
LEMMA OverridePassed ==
  ASSUME ValidDefaults, ~StoreFaults, IInv, CurrentInv, override_slot
  PROVE  CurrentInv'
<1> DEFINE i == loader.i
<1>1. i \in Slots /\ i < RANGE /\ loader.at = "override" /\ loader \in Loaders /\ LoadType
  BY Numbers DEF IInv, LoadType, Loaders, override_slot, OverrideSlot, Slots
<1>2. sch \in [Slots -> Schedules] /\ history \in [Slots -> Spans] /\ kv \in [Slots -> Schedules \cup {Missing}]
  BY RunParts, Zenon DEF IInv, LoadType, RunType
<1>3. i \in Int /\ default_num \in Int
  <2>1. default_num \in 0 .. RANGE /\ i \in Nat  BY <1>1, Defaults, Numbers, ZenonT(40)
  <2> HIDE DEF i
  <2> QED BY <2>1
<1>4. PassedOverride(kv, sch, loader)  BY <1>1, Zenon DEF CurrentInv
<1>5. CASE i < default_num
  <2>1. LoaderStores(i, Default(i)) /\ SetSchedule(i, Default(i)) /\ NextSlot(TRUE)
    <3>1. ~(i >= default_num)  BY <1>3, <1>5, SMTT(30)
    <3>2. task_schedule_validate(Default(i))  BY <1>1, <1>5, Zenon DEF ValidDefaults
    <3> QED BY <3>1, <3>2, Zenon DEF override_slot, OverrideSlot
  <2>2. Default(i) \in Schedules /\ Default(i) # Missing  BY <1>1, <1>5, Defaults, ZenonT(40)
  <2>3. kv' = [kv EXCEPT ![i] = Default(i)]  BY <1>1, <2>1, <2>2, StoresType, Zenon
  <2>4. Replaced(i, Default(i))  BY <1>1, <1>2, <2>1, <2>2, SetScheduleIs, ZenonT(40)
  <2>5. loader'.at = "override" /\ loader'.i = i + 1 /\ loader'.num_eval = i + 1
    BY <1>1, <2>1, NextSlotIs, Zenon
  <2>6. PassedOverride(kv', sch', loader')
    <3>1. loader'.num_eval = IF loader'.i <= default_num THEN loader'.i ELSE default_num
      BY <1>3, <1>5, <2>5, SMTT(30)
    <3>2. ASSUME NEW j \in Slots, j < i + 1
          PROVE  IF j < default_num THEN sch'[j] = ExpectedOf(kv', j)
                 ELSE ExpectedOf(kv', j) = ZeroSchedule
      <4>1. CASE j = i
        <5>1. sch'[j] = Default(i)  BY <2>4, <4>1, ZenonT(40) DEF Replaced
        <5>2. kv'[j] = Default(i)  BY <1>2, <2>3, <4>1, Zenon
        <5>3. ExpectedOf(kv', j) = Default(i)  BY <2>2, <4>1, <5>2, ZenonT(40) DEF ExpectedOf
        <5> QED BY <1>5, <4>1, <5>1, <5>3, Zenon
      <4>2. CASE j # i
        <5>1. j < i  BY <1>3, <3>2, <4>2, Numbers, SMTT(30)
        <5>2. sch'[j] = sch[j]  BY <2>4, <4>2, Zenon DEF Replaced
        <5>3. kv'[j] = kv[j]  BY <1>2, <2>3, <4>2, ZenonT(40)
        <5>4. ExpectedOf(kv', j) = ExpectedOf(kv, j)  BY <5>3, Zenon DEF ExpectedOf
        <5> QED BY <1>4, <5>1, <5>2, <5>4, Zenon DEF PassedOverride
      <4> QED BY <4>1, <4>2, SMTT(30)
    <3> QED BY <2>5, <3>1, <3>2, ZenonT(40) DEF PassedOverride
  <2> QED BY <2>5, <2>6, SMTT(30) DEF CurrentInv, AtRest
<1>6. CASE i >= default_num
  <2>1. LoaderStores(i, Missing) /\ NextSlot(FALSE) /\ sch' = sch
    <3>1. ~(i < default_num)  BY <1>3, <1>6, SMTT(30)
    <3> QED BY <3>1, Zenon DEF override_slot, OverrideSlot
  <2>2. kv' = [kv EXCEPT ![i] = Missing]  BY <1>1, <2>1, StoresType, Zenon
  <2>3. loader'.at = "override" /\ loader'.i = i + 1 /\ loader'.num_eval = loader.num_eval
    BY <1>1, <2>1, NextSlotIs, ZenonT(40)
  <2>4. PassedOverride(kv', sch', loader')
    <3>1. loader'.num_eval = IF loader'.i <= default_num THEN loader'.i ELSE default_num
      BY <1>3, <1>4, <1>6, <2>3, SMTT(30) DEF PassedOverride
    <3>2. ASSUME NEW j \in Slots, j < i + 1
          PROVE  IF j < default_num THEN sch'[j] = ExpectedOf(kv', j)
                 ELSE ExpectedOf(kv', j) = ZeroSchedule
      <4>1. CASE j = i
        <5>1. kv'[j] = Missing  BY <1>2, <2>2, <4>1, Zenon
        <5>2. ~(j < default_num)  BY <1>3, <1>6, <4>1
        <5> QED BY <5>1, <5>2, Zenon DEF ExpectedOf
      <4>2. CASE j # i
        <5>1. j < i  BY <1>3, <3>2, <4>2, Numbers
        <5>2. kv'[j] = kv[j]  BY <1>2, <2>2, <4>2, Zenon
        <5>3. ExpectedOf(kv', j) = ExpectedOf(kv, j)  BY <5>2, Zenon DEF ExpectedOf
        <5> QED BY <1>4, <2>1, <5>1, <5>3, ZenonT(40) DEF PassedOverride
      <4> QED BY <4>1, <4>2
    <3> QED BY <2>3, <3>1, <3>2, Zenon DEF PassedOverride
  <2> QED BY <2>3, <2>4, SMTT(30) DEF CurrentInv, AtRest
<1> QED BY <1>3, <1>5, <1>6, SMTT(30)

\* When the loader is done, all schedules are as the store says.
LEMMA DonePassed ==
  ASSUME ~StoreFaults, IInv, CurrentInv, load_done
  PROVE  CurrentInv'
<1>1. /\ loader.i = RANGE /\ loader.at \in {"read", "override"} /\ loader.num_eval \in Int
      /\ default_num \in 0 .. RANGE
  <2>1. loader.i = RANGE /\ loader.at \in {"read", "override"} /\ loader.num_eval \in Int
    BY Numbers, SMTT(30) DEF IInv, LoadType, Loaders, load_done
  <2> QED BY <2>1, Defaults, Zenon
<1>2. kv' = kv /\ sch' = sch /\ sch_num' = loader.num_eval /\ loader' = Idle
      /\ kv_id' = (kv_id \/ loader.at = "override")
  BY Zenon DEF load_done
<1>3. \A j \in Slots : j < loader.i /\ j \in Int  BY <1>1, Numbers, SMTT(30) DEF Slots
<1>4. kv_id' /\ Current(kv, sch, loader.num_eval)
  <2>1. CASE loader.at = "read"
    <3>1. kv_id /\ PassedRead(kv, sch, loader)  BY <2>1, Zenon DEF CurrentInv
    <3>2. \A j \in Slots : j < loader.num_eval \/ j >= loader.num_eval  BY <1>1, <1>3, SMTT(30)
    <3> QED BY <1>2, <1>3, <3>1, <3>2, ZenonT(40) DEF PassedRead, Current
  <2>2. CASE loader.at = "override"
    <3>1. PassedOverride(kv, sch, loader)  BY <2>2, ZenonT(40) DEF CurrentInv
    <3>2. loader.num_eval = default_num  BY <1>1, <3>1, Numbers DEF PassedOverride
    <3> QED BY <1>2, <1>3, <2>2, <3>1, <3>2, ZenonT(40) DEF PassedOverride, Current
  <2> QED BY <1>1, <2>1, <2>2, SMTT(30)
<1>5. loader'.at = "idle"  BY <1>2, ZenonT(40) DEF Idle
<1> QED BY <1>2, <1>4, <1>5, SMTT(30) DEF CurrentInv

\* Every step keeps the schedules as the store says, or leaves word that they
\* are to be loaded.
LEMMA NextCurrentInv ==
  ASSUME ~WritesDuringLoad, ~StoreFaults, ValidDefaults, IInv, CurrentInv, [Next]_vars
  PROVE  CurrentInv'
<1>1. CASE UNCHANGED <<kv, kv_id, sch, sch_num, loader, flags, writer>>
  BY <1>1, ZenonT(40) DEF CurrentInv, AtRest
<1>2. ASSUME NEW b, loader' = Loading(b), UNCHANGED kv_id PROVE CurrentInv'
  BY <1>2, LoadingPassed, SMTT(30) DEF CurrentInv, AtRest
<1>3. CASE iterate_handle_task_reload
  <2>1. \/ loader' = Loading(FALSE) /\ UNCHANGED kv_id
        \/ loader' = loader /\ loader.at = "idle" /\ flags' = {TERMINATING}
    BY <1>3, ZenonT(40) DEF iterate_handle_task_reload
  <2>2. ASSUME loader' = loader, loader.at = "idle", flags' = {TERMINATING} PROVE CurrentInv'
    BY <2>2 DEF CurrentInv, AtRest
  <2> QED BY <1>2, <2>1, <2>2, Zenon
<1>4. CASE override_slot  BY <1>4, OverridePassed
<1>5. CASE read_slot  BY <1>5, ReadPassed
<1>6. CASE load_done  BY <1>6, DonePassed
<1>7. CASE reboot
  <2>1. loader' = Loading(TRUE) /\ UNCHANGED kv_id  BY <1>7, Zenon DEF reboot, Booting
  <2> QED BY <1>2, <2>1, Zenon
<1>8. ASSUME loader.at = "idle", loader' = loader, writer' # NoKey PROVE CurrentInv'
  BY <1>8, SMTT(30) DEF CurrentInv, AtRest
<1>9. ASSUME NEW i \in Slots, NEW value, kv_store_write(i, value) PROVE CurrentInv'
  <2>1. loader.at = "idle" /\ loader' = loader /\ writer' = i
    BY <1>9, Zenon DEF kv_store_write, CanWrite
  <2>2. i # NoKey  BY Numbers, SMTT(30) DEF NoKey
  <2> QED BY <1>8, <2>1, <2>2, SMTT(30)
<1>10. CASE kv_store_write_id
  <2>1. loader.at = "idle" /\ loader' = loader /\ writer' = ID
    BY <1>10, Zenon DEF kv_store_write_id, CanWrite
  <2>2. ID # NoKey  BY DEF ID, NoKey
  <2> QED BY <1>8, <2>1, <2>2
<1>11. CASE kv_value_changed
  <2>1. UNCHANGED <<kv, kv_id, sch, sch_num, loader>> /\ (loader.at # "idle" \/ flags' # {})
    <3>1. UNCHANGED <<kv, kv_id, sch, sch_num, loader>>  BY <1>11, Zenon DEF kv_value_changed
    <3>2. loader.at = "idle" => TRIGGER \in flags'
      BY <1>11, Zenon DEF kv_value_changed, IInv, LoaderInv
    <3> QED BY <3>1, <3>2
  <2> QED BY <2>1, ZenonT(40) DEF CurrentInv, AtRest
<1>12. CASE iterate_evaluates
  BY <1>1, <1>12, ZenonT(40) DEF iterate_evaluates
<1>13. ASSUME NEW t \in Tasks, task_returns(t) PROVE CurrentInv'
  BY <1>1, <1>13, Zenon DEF task_returns
<1>14. CASE UNCHANGED vars
  BY <1>1, <1>14, ZenonT(40) DEF vars
<1> QED BY <1>3, <1>4, <1>5, <1>6, <1>7, <1>9, <1>10, <1>11, <1>12, <1>13, <1>14, ZenonT(40) DEF Next, Iterate

\* With no reload asked for or under way, the schedules in use are those of
\* the KV store: if other threads do not write while task_runner_schedules_load
\* goes through the slots, the writes of the loader succeed, and the default
\* schedules are valid.
THEOREM SchedulesAlwaysCurrent ==
  ASSUME ~WritesDuringLoad, ~StoreFaults, ValidDefaults
  PROVE  Spec => []SchedulesCurrent
<1>1. Init => CurrentInv
  <2> SUFFICES ASSUME Init PROVE CurrentInv  OBVIOUS
  <2>1. loader = Loading(TRUE)  BY Zenon DEF Init
  <2> QED BY <2>1, LoadingPassed, ZenonT(40) DEF CurrentInv, AtRest
<1>2. IInv /\ CurrentInv /\ [Next]_vars => CurrentInv'  BY NextCurrentInv, SMTT(30)
<1>3. CurrentInv => SchedulesCurrent
  <2>1. \A j : Expected(j) = ExpectedOf(kv, j)  BY ZenonT(40) DEF Expected, ExpectedOf
  <2> QED BY <2>1, Zenon DEF CurrentInv, SchedulesCurrent, Current
<1> QED BY <1>1, <1>2, <1>3, RunnerInvariant, PTL DEF Spec

-----------------------------------------------------------------------------
(***************************************************************************)
(* When schedules start                                                    *)
(***************************************************************************)

\* An iteration starts schedule i of view r
StartsIn(r, i, n, now) ==
    /\ i \in 0 .. n - 1
    /\ \E app_states \in AppStates, soc \in Charges : ToStart(r, i, now, app_states, soc)

\* A schedule starts only in an iteration that evaluates it.
LEMMA StartsWhen ==
  ASSUME IInv, [Next]_vars, NEW i \in Slots, Starts(i)
  PROVE  \E r \in RunType, n \in 0 .. RANGE :
            /\ Good(r, n) /\ InUse(sch, r.sch_states, n) /\ StartsIn(r, i, n, uptime')
            /\ \A j \in Slots : history'[j].end = r.history[j].end /\ r.history[j].start = history[j].start
            /\ \/ loader.at = "idle" /\ n = sch_num /\ Reaped(Run, uptime', r)
               \/ load_done /\ ~loader.boot
<1>1. ASSUME NEW r \in RunType, NEW n \in 0 .. RANGE, NEW now \in Int, Good(r, n),
             InUse(sch, r.sch_states, n), Evaluate(r, n, now), now = uptime',
             \A j \in Slots : r.history[j].start = history[j].start
      PROVE  /\ StartsIn(r, i, n, uptime')
             /\ \A j \in Slots : history'[j].end = r.history[j].end
  <2>1. PICK app_states \in AppStates, soc \in Charges : Evaluated(r, n, now, app_states, soc, Run')
    BY <1>1, EvaluateStep, ZenonT(40)
  <2>2. \A j \in Slots : history'[j].end = r.history[j].end
    BY <2>1, RunPartsNext, Zenon DEF Evaluated
  <2>3. history'[i].start # r.history[i].start  BY <1>1, Zenon DEF Starts
  <2>4. i \in 0 .. n - 1 /\ ToStart(r, i, now, app_states, soc)
    BY <2>1, <2>3, RunPartsNext, Zenon DEF Evaluated
  <2> QED BY <1>1, <2>2, <2>4, Zenon DEF StartsIn
<1>2. CASE iterate_evaluates
  <2>1. loader.at = "idle" /\ uptime' \in Int /\ sch_num \in 0 .. RANGE
    BY <1>2, UptimesType, Zenon DEF iterate_evaluates, IInv, LoadType
  <2> DEFINE r == Reap(Run, uptime')
  <2>2. r \in RunType /\ Good(r, sch_num) /\ InUse(sch, r.sch_states, sch_num) /\ Reaped(Run, uptime', r)
    BY <2>1, ReapStep, Zenon
  <2>3. Evaluate(r, sch_num, uptime')  BY <1>2, Zenon DEF iterate_evaluates
  <2> HIDE DEF r
  <2>4. \A j \in Slots : r.history[j].start = history[j].start
    BY <2>2, RunParts, ZenonT(40) DEF Reaped
  <2>5. StartsIn(r, i, sch_num, uptime') /\ \A j \in Slots : history'[j].end = r.history[j].end
    BY <1>1, <2>1, <2>2, <2>3, <2>4, Zenon
  <2> QED BY <2>1, <2>2, <2>4, <2>5, ZenonT(40)
<1>3. CASE load_done
  <2> DEFINE n == loader.num_eval
             r == [Run EXCEPT !.sch_states = init_schedules(@, loader.num_eval)]
  <2>1. loader.at # "idle" /\ n \in 0 .. RANGE /\ uptime \in Int /\ uptime' = uptime
    BY <1>3, Zenon DEF load_done, IInv, LoadType, Loaders
  <2>2. r \in RunType /\ Good(r, n) /\ InUse(sch, r.sch_states, n) /\ r.history = history
    BY <2>1, DoneRun, ZenonT(40)
  <2>3. IF loader.boot THEN SetRun(r) ELSE Evaluate(r, n, uptime)  BY <1>3, Zenon DEF load_done
  <2> HIDE DEF r
  <2>4. ~loader.boot
    <3> SUFFICES ASSUME loader.boot PROVE FALSE  OBVIOUS
    <3>1. history' = history  BY <2>2, <2>3, ZenonT(40) DEF SetRun
    <3> QED BY <3>1, Zenon DEF Starts
  <2>5. StartsIn(r, i, n, uptime') /\ \A j \in Slots : history'[j].end = r.history[j].end
    BY <1>1, <2>1, <2>2, <2>3, <2>4, ZenonT(40)
  <2> QED BY <1>3, <2>1, <2>2, <2>4, <2>5, ZenonT(40)
<1>4. ASSUME history'[i].start = history[i].start \/ history'[i].start = -1 PROVE FALSE
  BY <1>4, ZenonT(40) DEF Starts
<1>5. CASE iterate_handle_task_reload
  <2>1. loader.at = "idle" /\ uptime' \in Int /\ sch_num \in 0 .. RANGE
    BY <1>5, UptimesType, Zenon DEF iterate_handle_task_reload, IInv, LoadType
  <2> DEFINE reaped == Reap(Run, uptime')
             r == IF TRIGGER \in flags THEN TerminateAll(reaped) ELSE reaped
  <2>2. reaped \in RunType /\ Good(reaped, sch_num) /\ Reaped(Run, uptime', reaped)
    BY <2>1, ReapStep, ZenonT(40)
  <2>3. SetRun(r)  BY <1>5, Zenon DEF iterate_handle_task_reload
  <2> HIDE DEF reaped
  <2>4. r.history = reaped.history
    <3>1. Kept(reaped, TerminateAll(reaped))  BY <2>1, <2>2, TerminateAllGood, Zenon
    <3> QED BY <3>1, Zenon DEF Kept
  <2>5. history'[i].start = history[i].start
    BY <2>2, <2>3, <2>4, RunParts, ZenonT(40) DEF SetRun, Reaped
  <2> QED BY <1>4, <2>5, SMTT(30)
<1>6. CASE override_slot \/ read_slot
  <2>1. history' = history \/ \E s : SetSchedule(loader.i, s)
    BY <1>6, Zenon DEF override_slot, OverrideSlot, read_slot
  <2>2. CASE history' = history
    BY <1>4, <2>2, ZenonT(40)
  <2>3. ASSUME NEW s, SetSchedule(loader.i, s), history' # history PROVE FALSE
    <3>1. history \in [Slots -> Spans]  BY RunParts, Zenon DEF IInv, RunType
    <3>2. history' = [history EXCEPT ![loader.i] = [history[loader.i] EXCEPT !.start = -1]]
      BY <2>3, Zenon DEF SetSchedule
    <3>3. \A x \in Spans : [x EXCEPT !.start = -1].start = -1  BY SMTT(30) DEF Spans
    <3>4. history'[i] = history[i] \/ history'[i] = [history[i] EXCEPT !.start = -1]
      BY <3>1, <3>2, Zenon
    <3>5. history'[i].start = history[i].start \/ history'[i].start = -1
      BY <3>1, <3>3, <3>4, ZenonT(40)
    <3> QED BY <1>4, <3>5
  <2> QED BY <2>1, <2>2, <2>3, SMTT(30)
<1>7. CASE reboot
  <2>1. history' = Fresh.history  BY <1>7, Zenon DEF reboot, Booting, Fresh
  <2>2. history'[i].start = -1  BY <2>1, FreshGood, ZenonT(40)
  <2> QED BY <1>4, <2>2, SMTT(30)
<1>8. CASE UNCHANGED history
  BY <1>4, <1>8, Zenon
<1>9. ASSUME NEW j \in Slots, NEW value, kv_store_write(j, value) PROVE UNCHANGED history
  BY <1>9, Zenon DEF kv_store_write, CanWrite
<1>10. kv_store_write_id => UNCHANGED history  BY Zenon DEF kv_store_write_id, CanWrite
<1>11. kv_value_changed => UNCHANGED history  BY Zenon DEF kv_value_changed
<1>12. ASSUME NEW t \in Tasks, task_returns(t) PROVE UNCHANGED history  BY <1>12, Zenon DEF task_returns
<1>13. CASE UNCHANGED vars  BY <1>8, <1>13, ZenonT(40) DEF vars
<1>14. CASE Next
  <2>1. \/ iterate_evaluates \/ load_done \/ iterate_handle_task_reload \/ (override_slot \/ read_slot)
        \/ reboot \/ UNCHANGED history
    BY <1>9, <1>10, <1>11, <1>12, <1>14, Zenon DEF Next, Iterate
  <2> QED BY <1>2, <1>3, <1>5, <1>6, <1>7, <1>8, <2>1, ZenonT(40)
<1> QED BY <1>13, <1>14, SMTT(30)

\* No schedule has a periodicity that its validity makes the runner ignore
NoPermanent(periodicity) ==
    \A s \in Schedules : s.periodicity_type = periodicity => s.validity # TASK_VALID_PERMANENTLY_RUNS

\* What task_schedule_should_start asks of a schedule that follows another.
LEMMA AfterStarts ==
  ASSUME NoPermanent(TASK_PERIODICITY_AFTER), sch \in [Slots -> Schedules], NEW i \in Slots, NEW r, NEW now,
         NEW app_states, NEW soc, ToStart(r, i, now, app_states, soc),
         sch[i].periodicity_type = TASK_PERIODICITY_AFTER
  PROVE  /\ LinkedTerminate(r, i) # 0 /\ LinkedTerminate(r, i) + sch[i].after.duration_s = now
         /\ r.sch_states[i].task_idx # UINT8_MAX
<1>1. sch[i].validity # TASK_VALID_PERMANENTLY_RUNS  BY Zenon DEF NoPermanent
<1>2. task_schedule_should_start(sch[i], r.sch_states[i], LinkedTerminate(r, i), app_states,
                                 now, now + EpochOffset, soc)
  BY <1>1, ZenonT(40) DEF ToStart
<1>3. Periodicity(sch[i], r.sch_states[i], LinkedTerminate(r, i), now, now + EpochOffset, soc)
  BY <1>2, Zenon DEF task_schedule_should_start
<1>4. LinkedTerminate(r, i) # 0 /\ LinkedTerminate(r, i) + sch[i].after.duration_s = now
  <2> DEFINE l == LinkedTerminate(r, i)
             s == sch[i]
             state == r.sch_states[i]
  <2>1. Periodicity(s, state, l, now, now + EpochOffset, soc) /\ s.periodicity_type = 3
    BY <1>3, Zenon DEF TASK_PERIODICITY_AFTER
  <2> HIDE DEF l, s, state
  <2>2. l # 0 /\ l + s.after.duration_s = now
    BY <2>1, SMTT(30) DEF Periodicity, TASK_PERIODICITY_FIXED, TASK_PERIODICITY_LOCKOUT,
                TASK_PERIODICITY_LOCKOUT_DYNAMIC_BATTERY, TASK_PERIODICITY_AFTER
  <2> QED BY <2>2, ZenonT(40) DEF l, s
<1> QED BY <1>4, Zenon DEF ToStart

\* A schedule that follows another starts exactly as long after the true end of
\* the other one's run as it says, also when that run ended before schedules
\* were reloaded.
THEOREM AfterAlwaysRespected ==
  ASSUME NoPermanent(TASK_PERIODICITY_AFTER)
  PROVE  Spec => AfterRespected
<1>1. ASSUME IInv, [Next]_vars, NEW i \in Slots, Starts(i),
             sch[i].periodicity_type = TASK_PERIODICITY_AFTER
      PROVE  /\ sch[i].after.schedule_idx \in Slots
             /\ history'[sch[i].after.schedule_idx].end = uptime' - sch[i].after.duration_s
  <2> DEFINE k == sch[i].after.schedule_idx
             d == sch[i].after.duration_s
  <2>1. PICK r \in RunType, n \in 0 .. RANGE :
            /\ Good(r, n) /\ InUse(sch, r.sch_states, n) /\ StartsIn(r, i, n, uptime')
            /\ \A j \in Slots : history'[j].end = r.history[j].end
    BY <1>1, StartsWhen, Zenon
  <2>2. i \in 0 .. n - 1  BY <2>1, Zenon DEF StartsIn
  <2>3. sch \in [Slots -> Schedules]  BY <1>1, Zenon DEF IInv, LoadType
  <2>4. PICK app_states \in AppStates, soc \in Charges : ToStart(r, i, uptime', app_states, soc)
    BY <2>1, ZenonT(40) DEF StartsIn
  <2>5. /\ LinkedTerminate(r, i) # 0 /\ LinkedTerminate(r, i) + d = uptime'
        /\ r.sch_states[i].task_idx # UINT8_MAX
    BY <1>1, <2>3, <2>4, AfterStarts, Zenon
  <2>6. Suits(sch[i], r.sch_states[i])
    BY <2>1, <2>2, <2>5, ZenonT(40) DEF InUse
  <2>7. /\ r.sch_states[i].linked # UINT8_MAX
        /\ LinkedTerminate(r, i) = r.sch_states[r.sch_states[i].linked].last_terminate
    BY <2>5, Zenon DEF LinkedTerminate
  <2>8. k \in Slots /\ LinkedTerminate(r, i) = r.sch_states[k].last_terminate
    BY <2>6, <2>7, ZenonT(40) DEF Suits
  <2>9. history'[k].end = LinkedTerminate(r, i)
    BY <2>1, <2>5, <2>8, Zenon DEF Good, EndsGood
  <2>10. LinkedTerminate(r, i) \in Int
    <3>1. \A x \in RunType : \A j \in Slots : x.sch_states[j].last_terminate \in Int
      BY DEF RunType, States
    <3> QED BY <2>8, <3>1, ZenonT(40)
  <2>11. d \in Int
    <3>1. d \in Nat  BY <2>3, Defaults, Zenon
    <3> QED BY <3>1, SMTT(30)
  <2> HIDE DEF d, k
  <2>12. LinkedTerminate(r, i) = uptime' - d  BY <2>5, <2>10, <2>11, SMTT(30)
  <2> QED BY <2>8, <2>9, <2>12, Zenon DEF d, k
<1>2. IInv /\ [Next]_vars =>
        [\A i \in Slots :
            Starts(i) /\ sch[i].periodicity_type = TASK_PERIODICITY_AFTER =>
              /\ sch[i].after.schedule_idx \in Slots
              /\ history'[sch[i].after.schedule_idx].end = uptime' - sch[i].after.duration_s]_vars
  BY <1>1, Zenon
<1> QED BY <1>2, RunnerInvariant, PTL DEF Spec, AfterRespected

\* With no reload, the runner remembers the true start of every run, and
\* schedules are only loaded before the first one.
LockoutInv ==
    /\ flags \subseteq {RELOADING}
    /\ loader.at # "idle" => loader.boot /\ \A i \in Slots : history[i].start = -1
    /\ \A i \in Slots : history[i].start # -1 => sch_states[i].last_run = history[i].start

\* Every step other than a request to reload keeps it so.
LEMMA NextLockoutInv ==
  ASSUME IInv, LockoutInv, [Next]_vars, TRIGGER \notin flags'
  PROVE  LockoutInv'
<1>1. CASE UNCHANGED <<flags, loader, history, sch_states>>
  BY <1>1, Zenon DEF LockoutInv
<1>2. CASE iterate_evaluates
  <2>1. loader.at = "idle" /\ uptime' \in Int /\ sch_num \in 0 .. RANGE
    BY <1>2, UptimesType, Zenon DEF iterate_evaluates, IInv, LoadType
  <2> DEFINE r == Reap(Run, uptime')
  <2>2. r \in RunType /\ Good(r, sch_num) /\ InUse(sch, r.sch_states, sch_num) /\ Reaped(Run, uptime', r)
    BY <2>1, ReapStep, ZenonT(40)
  <2>3. Evaluate(r, sch_num, uptime')  BY <1>2, Zenon DEF iterate_evaluates
  <2> HIDE DEF r
  <2>4. PICK app_states \in AppStates, soc \in Charges :
               Evaluated(r, sch_num, uptime', app_states, soc, Run')
    BY <2>1, <2>2, <2>3, EvaluateStep, ZenonT(40)
  <2>5. ASSUME NEW i \in Slots, history'[i].start # -1
        PROVE  sch_states'[i].last_run = history'[i].start
    <3>1. /\ r.sch_states[i].last_run = sch_states[i].last_run
          /\ r.history[i].start = history[i].start
      BY <2>2, RunParts, Zenon DEF Reaped
    <3>2. \/ /\ sch_states'[i].last_run = r.sch_states[i].last_run
             /\ history'[i].start = r.history[i].start
          \/ sch_states'[i].last_run = uptime' /\ history'[i].start = uptime'
      BY <2>4, RunPartsNext, Zenon DEF Evaluated
    <3> QED BY <2>5, <3>1, <3>2, Zenon DEF LockoutInv
  <2>6. flags' = flags /\ loader' = loader  BY <1>2, Zenon DEF iterate_evaluates
  <2> QED BY <2>1, <2>5, <2>6, ZenonT(40) DEF LockoutInv
<1>3. CASE iterate_handle_task_reload
  <2>1. loader.at = "idle" /\ flags # {}  BY <1>3, Zenon DEF iterate_handle_task_reload
  <2>2. RELOADING \notin flags  BY <2>1, Zenon DEF IInv, LoaderInv
  <2> QED BY <2>1, <2>2, Zenon DEF LockoutInv
<1>4. ASSUME \A i \in Slots : history'[i].start = -1,
             flags' \subseteq {RELOADING}, loader'.boot \/ loader'.at = "idle"
      PROVE  LockoutInv'
  BY <1>4, ZenonT(40) DEF LockoutInv
<1>5. CASE override_slot \/ read_slot
  <2>1. loader.at # "idle" /\ loader \in Loaders /\ loader.i < RANGE /\ flags' = flags
    BY <1>5, ZenonT(40) DEF override_slot, OverrideSlot, read_slot, IInv, LoadType
  <2>2. loader.boot /\ \A i \in Slots : history[i].start = -1
    BY <2>1, Zenon DEF LockoutInv
  <2>3. loader'.boot
    <3>1. \E b \in BOOLEAN : NextSlot(b)
      <4>1. CASE override_slot
        BY <4>1, Zenon DEF override_slot, OverrideSlot
      <4>2. CASE read_slot
        <5>1. NextSlot((loader.i < default_num /\ Default(loader.i).locked) \/ kv[loader.i] # Missing)
          BY <4>2, Zenon DEF read_slot
        <5> QED BY <5>1, Zenon
      <4> QED BY <1>5, <4>1, <4>2
    <3> QED BY <2>1, <2>2, <3>1, NextSlotIs, Zenon
  <2>4. \A i \in Slots : history'[i].start = -1
    <3> SUFFICES ASSUME NEW i \in Slots, history'[i].start # -1 PROVE FALSE  BY SMTT(30)
    <3>1. Starts(i)  BY <2>2, Zenon DEF Starts
    <3>2. loader.at = "idle" \/ (load_done /\ ~loader.boot)
      BY <3>1, StartsWhen, ZenonT(40)
    <3> QED BY <2>1, <2>2, <3>2, SMTT(30)
  <2>5. flags' \subseteq {RELOADING}  BY <2>1, Zenon DEF LockoutInv
  <2> QED BY <1>4, <2>3, <2>4, <2>5, SMTT(30)
<1>6. CASE load_done
  <2>1. loader.at # "idle" /\ loader' = Idle /\ flags' = flags \ {RELOADING}
    BY <1>6, Zenon DEF load_done
  <2>2. loader.boot /\ \A i \in Slots : history[i].start = -1
    BY <2>1, ZenonT(40) DEF LockoutInv
  <2>3. \A i \in Slots : history'[i].start = -1
    <3> SUFFICES ASSUME NEW i \in Slots, history'[i].start # -1 PROVE FALSE  OBVIOUS
    <3>1. Starts(i)  BY <2>2, Zenon DEF Starts
    <3>2. loader.at = "idle" \/ (load_done /\ ~loader.boot)
      BY <3>1, StartsWhen, Zenon
    <3> QED BY <2>1, <2>2, <3>2, SMTT(30)
  <2>4. loader'.at = "idle"  BY <2>1, Zenon DEF Idle
  <2>5. flags' \subseteq {RELOADING}  BY <2>1, Zenon DEF LockoutInv
  <2> QED BY <1>4, <2>3, <2>4, <2>5, SMTT(30)
<1>7. CASE reboot
  <2>1. history' = Fresh.history /\ loader' = Loading(TRUE) /\ flags' = {RELOADING}
    BY <1>7, Zenon DEF reboot, Booting, Fresh
  <2>2. loader'.boot  BY <2>1, ZenonT(40) DEF Loading
  <2> QED BY <1>4, <2>1, <2>2, FreshGood, ZenonT(40)
<1>8. CASE kv_value_changed
  <2>1. flags' = flags \/ flags' = flags \cup {TRIGGER}  BY <1>8, Zenon DEF kv_value_changed
  <2>2. flags' = flags  BY <2>1, Zenon
  <2> QED BY <1>1, <1>8, <2>2, Zenon DEF kv_value_changed
<1>9. ASSUME NEW j \in Slots, NEW value, kv_store_write(j, value) PROVE LockoutInv'
  BY <1>1, <1>9, ZenonT(40) DEF kv_store_write, CanWrite
<1>10. CASE kv_store_write_id  BY <1>1, <1>10, Zenon DEF kv_store_write_id, CanWrite
<1>11. ASSUME NEW t \in Tasks, task_returns(t) PROVE LockoutInv'  BY <1>1, <1>11, Zenon DEF task_returns
<1>12. CASE UNCHANGED vars  BY <1>1, <1>12, Zenon DEF vars
<1> QED BY <1>2, <1>3, <1>5, <1>6, <1>7, <1>8, <1>9, <1>10, <1>11, <1>12, ZenonT(40) DEF Next, Iterate

\* No schedule with a lockout may skip it the first time
NoIgnoreFirst == \A s \in Schedules : s.periodicity_type = TASK_PERIODICITY_LOCKOUT => ~s.ignore_first

\* What task_schedule_should_start asks of a schedule with a lockout.
LEMMA LockoutStarts ==
  ASSUME NoPermanent(TASK_PERIODICITY_LOCKOUT), NoIgnoreFirst, sch \in [Slots -> Schedules],
         NEW i \in Slots, NEW r, NEW now, NEW app_states, NEW soc, ToStart(r, i, now, app_states, soc),
         sch[i].periodicity_type = TASK_PERIODICITY_LOCKOUT
  PROVE  now - r.sch_states[i].last_run >= sch[i].lockout_s
<1>1. sch[i].validity # TASK_VALID_PERMANENTLY_RUNS /\ ~sch[i].ignore_first
  BY Zenon DEF NoPermanent, NoIgnoreFirst
<1>2. task_schedule_should_start(sch[i], r.sch_states[i], LinkedTerminate(r, i), app_states,
                                 now, now + EpochOffset, soc)
  BY <1>1, Zenon DEF ToStart
<1>3. Periodicity(sch[i], r.sch_states[i], LinkedTerminate(r, i), now, now + EpochOffset, soc)
  BY <1>2, Zenon DEF task_schedule_should_start
<1> DEFINE l == LinkedTerminate(r, i)
           s == sch[i]
           state == r.sch_states[i]
<1>4. Periodicity(s, state, l, now, now + EpochOffset, soc) /\ s.periodicity_type = 2 /\ ~s.ignore_first
  BY <1>1, <1>3, Zenon DEF TASK_PERIODICITY_LOCKOUT
<1> HIDE DEF l, s, state
<1>5. now - state.last_run >= s.lockout_s
  BY <1>4 DEF Periodicity, TASK_PERIODICITY_FIXED, TASK_PERIODICITY_LOCKOUT,
              TASK_PERIODICITY_LOCKOUT_DYNAMIC_BATTERY, TASK_PERIODICITY_AFTER
<1> QED BY <1>5, Zenon DEF s, state

\* As long as no reload is asked for, a schedule with a lockout starts at least
\* that many seconds after its previous run started, however late iterations
\* come and whenever the device restarts.
THEOREM LockoutAlwaysRespected ==
  ASSUME NoPermanent(TASK_PERIODICITY_LOCKOUT), NoIgnoreFirst
  PROVE  Spec /\ [](TRIGGER \notin flags) => LockoutRespected
<1>1. Init => LockoutInv
  <2> SUFFICES ASSUME Init PROVE LockoutInv  OBVIOUS
  <2>1. history = Fresh.history /\ loader = Loading(TRUE) /\ flags = {RELOADING}
    BY Zenon DEF Init, Fresh
  <2>2. loader.boot  BY <2>1, Zenon DEF Loading
  <2> QED BY <2>1, <2>2, FreshGood, Zenon DEF LockoutInv
<1>2. IInv /\ LockoutInv /\ [Next]_vars /\ (TRIGGER \notin flags)' => LockoutInv'
  BY NextLockoutInv
<1>3. ASSUME IInv, LockoutInv, [Next]_vars, NEW i \in Slots, Starts(i), history[i].start # -1,
             sch[i].periodicity_type = TASK_PERIODICITY_LOCKOUT
      PROVE  uptime' - history[i].start >= sch[i].lockout_s
  <2>1. PICK r \in RunType, n \in 0 .. RANGE :
            /\ StartsIn(r, i, n, uptime')
            /\ \/ loader.at = "idle" /\ Reaped(Run, uptime', r)
               \/ load_done /\ ~loader.boot
    BY <1>3, StartsWhen, Zenon
  <2>2. Reaped(Run, uptime', r)
    BY <1>3, <2>1, ZenonT(40) DEF LockoutInv, load_done
  <2>3. r.sch_states[i].last_run = history[i].start
    BY <1>3, <2>2, RunParts, ZenonT(40) DEF Reaped, LockoutInv
  <2>4. PICK app_states \in AppStates, soc \in Charges : ToStart(r, i, uptime', app_states, soc)
    BY <2>1, Zenon DEF StartsIn
  <2>5. sch \in [Slots -> Schedules]  BY <1>3, Zenon DEF IInv, LoadType
  <2>6. uptime' - r.sch_states[i].last_run >= sch[i].lockout_s
    BY <1>3, <2>4, <2>5, LockoutStarts, ZenonT(40)
  <2> QED BY <2>3, <2>6, Zenon
<1>4. IInv /\ LockoutInv /\ [Next]_vars =>
        [\A i \in Slots :
            /\ Starts(i)
            /\ sch[i].periodicity_type = TASK_PERIODICITY_LOCKOUT
            /\ history[i].start # -1
            => uptime' - history[i].start >= sch[i].lockout_s]_vars
  BY <1>3, Zenon
<1> QED BY <1>1, <1>2, <1>4, RunnerInvariant, PTL DEF Spec, LockoutRespected
=============================================================================
