---------------------------- MODULE TaskSchedule ----------------------------
(***************************************************************************)
(* When a task schedule lets its task start and when it makes it stop:     *)
(* the functions of subsys/task_runner/schedule.c.                         *)
(*                                                                         *)
(* A schedule is a record with the fields of struct task_schedule that     *)
(* those functions read.  The lock bit of validity and the                 *)
(* TASK_RUNNER_LOCKOUT_IGNORE_FIRST bit of lockout_s are fields of their   *)
(* own, locked and ignore_first.  Application states are sets of the       *)
(* numbers of the states that are set.                                     *)
(***************************************************************************)
EXTENDS Integers

\* enum task_runner_valid_type, without the TASK_LOCKED bit
TASK_VALID_ALWAYS == 1
TASK_VALID_ACTIVE == 2
TASK_VALID_INACTIVE == 3
TASK_VALID_PERMANENTLY_RUNS == 4
_TASK_VALID_END == 5

\* enum task_runner_periodicity_type; zero is a schedule with no periodicity
TASK_PERIODICITY_FIXED == 1
TASK_PERIODICITY_LOCKOUT == 2
TASK_PERIODICITY_AFTER == 3
TASK_PERIODICITY_LOCKOUT_DYNAMIC_BATTERY == 4
_TASK_PERIODICITY_END == 5

\* The application states schedules are tied to by name
INFUSE_STATE_REBOOTING == 1
INFUSE_STATE_APPLICATION_ACTIVE == 2

SEC_PER_MIN == 60

\* Up to four states, cut at the first zero; invert and or are the indices
\* (from 1) whose metadata bits are set.
Conditions == [states : [1..4 -> Nat], invert : SUBSET (1..4), or : SUBSET (1..4)]

NoConditions == [states |-> <<0, 0, 0, 0>>, invert |-> {}, or |-> {}]

\* The all-zero schedule memset() leaves in an unused slot
ZeroSchedule ==
    [task_id |-> 0, validity |-> 0, locked |-> FALSE, periodicity_type |-> 0,
     boot_lockout_minutes |-> 0, timeout_s |-> 0,
     battery_start |-> [lower |-> 0, upper |-> 0],
     battery_terminate |-> [lower |-> 0, upper |-> 0],
     period_s |-> 0,
     lockout_s |-> 0, ignore_first |-> FALSE,
     after |-> [schedule_idx |-> 0, duration_s |-> 0],
     dynamic |-> [lockout_min |-> 0, lockout_max |-> 0, battery_min |-> 0, battery_max |-> 0],
     states_start_timeout_2x_s |-> 0,
     states_start |-> NoConditions, states_terminate |-> NoConditions]

-----------------------------------------------------------------------------

\* The states of a condition that are looked at: the loop stops at a zero.
Listed(conds) == {i \in 1..4 : \A j \in 1..i : conds.states[j] # 0}

\* The value of the i-th listed state, inverted if asked for
Literal(conds, app_states, i) ==
    (conds.states[i] \in app_states) # (i \in conds.invert)

\* The loop started from TRUE, without cancelling an OR on the first state
FoldStates_from_true(conds, app_states) ==
    LET result[i \in 0..4] ==
            IF i = 0 THEN TRUE
            ELSE IF i \notin Listed(conds) THEN result[i - 1]
            ELSE IF i \in conds.or THEN result[i - 1] \/ Literal(conds, app_states, i)
                                   ELSE result[i - 1] /\ Literal(conds, app_states, i)
    IN  result[4]

\* The result of the loop after every state
FoldStates(conds, app_states) ==
    LET result[i \in 0..4] ==
            IF i = 0 THEN 1 \notin conds.or
            ELSE IF i \notin Listed(conds) THEN result[i - 1]
            ELSE IF i \in conds.or THEN result[i - 1] \/ Literal(conds, app_states, i)
                                   ELSE result[i - 1] /\ Literal(conds, app_states, i)
    IN  result[4]

task_schedule_states_eval(conds, app_states, fallthrough) ==
    IF conds.states[1] = 0 THEN fallthrough ELSE FoldStates(conds, app_states)

-----------------------------------------------------------------------------

\* Both thresholds given and the wrong way round
Crossed(thresholds) ==
    thresholds.lower # 0 /\ thresholds.upper # 0 /\ thresholds.upper <= thresholds.lower

task_schedule_validate(s) ==
    /\ s.validity \in 1 .. _TASK_VALID_END - 1
    /\ s.periodicity_type < _TASK_PERIODICITY_END
    /\ s.periodicity_type = TASK_PERIODICITY_FIXED => s.period_s # 0
    /\ s.periodicity_type = TASK_PERIODICITY_LOCKOUT => s.lockout_s # 0 \/ s.ignore_first
    /\ s.periodicity_type = TASK_PERIODICITY_LOCKOUT_DYNAMIC_BATTERY =>
          /\ s.dynamic.battery_min < s.dynamic.battery_max
          /\ s.dynamic.lockout_min # 0
          /\ s.dynamic.lockout_max # 0
    /\ \A t \in {s.battery_start, s.battery_terminate} :
          t.lower <= 100 /\ t.upper <= 100 /\ ~Crossed(t)

-----------------------------------------------------------------------------

\* C's division, towards zero
Quotient(a, b) == IF a >= 0 THEN a \div b ELSE -((-a) \div b)

math_2d_linear_interpolate_fast(x0, x1, y0, y1, x) ==
    y0 + Quotient((y1 - y0) * (x - x0), x1 - x0)

\* The slope of the lockout upside down
DynamicLockout_inverted(d, soc) ==
    CASE soc <= d.battery_min -> d.lockout_min
      [] soc >= d.battery_max -> d.lockout_max
      [] OTHER -> math_2d_linear_interpolate_fast(d.battery_min, d.battery_max,
                                                  d.lockout_max, d.lockout_min, soc)

\* The lockout of TASK_PERIODICITY_LOCKOUT_DYNAMIC_BATTERY at a charge
DynamicLockout(d, soc) ==
    CASE soc <= d.battery_min -> d.lockout_min
      [] soc >= d.battery_max -> d.lockout_max
      [] OTHER -> math_2d_linear_interpolate_fast(d.battery_min, d.battery_max,
                                                  d.lockout_min, d.lockout_max, soc)

\* The validity of a schedule against INFUSE_STATE_APPLICATION_ACTIVE
ValidNow(s, app_states) ==
    /\ s.validity = TASK_VALID_ACTIVE => INFUSE_STATE_APPLICATION_ACTIVE \in app_states
    /\ s.validity = TASK_VALID_INACTIVE => INFUSE_STATE_APPLICATION_ACTIVE \notin app_states

\* A schedule may run any time after the one it is linked to
Periodicity_any_time_after(s, state, linked, uptime, epoch_time, soc) ==
    s.periodicity_type = TASK_PERIODICITY_AFTER => linked # 0 /\ linked + s.after.duration_s <= uptime

\* Whether the periodicity of a schedule lets it start.  state is the
\* task_schedule_state of the schedule and linked the last_terminate of the
\* schedule it is linked to, zero when there is none.
Periodicity(s, state, linked, uptime, epoch_time, soc) ==
    LET since_last_run == uptime - state.last_run
    IN  CASE s.periodicity_type = TASK_PERIODICITY_FIXED ->
                epoch_time % s.period_s = 0
          [] s.periodicity_type = TASK_PERIODICITY_LOCKOUT ->
                \/ since_last_run >= s.lockout_s
                \/ s.ignore_first /\ state.last_run = 0 /\ uptime # 0
          [] s.periodicity_type = TASK_PERIODICITY_LOCKOUT_DYNAMIC_BATTERY ->
                since_last_run >= DynamicLockout(s.dynamic, soc)
          [] s.periodicity_type = TASK_PERIODICITY_AFTER ->
                linked # 0 /\ linked + s.after.duration_s = uptime
          [] OTHER -> TRUE

task_schedule_should_start(s, state, linked, app_states, uptime, epoch_time, soc) ==
    /\ INFUSE_STATE_REBOOTING \notin app_states
    /\ ValidNow(s, app_states)
    /\ \/ s.boot_lockout_minutes = 0
       \/ uptime \div SEC_PER_MIN >= s.boot_lockout_minutes
    /\ Periodicity(s, state, linked, uptime, epoch_time, soc)
    /\ s.battery_start.lower = 0 \/ soc >= s.battery_start.lower
    /\ s.battery_start.upper = 0 \/ soc <= s.battery_start.upper
    /\ \/ /\ s.states_start_timeout_2x_s # 0
          /\ uptime - state.last_run >= 2 * s.states_start_timeout_2x_s
       \/ task_schedule_states_eval(s.states_start, app_states, TRUE)

task_schedule_should_terminate(s, state, app_states, soc) ==
    \/ INFUSE_STATE_REBOOTING \in app_states
    \/ ~ValidNow(s, app_states)
    \/ s.timeout_s # 0 /\ state.runtime >= s.timeout_s
    \/ s.battery_terminate.lower # 0 /\ soc <= s.battery_terminate.lower
    \/ s.battery_terminate.upper # 0 /\ soc >= s.battery_terminate.upper
    \/ task_schedule_states_eval(s.states_terminate, app_states, FALSE)

=============================================================================
