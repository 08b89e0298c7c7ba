---------------------------- MODULE MCTaskRunner ----------------------------
(***************************************************************************)
(* Small instances of the task runner, and what the functions of           *)
(* TaskSchedule compute, over every small input.                           *)
(***************************************************************************)
EXTENDS TaskRunner

Always(id) == [ZeroSchedule EXCEPT !.task_id = id, !.validity = TASK_VALID_ALWAYS]

\* Task 11, ended after a second
Short == [Always(11) EXCEPT !.timeout_s = 1]

\* Task 11, at most every two seconds
Lockout == [Always(11) EXCEPT !.periodicity_type = TASK_PERIODICITY_LOCKOUT, !.lockout_s = 2]

\* Task 12, a second after the schedule in slot i terminated
After(i) == [Always(12) EXCEPT !.periodicity_type = TASK_PERIODICITY_AFTER,
                               !.after = [schedule_idx |-> i, duration_s |-> 1]]

\* Task 12, whenever the application is active
Active == [Always(12) EXCEPT !.validity = TASK_VALID_ACTIVE]

Permanent == [Always(12) EXCEPT !.validity = TASK_VALID_PERMANENTLY_RUNS]

\* Task 11, which may not be replaced, also with a lockout
Locked == [Always(11) EXCEPT !.locked = TRUE, !.timeout_s = 2]
LockedLockout == [Lockout EXCEPT !.locked = TRUE]

\* A task that does not exist, and a schedule that is not valid
Unknown == Always(99)
Invalid == [Always(11) EXCEPT !.periodicity_type = TASK_PERIODICITY_FIXED]

TwoTasks == <<11, 12>>

DefaultInvalid == <<LockedLockout, Invalid>>
DefaultOne == <<Short>>
DefaultLockedOne == <<Locked>>

WrittenMixed == {Short, Unknown, After(0)}
WrittenActive == {Unknown, Active}
WrittenAny == {Short, Permanent}

NoStates == {{}}
ActiveOrNot == {{}, {INFUSE_STATE_APPLICATION_ACTIVE}}
ActiveOrRebooting == {{INFUSE_STATE_APPLICATION_ACTIVE}, {INFUSE_STATE_REBOOTING}}

-----------------------------------------------------------------------------
\* Every condition over two application states, and every valid schedule with a
\* battery dependent lockout between 1 and 13 seconds.
ConditionStates == {3, 4}
StateConditions ==
    [states : [1..4 -> {0} \cup ConditionStates], invert : SUBSET (1..4), or : SUBSET (1..4)]

MaxCharge == 8
DynamicLockouts ==
    {d \in [lockout_min : {1, 2, 5, 10, 13}, lockout_max : {1, 2, 5, 10, 13},
            battery_min : 0..MaxCharge, battery_max : 0..MaxCharge] :
        task_schedule_validate(
            [Always(11) EXCEPT !.periodicity_type = TASK_PERIODICITY_LOCKOUT_DYNAMIC_BATTERY,
                               !.dynamic = d])}

\* The functions do not read the state: once per boot is enough to evaluate them.
BeforeLoading == loader = Loading(TRUE) /\ writes = 0

\* (((S0 OP S1) OP S2) OP S3) as TASK_STATES_DEFINE describes it, without the
\* running result the loop of task_schedule_states_eval keeps: some listed
\* state that is first or comes with TR_OR holds, and so does every later
\* state that comes without TR_OR.  A TR_OR on the first state changes nothing.
StatesEvalAsDocumented ==
    BeforeLoading =>
        \A c \in StateConditions, app_states \in SUBSET ConditionStates :
            LET listed == Listed(c)
                Holds(i) == Literal(c, app_states, i)
            IN  listed # {} =>
                    \A fallthrough \in BOOLEAN :
                        task_schedule_states_eval(c, app_states, fallthrough) =
                            \E i \in listed :
                                /\ i = 1 \/ i \in c.or
                                /\ Holds(i)
                                /\ \A j \in listed : j > i /\ j \notin c.or => Holds(j)

\* "Lockout scales linearly between lockout_min and lockout_max when battery
\* is between battery_min and battery_max": the truncated interpolation of
\* task_schedule_should_start is never a second off the line, stays between
\* the two lockouts, and is lockout_min and lockout_max at the ends.
LockoutOnTheLine ==
    BeforeLoading =>
        \A d \in DynamicLockouts, soc \in 0..MaxCharge :
            LET v == DynamicLockout(d, soc)
                lo == IF d.lockout_min <= d.lockout_max THEN d.lockout_min ELSE d.lockout_max
                hi == d.lockout_min + d.lockout_max - lo
                width == d.battery_max - d.battery_min
                exact == d.lockout_min * (d.battery_max - soc)
                         + d.lockout_max * (soc - d.battery_min)
            IN  /\ v \in lo..hi
                /\ soc <= d.battery_min => v = d.lockout_min
                /\ soc >= d.battery_max => v = d.lockout_max
                /\ soc \in d.battery_min..d.battery_max =>
                      v * width - exact \in 1 - width .. width - 1

=============================================================================
