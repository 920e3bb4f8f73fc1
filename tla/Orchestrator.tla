------------------------------- MODULE Orchestrator -------------------------------
(***************************************************************************)
(* test_orchestrator.py: runs the requested test cases one after another.  *)
(* A timer drives it; /cmd_vel and the parameter callback come in between, *)
(* all of them in one executor, so that each callback is one step.  What   *)
(* ends the process is not: a one-shot timer starts a thread that shuts    *)
(* rclpy down while callbacks may still run.                               *)
(*                                                                         *)
(* Time is counted in calls of the timer.  Where the vehicle is on the     *)
(* path is reduced to whether it is at the end; whether it moves depends on the last   *)
(* command.  Publications are recorded as the number of the case (n) that  *)
(* the newest message of the topic belongs to.                             *)
(***************************************************************************)
EXTENDS Naturals, Sequences

CONSTANTS
    CaseIds,      \* test cases
    Custom,       \* the case of a custom path
    Dynamic,      \* the cases whose path shifts while they run (TC-10)
    Tests,        \* values of the parameter test_case: lists of cases, or Invalid
    Invalid,      \* a test_case with an unknown id
    Duration,     \* duration_s of a case
    Timeouts,     \* values of global_timeout_s
    ShiftTime,    \* when the path of a dynamic case shifts
    MaxChanges,   \* how often a request is replaced (a bound)
    None

Max2(a, b) == IF a >= b THEN a ELSE b

ASSUME OrchestratorAssumption ==
    /\ Custom \in CaseIds /\ Dynamic \subseteq CaseIds /\ None \notin CaseIds
    /\ Tests \subseteq Seq(CaseIds) \cup {Invalid}
    /\ Invalid \notin Seq(CaseIds)
    /\ Duration \in [CaseIds -> Nat \ {0}] /\ Timeouts \subseteq Nat
    /\ ShiftTime \in Nat /\ MaxChanges \in Nat

VARIABLES
    tests, custom, globalTimeout,   \* parameters; custom path: "none", "valid", "malformed"
    queue, case, completed,         \* case_queue, current_case_id, completed_cases
    elapsed,                        \* case_elapsed_s
    at, cmd,                        \* vehicle_pose on the path, current_cmd
    shifted,                        \* dynamic_event_triggered
    finished,                       \* finished
    timer,                          \* the node's timer is not cancelled
    shutdown,                       \* shutdown_timer: "none", "armed", "called"
    process,                        \* "unborn", "starting", "running", "blocked", "down"
    n, odom,                        \* the case the newest case id and path, and odometry, are of
    latched,                        \* the newest path: its case, and whether it is the shifted one
    changes,                        \* counts the replaced requests
    failed, late                    \* history: a request was rejected; one came after the end

parameters == <<tests, custom, globalTimeout>>
mission    == <<queue, case, completed, elapsed, at, cmd, shifted, n, latched>>
ending     == <<finished, timer, shutdown, process, failed, late>>
orchestratorVars == <<parameters, mission, ending, odom, changes>>

Init ==
    /\ tests \in Tests /\ custom \in {"none", "valid", "malformed"}
    /\ globalTimeout \in Timeouts
    /\ queue = <<>> /\ case = None /\ completed = <<>> /\ elapsed = 0
    /\ at = "way" /\ cmd = "stop" /\ shifted = FALSE
    /\ finished = FALSE /\ timer = TRUE /\ shutdown = "none" /\ process = "unborn"
    /\ n = 0 /\ odom = 0 /\ latched = None
    /\ changes = 0 /\ failed = FALSE /\ late = FALSE

----------------------------------------------------------------------------
\* A custom path takes priority over the list of tests.
Rejected(t, c)  == c = "malformed" \/ (c = "none" /\ t = Invalid)
Requested(t, c) == IF c = "valid" THEN <<Custom>> ELSE t

\* _start_next_case with a case left in q.
BeginCase(q, done) ==
    /\ queue' = Tail(q) /\ case' = Head(q) /\ completed' = done
    /\ n' = n + 1 /\ latched' = <<Head(q), FALSE>>
    /\ at' = "way" /\ cmd' = "stop" /\ shifted' = FALSE /\ elapsed' = 0
    /\ finished' = FALSE
    /\ UNCHANGED <<timer, shutdown>>

\* Mutant of FinishSequence: the timer is cancelled, but nothing ends the process.
FinishSequenceArmsNothing(done) ==
    /\ queue' = <<>> /\ completed' = done
    /\ finished' = TRUE /\ timer' = FALSE
    /\ UNCHANGED <<n, shutdown>>

\* _finish_sequence.
FinishSequence(done) ==
    /\ queue' = <<>> /\ completed' = done
    /\ finished' = TRUE /\ timer' = FALSE
    /\ shutdown' = IF shutdown = "none" THEN "armed" ELSE shutdown
    /\ UNCHANGED n

\* _fail_and_shutdown calls rclpy.shutdown() where it is.  In the constructor nothing
\* spins yet and the process ends.  In the parameter callback the call may wait for
\* the executor that waits for the callback ("avoid deadlocking the rclpy executor
\* (do NOT call rclpy.shutdown() here directly)", says _finish_sequence): then no
\* callback ever runs again.
FailAndShutdown ==
    /\ finished' = TRUE /\ timer' = FALSE /\ failed' = TRUE
    /\ \/ process' = "down"
       \/ process = "running" /\ process' = "blocked"
    /\ UNCHANGED <<mission, shutdown, late>>

\* Mutant of InitializeQueue: completed_cases is not emptied.
InitializeQueueKeepsCompleted(t, c) ==
    \/ Rejected(t, c) /\ FailAndShutdown
    \/ /\ ~Rejected(t, c)
       /\ process' = "running" /\ late' = (late \/ finished) /\ UNCHANGED failed
       /\ \/ Requested(t, c) # <<>> /\ BeginCase(Requested(t, c), completed)
          \/ /\ Requested(t, c) = <<>> /\ FinishSequence(completed)
             /\ case' = None /\ elapsed' = 0 /\ at' = "way" /\ cmd' = "stop"
             /\ shifted' = FALSE /\ UNCHANGED latched

\* _initialize_case_queue: everything starts anew with the first case requested.
InitializeQueue(t, c) ==
    \/ Rejected(t, c) /\ FailAndShutdown
    \/ /\ ~Rejected(t, c)
       /\ process' = "running" /\ late' = (late \/ finished) /\ UNCHANGED failed
       /\ \/ Requested(t, c) # <<>> /\ BeginCase(Requested(t, c), <<>>)
          \/ /\ Requested(t, c) = <<>> /\ FinishSequence(<<>>)
             /\ case' = None /\ elapsed' = 0 /\ at' = "way" /\ cmd' = "stop"
             /\ shifted' = FALSE /\ UNCHANGED latched

\* The launch system starts the process (external).
Launched ==
    /\ process = "unborn" /\ process' = "starting"
    /\ UNCHANGED <<parameters, mission, finished, timer, shutdown, failed, late, odom, changes>>

\* __init__
Construct ==
    /\ process = "starting"
    /\ InitializeQueue(tests, custom)
    /\ UNCHANGED <<parameters, odom, changes>>

----------------------------------------------------------------------------
(* parameters_callback: while rclpy is not shut down, finished or not.      *)

SetRequest(t, c) ==
    /\ process = "running" /\ changes < MaxChanges
    /\ tests' = t /\ custom' = c
    /\ t # tests => c = custom        \* one parameter at a time
    /\ InitializeQueue(t, c)
    /\ changes' = changes + 1
    /\ UNCHANGED <<globalTimeout, odom>>

SetGlobalTimeout(s) ==
    /\ process = "running"
    /\ globalTimeout' = s
    /\ UNCHANGED <<tests, custom, mission, ending, odom, changes>>

\* publish_rate_hz: the timer is replaced by one that runs.
SetPublishRate ==
    /\ process = "running"
    /\ timer' = TRUE
    /\ UNCHANGED <<parameters, mission, finished, shutdown, process, failed, late, odom, changes>>

\* cmd_callback: whatever the controller sent, for whichever case.
CmdCallback(c) ==
    /\ process = "running"
    /\ cmd' = c
    /\ UNCHANGED <<parameters, queue, case, completed, elapsed, at, shifted, n, latched,
                   ending, odom, changes>>

----------------------------------------------------------------------------
(* timer_callback.  (Its branch for current_case_id None is never taken: as *)
(* long as the timer runs and nothing is finished, there is a case.)        *)

Ticking == process = "running" /\ timer /\ ~finished /\ case # None

\* _update_kinematics; where the path shifts, its end may move away.
Moved(where) == cmd = "stop" => where = at

Shifts == case \in Dynamic /\ elapsed + 1 >= ShiftTime /\ ~shifted

\* Mutant of TimeIsUp: the deadline is compared for equality.
TimeIsUpExactly == elapsed + 1 = Max2(globalTimeout, Duration[case])

\* The case has run for the longer of the two limits.
TimeIsUp == elapsed + 1 >= Max2(globalTimeout, Duration[case])

\* Mutant of CaseGoesOn: the shifted path is not published.
CaseGoesOnSilently(where) ==
    /\ Ticking /\ (Moved(where) \/ Shifts)
    /\ where # "end" /\ ~TimeIsUp
    /\ elapsed' = elapsed + 1 /\ at' = where
    /\ shifted' = (shifted \/ Shifts) /\ odom' = n
    /\ UNCHANGED <<parameters, queue, case, completed, cmd, n, latched, ending, changes>>

\* Neither is the end of the path reached nor the time up: the state is published,
\* and the path every second, though nothing about it is new then.
CaseGoesOn(where) ==
    /\ Ticking /\ (Moved(where) \/ Shifts)
    /\ where # "end" /\ ~TimeIsUp
    /\ elapsed' = elapsed + 1 /\ at' = where
    /\ shifted' = (shifted \/ Shifts)
    /\ latched' = IF Shifts THEN <<case, TRUE>> ELSE latched
    /\ odom' = n
    /\ UNCHANGED <<parameters, queue, case, completed, cmd, n, ending, changes>>

\* Mutant of CaseEnds: the callback does not look at finished.
CaseEndsAgain(where) ==
    /\ process = "running" /\ timer /\ case # None /\ (Moved(where) \/ Shifts)
    /\ where = "end" \/ TimeIsUp
    /\ \/ queue # <<>> /\ BeginCase(queue, Append(completed, case))
       \/ /\ queue = <<>> /\ FinishSequence(Append(completed, case))
          /\ elapsed' = elapsed + 1 /\ at' = where
          /\ shifted' = (shifted \/ Shifts)
          /\ latched' = IF Shifts THEN <<case, TRUE>> ELSE latched
          /\ UNCHANGED <<case, cmd>>
    /\ UNCHANGED <<parameters, process, failed, late, odom, changes>>

\* The end is reached or the time is up, and the next case starts in the same call.
CaseEnds(where) ==
    /\ Ticking /\ (Moved(where) \/ Shifts)
    /\ where = "end" \/ TimeIsUp
    /\ \/ queue # <<>> /\ BeginCase(queue, Append(completed, case))
       \/ /\ queue = <<>> /\ FinishSequence(Append(completed, case))
          /\ elapsed' = elapsed + 1 /\ at' = where
          /\ shifted' = (shifted \/ Shifts)
          /\ latched' = IF Shifts THEN <<case, TRUE>> ELSE latched
          /\ UNCHANGED <<case, cmd>>
    /\ UNCHANGED <<parameters, process, failed, late, odom, changes>>

----------------------------------------------------------------------------
\* _shutdown_callback: it starts the thread that is going to shut down rclpy.
ShutdownCallback ==
    /\ process = "running" /\ shutdown = "armed"
    /\ shutdown' = "called"
    /\ UNCHANGED <<parameters, mission, finished, timer, process, failed, late, odom, changes>>

\* rclpy.shutdown() in that thread: spin returns and the process ends.
ShutdownThread ==
    /\ process = "running" /\ shutdown = "called"
    /\ process' = "down"
    /\ UNCHANGED <<parameters, mission, finished, timer, shutdown, failed, late, odom, changes>>

----------------------------------------------------------------------------
Places == {"way", "end"}

Tick == \E where \in Places : CaseGoesOn(where) \/ CaseEnds(where)

SetParameters ==
    \/ \E t \in Tests, c \in {"none", "valid", "malformed"} : SetRequest(t, c)
    \/ \E s \in Timeouts : SetGlobalTimeout(s)
    \/ SetPublishRate

RunCase == Tick \/ \E c \in {"stop", "drive"} : CmdCallback(c)

Next ==
    \/ Launched \/ Construct \/ SetParameters \/ RunCase
    \/ ShutdownCallback \/ ShutdownThread

Spec == Init /\ [][Next]_orchestratorVars

\* The executor runs the timers and the thread gets its turn.
Fairness ==
    /\ WF_orchestratorVars(Construct) /\ WF_orchestratorVars(Tick)
    /\ WF_orchestratorVars(ShutdownCallback) /\ WF_orchestratorVars(ShutdownThread)

----------------------------------------------------------------------------
(* Properties                                                               *)

\* Types; a case never runs for longer than the longest limit there is, whenever
\* global_timeout_s is lowered or raised.
TypeOK ==
    /\ tests \in Tests /\ custom \in {"none", "valid", "malformed"}
    /\ globalTimeout \in Timeouts
    /\ queue \in Seq(CaseIds) /\ completed \in Seq(CaseIds)
    /\ case \in CaseIds \cup {None}
    /\ elapsed \in Nat
    /\ \E s \in Timeouts \cup {Duration[c] : c \in CaseIds} : elapsed <= s
    /\ at \in Places /\ cmd \in {"stop", "drive"}
    /\ {shifted, finished, timer, failed, late} \subseteq BOOLEAN
    /\ shutdown \in {"none", "armed", "called"}
    /\ process \in {"unborn", "starting", "running", "blocked", "down"}
    /\ n \in Nat /\ odom \in 0..n /\ changes \in 0..MaxChanges
    /\ latched \in (CaseIds \X BOOLEAN) \cup {None}

Running == IF case = None \/ finished THEN <<>> ELSE <<case>>

\* No case of the request is lost, run twice or run out of order, whenever
\* parameters change, timers are replaced or the sequence is finished: what is
\* done, what is running and what is left add up to the request.
CasesAccounted ==
    process \in {"running", "down"} /\ ~failed =>
        Requested(tests, custom) = completed \o Running \o queue

\* /path is latched and of depth 1: whoever subscribes, early or late, gets the
\* path the running case is judged by.
PathLatched ==
    process = "running" /\ case # None => latched = <<case, shifted>>

\* The process does not end before every case requested is completed, unless a
\* request is rejected or comes when the shutdown is already under way.
RequestServed ==
    process = "down" /\ ~failed /\ ~late =>
        finished /\ completed = Requested(tests, custom)
----------------------------------------------------------------------------
(* The inductive invariant behind CasesAccounted and RequestServed.         *)

Typed ==
    /\ tests \in Tests /\ custom \in {"none", "valid", "malformed"}
    /\ queue \in Seq(CaseIds) /\ completed \in Seq(CaseIds)
    /\ case \in CaseIds \cup {None}
    /\ finished \in BOOLEAN /\ failed \in BOOLEAN /\ late \in BOOLEAN

\* What ends the process, and what may have happened before it ends.
EndingSound ==
    /\ process \in {"unborn", "starting"} => ~finished /\ ~failed /\ shutdown = "none"
    /\ failed => process \in {"blocked", "down"}
    /\ process = "blocked" => failed
    /\ process \in {"running", "down"} /\ ~failed => ~Rejected(tests, custom)
    /\ finished /\ ~failed => queue = <<>>
    /\ shutdown # "none" /\ ~failed => finished \/ late
    /\ process = "down" /\ ~failed => finished \/ late

OrchestratorInv == Typed /\ EndingSound /\ CasesAccounted
===============================================================================
