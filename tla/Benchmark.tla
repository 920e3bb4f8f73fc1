--------------------------------- MODULE Benchmark ---------------------------------
(***************************************************************************)
(* mppi_control_nodes.launch.py with the orchestrator it waits for and the *)
(* monitor that reports on it: from the start of the orchestrator, three   *)
(* seconds after the launch, to the shutdown of everything.                *)
(*                                                                         *)
(* The launch system (external) processes one event at a time; a timer of  *)
(* seconds fires only when no event is waiting.  TimerActions that have    *)
(* not fired are cancelled when the system shuts down.                     *)
(***************************************************************************)
EXTENDS Orchestrator, ControlMonitor

VARIABLES
    launch,     \* "up", "shutdown emitted", "stopping", "down"
    timers,     \* the TimerActions that are waiting
    pdf         \* generate_report.py was started

launchVars == <<launch, timers, pdf>>
benchVars  == <<orchestratorVars, monitorVars, launchVars>>

BenchInit ==
    /\ Init /\ MonitorInit
    /\ launch = "up" /\ timers = {"orchestrator"} /\ pdf = FALSE

----------------------------------------------------------------------------
\* The orchestrator and the report are started by TimerActions, the rest at once.
TimerFires(t) ==
    /\ launch = "up" /\ t \in timers
    /\ timers' = timers \ {t}
    /\ pdf' = (pdf \/ t = "report")
    /\ IF t = "orchestrator" THEN Launched ELSE UNCHANGED orchestratorVars
    /\ UNCHANGED <<monitorVars, launch>>

OrchestratorStep ==
    /\ Construct \/ SetParameters \/ RunCase \/ ShutdownCallback \/ ShutdownThread
    /\ UNCHANGED <<monitorVars, launchVars>>

MonitorStep ==
    /\ \/ CaseCb(n) \/ OdomCb(odom) \/ SampleAndLog
       \/ n > 0 /\ (PathCb \/ CmdCb)
    /\ UNCHANGED <<orchestratorVars, launchVars>>

\* The exit handler: stop the rosbag, start the timer of the report, emit Shutdown.
OrchestratorExited ==
    /\ launch = "up" /\ process = "down"
    /\ timers' = timers \cup {"report"}
    /\ launch' = "shutdown emitted"
    /\ UNCHANGED <<orchestratorVars, monitorVars, pdf>>

\* The event is processed: timers are cancelled, every process gets a SIGINT.
ShutdownEvent ==
    /\ launch = "shutdown emitted"
    /\ launch' = "stopping" /\ timers' = {}
    /\ UNCHANGED <<orchestratorVars, monitorVars, pdf>>

MonitorInterrupted ==
    /\ launch = "stopping"
    /\ DestroyNode
    /\ UNCHANGED <<orchestratorVars, launchVars>>

LaunchDown ==
    /\ launch = "stopping" /\ monitor = "down"
    /\ launch' = "down"
    /\ UNCHANGED <<orchestratorVars, monitorVars, timers, pdf>>

\* Every process gets its turn.  A sample may always be late; what must happen is
\* that the run comes to its end.
BenchNext ==
    \/ \E t \in timers : TimerFires(t)
    \/ OrchestratorStep \/ MonitorStep
    \/ OrchestratorExited \/ ShutdownEvent \/ MonitorInterrupted \/ LaunchDown

LaunchStep ==
    \/ \E t \in timers : TimerFires(t)
    \/ OrchestratorExited \/ ShutdownEvent
    \/ MonitorInterrupted \/ LaunchDown

BenchSpec == BenchInit /\ [][BenchNext]_benchVars /\ Fairness /\ WF_benchVars(LaunchStep)

----------------------------------------------------------------------------
(* Properties                                                               *)

\* Types; a case never runs for longer than the longest limit there is, whenever
\* global_timeout_s is lowered or raised; what has been received was published, the
\* timer of the report does not outlive the shutdown, and nobody but the shutdown
\* stops the monitor.
BenchTypeOK ==
    /\ TypeOK
    /\ gotCase \in 0..n /\ gotOdom \in 0..odom
    /\ {gotPath, gotCmd, sampling, rows, html, pdf} \subseteq BOOLEAN
    /\ monitor \in {"running", "down"}
    /\ launch \in {"up", "shutdown emitted", "stopping", "down"}
    /\ timers \subseteq {"orchestrator", "report"}
    /\ rows => sampling
    /\ "report" \in timers => launch = "shutdown emitted"
    /\ monitor = "down" => launch \in {"stopping", "down"}

\* Every run ends with everything shut down: a vehicle that never reaches the end
\* of its path, requests replaced, limits changed, timers replaced, a request that
\* is invalid from the start.  The exception is a request rejected while the node
\* spins, whose shutdown may block inside the callback: nothing else may.
RunEnds == <>(launch = "down" \/ (process = "blocked" /\ failed /\ changes > 0))
===============================================================================
