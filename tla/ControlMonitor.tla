------------------------------ MODULE ControlMonitor ------------------------------
(***************************************************************************)
(* control_monitor.py: keeps the latest message of every topic, and at 50  *)
(* Hz writes what it has as one row tagged with the latest case id.        *)
(*                                                                         *)
(* Messages are reduced to the number of the case they were published in;  *)
(* 0 is no message, or for the case id 'UNKNOWN'.  Topics are independent  *)
(* of each other and, but for the case id, best-effort: each one delivers  *)
(* in order, late, and with gaps.  Statistics, plot and layout of the      *)
(* report are left out.                                                    *)
(***************************************************************************)
EXTENDS Naturals

VARIABLES
    gotCase, gotOdom,    \* latest_case_id, latest_odom
    gotPath, gotCmd,     \* latest_path and latest_cmd are not None
    sampling,            \* start_time is set
    rows,                \* the csv has a row
    html,                \* the HTML report was written
    monitor              \* "running", "down"

received    == <<gotCase, gotPath, gotOdom, gotCmd>>
monitorVars == <<received, sampling, rows, html, monitor>>

MonitorInit ==
    /\ gotCase = 0 /\ gotOdom = 0 /\ gotPath = FALSE /\ gotCmd = FALSE
    /\ sampling = FALSE /\ rows = FALSE
    /\ html = FALSE /\ monitor = "running"

\* case_cb, odom_cb: something newer than what is there, and published.
CaseCb(newest) ==
    /\ monitor = "running" /\ gotCase' \in (gotCase + 1)..newest
    /\ UNCHANGED <<gotOdom, gotPath, gotCmd, sampling, rows, html, monitor>>

OdomCb(newest) ==
    /\ monitor = "running" /\ gotOdom' \in (gotOdom + 1)..newest
    /\ UNCHANGED <<gotCase, gotPath, gotCmd, sampling, rows, html, monitor>>

PathCb ==
    /\ monitor = "running" /\ gotPath' = TRUE
    /\ UNCHANGED <<gotCase, gotOdom, gotCmd, sampling, rows, html, monitor>>

CmdCb ==
    /\ monitor = "running" /\ gotCmd' = TRUE
    /\ UNCHANGED <<gotCase, gotOdom, gotPath, sampling, rows, html, monitor>>

Complete == gotOdom # 0 /\ gotCmd /\ gotPath

\* sample_and_log: the first sample only sets the clock.
SampleAndLog ==
    /\ monitor = "running" /\ Complete
    /\ sampling' = TRUE
    /\ rows' = sampling
    /\ UNCHANGED <<received, html, monitor>>

\* destroy_node, from main() when spin is interrupted: the plot and the report,
\* of which there is none without a row.
DestroyNode ==
    /\ monitor = "running" /\ monitor' = "down"
    /\ html' = rows
    /\ UNCHANGED <<received, sampling, rows>>
===============================================================================
