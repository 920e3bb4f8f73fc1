------------------------------- MODULE BenchBridge -------------------------------
(***************************************************************************)
(* nav2_bench_bridge.py: forwards the path of the running test case to     *)
(* Nav2's FollowPath action server.  Modelled with its two neighbours as   *)
(* the bridge sees them: the orchestrator, which publishes the path of the *)
(* current case again and again on a topic of depth 1, and the action      *)
(* server, whose responses and results arrive in any order between goals.  *)
(*                                                                         *)
(* The bridge runs in a single-threaded executor, so a callback is one     *)
(* step; only path_callback is cut in two, since it blocks for up to 2 s   *)
(* in wait_for_server with the message already in its hand.  Goals live in *)
(* slots that are reused once the bridge has had the last word on a goal.  *)
(***************************************************************************)
EXTENDS Naturals, Sequences, FiniteSets

CONSTANTS
    Paths,   \* path signatures
    Cases,   \* the paths of the test cases, in the order they run
    Slots,   \* goals that can be unresolved at the same time (a bound)
    None     \* no path, no goal, no message

ASSUME BridgeAssumption ==
    /\ Cases \in Seq(Paths) /\ Len(Cases) >= 1
    /\ None \notin Paths /\ None \notin Slots
    /\ IsFiniteSet(Slots)

VARIABLES
    case,         \* orchestrator: index of the current case
    seen,         \* orchestrator: the case has reached the bridge with the server up
    inbox,        \* /path, depth 1: the latest path published and not yet taken
    hand,         \* path_callback in wait_for_server: the path it was called with
    goals,        \* per slot the goal sent, or None
    inProgress,   \* _goal_in_progress
    handle,       \* _active_goal_handle
    lastSig,      \* _last_path_signature
    activeSig,    \* _active_goal_signature
    lastOk,       \* _last_goal_succeeded
    driven,       \* history: a goal for the path of the current case has succeeded in this case
    changed       \* history: the path changed while a goal was unresolved or in the making

bridge  == <<inProgress, handle, lastSig, activeSig, lastOk>>
world   == <<case, seen, inbox>>
vars    == <<world, hand, goals, bridge, driven, changed>>

Goal == [path : Paths,
         srv : {"pending", "rejected", "executing", "succeeded", "aborted", "canceled"},
         cli : {"response", "result"},      \* what the bridge still waits for
         cancel : BOOLEAN]                   \* cancel_goal_async was called

ASSUME GoalAssumption == None \notin Goal

Unresolved == {g \in Slots : goals[g] # None}
Quiet == Unresolved = {} /\ hand = None /\ inbox = None

Init ==
    /\ case = 1 /\ seen = FALSE
    /\ inbox = Cases[1] /\ hand = None
    /\ goals = [g \in Slots |-> None]
    /\ inProgress = FALSE /\ handle = None
    /\ lastSig = None /\ activeSig = None /\ lastOk = FALSE
    /\ driven = FALSE /\ changed = FALSE

----------------------------------------------------------------------------
(* The orchestrator, as far as /path shows it.                              *)

PublishPath ==
    /\ inbox = None
    /\ inbox' = Cases[case]
    /\ UNCHANGED <<case, seen, hand, goals, bridge, driven, changed>>

\* The next case (or the path shift inside a case) begins with a publication.
\* A case lasts at least four seconds and its path is repeated every second; an
\* outage of the action server longer than a case is left out (seen).
NextCase ==
    /\ case < Len(Cases) /\ seen
    /\ case' = case + 1 /\ seen' = FALSE
    /\ inbox' = Cases[case + 1]
    /\ driven' = FALSE
    /\ changed' = (changed \/ (~Quiet /\ Cases[case + 1] # Cases[case]))
    /\ UNCHANGED <<hand, goals, bridge>>

----------------------------------------------------------------------------
(* path_callback                                                            *)

TakePath ==
    /\ hand = None /\ inbox # None
    /\ hand' = inbox /\ inbox' = None
    /\ UNCHANGED <<case, seen, goals, bridge, driven, changed>>

ServerNotAvailable ==
    /\ hand # None
    /\ hand' = None
    /\ UNCHANGED <<world, goals, bridge, driven, changed>>

RepeatsActiveGoal == inProgress /\ activeSig = hand

RepeatsSuccess == lastSig # None /\ lastSig = hand /\ ~inProgress /\ lastOk

\* Mutant of Ignored: a path repeated after success is taken for a new mission.
IgnoredWhileActive == RepeatsActiveGoal

\* Mutant of Ignored: only the outcome of the last goal counts.
IgnoredAfterSuccess == RepeatsSuccess

\* The two early returns for a repeated path.
Ignored == RepeatsActiveGoal \/ RepeatsSuccess

SkipRepeatedPath ==
    /\ hand # None /\ Ignored
    /\ hand' = None
    /\ seen' = (seen \/ hand = Cases[case])
    /\ UNCHANGED <<case, inbox, goals, bridge, driven, changed>>

\* A new mission: the goal the handle is known of is cancelled, the new one sent.
SendGoal(g) ==
    /\ hand # None /\ ~Ignored
    /\ goals[g] = None
    /\ LET toCancel == IF inProgress THEN {handle} \ {None} ELSE {}
       IN  goals' = [h \in Slots |->
                       IF h = g THEN [path |-> hand, srv |-> "pending", cli |-> "response",
                                      cancel |-> FALSE]
                       ELSE IF h \in toCancel THEN [goals[h] EXCEPT !.cancel = TRUE]
                       ELSE goals[h]]
    /\ lastSig' = hand /\ activeSig' = hand /\ lastOk' = FALSE /\ inProgress' = TRUE
    /\ hand' = None
    /\ seen' = (seen \/ hand = Cases[case])
    /\ UNCHANGED <<case, inbox, handle, driven, changed>>

----------------------------------------------------------------------------
(* goal_response_callback and goal_result_callback                          *)

\* The bridge is in a callback of its own while hand is taken.
Idle == hand = None

GoalRejected(g) ==
    /\ Idle /\ goals[g] # None
    /\ goals[g].srv = "rejected"
    /\ goals' = [goals EXCEPT ![g] = None]
    /\ inProgress' = FALSE /\ handle' = None /\ activeSig' = None
    /\ lastSig' = None /\ lastOk' = FALSE
    /\ UNCHANGED <<world, hand, driven, changed>>

GoalAccepted(g) ==
    /\ Idle /\ goals[g] # None
    /\ goals[g].cli = "response" /\ goals[g].srv \notin {"pending", "rejected"}
    /\ goals' = [goals EXCEPT ![g].cli = "result"]
    /\ handle' = g
    /\ UNCHANGED <<world, hand, inProgress, lastSig, activeSig, lastOk, driven, changed>>

\* Mutant of GoalResult: the handle of the finished goal is kept.
GoalResultKeepsHandle(g) ==
    /\ Idle /\ goals[g] # None
    /\ goals[g].cli = "result" /\ goals[g].srv \in {"succeeded", "aborted", "canceled"}
    /\ goals' = [goals EXCEPT ![g] = None]
    /\ inProgress' = FALSE /\ activeSig' = None
    /\ lastOk' = (goals[g].srv = "succeeded")
    /\ lastSig' = IF goals[g].srv = "succeeded" THEN lastSig ELSE None
    /\ driven' = (driven \/ (goals[g].srv = "succeeded" /\ goals[g].path = Cases[case]))
    /\ UNCHANGED <<world, hand, handle, changed>>

\* Mutant of GoalResult: the status is not looked at.
GoalResultIgnoresStatus(g) ==
    /\ Idle /\ goals[g] # None
    /\ goals[g].cli = "result" /\ goals[g].srv \in {"succeeded", "aborted", "canceled"}
    /\ goals' = [goals EXCEPT ![g] = None]
    /\ inProgress' = FALSE /\ handle' = None /\ activeSig' = None
    /\ lastOk' = TRUE /\ lastSig' = lastSig
    /\ driven' = (driven \/ (goals[g].srv = "succeeded" /\ goals[g].path = Cases[case]))
    /\ UNCHANGED <<world, hand, changed>>

\* Whichever goal the result belongs to, the bridge forgets the active one.
GoalResult(g) ==
    /\ Idle /\ goals[g] # None
    /\ goals[g].cli = "result" /\ goals[g].srv \in {"succeeded", "aborted", "canceled"}
    /\ goals' = [goals EXCEPT ![g] = None]
    /\ inProgress' = FALSE /\ handle' = None /\ activeSig' = None
    /\ lastOk' = (goals[g].srv = "succeeded")
    /\ lastSig' = IF goals[g].srv = "succeeded" THEN lastSig ELSE None
    /\ driven' = (driven \/ (goals[g].srv = "succeeded" /\ goals[g].path = Cases[case]))
    /\ UNCHANGED <<world, hand, changed>>

----------------------------------------------------------------------------
(* The action server (external): it answers every goal, and ends every goal *)
(* it has accepted; a goal is canceled only on request.                     *)

ServerAnswers(g) ==
    /\ goals[g] # None /\ goals[g].srv = "pending"
    /\ \E s \in {"executing", "rejected"} : goals' = [goals EXCEPT ![g].srv = s]
    /\ UNCHANGED <<world, hand, bridge, driven, changed>>

ServerEnds(g) ==
    /\ goals[g] # None /\ goals[g].srv = "executing"
    /\ \E s \in {"succeeded", "aborted", "canceled"} :
          /\ s = "canceled" => goals[g].cancel
          /\ goals' = [goals EXCEPT ![g].srv = s]
    /\ UNCHANGED <<world, hand, bridge, driven, changed>>

----------------------------------------------------------------------------
BridgeStep ==
    \/ TakePath \/ SkipRepeatedPath
    \/ \E g \in Slots : GoalRejected(g) \/ GoalAccepted(g) \/ GoalResult(g)

HandlePath == SkipRepeatedPath \/ \E g \in Slots : SendGoal(g)

Next ==
    \/ PublishPath \/ NextCase
    \/ BridgeStep \/ ServerNotAvailable \/ \E g \in Slots : SendGoal(g)
    \/ \E g \in Slots : ServerAnswers(g) \/ ServerEnds(g)

Spec == Init /\ [][Next]_vars

\* The orchestrator keeps publishing, the bridge's executor runs its callbacks,
\* the server answers and ends its goals, and it is not down for ever.
FairSpec ==
    /\ Spec
    /\ WF_vars(PublishPath) /\ WF_vars(BridgeStep) /\ SF_vars(HandlePath)
    /\ \A g \in Slots : /\ WF_vars(ServerAnswers(g)) /\ WF_vars(ServerEnds(g))
                        /\ SF_vars(GoalRejected(g) \/ GoalAccepted(g) \/ GoalResult(g))

----------------------------------------------------------------------------
(* Properties                                                               *)

\* Types; the handle is that of an accepted goal whose result is still to come,
\* so that cancelling it is never a call on a goal the bridge is done with.
TypeOK ==
    /\ case \in 1..Len(Cases) /\ seen \in BOOLEAN
    /\ inbox \in Paths \cup {None} /\ hand \in Paths \cup {None}
    /\ goals \in [Slots -> Goal \cup {None}]
    /\ inProgress \in BOOLEAN /\ lastOk \in BOOLEAN
    /\ driven \in BOOLEAN /\ changed \in BOOLEAN
    /\ lastSig \in Paths \cup {None} /\ activeSig \in Paths \cup {None}
    /\ handle \in Slots \cup {None}
    /\ handle # None => goals[handle] # None /\ goals[handle].cli = "result"

\* As long as the path never changes under an unresolved goal there is at most
\* one such goal: repeated publications of a path do not multiply it, whatever
\* the order of repetitions, responses, rejections, failures and retries.
OneGoalPerMission == ~changed => Cardinality(Unresolved) <= 1

\* ... and once that goal has succeeded, repetitions of the path start no other.
NoGoalAfterSuccess == ~changed /\ driven => Unresolved = {}

\* There is one goal, for the path of the current case, and nobody gives it up.
Pursued == \E g \in Slots : Unresolved = {g} /\ ~goals[g].cancel /\ goals[g].path = Cases[case]

\* The mission as it stands, while no path has changed under a goal or a message; no
\* mission is "torn" between goals, or has one that is given up.
MissionStatus ==
    CASE changed                                                        -> "void"
      [] ~changed /\ Pursued                                            -> "driving"
      [] ~changed /\ Unresolved = {} /\ lastOk /\ lastSig = Cases[case]    -> "done"
      [] ~changed /\ Unresolved = {} /\ ~(lastOk /\ lastSig = Cases[case]) -> "open"
      [] OTHER                                                          -> "torn"

Contract == INSTANCE Mission WITH path <- Cases[case], status <- MissionStatus, busy <- ~Quiet

\* Flags, signatures, handles and messages in the inbox amount to missions: only the
\* path of the mission is driven, its goal is not replaced by a repetition, one that
\* failed may be followed by another, and success is final until another path comes.
\* Cases in a row on one path are one mission.
MissionKept == Contract!Spec

\* The bridge "forwards the path to Nav2 as a FollowPath action goal": it is never
\* without a mission for good.  In the last case its path is driven to success or
\* there is always another goal for it, also after rejections, failures and
\* results of goals it has given up.  So it is if no two cases in a row have the
\* same path; the second of two that do is dropped as a repetition.
MissionPursued ==
    []<>(case < Len(Cases) \/ driven \/ \E g \in Unresolved : goals[g].path = Cases[case])

===============================================================================
