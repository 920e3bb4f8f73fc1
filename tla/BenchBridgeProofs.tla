----------------------------- MODULE BenchBridgeProofs -----------------------------
(***************************************************************************)
(* The goals of the bridge, for any number of cases, paths and slots: the  *)
(* handle it may cancel is that of a goal it still waits for, and as long  *)
(* as no path changes under a goal, a mission has one goal and none after  *)
(* its success.                                                            *)
(***************************************************************************)
EXTENDS BenchBridge, FiniteSetTheorems, TLAPS

\* As long as no path has changed under a goal, everything in the making is for the
\* path of the current case, and there is one goal at most, which the flags know of.
OneMission ==
    ~changed =>
        /\ inbox \in {None, Cases[case]} /\ hand \in {None, Cases[case]}
        /\ \A g, h \in Slots : goals[g] # None /\ goals[h] # None => g = h
        /\ \A g \in Slots : goals[g] # None =>
              /\ goals[g].path = Cases[case]
              /\ inProgress /\ activeSig = Cases[case] /\ lastSig = Cases[case]

\* After the success of that goal the bridge remembers its path, and nothing else is
\* under way.
SuccessRemembered ==
    ~changed /\ driven =>
        /\ ~inProgress /\ lastOk /\ lastSig = Cases[case]
        /\ \A g \in Slots : goals[g] = None

BridgeInv == TypeOK /\ OneMission /\ SuccessRemembered

\* The path of a case.
LEMMA PathOfCase == TypeOK => Cases[case] \in Paths /\ Cases[case] # None
  BY BridgeAssumption DEF TypeOK

\* Nothing has been sent, and the path of the first case is in the inbox.
LEMMA BridgeInit == Init => BridgeInv
<1> SUFFICES ASSUME Init
             PROVE  BridgeInv
  OBVIOUS
<1>1. 1 \in 1..Len(Cases) /\ Cases[1] \in Paths
  BY BridgeAssumption
<1>2. TypeOK
  BY <1>1 DEF Init, TypeOK
<1>3. OneMission /\ SuccessRemembered
  BY DEF Init, OneMission, SuccessRemembered
<1>4. QED
  BY <1>2, <1>3 DEF BridgeInv

\* The next case: with nothing under way, or on the same path again, or the path
\* changes under a goal.
LEMMA NextCaseSound == BridgeInv /\ NextCase => BridgeInv'
<1> SUFFICES ASSUME BridgeInv, NextCase
             PROVE  BridgeInv'
  OBVIOUS
<1>1. /\ case' = case + 1 /\ case + 1 \in 1..Len(Cases) /\ seen' = FALSE
      /\ inbox' = Cases[case + 1] /\ driven' = FALSE
      /\ changed' = (changed \/ (~Quiet /\ Cases[case + 1] # Cases[case]))
      /\ UNCHANGED <<hand, goals, inProgress, handle, lastSig, activeSig, lastOk>>
  BY BridgeAssumption DEF NextCase, bridge, BridgeInv, TypeOK
<1>2. Cases[case + 1] \in Paths
  BY <1>1, BridgeAssumption
<1>3. TypeOK'
  BY <1>1, <1>2 DEF BridgeInv, TypeOK
<1>4. OneMission'
  <2>1. CASE changed'
    BY <2>1 DEF OneMission
  <2>2. CASE ~changed' /\ Cases[case + 1] = Cases[case]
    BY <1>1, <2>2 DEF OneMission, BridgeInv
  <2>3. CASE ~changed' /\ Quiet
    <3>1. hand = None /\ \A g \in Slots : goals[g] = None
      BY <2>3 DEF Quiet, Unresolved
    <3>2. QED
      BY <1>1, <3>1 DEF OneMission
  <2>4. QED
    BY <1>1, <2>1, <2>2, <2>3
<1>5. SuccessRemembered'
  BY <1>1 DEF SuccessRemembered
<1>6. QED
  BY <1>3, <1>4, <1>5 DEF BridgeInv

\* A new goal: had there been one, or a success, the path would have been ignored.
LEMMA SendGoalSound ==
  ASSUME BridgeInv, NEW g \in Slots, SendGoal(g)
  PROVE  BridgeInv'
<1> DEFINE toCancel == IF inProgress THEN {handle} \ {None} ELSE {}
<1>1. /\ hand # None /\ hand \in Paths /\ goals[g] = None
      /\ ~RepeatsActiveGoal /\ ~RepeatsSuccess
      /\ goals' = [h \in Slots |->
                     IF h = g THEN [path |-> hand, srv |-> "pending", cli |-> "response",
                                    cancel |-> FALSE]
                     ELSE IF h \in toCancel THEN [goals[h] EXCEPT !.cancel = TRUE]
                     ELSE goals[h]]
      /\ lastSig' = hand /\ activeSig' = hand /\ lastOk' = FALSE /\ inProgress' = TRUE
      /\ hand' = None /\ seen' = (seen \/ hand = Cases[case])
      /\ UNCHANGED <<case, inbox, handle, driven, changed>>
  BY DEF SendGoal, Ignored, BridgeInv, TypeOK
<1> HIDE DEF toCancel
<1>2. TypeOK'
  <2>1. ASSUME NEW h \in Slots
        PROVE  /\ goals'[h] \in Goal \cup {None}
               /\ goals[h] # None => goals'[h] # None /\ goals'[h].cli = goals[h].cli
    <3>1. CASE h = g
      <4>1. [path |-> hand, srv |-> "pending", cli |-> "response", cancel |-> FALSE] \in Goal
        BY <1>1 DEF Goal
      <4>2. QED
        BY <1>1, <3>1, <4>1
    <3>2. CASE h # g /\ h \in toCancel
      <4>1. goals[h] \in Goal
        BY <3>2 DEF BridgeInv, TypeOK, toCancel
      <4>2. goals'[h] = [goals[h] EXCEPT !.cancel = TRUE]
        BY <1>1, <3>2
      <4>3. goals'[h] \in Goal /\ goals'[h].cli = goals[h].cli
        BY <4>1, <4>2 DEF Goal
      <4>4. goals'[h] # None
        BY <4>3, GoalAssumption
      <4>5. QED
        BY <4>3, <4>4
    <3>3. CASE h # g /\ h \notin toCancel
      BY <1>1, <3>3 DEF BridgeInv, TypeOK
    <3>4. QED
      BY <3>1, <3>2, <3>3
  <2>2. goals' \in [Slots -> Goal \cup {None}]
    BY <1>1, <2>1
  <2>3. handle' \in Slots \cup {None}
        /\ (handle' # None => goals'[handle'] # None /\ goals'[handle'].cli = "result")
    BY <1>1, <2>1 DEF BridgeInv, TypeOK
  <2>4. QED
    BY <1>1, <2>2, <2>3 DEF BridgeInv, TypeOK
<1>3. CASE changed
  BY <1>1, <1>2, <1>3 DEF BridgeInv, OneMission, SuccessRemembered
<1>4. CASE ~changed
  <2>1. hand = Cases[case]
    BY <1>1, <1>4 DEF BridgeInv, OneMission
  <2>2. \A h \in Slots : goals[h] = None
    BY <1>1, <1>4, <2>1 DEF BridgeInv, OneMission, RepeatsActiveGoal
  <2>3. ~driven
    BY <1>1, <1>4, <2>1 DEF BridgeInv, SuccessRemembered, RepeatsSuccess
  <2>4. \A h \in Slots : h # g => goals'[h] = None
    BY <1>1, <2>2 DEF BridgeInv, TypeOK, toCancel
  <2>5. goals'[g].path = Cases[case]
    BY <1>1, <2>1
  <2>6. OneMission' /\ SuccessRemembered'
    BY <1>1, <2>1, <2>3, <2>4, <2>5 DEF BridgeInv, OneMission, SuccessRemembered
  <2>7. QED
    BY <1>2, <2>6 DEF BridgeInv
<1>5. QED
  BY <1>3, <1>4

\* The last word on a goal: the slot is free, and the bridge forgets the active goal,
\* whichever that is.
LEMMA GoalDoneSound ==
  ASSUME BridgeInv, NEW g \in Slots, GoalRejected(g) \/ GoalResult(g)
  PROVE  BridgeInv'
<1>1. /\ goals[g] # None /\ goals' = [goals EXCEPT ![g] = None]
      /\ inProgress' = FALSE /\ handle' = None /\ activeSig' = None
      /\ lastSig' \in {lastSig, None} /\ lastOk' \in BOOLEAN
      /\ UNCHANGED <<case, seen, inbox, hand, changed>>
  BY DEF GoalRejected, GoalResult, world
<1>2. /\ driven' \in BOOLEAN
      /\ driven' => \/ driven
                    \/ lastOk' = TRUE /\ lastSig' = lastSig /\ goals[g].path = Cases[case]
  <2>1. CASE GoalRejected(g)
    BY <2>1 DEF GoalRejected, BridgeInv, TypeOK
  <2>2. CASE GoalResult(g)
    <3>1. driven' = (driven \/ (goals[g].srv = "succeeded" /\ goals[g].path = Cases[case]))
      BY <2>2 DEF GoalResult
    <3>2. goals[g].srv = "succeeded" => lastOk' = TRUE /\ lastSig' = lastSig
      BY <2>2 DEF GoalResult
    <3>3. QED
      BY <3>1, <3>2
  <2>3. QED
    BY <2>1, <2>2
<1>3. TypeOK'
  BY <1>1, <1>2 DEF BridgeInv, TypeOK
<1>4. CASE changed
  BY <1>1, <1>3, <1>4 DEF BridgeInv, OneMission, SuccessRemembered
<1>5. CASE ~changed
  <2>1. \A h \in Slots : goals'[h] = None
    BY <1>1, <1>5 DEF BridgeInv, TypeOK, OneMission
  <2>2. ~driven /\ lastSig = Cases[case]
    BY <1>1, <1>5 DEF BridgeInv, OneMission, SuccessRemembered
  <2>3. OneMission' /\ SuccessRemembered'
    BY <1>1, <1>2, <1>5, <2>1, <2>2 DEF BridgeInv, OneMission, SuccessRemembered
  <2>4. QED
    BY <1>3, <2>3 DEF BridgeInv
<1>6. QED
  BY <1>4, <1>5

\* A goal that goes on: only what the server or the bridge knows of it changes.
LEMMA GoalGoesOnSound ==
  ASSUME BridgeInv, NEW g \in Slots, GoalAccepted(g) \/ ServerAnswers(g) \/ ServerEnds(g)
  PROVE  BridgeInv'
<1>1. /\ goals[g] \in Goal /\ goals[g] # None
      /\ UNCHANGED <<case, seen, inbox, hand, inProgress, lastSig, activeSig, lastOk, driven, changed>>
  BY DEF GoalAccepted, ServerAnswers, ServerEnds, world, bridge, BridgeInv, TypeOK
<1>2. \E r \in Goal :
         /\ goals' = [goals EXCEPT ![g] = r] /\ r.path = goals[g].path
         /\ r.cli = "result" \/ r.cli = goals[g].cli
         /\ handle' = handle \/ (handle' = g /\ r.cli = "result")
  <2>1. ASSUME GoalAccepted(g)
        PROVE  /\ [goals[g] EXCEPT !.cli = "result"] \in Goal
               /\ goals' = [goals EXCEPT ![g] = [goals[g] EXCEPT !.cli = "result"]]
               /\ handle' = g
    BY <1>1, <2>1 DEF GoalAccepted, Goal
  <2>2. ASSUME ServerAnswers(g) \/ ServerEnds(g)
        PROVE  /\ handle' = handle
               /\ \E s \in {"executing", "rejected", "succeeded", "aborted", "canceled"} :
                     goals' = [goals EXCEPT ![g] = [goals[g] EXCEPT !.srv = s]]
    BY <2>2 DEF ServerAnswers, ServerEnds, bridge
  <2>3. ASSUME NEW s \in {"executing", "rejected", "succeeded", "aborted", "canceled"}
        PROVE  /\ [goals[g] EXCEPT !.srv = s] \in Goal
               /\ [goals[g] EXCEPT !.srv = s].path = goals[g].path
               /\ [goals[g] EXCEPT !.srv = s].cli = goals[g].cli
    BY <1>1 DEF Goal
  <2>4. /\ [goals[g] EXCEPT !.cli = "result"].path = goals[g].path
        /\ [goals[g] EXCEPT !.cli = "result"].cli = "result"
    BY <1>1 DEF Goal
  <2>5. CASE GoalAccepted(g)
    BY <2>1, <2>4, <2>5
  <2>6. CASE ServerAnswers(g) \/ ServerEnds(g)
    BY <2>2, <2>3, <2>6
  <2>7. QED
    BY <2>5, <2>6
<1>3. PICK r \in Goal :
         /\ goals' = [goals EXCEPT ![g] = r] /\ r.path = goals[g].path
         /\ r.cli = "result" \/ r.cli = goals[g].cli
         /\ handle' = handle \/ (handle' = g /\ r.cli = "result")
  BY <1>2
<1>4. goals \in [Slots -> Goal \cup {None}]
  BY DEF BridgeInv, TypeOK
<1>5. r # None
  BY GoalAssumption
<1>6. TypeOK'
  BY <1>1, <1>3, <1>4, <1>5 DEF BridgeInv, TypeOK
<1>7. OneMission' /\ SuccessRemembered'
  BY <1>1, <1>3, <1>4, <1>5 DEF BridgeInv, OneMission, SuccessRemembered
<1>8. QED
  BY <1>6, <1>7 DEF BridgeInv

\* Every step of the bridge and of its neighbours.
LEMMA BridgeStepSound == BridgeInv /\ [Next]_vars => BridgeInv'
<1> SUFFICES ASSUME BridgeInv, [Next]_vars
             PROVE  BridgeInv'
  OBVIOUS
<1>1. CASE PublishPath
  <2>1. Cases[case] \in Paths
    BY PathOfCase DEF BridgeInv
  <2>2. QED
    BY <1>1, <2>1 DEF PublishPath, bridge, BridgeInv, TypeOK, OneMission, SuccessRemembered
<1>2. CASE NextCase
  BY <1>2, NextCaseSound
<1>3. CASE TakePath
  BY <1>3 DEF TakePath, bridge, BridgeInv, TypeOK, OneMission, SuccessRemembered
<1>4. CASE SkipRepeatedPath
  BY <1>4 DEF SkipRepeatedPath, bridge, BridgeInv, TypeOK, OneMission, SuccessRemembered
<1>5. CASE ServerNotAvailable
  BY <1>5 DEF ServerNotAvailable, world, bridge, BridgeInv, TypeOK, OneMission, SuccessRemembered
<1>6. ASSUME NEW g \in Slots, SendGoal(g)
      PROVE  BridgeInv'
  BY <1>6, SendGoalSound
<1>7. ASSUME NEW g \in Slots, GoalRejected(g) \/ GoalResult(g)
      PROVE  BridgeInv'
  BY <1>7, GoalDoneSound
<1>8. ASSUME NEW g \in Slots, GoalAccepted(g) \/ ServerAnswers(g) \/ ServerEnds(g)
      PROVE  BridgeInv'
  BY <1>8, GoalGoesOnSound
<1>9. CASE UNCHANGED vars
  BY <1>9 DEF vars, world, bridge, BridgeInv, TypeOK, OneMission, SuccessRemembered
<1>10. QED
  BY <1>1, <1>2, <1>3, <1>4, <1>5, <1>6, <1>7, <1>8, <1>9 DEF Next, BridgeStep

\* The invariant holds throughout.
THEOREM BridgeInvariant == Spec => []BridgeInv
  BY BridgeInit, BridgeStepSound, PTL DEF Spec

\* Types, and a handle the bridge keeps is one it may cancel.
THEOREM BridgeTypeCorrect == Spec => []TypeOK
<1>1. BridgeInv => TypeOK
  BY DEF BridgeInv
<1>2. QED
  BY <1>1, BridgeInvariant, PTL

\* Repetitions of a path, rejections, failures and retries never lead to a second
\* goal of a mission.
THEOREM MissionHasOneGoal == Spec => []OneGoalPerMission
<1>1. BridgeInv => OneGoalPerMission
  <2> SUFFICES ASSUME BridgeInv, ~changed
               PROVE  Cardinality(Unresolved) <= 1
    BY DEF OneGoalPerMission
  <2>1. \A g, h \in Unresolved : g = h
    BY DEF BridgeInv, OneMission, Unresolved
  <2>2. CASE Unresolved = {}
    BY <2>2, FS_EmptySet
  <2>3. CASE Unresolved # {}
    <3>1. PICK g : Unresolved = {g}
      BY <2>1, <2>3
    <3>2. QED
      BY <3>1, FS_Singleton
  <2>4. QED
    BY <2>2, <2>3
<1>2. QED
  BY <1>1, BridgeInvariant, PTL

\* After its success the mission is over for the bridge.
THEOREM SuccessEndsMission == Spec => []NoGoalAfterSuccess
<1>1. BridgeInv => NoGoalAfterSuccess
  BY DEF BridgeInv, SuccessRemembered, NoGoalAfterSuccess, Unresolved
<1>2. QED
  BY <1>1, BridgeInvariant, PTL

----------------------------------------------------------------------------
(* The bridge implements Mission.                                           *)

\* What the mapping needs besides: a goal of the mission is not given up, the flag has a
\* goal, and a case that was announced is not mistaken for the one before it.
Settled ==
    ~changed =>
        /\ \A g \in Slots : goals[g] # None => ~goals[g].cancel
        /\ inProgress => \E g \in Slots : goals[g] # None
        /\ seen => lastSig \in {None, Cases[case]}

MissionInv == BridgeInv /\ Settled

\* The status of the mission, by its flags alone.
Standing ==
    IF changed THEN "void"
    ELSE IF \E g \in Slots : goals[g] # None THEN "driving"
    ELSE IF lastOk /\ lastSig = Cases[case] THEN "done" ELSE "open"

LEMMA MissionStands == MissionInv => MissionStatus = Standing
<1> SUFFICES ASSUME MissionInv PROVE MissionStatus = Standing
  OBVIOUS
<1>1. CASE changed
  BY <1>1 DEF MissionStatus, Standing
<1>2. CASE ~changed /\ \E g \in Slots : goals[g] # None
  <2>1. PICK g \in Slots : goals[g] # None
    BY <1>2
  <2>2. Unresolved = {g}
    BY <1>2, <2>1 DEF MissionInv, BridgeInv, OneMission, Unresolved
  <2>3. Pursued
    BY <1>2, <2>1, <2>2 DEF MissionInv, BridgeInv, OneMission, Settled, Pursued
  <2>4. QED
    BY <1>2, <2>2, <2>3 DEF MissionStatus, Standing
<1>3. CASE ~changed /\ \A g \in Slots : goals[g] = None
  <2>1. Unresolved = {} /\ ~Pursued
    BY <1>3 DEF Unresolved, Pursued
  <2>2. CASE lastOk /\ lastSig = Cases[case]
    BY <1>3, <2>1, <2>2 DEF MissionStatus, Standing
  <2>3. CASE ~(lastOk /\ lastSig = Cases[case])
    BY <1>3, <2>1, <2>3 DEF MissionStatus, Standing
  <2>4. QED
    BY <2>2, <2>3
<1>4. QED
  BY <1>1, <1>2, <1>3

LEMMA MissionInit == Init => MissionInv /\ Contract!Init
<1> SUFFICES ASSUME Init PROVE MissionInv /\ Contract!Init
  OBVIOUS
<1>1. BridgeInv
  BY BridgeInit
<1>2. Settled
  BY DEF Init, Settled
<1>3. MissionStatus = Standing
  BY <1>1, <1>2, MissionStands DEF MissionInv
<1>4. Standing = "open"
  BY DEF Init, Standing
<1>5. Cases[case] \in Paths /\ Quiet = FALSE
  BY <1>1, PathOfCase DEF BridgeInv, Init, Quiet
<1>6. QED
  BY <1>1, <1>2, <1>3, <1>4, <1>5 DEF MissionInv, Contract!Init

\* A goal that goes on is not given up.
LEMMA GoesOnSettled ==
  ASSUME MissionInv, NEW g \in Slots, GoalAccepted(g) \/ ServerAnswers(g) \/ ServerEnds(g)
  PROVE  /\ Settled'
         /\ \A h \in Slots : goals'[h] # None <=> goals[h] # None
<1>1. goals \in [Slots -> Goal \cup {None}] /\ goals[g] # None
  BY DEF MissionInv, BridgeInv, TypeOK, GoalAccepted, ServerAnswers, ServerEnds
<1>2. UNCHANGED <<case, seen, inProgress, lastSig, lastOk, changed>>
  BY DEF GoalAccepted, ServerAnswers, ServerEnds, world, bridge
<1>3. \E r \in Goal : goals' = [goals EXCEPT ![g] = r] /\ r.cancel = goals[g].cancel
  <2>1. goals[g] \in Goal
    BY <1>1
  <2>2. CASE GoalAccepted(g)
    <3>1. /\ [goals[g] EXCEPT !.cli = "result"] \in Goal
          /\ [goals[g] EXCEPT !.cli = "result"].cancel = goals[g].cancel
      BY <2>1 DEF Goal
    <3>2. goals' = [goals EXCEPT ![g] = [goals[g] EXCEPT !.cli = "result"]]
      BY <2>2 DEF GoalAccepted
    <3>3. QED
      BY <3>1, <3>2
  <2>3. CASE ServerAnswers(g) \/ ServerEnds(g)
    <3>1. PICK s \in {"executing", "rejected", "succeeded", "aborted", "canceled"} :
             goals' = [goals EXCEPT ![g] = [goals[g] EXCEPT !.srv = s]]
      BY <2>3 DEF ServerAnswers, ServerEnds
    <3>2. /\ [goals[g] EXCEPT !.srv = s] \in Goal
          /\ [goals[g] EXCEPT !.srv = s].cancel = goals[g].cancel
      BY <2>1 DEF Goal
    <3>3. QED
      BY <3>1, <3>2
  <2>4. QED
    BY <2>2, <2>3
<1>4. PICK r \in Goal : goals' = [goals EXCEPT ![g] = r] /\ r.cancel = goals[g].cancel
  BY <1>3
<1>5. r # None
  BY GoalAssumption
<1>6. \A h \in Slots : goals'[h] # None <=> goals[h] # None
  BY <1>1, <1>4, <1>5
<1>7. \A h \in Slots : goals'[h] # None => goals'[h].cancel = goals[h].cancel
  BY <1>1, <1>4
<1>8. QED
  BY <1>2, <1>6, <1>7 DEF MissionInv, Settled

\* What a goal of the mission finds when it is sent.
LEMMA SentWhenOpen ==
  ASSUME MissionInv, NEW g \in Slots, SendGoal(g), ~changed
  PROVE  /\ hand = Cases[case] /\ Standing = "open"
         /\ \A h \in Slots : goals[h] = None
         /\ goals'[g] # None /\ goals'[g].cancel = FALSE
         /\ \A h \in Slots : h # g => goals'[h] = None
<1> DEFINE toCancel == IF inProgress THEN {handle} \ {None} ELSE {}
           new == [path |-> hand, srv |-> "pending", cli |-> "response", cancel |-> FALSE]
<1>1. /\ hand # None /\ hand \in Paths /\ ~RepeatsActiveGoal /\ ~RepeatsSuccess
      /\ goals' = [h \in Slots |-> IF h = g THEN new
                                   ELSE IF h \in toCancel THEN [goals[h] EXCEPT !.cancel = TRUE]
                                   ELSE goals[h]]
  BY DEF SendGoal, Ignored, MissionInv, BridgeInv, TypeOK
<1>2. hand = Cases[case]
  BY <1>1 DEF MissionInv, BridgeInv, OneMission
<1>3. \A h \in Slots : goals[h] = None
  BY <1>1, <1>2 DEF MissionInv, BridgeInv, OneMission, RepeatsActiveGoal
<1>4. ~inProgress
  BY <1>3 DEF MissionInv, Settled
<1>5. ~(lastOk /\ lastSig = Cases[case])
  BY <1>1, <1>2, <1>4 DEF RepeatsSuccess
<1>6. new \in Goal
  BY <1>1 DEF Goal
<1>7. new # None /\ new.cancel = FALSE
  BY <1>6, GoalAssumption
<1>8. QED
  BY <1>1, <1>2, <1>3, <1>4, <1>5, <1>7 DEF Standing

LEMMA SettledStep == MissionInv /\ [Next]_vars => MissionInv'
<1> SUFFICES ASSUME MissionInv, [Next]_vars PROVE Settled'
  BY BridgeStepSound DEF MissionInv
<1> USE DEF MissionInv
<1>1. CASE PublishPath \/ TakePath \/ ServerNotAvailable \/ UNCHANGED vars
  BY <1>1 DEF PublishPath, TakePath, ServerNotAvailable, vars, world, bridge, Settled
<1>2. CASE NextCase
  BY <1>2 DEF NextCase, bridge, Settled
<1>3. CASE SkipRepeatedPath
  <2>1. /\ hand # None /\ (RepeatsActiveGoal \/ RepeatsSuccess)
        /\ UNCHANGED <<case, goals, inProgress, lastSig, lastOk, changed>>
    BY <1>3 DEF SkipRepeatedPath, Ignored, bridge
  <2>2. ~changed => hand = Cases[case]
    BY <2>1 DEF BridgeInv, OneMission
  <2>3. ~changed => lastSig \in {None, Cases[case]}
    BY <2>1, <2>2 DEF RepeatsActiveGoal, RepeatsSuccess, BridgeInv, OneMission, Settled
  <2>4. QED
    BY <2>1, <2>3 DEF Settled
<1>4. ASSUME NEW g \in Slots, SendGoal(g) PROVE Settled'
  <2>1. CASE changed
    BY <1>4, <2>1 DEF SendGoal, Settled
  <2>2. CASE ~changed
    <3>1. /\ hand = Cases[case] /\ goals'[g] # None /\ goals'[g].cancel = FALSE
          /\ \A h \in Slots : h # g => goals'[h] = None
      BY <1>4, <2>2, SentWhenOpen
    <3>2. lastSig' = hand /\ case' = case
      BY <1>4 DEF SendGoal
    <3>3. QED
      BY <3>1, <3>2 DEF Settled
  <2>3. QED
    BY <2>1, <2>2
<1>5. ASSUME NEW g \in Slots, GoalRejected(g) \/ GoalResult(g) PROVE Settled'
  <2>1. /\ goals' = [goals EXCEPT ![g] = None] /\ inProgress' = FALSE
        /\ lastSig' \in {lastSig, None} /\ UNCHANGED <<case, seen, changed>>
    BY <1>5 DEF GoalRejected, GoalResult, world
  <2>2. QED
    BY <2>1 DEF Settled, BridgeInv, TypeOK
<1>6. ASSUME NEW g \in Slots, GoalAccepted(g) \/ ServerAnswers(g) \/ ServerEnds(g) PROVE Settled'
  BY <1>6, GoesOnSettled
<1>7. QED
  BY <1>1, <1>2, <1>3, <1>4, <1>5, <1>6 DEF Next, BridgeStep

\* The new path of a case: a mission of its own, unless something is under way or the
\* path is that of the case before.
LEMMA NextCaseAssigns ==
  ASSUME MissionInv, NextCase, MissionStatus = Standing, (MissionStatus = Standing)'
  PROVE  Contract!Next \/ UNCHANGED Contract!vars
<1>1. /\ case' = case + 1 /\ case + 1 \in 1..Len(Cases) /\ seen /\ inbox' = Cases[case + 1]
      /\ changed' = (changed \/ (~Quiet /\ Cases[case + 1] # Cases[case]))
      /\ UNCHANGED <<hand, goals, inProgress, lastSig, lastOk>>
  BY BridgeAssumption DEF NextCase, bridge, MissionInv, BridgeInv, TypeOK
<1>2. Cases[case'] \in Paths /\ Cases[case'] # None /\ Cases[case] \in Paths
  BY <1>1, BridgeAssumption, PathOfCase DEF MissionInv, BridgeInv
<1>3. inbox' # None /\ Quiet' = FALSE /\ Quiet' \in BOOLEAN
  BY <1>1, <1>2 DEF Quiet
<1>4. CASE changed
  <2>1. Standing = "void" /\ Standing' = "void"
    BY <1>1, <1>4 DEF Standing
  <2>2. Contract!Adrift
    BY <1>2, <1>3, <2>1 DEF Contract!Adrift
  <2>3. QED
    BY <2>2 DEF Contract!Next
<1>5. CASE ~changed /\ Cases[case'] = Cases[case]
  <2>1. Standing' = Standing
    BY <1>1, <1>5 DEF Standing
  <2>2. Standing \in {"open", "done"} => Contract!Announce
    BY <1>3, <1>5, <2>1 DEF Contract!Announce
  <2>3. Standing \notin {"open", "done"} => Quiet = FALSE
    BY <1>5 DEF Standing, Quiet, Unresolved
  <2>4. QED
    BY <1>3, <1>5, <2>1, <2>2, <2>3 DEF Contract!Next, Contract!vars
<1>6. CASE ~changed /\ Cases[case'] # Cases[case] /\ Quiet
  <2>1. \A g \in Slots : goals[g] = None
    BY <1>6 DEF Quiet, Unresolved
  <2>2. lastSig \in {None, Cases[case]}
    BY <1>1, <1>6 DEF MissionInv, Settled
  <2>3. Standing # "void" /\ Standing' = "open"
    BY <1>1, <1>2, <1>6, <2>1, <2>2 DEF Standing
  <2>4. Contract!Assign
    BY <1>2, <1>3, <1>6, <2>3 DEF Contract!Assign
  <2>5. QED
    BY <2>4 DEF Contract!Next
<1>7. CASE ~changed /\ Cases[case'] # Cases[case] /\ ~Quiet
  <2>1. Standing # "void" /\ Standing' = "void"
    BY <1>1, <1>7 DEF Standing
  <2>2. Contract!Breach
    BY <1>2, <1>3, <1>7, <2>1 DEF Contract!Breach
  <2>3. QED
    BY <2>2 DEF Contract!Next
<1>8. QED
  BY <1>4, <1>5, <1>6, <1>7

\* A step that leaves goals and memory alone.
LEMMA AnnouncementsOnly ==
  ASSUME MissionInv, UNCHANGED <<case, changed, lastOk, lastSig>>,
         \A g \in Slots : goals'[g] # None <=> goals[g] # None,
         MissionStatus = Standing, (MissionStatus = Standing)'
  PROVE  Contract!Next \/ UNCHANGED Contract!vars
<1>1. Standing' = Standing /\ Cases[case'] = Cases[case]
  BY DEF Standing
<1>2. Quiet' \in BOOLEAN /\ Quiet \in BOOLEAN
  BY DEF Quiet
<1>3. CASE Standing \in {"open", "done"}
  <2>1. Contract!Announce
    BY <1>1, <1>2, <1>3 DEF Contract!Announce
  <2>2. QED
    BY <2>1 DEF Contract!Next
<1>4. CASE Standing = "void"
  <2>1. Cases[case] \in Paths
    BY PathOfCase DEF MissionInv, BridgeInv
  <2>2. Contract!Adrift
    BY <1>1, <1>2, <1>4, <2>1 DEF Contract!Adrift
  <2>3. QED
    BY <2>2 DEF Contract!Next
<1>5. CASE Standing = "driving"
  <2>1. Quiet = FALSE /\ Quiet' = FALSE
    BY <1>5 DEF Standing, Quiet, Unresolved
  <2>2. QED
    BY <1>1, <2>1 DEF Contract!vars
<1>6. QED
  BY <1>3, <1>4, <1>5 DEF Standing

LEMMA SendGoalStarts ==
  ASSUME MissionInv, NEW g \in Slots, SendGoal(g),
         MissionStatus = Standing, (MissionStatus = Standing)'
  PROVE  Contract!Next
<1>1. case' = case /\ changed' = changed /\ hand # None /\ Cases[case] \in Paths
  BY PathOfCase DEF SendGoal, MissionInv, BridgeInv
<1>2. CASE changed
  <2>1. Standing = "void" /\ Standing' = "void"
    BY <1>1, <1>2 DEF Standing
  <2>2. Contract!Adrift
    BY <1>1, <2>1 DEF Contract!Adrift
  <2>3. QED
    BY <2>2 DEF Contract!Next
<1>3. CASE ~changed
  <2>1. Standing = "open" /\ goals'[g] # None
    BY <1>3, SentWhenOpen
  <2>2. Standing' = "driving"
    BY <1>1, <1>3, <2>1 DEF Standing
  <2>3. Quiet = FALSE /\ Quiet' = FALSE
    BY <1>1, <2>1 DEF Quiet, Unresolved
  <2>4. Contract!Start
    BY <1>1, <2>1, <2>2, <2>3 DEF Contract!Start
  <2>5. QED
    BY <2>4 DEF Contract!Next
<1>4. QED
  BY <1>2, <1>3

LEMMA GoalDoneEnds ==
  ASSUME MissionInv, NEW g \in Slots, GoalRejected(g) \/ GoalResult(g),
         MissionStatus = Standing, (MissionStatus = Standing)'
  PROVE  Contract!Next
<1>1. /\ goals[g] # None /\ goals' = [goals EXCEPT ![g] = None]
      /\ case' = case /\ changed' = changed
      /\ Cases[case] \in Paths /\ Cases[case] # None /\ Quiet' \in BOOLEAN
  BY PathOfCase DEF GoalRejected, GoalResult, world, MissionInv, BridgeInv, Quiet
<1>2. CASE changed
  <2>1. Standing = "void" /\ Standing' = "void"
    BY <1>1, <1>2 DEF Standing
  <2>2. Contract!Adrift
    BY <1>1, <2>1 DEF Contract!Adrift
  <2>3. QED
    BY <2>2 DEF Contract!Next
<1>3. CASE ~changed
  <2>1. Standing = "driving"
    BY <1>1, <1>3 DEF Standing
  <2>2. \A h \in Slots : goals'[h] = None
    BY <1>1, <1>3 DEF MissionInv, BridgeInv, TypeOK, OneMission
  <2>3. CASE lastOk' /\ lastSig' = Cases[case]
    <3>1. Standing' = "done"
      BY <1>1, <1>3, <2>2, <2>3 DEF Standing
    <3>2. Contract!Succeed
      BY <1>1, <2>1, <3>1 DEF Contract!Succeed
    <3>3. QED
      BY <3>2 DEF Contract!Next
  <2>4. CASE ~(lastOk' /\ lastSig' = Cases[case])
    <3>1. Standing' = "open"
      BY <1>1, <1>3, <2>2, <2>4 DEF Standing
    <3>2. Contract!Fail
      BY <1>1, <2>1, <3>1 DEF Contract!Fail
    <3>3. QED
      BY <3>2 DEF Contract!Next
  <2>5. QED
    BY <2>3, <2>4
<1>4. QED
  BY <1>2, <1>3

LEMMA MissionStep ==
  MissionInv /\ MissionStatus = Standing /\ (MissionStatus = Standing)' /\ [Next]_vars
      => [Contract!Next]_(Contract!vars)
<1> SUFFICES ASSUME MissionInv, MissionStatus = Standing, (MissionStatus = Standing)', [Next]_vars
             PROVE  Contract!Next \/ UNCHANGED Contract!vars
  OBVIOUS
<1>1. CASE PublishPath \/ TakePath \/ ServerNotAvailable \/ SkipRepeatedPath \/ UNCHANGED vars
  <2>1. UNCHANGED <<case, changed, lastOk, lastSig, goals>>
    BY <1>1 DEF PublishPath, TakePath, ServerNotAvailable, SkipRepeatedPath, vars, world, bridge
  <2>2. QED
    BY <2>1, AnnouncementsOnly
<1>2. CASE NextCase
  BY <1>2, NextCaseAssigns
<1>3. ASSUME NEW g \in Slots, SendGoal(g) PROVE Contract!Next
  BY <1>3, SendGoalStarts
<1>4. ASSUME NEW g \in Slots, GoalRejected(g) \/ GoalResult(g) PROVE Contract!Next
  BY <1>4, GoalDoneEnds
<1>5. ASSUME NEW g \in Slots, GoalAccepted(g) \/ ServerAnswers(g) \/ ServerEnds(g)
      PROVE  Contract!Next \/ UNCHANGED Contract!vars
  <2>1. UNCHANGED <<case, changed, lastOk, lastSig>>
    BY <1>5 DEF GoalAccepted, ServerAnswers, ServerEnds, world, bridge
  <2>2. \A h \in Slots : goals'[h] # None <=> goals[h] # None
    BY <1>5, GoesOnSettled
  <2>3. QED
    BY <2>1, <2>2, AnnouncementsOnly
<1>6. QED
  BY <1>1, <1>2, <1>3, <1>4, <1>5 DEF Next, BridgeStep

\* The bridge keeps the contract of a mission, for any number of cases, paths and goals:
\* initial states map to initial states and every step to a step or a stutter.
THEOREM BridgeKeepsMission == Spec => MissionKept
<1>1. Spec => []MissionInv
  <2>1. Init => MissionInv
    BY MissionInit
  <2>2. QED
    BY <2>1, SettledStep, PTL DEF Spec
<1>2. Spec => [](MissionStatus = Standing)
  BY <1>1, MissionStands, PTL
<1>3. Init => Contract!Init
  BY MissionInit
<1>4. QED
  BY <1>1, <1>2, <1>3, MissionStep, PTL DEF Spec, MissionKept, Contract!Spec
===============================================================================
