-------------------------------- MODULE Critics --------------------------------
(***************************************************************************)
(* mppi::CriticManager and its critics over the iterations of one call:    *)
(* which critics score, on which pose of the path, and which rollouts they *)
(* take for collisions.  The critics share CriticData, whose two optional  *)
(* members are computed by the first critic that needs them; the two       *)
(* collision critics each keep a cost computed from the inflation layer    *)
(* from call to call.                                                      *)
(*                                                                         *)
(* The scores themselves are left out: a critic is added to scored when it *)
(* adds to costs_.  The costmap is locked during a call.                   *)
(***************************************************************************)
EXTENDS PathUtils, Sequences

CONSTANTS
    Setups,         \* parameters of the critics and the costmap's options
    Scenes,         \* what a call sees: path, robot, costmap, batches of rollouts
    Layers,         \* states of the inflation layer
    Radii,          \* circumscribed radii of the footprint
    InflationCost   \* computeCost(radius) of a layer, -1 without one

Collision == {"CostCritic", "ObstaclesCritic"}
Names == Collision \cup {"ConstraintCritic", "VelocityDeadbandCritic", "GoalCritic",
            "GoalAngleCritic", "PreferForwardCritic", "TwirlingCritic", "PathAlignCritic",
            "PathAlignLegacyCritic", "PathAngleCritic", "PathFollowCritic"}

\* No critic is listed twice; a batch has rollouts, and a scene the costs of every
\* point they visit.
ASSUME CriticsAssumption ==
    /\ InflationCost \in [Layers -> [Radii -> -1..252]]
    /\ \A s \in Setups : /\ s.step \in Nat \ {0} /\ s.iterations \in Nat
                         /\ s.offset["PathAlignCritic"] > 0
                         /\ \A c \in Names : s.threshold[c] \in Nat /\ s.offset[c] \in Nat
                         /\ s.order \in Seq(Names)
                         /\ \A i, j \in DOMAIN s.order : s.order[i] = s.order[j] => i = j
    /\ Scenes # {}
    /\ \A s \in Scenes : /\ LastIdx(s.path) \in Nat /\ s.path \in [0..LastIdx(s.path) -> Int \X Int]
                         /\ s.robot \in Int \X Int
                         /\ \A p \in DOMAIN s.cells : s.cells[p] \in Cells
                         /\ {} \notin s.batches
                         /\ \A b \in s.batches : \A r \in b :
                               /\ LastIdx(r) \in Nat /\ r \in [0..LastIdx(r) -> Int \X Int]
                               /\ \A t \in DOMAIN r : r[t] \in DOMAIN s.cells

VARIABLES
    pc,         \* "unconfigured", "idle", "rollout" or "score"
    setup,      \* the parameters in force
    layer, radius,  \* the inflation layer and the footprint
    cache,      \* per collision critic: circumscribed_radius_ and _cost_, and
                \* (history) the layer the cost was computed from
    scene,      \* the arguments of the call
    rollouts,   \* the current batch
    data,       \* CriticData: fail_flag, furthest_reached_path_point, path_pts_valid
    q,          \* the next critic of the list
    iter,       \* iterations begun
    scored,     \* critics that have added to the costs of this batch
    target,     \* the pose PathFollow drives to
    aligned,    \* what PathAlign has compared: a distance and a path point
    touched,    \* indices of path_pts_valid read on this batch
    batches,    \* history: the batches of this call
    missed      \* history: collision critics that overlooked a collision

callVars == <<scene, rollouts, data, q, iter, scored, target, aligned, touched, batches, missed>>
vars     == <<pc, setup, layer, radius, cache, callVars>>

Threshold == InflationCost[layer][radius]
Path      == scene.path
NoData    == [fail |-> FALSE, furthest |-> {}, valid |-> {}]

Init ==
    /\ pc = "unconfigured"
    /\ setup \in Setups /\ layer \in Layers /\ radius \in Radii
    /\ cache = [c \in Collision |-> [radius |-> 0, cost |-> 0, layer |-> layer]]
    /\ scene = (CHOOSE s \in Scenes : TRUE) /\ rollouts = {} /\ data = NoData /\ q = 1 /\ iter = 0
    /\ scored = {} /\ target = {} /\ aligned = {} /\ touched = {} /\ batches = {} /\ missed = {}

----------------------------------------------------------------------------
(* The circumscribed cost.                                                  *)

\* CostCritic recomputes when the radius has changed, to whatever value.
FindCircumscribedCost(c) ==
    IF c.radius = radius THEN c ELSE [radius |-> radius, cost |-> Threshold, layer |-> layer]

\* Mutant: the radius of an unusable cost is remembered as well.
FindCircumscribedCostObstaclesOnce(c) ==
    IF c.radius = radius THEN c ELSE [radius |-> radius, cost |-> Threshold, layer |-> layer]

\* ObstaclesCritic also recomputes an unusable cost, whose radius it forgets.
FindCircumscribedCostObstacles(c) ==
    IF c.radius = radius /\ c.cost >= 1 THEN c
    ELSE [radius |-> IF Threshold >= 1 THEN radius ELSE c.radius,
          cost   |-> Threshold, layer |-> layer]

Refreshed(critic) ==
    IF critic = "CostCritic" THEN FindCircumscribedCost(cache[critic])
                             ELSE FindCircumscribedCostObstacles(cache[critic])

Loaded(critic) == \E i \in DOMAIN setup.order : setup.order[i] = critic

\* on_configure of the critics.  A collision critic throws if it is to check a
\* footprint the costmap does not have.
Configure ==
    /\ pc = "unconfigured"
    /\ cache' = [c \in Collision |-> IF Loaded(c) THEN Refreshed(c) ELSE cache[c]]
    /\ pc' = IF setup.useRadius /\ setup.considerFootprint /\ (\E c \in Collision : Loaded(c))
             THEN "unconfigured" ELSE "idle"
    /\ UNCHANGED <<setup, layer, radius, callVars>>

\* External: the inflation layer becomes ready or is reconfigured, the footprint changes.
CostmapChanges ==
    /\ pc \in {"unconfigured", "idle"}
    /\ layer' \in Layers /\ radius' \in Radii
    /\ UNCHANGED <<pc, setup, cache, callVars>>

----------------------------------------------------------------------------
(* The frame of a call: prepare, optimize, evalTrajectoriesScores.          *)

\* The centre of a footprint that touches an obstacle is within the
\* circumscribed radius of it, and has at least the cost of that distance.
Inflated(s) == \A p \in DOMAIN s.cells : s.foot[p] = LETHAL_OBSTACLE => s.cells[p] >= Threshold

\* Mutant of Prepare: the optional members are not reset.
PrepareKeepsPath ==
    /\ pc = "idle" /\ setup.iterations > 0
    /\ pc' = "rollout"
    /\ scene' \in {s \in Scenes : Inflated(s)}
    /\ data' = [data EXCEPT !.fail = FALSE]
    /\ UNCHANGED <<setup, layer, radius, cache, rollouts, q, iter, scored, target, aligned, touched,
                   batches, missed>>

Prepare ==
    /\ pc = "idle" /\ setup.iterations > 0
    /\ pc' = "rollout"
    /\ scene' \in {s \in Scenes : Inflated(s)}
    /\ data' = NoData
    /\ UNCHANGED <<setup, layer, radius, cache, rollouts, q, iter, scored, target, aligned, touched,
                   batches, missed>>

GenerateNoisedTrajectories ==
    /\ pc = "rollout"
    /\ pc' = "score"
    /\ rollouts' \in scene.batches /\ batches' = batches \cup {rollouts'}
    /\ iter' = iter + 1
    /\ UNCHANGED <<setup, layer, radius, cache, scene, data, q, scored, target, aligned, touched, missed>>

\* What concerns one batch only.
BatchDone ==
    /\ rollouts' = {} /\ q' = 1
    /\ scored' = {} /\ target' = {} /\ aligned' = {} /\ touched' = {} /\ missed' = {}

\* The list is at its end, or a collision critic has vetoed: another iteration, or
\* the end of the call.
ScoresDone ==
    /\ pc = "score"
    /\ q > Len(setup.order) \/ data.fail
    /\ IF iter < setup.iterations /\ ~data.fail
       THEN pc' = "rollout" /\ UNCHANGED <<iter, batches>>
       ELSE pc' = "idle" /\ iter' = 0 /\ batches' = {}
    /\ BatchDone
    /\ UNCHANGED <<setup, layer, radius, cache, scene, data>>

\* Critic c is called; one that is not enabled returns.
Called(c) == pc = "score" /\ ~data.fail /\ q <= Len(setup.order) /\ setup.order[q] = c
Enabled(c) == c \in setup.enabled
Near(c) == WithinPositionGoalTolerance(setup.threshold[c], scene.robot, Path)

Scores(c, does) ==
    /\ scored' = IF does THEN scored \cup {c} ELSE scored
    /\ q' = q + 1
    /\ UNCHANGED <<pc, setup, layer, radius, cache, scene, rollouts, iter, batches>>

SetPathFurthestPointIfNotSet(d) ==
    IF d.furthest # {} THEN d
    ELSE [d EXCEPT !.furthest = {FindPathFurthestReachedPoint(Path, rollouts)}]

SetPathCostsIfNotSet(d) ==
    IF d.valid # {} THEN d
    ELSE [d EXCEPT !.valid = {FindPathCosts(Path, scene.cells, setup.trackUnknown)}]

Untouched == UNCHANGED <<data, target, aligned, touched, missed>>

----------------------------------------------------------------------------
(* Critics that look at no path point but the goal.                         *)

\* Every batch is scored, by how far its velocities are out of bounds.
ScoresAlways(c) == Called(c) /\ Scores(c, Enabled(c)) /\ Untouched

ConstraintCritic       == ScoresAlways("ConstraintCritic")
VelocityDeadbandCritic == ScoresAlways("VelocityDeadbandCritic")

\* Mutant of ScoresNear: the test of the distance is inverted.
ScoresNearInverted(c) == Called(c) /\ Scores(c, Enabled(c) /\ ~Near(c)) /\ Untouched

\* Only with the robot near the goal.
ScoresNear(c) == Called(c) /\ Scores(c, Enabled(c) /\ Near(c)) /\ Untouched

GoalCritic      == ScoresNear("GoalCritic")
GoalAngleCritic == ScoresNear("GoalAngleCritic")

\* Only until then.
ScoresFar(c) == Called(c) /\ Scores(c, Enabled(c) /\ ~Near(c)) /\ Untouched

PreferForwardCritic == ScoresFar("PreferForwardCritic")

\* The tolerance is the goal checker's.
TwirlingCritic == ScoresFar("TwirlingCritic")

----------------------------------------------------------------------------
(* Critics of the path.                                                     *)

PathCriticReturns(c) ==
    /\ Called(c) /\ (~Enabled(c) \/ Near(c))
    /\ Scores(c, FALSE) /\ Untouched

\* Too many poses between the robot and the furthest reached one are occupied.
Occupied(d) ==
    LET furthest == Value(d.furthest)
        initial  == FindPathTrajectoryInitialPoint(Path, rollouts)
        invalid  == Cardinality({i \in initial..(furthest - 1) : ~Value(d.valid)[i]})
    IN  invalid > 2 /\ invalid * 100 > setup.occupancy * (furthest - initial)

\* The returns PathAlign and PathAlignLegacy have in common, with what they have
\* computed by then.
AlignReturns(c) ==
    \/ PathCriticReturns(c)
    \/ LET d1 == SetPathFurthestPointIfNotSet(data)
           d2 == SetPathCostsIfNotSet(d1)
       IN  /\ Called(c) /\ Enabled(c) /\ ~Near(c)
           /\ \/ Value(d1.furthest) < setup.offset[c] /\ data' = d1
              \/ Value(d1.furthest) >= setup.offset[c] /\ Occupied(d2) /\ data' = d2
           /\ Scores(c, FALSE)
           /\ UNCHANGED <<target, aligned, touched, missed>>

Aligns(c, d) ==
    /\ Called(c) /\ Enabled(c) /\ ~Near(c)
    /\ Value(d.furthest) >= setup.offset[c] /\ ~Occupied(d)
    /\ data' = d

\* The sampled steps of a rollout and the distance travelled to each.
Samples(r) == {p \in DOMAIN r : p >= setup.step /\ p % setup.step = 0}
Travelled(r) ==
    LET d[p \in 0..LastIdx(r)] ==
            IF p < setup.step THEN 0 ELSE d[p - setup.step] + Spacing(r[p - setup.step], r[p])
    IN  [p \in Samples(r) |-> d[p]]

\* The path points a rollout is compared with, each found from the last one.
Alignments(r, vec, n) ==
    {f \in [Samples(r) -> 0..n] : \A p \in Samples(r) :
        f[p] \in ClosestPathPts(vec, n, Travelled(r)[p],
                                IF p - setup.step \in Samples(r) THEN f[p - setup.step] ELSE 0)}

PathAlignCritic ==
    \/ AlignReturns("PathAlignCritic")
    \/ LET d   == SetPathCostsIfNotSet(SetPathFurthestPointIfNotSet(data))
           n   == Value(d.furthest)
           vec == IntegratedDistances(Path, n)
       IN  /\ Aligns("PathAlignCritic", d)
           /\ \E f \in [rollouts -> UNION {Alignments(r, vec, n) : r \in rollouts}] :
                /\ \A r \in rollouts : f[r] \in Alignments(r, vec, n)
                /\ aligned' = UNION {{[dist |-> Travelled(r)[p], point |-> f[r][p]] :
                                        p \in Samples(r)} : r \in rollouts}
           /\ touched' = touched \cup {a.point : a \in aligned'}
           /\ Scores("PathAlignCritic", TRUE)
           /\ UNCHANGED <<target, missed>>

\* The poses the legacy critic searches: all but the last two.
LegacyPoses == 0..(LastIdx(Path) - 2)

\* A nearest pose that is the first one does not count.  (Angles count for
\* nearness only with use_path_orientations, off by default, which is left out.)
PathAlignLegacyCritic ==
    \/ AlignReturns("PathAlignLegacyCritic")
    \/ LET d     == SetPathCostsIfNotSet(SetPathFurthestPointIfNotSet(data))
           near  == IF LegacyPoses = {} THEN {0}
                    ELSE UNION {{FirstNearest(Path, LegacyPoses, r[p]) : p \in Samples(r)} : r \in rollouts}
       IN  /\ Aligns("PathAlignLegacyCritic", d)
           /\ touched' = touched \cup (near \ {0})
           /\ Scores("PathAlignLegacyCritic", LastIdx(Path) >= 1)
           /\ UNCHANGED <<target, aligned, missed>>

\* Nothing to correct if the robot faces the pose (facing is left open).
PathAngleCritic ==
    LET c == "PathAngleCritic" IN
    \/ PathCriticReturns(c)
    \/ \E facing \in BOOLEAN :
        /\ Called(c) /\ Enabled(c) /\ ~Near(c)
        /\ data' = SetPathFurthestPointIfNotSet(data)
        /\ Scores(c, ~facing)
        /\ UNCHANGED <<target, aligned, touched, missed>>

\* The pose furthest reached plus the offset, or the last one.
Offseted(d, c) == Lowest({Value(d.furthest) + setup.offset[c], LastIdx(Path)})

\* The first valid pose from there on, but for the last two.
PathFollowCritic ==
    LET c  == "PathFollowCritic"
        d  == SetPathCostsIfNotSet(SetPathFurthestPointIfNotSet(data))
        i0 == Offseted(d, c)
        to == IF i0 >= LastIdx(Path) - 1 THEN i0
              ELSE Lowest({j \in i0..(LastIdx(Path) - 1) :
                              j = LastIdx(Path) - 1 \/ Value(d.valid)[j]})
    IN  \/ PathCriticReturns(c)
        \/ /\ Called(c) /\ Enabled(c) /\ ~Near(c)
           /\ IF Size(Path) < 2
              THEN Scores(c, FALSE) /\ Untouched
              ELSE /\ data' = d /\ target' = {to}
                   /\ touched' = touched \cup (i0..to \cap 0..(LastIdx(Path) - 2))
                   /\ Scores(c, TRUE)
                   /\ UNCHANGED <<aligned, missed>>

----------------------------------------------------------------------------
(* The collision critics.                                                   *)

InCollision(cost) ==
    \/ cost = LETHAL_OBSTACLE
    \/ cost = INSCRIBED_INFLATED_OBSTACLE /\ ~setup.considerFootprint
    \/ cost = NO_INFORMATION /\ ~setup.trackUnknown

CostAtPose(p) == IF scene.cells[p] = OffMap THEN NO_INFORMATION ELSE scene.cells[p]

\* The footprint is checked where the cost of its centre allows a collision.
FootprintCost(p, cost, circumscribed) ==
    IF setup.considerFootprint /\ (cost >= circumscribed \/ circumscribed < 1)
    THEN scene.foot[p] ELSE cost

\* CostCritic passes over a free centre before it looks at the footprint.
CollidesCost(p, circumscribed) ==
    CostAtPose(p) >= 1 /\ InCollision(FootprintCost(p, CostAtPose(p), circumscribed))

\* Mutant of CollidesObstacles: the same in ObstaclesCritic.
CollidesObstaclesFreeCentre(p, circumscribed) ==
    CostAtPose(p) >= 1 /\ InCollision(FootprintCost(p, CostAtPose(p), circumscribed))

\* ObstaclesCritic checks no footprint off the map.
CollidesObstacles(p, circumscribed) ==
    InCollision(IF scene.cells[p] = OffMap THEN NO_INFORMATION
                ELSE FootprintCost(p, scene.cells[p], circumscribed))

Collides(c, r, circumscribed) ==
    \E t \in DOMAIN r : IF c = "CostCritic" THEN CollidesCost(r[t], circumscribed)
                                            ELSE CollidesObstacles(r[t], circumscribed)

\* Where the robot may not be, and where it touches an obstacle, on the map.
Forbidden(p) ==
    /\ scene.cells[p] # OffMap
    /\ InCollision(IF setup.considerFootprint THEN scene.foot[p] ELSE scene.cells[p])
Touches(p) == Forbidden(p) /\ (setup.considerFootprint => scene.foot[p] = LETHAL_OBSTACLE)

AllCollide(hit) == hit = rollouts

\* score() of a collision critic.
CollisionCritic(c, fresh) ==
    LET hit == {r \in rollouts : Collides(c, r, fresh.cost)}
    IN  /\ Called(c) /\ Enabled(c)
        /\ cache' = [cache EXCEPT ![c] = fresh]
        /\ data' = [data EXCEPT !.fail = AllCollide(hit)]
        /\ missed' = IF \E r \in rollouts \ hit : \E t \in DOMAIN r : Touches(r[t])
                     THEN missed \cup {c} ELSE missed \ {c}
        /\ scored' = scored \cup {c} /\ q' = q + 1
        /\ UNCHANGED <<pc, setup, layer, radius, scene, rollouts, iter, batches, target, aligned, touched>>

Disabled(c) == Called(c) /\ ~Enabled(c) /\ Scores(c, FALSE) /\ Untouched

\* CostCritic looks for a new cost only with a footprint to check.
CostCritic ==
    \/ Disabled("CostCritic")
    \/ CollisionCritic("CostCritic",
                       IF setup.considerFootprint THEN Refreshed("CostCritic") ELSE cache["CostCritic"])

ObstaclesCritic ==
    \/ Disabled("ObstaclesCritic")
    \/ CollisionCritic("ObstaclesCritic", Refreshed("ObstaclesCritic"))

----------------------------------------------------------------------------
Next ==
    \/ Configure \/ CostmapChanges
    \/ Prepare \/ GenerateNoisedTrajectories \/ ScoresDone
    \/ ConstraintCritic \/ VelocityDeadbandCritic
    \/ GoalCritic \/ GoalAngleCritic \/ PreferForwardCritic \/ TwirlingCritic
    \/ PathAlignCritic \/ PathAlignLegacyCritic \/ PathAngleCritic \/ PathFollowCritic
    \/ CostCritic \/ ObstaclesCritic

Spec == Init /\ [][Next]_vars

----------------------------------------------------------------------------
(* Properties                                                               *)

TypeOK ==
    /\ pc \in {"unconfigured", "idle", "rollout", "score"}
    /\ setup \in Setups /\ layer \in Layers /\ radius \in Radii /\ scene \in Scenes
    /\ \A c \in Collision : /\ cache[c].radius \in Radii \cup {0} /\ cache[c].cost \in -1..252
                            /\ cache[c].layer \in Layers
    /\ data.fail \in BOOLEAN
    /\ q \in 1..(Len(setup.order) + 1) /\ iter \in 0..setup.iterations
    /\ scored \subseteq Names /\ missed \subseteq Collision /\ Cardinality(target) <= 1

Scored == pc = "score" /\ q > Len(setup.order) /\ ~data.fail

\* The furthest reached point all path critics start from is a pose of the path of
\* this call, nearest to the end of a rollout of this call (in later iterations of
\* an earlier batch: it is not computed again).
FurthestOfThisCall ==
    pc \in {"rollout", "score"} =>
        \A f \in data.furthest : \E b \in batches : f = FindPathFurthestReachedPoint(Path, b)

\* path_pts_valid has an entry for every pose but the last.  The critics do read it
\* beyond its end (undefined behaviour): PathAlign may, at the last pose, when a rollout
\* runs past the furthest point and that is the last pose, as on any approach to
\* the end of a path.  That is the only index out of bounds, and the only way to it.
ValidOverreadAtEndOnly ==
    \A i \in touched : i >= LastIdx(Path) =>
        /\ i = LastIdx(Path) /\ data.furthest = {i}
        /\ \E a \in aligned : a.point = i /\ \A j \in 0..(i - 1) :
               a.dist > IntegratedDistances(Path, i)[j]

\* The data the critics share, computed by whichever critic of the list needs them
\* first and reset for the next call only, belongs to the path and to a batch of this
\* call wherever it is used, with any list of critics, any of them disabled or
\* returning early, and after a veto; what is read beyond its end is only PathAlign's
\* read at the last pose.
SharedDataOfThisCall == TypeOK /\ FurthestOfThisCall /\ ValidOverreadAtEndOnly

\* "find closest path point along integrated distances": PathAlign compares a
\* rollout with the point nearest in distance travelled, or with the first one, or
\* with the end of the part of the path it looks at.
AlignedToNearest ==
    \A a \in aligned :
        LET n == Value(data.furthest)  vec == IntegratedDistances(Path, n) IN
        \/ a.point \in {0, n}
        \/ \A j \in 0..(n - 1) : Abs(vec[a.point] - a.dist) <= Abs(vec[j] - a.dist)

\* "Drive to the first valid path point": PathFollow drives to a pose at or beyond
\* the furthest reached one, free in the costmap unless it is one of the last two,
\* and skips no free pose between its offset and there.
FollowsFirstFree ==
    \A t \in target :
        LET Free(i) == Passable(scene.cells[Path[i]], setup.trackUnknown)
            i0      == Offseted(data, "PathFollowCritic")
        IN  /\ t \in 0..LastIdx(Path) /\ t >= Value(data.furthest)
            /\ t < LastIdx(Path) - 1 => Free(t)
            /\ \A i \in i0..(t - 1) : ~Free(i)

\* A critic draws the robot along the path or to the goal in every batch that is not
\* vetoed, if GoalCritic takes over no later than PathFollow lets go and the path
\* has two poses.  (The defaults, 1.4 and 1.4, meet the premise; the parameters the
\* benchmark ships in mppi_nav2_params.yaml, 0.5 and 1.4, do not.)
SomeoneDrives ==
    /\ Scored /\ Size(Path) >= 2
    /\ \A c \in {"GoalCritic", "PathFollowCritic"} : Loaded(c) /\ Enabled(c)
    /\ setup.threshold["GoalCritic"] >= setup.threshold["PathFollowCritic"]
    => scored \cap {"GoalCritic", "PathFollowCritic"} # {}

\* A collision of a rollout goes unnoticed only where the cached cost belongs to
\* an inflation layer that has been reconfigured since, or (CostCritic) where
\* there is no usable inflation and the centre of the footprint is free.
CollisionsSeen ==
    pc = "score" => \A c \in missed :
        \/ cache[c].layer # layer
        \/ c = "CostCritic" /\ Threshold < 1

\* A veto is right: every rollout of the batch goes where it may not or off the map.
VetoJustified ==
    pc = "score" /\ data.fail =>
        \A r \in rollouts : \E t \in DOMAIN r : Forbidden(r[t]) \/ scene.cells[r[t]] = OffMap

\* What the collision critics say of a batch is right but for those two gaps: no
\* collision goes unnoticed, and no batch is vetoed that has a rollout to drive.
CollisionsJudged == CollisionsSeen /\ VetoJustified

\* "we retry next cycle if not ready yet": ObstaclesCritic does not score with an
\* unusable cost once the inflation layer provides one.
ObstaclesRecovers ==
    pc = "score" /\ "ObstaclesCritic" \in scored /\ cache["ObstaclesCritic"].cost < 1
        => Threshold < 1
===============================================================================
