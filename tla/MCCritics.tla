------------------------------- MODULE MCCritics -------------------------------
(* Paths of one to seven poses along a corridor, seen clear, blocked, unknown  *)
(* ahead, touching only with the footprint, and near the goal; rollouts that *)
(* stop, follow, overrun the path, or collide; two critic lists.             *)
EXTENDS Critics

At(xs) == [i \in 0..(Len(xs) - 1) |-> <<xs[i + 1], 0>>]
Corridor == (0..12) \X {0}
Cost(default, special) == [p \in Corridor |-> IF p[1] \in DOMAIN special THEN special[p[1]] ELSE default]
Nowhere == [x \in {} |-> 0]

Long  == At(<<0, 1, 4, 6, 8, 10, 12>>)
Short == At(<<0, 2>>)
Point == At(<<6>>)

\* From x by so much, and so much in all, to the end of the corridor at most.
Go(x, half, all) == At(<<x, Lowest({x + half, 12}), Lowest({x + all, 12})>>)
Stay(x)    == Go(x, 0, 0)
Slow(x)    == Go(x, 1, 2)
Fast(x)    == Go(x, 4, 8)
Overrun(x) == Go(x, 5, 12)

Blocked == [x \in 3..9 |-> IF x = 6 THEN 254 ELSE IF x \in 5..7 THEN 253 ELSE 120]
Scene(path, x, cells, foot) ==
    [path |-> path, robot |-> <<x, 0>>, cells |-> cells, foot |-> foot,
     batches |-> {{Stay(x), Slow(x)}, {Slow(x), Fast(x)}, {Overrun(x)}, {Fast(x), Overrun(x)}}]

MCScenes ==
    { Scene(Long, 0, Cost(0, Nowhere), Cost(0, Nowhere)),
      Scene(Long, 0, Cost(0, Blocked), Cost(0, [x \in 4..8 |-> 254])),
      Scene(Long, 0, Cost(0, [x \in 3..12 |-> 255]), Cost(0, [x \in 3..12 |-> 255])),
      Scene(Long, 9, Cost(1, [x \in 1..12 |-> 60]), Cost(1, [x \in {2, 4, 5} |-> 254])),
      Scene(Long, 0, Cost(0, Nowhere), Cost(0, [x \in {1, 4, 5} |-> 254])),
      Scene(Short, 0, Cost(0, [x \in {12} |-> 256]), Cost(0, [x \in {12} |-> 254])),
      Scene(Short, 1, Cost(0, [x \in 1..2 |-> 253]), Cost(0, [x \in 1..2 |-> 253])),
      Scene(Point, 0, Cost(0, Nowhere), Cost(0, Nowhere)) }

MCLayers == {"unready", "wide", "narrow"}
MCRadii  == {1, 2}
MCInflationCost ==
    [l \in MCLayers |-> [r \in MCRadii |->
        CASE l = "unready" -> -1
          [] l = "wide" -> 110 - 10 * r [] l = "narrow" -> 60 - 10 * r]]

Thresholds(goal, follow) ==
    [c \in Names |-> CASE c \in {"GoalCritic", "GoalAngleCritic"} -> goal
                       [] c = "PathFollowCritic" -> follow [] OTHER -> 2]

Default == [order |-> <<"ConstraintCritic", "CostCritic", "GoalCritic", "PathAlignCritic",
                        "PathFollowCritic", "PathAngleCritic", "PreferForwardCritic">>,
            enabled |-> Names, considerFootprint |-> TRUE, useRadius |-> FALSE,
            trackUnknown |-> FALSE, threshold |-> Thresholds(3, 3),
            offset |-> [c \in Names |-> IF c = "PathFollowCritic" THEN 2 ELSE 1], step |-> 1, occupancy |-> 10, iterations |-> 2]

MCSetups ==
    { Default,
      [Default EXCEPT !.order = <<"ObstaclesCritic", "PathFollowCritic", "GoalCritic",
                                  "PathAlignLegacyCritic", "TwirlingCritic">>,
                      !.threshold = Thresholds(2, 4), !.trackUnknown = TRUE],
      [Default EXCEPT !.order = <<"PathAlignLegacyCritic", "VelocityDeadbandCritic", "PathAngleCritic",
                                  "GoalAngleCritic", "ObstaclesCritic", "CostCritic">>,
                      !.considerFootprint = FALSE, !.useRadius = TRUE, !.iterations = 1,
                      !.enabled = Names \ {"CostCritic"}],
      [Default EXCEPT !.useRadius = TRUE] }
===============================================================================
