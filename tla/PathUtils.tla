------------------------------- MODULE PathUtils -------------------------------
(***************************************************************************)
(* The functions of tools/utils.hpp the path critics share: nearest points *)
(* of a path, the validity of its points, the closest point along the      *)
(* integrated distance.                                                    *)
(*                                                                         *)
(* An array is a function on 0..n-1; an std::optional is a set of at most  *)
(* one value.  Points have integer coordinates.  Comparisons of distances  *)
(* are exact on squares; the integrated distances need the distances       *)
(* themselves, which are exact for paths parallel to an axis.              *)
(***************************************************************************)
EXTENDS Integers, FiniteSets

LETHAL_OBSTACLE             == 254
INSCRIBED_INFLATED_OBSTACLE == 253
NO_INFORMATION              == 255
OffMap                      == 256      \* worldToMap fails

Cells == 0..OffMap

Size(array)    == Cardinality(DOMAIN array)
LastIdx(array) == Size(array) - 1
Lowest(S)      == CHOOSE x \in S : \A y \in S : x <= y
Highest(S)     == CHOOSE x \in S : \A y \in S : y <= x
Value(option)  == CHOOSE v \in option : TRUE

Abs(x)        == IF x < 0 THEN -x ELSE x
Dist2(a, b)   == (a[1] - b[1]) * (a[1] - b[1]) + (a[2] - b[2]) * (a[2] - b[2])
Spacing(a, b) == Abs(a[1] - b[1]) + Abs(a[2] - b[2])

----------------------------------------------------------------------------
\* The first of the indices in I nearest to point: the comparison is strict.
FirstNearest(path, I, point) ==
    Lowest({j \in I : \A k \in I : Dist2(path[j], point) <= Dist2(path[k], point)})

\* Both overloads; an absent goal checker is a tolerance of 0.
WithinPositionGoalTolerance(tolerance, robot, path) ==
    Dist2(robot, path[LastIdx(path)]) < tolerance * tolerance

FindPathFurthestReachedPoint(path, rollouts) ==
    Highest({FirstNearest(path, DOMAIN path, r[LastIdx(r)]) : r \in rollouts})

\* All rollouts begin at the same point.
FindPathTrajectoryInitialPoint(path, rollouts) ==
    FirstNearest(path, DOMAIN path, (CHOOSE r \in rollouts : TRUE)[0])

Passable(cell, trackUnknown) ==
    /\ cell \notin {OffMap, LETHAL_OBSTACLE, INSCRIBED_INFLATED_OBSTACLE}
    /\ cell = NO_INFORMATION => trackUnknown

\* Mutant of FindPathCosts: unknown space counts as free.
FindPathCostsUnknownFree(path, cells, trackUnknown) ==
    [i \in 0..(LastIdx(path) - 1) |-> Passable(cells[path[i]], TRUE)]

\* The last pose is left out.
FindPathCosts(path, cells, trackUnknown) ==
    [i \in 0..(LastIdx(path) - 1) |-> Passable(cells[path[i]], trackUnknown)]

----------------------------------------------------------------------------
\* Distances along the first n poses, from the first.
IntegratedDistances(path, n) ==
    LET d[i \in 0..n] == IF i = 0 THEN 0 ELSE d[i - 1] + Spacing(path[i - 1], path[i])
    IN  [i \in 0..(n - 1) |-> d[i]]

\* std::lower_bound from init on; n is the end.
LowerBound(vec, n, dist, init) == Lowest({k \in init..n : k = n \/ vec[k] >= dist})

\* Mutant of ClosestPathPts: the point before the bound is never closer.
ClosestPathPtsBound(vec, n, dist, init) ==
    LET iter == LowerBound(vec, n, dist, init)
    IN  {IF iter = init THEN 0 ELSE iter}

\* findClosestPathPt: 0, not init, if the bound is where the search begins.  At
\* the end the value past the array is compared: either outcome is possible.
ClosestPathPts(vec, n, dist, init) ==
    LET iter == LowerBound(vec, n, dist, init)
    IN  IF iter = init THEN {0}
        ELSE IF iter = n THEN {n - 1, n}
        ELSE IF dist - vec[iter - 1] < vec[iter] - dist THEN {iter - 1} ELSE {iter}
===============================================================================
