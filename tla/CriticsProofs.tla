------------------------------- MODULE CriticsProofs -------------------------------
(***************************************************************************)
(* What the critics promise for every list of them, every path and costmap *)
(* and every batch of rollouts: that the searches they share find what     *)
(* they look for, that one critic drives the robot, that collisions are    *)
(* judged rightly with the cost kept from an earlier call, and that the    *)
(* data one critic leaves for the next is that of this call.               *)
(***************************************************************************)
EXTENDS Critics, WellFoundedInduction, FiniteSetTheorems, TLAPS

----------------------------------------------------------------------------
(* Least elements, and sums along a path.                                    *)

\* Induction over an array is by its least counterexample.
LEMMA LeastNat ==
  ASSUME NEW S, S \subseteq Nat, S # {}
  PROVE  \E x \in S : \A y \in S : x <= y
<1>1. PICK x \in S : \A y \in S : <<y, x>> \notin OpToRel(<, Nat)
  BY WFMin, NatLessThanWellFounded
<1>2. \A y \in S : ~(y < x)
  BY <1>1 DEF OpToRel
<1>3. QED
  BY <1>2

LEMMA LowestSound ==
  ASSUME NEW S, S \subseteq Nat, S # {}
  PROVE  Lowest(S) \in S /\ \A y \in S : Lowest(S) <= y
<1>1. \E x \in S : \A y \in S : x <= y
  BY LeastNat
<1>2. QED
  BY <1>1 DEF Lowest

LEMMA HighestSound ==
  ASSUME NEW n \in Nat, NEW S, S \subseteq 0..n, S # {}
  PROVE  Highest(S) \in S
<1> DEFINE D == {n - x : x \in S}
<1>0. \A x \in S : x \in Int /\ n - x \in Nat
  OBVIOUS
<1>1. D \subseteq Nat /\ D # {}
  BY <1>0
<1> HIDE DEF D
<1>2. PICK d \in D : \A e \in D : d <= e
  BY <1>1, LeastNat
<1>3. PICK x \in S : d = n - x
  BY DEF D
<1>4. \A y \in S : n - x <= n - y
  BY <1>2, <1>3 DEF D
<1>5. \A y \in S : y <= x
  BY <1>0, <1>4
<1>6. QED
  BY <1>5 DEF Highest

\* A running sum of s with stride k: the entries up to the stride are 0.
IsSum(f, m, k, s) == f = [p \in 0..m |-> IF p < k THEN 0 ELSE f[p - k] + s[p]]

\* There is such a function, up to any m.
LEMMA SumExists ==
  ASSUME NEW m \in Nat, NEW k \in Nat \ {0}, NEW s \in [0..m -> Nat]
  PROVE  \E f \in [0..m -> Nat] : IsSum(f, m, k, s)
<1> DEFINE None == {j \in 0..m : ~ \E f \in [0..j -> Nat] : IsSum(f, j, k, s)}
<1>1. None \subseteq Nat
  OBVIOUS
<1>2. ASSUME NEW x \in None, \A y \in None : x <= y
      PROVE  FALSE
  <2>1. CASE x = 0
    <3>1. [p \in 0..0 |-> 0] \in [0..0 -> Nat] /\ IsSum([p \in 0..0 |-> 0], 0, k, s)
      BY DEF IsSum
    <3>2. QED
      BY <2>1, <3>1
  <2>2. CASE x # 0
    <3>0. x \in 1..m /\ x - 1 \in 0..m /\ ~(x <= x - 1)
      BY <2>2
    <3>1. x - 1 \in 0..m /\ x - 1 \notin None /\ x \in 1..m
      <4> HIDE DEF None
      <4>1. QED
        BY <1>2, <3>0
    <3>2. PICK g \in [0..(x - 1) -> Nat] : IsSum(g, x - 1, k, s)
      BY <3>1
    <3> DEFINE last == IF x < k THEN 0 ELSE g[x - k] + s[x]
               f == [p \in 0..x |-> IF p = x THEN last ELSE g[p]]
    <3>3. last \in Nat
      BY <3>1, <3>2
    <3> HIDE DEF last
    <3>4. f \in [0..x -> Nat]
      BY <3>1, <3>2, <3>3
    <3>5. \A p \in 0..x : f[p] = IF p < k THEN 0 ELSE f[p - k] + s[p]
      <4> SUFFICES ASSUME NEW p \in 0..x
                   PROVE  f[p] = IF p < k THEN 0 ELSE f[p - k] + s[p]
        OBVIOUS
      <4>1. CASE p = x
        BY <3>1, <4>1 DEF last
      <4>2. CASE p # x
        <5>1. p \in 0..(x - 1) /\ f[p] = g[p]
          BY <3>1, <4>2
        <5>2. g[p] = IF p < k THEN 0 ELSE g[p - k] + s[p]
          BY <3>2, <5>1 DEF IsSum
        <5>3. p >= k => f[p - k] = g[p - k]
          BY <3>1, <5>1
        <5>4. QED
          BY <5>1, <5>2, <5>3
      <4>3. QED
        BY <4>1, <4>2
    <3>6. IsSum(f, x, k, s)
      BY <3>4, <3>5 DEF IsSum
    <3>7. QED
      BY <3>4, <3>6
  <2>3. QED
    BY <2>1, <2>2
<1>3. m \notin None
  <2> HIDE DEF None
  <2>1. QED
    BY <1>1, <1>2, LeastNat
<1>4. QED
  BY <1>3

\* It is a sum of naturals, and with stride 1 it does not decrease.
LEMMA SumSound ==
  ASSUME NEW m \in Nat, NEW k \in Nat \ {0}, NEW s \in [0..m -> Nat], NEW f, IsSum(f, m, k, s)
  PROVE  /\ f \in [0..m -> Nat]
         /\ k = 1 => \A i, j \in 0..m : i <= j => f[i] <= f[j]
<1>1. \A p \in 0..m : f[p] = IF p < k THEN 0 ELSE f[p - k] + s[p]
  BY DEF IsSum
<1>2. f \in [0..m -> Nat]
  <2> DEFINE Bad == {p \in 0..m : f[p] \notin Nat}
  <2>1. Bad \subseteq Nat
    OBVIOUS
  <2>2. ASSUME NEW x \in Bad, \A y \in Bad : x <= y
        PROVE  FALSE
    <3>1. x >= k => x - k \in 0..m /\ x - k \notin Bad
      BY <2>2
    <3>2. QED
      BY <1>1, <3>1
  <2>3. Bad = {}
    <3> HIDE DEF Bad
    <3>1. QED
      BY <2>1, <2>2, LeastNat
  <2>4. f = [p \in 0..m |-> f[p]]
    BY DEF IsSum
  <2>5. QED
    BY <2>3, <2>4
<1>3. ASSUME k = 1, NEW i \in 0..m
      PROVE  \A j \in 0..m : i <= j => f[i] <= f[j]
  <2> DEFINE Bad == {j \in 0..m : i <= j /\ ~(f[i] <= f[j])}
  <2>1. Bad \subseteq Nat
    OBVIOUS
  <2>2. ASSUME NEW x \in Bad, \A y \in Bad : x <= y
        PROVE  FALSE
    <3>0. x \in 0..m /\ i <= x /\ ~(f[i] <= f[x]) /\ f[i] <= f[i]
      BY <1>2, <2>2
    <3>1. x \in 1..m /\ i <= x - 1 /\ x - 1 \in 0..m /\ x - 1 \notin Bad
      <4>1. x # i
        BY <3>0
      <4>2. x \in 1..m /\ i <= x - 1 /\ x - 1 \in 0..m /\ ~(x <= x - 1)
        BY <3>0, <4>1
      <4> HIDE DEF Bad
      <4>3. QED
        BY <2>2, <4>2
    <3>2. f[x] = f[x - 1] + s[x]
      BY <1>1, <1>3, <3>1
    <3>3. QED
      BY <1>2, <3>1, <3>2
  <2>3. Bad = {}
    <3> HIDE DEF Bad
    <3>1. QED
      BY <2>1, <2>2, LeastNat
  <2>4. QED
    BY <2>3
<1>4. QED
  BY <1>2, <1>3

LEMMA SpacingNat ==
  ASSUME NEW a \in Int \X Int, NEW b \in Int \X Int
  PROVE  Spacing(a, b) \in Nat
  BY DEF Spacing, Abs

\* Integrated distances are natural numbers that do not decrease along the path.
LEMMA DistancesSound ==
  ASSUME NEW path, NEW n \in Nat, \A i \in 0..n : path[i] \in Int \X Int
  PROVE  /\ IntegratedDistances(path, n) \in [0..(n - 1) -> Nat]
         /\ \A i, j \in 0..(n - 1) :
                i <= j => IntegratedDistances(path, n)[i] <= IntegratedDistances(path, n)[j]
<1> DEFINE s == [i \in 0..n |-> IF i = 0 THEN 0 ELSE Spacing(path[i - 1], path[i])]
           body(f) == [i \in 0..n |-> IF i = 0 THEN 0 ELSE f[i - 1] + Spacing(path[i - 1], path[i])]
           d == CHOOSE f : f = body(f)
<1>1. s \in [0..n -> Nat]
  BY SpacingNat
<1>2. \A f : IsSum(f, n, 1, s) <=> f = body(f)
  <2> SUFFICES ASSUME NEW f
               PROVE  [p \in 0..n |-> IF p < 1 THEN 0 ELSE f[p - 1] + s[p]] = body(f)
    BY DEF IsSum
  <2>1. QED
    OBVIOUS
<1>3. \E f : f = body(f)
  <2> HIDE DEF s, body
  <2>1. \E f \in [0..n -> Nat] : IsSum(f, n, 1, s)
    BY <1>1, SumExists
  <2>2. QED
    BY <1>2, <2>1
<1>4. d = body(d)
  <2> HIDE DEF body
  <2>1. QED
    BY <1>3
<1>5. IntegratedDistances(path, n) = [i \in 0..(n - 1) |-> d[i]]
  BY DEF IntegratedDistances
<1> HIDE DEF s, d, body
<1>6. IsSum(d, n, 1, s)
  BY <1>2, <1>4
<1>7. d \in [0..n -> Nat] /\ \A i, j \in 0..n : i <= j => d[i] <= d[j]
  BY <1>1, <1>6, SumSound
<1>8. QED
  BY <1>5, <1>7

\* So is the distance travelled to each sample of a rollout.
LEMMA TravelledSound ==
  ASSUME NEW r, LastIdx(r) \in Nat, r \in [0..LastIdx(r) -> Int \X Int], setup.step \in Nat \ {0}
  PROVE  \A p \in Samples(r) : p \in Nat /\ Travelled(r)[p] \in Nat
<1> DEFINE m == LastIdx(r)
           k == setup.step
           s == [p \in 0..m |-> IF p < k THEN 0 ELSE Spacing(r[p - k], r[p])]
           body(f) == [p \in 0..m |-> IF p < k THEN 0 ELSE f[p - k] + Spacing(r[p - k], r[p])]
           d == CHOOSE f : f = body(f)
<1>0. m \in Nat /\ k \in Nat \ {0} /\ \A p \in 0..m : r[p] \in Int \X Int
  OBVIOUS
<1>1. s \in [0..m -> Nat]
  <2> SUFFICES ASSUME NEW p \in 0..m, ~(p < k)
               PROVE  Spacing(r[p - k], r[p]) \in Nat
    OBVIOUS
  <2>1. p - k \in 0..m
    BY <1>0
  <2>2. QED
    BY <1>0, <2>1, SpacingNat
<1>2. \A f : IsSum(f, m, k, s) <=> f = body(f)
  <2> SUFFICES ASSUME NEW f
               PROVE  [p \in 0..m |-> IF p < k THEN 0 ELSE f[p - k] + s[p]] = body(f)
    BY DEF IsSum
  <2>1. QED
    OBVIOUS
<1>3. \E f : f = body(f)
  <2> HIDE DEF s, body, m, k
  <2>1. \E f \in [0..m -> Nat] : IsSum(f, m, k, s)
    BY <1>0, <1>1, SumExists
  <2>2. QED
    BY <1>2, <2>1
<1>4. d = body(d)
  <2> HIDE DEF body
  <2>1. QED
    BY <1>3
<1>5. Travelled(r) = [p \in Samples(r) |-> d[p]]
  BY DEF Travelled
<1>6. \A p \in Samples(r) : p \in 0..m
  BY DEF Samples
<1> HIDE DEF s, d, body, m, k
<1>7. IsSum(d, m, k, s)
  BY <1>2, <1>4
<1>8. d \in [0..m -> Nat]
  BY <1>0, <1>1, <1>7, SumSound
<1>9. QED
  BY <1>0, <1>5, <1>6, <1>8

----------------------------------------------------------------------------
(* The searches.                                                             *)

LEMMA SquareNat == \A x \in Int : x * x \in Nat
  BY Z3

LEMMA Dist2Nat ==
  ASSUME NEW a \in Int \X Int, NEW b \in Int \X Int
  PROVE  Dist2(a, b) \in Nat
<1>1. a[1] - b[1] \in Int /\ a[2] - b[2] \in Int
  OBVIOUS
<1>2. (a[1] - b[1]) * (a[1] - b[1]) \in Nat /\ (a[2] - b[2]) * (a[2] - b[2]) \in Nat
  BY <1>1, SquareNat
<1>3. QED
  BY <1>2 DEF Dist2

LEMMA FirstNearestFound ==
  ASSUME NEW I, I \subseteq Nat, I # {}, NEW path, \A i \in I : path[i] \in Int \X Int,
         NEW point \in Int \X Int
  PROVE  FirstNearest(path, I, point) \in I
<1> DEFINE D == {Dist2(path[j], point) : j \in I}
           N == {j \in I : \A k \in I : Dist2(path[j], point) <= Dist2(path[k], point)}
<1>1. D \subseteq Nat /\ D # {}
  BY Dist2Nat
<1>2. PICK d \in D : \A e \in D : d <= e
  <2> HIDE DEF D
  <2>1. QED
    BY <1>1, LeastNat
<1>3. PICK j \in I : d = Dist2(path[j], point)
  BY <1>2
<1>4. j \in N
  BY <1>2, <1>3
<1>5. FirstNearest(path, I, point) = Lowest(N)
  BY DEF FirstNearest
<1>6. N \subseteq Nat /\ N \subseteq I
  OBVIOUS
<1> HIDE DEF N
<1>7. QED
  BY <1>4, <1>5, <1>6, LowestSound

\* The furthest reached point is a pose of the path.
LEMMA FurthestRange ==
  ASSUME NEW s \in Scenes, NEW b \in s.batches
  PROVE  FindPathFurthestReachedPoint(s.path, b) \in 0..LastIdx(s.path)
<1> DEFINE L == LastIdx(s.path)
           F == {FirstNearest(s.path, DOMAIN s.path, r[LastIdx(r)]) : r \in b}
<1>1. L \in Nat /\ s.path \in [0..L -> Int \X Int] /\ b # {}
  BY CriticsAssumption
<1>2. ASSUME NEW r \in b
      PROVE  r[LastIdx(r)] \in Int \X Int
  <2>1. LastIdx(r) \in Nat /\ r \in [0..LastIdx(r) -> Int \X Int]
    BY CriticsAssumption
  <2>2. LastIdx(r) \in 0..LastIdx(r)
    BY <2>1
  <2>3. QED
    BY <2>1, <2>2
<1>3. DOMAIN s.path = 0..L
  BY <1>1
<1> HIDE DEF L
<1>4. /\ 0..L \subseteq Nat /\ 0..L # {}
      /\ \A i \in 0..L : s.path[i] \in Int \X Int
  <2>1. 0 \in 0..L /\ 0..L \subseteq Nat
    BY <1>1
  <2>2. \A i \in 0..L : s.path[i] \in Int \X Int
    BY <1>1
  <2>3. QED
    BY <2>1, <2>2
<1>5. \A r \in b : FirstNearest(s.path, DOMAIN s.path, r[LastIdx(r)]) \in 0..L
  BY <1>2, <1>3, <1>4, FirstNearestFound
<1>6. F \subseteq 0..L /\ F # {}
  BY <1>1, <1>5
<1>7. FindPathFurthestReachedPoint(s.path, b) = Highest(F)
  BY DEF FindPathFurthestReachedPoint
<1> HIDE DEF F
<1>8. Highest(F) \in F
  BY <1>1, <1>6, HighestSound
<1>9. QED
  BY <1>6, <1>7, <1>8 DEF L

\* Of two values around d, nothing outside of them is nearer than the nearer one.
LEMMA Between ==
  ASSUME NEW lo \in Int, NEW hi \in Int, NEW d \in Int, lo < d, hi >= d,
         NEW v \in Int, v <= lo \/ hi <= v
  PROVE  /\ d - lo < hi - d => Abs(lo - d) <= Abs(v - d)
         /\ ~(d - lo < hi - d) => Abs(hi - d) <= Abs(v - d)
<1>1. Abs(lo - d) = d - lo /\ Abs(hi - d) = hi - d
  BY DEF Abs
<1>2. CASE v <= lo
  <2>1. Abs(v - d) = d - v
    BY <1>2 DEF Abs
  <2>2. QED
    BY <1>1, <1>2, <2>1
<1>3. CASE hi <= v
  <2>1. Abs(v - d) = v - d
    BY <1>3 DEF Abs
  <2>2. QED
    BY <1>1, <1>3, <2>1
<1>4. QED
  BY <1>2, <1>3

\* findClosestPathPt: along distances that do not decrease, from wherever the search
\* begins, the point found is nearest of all, or the first one, or the end; the end
\* only if it lies behind everything.
THEOREM ClosestPointFound ==
  ASSUME NEW n \in Nat \ {0}, NEW vec \in [0..(n - 1) -> Nat],
         \A i, j \in 0..(n - 1) : i <= j => vec[i] <= vec[j],
         NEW dist \in Nat, NEW init \in 0..n, NEW point \in ClosestPathPts(vec, n, dist, init)
  PROVE  /\ point \in 0..n
         /\ point \notin {0, n} => \A j \in 0..(n - 1) : Abs(vec[point] - dist) <= Abs(vec[j] - dist)
         /\ point = n => \A j \in 0..(n - 1) : vec[j] < dist
<1> DEFINE B == {k \in init..n : k = n \/ vec[k] >= dist}
           bound == LowerBound(vec, n, dist, init)
<1>1. B \subseteq Nat /\ n \in B /\ bound = Lowest(B)
  BY DEF LowerBound
<1>2. bound \in B /\ \A k \in B : bound <= k
  <2> HIDE DEF B, bound
  <2>1. QED
    BY <1>1, LowestSound
<1>3. bound \in init..n /\ (bound < n => vec[bound] >= dist)
  BY <1>2
<1>4. bound # init => bound - 1 \in 0..(n - 1) /\ vec[bound - 1] < dist
  <2> SUFFICES ASSUME bound # init
               PROVE  bound - 1 \in 0..(n - 1) /\ vec[bound - 1] < dist
    OBVIOUS
  <2>1. bound - 1 \in init..n /\ bound - 1 \in 0..(n - 1) /\ bound - 1 \notin B
    BY <1>2, <1>3
  <2>2. QED
    BY <2>1
<1>5. IF bound = init THEN point = 0
      ELSE IF bound = n THEN point \in {n - 1, n}
      ELSE point = IF dist - vec[bound - 1] < vec[bound] - dist THEN bound - 1 ELSE bound
  BY DEF ClosestPathPts
<1> HIDE DEF B, bound
<1>6. CASE bound = init
  BY <1>5, <1>6
<1>7. CASE bound # init /\ bound = n
  <2>1. \A j \in 0..(n - 1) : vec[j] <= vec[n - 1]
    OBVIOUS
  <2>2. \A j \in 0..(n - 1) : vec[j] < dist
    BY <1>4, <1>7, <2>1
  <2>3. point \in {n - 1, n}
    BY <1>5, <1>7
  <2>4. \A j \in 0..(n - 1) : Abs(vec[n - 1] - dist) <= Abs(vec[j] - dist)
    BY <2>1, <2>2 DEF Abs
  <2>5. QED
    BY <2>2, <2>3, <2>4
<1>8. CASE bound # init /\ bound # n
  <2>1. bound \in 0..(n - 1) /\ bound - 1 \in 0..(n - 1) /\ vec[bound - 1] < dist /\ vec[bound] >= dist
    BY <1>3, <1>4, <1>8
  <2>2. point \in {bound - 1, bound} /\ point < n /\ point \in 0..(n - 1)
    BY <1>5, <1>8, <2>1
  <2>3. \A j \in 0..(n - 1) : j <= bound - 1 => vec[j] <= vec[bound - 1]
    BY <2>1
  <2>4. \A j \in 0..(n - 1) : bound <= j => vec[bound] <= vec[j]
    BY <2>1
  <2>5. ASSUME NEW j \in 0..(n - 1)
        PROVE  Abs(vec[point] - dist) <= Abs(vec[j] - dist)
    <3>1. /\ vec[j] \in Int /\ vec[bound] \in Int /\ vec[bound - 1] \in Int /\ dist \in Int
          /\ vec[j] <= vec[bound - 1] \/ vec[bound] <= vec[j]
      BY <2>1, <2>3, <2>4
    <3>2. CASE dist - vec[bound - 1] < vec[bound] - dist
      <4>1. vec[point] = vec[bound - 1]
        BY <1>5, <1>8, <3>2
      <4>2. QED
        <5>1. Abs(vec[bound - 1] - dist) <= Abs(vec[j] - dist)
          BY <2>1, <3>1, <3>2, Between
        <5>2. QED
          BY <4>1, <5>1
    <3>3. CASE ~(dist - vec[bound - 1] < vec[bound] - dist)
      <4>1. vec[point] = vec[bound]
        BY <1>5, <1>8, <3>3
      <4>2. QED
        <5>1. Abs(vec[bound] - dist) <= Abs(vec[j] - dist)
          BY <2>1, <3>1, <3>3, Between
        <5>2. QED
          BY <4>1, <5>1
    <3>4. QED
      BY <3>2, <3>3
  <2>6. QED
    BY <2>2, <2>5
<1>9. QED
  BY <1>6, <1>7, <1>8

----------------------------------------------------------------------------
(* What a call works on, who drives, and collisions.                         *)

\* CriticData always has its three members.
IsData(d) == DOMAIN d = {"fail", "furthest", "valid"} /\ d.fail \in BOOLEAN

\* What a call works on: the arguments and, while critics score, a batch of them.
CallSound ==
    /\ pc \in {"unconfigured", "idle", "rollout", "score"}
    /\ setup \in Setups /\ layer \in Layers /\ radius \in Radii
    /\ q \in Nat /\ IsData(data) /\ missed \subseteq Collision
    /\ pc \in {"rollout", "score"} => scene \in Scenes /\ Inflated(scene)
    /\ pc = "rollout" => ~data.fail
    /\ pc = "score" => rollouts \in scene.batches
    /\ pc # "score" => q = 1 /\ scored = {} /\ missed = {}

\* A usable circumscribed cost is the one of the layer and the radius it was kept for.
CacheSound ==
    \A c \in Collision :
        /\ cache[c].cost \in -1..252 /\ cache[c].layer \in Layers
        /\ cache[c].cost >= 1 => /\ cache[c].radius \in Radii
                                 /\ cache[c].cost = InflationCost[cache[c].layer][cache[c].radius]

\* The critics of the list that have been asked so far have scored, if it was for them.
AskedHaveScored ==
    \A i \in DOMAIN setup.order : i < q =>
        /\ setup.order[i] = "GoalCritic" /\ Enabled("GoalCritic") /\ Near("GoalCritic")
              => "GoalCritic" \in scored
        /\ setup.order[i] = "PathFollowCritic" /\ Enabled("PathFollowCritic")
              /\ ~Near("PathFollowCritic") /\ Size(Path) >= 2 => "PathFollowCritic" \in scored

\* ObstaclesCritic has scored with a usable cost, or there is none.
UsableIfAny ==
    "ObstaclesCritic" \in scored =>
        cache["ObstaclesCritic"].cost >= 1 \/ cache["ObstaclesCritic"].cost = Threshold

JudgedSound ==
    pc = "score" => AskedHaveScored /\ UsableIfAny /\ CollisionsSeen /\ VetoJustified

CriticsInv == CallSound /\ CacheSound /\ cache \in [Collision -> [radius : Radii \cup {0},
                                            cost : -1..252, layer : Layers]] /\ JudgedSound

----------------------------------------------------------------------------
\* The cost of a distance from an obstacle.
LEMMA ThresholdRange == CallSound => Threshold \in -1..252
  BY CriticsAssumption DEF CallSound, Threshold

\* A path has a last pose.
LEMMA PathSize ==
  ASSUME NEW s \in Scenes
  PROVE  Size(s.path) \in Nat \ {0} /\ s.path[LastIdx(s.path)] \in Int \X Int
<1>1. LastIdx(s.path) \in Nat /\ s.path \in [0..LastIdx(s.path) -> Int \X Int]
  BY CriticsAssumption
<1>2. DOMAIN s.path = 0..LastIdx(s.path)
  BY <1>1
<1>3. Size(s.path) = LastIdx(s.path) + 1
  <2>1. Cardinality(0..LastIdx(s.path)) = LastIdx(s.path) - 0 + 1
    BY <1>1, FS_Interval
  <2>2. QED
    BY <1>1, <1>2, <2>1 DEF Size
<1>4. LastIdx(s.path) \in 0..LastIdx(s.path)
  BY <1>1
<1>5. QED
  BY <1>1, <1>3, <1>4

\* The optional members are filled in without touching the flag.
LEMMA DataKept ==
  ASSUME NEW d, IsData(d)
  PROVE  /\ IsData(SetPathFurthestPointIfNotSet(d))
         /\ SetPathFurthestPointIfNotSet(d).fail = d.fail
         /\ IsData(SetPathCostsIfNotSet(d))
         /\ SetPathCostsIfNotSet(d).fail = d.fail
  BY DEF IsData, SetPathFurthestPointIfNotSet, SetPathCostsIfNotSet

\* A critic that neither judges collisions nor vetoes: the invariant is kept if it
\* has scored when it was for it to do so.
LEMMA PassedOn ==
  ASSUME CriticsInv, NEW c \in Names, Called(c),
         q' = q + 1, scored \subseteq scored', "ObstaclesCritic" \in scored' => "ObstaclesCritic" \in scored,
         UNCHANGED <<pc, setup, layer, radius, cache, scene, rollouts, missed>>,
         IsData(data'), data'.fail = data.fail,
         c = "GoalCritic" /\ Enabled(c) /\ Near(c) => c \in scored',
         c = "PathFollowCritic" /\ Enabled(c) /\ ~Near(c) /\ Size(Path) >= 2 => c \in scored'
  PROVE  CriticsInv'
<1>1. pc = "score" /\ ~data.fail /\ q \in Nat /\ q <= Len(setup.order) /\ setup.order[q] = c
  BY DEF Called, CriticsInv, CallSound
<1>2. CallSound'
  BY <1>1 DEF CriticsInv, CallSound, Inflated, Threshold
<1>3. CacheSound' /\ (cache \in [Collision -> [radius : Radii \cup {0}, cost : -1..252, layer : Layers]])'
  BY DEF CriticsInv, CacheSound
<1>4. AskedHaveScored'
  <2> SUFFICES ASSUME NEW i \in DOMAIN setup.order, i < q + 1
               PROVE  /\ setup.order[i] = "GoalCritic" /\ Enabled("GoalCritic") /\ Near("GoalCritic")
                            => "GoalCritic" \in scored'
                      /\ setup.order[i] = "PathFollowCritic" /\ Enabled("PathFollowCritic")
                            /\ ~Near("PathFollowCritic") /\ Size(Path) >= 2
                            => "PathFollowCritic" \in scored'
    BY DEF AskedHaveScored, Enabled, Near, Path
  <2>1. setup.order \in Seq(Names)
    BY CriticsAssumption DEF CriticsInv, CallSound
  <2>2. i \in Nat
    BY <2>1
  <2>3. i < q \/ i = q
    BY <1>1, <2>2
  <2>4. CASE i < q
    BY <1>1, <2>4 DEF CriticsInv, JudgedSound, AskedHaveScored
  <2>5. CASE i = q
    BY <1>1, <2>5
  <2>6. QED
    BY <2>3, <2>4, <2>5
<1>5. UsableIfAny' /\ CollisionsSeen' /\ VetoJustified'
  BY <1>1 DEF CriticsInv, JudgedSound, UsableIfAny, CollisionsSeen, VetoJustified, Threshold
<1>6. QED
  BY <1>2, <1>3, <1>4, <1>5 DEF CriticsInv, JudgedSound

----------------------------------------------------------------------------
\* The cost a collision critic works with: where it is usable it is the one of the
\* layer it was computed from and of the radius of today.
FreshSound(f) ==
    /\ f \in [radius : Radii \cup {0}, cost : -1..252, layer : Layers]
    /\ f.cost >= 1 => f.radius \in Radii /\ f.cost = InflationCost[f.layer][f.radius]

LEMMA RefreshedSound ==
  ASSUME CriticsInv, NEW c \in Collision
  PROVE  /\ FreshSound(cache[c])
         /\ FreshSound(Refreshed(c))
         /\ Refreshed(c).cost >= 1 => Refreshed(c).radius = radius
         /\ c = "ObstaclesCritic" => Refreshed(c).cost >= 1 \/ Refreshed(c).cost = Threshold
<1>1. Threshold \in -1..252 /\ layer \in Layers /\ radius \in Radii
  BY ThresholdRange DEF CriticsInv, CallSound
<1>2. FreshSound(cache[c])
  BY DEF CriticsInv, CacheSound, FreshSound
<1>3. CASE c = "CostCritic"
  BY <1>1, <1>2, <1>3 DEF FreshSound, Refreshed, FindCircumscribedCost, Threshold, Collision
<1>4. CASE c = "ObstaclesCritic"
  <2>1. CASE cache[c].radius = radius /\ cache[c].cost >= 1
    BY <1>2, <1>4, <2>1 DEF Refreshed, FindCircumscribedCostObstacles
  <2>2. CASE ~(cache[c].radius = radius /\ cache[c].cost >= 1)
    <3>1. Refreshed(c) = [radius |-> IF Threshold >= 1 THEN radius ELSE cache[c].radius,
                          cost |-> Threshold, layer |-> layer]
      BY <1>4, <2>2 DEF Refreshed, FindCircumscribedCostObstacles
    <3>2. QED
      BY <1>1, <1>2, <1>4, <3>1 DEF FreshSound, Threshold
  <2>3. QED
    BY <2>1, <2>2
<1>5. QED
  BY <1>2, <1>3, <1>4 DEF Collision

\* A point that touches an obstacle is taken for a collision, but for a stale cost or
\* a free centre without usable inflation.
LEMMA TouchingCollides ==
  ASSUME CriticsInv, pc = "score", NEW c \in Collision, NEW f, FreshSound(f),
         setup.considerFootprint /\ f.cost >= 1 => f.radius = radius,
         f.layer = layer, c = "CostCritic" => Threshold >= 1,
         NEW p \in DOMAIN scene.cells, Touches(p)
  PROVE  IF c = "CostCritic" THEN CollidesCost(p, f.cost) ELSE CollidesObstacles(p, f.cost)
<1>1. /\ scene.cells[p] \in 0..255 /\ CostAtPose(p) = scene.cells[p]
      /\ scene.cells[p] # OffMap
  BY CriticsAssumption
     DEF CriticsInv, CallSound, Touches, Forbidden, CostAtPose, Cells, OffMap
<1>2. f.cost \in -1..252 /\ Threshold \in -1..252
  BY ThresholdRange DEF FreshSound, CriticsInv
<1>3. CASE ~setup.considerFootprint
  <2>1. FootprintCost(p, scene.cells[p], f.cost) = scene.cells[p]
    BY <1>3 DEF FootprintCost
  <2>2. InCollision(scene.cells[p])
    BY <1>3 DEF Touches, Forbidden
  <2>3. scene.cells[p] >= 1
    BY <2>2 DEF InCollision, LETHAL_OBSTACLE, INSCRIBED_INFLATED_OBSTACLE, NO_INFORMATION
  <2>4. QED
    BY <1>1, <2>1, <2>2, <2>3 DEF CollidesCost, CollidesObstacles
<1>4. CASE setup.considerFootprint
  <2>1. scene.foot[p] = LETHAL_OBSTACLE /\ InCollision(scene.foot[p])
    BY <1>4 DEF Touches, Forbidden
  <2>2. scene.cells[p] >= Threshold
    BY <2>1 DEF CriticsInv, CallSound, Inflated
  <2>3. f.cost >= 1 => f.cost = Threshold
    BY <1>4 DEF FreshSound, Threshold
  <2>4. FootprintCost(p, scene.cells[p], f.cost) = scene.foot[p]
    BY <1>1, <1>2, <1>4, <2>2, <2>3 DEF FootprintCost
  <2>5. c = "CostCritic" => scene.cells[p] >= 1
    BY <1>1, <1>2, <2>2
  <2>6. QED
    BY <1>1, <2>1, <2>4, <2>5 DEF CollidesCost, CollidesObstacles
<1>5. QED
  BY <1>3, <1>4

\* What is taken for a collision on the map is one.
LEMMA CollidingForbidden ==
  ASSUME CriticsInv, pc = "score", NEW cost \in -1..252, NEW p \in DOMAIN scene.cells,
         CollidesCost(p, cost) \/ CollidesObstacles(p, cost)
  PROVE  Forbidden(p) \/ scene.cells[p] = OffMap
<1> SUFFICES ASSUME scene.cells[p] # OffMap
             PROVE  Forbidden(p)
  OBVIOUS
<1>1. scene.cells[p] \in 0..255
  BY CriticsAssumption DEF CriticsInv, CallSound, Cells, OffMap
<1>2. InCollision(FootprintCost(p, scene.cells[p], cost))
  BY DEF CollidesCost, CollidesObstacles, CostAtPose
<1>3. CASE ~setup.considerFootprint
  BY <1>2, <1>3 DEF FootprintCost, Forbidden
<1>4. CASE setup.considerFootprint /\ (scene.cells[p] >= cost \/ cost < 1)
  BY <1>2, <1>4 DEF FootprintCost, Forbidden
<1>5. CASE setup.considerFootprint /\ ~(scene.cells[p] >= cost \/ cost < 1)
  <2>1. InCollision(scene.cells[p]) /\ scene.cells[p] < 252
    BY <1>1, <1>2, <1>5 DEF FootprintCost
  <2>2. QED
    BY <1>1, <1>5, <2>1 DEF InCollision, LETHAL_OBSTACLE, NO_INFORMATION
<1>6. QED
  BY <1>3, <1>4, <1>5

\* score() of a collision critic.
LEMMA CollisionCriticSound ==
  ASSUME CriticsInv, NEW c \in Collision, NEW f, CollisionCritic(c, f), FreshSound(f),
         setup.considerFootprint /\ f.cost >= 1 => f.radius = radius,
         c = "ObstaclesCritic" => f.cost >= 1 \/ f.cost = Threshold
  PROVE  CriticsInv'
<1> DEFINE hit == {r \in rollouts : Collides(c, r, f.cost)}
<1>1. /\ pc = "score" /\ ~data.fail /\ q \in Nat /\ setup.order[q] = c
      /\ cache' = [cache EXCEPT ![c] = f]
      /\ data' = [data EXCEPT !.fail = AllCollide(hit)]
      /\ missed' = IF \E r \in rollouts \ hit : \E t \in DOMAIN r : Touches(r[t])
                   THEN missed \cup {c} ELSE missed \ {c}
      /\ scored' = scored \cup {c} /\ q' = q + 1
      /\ UNCHANGED <<pc, setup, layer, radius, scene, rollouts>>
  BY DEF CollisionCritic, Called, CriticsInv, CallSound
<1>2. f.cost \in -1..252
  BY DEF FreshSound
<1>3. CallSound'
  <2>1. IsData(data')
    BY <1>1 DEF CriticsInv, CallSound, IsData, AllCollide
  <2>2. QED
    BY <1>1, <2>1 DEF CriticsInv, CallSound, Inflated, Threshold
<1>4. cache' \in [Collision -> [radius : Radii \cup {0}, cost : -1..252, layer : Layers]]
  BY <1>1 DEF CriticsInv, FreshSound
<1>5. \A d \in Collision : cache'[d] = IF d = c THEN f ELSE cache[d]
  BY <1>1 DEF CriticsInv
<1>6. CacheSound'
  BY <1>4, <1>5 DEF CriticsInv, CacheSound, FreshSound
<1>7. AskedHaveScored'
  <2> SUFFICES ASSUME NEW i \in DOMAIN setup.order, i < q + 1
               PROVE  /\ setup.order[i] = "GoalCritic" /\ Enabled("GoalCritic") /\ Near("GoalCritic")
                            => "GoalCritic" \in scored
                      /\ setup.order[i] = "PathFollowCritic" /\ Enabled("PathFollowCritic")
                            /\ ~Near("PathFollowCritic") /\ Size(Path) >= 2
                            => "PathFollowCritic" \in scored
    BY <1>1 DEF AskedHaveScored, Enabled, Near, Path
  <2>1. setup.order \in Seq(Names)
    BY CriticsAssumption DEF CriticsInv, CallSound
  <2>2. i \in Nat
    BY <2>1
  <2>3. i < q \/ i = q
    BY <1>1, <2>2
  <2>4. CASE i < q
    BY <1>1, <2>4 DEF CriticsInv, JudgedSound, AskedHaveScored
  <2>5. CASE i = q
    BY <1>1, <2>5 DEF Collision
  <2>6. QED
    BY <2>3, <2>4, <2>5
<1>8. UsableIfAny'
  <2>1. Threshold' = Threshold
    BY <1>1 DEF Threshold
  <2>2. CASE c = "ObstaclesCritic"
    BY <1>5, <2>1, <2>2 DEF UsableIfAny, Collision
  <2>3. CASE c = "CostCritic"
    BY <1>1, <1>5, <2>1, <2>3 DEF UsableIfAny, Collision, CriticsInv, JudgedSound
  <2>4. QED
    BY <2>2, <2>3 DEF Collision
<1>9. CollisionsSeen'
  <2> SUFFICES ASSUME NEW d \in missed'
               PROVE  cache'[d].layer # layer \/ (d = "CostCritic" /\ Threshold < 1)
    BY <1>1 DEF CollisionsSeen, Threshold
  <2>1. CASE d # c
    <3>1. d \in missed
      BY <1>1, <2>1
    <3>2. cache'[d] = cache[d]
      BY <1>5, <2>1, <3>1 DEF CriticsInv, CallSound
    <3>3. QED
      BY <1>1, <3>1, <3>2 DEF CriticsInv, JudgedSound, CollisionsSeen
  <2>2. CASE d = c
    <3> SUFFICES ASSUME f.layer = layer, c = "CostCritic" => ~(Threshold < 1)
                 PROVE  FALSE
      BY <1>5, <2>2
    <3>1. PICK r \in rollouts \ hit : \E t \in DOMAIN r : Touches(r[t])
      BY <1>1, <2>2
    <3>2. PICK t \in DOMAIN r : Touches(r[t])
      BY <3>1
    <3>3. r[t] \in DOMAIN scene.cells
      BY <1>1, <3>1, <3>2, CriticsAssumption DEF CriticsInv, CallSound
    <3>4. c = "CostCritic" => Threshold >= 1
      BY ThresholdRange DEF CriticsInv
    <3>5. Collides(c, r, f.cost)
      BY <1>1, <3>2, <3>3, <3>4, TouchingCollides DEF Collides
    <3>6. QED
      BY <3>1, <3>5
  <2>3. QED
    BY <2>1, <2>2
<1>10. VetoJustified'
  <2> SUFFICES ASSUME data'.fail, NEW r \in rollouts
               PROVE  \E t \in DOMAIN r : Forbidden(r[t]) \/ scene.cells[r[t]] = OffMap
    BY <1>1 DEF VetoJustified, Forbidden, InCollision
  <2>1. r \in hit
    BY <1>1 DEF CriticsInv, CallSound, IsData, AllCollide
  <2>2. PICK t \in DOMAIN r : CollidesCost(r[t], f.cost) \/ CollidesObstacles(r[t], f.cost)
    BY <2>1 DEF Collides
  <2>3. r[t] \in DOMAIN scene.cells
    BY <1>1, CriticsAssumption DEF CriticsInv, CallSound
  <2>4. QED
    BY <1>1, <1>2, <2>2, <2>3, CollidingForbidden
<1>11. QED
  BY <1>1, <1>3, <1>4, <1>6, <1>7, <1>8, <1>9, <1>10 DEF CriticsInv, JudgedSound

----------------------------------------------------------------------------
\* A critic that returns, or that scores without vetoing.
LEMMA PlainCriticSound ==
  ASSUME CriticsInv, NEW c \in Names, Called(c), NEW does \in BOOLEAN, Scores(c, does),
         cache' = cache, missed' = missed, IsData(data'), data'.fail = data.fail,
         c # "ObstaclesCritic" \/ ~does,
         c = "GoalCritic" /\ Enabled(c) /\ Near(c) => does,
         c = "PathFollowCritic" /\ Enabled(c) /\ ~Near(c) /\ Size(Path) >= 2 => does
  PROVE  CriticsInv'
<1>1. /\ scored' = IF does THEN scored \cup {c} ELSE scored
      /\ q' = q + 1 /\ UNCHANGED <<pc, setup, layer, radius, cache, scene, rollouts, missed>>
  BY DEF Scores
<1>2. scored \subseteq scored' /\ (does => c \in scored')
  BY <1>1
<1>3. "ObstaclesCritic" \in scored' => "ObstaclesCritic" \in scored
  BY <1>1
<1>4. QED
  BY <1>1, <1>2, <1>3, PassedOn

\* The collision critics.
LEMMA CollisionCriticsSound == CriticsInv /\ (CostCritic \/ ObstaclesCritic) => CriticsInv'
<1> SUFFICES ASSUME CriticsInv, CostCritic \/ ObstaclesCritic
             PROVE  CriticsInv'
  OBVIOUS
<1>1. ASSUME NEW c \in Collision, Disabled(c)
      PROVE  CriticsInv'
  <2>1. /\ Called(c) /\ Scores(c, FALSE) /\ c \in Names /\ c # "GoalCritic" /\ c # "PathFollowCritic"
        /\ cache' = cache /\ missed' = missed /\ data' = data
    BY <1>1 DEF Disabled, Scores, Untouched, Names, Collision
  <2>2. IsData(data)
    BY DEF CriticsInv, CallSound
  <2>3. QED
    BY <2>1, <2>2, PlainCriticSound
<1>2. ASSUME CollisionCritic("CostCritic", IF setup.considerFootprint THEN Refreshed("CostCritic")
                                                                      ELSE cache["CostCritic"])
      PROVE  CriticsInv'
  <2> DEFINE f == IF setup.considerFootprint THEN Refreshed("CostCritic") ELSE cache["CostCritic"]
  <2>1. "CostCritic" \in Collision /\ "CostCritic" # "ObstaclesCritic"
    BY DEF Collision
  <2>2. FreshSound(f) /\ (setup.considerFootprint /\ f.cost >= 1 => f.radius = radius)
    BY <2>1, RefreshedSound
  <2> HIDE DEF f
  <2>3. CollisionCritic("CostCritic", f)
    BY <1>2 DEF f
  <2>4. QED
    BY <2>1, <2>2, <2>3, CollisionCriticSound
<1>3. ASSUME CollisionCritic("ObstaclesCritic", Refreshed("ObstaclesCritic"))
      PROVE  CriticsInv'
  <2>1. "ObstaclesCritic" \in Collision
    BY DEF Collision
  <2>2. QED
    BY <1>3, <2>1, RefreshedSound, CollisionCriticSound
<1>4. QED
  BY <1>1, <1>2, <1>3 DEF CostCritic, ObstaclesCritic, Collision

\* The critics of the goal, the velocities and the path.
LEMMA OtherCriticsSound ==
  ASSUME CriticsInv,
         \/ ConstraintCritic \/ VelocityDeadbandCritic
         \/ GoalCritic \/ GoalAngleCritic \/ PreferForwardCritic \/ TwirlingCritic
         \/ PathAlignCritic \/ PathAlignLegacyCritic \/ PathAngleCritic \/ PathFollowCritic
  PROVE  CriticsInv'
<1>1. IsData(data)
  BY DEF CriticsInv, CallSound
<1>2. LET d1 == SetPathFurthestPointIfNotSet(data)
          d2 == SetPathCostsIfNotSet(d1)
      IN  /\ IsData(d1) /\ d1.fail = data.fail
          /\ IsData(d2) /\ d2.fail = data.fail
  BY <1>1, DataKept
<1>3. ASSUME NEW c \in Names, Called(c), NEW does \in BOOLEAN, Scores(c, does), Untouched,
             c \notin {"ObstaclesCritic", "PathFollowCritic"},
             c = "GoalCritic" /\ Enabled(c) /\ Near(c) => does
      PROVE  CriticsInv'
  <2>1. /\ cache' = cache /\ missed' = missed /\ data' = data
        /\ c # "ObstaclesCritic" /\ c # "PathFollowCritic"
    BY <1>3 DEF Scores, Untouched
  <2>2. IsData(data') /\ data'.fail = data.fail
    BY <1>1, <2>1
  <2>3. QED
    BY <1>3, <2>1, <2>2, PlainCriticSound
<1>4. CASE ConstraintCritic \/ VelocityDeadbandCritic
  <2>1. ASSUME NEW c \in {"ConstraintCritic", "VelocityDeadbandCritic"}, ScoresAlways(c)
        PROVE  CriticsInv'
    <3>1. Called(c) /\ Scores(c, Enabled(c)) /\ Untouched /\ Enabled(c) \in BOOLEAN
      BY <2>1 DEF ScoresAlways, Enabled
    <3>2. c \in Names /\ c \notin {"ObstaclesCritic", "PathFollowCritic"} /\ c # "GoalCritic"
      BY DEF Names
    <3>3. QED
      BY <3>1, <3>2, <1>3
  <2>2. QED
    BY <1>4, <2>1 DEF ConstraintCritic, VelocityDeadbandCritic
<1>5. CASE GoalCritic \/ GoalAngleCritic
  <2>1. ASSUME NEW c \in {"GoalCritic", "GoalAngleCritic"}, ScoresNear(c)
        PROVE  CriticsInv'
    <3>1. /\ Called(c) /\ Scores(c, Enabled(c) /\ Near(c)) /\ Untouched
          /\ (Enabled(c) /\ Near(c)) \in BOOLEAN
      BY <2>1 DEF ScoresNear
    <3>2. c \in Names /\ c \notin {"ObstaclesCritic", "PathFollowCritic"}
      BY DEF Names
    <3>3. QED
      BY <3>1, <3>2, <1>3
  <2>2. QED
    BY <1>5, <2>1 DEF GoalCritic, GoalAngleCritic
<1>6. CASE PreferForwardCritic \/ TwirlingCritic
  <2>1. ASSUME NEW c \in {"PreferForwardCritic", "TwirlingCritic"}, ScoresFar(c)
        PROVE  CriticsInv'
    <3>1. /\ Called(c) /\ Scores(c, Enabled(c) /\ ~Near(c)) /\ Untouched
          /\ (Enabled(c) /\ ~Near(c)) \in BOOLEAN
      BY <2>1 DEF ScoresFar
    <3>2. c \in Names /\ c \notin {"ObstaclesCritic", "PathFollowCritic"} /\ c # "GoalCritic"
      BY DEF Names
    <3>3. QED
      BY <3>1, <3>2, <1>3
  <2>2. QED
    BY <1>6, <2>1 DEF PreferForwardCritic, TwirlingCritic
<1>7. ASSUME NEW c \in Names \ {"ObstaclesCritic", "GoalCritic"}, PathCriticReturns(c)
      PROVE  CriticsInv'
  <2>1. Called(c) /\ (~Enabled(c) \/ Near(c)) /\ Scores(c, FALSE) /\ cache' = cache
        /\ missed' = missed /\ data' = data
    BY <1>7 DEF PathCriticReturns, Untouched, Scores
  <2>2. QED
    BY <1>1, <2>1, PlainCriticSound
<1>8. ASSUME NEW c \in {"PathAlignCritic", "PathAlignLegacyCritic", "PathAngleCritic"},
             Called(c), NEW does \in BOOLEAN, Scores(c, does), missed' = missed,
             LET d1 == SetPathFurthestPointIfNotSet(data)
             IN  data' = d1 \/ data' = SetPathCostsIfNotSet(d1)
      PROVE  CriticsInv'
  <2>1. IsData(data') /\ data'.fail = data.fail
    BY <1>2, <1>8
  <2>2. c \in Names /\ cache' = cache
    BY <1>8 DEF Names, Scores
  <2>3. QED
    BY <1>8, <2>1, <2>2, PlainCriticSound
<1>9. ASSUME NEW c \in {"PathAlignCritic", "PathAlignLegacyCritic"}, AlignReturns(c)
      PROVE  CriticsInv'
  <2>1. c \in Names \ {"ObstaclesCritic", "GoalCritic"}
    BY DEF Names, Collision
  <2>2. QED
    BY <1>7, <1>8, <1>9, <2>1 DEF AlignReturns
<1>10. CASE PathAlignCritic
  <2>1. AlignReturns("PathAlignCritic")
        \/ /\ Called("PathAlignCritic") /\ Scores("PathAlignCritic", TRUE) /\ missed' = missed
           /\ data' = SetPathCostsIfNotSet(SetPathFurthestPointIfNotSet(data))
    BY <1>10 DEF PathAlignCritic, Aligns
  <2>2. QED
    BY <1>8, <1>9, <2>1
<1>11. CASE PathAlignLegacyCritic
  <2>1. \/ AlignReturns("PathAlignLegacyCritic")
        \/ /\ Called("PathAlignLegacyCritic") /\ missed' = missed
           /\ Scores("PathAlignLegacyCritic", LastIdx(Path) >= 1)
           /\ data' = SetPathCostsIfNotSet(SetPathFurthestPointIfNotSet(data))
    BY <1>11 DEF PathAlignLegacyCritic, Aligns
  <2>2. (LastIdx(Path) >= 1) \in BOOLEAN
    OBVIOUS
  <2>3. QED
    BY <1>8, <1>9, <2>1, <2>2
<1>12. CASE PathAngleCritic
  <2>1. \/ PathCriticReturns("PathAngleCritic")
        \/ \E facing \in BOOLEAN :
             /\ Called("PathAngleCritic") /\ missed' = missed /\ Scores("PathAngleCritic", ~facing)
             /\ data' = SetPathFurthestPointIfNotSet(data)
    BY <1>12 DEF PathAngleCritic
  <2>2. "PathAngleCritic" \in Names \ {"ObstaclesCritic", "GoalCritic"}
    BY DEF Names, Collision
  <2>3. QED
    BY <1>7, <1>8, <2>1, <2>2
<1>13. CASE PathFollowCritic
  <2>1. \/ PathCriticReturns("PathFollowCritic")
        \/ /\ Called("PathFollowCritic") /\ missed' = missed /\ data' = data
           /\ Size(Path) < 2 /\ Scores("PathFollowCritic", FALSE)
        \/ /\ Called("PathFollowCritic") /\ missed' = missed /\ Scores("PathFollowCritic", TRUE)
           /\ data' = SetPathCostsIfNotSet(SetPathFurthestPointIfNotSet(data))
    BY <1>13 DEF PathFollowCritic, Untouched
  <2>2. "PathFollowCritic" \in Names \ {"ObstaclesCritic", "GoalCritic"}
    BY DEF Names, Collision
  <2>3. Size(Path) < 2 => ~(Size(Path) >= 2)
    <3>1. scene \in Scenes
      BY <1>13 DEF PathFollowCritic, PathCriticReturns, Called, CriticsInv, CallSound
    <3>2. Size(Path) \in Nat
      BY <3>1, PathSize DEF Path
    <3>3. QED
      BY <3>2
  <2>4. QED
    BY <1>1, <1>2, <1>7, <2>1, <2>2, <2>3, PlainCriticSound DEF Scores
<1>14. QED
  BY <1>4, <1>5, <1>6, <1>10, <1>11, <1>12, <1>13

----------------------------------------------------------------------------
LEMMA CriticsInit == Init => CriticsInv
  BY DEF Init, CriticsInv, CallSound, CacheSound, JudgedSound, IsData, NoData, Collision

\* Every step of the manager and of its critics.
LEMMA CriticsStep == CriticsInv /\ [Next]_vars => CriticsInv'
<1> SUFFICES ASSUME CriticsInv, [Next]_vars
             PROVE  CriticsInv'
  OBVIOUS
<1>1. CASE Configure
  <2>1. \A c \in Collision : cache'[c] = Refreshed(c) \/ cache'[c] = cache[c]
    BY <1>1 DEF Configure
  <2>2. \A c \in Collision : FreshSound(cache'[c])
    BY <2>1, RefreshedSound
  <2>3. DOMAIN cache' = Collision /\ cache' = [c \in Collision |-> cache'[c]]
    BY <1>1 DEF Configure
  <2>4. cache' \in [Collision -> [radius : Radii \cup {0}, cost : -1..252, layer : Layers]]
        /\ CacheSound'
    BY <2>2, <2>3 DEF FreshSound, CacheSound
  <2>5. pc' \in {"unconfigured", "idle"} /\ pc \notin {"rollout", "score"}
        /\ UNCHANGED <<setup, layer, radius, q, data, scored, missed>>
    BY <1>1 DEF Configure, callVars
  <2>6. CallSound' /\ JudgedSound'
    BY <2>5 DEF CriticsInv, CallSound, JudgedSound
  <2>7. QED
    BY <2>4, <2>6 DEF CriticsInv
<1>2. CASE CostmapChanges
  BY <1>2 DEF CostmapChanges, callVars, CriticsInv, CallSound, CacheSound, JudgedSound
<1>3. CASE Prepare
  BY <1>3 DEF Prepare, CriticsInv, CallSound, CacheSound, JudgedSound, IsData, NoData,
              Inflated, Threshold
<1>4. CASE GenerateNoisedTrajectories
  <2>1. /\ pc = "rollout" /\ pc' = "score" /\ rollouts' \in scene.batches
        /\ UNCHANGED <<setup, layer, radius, cache, scene, data, q, scored, missed>>
    BY <1>4 DEF GenerateNoisedTrajectories
  <2>2. q = 1 /\ scored = {} /\ missed = {} /\ ~data.fail
    BY <2>1 DEF CriticsInv, CallSound
  <2>3. CallSound'
    BY <2>1 DEF CriticsInv, CallSound, Inflated, Threshold
  <2>4. AskedHaveScored'
    <3>1. setup.order \in Seq(Names)
      BY CriticsAssumption DEF CriticsInv, CallSound
    <3>2. \A i \in DOMAIN setup.order : i \in Nat /\ i >= 1
      BY <3>1
    <3>3. \A i \in DOMAIN setup.order : ~(i < 1)
      BY <3>2
    <3>4. QED
      BY <2>1, <2>2, <3>3 DEF AskedHaveScored
  <2>5. UsableIfAny' /\ CollisionsSeen' /\ VetoJustified'
    BY <2>1, <2>2 DEF UsableIfAny, CollisionsSeen, VetoJustified
  <2>6. QED
    BY <2>1, <2>3, <2>4, <2>5 DEF CriticsInv, CacheSound, JudgedSound
<1>5. CASE ScoresDone
  <2>1. /\ pc = "score" /\ ((pc' = "rollout" /\ ~data.fail) \/ pc' = "idle")
        /\ q' = 1 /\ scored' = {} /\ missed' = {}
        /\ UNCHANGED <<setup, layer, radius, cache, scene, data>>
    BY <1>5 DEF ScoresDone, BatchDone
  <2>2. CallSound'
    BY <2>1 DEF CriticsInv, CallSound, Inflated, Threshold
  <2>3. QED
    BY <2>1, <2>2 DEF CriticsInv, CacheSound, JudgedSound
<1>6. CASE UNCHANGED vars
  <2>1. UNCHANGED <<pc, setup, layer, radius, cache, scene, rollouts, data, q, scored, missed>>
    BY <1>6 DEF vars, callVars
  <2>2. QED
    BY <2>1 DEF CriticsInv, CallSound, CacheSound, JudgedSound, AskedHaveScored, UsableIfAny,
                CollisionsSeen, VetoJustified, Forbidden, InCollision, Inflated, Threshold,
                Enabled, Near, Path
<1>7. QED
  BY <1>1, <1>2, <1>3, <1>4, <1>5, <1>6, CollisionCriticsSound, OtherCriticsSound DEF Next

\* The invariant holds throughout.
THEOREM CriticsInvariant == Spec => []CriticsInv
  BY CriticsInit, CriticsStep, PTL DEF Spec

\* For every list of critics that has both, wherever the robot is and whatever the
\* others do, GoalCritic or PathFollow scores a batch that is not vetoed.
THEOREM SomeoneAlwaysDrives == Spec => []SomeoneDrives
<1>1. CriticsInv => SomeoneDrives
  <2> SUFFICES ASSUME CriticsInv, Scored, Size(Path) >= 2,
                      \A c \in {"GoalCritic", "PathFollowCritic"} : Loaded(c) /\ Enabled(c),
                      setup.threshold["GoalCritic"] >= setup.threshold["PathFollowCritic"]
               PROVE  scored \cap {"GoalCritic", "PathFollowCritic"} # {}
    BY DEF SomeoneDrives
  <2>1. /\ pc = "score" /\ q > Len(setup.order) /\ setup.order \in Seq(Names) /\ q \in Nat
        /\ scene \in Scenes /\ setup \in Setups
    BY CriticsAssumption DEF Scored, CriticsInv, CallSound
  <2>2. \A i \in DOMAIN setup.order : i < q
    <3>1. \A i \in DOMAIN setup.order : i \in Nat /\ i <= Len(setup.order)
      BY <2>1
    <3>2. Len(setup.order) \in Nat
      BY <2>1
    <3>3. QED
      BY <2>1, <3>1, <3>2
  <2>3. /\ Near("GoalCritic") => "GoalCritic" \in scored
        /\ ~Near("PathFollowCritic") => "PathFollowCritic" \in scored
    BY <2>1, <2>2 DEF Loaded, CriticsInv, JudgedSound, AskedHaveScored
  <2>4. Near("PathFollowCritic") => Near("GoalCritic")
    <3> DEFINE d == Dist2(scene.robot, Path[LastIdx(Path)])
               a == setup.threshold["PathFollowCritic"]
               b == setup.threshold["GoalCritic"]
    <3>1. d \in Int
      <4>1. scene.robot \in Int \X Int
        BY <2>1, CriticsAssumption
      <4>2. Path[LastIdx(Path)] \in Int \X Int
        BY <2>1, PathSize DEF Path
      <4>3. QED
        BY <4>1, <4>2 DEF Dist2
    <3>2. a \in Nat /\ b \in Nat /\ a <= b
      BY <2>1, CriticsAssumption DEF Names
    <3> HIDE DEF d, a, b
    <3>3. \A x, y \in Nat : x <= y => x * x <= y * y
      BY Z3
    <3>4. a * a <= b * b /\ a * a \in Nat /\ b * b \in Nat
      BY <3>2, <3>3
    <3>5. d < a * a => d < b * b
      BY <3>1, <3>4
    <3>6. QED
      BY <3>5 DEF Near, WithinPositionGoalTolerance, d, a, b
  <2>5. QED
    BY <2>3, <2>4
<1>2. QED
  BY <1>1, CriticsInvariant, PTL

\* A collision goes unnoticed only through a stale cost or a free centre without
\* inflation, and a veto is right: for every costmap, footprint and history of the
\* inflation layer.
THEOREM CollisionsAreJudged == Spec => []CollisionsJudged
<1>1. CriticsInv => CollisionsJudged
  BY DEF CriticsInv, JudgedSound, CollisionsJudged, CollisionsSeen, VetoJustified
<1>2. QED
  BY <1>1, CriticsInvariant, PTL

\* ObstaclesCritic works without a usable cost only while the layer has none.
THEOREM ObstaclesCriticRecovers == Spec => []ObstaclesRecovers
<1>1. CriticsInv => ObstaclesRecovers
  <2> SUFFICES ASSUME CriticsInv, pc = "score", "ObstaclesCritic" \in scored,
                      cache["ObstaclesCritic"].cost < 1
               PROVE  Threshold < 1
    BY DEF ObstaclesRecovers
  <2>1. cache["ObstaclesCritic"].cost \in -1..252
    BY DEF CriticsInv, CacheSound, Collision
  <2>2. cache["ObstaclesCritic"].cost = Threshold
    BY <2>1 DEF CriticsInv, JudgedSound, UsableIfAny
  <2>3. QED
    BY <2>2
<1>2. QED
  BY <1>1, CriticsInvariant, PTL

----------------------------------------------------------------------------
(* The data the critics share.                                               *)

FurthestPoints == {FindPathFurthestReachedPoint(Path, b) : b \in batches}
PathCosts      == FindPathCosts(Path, scene.cells, setup.trackUnknown)

\* An optional member is absent, or it is what was computed on a batch of this call.
MembersSound(d) ==
    /\ d.furthest = {} \/ \E f \in FurthestPoints : d.furthest = {f}
    /\ d.valid = {} \/ d.valid = {PathCosts}

\* The furthest point is there by then; a point compared is nearest, but for the first
\* one and the end, and the end only if the rollout runs past everything.
AlignedSound ==
    aligned # {} =>
        /\ data.furthest # {} /\ AlignedToNearest
        /\ LET n == Value(data.furthest) IN
           \A a \in aligned : /\ a.point \in 0..n
                              /\ a.point = n => \A j \in 0..(n - 1) :
                                     a.dist > IntegratedDistances(Path, n)[j]

TargetSound ==
    /\ target = {} \/ \E t : target = {t}
    /\ target # {} => data.furthest # {}
    /\ FollowsFirstFree

\* Before PathAlign is asked, nothing is compared, and so nothing is read beyond the end.
TouchedSound ==
    /\ touched \subseteq Nat /\ ValidOverreadAtEndOnly
    /\ (\E i \in DOMAIN setup.order : i >= q /\ setup.order[i] = "PathAlignCritic") => aligned = {}

\* The counters of the call.
CountersSound ==
    /\ scene \in Scenes /\ q \in 1..(Len(setup.order) + 1) /\ scored \subseteq Names
    /\ iter \in 0..setup.iterations
    /\ pc \in {"unconfigured", "idle"} => iter = 0 /\ batches = {}
    /\ pc = "rollout" => iter < setup.iterations

SharedInv ==
    /\ CountersSound
    /\ pc \in {"rollout", "score"} => batches \subseteq scene.batches /\ MembersSound(data)
    /\ pc = "score" => rollouts \in batches /\ AlignedSound /\ TargetSound /\ TouchedSound
    /\ pc # "score" => target = {} /\ aligned = {} /\ touched = {}

\* The data passed on by a critic: members that were there are kept.
Extends(d) == MembersSound(d) /\ (data.furthest # {} => d.furthest = data.furthest)

LEMMA ValueOf == \A x : Value({x}) = x
  BY DEF Value

LEMMA CallFacts ==
  ASSUME CriticsInv, SharedInv, pc = "score"
  PROVE  /\ scene \in Scenes /\ setup \in Setups /\ IsData(data)
         /\ LastIdx(Path) \in Nat /\ Path \in [0..LastIdx(Path) -> Int \X Int]
         /\ \A f \in FurthestPoints : f \in 0..LastIdx(Path)
         /\ rollouts \in scene.batches
         /\ setup.order \in Seq(Names) /\ q \in Nat
<1>1. scene \in Scenes /\ setup \in Setups /\ IsData(data) /\ q \in Nat /\ rollouts \in scene.batches
  BY DEF CriticsInv, CallSound
<1>2. LastIdx(Path) \in Nat /\ Path \in [0..LastIdx(Path) -> Int \X Int] /\ setup.order \in Seq(Names)
  BY <1>1, CriticsAssumption DEF Path
<1>3. batches \subseteq scene.batches
  BY DEF SharedInv
<1>4. \A f \in FurthestPoints : f \in 0..LastIdx(Path)
  BY <1>1, <1>3, FurthestRange DEF FurthestPoints, Path
<1>5. QED
  BY <1>1, <1>2, <1>4

\* What SetPathFurthestPointIfNotSet and SetPathCostsIfNotSet leave.
LEMMA FilledIn ==
  ASSUME CriticsInv, SharedInv, pc = "score"
  PROVE  LET d1 == SetPathFurthestPointIfNotSet(data)
             d2 == SetPathCostsIfNotSet(d1)
         IN  /\ Extends(data) /\ Extends(d1) /\ Extends(d2)
             /\ d2.furthest = d1.furthest /\ d2.valid = {PathCosts}
             /\ \E f \in FurthestPoints : d1.furthest = {f}
<1> DEFINE d1 == SetPathFurthestPointIfNotSet(data)
           d2 == SetPathCostsIfNotSet(d1)
           f0 == FindPathFurthestReachedPoint(Path, rollouts)
<1>1. MembersSound(data) /\ rollouts \in batches /\ IsData(data)
  BY CallFacts DEF SharedInv
<1>2. f0 \in FurthestPoints
  BY <1>1 DEF FurthestPoints
<1>3. /\ IsData(d1) /\ d1.valid = data.valid
      /\ d1.furthest = IF data.furthest # {} THEN data.furthest ELSE {f0}
  BY <1>1 DEF SetPathFurthestPointIfNotSet, IsData
<1>4. Extends(d1) /\ \E f \in FurthestPoints : d1.furthest = {f}
  BY <1>1, <1>2, <1>3 DEF Extends, MembersSound
<1> HIDE DEF d1
<1>5. /\ IsData(d2) /\ d2.furthest = d1.furthest
      /\ d2.valid = IF d1.valid # {} THEN d1.valid ELSE {PathCosts}
  BY <1>3 DEF SetPathCostsIfNotSet, IsData, PathCosts
<1>6. Extends(d2) /\ d2.valid = {PathCosts}
  BY <1>4, <1>5 DEF Extends, MembersSound
<1>7. Extends(data)
  BY <1>1 DEF Extends
<1>8. QED
  BY <1>4, <1>5, <1>6, <1>7 DEF d1

\* A critic has been asked: what it leaves of the call.
LEMMA CriticAsked ==
  ASSUME CriticsInv, SharedInv, NEW c \in Names, Called(c),
         q' = q + 1, scored' \subseteq Names,
         UNCHANGED <<pc, setup, scene, rollouts, iter, batches>>,
         Extends(data'), AlignedSound', TargetSound', TouchedSound'
  PROVE  SharedInv'
<1>1. pc = "score" /\ q <= Len(setup.order) /\ q \in Nat /\ setup.order \in Seq(Names)
  BY CallFacts DEF Called
<1>2. CountersSound'
  <2>1. Len(setup.order) \in Nat
    BY <1>1
  <2>2. q' \in 1..(Len(setup.order) + 1)
    BY <1>1, <2>1
  <2>3. QED
    BY <1>1, <2>2 DEF SharedInv, CountersSound
<1>3. FurthestPoints' = FurthestPoints /\ PathCosts' = PathCosts
  BY DEF FurthestPoints, PathCosts, Path
<1>4. MembersSound(data)'
  BY <1>3 DEF Extends, MembersSound
<1>5. QED
  BY <1>1, <1>2, <1>4 DEF SharedInv

\* It has compared nothing, and read what it needed of path_pts_valid within bounds.
LEMMA ReadsWithin ==
  ASSUME CriticsInv, SharedInv, NEW c \in Names, Called(c),
         q' = q + 1, UNCHANGED <<setup, scene, aligned>>, Extends(data'),
         touched' \subseteq touched \cup {i \in Nat : i < LastIdx(Path)}
  PROVE  AlignedSound' /\ TouchedSound'
<1>1. /\ pc = "score" /\ LastIdx(Path) \in Nat /\ q \in Nat
      /\ setup.order \in Seq(Names) /\ AlignedSound /\ TouchedSound
  BY CallFacts DEF Called, SharedInv
<1>2. data.furthest # {} => data'.furthest = data.furthest
  BY DEF Extends
<1>3. AlignedSound'
  BY <1>1, <1>2 DEF AlignedSound, AlignedToNearest, Path
<1>4. touched' \subseteq Nat
  BY <1>1 DEF TouchedSound
<1>5. ValidOverreadAtEndOnly'
  <2> SUFFICES ASSUME NEW i \in touched', i >= LastIdx(Path)
               PROVE  /\ i = LastIdx(Path) /\ data'.furthest = {i}
                      /\ \E a \in aligned : a.point = i /\ \A j \in 0..(i - 1) :
                             a.dist > IntegratedDistances(Path, i)[j]
    BY DEF ValidOverreadAtEndOnly, Path
  <2>1. i \in touched
    BY <1>1, <1>4
  <2>2. QED
    BY <1>1, <1>2, <2>1 DEF TouchedSound, ValidOverreadAtEndOnly
<1>6. (\E i \in DOMAIN setup.order : i >= q + 1 /\ setup.order[i] = "PathAlignCritic") => aligned = {}
  <2>1. \A i \in DOMAIN setup.order : i \in Nat
    BY <1>1
  <2>2. QED
    BY <1>1, <2>1 DEF TouchedSound
<1>7. QED
  BY <1>3, <1>4, <1>5, <1>6 DEF TouchedSound

\* A target stays what it was.
LEMMA TargetKept ==
  ASSUME CriticsInv, SharedInv, pc = "score", UNCHANGED <<setup, scene, target>>, Extends(data')
  PROVE  TargetSound'
<1>1. TargetSound /\ (data.furthest # {} => data'.furthest = data.furthest)
  BY DEF SharedInv, Extends
<1>2. QED
  BY <1>1 DEF TargetSound, FollowsFirstFree, Offseted, Path

\* A critic that neither compares nor drives.
LEMMA OnlyScores ==
  ASSUME CriticsInv, SharedInv, NEW c \in Names, Called(c), q' = q + 1, scored' \subseteq Names,
         UNCHANGED <<pc, setup, scene, rollouts, iter, batches, target, aligned>>, Extends(data'),
         touched' \subseteq touched \cup {i \in Nat : i < LastIdx(Path)}
  PROVE  SharedInv'
<1>1. AlignedSound' /\ TouchedSound'
  BY ReadsWithin
<1>2. TargetSound'
  BY TargetKept DEF Called
<1>3. QED
  BY <1>1, <1>2, CriticAsked

----------------------------------------------------------------------------
\* The critics that look at no pose of the path but the goal, and the collision critics.
LEMMA GoalCriticsShare ==
  ASSUME CriticsInv, SharedInv,
         \/ ConstraintCritic \/ VelocityDeadbandCritic
         \/ GoalCritic \/ GoalAngleCritic \/ PreferForwardCritic \/ TwirlingCritic
         \/ CostCritic \/ ObstaclesCritic
  PROVE  SharedInv'
<1>1. ASSUME NEW c \in Names, NEW does, Called(c), Scores(c, does), Untouched
      PROVE  SharedInv'
  <2>1. scored' \subseteq Names
    BY <1>1 DEF Scores, SharedInv, CountersSound
  <2>2. Extends(data')
    BY <1>1, FilledIn DEF Untouched, Called
  <2>3. QED
    BY <1>1, <2>1, <2>2, OnlyScores DEF Scores, Untouched
<1>2. ASSUME NEW c \in Collision, NEW fresh, CollisionCritic(c, fresh)
      PROVE  SharedInv'
  <2>1. c \in Names /\ Called(c)
    BY <1>2 DEF Names, CollisionCritic
  <2>2. IsData(data) /\ Extends(data)
    BY <2>1, CallFacts, FilledIn DEF Called
  <2>3. Extends(data')
    BY <1>2, <2>2 DEF CollisionCritic, IsData, Extends, MembersSound
  <2>4. scored' \subseteq Names
    BY <1>2, <2>1 DEF CollisionCritic, SharedInv, CountersSound
  <2>5. QED
    BY <1>2, <2>1, <2>3, <2>4, OnlyScores DEF CollisionCritic
<1>3. ASSUME NEW c \in Collision, Disabled(c)
      PROVE  SharedInv'
  BY <1>1, <1>3 DEF Disabled, Names
<1>4. CASE CostCritic \/ ObstaclesCritic
  BY <1>2, <1>3, <1>4 DEF CostCritic, ObstaclesCritic, Collision
<1>5. CASE ConstraintCritic \/ VelocityDeadbandCritic
  BY <1>1, <1>5 DEF ConstraintCritic, VelocityDeadbandCritic, ScoresAlways, Names
<1>6. CASE GoalCritic \/ GoalAngleCritic
  BY <1>1, <1>6 DEF GoalCritic, GoalAngleCritic, ScoresNear, Names
<1>7. CASE PreferForwardCritic \/ TwirlingCritic
  BY <1>1, <1>7 DEF PreferForwardCritic, TwirlingCritic, ScoresFar, Names
<1>8. QED
  BY <1>4, <1>5, <1>6, <1>7

\* A path critic that returns.
LEMMA ReturnsShare ==
  ASSUME CriticsInv, SharedInv, NEW c \in Names, PathCriticReturns(c) \/ AlignReturns(c)
  PROVE  SharedInv'
<1>1. Called(c) /\ Scores(c, FALSE) /\ UNCHANGED <<target, aligned, touched>>
  BY DEF PathCriticReturns, AlignReturns, Untouched
<1>2. Extends(data')
  BY <1>1, FilledIn DEF PathCriticReturns, AlignReturns, Untouched, Called
<1>3. scored' \subseteq Names
  BY <1>1 DEF Scores, SharedInv, CountersSound
<1>4. QED
  BY <1>1, <1>2, <1>3, OnlyScores DEF Scores

LEMMA PathAngleShares == CriticsInv /\ SharedInv /\ PathAngleCritic => SharedInv'
<1> SUFFICES ASSUME CriticsInv, SharedInv, PathAngleCritic
             PROVE  SharedInv'
  OBVIOUS
<1>0. "PathAngleCritic" \in Names
  BY DEF Names
<1>1. ASSUME NEW facing \in BOOLEAN, Called("PathAngleCritic"), Scores("PathAngleCritic", ~facing),
             data' = SetPathFurthestPointIfNotSet(data), UNCHANGED <<target, aligned, touched>>
      PROVE  SharedInv'
  <2>1. Extends(data')
    BY <1>1, FilledIn DEF Called
  <2>2. scored' \subseteq Names
    BY <1>0, <1>1 DEF Scores, SharedInv, CountersSound
  <2>3. QED
    BY <1>0, <1>1, <2>1, <2>2, OnlyScores DEF Scores
<1>2. QED
  BY <1>0, <1>1, ReturnsShare DEF PathAngleCritic

\* The legacy critic reads up to the last but two.
LEMMA PathAlignLegacyShares == CriticsInv /\ SharedInv /\ PathAlignLegacyCritic => SharedInv'
<1> SUFFICES ASSUME CriticsInv, SharedInv, PathAlignLegacyCritic
             PROVE  SharedInv'
  OBVIOUS
<1> DEFINE c == "PathAlignLegacyCritic"
           d == SetPathCostsIfNotSet(SetPathFurthestPointIfNotSet(data))
           near == IF LegacyPoses = {} THEN {0}
                   ELSE UNION {{FirstNearest(Path, LegacyPoses, r[p]) : p \in Samples(r)} : r \in rollouts}
<1>0. c \in Names
  BY DEF Names
<1>1. CASE AlignReturns(c)
  BY <1>0, <1>1, ReturnsShare
<1>2. CASE /\ Aligns(c, d)
           /\ touched' = touched \cup (near \ {0})
           /\ Scores(c, LastIdx(Path) >= 1)
           /\ UNCHANGED <<target, aligned, missed>>
  <2>1. Called(c) /\ data' = d /\ pc = "score"
    BY <1>2 DEF Aligns, Called
  <2>2. Extends(data')
    BY <2>1, FilledIn
  <2>3. near \ {0} \subseteq {i \in Nat : i < LastIdx(Path)}
    <3>1. /\ LastIdx(Path) \in Nat /\ \A i \in 0..LastIdx(Path) : Path[i] \in Int \X Int
          /\ rollouts \in scene.batches /\ scene \in Scenes
      BY <2>1, CallFacts
    <3>2. ASSUME LegacyPoses # {}, NEW r \in rollouts, NEW p \in Samples(r)
          PROVE  FirstNearest(Path, LegacyPoses, r[p]) \in LegacyPoses
      <4>1. r \in [0..LastIdx(r) -> Int \X Int]
        BY <3>1, CriticsAssumption
      <4>2. r[p] \in Int \X Int
        BY <4>1 DEF Samples
      <4>3. LegacyPoses \subseteq Nat /\ \A i \in LegacyPoses : Path[i] \in Int \X Int
        BY <3>1 DEF LegacyPoses
      <4>4. QED
        BY <3>2, <4>2, <4>3, FirstNearestFound
    <3>3. near \ {0} \subseteq LegacyPoses
      BY <3>2
    <3>4. LegacyPoses \subseteq {i \in Nat : i < LastIdx(Path)}
      BY <3>1 DEF LegacyPoses
    <3>5. QED
      BY <3>3, <3>4
  <2> HIDE DEF near, d
  <2>4. touched' \subseteq touched \cup {i \in Nat : i < LastIdx(Path)}
    BY <1>2, <2>3
  <2>5. scored' \subseteq Names
    BY <1>0, <1>2 DEF Scores, SharedInv, CountersSound
  <2>6. QED
    BY <1>0, <1>2, <2>1, <2>2, <2>4, <2>5, OnlyScores DEF Scores
<1>3. QED
  BY <1>1, <1>2 DEF PathAlignLegacyCritic

\* PathAlign compares every sample with a point found by findClosestPathPt.
LEMMA PathAlignShares == CriticsInv /\ SharedInv /\ PathAlignCritic => SharedInv'
<1> SUFFICES ASSUME CriticsInv, SharedInv, PathAlignCritic
             PROVE  SharedInv'
  OBVIOUS
<1> DEFINE c   == "PathAlignCritic"
           d   == SetPathCostsIfNotSet(SetPathFurthestPointIfNotSet(data))
           n   == Value(d.furthest)
           vec == IntegratedDistances(Path, n)
<1>0. c \in Names
  BY DEF Names
<1>1. CASE AlignReturns(c)
  BY <1>0, <1>1, ReturnsShare
<1>2. ASSUME Aligns(c, d), Scores(c, TRUE), UNCHANGED <<target, missed>>,
             NEW f, \A r \in rollouts : f[r] \in Alignments(r, vec, n),
             aligned' = UNION {{[dist |-> Travelled(r)[p], point |-> f[r][p]] :
                                        p \in Samples(r)} : r \in rollouts},
             touched' = touched \cup {a.point : a \in aligned'}
      PROVE  SharedInv'
  <2>1. /\ Called(c) /\ data' = d /\ pc = "score" /\ n >= setup.offset[c]
        /\ q' = q + 1 /\ scored' = scored \cup {c}
        /\ UNCHANGED <<pc, setup, scene, rollouts, iter, batches>>
    BY <1>2 DEF Aligns, Called, Scores
  <2>2. /\ LastIdx(Path) \in Nat /\ \A i \in 0..LastIdx(Path) : Path[i] \in Int \X Int
        /\ rollouts \in scene.batches /\ scene \in Scenes /\ setup \in Setups
        /\ setup.order \in Seq(Names) /\ q \in Nat
    BY <2>1, CallFacts
  <2>3. /\ Extends(data') /\ d.furthest = {n} /\ n \in 0..LastIdx(Path)
    BY <2>1, FilledIn, CallFacts, ValueOf
  <2>4. n \in Nat \ {0} /\ setup.step \in Nat \ {0}
    <3>1. setup.offset[c] \in Nat /\ setup.offset[c] > 0 /\ setup.step \in Nat \ {0}
      BY <1>0, <2>2, CriticsAssumption
    <3>2. QED
      BY <2>1, <2>2, <2>3, <3>1
  <2> HIDE DEF n, d
  <2>5. vec \in [0..(n - 1) -> Nat] /\ \A i, j \in 0..(n - 1) : i <= j => vec[i] <= vec[j]
    <3>1. \A i \in 0..n : Path[i] \in Int \X Int
      BY <2>2, <2>3
    <3>2. QED
      BY <2>4, <3>1, DistancesSound
  <2> HIDE DEF vec
  <2>6. ASSUME NEW r \in rollouts, NEW p \in Samples(r)
        PROVE  /\ f[r][p] \in 0..n
               /\ f[r][p] \notin {0, n} => \A j \in 0..(n - 1) :
                      Abs(vec[f[r][p]] - Travelled(r)[p]) <= Abs(vec[j] - Travelled(r)[p])
               /\ f[r][p] = n => \A j \in 0..(n - 1) : Travelled(r)[p] > vec[j]
    <3> DEFINE init == IF p - setup.step \in Samples(r) THEN f[r][p - setup.step] ELSE 0
    <3>1. LastIdx(r) \in Nat /\ r \in [0..LastIdx(r) -> Int \X Int]
      BY <2>2, CriticsAssumption
    <3>2. Travelled(r)[p] \in Nat
      BY <2>4, <3>1, TravelledSound
    <3>3. f[r] \in [Samples(r) -> 0..n] /\ f[r][p] \in ClosestPathPts(vec, n, Travelled(r)[p], init)
      BY <1>2 DEF Alignments
    <3>4. init \in 0..n
      BY <2>4, <3>3
    <3> HIDE DEF init
    <3>5. \A j \in 0..(n - 1) : vec[j] \in Nat
      BY <2>5
    <3>6. QED
      BY <2>4, <2>5, <3>2, <3>3, <3>4, <3>5, ClosestPointFound
  <2>7. ASSUME NEW a \in aligned'
        PROVE  /\ a.point \in 0..n
               /\ a.point \notin {0, n} => \A j \in 0..(n - 1) :
                      Abs(vec[a.point] - a.dist) <= Abs(vec[j] - a.dist)
               /\ a.point = n => \A j \in 0..(n - 1) : a.dist > vec[j]
    <3>1. PICK r \in rollouts :
                 a \in {[dist |-> Travelled(r)[p], point |-> f[r][p]] : p \in Samples(r)}
      BY <1>2
    <3>2. PICK p \in Samples(r) : a = [dist |-> Travelled(r)[p], point |-> f[r][p]]
      BY <3>1
    <3>3. QED
      BY <2>6, <3>2
  <2>8. Value(data'.furthest) = n /\ Path' = Path /\ data'.furthest = {n}
    BY <2>1, <2>3, ValueOf DEF Path
  <2>9. AlignedSound'
    BY <2>7, <2>8 DEF AlignedSound, AlignedToNearest, vec
  <2>10. q \in DOMAIN setup.order /\ setup.order[q] = c
    <3>1. q >= 1 /\ q <= Len(setup.order)
      BY <2>1, <2>2 DEF Called, SharedInv, CountersSound
    <3>2. QED
      BY <2>1, <2>2, <3>1 DEF Called
  <2>11. aligned = {} /\ \A i \in touched : i \in Nat /\ ~(i >= LastIdx(Path))
    <3>2. aligned = {}
      BY <2>1, <2>2, <2>10 DEF SharedInv, TouchedSound
    <3>3. QED
      BY <2>1, <3>2 DEF SharedInv, TouchedSound, ValidOverreadAtEndOnly
  <2>12. TouchedSound'
    <3>1. \A i \in touched' : i \in touched \/ \E a \in aligned' : i = a.point
      BY <1>2
    <3>2. touched' \subseteq Nat
      BY <2>4, <2>7, <2>11, <3>1
    <3>3. ValidOverreadAtEndOnly'
      <4> SUFFICES ASSUME NEW i \in touched', i >= LastIdx(Path)
                   PROVE  /\ i = LastIdx(Path) /\ data'.furthest = {i}
                          /\ \E a \in aligned' : a.point = i /\ \A j \in 0..(i - 1) :
                                 a.dist > IntegratedDistances(Path, i)[j]
        BY <2>8 DEF ValidOverreadAtEndOnly
      <4>1. PICK a \in aligned' : i = a.point
        BY <2>11, <3>1
      <4>2. i = LastIdx(Path) /\ i = n
        BY <2>2, <2>3, <2>7, <4>1
      <4>3. QED
        BY <2>7, <2>8, <4>1, <4>2 DEF vec
    <3>4. ~ \E i \in DOMAIN setup.order : i >= q + 1 /\ setup.order[i] = c
      <4>1. \A i, j \in DOMAIN setup.order : setup.order[i] = setup.order[j] => i = j
        BY <2>2, CriticsAssumption
      <4>2. QED
        BY <2>2, <2>10, <4>1
    <3>5. QED
      BY <2>1, <3>2, <3>3, <3>4 DEF TouchedSound
  <2>13. TargetSound'
    BY <1>2, <2>1, <2>3, TargetKept
  <2>14. scored' \subseteq Names
    BY <1>0, <2>1 DEF SharedInv, CountersSound
  <2>15. QED
    BY <1>0, <2>1, <2>3, <2>9, <2>12, <2>13, <2>14, CriticAsked
<1>3. CASE ~AlignReturns(c)
  <2>1. PICK f \in [rollouts -> UNION {Alignments(r, vec, n) : r \in rollouts}] :
                /\ \A r \in rollouts : f[r] \in Alignments(r, vec, n)
                /\ aligned' = UNION {{[dist |-> Travelled(r)[p], point |-> f[r][p]] :
                                        p \in Samples(r)} : r \in rollouts}
    BY <1>3 DEF PathAlignCritic
  <2>2. /\ Aligns(c, d) /\ Scores(c, TRUE) /\ UNCHANGED <<target, missed>>
        /\ touched' = touched \cup {a.point : a \in aligned'}
    BY <1>3 DEF PathAlignCritic
  <2>3. QED
    BY <1>2, <2>1, <2>2
<1>4. QED
  BY <1>1, <1>3

\* PathFollow searches from its offset for the first free pose.
LEMMA PathFollowShares == CriticsInv /\ SharedInv /\ PathFollowCritic => SharedInv'
<1> SUFFICES ASSUME CriticsInv, SharedInv, PathFollowCritic
             PROVE  SharedInv'
  OBVIOUS
<1> DEFINE c  == "PathFollowCritic"
           d  == SetPathCostsIfNotSet(SetPathFurthestPointIfNotSet(data))
           L  == LastIdx(Path)
           i0 == Offseted(d, c)
           S  == {j \in i0..(L - 1) : j = L - 1 \/ Value(d.valid)[j]}
           to == IF i0 >= L - 1 THEN i0 ELSE Lowest(S)
           Free(i) == Passable(scene.cells[Path[i]], setup.trackUnknown)
<1>0. c \in Names
  BY DEF Names
<1>1. CASE PathCriticReturns(c)
  BY <1>0, <1>1, ReturnsShare
<1>2. CASE Called(c) /\ Size(Path) < 2 /\ Scores(c, FALSE) /\ Untouched
  <2>1. Extends(data')
    BY <1>2, FilledIn DEF Untouched, Called
  <2>2. scored' \subseteq Names
    BY <1>2 DEF Scores, SharedInv, CountersSound
  <2>3. QED
    BY <1>0, <1>2, <2>1, <2>2, OnlyScores DEF Scores, Untouched
<1>3. CASE /\ Called(c) /\ ~(Size(Path) < 2) /\ data' = d /\ target' = {to}
           /\ touched' = touched \cup (i0..to \cap 0..(L - 2))
           /\ Scores(c, TRUE) /\ UNCHANGED <<aligned, missed>>
  <2>1. pc = "score" /\ q' = q + 1 /\ scored' = scored \cup {c}
        /\ UNCHANGED <<pc, setup, scene, rollouts, iter, batches>>
    BY <1>3 DEF Called, Scores
  <2>2. L \in Nat /\ scene \in Scenes /\ setup \in Setups /\ setup.offset[c] \in Nat
    BY <1>0, <2>1, CallFacts, CriticsAssumption
  <2>3. PICK f \in 0..L : d.furthest = {f} /\ d.valid = {PathCosts} /\ Extends(d)
    BY <2>1, FilledIn, CallFacts
  <2>4. Size(Path) = L + 1 /\ L >= 1
    <3>1. Size(Path) \in Nat
      BY <2>2, PathSize DEF Path
    <3>2. QED
      BY <1>3, <3>1 DEF LastIdx
  <2>5. Value(d.furthest) = f /\ Value(d.valid) = PathCosts
    BY <2>3, ValueOf
  <2> HIDE DEF d, L
  <2>6. i0 \in f..L
    <3>1. {f + setup.offset[c], L} \subseteq Nat
      BY <2>2
    <3>2. i0 \in {f + setup.offset[c], L} /\ \A y \in {f + setup.offset[c], L} : i0 <= y
      BY <2>5, <3>1, LowestSound DEF Offseted, L
    <3>3. QED
      BY <2>2, <3>2
  <2>7. \A j \in 0..(L - 1) : PathCosts[j] = Free(j)
    BY DEF PathCosts, FindPathCosts, L
  <2> HIDE DEF i0, Free
  <2>8. /\ to \in 0..L /\ to >= f /\ to >= i0
        /\ to < L - 1 => Free(to)
        /\ \A i \in i0..(to - 1) : ~Free(i)
    <3>1. CASE i0 >= L - 1
      BY <2>2, <2>6, <3>1
    <3>2. CASE ~(i0 >= L - 1)
      <4>1. S \subseteq Nat /\ L - 1 \in S
        BY <2>2, <2>6, <3>2
      <4>2. to \in S /\ \A y \in S : to <= y
        <5> HIDE DEF S
        <5>1. QED
          BY <3>2, <4>1, LowestSound
      <4> HIDE DEF to
      <4>3. to \in i0..(L - 1) /\ (to = L - 1 \/ PathCosts[to])
        BY <2>5, <4>2
      <4>4. ASSUME NEW i \in i0..(to - 1)
            PROVE  ~Free(i)
        <5>1. i \in i0..(L - 1) /\ i \in 0..(L - 1) /\ i # L - 1 /\ ~(to <= i)
          BY <2>2, <2>6, <4>3
        <5>2. i \notin S
          BY <4>2, <5>1
        <5>3. QED
          BY <2>5, <2>7, <5>1, <5>2
      <4>5. QED
        BY <2>2, <2>6, <2>7, <4>3, <4>4
    <3>3. QED
      BY <3>1, <3>2
  <2> HIDE DEF to
  <2>9. TargetSound'
    <3>1. i0 = Offseted(data, c)' /\ Value(data.furthest)' = f /\ data'.furthest # {}
          /\ LastIdx(Path') = L
      BY <1>3, <2>1, <2>3, <2>5 DEF i0, L, Offseted, Path
    <3>2. \A i : Free(i) = Passable(scene'.cells[Path'[i]], setup'.trackUnknown)
      BY <2>1 DEF Free, Path
    <3>3. target' = {to}
      BY <1>3
    <3>4. FollowsFirstFree'
      <4>1. /\ to \in 0..LastIdx(Path') /\ to >= Value(data'.furthest)
            /\ to < LastIdx(Path') - 1 => Passable(scene'.cells[Path'[to]], setup'.trackUnknown)
        BY <2>8, <3>1, <3>2
      <4>2. \A i \in Offseted(data, c)'..(to - 1) : ~Passable(scene'.cells[Path'[i]], setup'.trackUnknown)
        BY <2>8, <3>1, <3>2
      <4>3. QED
        BY <3>3, <4>1, <4>2 DEF FollowsFirstFree
    <3>5. QED
      BY <3>1, <3>3, <3>4 DEF TargetSound
  <2>10. touched' \subseteq touched \cup {i \in Nat : i < LastIdx(Path)}
    BY <1>3, <2>2 DEF L
  <2>11. Extends(data')
    BY <1>3, <2>3
  <2>12. AlignedSound' /\ TouchedSound'
    BY <1>0, <1>3, <2>1, <2>10, <2>11, ReadsWithin
  <2>13. scored' \subseteq Names
    BY <1>0, <2>1 DEF SharedInv, CountersSound
  <2>14. QED
    BY <1>0, <1>3, <2>1, <2>9, <2>11, <2>12, <2>13, CriticAsked
<1>4. QED
  BY <1>1, <1>2, <1>3 DEF PathFollowCritic

----------------------------------------------------------------------------
LEMMA SharedInit == Init => SharedInv
<1> SUFFICES ASSUME Init
             PROVE  SharedInv
  OBVIOUS
<1>1. scene \in Scenes /\ setup \in Setups
  BY CriticsAssumption DEF Init
<1>2. setup.order \in Seq(Names) /\ setup.iterations \in Nat
  BY <1>1, CriticsAssumption
<1>3. Len(setup.order) \in Nat
  BY <1>2
<1>4. CountersSound
  BY <1>1, <1>2, <1>3 DEF Init, CountersSound
<1>5. QED
  BY <1>4 DEF Init, SharedInv

\* The frame of a call.
LEMMA FrameShares ==
  ASSUME CriticsInv, SharedInv,
         \/ Configure \/ CostmapChanges \/ Prepare \/ GenerateNoisedTrajectories \/ ScoresDone
  PROVE  SharedInv'
<1>0. /\ setup \in Setups /\ setup.order \in Seq(Names) /\ setup.iterations \in Nat
      /\ Len(setup.order) \in Nat /\ CountersSound /\ iter \in Nat
  <2>1. setup \in Setups /\ CountersSound
    BY DEF CriticsInv, CallSound, SharedInv
  <2>2. setup.order \in Seq(Names) /\ setup.iterations \in Nat
    BY <2>1, CriticsAssumption
  <2>3. QED
    BY <2>1, <2>2 DEF CountersSound
<1>1. CASE Configure
  BY <1>0, <1>1 DEF Configure, callVars, SharedInv, CountersSound
<1>2. CASE CostmapChanges
  BY <1>0, <1>2 DEF CostmapChanges, callVars, SharedInv, CountersSound
<1>3. CASE Prepare
  <2>1. /\ pc = "idle" /\ setup.iterations > 0 /\ pc' = "rollout" /\ scene' \in Scenes
        /\ data' = NoData /\ UNCHANGED <<setup, q, iter, scored, target, aligned, touched, batches>>
    BY <1>3 DEF Prepare
  <2>2. iter = 0 /\ batches = {} /\ target = {} /\ aligned = {} /\ touched = {}
    BY <2>1 DEF SharedInv, CountersSound
  <2>3. CountersSound'
    BY <1>0, <2>1, <2>2 DEF CountersSound
  <2>4. MembersSound(data)'
    BY <2>1 DEF MembersSound, NoData
  <2>5. QED
    BY <2>1, <2>2, <2>3, <2>4 DEF SharedInv
<1>4. CASE GenerateNoisedTrajectories
  <2>1. /\ pc = "rollout" /\ pc' = "score" /\ rollouts' \in scene.batches
        /\ batches' = batches \cup {rollouts'} /\ iter' = iter + 1
        /\ UNCHANGED <<setup, scene, data, q, scored, target, aligned, touched>>
    BY <1>4 DEF GenerateNoisedTrajectories
  <2>2. /\ iter < setup.iterations /\ batches \subseteq scene.batches /\ MembersSound(data)
        /\ target = {} /\ aligned = {} /\ touched = {}
    BY <2>1 DEF SharedInv, CountersSound
  <2>3. CountersSound'
    BY <1>0, <2>1, <2>2 DEF CountersSound
  <2>4. MembersSound(data)'
    <3>1. \A f \in FurthestPoints : f \in FurthestPoints'
      BY <2>1 DEF FurthestPoints, Path
    <3>2. PathCosts' = PathCosts
      BY <2>1 DEF PathCosts, Path
    <3>3. QED
      BY <2>1, <2>2, <3>1, <3>2 DEF MembersSound
  <2>5. AlignedSound' /\ TargetSound' /\ TouchedSound'
    BY <2>1, <2>2 DEF AlignedSound, TargetSound, FollowsFirstFree, TouchedSound, ValidOverreadAtEndOnly
  <2>6. QED
    BY <2>1, <2>2, <2>3, <2>4, <2>5 DEF SharedInv
<1>5. CASE ScoresDone
  <2>1. /\ pc = "score" /\ BatchDone /\ UNCHANGED <<setup, scene, data>>
        /\ \/ iter < setup.iterations /\ pc' = "rollout" /\ UNCHANGED <<iter, batches>>
           \/ pc' = "idle" /\ iter' = 0 /\ batches' = {}
    BY <1>5 DEF ScoresDone
  <2>2. CountersSound'
    BY <1>0, <2>1 DEF CountersSound, BatchDone
  <2>3. pc' = "rollout" => MembersSound(data)'
    BY <2>1 DEF SharedInv, MembersSound, FurthestPoints, PathCosts, Path
  <2>4. QED
    BY <2>1, <2>2, <2>3 DEF SharedInv, BatchDone
<1>6. QED
  BY <1>1, <1>2, <1>3, <1>4, <1>5

LEMMA SharedStep == CriticsInv /\ SharedInv /\ [Next]_vars => SharedInv'
<1> SUFFICES ASSUME CriticsInv, SharedInv, [Next]_vars
             PROVE  SharedInv'
  OBVIOUS
<1>1. CASE UNCHANGED vars
  <2>1. UNCHANGED <<pc, setup, scene, rollouts, data, q, iter, scored, target, aligned, touched, batches>>
    BY <1>1 DEF vars, callVars
  <2>2. CountersSound' = CountersSound /\ MembersSound(data)' = MembersSound(data)
    BY <2>1 DEF CountersSound, MembersSound, FurthestPoints, PathCosts, Path
  <2>3. AlignedSound' = AlignedSound
    BY <2>1 DEF AlignedSound, AlignedToNearest, Path
  <2>4. TargetSound' = TargetSound
    BY <2>1 DEF TargetSound, FollowsFirstFree, Offseted, Path
  <2>5. TouchedSound' = TouchedSound
    BY <2>1 DEF TouchedSound, ValidOverreadAtEndOnly, Path
  <2>6. QED
    BY <2>1, <2>2, <2>3, <2>4, <2>5 DEF SharedInv
<1>2. QED
  BY <1>1, FrameShares, GoalCriticsShare, PathAngleShares, PathAlignLegacyShares, PathAlignShares,
     PathFollowShares DEF Next

THEOREM SharedInvariant == Spec => []SharedInv
  BY SharedInit, SharedStep, CriticsInvariant, PTL DEF Spec

\* For every list of critics, every path and any batches, the furthest point is that of a
\* batch of this call, and path_pts_valid is read beyond its end by PathAlign alone: at
\* the last pose, for a rollout that overruns the whole path.
THEOREM SharedDataIsOfThisCall == Spec => []SharedDataOfThisCall
<1>1. CriticsInv /\ SharedInv => SharedDataOfThisCall
  <2> SUFFICES ASSUME CriticsInv, SharedInv
               PROVE  SharedDataOfThisCall
    OBVIOUS
  <2>1. Cardinality(target) <= 1
    <3>1. target = {} \/ \E t : target = {t}
      BY DEF SharedInv, TargetSound
    <3>2. CASE target = {}
      BY <3>2, FS_EmptySet
    <3>3. CASE \E t : target = {t}
      <4>1. Cardinality(target) = 1
        BY <3>3, FS_Singleton
      <4>2. QED
        BY <4>1
    <3>4. QED
      BY <3>1, <3>2, <3>3
  <2>2. TypeOK
    <3>1. \A c \in Collision : /\ cache[c].radius \in Radii \cup {0} /\ cache[c].cost \in -1..252
                               /\ cache[c].layer \in Layers
      BY DEF CriticsInv
    <3>2. QED
      BY <2>1, <3>1 DEF TypeOK, CriticsInv, CallSound, SharedInv, CountersSound, IsData
  <2>3. FurthestOfThisCall
    BY DEF FurthestOfThisCall, SharedInv, MembersSound, FurthestPoints
  <2>4. ValidOverreadAtEndOnly
    BY DEF ValidOverreadAtEndOnly, SharedInv, TouchedSound, CriticsInv, CallSound
  <2>5. QED
    BY <2>2, <2>3, <2>4 DEF SharedDataOfThisCall
<1>2. QED
  BY <1>1, CriticsInvariant, SharedInvariant, PTL

\* PathAlign compares with the nearest point of the part of the path it looks at, but
\* for its first point and its end: for every path and every rollout.
THEOREM AlignsToNearest == Spec => []AlignedToNearest
<1>1. CriticsInv /\ SharedInv => AlignedToNearest
  BY DEF SharedInv, AlignedSound, AlignedToNearest
<1>2. QED
  BY <1>1, CriticsInvariant, SharedInvariant, PTL

\* PathFollow drives to the first free pose from its offset on: for every path,
\* every costmap and every offset.
THEOREM FollowsFirstFreePose == Spec => []FollowsFirstFree
<1>1. CriticsInv /\ SharedInv => FollowsFirstFree
  BY DEF SharedInv, TargetSound, FollowsFirstFree
<1>2. QED
  BY <1>1, CriticsInvariant, SharedInvariant, PTL
===============================================================================
