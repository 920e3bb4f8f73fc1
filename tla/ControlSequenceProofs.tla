------------------------- MODULE ControlSequenceProofs -------------------------
(***************************************************************************)
(* Proofs about ControlSequence, for any settings, any averages of the     *)
(* rollouts and any speed limits: the sequence is feasible when it has     *)
(* been updated, the filter's overshoot never feeds on itself, and its     *)
(* history follows the commands.  The filter works in place on samples it  *)
(* has and has not smoothed, so the invariant tells them apart: nine       *)
(* samples within P ahead and 2 P behind give one within 2 P again.        *)
(***************************************************************************)
EXTENDS ControlSequence, TLAPS

\* The shape of the settings in force.
LEMMA ConfShape ==
  ASSUME conf \in Config
  PROVE  /\ conf.steps \in Int /\ 2 <= conf.steps /\ conf.steps <= MaxSteps /\ MaxSteps \in Nat
         /\ conf.base \in [Axes -> Bounds] /\ conf.shift \in BOOLEAN
         /\ Last \in Int /\ 1 <= Last /\ Steps = 0..Last
         /\ Offset \in Steps /\ Offset \in {0, 1}
BY ControlAssumption DEF Config, Last, Steps, Offset

\* Standing still satisfies all of the constraints.
LEMMA BoundsAroundZero ==
  ASSUME NEW base \in [Axes -> Bounds]
  PROVE  /\ base \in [Axes -> [lo : Int, hi : Int]]
         /\ \A a \in Axes : base[a].lo <= 0 /\ 0 <= base[a].hi
BY DEF Bounds

\* A limit on the speed keeps them so.
LEMMA ScaledAroundZero ==
  ASSUME NEW base \in [Axes -> Bounds], NEW num \in Nat, NEW den \in Nat \ {0}
  PROVE  /\ Scaled(base, num, den) \in [Axes -> [lo : Int, hi : Int]]
         /\ \A a \in Axes : /\ Scaled(base, num, den)[a].lo <= 0
                            /\ 0 <= Scaled(base, num, den)[a].hi
<1>1. ASSUME NEW x \in Int
      PROVE  x * num \in Int /\ (x <= 0 => x * num <= 0) /\ (0 <= x => 0 <= x * num)
  BY <1>1
<1>2. ASSUME NEW x \in Int
      PROVE  x \div den \in Int /\ (x <= 0 => x \div den <= 0) /\ (0 <= x => 0 <= x \div den)
  BY <1>2
<1>3. ASSUME NEW a \in Axes
      PROVE  /\ base[a].lo \in Int /\ base[a].hi \in Int /\ base[a].lo <= 0 /\ 0 <= base[a].hi
             /\ base[a].lo * num \in Int /\ base[a].hi * num \in Int
             /\ base[a].lo * num <= 0 /\ 0 <= base[a].hi * num
  BY <1>1, <1>3 DEF Bounds
<1>4. ASSUME NEW a \in Axes
      PROVE  /\ (base[a].lo * num) \div den \in Int /\ (base[a].hi * num) \div den \in Int
             /\ (base[a].lo * num) \div den <= 0 /\ 0 <= (base[a].hi * num) \div den
  BY <1>2, <1>3, <1>4
<1>5. QED
  BY <1>4 DEF Scaled

\* Clipping ends within the bounds and within their reach.
LEMMA ClipWithin ==
  ASSUME NEW v \in Int, NEW b \in [lo : Int, hi : Int], b.lo <= 0, 0 <= b.hi
  PROVE  /\ Clip(v, b) \in Int /\ b.lo <= Clip(v, b) /\ Clip(v, b) <= b.hi
BY DEF Clip

LEMMA WithinReach ==
  ASSUME NEW v \in Int, NEW b \in [lo : Int, hi : Int], b.lo <= v, v <= b.hi
  PROVE  Abs(v) <= Reach(b) /\ Reach(b) \in Nat
BY DEF Abs, Reach, Larger

\* The turning radius only ever shortens a rotation, down to the translation.
LEMMA TurningRadiusWithin ==
  ASSUME NEW vx \in Int, NEW wz \in Int, NEW b \in [lo : Int, hi : Int],
         b.lo <= wz, wz <= b.hi, b.lo <= 0, 0 <= b.hi
  PROVE  /\ TurningRadius(vx, wz) \in Int
         /\ b.lo <= TurningRadius(vx, wz) /\ TurningRadius(vx, wz) <= b.hi
         /\ Abs(TurningRadius(vx, wz)) <= Abs(vx)
BY DEF TurningRadius, Abs

\* The coefficients behind the sample add up to 128, those at and ahead of it to 187.
LEMMA FilterGain ==
  ASSUME NEW P \in Nat, NEW w \in [-4..4 -> Int],
         \A k \in -4..-1 : Abs(w[k]) <= 2 * P,
         \A k \in 0..4 : Abs(w[k]) <= P
  PROVE  SavitzkyGolay(w) \in Int /\ Abs(SavitzkyGolay(w)) <= 2 * P
<1>1. /\ -2 * P <= w[-1] /\ w[-1] <= 2 * P /\ -2 * P <= w[-2] /\ w[-2] <= 2 * P
      /\ -2 * P <= w[-3] /\ w[-3] <= 2 * P /\ -2 * P <= w[-4] /\ w[-4] <= 2 * P
  BY DEF Abs
<1>2. /\ -P <= w[0] /\ w[0] <= P /\ -P <= w[1] /\ w[1] <= P /\ -P <= w[2] /\ w[2] <= P
      /\ -P <= w[3] /\ w[3] <= P /\ -P <= w[4] /\ w[4] <= P
  BY DEF Abs
<1> DEFINE n == 59 * w[0] + 54 * (w[-1] + w[1]) + 39 * (w[-2] + w[2]) + 14 * (w[-3] + w[3])
                  - 21 * (w[-4] + w[4])
<1>3. n \in Int /\ -443 * P <= n /\ n <= 443 * P
  BY <1>1, <1>2
<1>4. SavitzkyGolay(w) = n \div 231
  BY DEF SavitzkyGolay
<1> HIDE DEF n
<1>5. n \div 231 \in Int /\ -2 * P <= n \div 231 /\ n \div 231 <= 2 * P
  BY <1>3
<1>6. QED
  BY <1>4, <1>5 DEF Abs

----------------------------------------------------------------------------
(* Types and the overshoot                                                  *)

\* reset() with the settings c leaves nothing to bound.
LEMMA ClearedSequence ==
  ASSUME NEW c \in Config, conf' \in Config, conf'.steps = c.steps, Cleared(c),
         pc' = "idle", idx \in Nat, calls \in Nat, UNCHANGED <<idx, calls>>
  PROVE  TypeOK' /\ SequenceInv'
<1>1. /\ c.base \in [Axes -> Bounds] /\ c.steps \in Nat
  BY ControlAssumption DEF Config
<1>2. /\ limits' \in [Axes -> [lo : Int, hi : Int]]
      /\ \A a \in Axes : limits'[a].lo <= 0 /\ 0 <= limits'[a].hi
  BY <1>1, BoundsAroundZero DEF Cleared
<1>3. /\ \A a \in Axes, i \in Steps' : seq'[a][i] = 0
      /\ seq' \in [Axes -> [Steps' -> Int]]
  BY <1>1 DEF Cleared, NoControls, Steps
<1>4. /\ \A a \in Axes, i \in 0..3 : hist'[a][i] = 0
      /\ hist' \in [Axes -> [0..3 -> Int]]
      /\ \A a \in Axes : peak'[a] = 0
      /\ peak' \in [Axes -> Nat]
  BY DEF Cleared, NoHistory
<1>5. TypeOK'
  BY <1>2, <1>3, <1>4 DEF TypeOK
<1>6. Abs(0) = 0 /\ "vy" \in Axes
  BY DEF Abs, Axes
<1>7. SequenceInv'
  BY <1>2, <1>3, <1>4, <1>6 DEF SequenceInv
<1>8. QED
  BY <1>5, <1>7

LEMMA SequenceInit == Init => TypeOK /\ SequenceInv
<1> SUFFICES ASSUME Init
             PROVE  TypeOK /\ SequenceInv
  OBVIOUS
<1>1. conf \in Config /\ conf.base \in [Axes -> Bounds] /\ conf.steps \in Nat
  BY ControlAssumption, ConfShape DEF Init
<1>2. /\ limits \in [Axes -> [lo : Int, hi : Int]]
      /\ \A a \in Axes : limits[a].lo <= 0 /\ 0 <= limits[a].hi
  BY <1>1, BoundsAroundZero DEF Init
<1>3. /\ \A a \in Axes, i \in Steps : seq[a][i] = 0
      /\ seq \in [Axes -> [Steps -> Int]]
  BY <1>1 DEF Init, NoControls, Steps
<1>4. /\ \A a \in Axes, i \in 0..3 : hist[a][i] = 0
      /\ hist \in [Axes -> [0..3 -> Int]]
      /\ \A a \in Axes : peak[a] = 0
      /\ peak \in [Axes -> Nat]
  BY DEF Init, NoHistory
<1>5. Abs(0) = 0 /\ "vy" \in Axes
  BY DEF Abs, Axes
<1>6. QED
  BY <1>1, <1>2, <1>3, <1>4, <1>5 DEF Init, TypeOK, SequenceInv

\* An updated sequence is feasible, and within the widest constraints used.
LEMMA UpdateFeasible ==
  ASSUME TypeOK, SequenceInv, UpdateControlSequence
  PROVE  TypeOK' /\ SequenceInv' /\ Feasible'
<1>1. PICK average \in Averages : seq' = Constrained(average)
  BY DEF UpdateControlSequence
<1>2. /\ conf' = conf /\ limits' = limits /\ hist' = hist /\ pc' = "updated" /\ idx' = idx
      /\ calls' = calls + 1 /\ peak' = [a \in Axes |-> Larger(peak[a], Reach(limits[a]))]
      /\ Steps' = Steps /\ IsHolonomic' = IsHolonomic
  BY DEF UpdateControlSequence, Steps, IsHolonomic
<1>3. /\ Steps \subseteq 0..(MaxSteps - 1) /\ average \in [Axes -> [0..(MaxSteps - 1) -> Int]]
      /\ limits \in [Axes -> [lo : Int, hi : Int]]
      /\ \A a \in Axes : limits[a].lo <= 0 /\ 0 <= limits[a].hi
  BY ControlAssumption, ConfShape DEF TypeOK, SequenceInv, Steps
<1> DEFINE v(a) == [i \in Steps |-> Clip(average[a][i], limits[a])]
<1>4. ASSUME NEW a \in Axes
      PROVE  /\ v(a) \in [Steps -> Int]
             /\ \A i \in Steps : limits[a].lo <= v(a)[i] /\ v(a)[i] <= limits[a].hi
  <2>1. ASSUME NEW i \in Steps
        PROVE  /\ Clip(average[a][i], limits[a]) \in Int
               /\ limits[a].lo <= Clip(average[a][i], limits[a])
               /\ Clip(average[a][i], limits[a]) <= limits[a].hi
    BY <1>3, <1>4, <2>1, ClipWithin
  <2>2. QED
    BY <2>1
<1>5. /\ seq'["vx"] = v("vx")
      /\ seq'["vy"] = IF IsHolonomic THEN v("vy") ELSE seq["vy"]
      /\ seq'["wz"] = IF conf.model = "Ackermann"
                     THEN [i \in Steps |-> TurningRadius(v("vx")[i], v("wz")[i])] ELSE v("wz")
      /\ DOMAIN seq' = Axes /\ Axes = {"vx", "vy", "wz"} /\ seq' = [a \in Axes |-> seq'[a]]
  BY <1>1 DEF Constrained, Axes
<1> HIDE DEF v
<1>6. ASSUME NEW i \in Steps
      PROVE  /\ TurningRadius(v("vx")[i], v("wz")[i]) \in Int
             /\ limits["wz"].lo <= TurningRadius(v("vx")[i], v("wz")[i])
             /\ TurningRadius(v("vx")[i], v("wz")[i]) <= limits["wz"].hi
             /\ Abs(TurningRadius(v("vx")[i], v("wz")[i])) <= Abs(v("vx")[i])
  BY <1>3, <1>4, <1>6, TurningRadiusWithin DEF Axes
<1>7. \A i \in Steps : limits["vx"].lo <= seq'["vx"][i] /\ seq'["vx"][i] <= limits["vx"].hi
  BY <1>4, <1>5
<1>8. /\ seq'["vy"] \in [Steps -> Int]
      /\ \A i \in Steps : limits["vy"].lo <= seq'["vy"][i] /\ seq'["vy"][i] <= limits["vy"].hi
      /\ ~IsHolonomic => \A i \in Steps : seq'["vy"][i] = 0
  <2>1. CASE IsHolonomic
    BY <1>4, <1>5, <2>1
  <2>2. CASE ~IsHolonomic
    <3>1. seq'["vy"] = seq["vy"] /\ seq["vy"] \in [Steps -> Int] /\ \A i \in Steps : seq["vy"][i] = 0
      BY <1>5, <2>2 DEF TypeOK, SequenceInv
    <3>2. QED
      BY <1>3, <1>5, <2>2, <3>1
  <2>3. QED
    BY <2>1, <2>2
<1>9. /\ seq'["wz"] \in [Steps -> Int]
      /\ \A i \in Steps : limits["wz"].lo <= seq'["wz"][i] /\ seq'["wz"][i] <= limits["wz"].hi
      /\ conf.model = "Ackermann" => \A i \in Steps : Abs(seq'["wz"][i]) <= Abs(seq'["vx"][i])
  BY <1>4, <1>5, <1>6
<1>10. seq' \in [Axes -> [Steps -> Int]]
  BY <1>4, <1>5, <1>8, <1>9
<1>11. ASSUME NEW a \in Axes
       PROVE  /\ \A i \in Steps : limits[a].lo <= seq'[a][i] /\ seq'[a][i] <= limits[a].hi
              /\ peak'[a] \in Nat /\ peak[a] <= peak'[a] /\ Reach(limits[a]) <= peak'[a]
              /\ Reach(limits[a]) \in Nat
  <2>1. Reach(limits[a]) \in Nat
    BY <1>3 DEF Reach, Larger, Abs
  <2>2. peak[a] \in Nat /\ peak'[a] = Larger(peak[a], Reach(limits[a]))
    BY <1>2 DEF TypeOK
  <2>3. QED
    BY <1>5, <1>7, <1>8, <1>9, <2>1, <2>2 DEF Larger
<1>12. ASSUME NEW a \in Axes, NEW i \in Steps
       PROVE  Abs(seq'[a][i]) <= peak'[a] /\ seq'[a][i] \in Int /\ Abs(seq'[a][i]) \in Nat
  <2>1. seq'[a][i] \in Int /\ limits[a] \in [lo : Int, hi : Int]
    BY <1>3, <1>10
  <2>2. Abs(seq'[a][i]) <= Reach(limits[a])
    BY <1>11, <2>1, WithinReach
  <2>3. Abs(seq'[a][i]) \in Nat
    BY <2>1 DEF Abs
  <2>4. QED
    BY <1>11, <2>1, <2>2, <2>3
<1>13. TypeOK'
  <2>1. peak' \in [Axes -> Nat]
    BY <1>2, <1>11
  <2>2. QED
    BY <1>2, <1>10, <2>1 DEF TypeOK
<1>14. SequenceInv'
  <2>1. \A a \in Axes : \A i \in 0..3 : Abs(hist'[a][i]) <= 2 * peak'[a]
    <3>1. ASSUME NEW a \in Axes, NEW i \in 0..3
          PROVE  Abs(hist[a][i]) <= 2 * peak'[a]
      <4>1. hist[a][i] \in Int /\ Abs(hist[a][i]) <= 2 * peak[a] /\ peak[a] \in Nat
        BY DEF TypeOK, SequenceInv
      <4>2. Abs(hist[a][i]) \in Nat
        BY <4>1 DEF Abs
      <4>3. QED
        BY <1>11, <4>1, <4>2
    <3>2. QED
      BY <1>2, <3>1
  <2>2. \A a \in Axes : \A i \in Steps' :
            Abs(seq'[a][i]) <= IF Unsmoothed(i)' THEN peak'[a] ELSE 2 * peak'[a]
    BY <1>2, <1>12 DEF Unsmoothed
  <2>3. QED
    BY <1>2, <1>3, <1>8, <2>1, <2>2 DEF SequenceInv
<1>15. Feasible'
  <2>1. \A a \in Axes, i \in Steps : limits[a].lo <= seq'[a][i] /\ seq'[a][i] <= limits[a].hi
    BY <1>11
  <2>2. QED
    BY <1>2, <1>8, <1>9, <2>1 DEF Feasible
<1>16. QED
  BY <1>13, <1>14, <1>15

\* The samples the filter takes: from the history, from what it has smoothed, and
\* from what it has not, the last one standing for those after it.
LEMMA SampleBounds ==
  ASSUME TypeOK, SequenceInv, pc = "smoothing", idx <= Last, NEW a \in Axes
  PROVE  /\ \A k \in 0..4 : Sample(a, idx + k) \in Int /\ Abs(Sample(a, idx + k)) <= peak[a]
         /\ \A k \in -4..-1 : Sample(a, idx + k) \in Int /\ Abs(Sample(a, idx + k)) <= 2 * peak[a]
<1>1. /\ Last \in Int /\ 20 <= Last /\ Steps = 0..Last /\ idx \in Nat /\ peak[a] \in Nat
      /\ seq[a] \in [Steps -> Int] /\ hist[a] \in [0..3 -> Int]
  BY ConfShape DEF TypeOK, SequenceInv
<1>2. \A i \in Steps : /\ Abs(seq[a][i]) <= IF Unsmoothed(i) THEN peak[a] ELSE 2 * peak[a]
                       /\ seq[a][i] \in Int
  BY <1>1 DEF SequenceInv
<1>3. \A i \in 0..3 : Abs(hist[a][i]) <= 2 * peak[a] /\ hist[a][i] \in Int
  BY <1>1 DEF SequenceInv
<1>4. \A i \in Steps : i >= idx => Abs(seq[a][i]) <= peak[a]
  BY <1>2 DEF Unsmoothed
<1>5. \A i \in Steps : Abs(seq[a][i]) <= 2 * peak[a]
  <2>1. ASSUME NEW i \in Steps
        PROVE  Abs(seq[a][i]) <= 2 * peak[a]
    <3>1. Abs(seq[a][i]) \in Int
      BY <1>2 DEF Abs
    <3>2. CASE Unsmoothed(i)
      BY <1>1, <1>2, <3>1, <3>2
    <3>3. CASE ~Unsmoothed(i)
      BY <1>2, <3>3
    <3>4. QED
      BY <3>2, <3>3
  <2>2. QED
    BY <2>1
<1>6. ASSUME NEW k \in 0..4
      PROVE  Sample(a, idx + k) \in Int /\ Abs(Sample(a, idx + k)) <= peak[a]
  <2>1. CASE idx + k <= Last
    BY <1>1, <1>2, <1>4, <2>1 DEF Sample
  <2>2. CASE idx + k > Last
    <3>1. Sample(a, idx + k) = seq[a][Last] /\ Last \in Steps /\ Last >= idx
      BY <1>1, <2>2 DEF Sample
    <3>2. QED
      BY <1>2, <1>4, <3>1
  <2>3. QED
    BY <1>1, <2>1, <2>2
<1>7. ASSUME NEW k \in -4..-1
      PROVE  Sample(a, idx + k) \in Int /\ Abs(Sample(a, idx + k)) <= 2 * peak[a]
  <2>1. CASE idx + k < 0
    <3>1. Sample(a, idx + k) = hist[a][idx + k + 4]
      BY <2>1 DEF Sample
    <3>2. k \in Int /\ -4 <= k /\ idx \in Int /\ 0 <= idx /\ idx + k < 0
      BY <1>1, <2>1
    <3>3. idx + k + 4 \in 0..3
      BY <3>2
    <3>4. QED
      BY <1>3, <3>1, <3>3
  <2>2. CASE idx + k >= 0
    <3>1. idx + k \in Steps /\ ~(idx + k < 0) /\ ~(idx + k > Last)
      BY <1>1, <2>2
    <3>2. Sample(a, idx + k) = seq[a][idx + k]
      BY <3>1 DEF Sample
    <3>3. QED
      BY <1>2, <1>5, <3>1, <3>2
  <2>3. QED
    BY <1>1, <2>1, <2>2
<1>8. QED
  BY <1>6, <1>7

\* So a smoothed sample is bounded too.
LEMMA FilteredBounded ==
  ASSUME TypeOK, SequenceInv, pc = "smoothing", idx <= Last, NEW a \in Axes
  PROVE  Filtered(a, idx) \in Int /\ Abs(Filtered(a, idx)) <= 2 * peak[a]
<1> DEFINE w == [k \in -4..4 |-> Sample(a, idx + k)]
<1>1. idx \in Nat /\ peak[a] \in Nat
  BY DEF TypeOK
<1>2. \A k \in 0..4 : Sample(a, idx + k) \in Int /\ Abs(Sample(a, idx + k)) <= peak[a]
  BY SampleBounds
<1>3. \A k \in -4..-1 : Sample(a, idx + k) \in Int /\ Abs(Sample(a, idx + k)) <= 2 * peak[a]
  BY SampleBounds
<1>4. w \in [-4..4 -> Int]
  <2>1. \A k \in -4..4 : k \in 0..4 \/ k \in -4..-1
    OBVIOUS
  <2>2. QED
    BY <1>2, <1>3, <2>1
<1>5. /\ \A k \in -4..-1 : k \in -4..4 /\ Abs(w[k]) <= 2 * peak[a]
      /\ \A k \in 0..4 : k \in -4..4 /\ Abs(w[k]) <= peak[a]
  BY <1>2, <1>3
<1> HIDE DEF w
<1>6. SavitzkyGolay(w) \in Int /\ Abs(SavitzkyGolay(w)) <= 2 * peak[a]
  BY <1>1, <1>4, <1>5, FilterGain
<1>7. QED
  BY <1>6 DEF Filtered, w

\* Nothing moves laterally that did not before.
LEMMA FilteredZero ==
  ASSUME TypeOK, SequenceInv, pc = "smoothing", idx <= Last, ~IsHolonomic
  PROVE  Filtered("vy", idx) = 0
<1>1. /\ Last \in Int /\ 20 <= Last /\ Steps = 0..Last /\ idx \in Nat
      /\ \A i \in Steps : seq["vy"][i] = 0
      /\ \A i \in 0..3 : hist["vy"][i] = 0
  BY ConfShape DEF TypeOK, SequenceInv
<1> DEFINE w == [k \in -4..4 |-> Sample("vy", idx + k)]
<1>2. ASSUME NEW k \in -4..4
      PROVE  Sample("vy", idx + k) = 0
  <2>1. CASE idx + k < 0
    <3>1. idx + k + 4 \in 0..3
      BY <1>1, <2>1
    <3>2. QED
      BY <1>1, <2>1, <3>1 DEF Sample
  <2>2. CASE idx + k > Last
    <3>1. ~(idx + k < 0) /\ Last \in Steps
      BY <1>1, <2>2
    <3>2. QED
      BY <1>1, <2>2, <3>1 DEF Sample
  <2>3. CASE idx + k \in 0..Last
    <3>1. ~(idx + k < 0) /\ ~(idx + k > Last)
      BY <1>1, <2>3
    <3>2. QED
      BY <1>1, <2>3, <3>1 DEF Sample
  <2>4. QED
    BY <1>1, <2>1, <2>2, <2>3
<1>3. /\ w[0] = 0 /\ w[1] = 0 /\ w[2] = 0 /\ w[3] = 0 /\ w[4] = 0
      /\ w[-1] = 0 /\ w[-2] = 0 /\ w[-3] = 0 /\ w[-4] = 0
  BY <1>2
<1> HIDE DEF w
<1>4. SavitzkyGolay(w) = 0
  BY <1>3 DEF SavitzkyGolay
<1>5. QED
  BY <1>4 DEF Filtered, w

LEMMA SmoothSampleStep ==
  ASSUME TypeOK, SequenceInv, SmoothSample
  PROVE  TypeOK' /\ SequenceInv'
<1>1. /\ pc = "smoothing" /\ pc' = pc /\ idx <= Last /\ conf' = conf /\ limits' = limits
      /\ hist' = hist /\ peak' = peak /\ calls' = calls
      /\ seq' = [a \in Axes |-> [seq[a] EXCEPT ![idx] = Filtered(a, idx)]]
      /\ idx' = IF idx = Last - 5 THEN Last - 3 ELSE idx + 1
      /\ Steps' = Steps /\ Last' = Last /\ IsHolonomic' = IsHolonomic
  BY DEF SmoothSample, Steps, Last, IsHolonomic
<1>2. /\ Last \in Int /\ 20 <= Last /\ Steps = 0..Last /\ idx \in Nat /\ idx \in Steps /\ idx # Last - 4
      /\ seq \in [Axes -> [Steps -> Int]] /\ peak \in [Axes -> Nat]
  BY <1>1, ConfShape DEF TypeOK, SequenceInv
<1>3. ASSUME NEW a \in Axes
      PROVE  /\ seq'[a] \in [Steps -> Int]
             /\ seq'[a][idx] = Filtered(a, idx)
             /\ \A i \in Steps \ {idx} : seq'[a][i] = seq[a][i]
             /\ Filtered(a, idx) \in Int /\ Abs(Filtered(a, idx)) <= 2 * peak[a]
  <2>1. Filtered(a, idx) \in Int /\ Abs(Filtered(a, idx)) <= 2 * peak[a]
    BY <1>1, FilteredBounded
  <2>2. seq'[a] = [seq[a] EXCEPT ![idx] = Filtered(a, idx)] /\ seq[a] \in [Steps -> Int]
    BY <1>1, <1>2
  <2>3. QED
    BY <1>2, <2>1, <2>2
<1>4. idx' \in Nat /\ idx' # Last - 4 /\ idx < idx'
  BY <1>1, <1>2
<1>5. TypeOK'
  <2>1. seq' \in [Axes -> [Steps -> Int]]
    BY <1>1, <1>3
  <2>2. QED
    BY <1>1, <1>4, <2>1 DEF TypeOK
<1>6. ASSUME NEW a \in Axes, NEW i \in Steps
      PROVE  Abs(seq'[a][i]) <= IF Unsmoothed(i)' THEN peak[a] ELSE 2 * peak[a]
  <2>1. CASE i = idx
    <3>1. ~Unsmoothed(i)'
      BY <1>1, <1>2, <1>4, <2>1 DEF Unsmoothed
    <3>2. QED
      BY <1>3, <2>1, <3>1
  <2>2. CASE i # idx
    <3>1. Unsmoothed(i)' => Unsmoothed(i)
      BY <1>1, <1>2, <2>2 DEF Unsmoothed
    <3>2. /\ seq'[a][i] = seq[a][i] /\ seq[a][i] \in Int /\ peak[a] \in Nat
          /\ Abs(seq[a][i]) <= IF Unsmoothed(i) THEN peak[a] ELSE 2 * peak[a]
      BY <1>2, <1>3, <2>2 DEF SequenceInv
    <3>3. Abs(seq[a][i]) \in Int
      BY <3>2 DEF Abs
    <3>4. CASE Unsmoothed(i)
      BY <3>2, <3>3, <3>4
    <3>5. CASE ~Unsmoothed(i)
      BY <3>1, <3>2, <3>5
    <3>6. QED
      BY <3>4, <3>5
  <2>3. QED
    BY <2>1, <2>2
<1>7. ~IsHolonomic => \A i \in Steps : seq'["vy"][i] = 0
  <2> SUFFICES ASSUME ~IsHolonomic, NEW i \in Steps
               PROVE  seq'["vy"][i] = 0
    OBVIOUS
  <2>1. Filtered("vy", idx) = 0
    BY <1>1, FilteredZero
  <2>2. QED
    BY <1>3, <2>1 DEF SequenceInv, Axes
<1>8. SequenceInv'
  BY <1>1, <1>2, <1>4, <1>6, <1>7 DEF SequenceInv
<1>9. QED
  BY <1>5, <1>8

\* The history takes a sample of the smoothed sequence.
LEMMA UpdateHistoryStep ==
  ASSUME TypeOK, SequenceInv, UpdateHistory
  PROVE  TypeOK' /\ SequenceInv'
<1>1. /\ pc = "smoothing" /\ pc' = "smoothed" /\ conf' = conf /\ limits' = limits /\ idx' = idx
      /\ seq' = seq /\ peak' = peak /\ calls' = calls /\ idx > Last
      /\ hist' = [a \in Axes |-> [i \in 0..3 |-> IF i < 3 THEN hist[a][i + 1] ELSE seq[a][Offset]]]
      /\ Steps' = Steps /\ Last' = Last /\ IsHolonomic' = IsHolonomic
  BY DEF UpdateHistory, Steps, Last, IsHolonomic
<1>2. /\ Offset \in Steps /\ seq \in [Axes -> [Steps -> Int]] /\ hist \in [Axes -> [0..3 -> Int]]
      /\ peak \in [Axes -> Nat]
  BY ConfShape DEF TypeOK
<1>3. ASSUME NEW a \in Axes, NEW i \in Steps
      PROVE  Abs(seq[a][i]) <= 2 * peak[a]
  <2>1. Abs(seq[a][i]) \in Int /\ peak[a] \in Nat
    BY <1>2 DEF Abs
  <2>2. Abs(seq[a][i]) <= IF Unsmoothed(i) THEN peak[a] ELSE 2 * peak[a]
    BY DEF SequenceInv
  <2>3. CASE Unsmoothed(i)
    BY <2>1, <2>2, <2>3
  <2>4. CASE ~Unsmoothed(i)
    BY <2>2, <2>4
  <2>5. QED
    BY <2>3, <2>4
<1>4. ASSUME NEW a \in Axes, NEW i \in 0..3
      PROVE  /\ hist'[a][i] = IF i < 3 THEN hist[a][i + 1] ELSE seq[a][Offset]
             /\ hist'[a][i] \in Int /\ Abs(hist'[a][i]) <= 2 * peak[a]
  <2>1. hist'[a][i] = IF i < 3 THEN hist[a][i + 1] ELSE seq[a][Offset]
    BY <1>1
  <2>2. i < 3 => i + 1 \in 0..3
    OBVIOUS
  <2>3. QED
    BY <1>2, <1>3, <2>1, <2>2 DEF SequenceInv
<1>5. hist' \in [Axes -> [0..3 -> Int]]
  BY <1>1, <1>4
<1>6. TypeOK'
  BY <1>1, <1>5 DEF TypeOK
<1>7. \A i \in Steps : ~Unsmoothed(i)'
  BY <1>1 DEF Unsmoothed
<1>8. ~IsHolonomic => \A i \in 0..3 : hist'["vy"][i] = 0
  <2>1. ASSUME ~IsHolonomic, NEW i \in 0..3
        PROVE  hist'["vy"][i] = 0
    <3>1. i < 3 => i + 1 \in 0..3
      OBVIOUS
    <3>2. QED
      BY <1>2, <1>4, <2>1, <3>1 DEF SequenceInv, Axes
  <2>2. QED
    BY <2>1
<1>9. SequenceInv'
  BY <1>1, <1>3, <1>4, <1>7, <1>8 DEF SequenceInv
<1>10. QED
  BY <1>6, <1>9

\* Sending a command moves samples, and beginning to smooth counts them.
LEMMA SendStep ==
  ASSUME TypeOK, SequenceInv, SendCommand
  PROVE  TypeOK' /\ SequenceInv'
<1>1. /\ pc = "smoothed" /\ pc' = "idle" /\ conf' = conf /\ limits' = limits /\ idx' = idx
      /\ hist' = hist /\ peak' = peak /\ calls' = calls
      /\ seq' = IF conf.shift
                THEN [a \in Axes |-> IF a # "vy" \/ IsHolonomic THEN Shifted(a) ELSE seq[a]]
                ELSE seq
      /\ Steps' = Steps /\ Last' = Last /\ IsHolonomic' = IsHolonomic
  BY DEF SendCommand, Steps, Last, IsHolonomic
<1>2. /\ Last \in Int /\ 1 <= Last /\ Steps = 0..Last
      /\ seq \in [Axes -> [Steps -> Int]] /\ peak \in [Axes -> Nat]
  BY ConfShape DEF TypeOK
<1>3. \A a \in Axes, i \in Steps : Abs(seq[a][i]) <= 2 * peak[a] /\ seq[a][i] \in Int
  BY <1>1, <1>2 DEF SequenceInv, Unsmoothed
<1>4. ASSUME NEW a \in Axes
      PROVE  /\ seq'[a] \in [Steps -> Int]
             /\ \A i \in Steps : \E j \in Steps : seq'[a][i] = seq[a][j]
  <2>1. CASE seq'[a] = Shifted(a)
    <3>1. \A i \in Steps : i < Last => i + 1 \in Steps
      BY <1>2
    <3>2. \A i \in Steps : seq'[a][i] = IF i < Last THEN seq[a][i + 1] ELSE seq[a][Last]
      BY <2>1 DEF Shifted
    <3>3. Last \in Steps
      BY <1>2
    <3>4. QED
      BY <1>3, <2>1, <3>1, <3>2, <3>3 DEF Shifted
  <2>2. CASE seq'[a] = seq[a]
    BY <1>2, <2>2
  <2>3. QED
    BY <1>1, <2>1, <2>2
<1>5. seq' \in [Axes -> [Steps -> Int]]
  BY <1>1, <1>2, <1>4
<1>6. \A a \in Axes, i \in Steps : Abs(seq'[a][i]) <= 2 * peak[a]
  BY <1>3, <1>4
<1>7. ~IsHolonomic => \A i \in Steps : seq'["vy"][i] = 0
  BY <1>1 DEF SequenceInv, Axes
<1>8. TypeOK'
  BY <1>1, <1>5 DEF TypeOK
<1>9. SequenceInv'
  BY <1>1, <1>6, <1>7 DEF SequenceInv, Unsmoothed
<1>10. QED
  BY <1>8, <1>9

LEMMA WeakBound ==
  ASSUME TypeOK, SequenceInv, NEW a \in Axes, NEW i \in Steps
  PROVE  Abs(seq[a][i]) <= 2 * peak[a]
<1>1. Abs(seq[a][i]) \in Int /\ peak[a] \in Nat
  BY DEF TypeOK, Abs
<1>2. Abs(seq[a][i]) <= IF Unsmoothed(i) THEN peak[a] ELSE 2 * peak[a]
  BY DEF SequenceInv
<1>3. CASE Unsmoothed(i)
  BY <1>1, <1>2, <1>3
<1>4. CASE ~Unsmoothed(i)
  BY <1>2, <1>4
<1>5. QED
  BY <1>3, <1>4

\* The other steps of a call leave the samples alone.
LEMMA CallQuiet ==
  ASSUME TypeOK, SequenceInv, TooShort \/ BeginSmoothing
  PROVE  TypeOK' /\ SequenceInv'
<1>1. /\ conf' = conf /\ limits' = limits /\ seq' = seq /\ hist' = hist /\ peak' = peak /\ calls' = calls
      /\ pc = "updated" /\ pc' \in {"smoothing", "smoothed"} /\ idx' \in Nat
      /\ pc' = "smoothing" => Last >= 20 /\ idx' = 0
      /\ Steps' = Steps /\ Last' = Last /\ IsHolonomic' = IsHolonomic
  BY DEF TooShort, BeginSmoothing, TypeOK, Steps, Last, IsHolonomic
<1>2. Last \in Int /\ Steps = 0..Last
  BY ConfShape DEF TypeOK
<1>3. ASSUME NEW a \in Axes, NEW i \in Steps
      PROVE  Abs(seq[a][i]) <= IF Unsmoothed(i)' THEN peak[a] ELSE 2 * peak[a]
  <2>1. Abs(seq[a][i]) <= peak[a]
    BY <1>1 DEF SequenceInv, Unsmoothed
  <2>2. QED
    BY <2>1, WeakBound
<1>4. TypeOK'
  BY <1>1 DEF TypeOK
<1>5. SequenceInv'
  BY <1>1, <1>2, <1>3 DEF SequenceInv
<1>6. QED
  BY <1>4, <1>5

\* Between calls: limits, resets and parameters.
LEMMA BetweenCalls ==
  ASSUME TypeOK, SequenceInv,
         \/ Reset \/ (\E l \in SpeedLimits : SetSpeedLimit(l)) \/ (\E c \in Configs : SetParameters(c))
  PROVE  TypeOK' /\ SequenceInv'
<1>1. CASE Reset
  BY <1>1, ClearedSequence DEF Reset, TypeOK
<1>2. ASSUME NEW l \in SpeedLimits, SetSpeedLimit(l)
      PROVE  TypeOK' /\ SequenceInv'
  <2>1. conf.base \in [Axes -> Bounds]
    BY ConfShape DEF TypeOK
  <2>2. /\ limits' \in [Axes -> [lo : Int, hi : Int]]
        /\ \A a \in Axes : limits'[a].lo <= 0 /\ 0 <= limits'[a].hi
    <3>1. l \in [percentage : BOOLEAN, limit : Nat]
      BY ControlAssumption
    <3>2. l.limit \in Nat
      BY <3>1
    <3>3. conf.base["vx"] \in Bounds
      BY <2>1 DEF Axes
    <3>4. conf.base["vx"].hi \in Nat \ {0}
      BY <3>3 DEF Bounds
    <3>5. CASE l.limit = 0
      BY <1>2, <2>1, <3>5, BoundsAroundZero DEF SetSpeedLimit
    <3>6. CASE l.limit # 0 /\ l.percentage
      <4>1. limits' = Scaled(conf.base, l.limit, 100) /\ 100 \in Nat \ {0}
        BY <1>2, <3>6 DEF SetSpeedLimit
      <4>2. QED
        BY <2>1, <3>2, <4>1, ScaledAroundZero
    <3>7. CASE l.limit # 0 /\ ~l.percentage
      <4>1. limits' = Scaled(conf.base, l.limit, conf.base["vx"].hi)
        BY <1>2, <3>7 DEF SetSpeedLimit
      <4>2. QED
        BY <2>1, <3>2, <3>4, <4>1, ScaledAroundZero
    <3>8. QED
      BY <3>5, <3>6, <3>7
  <2>3. /\ pc' = pc /\ conf' = conf /\ seq' = seq /\ hist' = hist /\ idx' = idx /\ peak' = peak
        /\ calls' = calls /\ Steps' = Steps /\ Last' = Last /\ IsHolonomic' = IsHolonomic
        /\ pc = "idle"
    BY <1>2 DEF SetSpeedLimit, Steps, Last, IsHolonomic
  <2>4. TypeOK'
    BY <2>2, <2>3 DEF TypeOK
  <2>5. SequenceInv'
    BY <2>2, <2>3 DEF SequenceInv, Unsmoothed
  <2>6. QED
    BY <2>4, <2>5
<1>3. ASSUME NEW c \in Configs, SetParameters(c)
      PROVE  TypeOK' /\ SequenceInv'
  <2>1. /\ c \in Config /\ conf' = [conf EXCEPT !.steps = c.steps, !.base = c.base]
        /\ pc' = "idle" /\ Cleared(c) /\ UNCHANGED <<idx, calls>>
    BY <1>3, ControlAssumption DEF SetParameters
  <2>2. conf' \in Config /\ conf'.steps = c.steps
    BY <2>1 DEF TypeOK, Config
  <2>3. QED
    BY <2>1, <2>2, ClearedSequence DEF TypeOK
<1>4. QED
  BY <1>1, <1>2, <1>3

LEMMA SequenceStep == TypeOK /\ SequenceInv /\ [Next]_vars => TypeOK' /\ SequenceInv'
<1> SUFFICES ASSUME TypeOK, SequenceInv, [Next]_vars
             PROVE  TypeOK' /\ SequenceInv'
  OBVIOUS
<1>1. CASE UNCHANGED vars
  BY <1>1 DEF vars, TypeOK, SequenceInv, Steps, Last, IsHolonomic, Unsmoothed
<1>2. CASE Next
  BY <1>2, UpdateFeasible, CallQuiet, SmoothSampleStep, UpdateHistoryStep, SendStep, BetweenCalls
  DEF Next
<1>3. QED
  BY <1>1, <1>2

\* Controls, history and constraints keep their shape through updates, smoothing,
\* shifts, limits and resets, and the filter meets what SequenceInv says.
THEOREM SequenceInvariant == Spec => [](TypeOK /\ SequenceInv)
<1>1. QED
  BY SequenceInit, SequenceStep, PTL DEF Spec

\* What updateControlSequence leaves is feasible: clipping and the turning radius
\* do not undo each other, for any average of the rollouts.
THEOREM UpdatedIsFeasible == Spec => []Feasible
<1>1. Init => Feasible
  BY DEF Init, Feasible
<1>2. TypeOK /\ SequenceInv /\ Feasible /\ [Next]_vars => Feasible'
  <2> SUFFICES ASSUME TypeOK, SequenceInv, Feasible, [Next]_vars
               PROVE  Feasible'
    OBVIOUS
  <2>1. CASE UpdateControlSequence
    BY <2>1, UpdateFeasible
  <2>2. CASE UNCHANGED vars
    BY <2>2 DEF vars, Feasible, Steps, IsHolonomic
  <2>3. CASE pc' # "updated"
    BY <2>3 DEF Feasible
  <2>4. Next => UpdateControlSequence \/ pc' # "updated"
    BY DEF Next, TooShort, BeginSmoothing, SmoothSample, UpdateHistory, SendCommand, Reset,
           SetSpeedLimit, SetParameters
  <2>5. QED
    BY <2>1, <2>2, <2>3, <2>4
<1>3. QED
  BY <1>1, <1>2, SequenceInvariant, PTL DEF Spec

\* The filter overshoots the constraints by a factor of two at most, however often
\* it runs on its own output.
THEOREM OvershootIsBounded == Spec => []OvershootBounded
<1>1. TypeOK /\ SequenceInv => OvershootBounded
  <2> SUFFICES ASSUME TypeOK, SequenceInv
               PROVE  OvershootBounded
    OBVIOUS
  <2>1. \A a \in Axes : \A i \in Steps : Abs(seq[a][i]) <= 2 * peak[a]
    BY WeakBound
  <2>2. QED
    BY <2>1 DEF OvershootBounded, SequenceInv
<1>2. QED
  BY <1>1, SequenceInvariant, PTL

----------------------------------------------------------------------------
(* The history and the commands                                             *)

LEMMA SentInit == Init => SentInv
<1> SUFFICES ASSUME Init
             PROVE  SentInv
  OBVIOUS
<1>1. \A a \in Axes, i \in 0..3 : hist[a][i] = 0
  BY DEF Init, NoHistory
<1>2. sent = <<>> /\ pc = "idle"
  BY DEF Init
<1>3. QED
  BY <1>1, <1>2 DEF SentInv, Before

\* A reset forgets both.
LEMMA ClearedSent ==
  ASSUME NEW c, Cleared(c), pc' = "idle"
  PROVE  SentInv'
<1>1. \A a \in Axes, i \in 0..3 : hist'[a][i] = 0
  BY DEF Cleared, NoHistory
<1>2. sent' = <<>>
  BY DEF Cleared
<1>3. QED
  BY <1>1, <1>2 DEF SentInv, Before

\* The history takes the sample at the offset that is the next command.
LEMMA HistorySent ==
  ASSUME TypeOK, SequenceInv, SentInv, UpdateHistory
  PROVE  SentInv'
<1>1. /\ pc = "smoothing" /\ pc' = "smoothed" /\ seq' = seq /\ sent' = sent
      /\ hist' = [a \in Axes |-> [i \in 0..3 |-> IF i < 3 THEN hist[a][i + 1] ELSE seq[a][Offset]]]
      /\ Last' = Last /\ Offset' = Offset
  BY DEF UpdateHistory, Last, Offset
<1>2. \A a \in Axes, i \in 0..3 : Last >= 20 => hist[a][i] = Before(4 - i, a)
  BY <1>1 DEF SentInv
<1>3. ASSUME Last >= 20, NEW a \in Axes, NEW i \in 0..2
      PROVE  hist'[a][i] = Before(3 - i, a)
  <2>1. i + 1 \in 0..3 /\ 4 - (i + 1) = 3 - i /\ i \in 0..3 /\ i < 3
    OBVIOUS
  <2>2. hist'[a][i] = hist[a][i + 1]
    BY <1>1, <2>1
  <2>3. QED
    BY <1>2, <1>3, <2>1, <2>2
<1>4. \A a \in Axes : hist'[a][3] = seq[a][Offset]
  BY <1>1
<1>5. QED
  BY <1>1, <1>3, <1>4 DEF SentInv, Before

\* The command is what the history took.
LEMMA CommandSent ==
  ASSUME TypeOK, SequenceInv, SentInv, SendCommand
  PROVE  SentInv'
<1>1. /\ pc = "smoothed" /\ pc' = "idle" /\ conf' = conf /\ hist' = hist
      /\ sent' = [i \in 1..4 |-> IF i = 1 THEN Command
                                 ELSE IF i - 1 \in DOMAIN sent THEN sent[i - 1]
                                 ELSE [a \in Axes |-> 0]]
      /\ seq' = IF conf.shift
                THEN [a \in Axes |-> IF a # "vy" \/ IsHolonomic THEN Shifted(a) ELSE seq[a]]
                ELSE seq
      /\ Last' = Last /\ Offset' = Offset
  BY DEF SendCommand, Last, Offset
<1>2. /\ Last \in Int /\ 1 <= Last /\ Steps = 0..Last /\ Offset \in Steps
      /\ seq \in [Axes -> [Steps -> Int]]
  BY ConfShape DEF TypeOK
<1>3. \A a \in Axes : Command[a] = seq[a][Offset] /\ Command[a] \in Int
  <2>1. ~IsHolonomic => seq["vy"][Offset] = 0
    BY <1>2 DEF SequenceInv
  <2>2. QED
    BY <1>2, <2>1 DEF Command, Axes
<1>4. Command \in [Axes -> Int]
  BY <1>3 DEF Command
<1>5. sent = <<>> \/ sent \in [1..4 -> [Axes -> Int]]
  BY DEF SentInv
<1>6. ASSUME NEW i \in 1..4
      PROVE  /\ sent'[i] \in [Axes -> Int]
             /\ i = 1 => sent'[i] = Command
             /\ i # 1 => \A a \in Axes : sent'[i][a] = Before(i - 1, a)
  <2>1. CASE i = 1
    BY <1>1, <1>4, <2>1
  <2>2. CASE i # 1 /\ sent = <<>>
    <3>1. i - 1 \notin DOMAIN sent
      BY <2>2
    <3>2. sent'[i] = [a \in Axes |-> 0]
      BY <1>1, <2>2, <3>1
    <3>3. QED
      BY <2>2, <3>2 DEF Before
  <2>3. CASE i # 1 /\ sent # <<>>
    <3>1. i - 1 \in 1..4 /\ DOMAIN sent = 1..4 /\ sent[i - 1] \in [Axes -> Int]
      BY <1>5, <2>3
    <3>2. sent'[i] = sent[i - 1]
      BY <1>1, <2>3, <3>1
    <3>3. QED
      BY <2>3, <3>1, <3>2 DEF Before
  <2>4. QED
    BY <2>1, <2>2, <2>3
<1>7. sent' \in [1..4 -> [Axes -> Int]] /\ sent' # <<>>
  <2>1. sent' \in [1..4 -> [Axes -> Int]] /\ DOMAIN sent' = 1..4
    BY <1>1, <1>6
  <2>2. 1 \in 1..4 /\ 1 \notin DOMAIN <<>>
    OBVIOUS
  <2>3. QED
    BY <2>1, <2>2
<1>8. ASSUME Last >= 20, NEW a \in Axes, NEW i \in 0..3
      PROVE  hist[a][i] = sent'[4 - i][a]
  <2>1. CASE i = 3
    BY <1>1, <1>3, <1>6, <1>8, <2>1 DEF SentInv
  <2>2. CASE i \in 0..2
    <3>1. 4 - i \in 1..4 /\ 4 - i # 1 /\ (4 - i) - 1 = 3 - i
      BY <2>2
    <3>2. sent'[4 - i][a] = Before(3 - i, a)
      BY <1>6, <3>1
    <3>3. QED
      BY <1>1, <1>8, <2>2, <3>2 DEF SentInv
  <2>3. QED
    BY <2>1, <2>2
<1>9. ASSUME conf.shift, NEW a \in Axes
      PROVE  seq'[a][0] = sent'[1][a]
  <2>1. Offset = 1 /\ 0 \in Steps /\ 0 < Last
    BY <1>2, <1>9 DEF Offset
  <2>2. sent'[1][a] = seq[a][1]
    BY <1>3, <1>6, <2>1
  <2>3. CASE a # "vy" \/ IsHolonomic
    BY <1>1, <1>9, <2>1, <2>2, <2>3 DEF Shifted
  <2>4. CASE a = "vy" /\ ~IsHolonomic
    BY <1>1, <1>2, <1>9, <2>1, <2>2, <2>4 DEF SequenceInv
  <2>5. QED
    BY <2>3, <2>4
<1>10. QED
  BY <1>1, <1>7, <1>8, <1>9 DEF SentInv, Before

LEMMA SentStep == TypeOK /\ SequenceInv /\ SentInv /\ [Next]_vars => SentInv'
<1> SUFFICES ASSUME TypeOK, SequenceInv, SentInv, [Next]_vars
             PROVE  SentInv'
  OBVIOUS
<1>1. CASE UNCHANGED vars
  BY <1>1 DEF vars, SentInv, Before, Last, Offset
<1>2. CASE UpdateControlSequence \/ BeginSmoothing \/ SmoothSample
  <2>1. /\ pc # "smoothed" /\ pc' \in {"updated", "smoothing"} /\ hist' = hist /\ sent' = sent
        /\ Last' = Last
    BY <1>2 DEF UpdateControlSequence, BeginSmoothing, SmoothSample, Last
  <2>2. QED
    BY <2>1 DEF SentInv, Before
<1>3. CASE TooShort
  <2>1. /\ pc' = "smoothed" /\ sent' = sent /\ Last' = Last /\ Last < 20
    BY <1>3 DEF TooShort, Last
  <2>2. Last \in Int
    BY ConfShape DEF TypeOK
  <2>3. QED
    BY <2>1, <2>2 DEF SentInv
<1>4. CASE UpdateHistory \/ SendCommand
  BY <1>4, HistorySent, CommandSent
<1>5. CASE Reset \/ \E c \in Configs : SetParameters(c)
  BY <1>5, ClearedSent DEF Reset, SetParameters
<1>6. CASE \E l \in SpeedLimits : SetSpeedLimit(l)
  BY <1>6 DEF SetSpeedLimit, SentInv, Before, Last
<1>7. QED
  BY <1>1, <1>2, <1>3, <1>4, <1>5, <1>6 DEF Next

\* The filter continues the commands that were sent, and a shifted sequence begins
\* with the command being executed, for any sequence long enough to be smoothed.
THEOREM HistoryFollowsCommands == Spec => []HistoryIsSent
<1>1. SentInv => HistoryIsSent
  BY DEF SentInv, Before, HistoryIsSent
<1>2. QED
  BY <1>1, SentInit, SentStep, SequenceInvariant, PTL DEF Spec
===============================================================================
