---------------------------- MODULE PathHandlerProofs ----------------------------
(***************************************************************************)
(* Proofs about PathHandler, for every set of plans: the safety properties *)
(* its run checks on seven small ones.                                     *)
(***************************************************************************)
EXTENDS PathHandler, TLAPS

\* A plan is a length and a set of interior positions.
LEMMA PlanShape ==
  ASSUME NEW p \in Plans
  PROVE  /\ p.n \in Nat
         /\ p.cusps \subseteq Nat
         /\ \A c \in p.cusps : 1 < c /\ c < p.n
<1>1. p \in Plan
  BY PathAssumption
<1>2. QED
  BY <1>1 DEF Plan

\* Cropping the poses b..n of a plan that has some, or has none at all, leaves a
\* segment without a cusp inside and an inversion_locale_ that points behind it.
LEMMA CropSound ==
  ASSUME NEW p \in Plans, NEW b \in Int, 1 <= b, b <= p.n + 1,
         p.n > 0 => b <= p.n,
         CropAtInversion(p, b)
  PROVE  /\ to' \in Int /\ locale' \in Nat
         /\ b <= to' + 1 /\ to' <= p.n
         /\ p.n > 0 => b <= to'
         /\ \A c \in p.cusps : ~(b < c /\ c < to')
         /\ locale' # 0 => b + locale' = to' + 1 /\ to' \in p.cusps
         /\ locale' = 0 => to' = p.n
<1>1. CASE \E c \in p.cusps : IsFirstInversion(p, b, c) /\ to' = c /\ locale' = c - b + 1
  <2>1. PICK c \in p.cusps : IsFirstInversion(p, b, c) /\ to' = c /\ locale' = c - b + 1
    BY <1>1
  <2>2. c \in Nat /\ b < c /\ c < p.n /\ p.n \in Nat /\ p.cusps \subseteq Nat
    BY <2>1, PlanShape DEF IsFirstInversion
  <2>3. \A d \in p.cusps : ~(b < d /\ d < c)
    BY <2>1, <2>2 DEF IsFirstInversion
  <2>4. QED
    BY <2>1, <2>2, <2>3
<1>2. CASE (\A c \in p.cusps : c <= b) /\ to' = p.n /\ locale' = 0
  BY <1>2, PlanShape
<1>3. QED
  BY <1>1, <1>2 DEF CropAtInversion

\* What a local plan is, if there is one: poses of the segment, in order.
LEMMA LocalSound ==
  ASSUME TypeOK, NEW closest \in Int, NEW end \in Int, LocalPlan(closest, end)
  PROVE  /\ from <= closest /\ closest <= to
         /\ local' \in [ok : BOOLEAN, a : Int, b : Int]
         /\ local'.ok => /\ closest <= local'.a /\ local'.a <= local'.b
                         /\ local'.b <= to
  BY DEF LocalPlan, Answer, Thrown, TypeOK

\* Initially there is no plan and nothing to crop.
LEMMA PathInit == Init => PathInv
<1> SUFFICES ASSUME Init
             PROVE  PathInv
  OBVIOUS
<1>1. /\ first = 1 /\ from = 1 /\ to = 0 /\ locale = 0
      /\ local = NoLocal /\ stale = FALSE /\ crashed = FALSE
  BY DEF Init
<1>2. plan \in Plans /\ plan.n = 0 /\ plan.cusps = {}
  BY PathAssumption DEF Init
<1>3. TypeOK
  <2>1. enforce \in BOOLEAN
    BY DEF Init
  <2>2. first \in Int /\ from \in Int /\ to \in Int /\ locale \in Nat
    BY <1>1
  <2>3. local \in [ok : BOOLEAN, a : Int, b : Int] \cup {NoLocal}
    BY <1>1
  <2>4. stale \in BOOLEAN /\ crashed \in BOOLEAN
    BY <1>1
  <2>5. QED
    BY <1>2, <2>1, <2>2, <2>3, <2>4, Zenon DEF TypeOK
<1>4. SegmentSound /\ LocaleSound
  BY <1>1, <1>2 DEF SegmentSound, LocaleSound
<1>5. NoCuspCrossed
  BY <1>1 DEF NoCuspCrossed
<1>6. QED
  BY <1>1, <1>3, <1>4, <1>5 DEF PathInv

\* A local plan taken from a sound segment crosses no cusp.
LEMMA LocalCrossesNoCusp ==
  ASSUME PathInv, NEW closest \in Int, NEW end \in Int, LocalPlan(closest, end),
         plan' = plan, stale' = stale
  PROVE  NoCuspCrossed'
<1> SUFFICES ASSUME ~stale, local'.ok
             PROVE  /\ 1 <= local'.a /\ local'.a <= local'.b /\ local'.b <= plan.n
                    /\ \A c \in plan.cusps : ~(local'.a < c /\ c < local'.b)
  BY DEF NoCuspCrossed
<1>1. /\ SegmentSound /\ plan \in Plans
      /\ first \in Int /\ from \in Int /\ to \in Int
  BY DEF PathInv, TypeOK
<1>2. /\ local'.a \in Int /\ local'.b \in Int
      /\ from <= local'.a /\ local'.a <= local'.b /\ local'.b <= to
  BY <1>1, LocalSound DEF PathInv
<1>3. QED
  BY <1>1, <1>2, PlanShape DEF SegmentSound

\* Every operation preserves the invariant.
LEMMA PathStep == PathInv /\ [Next]_vars => PathInv'
<1> SUFFICES ASSUME PathInv, [Next]_vars
             PROVE  PathInv'
  OBVIOUS
<1>0. /\ plan \in Plans /\ plan.n \in Nat /\ plan.cusps \subseteq Nat
      /\ \A c \in plan.cusps : 1 < c /\ c < plan.n
      /\ first \in Int /\ from \in Int /\ to \in Int /\ locale \in Nat
  BY PlanShape DEF PathInv, TypeOK
<1>1. ASSUME NEW p \in Plans, SetPath(p)
      PROVE  PathInv'
  <2>1. /\ plan' = p /\ first' = 1 /\ from' = 1 /\ local' = NoLocal
        /\ stale' = ~enforce /\ enforce' = enforce /\ crashed' = crashed /\ ~crashed
    BY <1>1 DEF SetPath
  <2>2. p.n \in Nat /\ p.cusps \subseteq Nat
    BY PlanShape
  <2>3. CASE enforce
    <3>1. CropAtInversion(p, 1)
      BY <1>1, <2>3 DEF SetPath
    <3>2. /\ to' \in Int /\ locale' \in Nat
          /\ 1 <= to' + 1 /\ to' <= p.n
          /\ p.n > 0 => 1 <= to'
          /\ \A c \in p.cusps : ~(1 < c /\ c < to')
          /\ locale' # 0 => 1 + locale' = to' + 1 /\ to' \in p.cusps
          /\ locale' = 0 => to' = p.n
      BY <2>2, <3>1, CropSound
    <3>3. TypeOK'
      BY <2>1, <3>2 DEF PathInv, TypeOK
    <3>4. SegmentSound'
      BY <2>1, <2>2, <3>2 DEF SegmentSound
    <3>5. LocaleSound'
      BY <2>1, <2>2, <3>2 DEF LocaleSound
    <3>6. NoCuspCrossed'
      BY <2>1 DEF NoCuspCrossed
    <3>7. QED
      BY <2>1, <3>3, <3>4, <3>5, <3>6 DEF PathInv
  <2>4. CASE ~enforce
    <3>1. to' = p.n /\ locale' = locale
      BY <1>1, <2>4 DEF SetPath
    <3>2. TypeOK'
      BY <1>0, <2>1, <2>2, <3>1 DEF PathInv, TypeOK
    <3>3. stale' /\ NoCuspCrossed'
      BY <2>1, <2>4 DEF NoCuspCrossed, PathInv, TypeOK
    <3>4. QED
      BY <3>2, <3>3 DEF PathInv
  <2>5. QED
    BY <2>3, <2>4 DEF PathInv, TypeOK
<1>2. ASSUME NEW b \in BOOLEAN, SetEnforce(b)
      PROVE  PathInv'
  BY <1>2 DEF SetEnforce, window, PathInv, TypeOK, SegmentSound, LocaleSound, NoCuspCrossed
<1>3. CASE TransformFails
  BY <1>3 DEF TransformFails, Thrown, window, PathInv, TypeOK, SegmentSound, LocaleSound,
     NoCuspCrossed
<1>4. ASSUME NEW closest \in Poses, NEW end \in Poses, NEW within \in BOOLEAN,
             Advance(closest, end, within)
      PROVE  PathInv'
  <2>1. /\ from' = closest /\ LocalPlan(closest, end)
        /\ UNCHANGED <<plan, first, to, locale, enforce, stale, crashed>>
        /\ closest \in Int /\ end \in Int
    BY <1>0, <1>4 DEF Advance, Poses
  <2>2. /\ from <= closest /\ closest <= to
        /\ local' \in [ok : BOOLEAN, a : Int, b : Int]
    BY <2>1, LocalSound DEF PathInv
  <2>3. TypeOK'
    BY <2>1, <2>2 DEF PathInv, TypeOK
  <2>4. NoCuspCrossed'
    BY <2>1, LocalCrossesNoCusp
  <2>5. ~stale' => SegmentSound' /\ LocaleSound' /\ ~crashed'
    BY <1>0, <2>1, <2>2 DEF PathInv, SegmentSound, LocaleSound
  <2>6. QED
    BY <2>3, <2>4, <2>5 DEF PathInv
<1>5. ASSUME NEW closest \in Poses, NEW end \in Poses, PassInversion(closest, end)
      PROVE  PathInv'
  <2>1. /\ LocalPlan(closest, end) /\ locale # 0 /\ ~crashed
        /\ first + locale <= plan.n + 1
        /\ first' = first + locale /\ from' = first'
        /\ CropAtInversion(plan, first')
        /\ UNCHANGED <<plan, enforce, stale, crashed>>
        /\ closest \in Int /\ end \in Int
    BY <1>0, <1>5 DEF PassInversion, AtInversion, Poses
  <2>2. local' \in [ok : BOOLEAN, a : Int, b : Int]
    BY <2>1, LocalSound DEF PathInv
  <2>3. to' \in Int /\ locale' \in Nat
    <3>1. CASE \E c \in plan.cusps : /\ IsFirstInversion(plan, first', c)
                                     /\ to' = c /\ locale' = c - first' + 1
      BY <1>0, <2>1, <3>1 DEF IsFirstInversion
    <3>2. CASE to' = plan.n /\ locale' = 0
      BY <1>0, <3>2
    <3>3. QED
      BY <2>1, <3>1, <3>2 DEF CropAtInversion
  <2>4. TypeOK'
    BY <1>0, <2>1, <2>2, <2>3 DEF PathInv, TypeOK
  <2>5. NoCuspCrossed'
    BY <2>1, LocalCrossesNoCusp
  <2>6. ASSUME ~stale
        PROVE  SegmentSound' /\ LocaleSound'
    <3>1. /\ first' = to + 1 /\ to \in plan.cusps /\ 1 <= first /\ first <= to
      BY <1>0, <2>1, <2>6 DEF PathInv, SegmentSound, LocaleSound
    <3>2. first' \in Int /\ 1 <= first' /\ first' <= plan.n
      BY <1>0, <3>1
    <3>3. /\ first' <= to' + 1 /\ to' <= plan.n
          /\ plan.n > 0 => first' <= to'
          /\ \A c \in plan.cusps : ~(first' < c /\ c < to')
          /\ locale' # 0 => first' + locale' = to' + 1 /\ to' \in plan.cusps
          /\ locale' = 0 => to' = plan.n
      BY <1>0, <2>1, <3>2, CropSound
    <3>4. QED
      BY <2>1, <3>2, <3>3 DEF SegmentSound, LocaleSound
  <2>7. QED
    BY <2>1, <2>4, <2>5, <2>6 DEF PathInv
<1>6. CASE EraseBeyondEnd
  <2>1. stale
    BY <1>0, <1>6 DEF EraseBeyondEnd, AtInversion, PathInv, SegmentSound, LocaleSound
  <2>2. QED
    BY <1>6, <2>1 DEF EraseBeyondEnd, window, PathInv, TypeOK, NoCuspCrossed
<1>7. CASE UNCHANGED vars
  BY <1>7 DEF vars, window, PathInv, TypeOK, SegmentSound, LocaleSound, NoCuspCrossed
<1>8. QED
  BY <1>1, <1>2, <1>3, <1>4, <1>5, <1>6, <1>7 DEF Next, TransformPath, AtTheInversion

\* The invariant holds throughout.
THEOREM PathInvariant == Spec => []PathInv
  BY PathInit, PathStep, PTL DEF Spec

\* Type correctness of the handler.
THEOREM PathTypeCorrect == Spec => []TypeOK
<1>1. PathInv => TypeOK
  BY DEF PathInv
<1>2. QED
  BY <1>1, PathInvariant, PTL

\* Whatever the plan, where the robot is and when a new plan comes, the controller
\* is never given poses from both sides of a cusp.
THEOREM SegmentSafety == Spec => []NoCuspCrossed
<1>1. PathInv => NoCuspCrossed
  BY DEF PathInv
<1>2. QED
  BY <1>1, PathInvariant, PTL

\* inversion_locale_ ends where the segment does.
THEOREM LocaleFollows == Spec => []LocaleInStep
<1>1. PathInv => LocaleInStep
  <2> SUFFICES ASSUME PathInv, ~stale, locale # 0
               PROVE  /\ first + locale - 1 = to /\ to \in plan.cusps
                      /\ first <= from /\ from <= to
    BY DEF LocaleInStep
  <2>1. /\ first \in Int /\ from \in Int /\ to \in Int /\ locale \in Nat
        /\ plan.n \in Nat /\ \A c \in plan.cusps : 1 < c /\ c < plan.n
    BY PlanShape DEF PathInv, TypeOK
  <2>2. QED
    BY <2>1 DEF PathInv, SegmentSound, LocaleSound
<1>2. QED
  BY <1>1, PathInvariant, PTL

\* erase() is never given an iterator past the end of the plan.
THEOREM EraseSafety == Spec => []EraseInRange
<1>1. PathInv => EraseInRange
  BY DEF PathInv, EraseInRange
<1>2. QED
  BY <1>1, PathInvariant, PTL

\* A plan that has poses never runs empty.
THEOREM PlanNeverEmptied == Spec => []NeverEmptied
<1>1. PathInv => NeverEmptied
  BY DEF PathInv, SegmentSound, NeverEmptied
<1>2. QED
  BY <1>1, PathInvariant, PTL

\* Every pose is handed out in its turn: a call moves the start of the segment
\* forward inside it, or from its inversion to the very next pose.
THEOREM PosesInOrder == Spec => NothingSkipped
<1>1. PathInv /\ PathInv' /\ [Next]_vars =>
        [~stale /\ local' # NoLocal => \/ to' = to /\ from <= from'
                                       \/ from' = to + 1 /\ to < to']_vars
  <2> SUFFICES ASSUME PathInv, PathInv', Next, ~stale, local' # NoLocal
               PROVE  \/ to' = to /\ from <= from'
                      \/ from' = to + 1 /\ to < to'
    BY Zenon
  <2>1. first \in Int /\ from \in Int /\ to \in Int /\ locale \in Nat
    BY DEF PathInv, TypeOK
  <2>2. ASSUME NEW p \in Plans, SetPath(p)
        PROVE  FALSE
    BY <2>2 DEF SetPath
  <2>3. CASE \E b \in BOOLEAN : SetEnforce(b)
    BY <2>1, <2>3 DEF SetEnforce, window
  <2>4. CASE TransformFails \/ EraseBeyondEnd
    <3>1. to' = to /\ from' = from
      BY <2>4 DEF TransformFails, EraseBeyondEnd, window
    <3>2. QED
      BY <2>1, <3>1
  <2>5. ASSUME NEW closest \in Poses, NEW end \in Poses, NEW within \in BOOLEAN,
               Advance(closest, end, within)
        PROVE  to' = to /\ from <= from'
    BY <2>1, <2>5 DEF Advance, LocalPlan, Poses
  <2>6. ASSUME NEW closest \in Poses, NEW end \in Poses, PassInversion(closest, end)
        PROVE  from' = to + 1 /\ to < to'
    <3>1. /\ from' = first' /\ first' = first + locale /\ locale # 0
          /\ plan' = plan /\ stale' = stale
      BY <2>6 DEF PassInversion, AtInversion
    <3>2. first + locale = to + 1 /\ to \in plan.cusps
      BY <3>1 DEF PathInv, LocaleSound
    <3>3. plan.n > 0
      BY <3>2, PlanShape DEF PathInv, TypeOK
    <3>4. from' <= to' /\ to' \in Int
      BY <3>1, <3>3 DEF PathInv, SegmentSound, TypeOK
    <3>5. QED
      BY <2>1, <3>1, <3>2, <3>4
  <2>7. QED
    BY <2>2, <2>3, <2>4, <2>5, <2>6 DEF Next, TransformPath, AtTheInversion
<1>2. QED
  BY <1>1, PathInvariant, PTL DEF Spec, NothingSkipped
===============================================================================
