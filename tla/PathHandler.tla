------------------------------- MODULE PathHandler -------------------------------
(***************************************************************************)
(* mppi::PathHandler: the plan the controller follows, pruned as the robot *)
(* advances and, under enforce_path_inversion, handed out one segment at a *)
(* time, the segments being separated by the cusps of the plan.            *)
(*                                                                         *)
(* A pose is its index in the plan that setPath was given, 1 to n, so both *)
(* stored plans are intervals of indices: global_plan_ is first..n and     *)
(* global_plan_up_to_inversion_ is from..to.  A plan is its length and the *)
(* set of its cusps, the poses where the direction of travel reverses.     *)
(* Where the robot is, how far the plan is looked ahead and what the       *)
(* transforms answer is left open.                                         *)
(***************************************************************************)
EXTENDS Integers

CONSTANTS
    Plans,      \* the plans setPath may be given
    NoLocal     \* no plan has been asked for since the last setPath

\* Only an interior pose has two neighbours to reverse between.
Plan == {p \in [n : Nat, cusps : SUBSET Nat] : \A c \in p.cusps : 1 < c /\ c < p.n}

ASSUME PathAssumption ==
    /\ Plans \subseteq Plan
    /\ [n |-> 0, cusps |-> {}] \in Plans
    /\ NoLocal \notin [ok : BOOLEAN, a : Int, b : Int]

VARIABLES
    plan,       \* the plan of the last setPath
    first,      \* first pose of global_plan_
    from, to,   \* first and last pose of global_plan_up_to_inversion_
    locale,     \* inversion_locale_
    enforce,    \* enforce_path_inversion_
    local,      \* the last answer of transformPath: an exception, or the poses a..b
    stale,      \* history: the plan was set while inversions were not enforced
    crashed     \* history: erase() was called with an iterator past the end

window == <<first, from, to, locale>>
vars   == <<plan, window, enforce, local, stale, crashed>>

Thrown        == [ok |-> FALSE, a |-> 0, b |-> 0]
Answer(a, b)  == [ok |-> TRUE, a |-> a, b |-> b]

Init ==
    /\ plan = [n |-> 0, cusps |-> {}]
    /\ first = 1 /\ from = 1 /\ to = 0 /\ locale = 0
    /\ enforce \in BOOLEAN
    /\ local = NoLocal /\ stale = FALSE /\ crashed = FALSE

----------------------------------------------------------------------------
\* findFirstPathInversion on the poses b..n: the dot product is first negative at c.
IsFirstInversion(p, b, c) ==
    /\ c \in p.cusps /\ b < c
    /\ \A d \in p.cusps : b < d => c <= d

\* removePosesAfterFirstInversion on the poses b..n: what is left ends at the
\* first cusp, and the result is the number of poses left, or 0 without a cusp.
CropAtInversion(p, b) ==
    \/ \E c \in p.cusps : /\ IsFirstInversion(p, b, c)
                          /\ to' = c /\ locale' = c - b + 1
    \/ /\ \A c \in p.cusps : c <= b
       /\ to' = p.n /\ locale' = 0

\* Mutant of SetPath: inversion_locale_ is recomputed only if there is a cusp.
SetPathKeepsLocale(p) ==
    /\ ~crashed
    /\ plan' = p /\ first' = 1 /\ from' = 1
    /\ IF enforce
       THEN \/ \E c \in p.cusps : IsFirstInversion(p, 1, c) /\ to' = c /\ locale' = c
            \/ (\A c \in p.cusps : c <= 1) /\ to' = p.n /\ locale' = locale
       ELSE to' = p.n /\ locale' = locale
    /\ stale' = ~enforce
    /\ local' = NoLocal
    /\ UNCHANGED <<enforce, crashed>>

\* setPath
SetPath(p) ==
    /\ ~crashed
    /\ plan' = p /\ first' = 1 /\ from' = 1
    /\ IF enforce THEN CropAtInversion(p, 1) ELSE to' = p.n /\ locale' = locale
    /\ stale' = ~enforce
    /\ local' = NoLocal
    /\ UNCHANGED <<enforce, crashed>>

\* The dynamic parameter; nothing is recomputed.
SetEnforce(b) ==
    /\ ~crashed
    /\ enforce' = b
    /\ UNCHANGED <<plan, window, local, stale, crashed>>

----------------------------------------------------------------------------
(* transformPath                                                            *)

\* transformToGlobalPlanFrame throws: the plan is empty, or there is no
\* transform for the pose of the robot.
TransformFails ==
    /\ ~crashed
    /\ local' = Thrown
    /\ UNCHANGED <<plan, window, enforce, stale, crashed>>

\* getGlobalPlanConsideringBoundsInCostmapFrame: the closest pose within the
\* search distance, and the poses from there that are within prune_distance and
\* inside the costmap.  The caller throws if there are none of them.
LocalPlan(closest, end) ==
    /\ from <= closest /\ closest <= to
    /\ closest <= end /\ end <= to + 1
    /\ local' = IF end = closest THEN Thrown ELSE Answer(closest, end - 1)

AtInversion(within) == enforce /\ locale # 0 /\ within

\* Mutant of Advance: global_plan_ is pruned along with the segment.
AdvancePrunesBoth(closest, end, within) ==
    /\ ~crashed
    /\ LocalPlan(closest, end)
    /\ ~AtInversion(within)
    /\ from' = closest /\ first' = closest
    /\ UNCHANGED <<plan, to, locale, enforce, stale, crashed>>

\* The robot is not at an inversion: only the segment is pruned, up to closest.
Advance(closest, end, within) ==
    /\ ~crashed
    /\ LocalPlan(closest, end)
    /\ ~AtInversion(within)
    /\ from' = closest
    /\ UNCHANGED <<plan, first, to, locale, enforce, stale, crashed>>

\* Mutant of PassInversion: one pose of the next segment is erased too.
PassInversionErasesOneMore(closest, end) ==
    /\ ~crashed
    /\ LocalPlan(closest, end)
    /\ AtInversion(TRUE)
    /\ first + locale < plan.n
    /\ first' = first + locale + 1 /\ from' = first'
    /\ CropAtInversion(plan, first')
    /\ UNCHANGED <<plan, enforce, stale, crashed>>

\* Mutant of PassInversion: the erased poses are counted from what is left of the
\* segment.
PassInversionFromWindow(closest, end) ==
    /\ ~crashed
    /\ LocalPlan(closest, end)
    /\ AtInversion(TRUE)
    /\ from + locale <= plan.n + 1
    /\ first' = from + locale /\ from' = first'
    /\ CropAtInversion(plan, first')
    /\ UNCHANGED <<plan, enforce, stale, crashed>>

\* Mutant of PassInversion: the rest of the plan is not cropped again.
PassInversionNoCrop(closest, end) ==
    /\ ~crashed
    /\ LocalPlan(closest, end)
    /\ AtInversion(TRUE)
    /\ first + locale <= plan.n + 1
    /\ first' = first + locale /\ from' = first'
    /\ to' = plan.n /\ locale' = 0
    /\ UNCHANGED <<plan, enforce, stale, crashed>>

\* Mutant of PassInversion: global_plan_up_to_inversion_ is not replaced.
PassInversionKeepsSegment(closest, end) ==
    /\ ~crashed
    /\ LocalPlan(closest, end)
    /\ AtInversion(TRUE)
    /\ first' = first + locale /\ from' = closest
    /\ to' = to /\ locale' = 0
    /\ UNCHANGED <<plan, enforce, stale, crashed>>

\* isWithinInversionTolerances: the plan goes on with the segment behind the
\* inversion.  The answer is still taken from the segment before it.
PassInversion(closest, end) ==
    /\ ~crashed
    /\ LocalPlan(closest, end)
    /\ AtInversion(TRUE)
    /\ first + locale <= plan.n + 1
    /\ first' = first + locale /\ from' = first'
    /\ CropAtInversion(plan, first')
    /\ UNCHANGED <<plan, enforce, stale, crashed>>

\* An inversion_locale_ past the end of the plan: what erase() does is undefined,
\* and nothing is said of the handler after it.
EraseBeyondEnd ==
    /\ ~crashed
    /\ from <= to
    /\ AtInversion(TRUE)
    /\ first + locale > plan.n + 1
    /\ crashed' = TRUE
    /\ UNCHANGED <<plan, window, enforce, local, stale>>

----------------------------------------------------------------------------
Poses == from..(to + 1)

AtTheInversion == \E closest, end \in Poses : PassInversion(closest, end)

TransformPath ==
    \/ TransformFails
    \/ \E closest, end \in Poses, within \in BOOLEAN : Advance(closest, end, within)
    \/ AtTheInversion
    \/ EraseBeyondEnd

Next ==
    \/ \E p \in Plans : SetPath(p)
    \/ \E b \in BOOLEAN : SetEnforce(b)
    \/ TransformPath

Spec == Init /\ [][Next]_vars

\* The robot follows what it is given: as long as there is an inversion ahead, it
\* is within the tolerances of it at some call.
FairSpec == Spec /\ WF_vars(AtTheInversion)

----------------------------------------------------------------------------
(* Properties                                                               *)

TypeOK ==
    /\ plan \in Plans
    /\ first \in Int /\ from \in Int /\ to \in Int /\ locale \in Nat
    /\ enforce \in BOOLEAN /\ stale \in BOOLEAN /\ crashed \in BOOLEAN
    /\ local \in [ok : BOOLEAN, a : Int, b : Int] \cup {NoLocal}

\* The controller is never given poses from both sides of a cusp, whether before
\* or after the inversion was reached, and always a piece of the plan that was
\* set.  (A plan set while inversions were not enforced is not cut at all.)
NoCuspCrossed ==
    ~stale /\ local # NoLocal /\ local.ok =>
        /\ 1 <= local.a /\ local.a <= local.b /\ local.b <= plan.n
        /\ \A c \in plan.cusps : ~(local.a < c /\ c < local.b)

\* inversion_locale_ is an offset into global_plan_, and global_plan_ is pruned at
\* inversions only, while global_plan_up_to_inversion_ is pruned at every call:
\* the offset always ends where the segment does, with poses left behind it.
LocaleInStep ==
    ~stale /\ locale # 0 =>
        /\ first + locale - 1 = to
        /\ to \in plan.cusps
        /\ first <= from /\ from <= to

\* No iterator past the end is dereferenced or erased up to.
EraseInRange == ~stale => ~crashed

\* A plan with poses never runs empty, so that back() and min_by always have a
\* pose to look at.
NeverEmptied == ~crashed /\ plan.n > 0 /\ ~stale => from <= to /\ to <= plan.n

\* The poses are handed out in order and none is left out: a call moves the start
\* of the segment forward inside the segment, or from its inversion to the very
\* next pose.
NothingSkipped ==
    [][ ~stale /\ local' # NoLocal =>
          \/ to' = to /\ from <= from'
          \/ from' = to + 1 /\ to < to' ]_vars

\* The robot gets to see the end of the plan, however many inversions it has.
LastSegmentReached ==
    (enforce /\ ~stale /\ local # NoLocal) ~>
        (to = plan.n \/ ~enforce \/ local = NoLocal)
----------------------------------------------------------------------------
(* The inductive invariant behind the safety properties.                    *)

\* The segment is a piece of global_plan_, without a cusp inside.
SegmentSound ==
    /\ 1 <= first /\ first <= from /\ from <= to + 1 /\ to <= plan.n
    /\ plan.n > 0 => from <= to
    /\ \A c \in plan.cusps : ~(first < c /\ c < to)

\* inversion_locale_ tells whether, and where, the plan goes on behind it.
LocaleSound ==
    /\ locale # 0 => first + locale = to + 1 /\ to \in plan.cusps
    /\ locale = 0 => to = plan.n

PathInv ==
    /\ TypeOK
    /\ ~stale => SegmentSound /\ LocaleSound /\ ~crashed
    /\ NoCuspCrossed
===============================================================================
