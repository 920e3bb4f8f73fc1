\* enforce_path_inversion changes at run time.  The process ends where erase() is
\* given an iterator past the end.
CONSTANTS
    Plans <- MCPlans
    NoLocal = NoLocal
SPECIFICATION FairSpec
INVARIANTS NoCuspCrossed LocaleInStep EraseInRange NeverEmptied
PROPERTIES NothingSkipped LastSegmentReached
CHECK_DEADLOCK FALSE
