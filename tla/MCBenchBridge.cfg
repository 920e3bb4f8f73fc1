\* Three missions, the last one on the path of the first, as the straight-line
\* cases TC-06, TC-08 and TC-10 are.
CONSTANTS
    p = p
    q = q
    Paths = {p, q}
    Cases <- MCCases
    Slots = {g1, g2, g3}
    None = None
SPECIFICATION FairSpec
INVARIANTS TypeOK OneGoalPerMission
PROPERTIES MissionKept MissionPursued
