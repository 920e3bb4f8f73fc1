\* Two cases in a row on one path.
CONSTANTS
    p = p
    q = q
    Paths = {p, q}
    Cases <- MCRepeatedCases
    Slots = {g1, g2}
    None = None
SPECIFICATION FairSpec
PROPERTY MissionPursued
