\* Two shapes, so that a parameter change can leave a tensor behind, and
\* regenerate_noises free to change at run time.
CONSTANTS
    Shapes = {s1, s2}
    DynamicRegenerate = TRUE
    NoArg = NoArg
SPECIFICATION FairSpec
INVARIANTS ShapeAtUse ReadExclusive NoLateralNoise SampledWhenFixed WriteExclusive
PROPERTY TriggerServed
