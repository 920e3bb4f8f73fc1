CONSTANTS
    Setups <- MCSetups
    Scenes <- MCScenes
    Layers <- MCLayers
    Radii <- MCRadii
    InflationCost <- MCInflationCost
SPECIFICATION Spec
INVARIANTS
    SharedDataOfThisCall AlignedToNearest FollowsFirstFree SomeoneDrives CollisionsJudged ObstaclesRecovers
