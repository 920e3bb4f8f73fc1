CONSTANTS
    Nodes <- MCNodes
    Batches <- MCBatches
    BatchSize = 3
    TimeSteps = 2
    MaxChanges = 3
    MaxCalls = 2
SPECIFICATION Spec
INVARIANTS MembersFollow TargetsLive MarkersOfOneCall
