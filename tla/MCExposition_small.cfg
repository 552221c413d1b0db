CONSTANTS
    QueueJobs <- ThreeJobs
    QueueLabels <- TwoLabels
    QueueStates <- ThreeStates
    Unlimited = Unlimited
    Nodes <- ThreeNodes
    NoNode = NoNode
    States <- TwoStates
    Resources <- ThreeResources
    Listings <- AllListings
    Inputs <- SmallInputs
SPECIFICATION PageSpec
INVARIANTS
    TypeOK
    ClusterIsTheSumOfItsNodes
    NoResourceIsMissed
    ProfilesPartitionNodes
    QueueTypeOK
    QueueAddsUp
    JobSeriesAgreeWithQueue
    OnlySharesAndDiagnosticsRepeat
CHECK_DEADLOCK FALSE
