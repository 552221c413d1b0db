CONSTANTS
    JobIds <- ThreeJobs
    Accounts <- TwoAccounts
    RawStates <- TwoRawStates
    Quantity = 3
    Outputs <- SmallOutputs
    NoFilter = NoFilter
    Spellings <- TwoSpellings
    Limits <- SomeLimits
    DefaultLimit = 1
    MaxLimit = 2
SPECIFICATION EndpointSpec
INVARIANTS
    TypeOK
    EachJobOnce
    PeakIsOverAllSteps
    GroupsAddUp
    AggregateIsAverageAndSurplus
    AnswerIsBounded
