CONSTANTS
    MaxInvokes = 2
    MaxRetries = 2
    MaxBackoff = 8
    AttemptLimit <- MCAttemptLimit
    ExchangeLimit <- MCExchangeLimit
    PostTimes <- MCPostTimes
    TokenTimes <- MCTokenTimes
    RetryAfters <- MCRetryAfters
SPECIFICATION FairSpec
INVARIANTS
    TypeOK
    OkMeansApplied
    RefusalMeansUntouched
    NoRerun
    OneExchange
    RetryAdviceIsLastResort
    WorstCase
PROPERTIES
    Termination
    ImplementsCmdletCall
