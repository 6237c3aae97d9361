CONSTANTS
    MaxInvokes = 1
    MaxRetries = 2
    MaxBackoff = 8
    AttemptLimit <- MCAttemptLimit
    ExchangeLimit <- MCExchangeLimit
    PostTimes <- MCPostTimes
    TokenTimes <- MCTokenTimes
    RetryAfters <- MCLongRetries
SPECIFICATION Spec
INVARIANTS
    NeverRaises
