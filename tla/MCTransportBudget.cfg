CONSTANTS
    MaxInvokes = 2
    MaxRetries = 2
    MaxBackoff = 8
    AttemptLimit <- MCAttemptLimit
    ExchangeLimit <- MCExchangeLimit
    PostTimes <- MCInTimePosts
    TokenTimes <- MCInTimeTokens
    RetryAfters <- MCLongRetries
SPECIFICATION Spec
INVARIANTS
    WithinBudget
