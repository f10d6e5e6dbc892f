SPECIFICATION FairSpec
CONSTANTS
    Requests = {r1, r2}
    Adapter = "openai_compat"
    Replies <- OpenAIReplies
    MaxAttempts = 3
    AttemptTimeout = 1
    TotalTimeout = 3
    BaseDelay = 1
    MaxDelay = 1
    RetryAfter = 2
INVARIANT TypeOK
INVARIANT AnswerExplained
INVARIANT BudgetHolds
INVARIANT GaugesBalance
INVARIANT RetriesOnlyTransient
PROPERTY ContractSpec
PROPERTY EveryRequestAnswered
CHECK_DEADLOCK FALSE
