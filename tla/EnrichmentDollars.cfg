SPECIFICATION Spec
CONSTANTS
    w1 = w1
    w2 = w2
    None = None
    NotString = NotString
    TokenBridge = "bridge"
    Core = "core"
    Chain <- Ethereum
    Contracts <- MCContracts
    PriceFeeds <- MCPriceFeeds
    ChainNames <- MCChainNames
    Items <- MCItems
    Substrings <- MCSubstrings
    Rules <- MCRules
    Workers <- MCWorkers
    Activities <- MCActivities
    Feeds <- MCFeeds
    Answers <- MCAnswers
    FeedDecimals <- MCFeedDecimals
    Scale = 10
    MaxDecimals = 1
    TTL = 2
    Threshold = 1
    MaxTime = 3
INVARIANTS
    AmountInDollars
SYMMETRY MCSymmetry
CHECK_DEADLOCK FALSE
