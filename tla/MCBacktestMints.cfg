SPECIFICATION Spec
CONSTANTS
    Runs <- MCRuns
    Histories <- MCHistories
    Replies <- MCReplies
    Files = 2
    InitialBalance = 1300
    BuyAmount = 480
    BaseFee = 1
    PriorityFee = 2
    AccountFee = 3
    JitoTip = 1
    BuySlippage <- MCBuySlippage
    SellSlippage <- MCSellSlippage
    BuyLatency = {1600, 4400}
    SellLatency = {1600}
INVARIANTS
    HeldWithinLimits
    TradesWaitForTheLast
    BoughtOnEvidence
    ResultDescribesCurve
PROPERTY
    OneSessionPerMint
