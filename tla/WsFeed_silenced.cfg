SPECIFICATION Spec
CONSTANTS
    Clients = {c1, c2}
    Backends = {"redis", "memory"}
    Channels = {"backtest_runs", "backtests_strategy_results", "backtests_mint_results"}
    MaxUpdates = 2
    MaxSubscribes = 3
    MaxReconnects = 1
    MaxRefusals = 1
INVARIANT
    ActiveSubscriptionHears
SYMMETRY ClientSymmetry
CHECK_DEADLOCK FALSE
