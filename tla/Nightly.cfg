SPECIFICATION NightlySpec
CONSTANTS
    Schedulers = {c1, c2}
    Pairs = {"ph", "qh", "rh"}
    ProductOf <- MCProductOf
    CompanyOf <- MCCompanyOf
    IdOf <- MCIdOf
    Sales = {"s1", "s2", "s3", "s4"}
    Content <- MCContent
    Delivered <- MCDelivered
    ByHand = {"ph"}
    Horizon = 1
    Lookback = 2
    Past = {"s3", "s4"}
    Quick = {"s2"}
    Weeks = 2
    Since = 1
    LastTick = 4
    MaxJobs = 2
    MaxExtras = 1
INVARIANTS ScoresTellWhatSold SuggestionsFollowForecasts ClassesArePareto
SYMMETRY Symmetry
CHECK_DEADLOCK FALSE
