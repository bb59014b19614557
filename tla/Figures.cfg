SPECIFICATION Spec
CONSTANTS
    Products = {"chair", "drill", "lamp"}
    Warehouses = {"north", "south"}
    Suppliers = {"acme", "bolt"}
    Cost <- MCCost
    Price <- MCPrice
    Reorder <- MCReorder
    Seeds <- MCSeeds
    Changes = {2}
    Baskets <- MCBaskets
    Wanted = 2
    Promise = 1
    Lookback = 2
    Touched <- MCTouched
    MaxDay = 3
    MaxWrites = 2
    Capacity <- MCCapacity
    Category <- MCCategory
    Zones <- MCZones
    ShareScale = 10
    ZoneCritical = 9
    ZoneWarn = 7
    AttentionShown = 1
    BoardShown = 2
    HorizonCap = 8
    UsageScale = 3
    DaysScale = 2
    RiskLimit = 3
    BestSellersShown = 1
    CompanionsShown = 1
    PurchasesShown = 1
    CriticalDays = 2
    WarningDays = 3
    WatchDays = 5
    BandEnds <- MCBandEnds
    DeadDays = 2
    ExcessCover = 6
    AtRiskCover = 2
    LeadTime = 2
    UnknownLead = 2
    MonthDays = 2
    Months = 2
    Ranges = {1, 3}
    CriticalDelay = 1
    StaleDraft = 1
    UrgentDays = 2
    Weeks = 2
    WeekDays = 1
    NoRateDays = 9
    LateShown = 1
    ActionsShown = 2
    StaleShown = 1
    PipelineShown = 3
    Window = 3
INVARIANTS StockFigures ProductFigures BuyingFigures TracesTellTheStock
