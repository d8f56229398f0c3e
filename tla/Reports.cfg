\* Races of creations and of markups, edits between the reads of a price, a stream and its
\* usage, and a dashboard or a listing that is read while three requests are logged.
SPECIFICATION Spec
CONSTANTS
    Thousand = 10
    Hundred = 10
    Precision = 12
    Creations = {"create1", "create2", "chat row", "embed row", "flat row"}
    Edits = {"edit1", "edit2"}
    MarkupEdits = {"markup1", "markup2"}
    Chats = {"chat1", "chat2", "chat3", "chat4", "flat1", "flat2"}
    Streams = {"stream"}
    Embeds = {"embed"}
    FirstConfigs <- FirstRows
    NewConfigs <- NewRows
    Changes <- SomeChanges
    Markups <- SomeMarkups
    DefaultMarkup <- Usual
    Priceable <- Inputs
    CostPrices <- Costs
    Workloads <- Together
    NoRow = NoRow
    NoNumber = NoNumber
    NoReport = NoReport
    Dashboards = {"dashboard"}
    Walks = {"walk"}
    ReadersOf <- ReadersWith
    UserOf <- Owners
    PageSize = 1
    TopModels = 5
    DayStart <- Days
    MonthStart <- Months
    StartIncluded = FALSE
    MaxTime = 2
INVARIANTS
    TypeOK
    CatalogIsUnambiguous
    CoveredUsage
    CostWithinACent
    NotSoldBelowCost
    UncutUsageIsBilled
    DashboardAddsUp
    WalkMissesOnlyPushedOrTied
PROPERTIES
    EditsAreKept
    PriceWasInForce
