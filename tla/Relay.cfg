SPECIFICATION FairSpec
CONSTANTS
    ProviderKeys <- ThreeKeys
    Providers <- TwoProviders
    Chats = {}
    Streams = {"stream"}
    Embeds = {"embed"}
    ProviderOf <- Provider
    BaseUrl <- Url
    Priority <- Priorities
    MaxChunks = 2
    MaxRestarts = 1
    NoAdapter = "none"
INVARIANTS
    TypeOK
    UsageOfDeliveredCall
    ErrorMeansAllFailed
    SentToOwnProvider
PROPERTIES
    DeletedKeyIsNotSent
    RequestsEnd
