SPECIFICATION Spec
CONSTANTS
    ProviderKeys <- ThreeKeys
    Providers <- TwoProviders
    Chats = {"chat"}
    Streams = {}
    Embeds = {"embed"}
    ProviderOf <- ChatProvider
    BaseUrl <- Url
    Priority <- Priorities
    MaxChunks = 2
    MaxRestarts = 0
    NoAdapter = "none"
INVARIANTS
    FailsOver
