SPECIFICATION Spec
CONSTANTS
    COLOCATED = colocated
    TIER = tier
    Decode = decode
    Pools = {colocated, decode, tier}
    Rank <- RankMC
    Keys <- KeysMC
    KeyOf <- KeyOfOwnMC
    Registrable = {decode, tier}
    PoolStates <- PoolStatesMC
    Scrapes <- ScrapesMC
    Prompts <- PromptsMC
    HeadroomPct = 50
    InteractiveBypass = TRUE
    CacheMax = 2
    HasMetrics = TRUE
    CountCap = 0
INVARIANTS
    CacheIsLRU
    CacheBounded
PROPERTIES
    AdmitsSafely
    RefusesOnlyWhenFull
    PrefixMovesOnlyWhenRefused
