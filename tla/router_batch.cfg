SPECIFICATION Spec
CONSTANTS
    COLOCATED = colocated
    TIER = tier
    Decode = decode
    Pools = {colocated, decode, tier}
    Rank <- RankMC
    Keys <- KeysMC
    KeyOf <- KeyOfMC
    Registrable = {decode, tier}
    PoolStates <- PoolStatesMC
    Scrapes <- ScrapesMC
    Prompts <- PromptsMC
    HeadroomPct = 50
    InteractiveBypass = FALSE
    CacheMax = 2
    HasMetrics = FALSE
    CountCap = 0
PROPERTY
    BatchIgnoresCache
