SPECIFICATION FairSpec
CONSTANTS
    Colo = colo
    DisaggChat = disagg_chat
    DisaggRag = disagg_rag
    Cells = {colo, disagg_chat, disagg_rag}
    Notes = notes
    Others = {}
    CellLike = {}
    NoSummary = no_summary
    Position <- PositionMC
    Mix <- MixMC
    TooLong = {}
    SampleCap = 6
    Sweeps <- WholeMC
    Options <- ResumeMC
    Smoke = FALSE
    InitialFiles <- EmptyDir
    MaxCrashes = 1
PROPERTY
    SummaryFollows
