SPECIFICATION Spec
CONSTANTS
    Colo = colo
    DisaggChat = disagg_chat
    DisaggRag = disagg_rag
    Cells = {colo, disagg_chat, disagg_rag}
    Notes = notes
    Others = {notes}
    CellLike = {}
    NoSummary = no_summary
    Position <- PositionMC
    Mix <- MixMC
    TooLong = {disagg_chat}
    SampleCap = 1
    Sweeps <- SweepsMC
    Options <- OptionsMC
    Smoke = FALSE
    InitialFiles <- MessyDirs
    MaxCrashes = 1
INVARIANT
    ReportLikeAggregate
