SPECIFICATION FairSpec
CONSTANTS
    Clients = {c}
    Probes = {p1}
    FirstToken = TRUE
    NoKv = NoKv
    NoCheck = NoCheck
INVARIANTS
    OutageShows
    NoCrossTalk
PROPERTIES
    Answered
    GaugeJustified
    GaugeFollows
