SPECIFICATION FairSpec
CONSTANTS
    NoError = NoError
    Never = Never
    Pools = {prefill, tier}
    Controlled = {prefill}
    Gains <- GainsMC
    Target <- TargetMC
    MinReplicas = 1
    MaxReplicas = 4
    StepSize = 2
    MinDwell = 2
    ThrashWindow = 2
    Depths = {0, 1, 2}
    Dts = {1}
    Elapsed = {1, 2}
    StartReplicas = {2}
    Resizes = {0, 7}
    ThrashCap = 1
INVARIANTS
    DwellSilencesThrash
    FlipClockExact
PROPERTIES
    KeepsContract
    ScalesUp
    ScalesDown
