SPECIFICATION LiveSpec
CONSTANTS
    NoError = NoError
    Never = Never
    Pools = {colocated}
    Controlled = {colocated}
    Gains <- GainsMC
    Target <- TargetMC
    MinReplicas = 1
    MaxReplicas = 3
    StepSize = 1
    MinDwell = 3
    ThrashWindow = 3
    Depths = {0, 1, 2}
    Dts = {1}
    Elapsed = {0, 1, 2, 3}
    StartReplicas = {1}
    Resizes = {}
    ThrashCap = 1
    Phases = 2
    Duration = 4
    Latencies = {1}
    MaxFired = 2
    NoFile = NoFile
CHECK_DEADLOCK FALSE
INVARIANT
    RecordsWritten
