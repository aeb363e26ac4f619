SPECIFICATION Spec
CONSTANTS
    NoError = NoError
    Gains <- PositionalMC
    Errors <- ErrorsMC
    ErrorBound = 6
    Steps <- StepsMC
INVARIANT
    NeverLocked
PROPERTY
    RecoversAtOnce
