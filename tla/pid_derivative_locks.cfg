SPECIFICATION Spec
CONSTANTS
    NoError = NoError
    Gains <- DerivativeMC
    Errors <- FewErrorsMC
    ErrorBound = 4
    Steps <- FewStepsMC
INVARIANT
    NeverLocked
