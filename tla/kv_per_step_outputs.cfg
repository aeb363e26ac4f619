SPECIFICATION Spec
CONSTANTS
    Requests = {r1, r2}
    PromptLen = 4
    DecodeTokens = 4
    BlockSize = 2
    EosAfter = 1
    Setups <- PerStepMC
    Samples = 2
    Chunks = 1
    StepSlack = 2
    SlotSlack = 1
    NoReading = NoReading
INVARIANT
    ReadsWholeBatch
CHECK_DEADLOCK FALSE
