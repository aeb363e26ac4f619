SPECIFICATION Spec
CONSTANTS
    k1 = k1
    k2 = k2
    r1 = r1
    r2 = r2
    Fake = Fake
    Absent = Absent
    Torn = Torn
    Written = Written
    Jobs <- JobsMoved
    Configs <- ConfigsMC
    Extra = {0, 1}
    Overheads = {10, 40}
    BlockSize = 2
    DecodeLive = 1
    Injected = 2
    FakeOverhead = 10
    Tolerance = 15
    MinR2 = 98
INVARIANT
    RevisionIsExact
