SPECIFICATION Spec
CONSTANTS
    r1 = r1
    r2 = r2
    r3 = r3
    none = none
    RunIds = {r1, r2, r3}
    NoRun = none
    MaxLedger = 5
SYMMETRY MCSymmetry
INVARIANT TypeOK
INVARIANT OnlyNewestActive
INVARIANT ActiveRunOwnsSuffix
INVARIANT EvidenceSealsRun
CHECK_DEADLOCK FALSE
