SPECIFICATION Spec
CONSTANTS
    p1 = p1
    p2 = p2
    g1 = g1
    r1 = r1
    r2 = r2
    o1 = o1
    o2 = o2
    none = none
    Operators = {p1, p2}
    Gates = {g1}
    RunIds = {r1, r2}
    NoRun = none
    Outs = {o1, o2}
    Modes = {"shadow", "active"}
    MaxLedger = 2
SYMMETRY MCSymmetry
INVARIANT TypeOK
INVARIANT SettledFilesAgree
INVARIANT RunConfigurationFrozen
PROPERTY RecoveryKeepsRunContext
PROPERTY Implements
