SPECIFICATION FairSpec
CONSTANTS
    p1 = p1
    p2 = p2
    g1 = g1
    r1 = r1
    r2 = r2
    o1 = o1
    o2 = o2
    none = none
    Operators = {p1}
    Gates = {}
    RunIds = {r1}
    NoRun = none
    Outs = {o1}
    Modes = {"shadow"}
    MaxLedger = 2
PROPERTY RecordingResumes
PROPERTY TransactionsSettle
