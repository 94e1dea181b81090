SPECIFICATION AnySpec
CONSTANTS
  Parts = {"promotion"}
  NoRun = NoRun
  Decisions = {"d1", "d2"}
  Packets = {"k1"}
  Options = {"o1"}
  Scenarios = {"s1"}
  Areas = {"a1"}
  Runs = {"r1"}
  GateKinds <- GatesThatProceed
  Reports = {"none", "hard-rule-violation"}
  MinPairs = 1
  MinScenarios = 1
  MinAreas = 1
  Tolerance = 1
  MaxClock = 3
  MaxEvents = 6
  Procs = {"p1"}
  Sessions = {"r1"}
  Thresholds = {"t1"}
  Verdicts <- ProceedsAndHook
  Reportable = {"privacy-violation"}
  Actions <- AnyAction
  MinConservative = 1
  MinBalanced = 2
  MaxMismatches = 2
  MaxLines = 5
PROPERTY PromotionRestsOnLedger
CHECK_DEADLOCK FALSE
