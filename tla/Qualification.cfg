SPECIFICATION AnySpec
CONSTANTS
  Parts = {"host", "commands", "workers", "bundle", "swaps", "copies"}
  None = None
  Unset = Unset
  Decisions = {"d1", "d2"}
  Packets = {"p1"}
  Earlier = "d0"
  Waiting = "p0"
  MaxCalls = 8
  MaxTurns = 3
  MaxSlips = 1
  Required = {"FIA-1", "FIA-2"}
  Precheck = "PRECHECK"
  Ids = {"c1", "c2", "c3"}
  PerKind = 2
  MinWorkers = 2
  MaxCommands = 3
  MaxFaults = 3
  Assemblies <- Assembled
  Copiers = {"x1", "x2"}
  MaxWrites = 1
  MaxSwaps = 1
INVARIANT EvidenceMeansLearned
INVARIANT AcceptedCommandsRan
INVARIANT ReportMeansNothingWasLost
INVARIANT AcceptedIsOneCandidate
INVARIANT CopyIsWhatWasVerified
PROPERTY CopierRemovesItsOwn
CHECK_DEADLOCK FALSE
