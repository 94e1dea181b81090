SPECIFICATION AnySpec
CONSTANTS
  Parts = {"install"}
  Procs = {"x1", "x2"}
  Writers = {"w1"}
  Events = {"e1"}
  Dirs = {"g1", "g2", "g3", "g4"}
  Exports <- OneExport
  Old = "first"
  None = None
  Installers = {"i1", "i2"}
  Builds <- AnyBuild
  Candidate <- CandidateOf
  Pairs <- InstalledPairs
  MaxChanges = 2
  MaxCrashes = 2
  MaxErrors = 2
  Nothing = Nothing
  Processes = {"i1", "i2"}
  Execs = {"E1", "E2"}
  Vaults = {"V1", "V2"}
  Found <- BeforeHarness
  MaxRuns = 2
  MaxEdits = 1
  MaxKills = 1
  Plain = "plain"
  Nil = Nil
INVARIANT ShadowedMeansShadowed
CHECK_DEADLOCK FALSE
