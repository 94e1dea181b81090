SPECIFICATION FairSpec
CONSTANTS
  p1 = p1 p2 = p2 c1 = c1 c2 = c2
  Procs = {p1, p2}
  Ids = {c1, c2}
  NoProc = NoProc
  Contents <- Written
  MaxEvents = 1
  MaxCrashes = 2
INVARIANT AnnouncedRulesAreCompiled
INVARIANT CorrectionsAreNeverLost
INVARIANT WithdrawnFeedbackIsInert
PROPERTY AppliedRulesReachTheIndex
