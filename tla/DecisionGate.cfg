SPECIFICATION AnySpec
CONSTANTS
  Parts = {"controls", "rules", "gate"}
  NumPaths = 4
  Ids = {"a", "b", "c", "d"}
  Situations <- Asked
  Similar <- Alike
  Texts <- Names
  Norm <- Exactly
  Within <- Contained
  Order <- Alphabet
  Types = {"t"}
  Scopes = {"s"}
  MaxRules = 3
  MaxUnavailable = 1
  NoteShapes <- AllShapes
  Requests <- AllRequests
  AskTexts = {}
  Thresholds = {8200, 9000}
INVARIANT ControlsFailClosed
INVARIANT StagedQueryAgrees
INVARIANT ShadowPredictsEnforcement
INVARIANT CautionIsMonotonic
INVARIANT ProceedsOnLearnedOption
CHECK_DEADLOCK FALSE
