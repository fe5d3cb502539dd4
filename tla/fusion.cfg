SPECIFICATION FairSpec
CONSTANTS
  N = 3
  ChainLength = 3
  MinPanel = 2
  Budget = 5
  MaxTries = 2
INVARIANTS TypeOK StragglersAborted AnswerNotLost JudgeHasShare
PROPERTIES FusionAnswered
CHECK_DEADLOCK FALSE
