SPECIFICATION Spec
CONSTANTS
  null = null
  Null = null
  Columns <- MCColumns
  Requests <- FactRequests
  Spelling <- MCSpelling
  Alphabet <- MCAlphabet
  CastText <- MCCastText
  JoinedText <- MCJoinedText
  FilterMalformed <- Malformed
  FilterRefused <- TreeRefused
  Compiled <- TreeToSQL
  Passes <- PassesWhere
  UnpagedAnswer <- SingleAnswer
  MaxDepth = 1
  MaxCriteria = 4
  MaxInValues = 2
  MaxPatternLength = 12
  MaxSafe = 8
  MaxAggregates = 2
  MaxGroupBy = 2
  MaxLimit = 4
  MaxOffset = 3
INVARIANT DefaultPagesAreDisjoint
CHECK_DEADLOCK FALSE
