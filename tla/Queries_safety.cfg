SPECIFICATION MCSpec
CONSTANTS
  null = null
  Null = null
  Columns <- MCColumns
  Requests <- MCRequests
  Spelling <- MCSpelling
  Alphabet <- MCAlphabet
  CastText <- MCCastText
  JoinedText <- MCJoinedText
  FilterMalformed <- Malformed
  FilterRefused <- TreeRefused
  Compiled <- TreeToSQL
  Passes <- PassesWhere
  UnpagedAnswer <- SingleAnswer
  MaxDepth = 1
  MaxCriteria = 4
  MaxInValues = 2
  MaxPatternLength = 12
  MaxSafe = 8
  MaxAggregates = 2
  MaxGroupBy = 2
  MaxLimit = 4
  MaxOffset = 3
  Datasets <- ExportedData
  Sorts <- ExportedSorts
  Limits = {1, 2}
  MaxUpdates = 1
  MaxSent = 4
INVARIANT StatesAreTyped
INVARIANT FilterMeansTree
INVARIANT RefusedForAReason
INVARIANT PagesAreTheResult
INVARIANT ComparedLikeWithLike
INVARIANT MenuIsComplete
INVARIANT ExportIsWhole
PROPERTY ExportEnds
CHECK_DEADLOCK FALSE
