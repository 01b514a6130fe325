SPECIFICATION FeedSpec
CONSTANTS
  MaxRuns = 2
  First = 1
  KindOf <- MCKindOf
  JobOf <- MCJobOf
  Terms = {"web"}
  Outcomes = {"failed"}
  NoTerm = "none"
  PageSize = 1
  RecentSize = 1
  MaxPolls = 1
  MaxActs = 1
  MaxLosses = 1
INVARIANTS
  FeedRight
PROPERTIES
  CancelHolds
  EndedShown
