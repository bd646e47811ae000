SPECIFICATION NetSpec
CONSTANTS
  Url <- SmallUrls
  MaxRequests = 3
  None = None
INVARIANTS
  AnswersMatch
  CallsClean
PROPERTIES
  LateTimerIgnored
  DeadlineEndsCall
