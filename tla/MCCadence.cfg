SPECIFICATION Spec
CONSTANTS
  None = None
  Times <- MCTimes
  Overrides <- MCOverrides
  FirstDay = 3
  LastDay = 7
  ChatQuiet = 1
  ReplyIdle = 1
  MaxTouches = 3
  Lag = 1
  FollowupAfter = 1
  FollowupExpires = 1
  ParkAfter = 2
  MaxCold = 2
  ThankExpires = 2
  AdvocateDays = 3
  ChattedDays = 3
  PromisedDays = 2
  RepingDays = 2
INVARIANTS NoDeadEnd FollowUpFirst DaysCounted
PROPERTIES AnswerClears
CHECK_DEADLOCK FALSE
