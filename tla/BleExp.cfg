SPECIFICATION ExpFairSpec
CONSTANTS
  IdleTime = 3
  PhaseTime = 1
  ProbeTimes = {0, 2}
  GoneTime = 1
PROPERTIES QuietIsEarned ScheduleGoesOn
