SPECIFICATION ReplSpec
CONSTANTS
  Follower = {f1}
  PageEvents = 2
  MaxEvents = 2
  MaxBreaks = 0
  MaxCrashes = 0
  MaxRestarts = 1
  MaxCleans = 0
PROPERTY CatchesUp
CHECK_DEADLOCK FALSE
