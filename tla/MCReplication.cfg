SPECIFICATION ReplSpec
CONSTANTS
  Follower = {f1}
  PageEvents = 2
  MaxEvents = 3
  MaxBreaks = 1
  MaxCrashes = 1
  MaxRestarts = 1
  MaxCleans = 1
INVARIANTS ReplTypeOK MirrorIsPrefix AppliedRecoverable CleanedWasStreamed CleaningInv
PROPERTY ShippedWithoutRestart
CHECK_DEADLOCK FALSE
