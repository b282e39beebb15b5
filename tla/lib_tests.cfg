SPECIFICATION FairSpec
INVARIANT Alarm3Pends
INVARIANT ReadEndsByAlarm
INVARIANT NapLength
PROPERTY Alarm1Ends
PROPERTY Alarm2Reports
CHECK_DEADLOCK FALSE
CONSTANTS
  Sig = {"INT", "ALRM", "KILL"}
  SIGALRM = "ALRM"
  SIGKILL = "KILL"
  Sendable = {"INT"}
  TicksPerSec = 4
  MaxDepth = 2
  MaxSent = 3
  Program <- MCTests
  Main = {"alarm1", "alarm2", "alarm3", "read", "nap"}
  Catch = "catch"
  Errors = {39}
