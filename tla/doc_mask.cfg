SPECIFICATION Spec
PROPERTY JumpRestoresMask
CHECK_DEADLOCK FALSE
CONSTANTS
  Sig = {"INT", "ALRM", "KILL"}
  SIGALRM = "ALRM"
  SIGKILL = "KILL"
  Sendable = {"INT"}
  TicksPerSec = 1
  MaxDepth = 2
  MaxSent = 2
  Program <- MCKeep
  Main = {"keep"}
  Catch = "catch"
  Errors = {39}
