SPECIFICATION Spec
INVARIANT TypeOK
INVARIANT NoReentry
INVARIANT MaskKept
PROPERTY HandledSurvives
CHECK_DEADLOCK FALSE
CONSTANTS
  Sig = {"INT", "ALRM", "KILL"}
  SIGALRM = "ALRM"
  SIGKILL = "KILL"
  Sendable = {"INT", "KILL"}
  TicksPerSec = 1
  MaxDepth = 2
  MaxSent = 1
  Program <- MCCalls
  Main = {"mask", "jump", "answers"}
  Catch = "catch"
  Errors = {39}
