--------------------------- MODULE MCLibminiTests ---------------------------
(***************************************************************************)
(* The test programs and the waiting programs are of the kinds the         *)
(* theorems about alarms, reads and sleeps ask for.                        *)
(***************************************************************************)
EXTENDS MCLibmini

\* The places after an alarm was set, and the ones where SIGALRM is blocked.
AfterAlarm ==
  {"catch", "alarm1pause", "alarm1end", "alarm2sleep", "alarm2look", "alarm2test", "alarm2end",
   "alarm3pause", "alarm3look", "alarm3end", "returned", "readwait", "readback"}
Blocking == {"alarm3ignore", "alarm3catch", "alarm3alarm", "alarm3pause", "alarm3look"}

ASSUME TestsAssumption ==
  /\ TimedRead({"catch"}, AfterAlarm) /\ Naps({"catch"}, AfterAlarm)
  /\ Watches({"catch"}, Blocking)
=============================================================================
