------------------------------ MODULE Debuggee ------------------------------
(***************************************************************************)
(* What a user of the debugger is promised about the program: it behaves   *)
(* as if nobody had patched it.  Control follows the instructions of the   *)
(* image, `si' takes at most one of them, `cont' any number, and the only  *)
(* other way for the instruction pointer to move is `set rip' at the       *)
(* prompt.  There are no break points here: they may only make the program *)
(* halt early.                                                             *)
(***************************************************************************)
EXTENDS Integers

CONSTANTS File, Addr, Done, Succ, Entry, RipInput

VARIABLES
  alive,   \* the program is there
  prog,    \* the file it was started from
  ip,      \* the instruction it is about to execute, Done when not alive
  phase,   \* "prompt", "go" while a command resumes it, "over"
  budget   \* the instructions it may still take: "none", "one" or "many"

dvars == <<alive, prog, ip, phase, budget>>

DInit == ~alive /\ ip = Done /\ phase = "prompt" /\ budget = "none"

\* start and run: the program is at its entry point.
Launch ==
  /\ ~alive /\ alive'
  /\ prog \in File /\ prog' = prog
  /\ ip' = Entry[prog]
  /\ phase = "prompt" /\ UNCHANGED <<phase, budget>>

\* The user names the file the next process will run.
Choose == ~alive /\ prog' \in File /\ UNCHANGED <<alive, ip, phase, budget>>

\* si and cont.
GoOn ==
  /\ alive /\ phase = "prompt" /\ phase' = "go" /\ budget' \in {"one", "many"}
  /\ UNCHANGED <<alive, prog, ip>>

\* One instruction of the image.
Take ==
  /\ alive /\ phase = "go" /\ budget # "none"
  /\ ip' \in Succ[prog][ip] \ {Done}
  /\ budget' \in (IF budget = "one" THEN {"none"} ELSE {"none", "many"})
  /\ UNCHANGED <<alive, prog, phase>>

\* A break point or a signal.
Halt ==
  /\ alive /\ phase = "go" /\ budget' = "none"
  /\ UNCHANGED <<alive, prog, ip, phase>>

\* Back to the prompt, once the program has halted or is gone.
Yield ==
  /\ phase = "go" /\ budget = "none" /\ phase' = "prompt"
  /\ UNCHANGED <<alive, prog, ip, budget>>

\* set rip.
Redirect ==
  /\ alive /\ phase = "prompt" /\ ip' \in RipInput
  /\ UNCHANGED <<alive, prog, phase, budget>>

\* The program ends, by itself or killed; the user may have left.
Finish ==
  /\ alive /\ phase = "go" /\ budget # "none" /\ Done \in Succ[prog][ip]
  /\ ~alive' /\ ip' = Done /\ budget' = "none"
  /\ UNCHANGED <<prog, phase>>
Die ==
  /\ alive /\ ~alive' /\ ip' = Done /\ budget' = "none"
  /\ phase' \in {phase, "over"} /\ prog' = prog
Leave == ~alive /\ phase' = "over" /\ UNCHANGED <<alive, prog, ip, budget>>

DNext ==
  \/ Launch \/ Choose \/ GoOn \/ Take \/ Halt \/ Yield
  \/ Redirect \/ Finish \/ Die \/ Leave

DSpec == DInit /\ [][DNext]_dvars
=============================================================================
