------------------------- MODULE LibminiProperties -------------------------
(***************************************************************************)
(* What the signal functions of project3 promise a program, and what its   *)
(* README says of them.                                                    *)
(***************************************************************************)
EXTENDS Libmini

\* While a handler runs, its own signal waits: no handler is entered a second time
\* before it returned or jumped out, unless the program unblocks the signal itself
\* (sa_flags, libmini.c:208-213; the frame and its mask, libmini64.asm:60-64).
NoReentry ==
  \A j, k \in DOMAIN frames : frames[j].sig = frames[k].sig => j = k

\* Clients of that kind: what handlers run is all in the places H, and is neither a
\* setjmp nor an unblocking; no sigaction asks for SA_NODEFER.
Handlers(H) ==
  /\ Catch \in H
  /\ \A p \in H : \A c \in Program[p] : c.next \in H /\ c.op # "setjmp"

BlocksOnly(P) ==
  \A p \in P : \A c \in Program[p] : c.op = "sigprocmask" => c.how \in {"SIG_BLOCK", "other"}

Defers(H) ==
  /\ Handlers(H) /\ BlocksOnly(H)
  /\ \A p \in Place : \A c \in Program[p] : c.op = "sigaction" => "nodefer" \notin c.flags

\* Outside handlers the signal mask is the one the program has asked for last, or
\* taken from a jmp_buf, however many handlers interrupted it, returned to __myrt,
\* or jumped out.
MaskKept == Alive /\ frames = <<>> /\ cpu.pc # "jump" => blocked = asked

\* README: longjmp brings back the mask that setjmp saved (libmini64.asm:76-91).
JumpRestoresMask == [][LongjmpMask => blocked' = jb.held]_vars

\* A signal with a handler never ends the process: rt_sigaction got a restorer
\* (libmini.c:219-220), so the kernel can build the frame.
HandledSurvives ==
  [][\A s \in Sig : Deliver(s, Catch) /\ action[s].handler = "fn" => Alive']_vars

\* A read under an alarm fails with EINTR only when the alarm has gone off: other
\* signals caught with signal do not end it (libmini.c:209-213).
ReadEndsByAlarm ==
  cpu.at = "readback" /\ cpu.pc = "user" /\ cpu.val = -1 => timer = 0

\* Clients that set one alarm: once it is set the code is in A, where none is set and
\* every jump leads.
OneAlarm(H, A) ==
  /\ Handlers(H) /\ H \subseteq A /\ SIGALRM \notin Sendable
  /\ \A p \in A : \A c \in Program[p] : c.next \in A /\ c.op # "alarm"
  /\ \A p \in Place : \A c \in Program[p] : c.op \in {"alarm", "setjmp"} => c.next \in A

\* Of these, the ones that read outside handlers, after which they are at readback,
\* and catch other signals with signal, or with SA_RESTART.
TimedRead(H, A) ==
  /\ OneAlarm(H, A) /\ "readback" \notin H \cup Main
  /\ \A p \in Place : \A c \in Program[p] :
       /\ c.next = "readback" => c.op \in {"read", "exit"}
       /\ c.op = "sigaction" => c.sig = SIGALRM \/ "restart" \in c.flags

\* Sleeping on with what sleep returned never takes longer than the three seconds
\* first asked for, and is short of them by less than a second for each signal
\* (libmini64.asm:159-161).
NapLength ==
  cpu.at = "napped" =>
    /\ slept <= 3 * TicksPerSec
    /\ slept + sent * (TicksPerSec - 1) >= 3 * TicksPerSec

\* Clients whose handlers do not sleep, and that, before any alarm, sleep three seconds,
\* and again for what sleep returned until that is 0, and end.
Naps(H, A) ==
  /\ OneAlarm(H, A) /\ {"napagain", "napped"} \cap (A \cup Main) = {}
  /\ \A p \in H : \A c \in Program[p] : c.op # "sleep"
  /\ \A p \in Place : \A c \in Program[p] :
       /\ c.next = "napagain" => c.op = "sleep" /\ c.n = IF p = "napagain" THEN LastValue ELSE 3
       /\ c.next = "napped" => c.op = "exit" /\ (p = "napped" \/ (p = "napagain" /\ c.on = "zero"))

----------------------------------------------------------------------------
(* The test programs, when nobody types ^C before they are through.        *)

\* README: alarm1 is ended by its alarm, and does not come back from pause.
Alarm1Ends ==
  cpu.at = "alarm1" ~> sent > 0 \/ (~Alive /\ timer = 0 /\ cpu.at # "returned")

\* README: alarm2 finds SIGALRM pending.
Alarm2Reports ==
  cpu.at = "alarm2" ~> sent > 0 \/ (cpu.at = "alarm2end" /\ SIGALRM \in seen)

\* README: in alarm3 a ^C typed after the second finds SIGALRM pending, which is
\* blocked and ignored by then.
Alarm3Pends ==
  cpu.at \in {"alarm3pause", "alarm3look"} /\ timer = 0 => SIGALRM \in pending

\* Clients that are in B only with SIGALRM blocked, and are where it is looked for from an
\* alarm on; neither there nor in handlers an alarm is cancelled or SIGALRM ignored.
Looks == {"alarm3pause", "alarm3look"}
Watches(H, B) ==
  /\ Handlers(H) /\ BlocksOnly(H \cup B)
  /\ Looks \subseteq B \ H /\ B \cap Main = {}
  /\ \A p \in Place : \A c \in Program[p] :
       /\ c.next \in B => c.op # "setjmp"
       /\ c.next \in B /\ p \notin B =>
            c.op = "sigprocmask" /\ c.how \in {"SIG_BLOCK", "SIG_SETMASK"} /\ SIGALRM \in c.set
       /\ c.next \in Looks /\ p \notin Looks => c.op = "alarm"
       /\ c.next \in Looks \cup H /\ c.op = "alarm" => c.n > 0
       /\ c.next \in Looks \cup H /\ c.op \in {"signal", "sigaction"} /\ c.sig = SIGALRM =>
            c.handler # "ign"
=============================================================================
