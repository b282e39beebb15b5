------------------------------ MODULE Signals ------------------------------
(***************************************************************************)
(* The kernel's side of project3: the signals of one process, its alarm    *)
(* timer, and what a delivery does to the system call it interrupts.  The  *)
(* kernel is not code of the repository; it is modelled as libmini.c and   *)
(* libmini64.asm call it.                                                  *)
(*                                                                         *)
(* cpu is what a signal frame saves and rt_sigreturn restores:             *)
(*   at    the place in the program                                        *)
(*   pc    what the process is doing there                                 *)
(*   sys   what the last system call returned, an error number negated     *)
(*   val   what the last library call returned                             *)
(*   left  the ticks left of a sleep                                       *)
(***************************************************************************)
EXTENDS Integers, Sequences, SequencesExt

CONSTANTS
  Sig,          \* the signals
  SIGALRM, SIGKILL,
  Sendable,     \* the signals that come from outside: ^C, kill(2)
  TicksPerSec,  \* the grain of time
  MaxDepth,     \* bound: signal frames on the stack
  MaxSent       \* bound: signals sent from outside

ASSUME SignalAssumption ==
  /\ {SIGALRM, SIGKILL} \cup Sendable \subseteq Sig /\ SIGALRM # SIGKILL
  /\ TicksPerSec \in Nat \ {0} /\ MaxDepth \in Nat /\ MaxSent \in Nat

VARIABLES
  blocked,   \* the signal mask
  pending,   \* the signals that wait
  action,    \* action[s]: handler ("dfl", "ign", "fn"), flags and mask of s
  timer,     \* ticks until SIGALRM, 0 when no alarm is set
  sent,      \* signals sent from outside so far
  cpu,
  frames     \* the signal frames: the signal, the cpu and the mask it interrupted

EINTR == 4
EBADF == 9
EINVAL == 22

Flag == {"restart", "interrupt", "nodefer", "restorer"}
Handler == {"dfl", "ign", "fn"}
DefaultAction == [handler |-> "dfl", flags |-> {}, mask |-> {}]

Alive == cpu.pc # "dead"
Die == cpu' = [cpu EXCEPT !.pc = "dead"]

\* A signal that is ignored and not blocked leaves nothing behind.
Post(s) ==
  IF action[s].handler = "ign" /\ s \notin blocked THEN pending ELSE pending \cup {s}

----------------------------------------------------------------------------
(* Time and the outside world.                                             *)

Sleeping == cpu.pc = "sleep" /\ cpu.left > 0

Tick ==
  /\ Alive /\ (timer > 0 \/ Sleeping)
  /\ timer' = IF timer > 0 THEN timer - 1 ELSE 0
  /\ pending' = IF timer = 1 THEN Post(SIGALRM) ELSE pending
  /\ cpu' = IF Sleeping THEN [cpu EXCEPT !.left = @ - 1] ELSE cpu
  /\ UNCHANGED <<blocked, action, sent, frames>>

\* kill(2) from another process, or ^C.
Send(s) ==
  /\ Alive /\ sent < MaxSent
  /\ sent' = sent + 1 /\ pending' = Post(s)
  /\ UNCHANGED <<blocked, action, timer, cpu, frames>>

----------------------------------------------------------------------------
(* Delivery.                                                               *)

Deliverable == {s \in pending : s \notin blocked}

\* Where the process goes on after the handler of s: pause and nanosleep never
\* go on waiting, read does when the handler was installed with SA_RESTART.
Interrupted(s) ==
  CASE cpu.pc = "pause" -> [cpu EXCEPT !.pc = "wrap", !.sys = -EINTR]
    [] cpu.pc = "sleep" -> [cpu EXCEPT !.pc = "slept", !.sys = -EINTR]
    [] cpu.pc = "read" /\ "restart" \notin action[s].flags ->
         [cpu EXCEPT !.pc = "wrap", !.sys = -EINTR]
    [] OTHER -> cpu

DeliverDefault(s) == action[s].handler = "dfl" /\ Die /\ UNCHANGED <<blocked, frames>>

DeliverIgnored(s) == action[s].handler = "ign" /\ UNCHANGED <<blocked, cpu, frames>>

\* The frame of x86-64 needs the restorer; without one the process is killed.
DeliverHandled(s, handler) ==
  /\ action[s].handler = "fn" /\ Len(frames) < MaxDepth
  /\ IF "restorer" \in action[s].flags
     THEN /\ frames' = Append(frames, [sig |-> s, cpu |-> Interrupted(s), mask |-> blocked])
          /\ blocked' = blocked \cup action[s].mask
                          \cup (IF "nodefer" \in action[s].flags THEN {} ELSE {s})
          /\ cpu' = [cpu EXCEPT !.at = handler, !.pc = "user"]
     ELSE Die /\ UNCHANGED <<blocked, frames>>

\* The default action of every signal modelled ends the process.
Deliver(s, handler) ==
  /\ Alive /\ s \in Deliverable
  /\ pending' = pending \ {s}
  /\ DeliverDefault(s) \/ DeliverIgnored(s) \/ DeliverHandled(s, handler)
  /\ UNCHANGED <<action, timer, sent>>

\* rt_sigreturn.
SigReturn ==
  /\ blocked' = Last(frames).mask
  /\ cpu' = Last(frames).cpu
  /\ frames' = Front(frames)
=============================================================================
