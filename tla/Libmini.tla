------------------------------ MODULE Libmini ------------------------------
(***************************************************************************)
(* The signal side of project3's C library: the wrappers of libmini.c, the *)
(* assembly of libmini64.asm, and a client that calls them.                *)
(*                                                                         *)
(* A library call is the step into the kernel (its effect, the raw result  *)
(* in cpu.sys) and the step back through the wrapper, since a signal can   *)
(* come between them.  The client is Program: at each place the calls it   *)
(* may make, a record each (the fields a call does not use are idle).      *)
(***************************************************************************)
EXTENDS Signals

CONSTANTS
  Program,   \* Program[p]: the calls the code at p may make
  Main,      \* where the programs begin
  Catch,     \* where every handler function begins
  Errors     \* the error numbers the other wrapped calls may fail with

VARIABLES
  errno,
  jb,        \* the jmp_buf: place, stack depth and mask; live while its frame is
  seen,      \* the set sigpending wrote last
  said,      \* the message perror printed last: an index, Unknown or Nothing
  asked,     \* history: the mask the program has asked for, or jumped to, outside handlers
  slept      \* history: ticks spent in a sleep and in the ones that resume it

kernelVars == <<blocked, pending, action, timer, sent, cpu, frames>>
libVars == <<errno, jb, seen, said, asked, slept>>
vars == <<kernelVars, libVars>>

Unknown == -1
Nothing == -2
PERRMSG_MAX == 34
LastValue == -1    \* a call's argument: what the call before returned

Place == DOMAIN Program
Cpu == [at : Place,
        pc : {"user", "wrap", "jump", "pause", "sleep", "slept", "read", "dead"},
        sys : Int, val : Int, left : Nat]

TypeOK ==
  /\ {blocked, pending, seen, asked} \subseteq SUBSET Sig
  /\ action \in [Sig -> [handler : Handler, flags : SUBSET Flag, mask : SUBSET Sig]]
  /\ timer \in Nat /\ sent \in 0..MaxSent
  /\ cpu \in Cpu
  /\ frames \in Seq([sig : Sig, cpu : Cpu, mask : SUBSET Sig])
  /\ errno \in Nat /\ said \in Nat \cup {Unknown, Nothing} /\ slept \in Nat
  /\ jb \in [live : BOOLEAN, at : Place, depth : Nat, mask : SUBSET Sig, held : SUBSET Sig]

\* The client: what it hands to a call is what C lets it hand over.
CallRecord ==
  [op : STRING, next : Place, on : {"any", "zero", "more"}, n : Int, sig : Sig,
   handler : Handler \cup {"query"}, how : STRING, set : SUBSET Sig, flags : SUBSET Flag]
ASSUME ProgramAssumption ==
  /\ \A p \in Place : Program[p] \subseteq CallRecord
  /\ \A p \in Place : \A c \in Program[p] :
       (c.op = "signal" => c.handler \in Handler) /\ (c.op = "alarm" => c.n \in Nat)
  /\ Main \subseteq Place /\ Catch \in Place
  /\ Errors \subseteq Nat

\* The jmp_buf of jmp1.c is static, so its mask is empty before setjmp.
Init ==
  /\ blocked = {} /\ pending = {} /\ timer = 0 /\ sent = 0
  /\ action = [s \in Sig |-> DefaultAction]
  /\ \E p \in Main : /\ cpu = [at |-> p, pc |-> "user", sys |-> 0, val |-> 0, left |-> 0]
                     /\ jb = [live |-> FALSE, at |-> p, depth |-> 0, mask |-> {}, held |-> {}]
  /\ frames = <<>>
  /\ errno = 0 /\ seen = {} /\ said = Nothing
  /\ asked = {} /\ slept = 0

----------------------------------------------------------------------------
(* sigset_t, and what the calls compute.                                   *)

sigemptyset == {}
sigfillset == Sig
sigaddset(set, s) == set \cup {s}
sigdelset(set, s) == set \ {s}

\* Variant: the values of SIG_BLOCK and SIG_UNBLOCK exchanged.
NewMaskSwapped(how, set) ==
  CASE how = "SIG_BLOCK" -> blocked \ set
    [] how = "SIG_UNBLOCK" -> blocked \cup set
    [] OTHER -> set
NewMask(how, set) ==
  CASE how = "SIG_BLOCK" -> blocked \cup set
    [] how = "SIG_UNBLOCK" -> blocked \ set
    [] OTHER -> set

\* What alarm returns: the seconds left, rounded, and never 0 for a set timer.
SecondsLeft ==
  IF timer = 0 THEN 0
  ELSE LET rounded == (2 * timer + TicksPerSec) \div (2 * TicksPerSec)
       IN IF rounded = 0 THEN 1 ELSE rounded

\* The timer alarm sets; variant: the seconds do not reach the kernel.
NoAlarmTicks(n) == 0
AlarmTicks(n) == n * TicksPerSec

\* errno after a call; variant: the sign is kept.
ErrnoNegative(sys) == IF sys < 0 THEN sys ELSE 0
ErrnoOf(sys) == IF sys < 0 THEN -sys ELSE 0

\* The flags signal asks for.  Variants: the two cases exchanged; sa_flags not
\* set to 0 first.
SignalFlagsSwapped(s) == IF s = SIGALRM THEN {"restart"} ELSE {"interrupt"}
SignalFlagsUnset(s) == {"nodefer", IF s = SIGALRM THEN "interrupt" ELSE "restart"}
SignalFlags(s) == IF s = SIGALRM THEN {"interrupt"} ELSE {"restart"}

\* What sigaction adds; variant: nothing.
NoRestorer(flags) == flags
WithRestorer(flags) == flags \cup {"restorer"}

\* What sleep returns; variant: from req instead of rem, with n the seconds asked.
SleepReq(sys, left, n) == IF sys = -EINTR THEN n ELSE 0
SleepRem(sys, left, n) == IF sys = -EINTR THEN left \div TicksPerSec ELSE 0

----------------------------------------------------------------------------
(* Into the kernel.                                                        *)

\* The process is at c, in its own code.
At(c) ==
  /\ cpu.pc = "user" /\ c \in Program[cpu.at]
  /\ c.on = "any" \/ (c.on = "zero" /\ cpu.val = 0) \/ (c.on = "more" /\ cpu.val # 0)

Arg(c) == IF c.n = LastValue THEN cpu.val ELSE c.n
Enter(c, pc, sys) == cpu' = [cpu EXCEPT !.at = c.next, !.pc = pc, !.sys = sys]
Back(c, sys) == Enter(c, "wrap", sys)

Alarm(c) ==
  /\ At(c) /\ c.op = "alarm"
  /\ timer' = AlarmTicks(c.n)
  /\ Back(c, SecondsLeft)
  /\ UNCHANGED <<blocked, pending, action, sent, frames, libVars>>

Sigprocmask(c) ==
  /\ At(c) /\ c.op = "sigprocmask"
  /\ \/ /\ c.how \in {"SIG_BLOCK", "SIG_UNBLOCK", "SIG_SETMASK"}
        /\ blocked' = NewMask(c.how, c.set) \ {SIGKILL}
        /\ asked' = IF frames = <<>> THEN blocked' ELSE asked
        /\ Back(c, 0)
     \/ /\ c.how = "other"
        /\ Back(c, -EINVAL)
        /\ UNCHANGED <<blocked, asked>>
  /\ UNCHANGED <<pending, action, timer, sent, frames, errno, jb, seen, said, slept>>

Sigpending(c) ==
  /\ At(c) /\ c.op = "sigpending"
  /\ seen' = pending \cap blocked
  /\ Back(c, 0)
  /\ UNCHANGED <<blocked, pending, action, timer, sent, frames, errno, jb, said, asked, slept>>

\* The rt_sigaction of signal and sigaction: a pending signal that is ignored from
\* now on is discarded.
SetAction(c, flags, mask) ==
  \/ /\ c.sig # SIGKILL
     /\ action' = [action EXCEPT ![c.sig] =
                     [handler |-> c.handler, flags |-> WithRestorer(flags),
                      mask |-> mask \ {SIGKILL}]]
     /\ pending' = IF c.handler = "ign" THEN pending \ {c.sig} ELSE pending
     /\ Back(c, 0)
  \/ /\ c.sig = SIGKILL
     /\ Back(c, -EINVAL)
     /\ UNCHANGED <<action, pending>>

Signal(c) ==
  /\ At(c) /\ c.op = "signal"
  /\ SetAction(c, SignalFlags(c.sig), {})
  /\ UNCHANGED <<blocked, timer, sent, frames, libVars>>

\* With a null act, to ask for the old action only, the write to act->sa_flags
\* kills the process.
Sigaction(c) ==
  /\ At(c) /\ c.op = "sigaction"
  /\ \/ c.handler # "query" /\ SetAction(c, c.flags, c.set)
     \/ c.handler = "query" /\ Die /\ UNCHANGED <<action, pending>>
  /\ UNCHANGED <<blocked, timer, sent, frames, libVars>>

\* The other wrapped calls, which come back at once or, like read, may wait.
Other(c) ==
  /\ At(c) /\ c.op = "other"
  /\ \E e \in {0} \cup Errors : Back(c, -e)
  /\ UNCHANGED <<blocked, pending, action, timer, sent, frames, libVars>>

WaitFor(c) ==
  /\ At(c) /\ c.op \in {"pause", "read"}
  /\ Enter(c, c.op, 0)
  /\ UNCHANGED <<blocked, pending, action, timer, sent, frames, libVars>>

Sleep(c) ==
  /\ At(c) /\ c.op = "sleep" /\ Arg(c) >= 0
  /\ cpu' = [cpu EXCEPT !.at = c.next, !.pc = "sleep", !.val = Arg(c),
                        !.left = Arg(c) * TicksPerSec]
  /\ slept' = IF c.n = LastValue THEN slept ELSE 0
  /\ UNCHANGED <<blocked, pending, action, timer, sent, frames, errno, jb, seen, said, asked>>

----------------------------------------------------------------------------
(* Back from the kernel.                                                   *)

\* WRAPPER_RETval and WRAPPER_RETptr, and the end of open.
Wrapper ==
  /\ cpu.pc = "wrap"
  /\ errno' = ErrnoOf(cpu.sys)
  /\ cpu' = [cpu EXCEPT !.pc = "user", !.sys = 0,
                        !.val = IF cpu.sys < 0 THEN -1 ELSE cpu.sys]
  /\ UNCHANGED <<blocked, pending, action, timer, sent, frames, jb, seen, said, asked, slept>>

\* nanosleep has run its time.
Wake ==
  /\ cpu.pc = "sleep" /\ cpu.left = 0
  /\ cpu' = [cpu EXCEPT !.pc = "slept", !.sys = 0]
  /\ UNCHANGED <<blocked, pending, action, timer, sent, frames, libVars>>

\* The end of sleep, which leaves errno alone.
SleepEnd ==
  /\ cpu.pc = "slept"
  /\ cpu' = [cpu EXCEPT !.pc = "user", !.val = SleepRem(cpu.sys, cpu.left, cpu.val),
                        !.sys = 0, !.left = 0]
  /\ UNCHANGED <<blocked, pending, action, timer, sent, frames, libVars>>

\* There is input for read.
Input ==
  /\ cpu.pc = "read"
  /\ cpu' = [cpu EXCEPT !.pc = "wrap", !.sys = 1]
  /\ UNCHANGED <<blocked, pending, action, timer, sent, frames, libVars>>

----------------------------------------------------------------------------
(* setjmp, longjmp, the end of a handler, perror.                          *)

\* rdi is 0 when the address of the mask is computed from it: rt_sigprocmask
\* fails with EFAULT, and the mask of the jmp_buf stays what it was.
Setjmp(c) ==
  /\ At(c) /\ c.op = "setjmp"
  /\ jb' = [live |-> TRUE, at |-> c.next, depth |-> Len(frames), mask |-> jb.mask,
            held |-> blocked]
  /\ cpu' = [cpu EXCEPT !.at = c.next, !.val = 0]
  /\ UNCHANGED <<blocked, pending, action, timer, sent, frames, errno, seen, said, asked, slept>>

\* The registers, and with rsp the frames above; a client only jumps to a function
\* that has not returned.
Longjmp(c) ==
  /\ At(c) /\ c.op = "longjmp" /\ jb.live
  /\ frames' = SubSeq(frames, 1, jb.depth)
  /\ cpu' = [cpu EXCEPT !.at = jb.at, !.pc = "jump", !.val = c.n]
  /\ UNCHANGED <<blocked, pending, action, timer, sent, libVars>>

\* SIG_SETMASK with the mask of the jmp_buf, and the jump.
LongjmpMask ==
  /\ cpu.pc = "jump"
  /\ blocked' = jb.mask \ {SIGKILL}
  /\ asked' = IF frames = <<>> THEN blocked' ELSE asked
  /\ cpu' = [cpu EXCEPT !.pc = "user"]
  /\ UNCHANGED <<pending, action, timer, sent, frames, errno, jb, seen, said, slept>>

\* The handler returns to __myrt, which calls rt_sigreturn; variant: it returns to
\* the interrupted code directly.
PlainReturn ==
  /\ cpu' = Last(frames).cpu /\ frames' = Front(frames)
  /\ UNCHANGED blocked
Myrt == SigReturn

HandlerReturn(c) ==
  /\ At(c) /\ c.op = "return" /\ frames # <<>>
  /\ Myrt
  /\ jb' = [jb EXCEPT !.live = @ /\ jb.depth < Len(frames)]
  /\ UNCHANGED <<pending, action, timer, sent, errno, seen, said, asked, slept>>

\* perror with a prefix (c.n = 1) or none.  errno is saved, but after the writes of
\* the prefix it is errno itself that is compared with the bounds of the table.
Perror(c) ==
  /\ At(c) /\ c.op = "perror"
  /\ \E write \in {0, EBADF} :
       LET now == IF c.n = 1 THEN write ELSE errno IN
       /\ said' = IF now > PERRMSG_MAX THEN Unknown ELSE errno
       /\ errno' = write
  /\ cpu' = [cpu EXCEPT !.at = c.next]
  /\ UNCHANGED <<blocked, pending, action, timer, sent, frames, jb, seen, asked, slept>>

Exit(c) ==
  /\ At(c) /\ c.op = "exit"
  /\ Enter(c, "dead", 0)
  /\ UNCHANGED <<blocked, pending, action, timer, sent, frames, libVars>>

----------------------------------------------------------------------------
Call(c) ==
  \/ Alarm(c) \/ Sigprocmask(c) \/ Sigpending(c) \/ Signal(c) \/ Sigaction(c)
  \/ Other(c) \/ WaitFor(c) \/ Sleep(c)
  \/ Setjmp(c) \/ Longjmp(c) \/ HandlerReturn(c) \/ Perror(c) \/ Exit(c)

Run == (\E c \in Program[cpu.at] : Call(c)) \/ Wrapper \/ Wake \/ SleepEnd \/ LongjmpMask

Deliveries == (\E s \in Sig : Deliver(s, Catch)) /\ UNCHANGED libVars

Time == Tick /\ slept' = (IF Sleeping THEN slept + 1 ELSE slept)
             /\ UNCHANGED <<errno, jb, seen, said, asked>>

Outside == (\E s \in Sendable : Send(s)) /\ UNCHANGED libVars

\* The process has ended.
Ended == ~Alive /\ UNCHANGED vars

Next == Run \/ Input \/ Deliveries \/ Time \/ Outside \/ Ended

Spec == Init /\ [][Next]_vars

\* The scheduler runs the process, the kernel delivers, time passes; nobody is
\* obliged to send a signal or to type.
FairSpec == Spec /\ WF_vars(Run) /\ WF_vars(Deliveries) /\ WF_vars(Time)
=============================================================================
