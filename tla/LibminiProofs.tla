--------------------------- MODULE LibminiProofs ---------------------------
(***************************************************************************)
(* What holds of every client of project3's library, whatever it calls:    *)
(* the types of the state, that a signal with a handler does not end the   *)
(* process, and that outside handlers the mask is the one the program      *)
(* asked for.  For the clients whose handlers do not unblock what they run *)
(* under: no handler is entered a second time.                             *)
(***************************************************************************)
EXTENDS LibminiProperties, SequenceTheorems, TLAPS

Frame == [sig : Sig, cpu : Cpu, mask : SUBSET Sig]

\* Every handler is installed with a restorer.
Restorers == \A s \in Sig : action[s].handler = "fn" => "restorer" \in action[s].flags

IInv == TypeOK /\ Restorers

LEMMA InitIInv == Init => IInv
  BY SignalAssumption, ProgramAssumption
     DEF Init, IInv, TypeOK, Restorers, DefaultAction, Cpu, Flag, Handler, Nothing

\* A call the program makes is one of the records C allows.
LEMMA CallTyped ==
  ASSUME TypeOK, NEW c, At(c)
  PROVE  c \in CallRecord /\ c.next \in Place
  BY ProgramAssumption DEF At, TypeOK, Cpu, CallRecord

\* Going into the kernel keeps the type of the processor state.
LEMMA EnterTyped ==
  ASSUME TypeOK, NEW c, At(c), NEW pc0 \in {"wrap", "pause", "read", "dead"}, NEW sys0 \in Int,
         Enter(c, pc0, sys0)
  PROVE  cpu' \in Cpu
<1>1. c.next \in Place /\ cpu \in Cpu
  BY CallTyped DEF TypeOK
<1>2. cpu' = [at |-> c.next, pc |-> pc0, sys |-> sys0, val |-> cpu.val, left |-> cpu.left]
  BY <1>1 DEF Enter, Cpu
<1> QED
  BY <1>1, <1>2 DEF Cpu

\* So do the handler's entry and the death of the process.
LEMMA DieTyped ==
  ASSUME TypeOK, Die
  PROVE  cpu' \in Cpu
  BY DEF Die, TypeOK, Cpu

LEMMA InterruptedTyped ==
  ASSUME TypeOK, NEW s \in Sig
  PROVE  Interrupted(s) \in Cpu
<1>1. -EINTR \in Int
  BY DEF EINTR
<1>2. ASSUME NEW pc0 \in {"wrap", "slept"}
      PROVE  [cpu EXCEPT !.pc = pc0, !.sys = -EINTR] \in Cpu
  BY <1>1 DEF TypeOK, Cpu
<1>3. \/ Interrupted(s) = cpu
      \/ \E pc0 \in {"wrap", "slept"} : Interrupted(s) = [cpu EXCEPT !.pc = pc0, !.sys = -EINTR]
  BY DEF Interrupted
<1> QED
  BY <1>2, <1>3 DEF TypeOK

LEMMA QuotientInt ==
  ASSUME NEW x \in Int, NEW d \in Nat \ {0}
  PROVE  x \div d \in Int
  OBVIOUS

LEMMA SecondsLeftInt == TypeOK => SecondsLeft \in Int
<1>1. ASSUME NEW t \in Nat PROVE (2 * t + TicksPerSec) \div (2 * TicksPerSec) \in Int
  <2>1. 2 * t + TicksPerSec \in Int /\ 2 * TicksPerSec \in Nat \ {0}
    BY SignalAssumption
  <2> QED
    BY <2>1, QuotientInt
<1> QED
  BY <1>1 DEF TypeOK, SecondsLeft

LEMMA SleepRemInt ==
  ASSUME NEW sys0 \in Int, NEW l \in Nat, NEW n \in Int
  PROVE  SleepRem(sys0, l, n) \in Int
<1>1. l \div TicksPerSec \in Int
  BY SignalAssumption, QuotientInt
<1> QED
  BY <1>1 DEF SleepRem

\* The frames of a jump, of a handler's entry and of its return.
LEMMA FramesTyped ==
  ASSUME frames \in Seq(Frame)
  PROVE  /\ \A f \in Frame : Append(frames, f) \in Seq(Frame)
         /\ \A n \in 0..Len(frames) : SubSeq(frames, 1, n) \in Seq(Frame)
         /\ frames # <<>> => Last(frames) \in Frame /\ Front(frames) \in Seq(Frame)
<1>1. \A f \in Frame : Append(frames, f) \in Seq(Frame)
  BY AppendProperties
<1>2. \A n \in 0..Len(frames) : SubSeq(frames, 1, n) \in Seq(Frame)
  BY SubSeqProperties
<1>3. ASSUME frames # <<>> PROVE Last(frames) \in Frame /\ Front(frames) \in Seq(Frame)
  <2>1. Len(frames) \in Nat \ {0}
    BY <1>3, LenProperties, EmptySeq
  <2> QED
    BY <2>1, <1>2, ElementOfSeq DEF Last, Front
<1> QED
  BY <1>1, <1>2, <1>3

----------------------------------------------------------------------------
(* One lemma for each group of steps.                                      *)

\* The calls that enter the kernel, or leave again at once.
LEMMA EntersStep ==
  ASSUME IInv, NEW c,
         Alarm(c) \/ Sigprocmask(c) \/ Sigpending(c) \/ Other(c) \/ WaitFor(c) \/ Sleep(c)
           \/ Perror(c) \/ Exit(c)
  PROVE  IInv'
<1>0. TypeOK /\ c \in CallRecord /\ At(c)
  BY CallTyped DEF IInv, Alarm, Sigprocmask, Sigpending, Other, WaitFor, Sleep, Perror, Exit
<1>1. CASE Alarm(c)
  <2>1. cpu' \in Cpu
    BY <1>0, <1>1, SecondsLeftInt, EnterTyped DEF Alarm, Back
  <2>2. timer' \in Nat
    BY <1>0, <1>1, ProgramAssumption, SignalAssumption DEF Alarm, AlarmTicks, At, TypeOK, Cpu
  <2> QED
    BY <2>1, <2>2, <1>1 DEF Alarm, IInv, TypeOK, Restorers, libVars
<1>2. CASE Sigprocmask(c)
  <2>1. cpu' \in Cpu
    BY <1>0, <1>2, EnterTyped DEF Sigprocmask, Back, EINVAL
  <2>2. blocked' \subseteq Sig /\ asked' \subseteq Sig
    BY <1>0, <1>2 DEF Sigprocmask, NewMask, TypeOK, CallRecord
  <2> QED
    BY <2>1, <2>2, <1>2 DEF Sigprocmask, IInv, TypeOK, Restorers
<1>3. CASE Sigpending(c)
  <2>1. cpu' \in Cpu
    BY <1>0, <1>3, EnterTyped DEF Sigpending, Back
  <2> QED
    BY <2>1, <1>3 DEF Sigpending, IInv, TypeOK, Restorers
<1>4. CASE Other(c)
  <2>1. PICK e \in {0} \cup Errors : Back(c, -e)
    BY <1>4 DEF Other
  <2>2. cpu' \in Cpu
    BY <1>0, <2>1, ProgramAssumption, EnterTyped DEF Back
  <2> QED
    BY <2>2, <1>4 DEF Other, IInv, TypeOK, Restorers, libVars
<1>5. CASE WaitFor(c)
  <2>1. cpu' \in Cpu
    BY <1>0, <1>5, EnterTyped DEF WaitFor
  <2> QED
    BY <2>1, <1>5 DEF WaitFor, IInv, TypeOK, Restorers, libVars
<1>6. CASE Sleep(c)
  <2>1. Arg(c) \in Nat /\ Arg(c) * TicksPerSec \in Nat
    BY <1>0, <1>6, SignalAssumption DEF Sleep, Arg, TypeOK, Cpu, CallRecord
  <2>2. cpu' \in Cpu
    <3>1. c.next \in Place /\ cpu \in Cpu
      BY <1>0, CallTyped DEF TypeOK
    <3>2. cpu' = [cpu EXCEPT !.at = c.next, !.pc = "sleep", !.val = Arg(c),
                             !.left = Arg(c) * TicksPerSec]
      BY <1>6 DEF Sleep
    <3>3. cpu' = [at |-> c.next, pc |-> "sleep", sys |-> cpu.sys, val |-> Arg(c),
                  left |-> Arg(c) * TicksPerSec]
      BY <3>1, <3>2 DEF Cpu
    <3> QED
      BY <2>1, <3>1, <3>3 DEF Cpu
  <2> QED
    BY <2>2, <1>6 DEF Sleep, IInv, TypeOK, Restorers
<1>7. CASE Perror(c)
  <2>1. cpu' \in Cpu
    BY <1>0, <1>7, CallTyped DEF Perror, TypeOK, Cpu
  <2>2. errno' \in Nat /\ said' \in Nat \cup {Unknown, Nothing}
    BY <1>0, <1>7 DEF Perror, TypeOK, EBADF
  <2> QED
    BY <2>1, <2>2, <1>7 DEF Perror, IInv, TypeOK, Restorers
<1>8. CASE Exit(c)
  <2>1. cpu' \in Cpu
    BY <1>0, <1>8, EnterTyped DEF Exit
  <2> QED
    BY <2>1, <1>8 DEF Exit, IInv, TypeOK, Restorers, libVars
<1> QED
  BY <1>1, <1>2, <1>3, <1>4, <1>5, <1>6, <1>7, <1>8

\* signal and sigaction: what rt_sigaction is given has a restorer.
LEMMA InstallStep ==
  ASSUME IInv, NEW c, Signal(c) \/ Sigaction(c)
  PROVE  IInv'
<1>0. TypeOK /\ c \in CallRecord /\ At(c)
  BY CallTyped DEF IInv, Signal, Sigaction
<1>1. ASSUME NEW fl \in SUBSET Flag, NEW ma \in SUBSET Sig, SetAction(c, fl, ma),
             c.handler \in Handler
      PROVE  /\ action' \in [Sig -> [handler : Handler, flags : SUBSET Flag, mask : SUBSET Sig]]
             /\ Restorers' /\ pending' \subseteq Sig /\ cpu' \in Cpu
  <2>1. cpu' \in Cpu
    BY <1>0, <1>1, EnterTyped DEF SetAction, Back, EINVAL
  <2>2. [handler |-> c.handler, flags |-> WithRestorer(fl), mask |-> ma \ {SIGKILL}]
          \in [handler : Handler, flags : SUBSET Flag, mask : SUBSET Sig]
    BY <1>1 DEF WithRestorer, Flag
  <2>3. action' \in [Sig -> [handler : Handler, flags : SUBSET Flag, mask : SUBSET Sig]]
    BY <1>0, <1>1, <2>2 DEF SetAction, TypeOK, CallRecord
  <2>4. Restorers'
    BY <1>0, <1>1 DEF SetAction, Restorers, IInv, TypeOK, CallRecord, WithRestorer
  <2>5. pending' \subseteq Sig
    BY <1>0, <1>1 DEF SetAction, TypeOK
  <2> QED
    BY <2>1, <2>3, <2>4, <2>5
<1>2. CASE Signal(c)
  <2>1. SignalFlags(c.sig) \subseteq Flag /\ c.handler \in Handler
    BY <1>0, <1>2, ProgramAssumption DEF SignalFlags, Flag, Signal, At, TypeOK, Cpu
  <2>2. /\ action' \in [Sig -> [handler : Handler, flags : SUBSET Flag, mask : SUBSET Sig]]
        /\ Restorers' /\ pending' \subseteq Sig /\ cpu' \in Cpu
    <3>1. SetAction(c, SignalFlags(c.sig), {})
      BY <1>2 DEF Signal
    <3>2. SignalFlags(c.sig) \in SUBSET Flag /\ {} \in SUBSET Sig /\ c.handler \in Handler
      BY <2>1
    <3> HIDE DEF Restorers, SetAction
    <3> QED
      BY <3>1, <3>2, <1>1, Zenon
  <2> QED
    BY <2>2, <1>0, <1>2 DEF Signal, IInv, TypeOK, libVars
<1>3. CASE Sigaction(c) /\ c.handler # "query"
  <2>1. c.handler \in Handler /\ c.flags \subseteq Flag /\ c.set \subseteq Sig
    BY <1>0, <1>3 DEF CallRecord
  <2>2. /\ action' \in [Sig -> [handler : Handler, flags : SUBSET Flag, mask : SUBSET Sig]]
        /\ Restorers' /\ pending' \subseteq Sig /\ cpu' \in Cpu
    BY <2>1, <1>1, <1>3 DEF Sigaction
  <2> QED
    BY <2>2, <1>0, <1>3 DEF Sigaction, IInv, TypeOK, libVars
<1>4. CASE Sigaction(c) /\ c.handler = "query"
  <2>1. cpu' \in Cpu
    BY <1>0, <1>4, DieTyped DEF Sigaction
  <2> QED
    BY <2>1, <1>4 DEF Sigaction, IInv, TypeOK, Restorers, libVars
<1> QED
  BY <1>2, <1>3, <1>4

\* Back from the kernel, and setjmp, longjmp and the end of a handler.
LEMMA LeavesStep ==
  ASSUME IInv, Wrapper \/ Wake \/ SleepEnd \/ Input \/ LongjmpMask
  PROVE  IInv'
<1>0. TypeOK
  BY DEF IInv
<1>1. CASE Wrapper
  <2>1. cpu' \in Cpu
    <3>1. cpu \in Cpu /\ (IF cpu.sys < 0 THEN -1 ELSE cpu.sys) \in Int
      BY <1>0 DEF TypeOK, Cpu
    <3>2. cpu' = [at |-> cpu.at, pc |-> "user", sys |-> 0,
                  val |-> IF cpu.sys < 0 THEN -1 ELSE cpu.sys, left |-> cpu.left]
      BY <3>1, <1>1 DEF Wrapper, Cpu
    <3> QED
      BY <3>1, <3>2 DEF Cpu
  <2>2. errno' \in Nat
    BY <1>0, <1>1 DEF Wrapper, ErrnoOf, TypeOK, Cpu
  <2> QED
    BY <2>1, <2>2, <1>1 DEF Wrapper, IInv, TypeOK, Restorers
<1>2. CASE Wake
  <2>1. cpu' \in Cpu
    <3>1. cpu' = [at |-> cpu.at, pc |-> "slept", sys |-> 0, val |-> cpu.val, left |-> cpu.left]
      BY <1>0, <1>2 DEF Wake, TypeOK, Cpu
    <3> QED
      BY <1>0, <3>1 DEF TypeOK, Cpu
  <2> QED
    BY <2>1, <1>2 DEF Wake, IInv, TypeOK, Restorers, libVars
<1>3. CASE SleepEnd
  <2>1. SleepRem(cpu.sys, cpu.left, cpu.val) \in Int
    BY <1>0, SleepRemInt DEF TypeOK, Cpu
  <2>2. cpu' \in Cpu
    <3> DEFINE rem == SleepRem(cpu.sys, cpu.left, cpu.val)
    <3>1. cpu' = [cpu EXCEPT !.pc = "user", !.val = rem, !.sys = 0, !.left = 0]
      BY <1>3 DEF SleepEnd
    <3> HIDE DEF rem
    <3>2. cpu' = [at |-> cpu.at, pc |-> "user", sys |-> 0, val |-> rem, left |-> 0]
      BY <1>0, <3>1 DEF TypeOK, Cpu
    <3>3. rem \in Int
      BY <2>1 DEF rem
    <3> QED
      BY <1>0, <3>2, <3>3 DEF TypeOK, Cpu
  <2> QED
    BY <2>2, <1>3 DEF SleepEnd, IInv, TypeOK, Restorers, libVars
<1>4. CASE Input
  <2>1. cpu' \in Cpu
    <3>1. cpu' = [at |-> cpu.at, pc |-> "wrap", sys |-> 1, val |-> cpu.val, left |-> cpu.left]
      BY <1>0, <1>4 DEF Input, TypeOK, Cpu
    <3> QED
      BY <1>0, <3>1 DEF TypeOK, Cpu
  <2> QED
    BY <2>1, <1>4 DEF Input, IInv, TypeOK, Restorers, libVars
<1>5. CASE LongjmpMask
  <2>1. cpu' \in Cpu
    BY <1>0, <1>5 DEF LongjmpMask, TypeOK, Cpu
  <2>2. blocked' \subseteq Sig /\ asked' \subseteq Sig
    BY <1>0, <1>5 DEF LongjmpMask, TypeOK
  <2> QED
    BY <2>1, <2>2, <1>5 DEF LongjmpMask, IInv, TypeOK, Restorers
<1> QED
  BY <1>1, <1>2, <1>3, <1>4, <1>5

\* A live jmp_buf names a frame that is on the stack.
JumpDepth == jb.live => jb.depth <= Len(frames)

LEMMA JumpsStep ==
  ASSUME IInv, JumpDepth, NEW c, Setjmp(c) \/ Longjmp(c) \/ HandlerReturn(c)
  PROVE  IInv'
<1>0. TypeOK /\ c \in CallRecord /\ c.next \in Place /\ At(c) /\ frames \in Seq(Frame)
  BY CallTyped DEF IInv, Setjmp, Longjmp, HandlerReturn, TypeOK, Frame
<1>1. CASE Setjmp(c)
  <2>1. cpu' \in Cpu
    <3>1. cpu' = [at |-> c.next, pc |-> cpu.pc, sys |-> cpu.sys, val |-> 0, left |-> cpu.left]
      BY <1>0, <1>1 DEF Setjmp, TypeOK, Cpu
    <3> QED
      BY <1>0, <3>1 DEF TypeOK, Cpu
  <2>2. Len(frames) \in Nat
    BY <1>0, LenProperties
  <2> QED
    BY <2>1, <2>2, <1>0, <1>1 DEF Setjmp, IInv, TypeOK, Restorers
<1>2. CASE Longjmp(c)
  <2>1. cpu' \in Cpu
    <3>1. cpu' = [at |-> jb.at, pc |-> "jump", sys |-> cpu.sys, val |-> c.n, left |-> cpu.left]
      BY <1>0, <1>2 DEF Longjmp, TypeOK, Cpu
    <3>2. jb.at \in Place /\ c.n \in Int
      BY <1>0 DEF TypeOK, CallRecord
    <3> QED
      BY <1>0, <3>1, <3>2 DEF TypeOK, Cpu
  <2>2. jb.depth \in 0..Len(frames)
    BY <1>0, <1>2, LenProperties DEF Longjmp, JumpDepth, TypeOK
  <2>3. frames' \in Seq(Frame)
    BY <2>2, <1>0, <1>2, FramesTyped DEF Longjmp
  <2> QED
    BY <2>1, <2>3, <1>2 DEF Longjmp, IInv, TypeOK, Restorers, libVars, Frame
<1>3. CASE HandlerReturn(c)
  <2>1. Last(frames) \in Frame /\ Front(frames) \in Seq(Frame)
    BY <1>0, <1>3, FramesTyped DEF HandlerReturn
  <2>2. cpu' \in Cpu /\ blocked' \subseteq Sig /\ frames' \in Seq(Frame)
    BY <2>1, <1>3 DEF HandlerReturn, Myrt, SigReturn, Frame
  <2>3. jb' \in [live : BOOLEAN, at : Place, depth : Nat, mask : SUBSET Sig, held : SUBSET Sig]
    BY <1>0, <1>3 DEF HandlerReturn, TypeOK
  <2>4. UNCHANGED <<pending, action, timer, sent, errno, seen, said, asked, slept>>
    BY <1>3 DEF HandlerReturn
  <2>5. TypeOK'
    BY <2>2, <2>3, <2>4, <1>0 DEF TypeOK, Frame
  <2>6. Restorers'
    BY <2>4 DEF IInv, Restorers
  <2> QED
    BY <2>5, <2>6 DEF IInv
<1> QED
  BY <1>1, <1>2, <1>3

\* The kernel's steps: a delivery, the clock, a signal from outside.
LEMMA KernelStep ==
  ASSUME IInv, Deliveries \/ Time \/ Outside
  PROVE  IInv'
<1>0. TypeOK /\ frames \in Seq(Frame) /\ cpu \in Cpu
  BY DEF IInv, TypeOK, Frame
<1>1. ASSUME NEW s \in Sig PROVE Post(s) \subseteq Sig
  BY <1>0 DEF Post, TypeOK
<1>2. CASE Deliveries
  <2>1. PICK s \in Sig : Deliver(s, Catch)
    BY <1>2 DEF Deliveries
  <2>2. pending' \subseteq Sig /\ UNCHANGED <<action, timer, sent, libVars>>
    BY <1>0, <1>2, <2>1 DEF Deliveries, Deliver, TypeOK
  <2>3. cpu' \in Cpu /\ blocked' \subseteq Sig /\ frames' \in Seq(Frame)
    <3>1. CASE DeliverDefault(s)
      BY <1>0, <3>1, DieTyped DEF DeliverDefault, TypeOK
    <3>2. CASE DeliverIgnored(s)
      BY <1>0, <3>2 DEF DeliverIgnored, TypeOK
    <3>3. CASE DeliverHandled(s, Catch) /\ "restorer" \notin action[s].flags
      BY <1>0, <3>3, DieTyped DEF DeliverHandled, TypeOK
    <3>4. CASE DeliverHandled(s, Catch) /\ "restorer" \in action[s].flags
      <4>1. cpu' \in Cpu
        <5>1. cpu' = [at |-> Catch, pc |-> "user", sys |-> cpu.sys, val |-> cpu.val,
                      left |-> cpu.left]
          BY <1>0, <3>4 DEF DeliverHandled, Cpu
        <5> QED
          BY <1>0, <5>1, ProgramAssumption DEF Cpu
      <4>2. blocked' \subseteq Sig
        BY <1>0, <3>4 DEF DeliverHandled, TypeOK
      <4>3. [sig |-> s, cpu |-> Interrupted(s), mask |-> blocked] \in Frame
        BY <1>0, InterruptedTyped DEF TypeOK, Frame
      <4>4. frames' = Append(frames, [sig |-> s, cpu |-> Interrupted(s), mask |-> blocked])
        BY <3>4 DEF DeliverHandled
      <4> QED
        BY <4>1, <4>2, <4>3, <4>4, <1>0, FramesTyped
    <3> QED
      BY <2>1, <3>1, <3>2, <3>3, <3>4 DEF Deliver
  <2>4. TypeOK'
    BY <1>0, <2>2, <2>3 DEF TypeOK, Frame, libVars
  <2> QED
    BY <2>2, <2>4 DEF IInv, Restorers
<1>3. CASE Time
  <2>1. cpu' \in Cpu
    <3>1. CASE Sleeping
      <4>1. cpu.left - 1 \in Nat
        BY <1>0, <3>1 DEF Sleeping, Cpu
      <4>2. cpu' = [at |-> cpu.at, pc |-> cpu.pc, sys |-> cpu.sys, val |-> cpu.val,
                    left |-> cpu.left - 1]
        BY <1>0, <1>3, <3>1 DEF Time, Tick, Cpu
      <4> QED
        BY <1>0, <4>1, <4>2 DEF Cpu
    <3>2. CASE ~Sleeping
      BY <1>0, <1>3, <3>2 DEF Time, Tick
    <3> QED
      BY <3>1, <3>2
  <2>2. timer' \in Nat /\ slept' \in Nat /\ pending' \subseteq Sig
    BY <1>0, <1>1, <1>3, SignalAssumption DEF Time, Tick, TypeOK
  <2>3. UNCHANGED <<blocked, action, sent, frames, errno, jb, seen, said, asked>>
    BY <1>3 DEF Time, Tick
  <2>4. TypeOK'
    BY <1>0, <2>1, <2>2, <2>3 DEF TypeOK
  <2> QED
    BY <2>3, <2>4 DEF IInv, Restorers
<1>4. CASE Outside
  <2>1. PICK s \in Sendable : Send(s)
    BY <1>4 DEF Outside
  <2>2. sent' \in 0..MaxSent /\ pending' \subseteq Sig
    BY <1>0, <1>1, <2>1, SignalAssumption DEF Send, TypeOK
  <2>3. UNCHANGED <<blocked, action, timer, cpu, frames, libVars>>
    BY <1>4, <2>1 DEF Outside, Send
  <2>4. TypeOK'
    BY <1>0, <2>2, <2>3 DEF TypeOK, libVars
  <2> QED
    BY <2>3, <2>4 DEF IInv, Restorers
<1> QED
  BY <1>2, <1>3, <1>4

\* Cutting a stack to a length it has.
LEMMA CutLength ==
  ASSUME NEW S, NEW q \in Seq(S), NEW n \in Nat, n <= Len(q)
  PROVE  Len(SubSeq(q, 1, n)) = n
<1>1. \A i \in 1..n : q[i] \in S
  BY LenProperties, ElementOfSeq
<1>2. Len(SubSeq(q, 1, n)) = IF 1 <= n THEN n - 1 + 1 ELSE 0
  BY <1>1, SubSeqProperties
<1>3. ASSUME NEW k \in Nat PROVE (IF 1 <= k THEN k - 1 + 1 ELSE 0) = k
  OBVIOUS
<1> QED
  BY <1>2, <1>3

\* The stack is cut to the depth of a live jmp_buf or grows above it.
LEMMA JumpDepthStep ==
  ASSUME IInv, JumpDepth, [Next]_vars
  PROVE  JumpDepth'
<1>0. /\ frames \in Seq(Frame) /\ Len(frames) \in Nat
      /\ jb \in [live : BOOLEAN, at : Place, depth : Nat, mask : SUBSET Sig, held : SUBSET Sig]
  BY LenProperties DEF IInv, TypeOK, Frame
<1>1. CASE UNCHANGED <<frames, jb>>
  BY <1>1 DEF JumpDepth
<1>2. ASSUME NEW c, Setjmp(c) PROVE JumpDepth'
  BY <1>0, <1>2 DEF Setjmp, JumpDepth
<1>3. ASSUME NEW c, Longjmp(c) PROVE JumpDepth'
  <2>1. jb.depth \in 0..Len(frames) /\ jb' = jb
    BY <1>0, <1>3 DEF Longjmp, JumpDepth, libVars
  <2>2. Len(frames') = jb.depth
    BY <1>0, <1>3, <2>1, SubSeqProperties DEF Longjmp
  <2> QED
    BY <2>1, <2>2, <1>0 DEF JumpDepth
<1>4. ASSUME NEW c, HandlerReturn(c) PROVE JumpDepth'
  <2>1. Len(frames) \in Nat \ {0}
    BY <1>0, <1>4, EmptySeq DEF HandlerReturn
  <2>2. Len(frames') = Len(frames) - 1
    <3>1. frames' = SubSeq(frames, 1, Len(frames) - 1)
      BY <1>4 DEF HandlerReturn, Myrt, SigReturn, Front
    <3>2. ASSUME NEW n, n = Len(frames) - 1 PROVE Len(SubSeq(frames, 1, n)) = n
      <4>1. n \in Nat /\ n <= Len(frames)
        BY <2>1, <3>2
      <4> QED
        BY <1>0, <4>1, CutLength
    <3> QED
      BY <3>1, <3>2
  <2>3. jb'.live => jb'.depth = jb.depth /\ jb.depth < Len(frames)
    BY <1>0, <1>4 DEF HandlerReturn
  <2> QED
    BY <1>0, <2>1, <2>2, <2>3 DEF JumpDepth
<1>5. ASSUME NEW s \in Sig, Deliver(s, Catch), UNCHANGED libVars PROVE JumpDepth'
  <2>1. CASE UNCHANGED frames
    BY <1>1, <1>5, <2>1 DEF libVars
  <2>2. CASE frames' = Append(frames, [sig |-> s, cpu |-> Interrupted(s), mask |-> blocked])
    <3>1. [sig |-> s, cpu |-> Interrupted(s), mask |-> blocked] \in Frame
      BY InterruptedTyped DEF IInv, TypeOK, Frame
    <3>2. Len(frames') = Len(frames) + 1
      BY <1>0, <2>2, <3>1, AppendProperties
    <3> QED
      BY <1>0, <1>5, <3>2 DEF JumpDepth, libVars
  <2> QED
    BY <1>5, <2>1, <2>2 DEF Deliver, DeliverDefault, DeliverIgnored, DeliverHandled
<1>6. ASSUME NEW c, Call(c) PROVE JumpDepth'
  <2>1. CASE Setjmp(c) \/ Longjmp(c) \/ HandlerReturn(c)
    BY <2>1, <1>2, <1>3, <1>4
  <2>2. CASE ~(Setjmp(c) \/ Longjmp(c) \/ HandlerReturn(c))
    BY <1>1, <1>6, <2>2
       DEF Call, Alarm, Sigprocmask, Sigpending, Signal, Sigaction, Other, WaitFor, Sleep,
           Perror, Exit, libVars
  <2> QED
    BY <2>1, <2>2
<1>7. CASE Wrapper \/ Wake \/ SleepEnd \/ LongjmpMask \/ Input \/ Time \/ Outside \/ UNCHANGED vars
  BY <1>1, <1>7
     DEF Wrapper, Wake, SleepEnd, LongjmpMask, Input, Time, Tick, Outside, Send, libVars, vars,
         kernelVars
<1> QED
  BY <1>5, <1>6, <1>7 DEF Next, Run, Deliveries, Ended

LEMMA NextIInv ==
  ASSUME IInv, JumpDepth, [Next]_vars
  PROVE  IInv' /\ JumpDepth'
<1>1. ASSUME NEW c, Call(c) PROVE IInv'
  BY <1>1, EntersStep, InstallStep, JumpsStep DEF Call
<1>2. ASSUME UNCHANGED vars PROVE IInv'
  BY <1>2 DEF IInv, TypeOK, Restorers, vars, kernelVars, libVars
<1>3. IInv'
  BY <1>1, <1>2, LeavesStep, KernelStep DEF Next, Run, Ended
<1> QED
  BY <1>3, JumpDepthStep

LEMMA SpecIInv == Spec => [](IInv /\ JumpDepth)
<1>1. Init => IInv /\ JumpDepth
  <2>1. Init => JumpDepth
    BY DEF Init, JumpDepth
  <2> QED
    BY <2>1, InitIInv
<1>2. IInv /\ JumpDepth /\ [Next]_vars => (IInv /\ JumpDepth)'
  BY NextIInv
<1> QED
  BY <1>1, <1>2, PTL DEF Spec

----------------------------------------------------------------------------
(* The theorems.                                                           *)

\* Whatever calls the program makes and whatever signals arrive, errno is a number,
\* the masks and the actions are sets of signals and flags, and the stack of frames
\* holds states of the processor (libmini.c, libmini64.asm).
THEOREM LibminiTypeCorrect == Spec => []TypeOK
<1>1. IInv => TypeOK
  BY DEF IInv
<1> QED
  BY <1>1, SpecIInv, PTL

\* For every program: a signal caught with signal or sigaction does not end the
\* process (the restorer of libmini.c:219-220).
THEOREM HandledSurvivesAlways == Spec => HandledSurvives
<1>1. IInv /\ [Next]_vars
        => [\A s \in Sig : Deliver(s, Catch) /\ action[s].handler = "fn" => Alive']_vars
  <2> SUFFICES ASSUME IInv, NEW s \in Sig, Deliver(s, Catch), action[s].handler = "fn"
               PROVE  Alive'
    OBVIOUS
  <2>1. "restorer" \in action[s].flags
    BY DEF IInv, Restorers
  <2>2. DeliverHandled(s, Catch)
    BY DEF Deliver, DeliverDefault, DeliverIgnored
  <2>3. cpu \in Cpu /\ cpu' = [cpu EXCEPT !.at = Catch, !.pc = "user"]
    BY <2>1, <2>2 DEF DeliverHandled, IInv, TypeOK
  <2>4. cpu'.pc = "user"
    BY <2>3 DEF Cpu
  <2> QED
    BY <2>4 DEF Alive
<1> QED
  BY <1>1, SpecIInv, PTL DEF Spec, HandledSurvives

----------------------------------------------------------------------------
(* The stack of frames: what is left of it when it is cut.                 *)

\* The elements of a stack that is cut, and of one that has lost its top.
LEMMA CutElements ==
  ASSUME NEW S, NEW q \in Seq(S), NEW n \in Nat, n <= Len(q)
  PROVE  /\ SubSeq(q, 1, n) \in Seq(S) /\ Len(SubSeq(q, 1, n)) = n
         /\ \A k \in 1..n : SubSeq(q, 1, n)[k] = q[k]
<1>1. \A i \in 1..n : q[i] \in S
  BY LenProperties, ElementOfSeq
<1>2. /\ SubSeq(q, 1, n) \in Seq(S)
      /\ \A k \in 1..(n - 1 + 1) : SubSeq(q, 1, n)[k] = q[1 + k - 1]
  BY <1>1, SubSeqProperties
<1>3. \A k \in 1..n : 1 + k - 1 = k
  OBVIOUS
<1>4. n - 1 + 1 = n
  OBVIOUS
<1> QED
  BY <1>2, <1>3, <1>4, CutLength

LEMMA FrontElements ==
  ASSUME NEW S, NEW q \in Seq(S), q # <<>>
  PROVE  /\ Len(q) \in Nat \ {0} /\ Last(q) = q[Len(q)]
         /\ Front(q) \in Seq(S) /\ Len(Front(q)) = Len(q) - 1
         /\ \A k \in 1..(Len(q) - 1) : Front(q)[k] = q[k]
<1>1. Len(q) \in Nat \ {0}
  BY LenProperties, EmptySeq
<1>2. Len(q) - 1 \in Nat /\ Len(q) - 1 <= Len(q)
  BY <1>1
<1> DEFINE n == Len(q) - 1
<1>3. /\ SubSeq(q, 1, n) \in Seq(S) /\ Len(SubSeq(q, 1, n)) = n
      /\ \A k \in 1..n : SubSeq(q, 1, n)[k] = q[k]
  BY <1>2, CutElements
<1> QED
  BY <1>1, <1>3 DEF Last, Front

----------------------------------------------------------------------------
(* How a step moves the stack of frames, the mask and the code.            *)

FrameOf(s) == [sig |-> s, cpu |-> Interrupted(s), mask |-> blocked]

\* A handler is entered: a frame on top, and the mask of the action added.
Entered(s) ==
  /\ Alive /\ s \notin blocked /\ action[s].handler = "fn"
  /\ frames' = Append(frames, FrameOf(s))
  /\ blocked' = blocked \cup action[s].mask
                  \cup (IF "nodefer" \in action[s].flags THEN {} ELSE {s})
  /\ cpu'.at = Catch /\ cpu'.pc = "user"
  /\ UNCHANGED <<action, jb, asked>>

\* A call of the program, or what the kernel does, that leaves the stack and the mask.
Still ==
  /\ UNCHANGED <<frames, blocked, asked>>
  /\ cpu'.pc = "jump" => cpu.pc = "jump"
  /\ Alive' => Alive /\ (cpu.pc = "jump" => cpu'.pc = "jump")

\* The code moves on within one function.
Onward ==
  \/ cpu'.at = cpu.at
  \/ \E c \in Program[cpu.at] : cpu'.at = c.next

\* Where a signal comes back to is the code it interrupted.
LEMMA InterruptedSame ==
  ASSUME IInv, NEW s \in Sig
  PROVE  /\ Interrupted(s) \in Cpu /\ Interrupted(s).at = cpu.at
         /\ Interrupted(s).pc = "jump" <=> cpu.pc = "jump"
<1>1. cpu \in Cpu /\ Interrupted(s) \in Cpu
  BY InterruptedTyped DEF IInv, TypeOK
<1>2. ASSUME NEW pc0 \in {"wrap", "slept"}
      PROVE  /\ [cpu EXCEPT !.pc = pc0, !.sys = -EINTR].at = cpu.at
             /\ [cpu EXCEPT !.pc = pc0, !.sys = -EINTR].pc = pc0
  BY <1>1 DEF Cpu
<1> QED
  BY <1>1, <1>2 DEF Interrupted

\* Deliveries: a handler is entered, or the stack and the mask stay.
LEMMA DeliveryMoves ==
  ASSUME IInv, Deliveries
  PROVE  \/ \E s \in Sig : Entered(s)
         \/ Still /\ UNCHANGED <<action, jb>> /\ cpu'.at = cpu.at
<1>0. cpu \in Cpu
  BY DEF IInv, TypeOK
<1>1. PICK s \in Sig : Deliver(s, Catch)
  BY DEF Deliveries
<1>2. Alive /\ s \notin blocked /\ UNCHANGED <<action, libVars>>
  BY <1>1 DEF Deliveries, Deliver, Deliverable
<1>3. ASSUME Die, UNCHANGED <<blocked, frames>>
      PROVE  Still /\ UNCHANGED <<action, jb>> /\ cpu'.at = cpu.at
  BY <1>0, <1>2, <1>3 DEF Die, Still, Alive, Cpu, libVars
<1>4. CASE DeliverDefault(s)
  BY <1>3, <1>4 DEF DeliverDefault
<1>5. CASE DeliverIgnored(s)
  BY <1>2, <1>5 DEF DeliverIgnored, Still, Alive, libVars
<1>6. CASE DeliverHandled(s, Catch) /\ "restorer" \notin action[s].flags
  BY <1>3, <1>6 DEF DeliverHandled
<1>7. CASE DeliverHandled(s, Catch) /\ "restorer" \in action[s].flags
  <2>1. cpu'.at = Catch /\ cpu'.pc = "user"
    BY <1>0, <1>7 DEF DeliverHandled, Cpu
  <2> QED
    BY <1>2, <1>7, <2>1 DEF DeliverHandled, Entered, FrameOf, libVars
<1> QED
  BY <1>1, <1>4, <1>5, <1>6, <1>7 DEF Deliver

\* The clock and the world outside.
LEMMA WorldMoves ==
  ASSUME IInv, Time \/ Outside
  PROVE  Still /\ UNCHANGED <<action, jb>> /\ cpu'.at = cpu.at
<1>0. cpu \in Cpu
  BY DEF IInv, TypeOK
<1>1. cpu'.at = cpu.at /\ cpu'.pc = cpu.pc
  BY <1>0 DEF Time, Tick, Outside, Send, Cpu
<1> QED
  BY <1>1 DEF Time, Tick, Outside, Send, Still, Alive, libVars

\* Back from the kernel into the function that called.
LEMMA BackMoves ==
  ASSUME IInv, Wrapper \/ Wake \/ SleepEnd \/ Input
  PROVE  Still /\ UNCHANGED <<action, jb>> /\ cpu'.at = cpu.at
<1>0. cpu \in Cpu
  BY DEF IInv, TypeOK
<1>1. cpu'.at = cpu.at /\ cpu'.pc \in {"user", "slept", "wrap"}
      /\ cpu.pc \in {"wrap", "sleep", "slept", "read"}
  BY <1>0 DEF Wrapper, Wake, SleepEnd, Input, Cpu
<1> QED
  BY <1>1 DEF Wrapper, Wake, SleepEnd, Input, Still, Alive, libVars

\* Going into the kernel.
LEMMA EnterMoves ==
  ASSUME IInv, NEW c, At(c), NEW pc0 \in {"wrap", "pause", "read", "dead"}, NEW sys0,
         Enter(c, pc0, sys0)
  PROVE  cpu.pc = "user" /\ cpu'.pc = pc0 /\ cpu'.at = c.next /\ c \in Program[cpu.at]
BY DEF IInv, TypeOK, Cpu, At, Enter

\* The calls that leave the stack and the mask.
LEMMA CallMoves ==
  ASSUME IInv, NEW c,
         \/ Alarm(c) \/ Sigpending(c) \/ Other(c) \/ WaitFor(c) \/ Sleep(c) \/ Perror(c)
         \/ Exit(c) \/ Signal(c) \/ Sigaction(c)
  PROVE  Still /\ UNCHANGED jb /\ Onward
<1>0. cpu \in Cpu /\ At(c) /\ cpu.pc = "user" /\ c \in Program[cpu.at]
  BY DEF IInv, TypeOK, Alarm, Sigpending, Other, WaitFor, Sleep, Perror, Exit, Signal, Sigaction, At
<1>1. UNCHANGED <<frames, blocked, asked, jb>>
  BY DEF Alarm, Sigpending, Other, WaitFor, Sleep, Perror, Exit, Signal, Sigaction, libVars
<1>2. CASE \E pc0 \in {"wrap", "pause", "read", "dead"}, sys0 \in Int : Enter(c, pc0, sys0)
  <2>1. PICK pc0 \in {"wrap", "pause", "read", "dead"}, sys0 \in Int : Enter(c, pc0, sys0)
    BY <1>2
  <2>2. cpu'.pc = pc0 /\ cpu'.at = c.next
    BY <1>0, <2>1, EnterMoves
  <2> QED
    BY <1>0, <1>1, <2>2 DEF Still, Onward, Alive
<1>3. CASE Sleep(c) \/ Perror(c)
  <2>1. cpu'.at = c.next /\ cpu'.pc \in {"sleep", "user"}
    BY <1>0, <1>3 DEF Sleep, Perror, Cpu
  <2> QED
    BY <1>0, <1>1, <2>1 DEF Still, Onward, Alive
<1>4. CASE Die
  <2>1. cpu'.at = cpu.at /\ cpu'.pc = "dead"
    BY <1>0, <1>4 DEF Die, Cpu
  <2> QED
    BY <1>0, <1>1, <2>1 DEF Still, Onward, Alive
<1>5. \/ Sleep(c) \/ Perror(c) \/ Die
      \/ \E pc0 \in {"wrap", "pause", "read", "dead"}, sys0 \in Int : Enter(c, pc0, sys0)
  <2>1. CASE Alarm(c)
    BY <2>1, SecondsLeftInt DEF Alarm, Back, IInv
  <2>2. CASE Sigpending(c) \/ WaitFor(c) \/ Exit(c)
    BY <2>2 DEF Sigpending, WaitFor, Exit, Back
  <2>3. CASE Other(c)
    <3>1. PICK e \in {0} \cup Errors : Back(c, -e)
      BY <2>3 DEF Other
    <3>2. e \in Nat
      BY ProgramAssumption
    <3>3. -e \in Int
      BY <3>2
    <3> QED
      BY <3>1, <3>3 DEF Back
  <2>4. CASE Signal(c) \/ Sigaction(c)
    <3>1. 0 \in Int /\ -EINVAL \in Int
      BY DEF EINVAL
    <3> QED
      BY <2>4, <3>1 DEF Signal, Sigaction, SetAction, Back
  <2>5. CASE Sleep(c) \/ Perror(c)
    BY <2>5
  <2> QED
    BY <2>1, <2>2, <2>3, <2>4, <2>5
<1> QED
  BY <1>2, <1>3, <1>4, <1>5

----------------------------------------------------------------------------
(* Outside handlers the mask is the one asked for.                         *)

\* The bottom frame keeps it while handlers run.
MaskInv ==
  /\ MaskKept
  /\ frames # <<>> /\ frames[1].cpu.pc # "jump" => frames[1].mask = asked

LEMMA MaskSame ==
  ASSUME MaskInv, Still
  PROVE  MaskInv'
BY DEF MaskInv, MaskKept, Still

LEMMA MaskEntered ==
  ASSUME IInv, MaskInv, NEW s \in Sig, Entered(s)
  PROVE  MaskInv'
<1>0. frames \in Seq(Frame) /\ FrameOf(s) \in Frame
  BY InterruptedSame DEF IInv, TypeOK, Frame, FrameOf
<1>1. /\ Len(frames) \in Nat /\ Len(frames') = Len(frames) + 1
      /\ frames'[Len(frames) + 1] = FrameOf(s)
      /\ \A k \in 1..Len(frames) : frames'[k] = frames[k]
  BY <1>0, LenProperties, AppendProperties DEF Entered
<1>2. frames' # <<>>
  BY <1>1
<1>3. CASE frames = <<>>
  <2>1. frames'[1] = FrameOf(s)
    BY <1>1, <1>3
  <2>2. cpu.pc # "jump" => blocked = asked
    BY <1>3 DEF MaskInv, MaskKept, Entered
  <2>3. frames'[1].cpu.pc # "jump" => cpu.pc # "jump"
    BY <2>1, InterruptedSame DEF FrameOf
  <2> QED
    BY <1>2, <2>1, <2>2, <2>3 DEF MaskInv, MaskKept, FrameOf, Entered
<1>4. CASE frames # <<>>
  <2>1. 1 \in 1..Len(frames)
    BY <1>0, <1>1, <1>4, EmptySeq
  <2>2. frames'[1] = frames[1]
    BY <1>1, <2>1
  <2> QED
    BY <1>2, <1>4, <2>2 DEF MaskInv, MaskKept, Entered
<1> QED
  BY <1>3, <1>4

LEMMA MaskCall ==
  ASSUME IInv, JumpDepth, MaskInv, NEW c,
         Sigprocmask(c) \/ Setjmp(c) \/ Longjmp(c) \/ HandlerReturn(c)
  PROVE  MaskInv'
<1>0. frames \in Seq(Frame) /\ cpu \in Cpu /\ At(c) /\ cpu.pc = "user"
  BY DEF IInv, TypeOK, Frame, Sigprocmask, Setjmp, Longjmp, HandlerReturn, At
<1>1. CASE Sigprocmask(c)
  <2>1. cpu'.pc = "wrap"
    BY <1>0, <1>1 DEF Sigprocmask, Back, Enter, Cpu
  <2>2. frames' = frames /\ IF frames = <<>> THEN asked' = blocked' \/ UNCHANGED <<asked, blocked>>
                            ELSE asked' = asked
    BY <1>1 DEF Sigprocmask
  <2> QED
    BY <1>0, <2>1, <2>2 DEF MaskInv, MaskKept, Alive
<1>2. CASE Setjmp(c)
  <2>1. cpu'.pc = cpu.pc
    BY <1>0, <1>2 DEF Setjmp, Cpu
  <2> QED
    BY <1>0, <1>2, <2>1 DEF Setjmp, MaskInv, MaskKept, Alive
<1>3. CASE Longjmp(c)
  <2>1. cpu'.pc = "jump" /\ UNCHANGED <<blocked, asked>>
    BY <1>0, <1>3 DEF Longjmp, Cpu, libVars
  <2>2. jb.depth \in Nat /\ jb.depth <= Len(frames)
    BY <1>3 DEF Longjmp, JumpDepth, IInv, TypeOK
  <2>3. /\ Len(frames') = jb.depth
        /\ \A k \in 1..jb.depth : frames'[k] = frames[k]
    BY <1>0, <1>3, <2>2, CutElements DEF Longjmp
  <2>4. frames' # <<>> => 1 \in 1..jb.depth
    <3>1. frames' \in Seq(Frame)
      BY <1>0, <1>3, <2>2, CutElements DEF Longjmp
    <3> QED
      BY <3>1, <2>2, <2>3, EmptySeq
  <2>5. frames' # <<>> => frames'[1] = frames[1] /\ frames # <<>>
    BY <1>0, <2>2, <2>3, <2>4, EmptySeq
  <2> QED
    BY <2>1, <2>5 DEF MaskInv, MaskKept
<1>4. CASE HandlerReturn(c)
  <2> DEFINE n == Len(frames)
  <2>1. /\ n \in Nat \ {0} /\ Last(frames) = frames[n]
        /\ Front(frames) \in Seq(Frame) /\ Len(Front(frames)) = n - 1
        /\ \A k \in 1..(n - 1) : Front(frames)[k] = frames[k]
    BY <1>0, <1>4, FrontElements DEF HandlerReturn
  <2>2. /\ frames' = Front(frames) /\ blocked' = Last(frames).mask /\ cpu' = Last(frames).cpu
        /\ asked' = asked
    BY <1>4 DEF HandlerReturn, Myrt, SigReturn
  <2>3. CASE n = 1
    <3>1. frames' = <<>>
      BY <2>1, <2>2, <2>3, EmptySeq
    <3>2. blocked' = frames[1].mask /\ cpu' = frames[1].cpu /\ frames # <<>>
      BY <2>1, <2>2, <2>3, <1>4 DEF HandlerReturn
    <3> QED
      BY <3>1, <3>2, <2>2 DEF MaskInv, MaskKept
  <2>4. CASE n # 1
    <3>1. 1 \in 1..(n - 1)
      BY <2>1, <2>4
    <3>2. frames' # <<>> /\ frames'[1] = frames[1] /\ frames # <<>>
      <4>1. frames'[1] = frames[1]
        BY <3>1, <2>1, <2>2
      <4>2. Len(frames') # 0
        BY <3>1, <2>1, <2>2
      <4> QED
        BY <4>1, <4>2, <2>1
    <3> QED
      BY <3>2, <2>2 DEF MaskInv, MaskKept
  <2> QED
    BY <2>3, <2>4
<1> QED
  BY <1>1, <1>2, <1>3, <1>4

LEMMA MaskJump ==
  ASSUME MaskInv, LongjmpMask
  PROVE  MaskInv'
BY DEF MaskInv, MaskKept, LongjmpMask

LEMMA MaskStep ==
  ASSUME IInv, JumpDepth, MaskInv, [Next]_vars
  PROVE  MaskInv'
<1>1. ASSUME NEW c, Call(c) PROVE MaskInv'
  BY <1>1, CallMoves, MaskSame, MaskCall DEF Call
<1>2. CASE Deliveries
  BY <1>2, DeliveryMoves, MaskSame, MaskEntered
<1>3. CASE Wrapper \/ Wake \/ SleepEnd \/ Input \/ Time \/ Outside
  BY <1>3, WorldMoves, BackMoves, MaskSame
<1>4. CASE UNCHANGED vars
  BY <1>4 DEF vars, kernelVars, libVars, MaskInv, MaskKept, Alive
<1> QED
  BY <1>1, <1>2, <1>3, <1>4, MaskJump DEF Next, Run, Ended

\* Every client, whatever it asks, waits for and jumps to, and whatever signals come:
\* when no handler runs, the signal mask is the one its own code asked for last, or
\* took from a jmp_buf (libmini64.asm:60-64, 76-117, libmini.c:219-220).
THEOREM MaskIsKept == Spec => []MaskKept
<1>1. Init => MaskInv
  BY DEF Init, MaskInv, MaskKept
<1>2. (IInv /\ JumpDepth) /\ MaskInv /\ [Next]_vars => MaskInv'
  BY MaskStep
<1>3. MaskInv => MaskKept
  BY DEF MaskInv
<1> QED
  BY <1>1, <1>2, <1>3, SpecIInv, PTL DEF Spec

----------------------------------------------------------------------------
(* Where handlers run.                                                     *)

\* A handler's code is in H, and so is the code in which a handler interrupted another;
\* a live jmp_buf is one of the main program, where every jump leads.
Inside(H) ==
  /\ frames # <<>> => cpu.at \in H /\ cpu.pc # "jump"
  /\ \A k \in DOMAIN frames : k > 1 => frames[k].cpu.at \in H /\ frames[k].cpu.pc # "jump"
  /\ jb.live => jb.depth = 0

\* A step that leaves the stack and goes on in H.
LEMMA InsideSame ==
  ASSUME NEW H, Handlers(H), Inside(H), Still, Onward, UNCHANGED jb
  PROVE  Inside(H)'
<1>1. cpu.at \in H => cpu'.at \in H
  BY DEF Onward, Handlers
<1>2. frames' = frames /\ (cpu'.pc = "jump" => cpu.pc = "jump")
  BY DEF Still
<1> QED
  BY <1>1, <1>2 DEF Inside

LEMMA InsideEntered ==
  ASSUME NEW H, Handlers(H), IInv, Inside(H), NEW s \in Sig, Entered(s)
  PROVE  Inside(H)'
<1> DEFINE n == Len(frames)
<1>0. frames \in Seq(Frame) /\ FrameOf(s) \in Frame
  BY InterruptedSame DEF IInv, TypeOK, Frame, FrameOf
<1>1. /\ n \in Nat /\ DOMAIN frames = 1..n /\ DOMAIN frames' = 1..(n + 1)
      /\ frames'[n + 1] = FrameOf(s)
      /\ \A k \in 1..n : frames'[k] = frames[k]
  BY <1>0, LenProperties, AppendProperties DEF Entered
<1>2. ASSUME NEW k \in 1..(n + 1), k > 1
      PROVE  frames'[k].cpu.at \in H /\ frames'[k].cpu.pc # "jump"
  <2>1. CASE k = n + 1
    <3>1. frames # <<>>
      BY <1>1, <1>2, <2>1
    <3>2. Interrupted(s).at \in H /\ Interrupted(s).pc # "jump"
      BY <3>1, InterruptedSame DEF Inside
    <3> QED
      BY <1>1, <2>1, <3>2 DEF FrameOf
  <2>2. CASE k # n + 1
    <3>1. k \in 1..n
      BY <1>1, <2>2
    <3> QED
      BY <1>1, <1>2, <3>1 DEF Inside
  <2> QED
    BY <2>1, <2>2
<1>3. cpu'.at \in H /\ cpu'.pc # "jump" /\ jb' = jb
  BY DEF Entered, Handlers
<1> QED
  BY <1>1, <1>2, <1>3 DEF Inside

\* What the end of the handler on top leaves.
LEMMA ReturnMoves ==
  ASSUME IInv, NEW c, HandlerReturn(c), NEW n, n = Len(frames) - 1
  PROVE  /\ n \in Nat /\ n + 1 = Len(frames) /\ DOMAIN frames = 1..(n + 1)
         /\ frames' \in Seq(Frame) /\ Len(frames') = n /\ DOMAIN frames' = 1..n
         /\ \A k \in 1..n : frames'[k] = frames[k]
         /\ frames' # <<>> => n > 0
         /\ blocked' = frames[n + 1].mask /\ cpu' = frames[n + 1].cpu
         /\ jb' = [jb EXCEPT !.live = @ /\ jb.depth < Len(frames)]
         /\ UNCHANGED <<pending, action, timer, sent, asked, slept>>
<1>0. frames \in Seq(Frame) /\ frames # <<>>
  BY DEF IInv, TypeOK, Frame, HandlerReturn
<1>1. /\ Len(frames) \in Nat \ {0} /\ Last(frames) = frames[Len(frames)]
      /\ Front(frames) \in Seq(Frame) /\ Len(Front(frames)) = Len(frames) - 1
      /\ \A k \in 1..(Len(frames) - 1) : Front(frames)[k] = frames[k]
  BY <1>0, FrontElements
<1>2. frames' = Front(frames) /\ blocked' = Last(frames).mask /\ cpu' = Last(frames).cpu
  BY DEF HandlerReturn, Myrt, SigReturn
<1>3. n \in Nat /\ n + 1 = Len(frames)
  BY <1>1
<1>4. DOMAIN frames = 1..(n + 1) /\ DOMAIN frames' = 1..n /\ Len(frames') = n
  BY <1>0, <1>1, <1>2, <1>3, LenProperties
<1>5. frames' # <<>> => n > 0
  BY <1>1, <1>2, <1>3, EmptySeq
<1> QED
  BY <1>1, <1>2, <1>3, <1>4, <1>5 DEF HandlerReturn

LEMMA InsideCall ==
  ASSUME NEW H, Handlers(H), IInv, JumpDepth, Inside(H), NEW c,
         Sigprocmask(c) \/ Setjmp(c) \/ Longjmp(c) \/ HandlerReturn(c)
  PROVE  /\ Inside(H)'
         /\ Setjmp(c) => frames = <<>>
         /\ Longjmp(c) => frames' = <<>> /\ DOMAIN frames' = {} /\ jb' = jb
<1>0. /\ frames \in Seq(Frame) /\ cpu \in Cpu /\ cpu.pc = "user" /\ c \in Program[cpu.at]
      /\ jb \in [live : BOOLEAN, at : Place, depth : Nat, mask : SUBSET Sig, held : SUBSET Sig]
  BY DEF Sigprocmask, Setjmp, Longjmp, HandlerReturn, At, IInv, TypeOK, Frame
<1>1. ASSUME Sigprocmask(c) PROVE Inside(H)'
  <2>1. cpu'.pc = "wrap" /\ cpu'.at = c.next /\ UNCHANGED <<frames, jb>>
    BY <1>0, <1>1 DEF Sigprocmask, Back, Enter, Cpu
  <2> QED
    BY <1>0, <2>1 DEF Inside, Handlers
<1>2. ASSUME Setjmp(c) PROVE Inside(H)' /\ frames = <<>>
  <2>1. frames = <<>>
    BY <1>0, <1>2 DEF Setjmp, Inside, Handlers
  <2>2. jb'.depth = 0 /\ frames' = frames /\ DOMAIN frames = {}
    BY <1>2, <2>1 DEF Setjmp
  <2> QED
    BY <2>1, <2>2 DEF Inside
<1>3. ASSUME Longjmp(c) PROVE Inside(H)' /\ frames' = <<>> /\ DOMAIN frames' = {} /\ jb' = jb
  <2>1. jb.depth = 0 /\ jb' = jb
    BY <1>3 DEF Longjmp, Inside, libVars
  <2>2. frames' = SubSeq(frames, 1, 0)
    BY <1>3, <2>1 DEF Longjmp
  <2>3. frames' = <<>> /\ DOMAIN frames' = {}
    BY <1>0, <2>2, EmptySeq, CutElements, LenProperties
  <2> QED
    BY <2>1, <2>3 DEF Inside
<1>4. ASSUME HandlerReturn(c) PROVE Inside(H)'
  <2> DEFINE n == Len(frames) - 1
  <2>1. /\ n \in Nat /\ DOMAIN frames = 1..(n + 1) /\ DOMAIN frames' = 1..n
        /\ \A k \in 1..n : frames'[k] = frames[k]
        /\ frames' # <<>> => n > 0
        /\ cpu' = frames[n + 1].cpu
        /\ jb' = [jb EXCEPT !.live = @ /\ jb.depth < Len(frames)]
    BY <1>4, ReturnMoves
  <2> HIDE DEF n
  <2>2. n + 1 \in DOMAIN frames /\ \A k \in 1..n : k \in DOMAIN frames
    BY <2>1
  <2>3. frames' # <<>> => cpu'.at \in H /\ cpu'.pc # "jump"
    BY <2>1, <2>2 DEF Inside
  <2>4. \A k \in 1..n : k > 1 => frames'[k].cpu.at \in H /\ frames'[k].cpu.pc # "jump"
    BY <2>1, <2>2 DEF Inside
  <2>5. jb'.live => jb'.depth = 0
    BY <1>0, <2>1 DEF Inside
  <2> QED
    BY <2>1, <2>3, <2>4, <2>5 DEF Inside
<1>5. ~(Setjmp(c) /\ (Sigprocmask(c) \/ Longjmp(c) \/ HandlerReturn(c)))
      /\ ~(Longjmp(c) /\ (Sigprocmask(c) \/ HandlerReturn(c)))
  BY DEF Sigprocmask, Setjmp, Longjmp, HandlerReturn
<1> QED
  BY <1>1, <1>2, <1>3, <1>4, <1>5

LEMMA InsideStep ==
  ASSUME NEW H, Handlers(H), IInv, JumpDepth, Inside(H), [Next]_vars
  PROVE  Inside(H)'
<1>1. ASSUME NEW c, Call(c) PROVE Inside(H)'
  BY <1>1, InsideCall, InsideSame, CallMoves DEF Call
<1>2. CASE Deliveries \/ Time \/ Outside \/ Wrapper \/ Wake \/ SleepEnd \/ Input
  <2>1. \/ \E s \in Sig : Entered(s)
        \/ Still /\ UNCHANGED <<action, jb>> /\ cpu'.at = cpu.at
    BY <1>2, DeliveryMoves, WorldMoves, BackMoves
  <2> QED
    BY <2>1, InsideEntered, InsideSame DEF Onward
<1>3. CASE LongjmpMask
  <2>1. frames = <<>> /\ DOMAIN frames = {} /\ UNCHANGED <<frames, jb>>
    BY <1>3 DEF LongjmpMask, Inside
  <2> QED
    BY <2>1 DEF Inside
<1>4. CASE UNCHANGED vars
  BY <1>4 DEF vars, kernelVars, libVars, Inside
<1> QED
  BY <1>1, <1>2, <1>3, <1>4 DEF Next, Run, Ended

LEMMA SpecInside ==
  ASSUME NEW H, Handlers(H)
  PROVE  Spec => [](IInv /\ JumpDepth /\ Inside(H))
<1>1. Init => Inside(H)
  BY DEF Init, Inside
<1>2. (IInv /\ JumpDepth) /\ Inside(H) /\ [Next]_vars => Inside(H)'
  BY InsideStep
<1> QED
  BY <1>1, <1>2, SpecIInv, PTL DEF Spec

----------------------------------------------------------------------------
(* No handler is entered a second time.                                    *)

\* The signals of the frames wait, now and wherever a frame above returns to.
Waiting ==
  /\ \A j \in DOMAIN frames : frames[j].sig \in blocked /\ frames[j].sig # SIGKILL
  /\ \A j, k \in DOMAIN frames : j < k => frames[j].sig \in frames[k].mask

\* What the actions make a handler's entry block.
Deferring ==
  /\ \A s \in Sig : "nodefer" \notin action[s].flags
  /\ action[SIGKILL].handler = "dfl"

EntryInv == NoReentry /\ Waiting /\ Deferring

\* A step that leaves the stack and the mask.
LEMMA EntrySame ==
  ASSUME NoReentry, Waiting, Still
  PROVE  (NoReentry /\ Waiting)'
BY DEF Still, NoReentry, Waiting

LEMMA EntryEntered ==
  ASSUME IInv, EntryInv, NEW s \in Sig, Entered(s)
  PROVE  EntryInv'
<1> DEFINE n == Len(frames)
<1>0. frames \in Seq(Frame) /\ FrameOf(s) \in Frame
  BY InterruptedSame DEF IInv, TypeOK, Frame, FrameOf
<1>1. /\ n \in Nat /\ DOMAIN frames = 1..n /\ DOMAIN frames' = 1..(n + 1)
      /\ frames'[n + 1] = FrameOf(s)
      /\ \A k \in 1..n : frames'[k] = frames[k]
  BY <1>0, LenProperties, AppendProperties DEF Entered
<1>2. s \notin blocked /\ s # SIGKILL /\ blocked \subseteq blocked' /\ s \in blocked'
  BY DEF Entered, EntryInv, Deferring
<1>3. \A j \in 1..n : frames[j].sig \in blocked /\ frames[j].sig # SIGKILL
  BY <1>1 DEF EntryInv, Waiting
<1>4. Waiting'
  <2>1. ASSUME NEW j \in 1..(n + 1)
        PROVE  frames'[j].sig \in blocked' /\ frames'[j].sig # SIGKILL
    BY <1>1, <1>2, <1>3 DEF FrameOf
  <2>2. ASSUME NEW j \in 1..(n + 1), NEW k \in 1..(n + 1), j < k
        PROVE  frames'[j].sig \in frames'[k].mask
    <3>1. CASE k = n + 1
      <4>1. j \in 1..n
        BY <1>1, <2>2, <3>1
      <4> QED
        BY <1>1, <1>3, <3>1, <4>1 DEF FrameOf
    <3>2. CASE k # n + 1
      <4>1. j \in 1..n /\ k \in 1..n
        BY <1>1, <2>2, <3>2
      <4> QED
        BY <1>1, <2>2, <4>1 DEF EntryInv, Waiting
    <3> QED
      BY <3>1, <3>2
  <2> QED
    BY <1>1, <2>1, <2>2 DEF Waiting
<1>5. NoReentry'
  <2>1. ASSUME NEW j \in 1..n PROVE frames'[j].sig # frames'[n + 1].sig
    BY <1>1, <1>2, <1>3 DEF FrameOf
  <2>2. ASSUME NEW j \in 1..(n + 1), NEW k \in 1..(n + 1), frames'[j].sig = frames'[k].sig
        PROVE  j = k
    <3>1. CASE j \in 1..n /\ k \in 1..n
      BY <1>1, <2>2, <3>1 DEF EntryInv, NoReentry
    <3>2. CASE ~(j \in 1..n /\ k \in 1..n)
      <4>1. (j = n + 1 \/ j \in 1..n) /\ (k = n + 1 \/ k \in 1..n)
        BY <1>1
      <4> QED
        BY <2>1, <2>2, <3>2, <4>1
    <3> QED
      BY <3>1, <3>2
  <2> QED
    BY <1>1, <2>2 DEF NoReentry
<1> QED
  BY <1>4, <1>5 DEF EntryInv, Deferring, Entered

\* What the actions make a handler's entry block, after signal and sigaction too.
LEMMA DeferringStep ==
  ASSUME NEW H, Defers(H), IInv, EntryInv, NEW c, Signal(c) \/ Sigaction(c)
  PROVE  Deferring'
<1>0. /\ cpu.at \in Place /\ c \in Program[cpu.at] /\ c.sig \in Sig
      /\ action \in [Sig -> [handler : Handler, flags : SUBSET Flag, mask : SUBSET Sig]]
  <2>1. At(c) /\ c \in CallRecord
    BY CallTyped DEF Signal, Sigaction, IInv
  <2> QED
    BY <2>1 DEF At, IInv, TypeOK, Cpu, CallRecord
<1>1. ASSUME NEW fl, NEW ma, SetAction(c, fl, ma), "nodefer" \notin fl
      PROVE  Deferring'
  <2>1. CASE action' = action
    BY <2>1 DEF EntryInv, Deferring
  <2>2. CASE action' # action
    <3> DEFINE new == [handler |-> c.handler, flags |-> WithRestorer(fl), mask |-> ma \ {SIGKILL}]
    <3>1. c.sig # SIGKILL /\ action' = [action EXCEPT ![c.sig] = new]
      BY <1>1, <2>2 DEF SetAction
    <3>2. "nodefer" \notin new.flags
      BY <1>1 DEF WithRestorer
    <3> HIDE DEF new
    <3> QED
      BY <1>0, <3>1, <3>2, SignalAssumption DEF EntryInv, Deferring
  <2> QED
    BY <2>1, <2>2
<1>2. CASE Signal(c)
  <2>1. "nodefer" \notin SignalFlags(c.sig)
    BY DEF SignalFlags
  <2>2. SetAction(c, SignalFlags(c.sig), {})
    BY <1>2 DEF Signal
  <2> QED
    BY <1>1, <2>1, <2>2
<1>3. CASE Sigaction(c) /\ c.handler = "query"
  BY <1>3 DEF Sigaction, EntryInv, Deferring
<1>4. CASE Sigaction(c) /\ c.handler # "query"
  <2>1. SetAction(c, c.flags, c.set)
    BY <1>4 DEF Sigaction
  <2>2. "nodefer" \notin c.flags
    BY <1>0, <1>4 DEF Sigaction, Defers
  <2> QED
    BY <1>1, <2>1, <2>2
<1> QED
  BY <1>2, <1>3, <1>4, <1>0

\* A stack that is cut has the rest of its frames as they were.
LEMMA EntryCut ==
  ASSUME IInv, EntryInv, NEW n \in Nat, n < Len(frames),
         Len(frames') = n, DOMAIN frames' = 1..n,
         \A k \in 1..n : frames'[k] = frames[k]
  PROVE  /\ NoReentry'
         /\ \A j \in DOMAIN frames' :
              frames'[j].sig \in frames[n + 1].mask /\ frames'[j].sig # SIGKILL
         /\ \A j, k \in DOMAIN frames' : j < k => frames'[j].sig \in frames'[k].mask
<1>1. Len(frames) \in Nat /\ DOMAIN frames = 1..Len(frames)
  BY LenProperties DEF IInv, TypeOK
<1>2. n + 1 \in DOMAIN frames /\ \A k \in 1..n : k \in DOMAIN frames /\ k < n + 1
  BY <1>1
<1>3. NoReentry'
  BY <1>2 DEF EntryInv, NoReentry
<1>4. ASSUME NEW j \in 1..n
      PROVE  frames'[j].sig \in frames[n + 1].mask /\ frames'[j].sig # SIGKILL
  BY <1>2 DEF EntryInv, Waiting
<1>5. ASSUME NEW j \in 1..n, NEW k \in 1..n, j < k
      PROVE  frames'[j].sig \in frames'[k].mask
  BY <1>2, <1>5 DEF EntryInv, Waiting
<1> QED
  BY <1>3, <1>4, <1>5

LEMMA EntryCall ==
  ASSUME NEW H, Defers(H), IInv, JumpDepth, Inside(H), EntryInv, NEW c,
         Sigprocmask(c) \/ Setjmp(c) \/ Longjmp(c) \/ HandlerReturn(c)
  PROVE  EntryInv'
<1>0. Handlers(H) /\ cpu.pc = "user" /\ c \in Program[cpu.at]
  BY DEF Defers, Sigprocmask, Setjmp, Longjmp, HandlerReturn, At
<1>1. Deferring'
  BY DEF Sigprocmask, Setjmp, Longjmp, HandlerReturn, EntryInv, Deferring
<1>2. CASE Sigprocmask(c)
  <2>1. frames # <<>> => c.how \in {"SIG_BLOCK", "other"}
    BY <1>0, <1>2 DEF Sigprocmask, Inside, Defers, BlocksOnly
  <2>2. frames' = frames /\ (frames # <<>> => \A s \in blocked \ {SIGKILL} : s \in blocked')
    BY <1>2, <2>1 DEF Sigprocmask, NewMask
  <2>3. frames = <<>> => DOMAIN frames = {}
    OBVIOUS
  <2> QED
    BY <1>1, <2>2, <2>3 DEF EntryInv, NoReentry, Waiting
<1>3. CASE Setjmp(c)
  <2>1. frames = <<>> /\ frames' = frames
    BY <1>0, <1>3, InsideCall DEF Setjmp
  <2>2. DOMAIN frames' = {}
    BY <2>1
  <2> QED
    BY <1>1, <2>2 DEF EntryInv, NoReentry, Waiting
<1>4. CASE Longjmp(c)
  <2>1. DOMAIN frames' = {}
    BY <1>0, <1>4, InsideCall
  <2> QED
    BY <1>1, <2>1 DEF EntryInv, NoReentry, Waiting
<1>5. CASE HandlerReturn(c)
  <2> DEFINE n == Len(frames) - 1
  <2>1. /\ n \in Nat /\ n + 1 = Len(frames)
        /\ Len(frames') = n /\ DOMAIN frames' = 1..n
        /\ \A k \in 1..n : frames'[k] = frames[k]
        /\ blocked' = frames[n + 1].mask
    BY <1>5, ReturnMoves
  <2> HIDE DEF n
  <2>2. n < Len(frames)
    BY <2>1
  <2>3. /\ NoReentry'
        /\ \A j \in DOMAIN frames' :
             frames'[j].sig \in frames[n + 1].mask /\ frames'[j].sig # SIGKILL
        /\ \A j, k \in DOMAIN frames' : j < k => frames'[j].sig \in frames'[k].mask
    BY <2>1, <2>2, EntryCut
  <2> QED
    BY <1>1, <2>1, <2>3 DEF EntryInv, Waiting
<1> QED
  BY <1>2, <1>3, <1>4, <1>5

LEMMA EntryStep ==
  ASSUME NEW H, Defers(H), IInv, JumpDepth, Inside(H), EntryInv, [Next]_vars
  PROVE  EntryInv'
<1>1. ASSUME Still, Deferring' PROVE EntryInv'
  BY <1>1, EntrySame DEF EntryInv
<1>2. ASSUME NEW c, Call(c) PROVE EntryInv'
  <2>1. CASE Sigprocmask(c) \/ Setjmp(c) \/ Longjmp(c) \/ HandlerReturn(c)
    BY <2>1, EntryCall
  <2>2. CASE Signal(c) \/ Sigaction(c)
    BY <2>2, <1>1, CallMoves, DeferringStep
  <2>3. CASE \/ Alarm(c) \/ Sigpending(c) \/ Other(c) \/ WaitFor(c) \/ Sleep(c)
             \/ Perror(c) \/ Exit(c)
    <3>1. Deferring'
      BY <2>3 DEF Alarm, Sigpending, Other, WaitFor, Sleep, Perror, Exit, EntryInv, Deferring
    <3> QED
      BY <2>3, <3>1, <1>1, CallMoves
  <2> QED
    BY <1>2, <2>1, <2>2, <2>3 DEF Call
<1>3. CASE Deliveries \/ Time \/ Outside \/ Wrapper \/ Wake \/ SleepEnd \/ Input
  <2>1. \/ \E s \in Sig : Entered(s)
        \/ Still /\ UNCHANGED action
    BY <1>3, DeliveryMoves, WorldMoves, BackMoves
  <2>2. ASSUME Still, UNCHANGED action PROVE EntryInv'
    BY <1>1, <2>2 DEF EntryInv, Deferring
  <2> QED
    BY <2>1, <2>2, EntryEntered
<1>4. CASE LongjmpMask
  <2>1. DOMAIN frames = {} /\ UNCHANGED <<frames, action>>
    BY <1>4 DEF LongjmpMask, Inside
  <2> QED
    BY <2>1 DEF EntryInv, NoReentry, Waiting, Deferring
<1>5. CASE UNCHANGED vars
  BY <1>5 DEF vars, kernelVars, libVars, EntryInv, NoReentry, Waiting, Deferring
<1> QED
  BY <1>2, <1>3, <1>4, <1>5 DEF Next, Run, Ended

\* Of every client whose handlers neither unblock a signal nor call setjmp, and that
\* does not ask for SA_NODEFER: no handler is entered again before it has returned or
\* jumped out, whatever its handlers block, wait for and jump to and however the
\* handlers of other signals nest in it (libmini.c:208-213, libmini64.asm:60-64).
THEOREM NoHandlerReentered ==
  ASSUME NEW H, Defers(H)
  PROVE  Spec => []NoReentry
<1>1. Init => EntryInv
  BY SignalAssumption DEF Init, EntryInv, NoReentry, Waiting, Deferring, DefaultAction
<1>2. (IInv /\ JumpDepth /\ Inside(H)) /\ EntryInv /\ [Next]_vars => EntryInv'
  BY EntryStep
<1>3. EntryInv => NoReentry
  BY DEF EntryInv
<1>4. Spec => [](IInv /\ JumpDepth /\ Inside(H))
  BY SpecInside DEF Defers
<1> QED
  BY <1>1, <1>2, <1>3, <1>4, PTL DEF Spec
=============================================================================
