------------------------- MODULE LibminiClientProofs -------------------------
(***************************************************************************)
(* What the clock and the signals do to a program that waits, for every    *)
(* client of a kind: a read under an alarm, a sleep that is slept on, and  *)
(* a blocked alarm that is looked for.                                     *)
(***************************************************************************)
EXTENDS LibminiProofs, FiniteSetTheorems

\* The processor of the main program, under all handlers.
Below == IF frames = <<>> THEN cpu ELSE frames[1].cpu

LEMMA BelowTyped ==
  ASSUME IInv
  PROVE  Below \in Cpu
<1>1. frames \in Seq(Frame) /\ cpu \in Cpu
  BY DEF IInv, TypeOK, Frame
<1>2. ASSUME frames # <<>> PROVE frames[1] \in Frame
  <2>1. Len(frames) \in Nat \ {0}
    BY <1>1, <1>2, EmptySeq, LenProperties
  <2> QED
    BY <1>1, <2>1, ElementOfSeq
<1> QED
  BY <1>1, <1>2 DEF Below, Frame

\* What a delivery leaves for the interrupted code to find.
LEMMA InterruptedIs ==
  ASSUME IInv, NEW s \in Sig
  PROVE  /\ Interrupted(s).at = cpu.at /\ Interrupted(s).pc # "sleep"
         /\ cpu.pc = "sleep" => /\ Interrupted(s).pc = "slept" /\ Interrupted(s).sys = -EINTR
                                /\ Interrupted(s).left = cpu.left
         /\ cpu.pc = "read" => \/ Interrupted(s) = cpu
                               \/ Interrupted(s).pc = "wrap" /\ "restart" \notin action[s].flags
         /\ cpu.pc \notin {"sleep", "pause", "read"} => Interrupted(s) = cpu
<1>1. cpu \in Cpu
  BY DEF IInv, TypeOK
<1>2. ASSUME NEW pc0
      PROVE  /\ [cpu EXCEPT !.pc = pc0, !.sys = -EINTR].at = cpu.at
             /\ [cpu EXCEPT !.pc = pc0, !.sys = -EINTR].pc = pc0
             /\ [cpu EXCEPT !.pc = pc0, !.sys = -EINTR].sys = -EINTR
             /\ [cpu EXCEPT !.pc = pc0, !.sys = -EINTR].left = cpu.left
  BY <1>1 DEF Cpu
<1> QED
  BY <1>1, <1>2 DEF Interrupted

----------------------------------------------------------------------------
(* How a step moves the main program, the clock and what is pending.       *)

\* A call leads to its next place, jumps, returns, or kills the process.
LEMMA CallAt ==
  ASSUME IInv, NEW c, Call(c)
  PROVE  /\ At(c) /\ cpu.pc = "user" /\ c \in Program[cpu.at] /\ c \in CallRecord
         /\ \/ cpu'.at = c.next
            \/ Die /\ frames' = frames /\ jb' = jb
            \/ Longjmp(c) \/ HandlerReturn(c)
<1>0. At(c) /\ cpu \in Cpu
  BY DEF IInv, TypeOK, Call, Alarm, Sigprocmask, Sigpending, Signal, Sigaction, Other, WaitFor, Sleep,
         Setjmp, Longjmp, HandlerReturn, Perror, Exit
<1>1. cpu.pc = "user" /\ c \in Program[cpu.at] /\ c \in CallRecord
  BY <1>0, CallTyped DEF At, IInv
<1>2. ASSUME NEW pc0, NEW sys0, Enter(c, pc0, sys0) PROVE cpu'.at = c.next
  BY <1>0, <1>2 DEF Enter, Cpu
<1>3. CASE Alarm(c) \/ Sigprocmask(c) \/ Sigpending(c) \/ Other(c) \/ WaitFor(c) \/ Exit(c)
  BY <1>0, <1>1, <1>2, <1>3 DEF Alarm, Sigprocmask, Sigpending, Other, WaitFor, Exit, Back
<1>4. CASE Signal(c) \/ Sigaction(c)
  <2>1. (\E flags, mask : SetAction(c, flags, mask)) \/ (Die /\ frames' = frames /\ jb' = jb)
    BY <1>4 DEF Signal, Sigaction, libVars
  <2> QED
    BY <2>1, <1>0, <1>1, <1>2 DEF SetAction, Back
<1>5. CASE Sleep(c) \/ Setjmp(c) \/ Perror(c)
  BY <1>0, <1>1, <1>5 DEF Sleep, Setjmp, Perror, Cpu
<1> QED
  BY <1>0, <1>1, <1>3, <1>4, <1>5 DEF Call

\* The main program goes on itself, is interrupted, is jumped to, or waits for a handler.
LEMMA BelowMoves ==
  ASSUME NEW H, Handlers(H), IInv, JumpDepth, Inside(H), [Next]_vars
  PROVE  \/ frames = <<>> /\ frames' = <<>>
         \/ /\ frames = <<>> /\ UNCHANGED libVars
            /\ \E s \in Sig : Deliver(s, Catch) /\ Entered(s) /\ Below' = Interrupted(s)
         \/ jb.live /\ frames' = <<>> /\ cpu'.at = jb.at /\ cpu'.pc = "jump"
         \/ frames # <<>> /\ Below' = Below
<1>0. frames \in Seq(Frame) /\ cpu \in Cpu
  BY DEF IInv, TypeOK, Frame
<1>1. CASE frames' = frames
  BY <1>1 DEF Below
<1>2. ASSUME NEW c, HandlerReturn(c) PROVE frames # <<>> /\ Below' = Below
  <2> DEFINE n == Len(frames) - 1
  <2>1. /\ n \in Nat /\ Len(frames') = n /\ frames' \in Seq(Frame)
        /\ \A k \in 1..n : frames'[k] = frames[k]
        /\ cpu' = frames[n + 1].cpu
    BY <1>2, ReturnMoves
  <2> HIDE DEF n
  <2>2. CASE n = 0
    <3>1. frames' = <<>>
      BY <2>1, <2>2, EmptySeq
    <3> QED
      BY <1>2, <2>1, <2>2, <3>1 DEF Below, HandlerReturn
  <2>3. CASE n # 0
    <3>1. frames' # <<>> /\ 1 \in 1..n
      BY <2>1, <2>3, EmptySeq
    <3> QED
      BY <1>2, <2>1, <3>1 DEF Below, HandlerReturn
  <2> QED
    BY <2>2, <2>3
<1>3. ASSUME NEW c, Longjmp(c)
      PROVE  jb.live /\ frames' = <<>> /\ cpu'.at = jb.at /\ cpu'.pc = "jump"
  <2>1. frames' = <<>>
    BY <1>3, InsideCall
  <2> QED
    BY <1>0, <1>3, <2>1 DEF Longjmp, Cpu
<1>4. ASSUME NEW c, Call(c) PROVE frames' = frames \/ Longjmp(c) \/ HandlerReturn(c)
  BY <1>4 DEF Call, Alarm, Sigprocmask, Sigpending, Signal, Sigaction, Other, WaitFor, Sleep, Setjmp,
              Perror, Exit
<1>5. ASSUME Deliveries, frames' # frames
      PROVE  \E s \in Sig :
               /\ Deliver(s, Catch) /\ Entered(s) /\ UNCHANGED libVars
               /\ IF frames = <<>> THEN Below' = Interrupted(s) ELSE Below' = Below
  <2>1. PICK s \in Sig : Deliver(s, Catch)
    BY <1>5 DEF Deliveries
  <2>2. DeliverHandled(s, Catch) /\ "restorer" \in action[s].flags
    BY <1>5, <2>1 DEF Deliver, DeliverDefault, DeliverIgnored, DeliverHandled
  <2>3. Entered(s) /\ UNCHANGED libVars
    <3>1. cpu'.at = Catch /\ cpu'.pc = "user"
      BY <1>0, <2>2 DEF DeliverHandled, Cpu
    <3> QED
      BY <1>5, <2>1, <2>2, <3>1 DEF Deliveries, Deliver, Deliverable, DeliverHandled, Entered, FrameOf,
                                    libVars
  <2>4. FrameOf(s) \in Frame
    BY InterruptedSame DEF IInv, TypeOK, Frame, FrameOf
  <2>5. /\ Len(frames) \in Nat /\ Len(frames') = Len(frames) + 1
        /\ frames'[Len(frames) + 1] = FrameOf(s)
        /\ \A k \in 1..Len(frames) : frames'[k] = frames[k]
    BY <1>0, <2>3, <2>4, LenProperties, AppendProperties DEF Entered
  <2>6. frames' # <<>>
    BY <2>5
  <2>7. CASE frames = <<>>
    BY <2>1, <2>3, <2>5, <2>6, <2>7 DEF Below, FrameOf
  <2>8. CASE frames # <<>>
    <3>1. 1 \in 1..Len(frames)
      BY <1>0, <2>5, <2>8, EmptySeq
    <3> QED
      BY <2>1, <2>3, <2>5, <2>6, <2>8, <3>1 DEF Below
  <2> QED
    BY <2>7, <2>8
<1>6. CASE Wrapper \/ Wake \/ SleepEnd \/ LongjmpMask \/ Input \/ Time \/ Outside \/ UNCHANGED vars
  BY <1>1, <1>6 DEF Wrapper, Wake, SleepEnd, LongjmpMask, Input, Time, Tick, Outside, Send, vars,
                    kernelVars
<1>7. CASE Deliveries
  BY <1>1, <1>5, <1>7
<1>8. CASE \E c : Call(c)
  BY <1>1, <1>2, <1>3, <1>4, <1>8
<1> QED
  BY <1>6, <1>7, <1>8 DEF Next, Run, Ended

\* Where a step of the main program itself leads.
LEMMA OwnMoves ==
  ASSUME IInv, [Next]_vars, frames = <<>>, frames' = <<>>
  PROVE  \/ \E c : Call(c) /\ cpu'.at = c.next
         \/ \E c : Longjmp(c)
         \/ cpu'.at = cpu.at /\ (cpu'.pc = "jump" => cpu.pc = "jump")
<1>0. cpu \in Cpu
  BY DEF IInv, TypeOK
<1>1. ASSUME NEW c, Call(c) PROVE cpu'.at = c.next \/ Die \/ Longjmp(c)
  BY <1>1, CallAt DEF HandlerReturn
<1>2. Die => cpu'.at = cpu.at /\ cpu'.pc = "dead"
  BY <1>0 DEF Die, Cpu
<1>3. CASE Deliveries
  <2>1. ASSUME NEW s \in Sig PROVE Append(frames, FrameOf(s)) # <<>>
    BY InterruptedSame DEF IInv, TypeOK, Frame, FrameOf
  <2> QED
    BY <1>3, <2>1, DeliveryMoves DEF Entered, Still
<1>4. CASE LongjmpMask \/ UNCHANGED vars
  BY <1>0, <1>4 DEF LongjmpMask, vars, kernelVars, Cpu
<1> QED
  BY <1>1, <1>2, <1>3, <1>4, WorldMoves, BackMoves DEF Next, Run, Ended, Still

LEMMA CallClock ==
  ASSUME NEW c, Call(c)
  PROVE  /\ sent' = sent
         /\ timer' = timer \/ Alarm(c)
         /\ \/ pending' = pending
            \/ /\ Signal(c) \/ Sigaction(c)
               /\ c.handler = "ign" /\ pending' = pending \ {c.sig}
         /\ slept' = slept \/ Sleep(c)
         /\ jb' = jb \/ Setjmp(c) \/ HandlerReturn(c)
<1>1. CASE Signal(c) \/ Sigaction(c)
  <2>1. (\E flags, mask : SetAction(c, flags, mask)) \/ pending' = pending
    BY <1>1 DEF Signal, Sigaction
  <2>2. UNCHANGED <<timer, sent, slept, jb>>
    BY <1>1 DEF Signal, Sigaction, libVars
  <2> QED
    BY <1>1, <2>1, <2>2 DEF SetAction
<1> QED
  BY <1>1 DEF Call, Alarm, Sigprocmask, Sigpending, Other, WaitFor, Sleep, Setjmp, Longjmp,
              HandlerReturn, Perror, Exit, libVars

LEMMA BackClock ==
  ASSUME Wrapper \/ Wake \/ SleepEnd \/ LongjmpMask \/ Input \/ UNCHANGED vars
  PROVE  UNCHANGED <<timer, pending, sent, slept, jb, action, frames>>
BY DEF Wrapper, Wake, SleepEnd, LongjmpMask, Input, vars, kernelVars, libVars

LEMMA DeliveryClock ==
  ASSUME Deliveries
  PROVE  /\ UNCHANGED <<timer, sent, slept, jb, action>>
         /\ \E s \in Sig : Deliver(s, Catch) /\ s \in pending /\ pending' = pending \ {s}
BY DEF Deliveries, Deliver, Deliverable, libVars

LEMMA WorldClock ==
  ASSUME IInv, Time \/ Outside
  PROVE  /\ UNCHANGED <<jb, action, frames, blocked>>
         /\ \/ /\ Time /\ sent' = sent
               /\ timer' = IF timer > 0 THEN timer - 1 ELSE 0
               /\ pending' = IF timer = 1 THEN Post(SIGALRM) ELSE pending
            \/ /\ Outside /\ UNCHANGED <<timer, cpu, slept>> /\ sent' = sent + 1
               /\ \E s \in Sendable : pending' = Post(s)
BY DEF Time, Tick, Outside, Send, libVars

LEMMA PostIs ==
  ASSUME NEW s
  PROVE  (Post(s) = pending \/ Post(s) = pending \cup {s}) /\ (s \in blocked => s \in Post(s))
BY DEF Post

----------------------------------------------------------------------------
(* A client that sets one alarm.                                           *)

\* No alarm is pending before it has gone off, and there is none before it is set.
AlarmInv(A) ==
  /\ SIGALRM \in pending => timer = 0
  /\ Below.at \notin A => timer = 0 /\ SIGALRM \notin pending
  /\ jb.live => jb.at \in A

\* Once the alarm is set the main program stays where it cannot set another.
LEMMA AlarmIsLast ==
  ASSUME NEW H, NEW A, OneAlarm(H, A), IInv, JumpDepth, Inside(H), AlarmInv(A), [Next]_vars,
         Below.at \in A
  PROVE  Below'.at \in A
<1>0. Handlers(H) /\ cpu \in Cpu
  BY DEF OneAlarm, IInv, TypeOK
<1>1. CASE frames = <<>> /\ frames' = <<>>
  <2>1. Below = cpu /\ Below' = cpu'
    BY <1>1 DEF Below
  <2>2. ASSUME NEW c, Call(c), cpu'.at = c.next PROVE cpu'.at \in A
    BY <2>1, <2>2, CallAt DEF OneAlarm
  <2>3. ASSUME NEW c, Longjmp(c) PROVE cpu'.at \in A
    BY <1>0, <2>3 DEF Longjmp, AlarmInv, Cpu
  <2> QED
    BY <1>1, <2>1, <2>2, <2>3, OwnMoves
<1>2. CASE frames = <<>> /\ \E s \in Sig : Below' = Interrupted(s)
  BY <1>2, InterruptedIs DEF Below
<1>3. CASE jb.live /\ frames' = <<>> /\ cpu'.at = jb.at
  BY <1>3 DEF Below, AlarmInv
<1> QED
  BY <1>0, <1>1, <1>2, <1>3, BelowMoves

\* The alarm is set by the main program, before A.
LEMMA SettingAlarm ==
  ASSUME NEW H, NEW A, OneAlarm(H, A), IInv, Inside(H), NEW c, Alarm(c)
  PROVE  frames = <<>> /\ frames' = <<>> /\ cpu.at \notin A /\ cpu'.at = c.next /\ c.next \in A
<1>1. Call(c) /\ c.op = "alarm" /\ frames' = frames
  BY DEF Call, Alarm
<1>2. cpu.at \in Place /\ cpu.at \notin A /\ c.next \in A
  BY <1>1, CallAt DEF OneAlarm, IInv, TypeOK, Cpu
<1>3. frames = <<>>
  BY <1>2 DEF OneAlarm, Inside
<1>4. cpu'.at = c.next
  BY DEF Alarm, Back, Enter, IInv, TypeOK, Cpu
<1> QED
  BY <1>1, <1>2, <1>3, <1>4

LEMMA AlarmStep ==
  ASSUME NEW H, NEW A, OneAlarm(H, A), IInv, JumpDepth, Inside(H), AlarmInv(A), [Next]_vars
  PROVE  AlarmInv(A)'
<1>0. /\ timer \in Nat /\ cpu.at \in Place
      /\ jb \in [live : BOOLEAN, at : Place, depth : Nat, mask : SUBSET Sig, held : SUBSET Sig]
  BY DEF IInv, TypeOK, Cpu
<1>1. Below'.at \notin A => Below.at \notin A
  BY AlarmIsLast
<1>2. ASSUME jb' = jb, timer = 0 => timer' = 0,
             SIGALRM \in pending' => SIGALRM \in pending \/ timer' = 0,
             SIGALRM \in pending' /\ SIGALRM \notin pending => timer # 0
      PROVE  AlarmInv(A)'
  BY <1>1, <1>2 DEF AlarmInv
<1>3. ASSUME NEW c, Call(c) PROVE AlarmInv(A)'
  <2>0. c \in Program[cpu.at]
    BY <1>3, CallAt
  <2>1. jb'.live => jb'.at \in A
    <3>1. CASE Setjmp(c)
      BY <1>0, <2>0, <3>1 DEF Setjmp, OneAlarm
    <3>2. CASE HandlerReturn(c)
      BY <1>0, <3>2 DEF HandlerReturn, AlarmInv
    <3> QED
      BY <1>3, <3>1, <3>2, CallClock DEF AlarmInv
  <2>2. SIGALRM \in pending' => SIGALRM \in pending
    BY <1>3, CallClock
  <2>3. CASE Alarm(c)
    <3>1. Below.at \notin A /\ Below'.at \in A
      BY <2>3, SettingAlarm DEF Below
    <3> QED
      BY <2>1, <2>2, <3>1 DEF AlarmInv
  <2>4. CASE timer' = timer
    BY <1>1, <2>1, <2>2, <2>4 DEF AlarmInv
  <2> QED
    BY <1>3, <2>3, <2>4, CallClock
<1>4. CASE Deliveries
  BY <1>2, <1>4, DeliveryClock
<1>5. CASE Outside
  <2>1. PICK s \in Sendable : pending' = Post(s)
    BY <1>5, WorldClock DEF Outside, Send
  <2>2. SIGALRM \in pending' => SIGALRM \in pending
    BY <2>1, PostIs DEF OneAlarm
  <2>3. timer' = timer /\ jb' = jb
    BY <1>5 DEF Outside, Send, libVars
  <2> QED
    BY <1>2, <2>2, <2>3 DEF AlarmInv
<1>6. CASE Time
  <2>1. /\ timer' = IF timer > 0 THEN timer - 1 ELSE 0
        /\ pending' = IF timer = 1 THEN Post(SIGALRM) ELSE pending
        /\ jb' = jb
    BY <1>6 DEF Time, Tick
  <2> QED
    BY <1>0, <1>2, <2>1 DEF AlarmInv
<1>7. CASE Wrapper \/ Wake \/ SleepEnd \/ LongjmpMask \/ Input \/ UNCHANGED vars
  BY <1>2, <1>7, BackClock DEF AlarmInv
<1> QED
  BY <1>3, <1>4, <1>5, <1>6, <1>7 DEF Next, Run, Ended

LEMMA SpecAlarm ==
  ASSUME NEW H, NEW A, OneAlarm(H, A)
  PROVE  Spec => [](IInv /\ JumpDepth /\ Inside(H) /\ AlarmInv(A))
<1>1. Init => AlarmInv(A)
  BY DEF Init, AlarmInv
<1>2. (IInv /\ JumpDepth /\ Inside(H)) /\ AlarmInv(A) /\ [Next]_vars => AlarmInv(A)'
  BY AlarmStep
<1>3. Spec => [](IInv /\ JumpDepth /\ Inside(H))
  BY SpecInside DEF OneAlarm
<1> QED
  BY <1>1, <1>2, <1>3, PTL DEF Spec

----------------------------------------------------------------------------
(* A read under an alarm.                                                  *)

\* Only SIGALRM can end a read.
Restarts ==
  \A s \in Sig \ {SIGALRM} : action[s].handler = "fn" => "restart" \in action[s].flags

\* A read that failed, or is about to, has had its alarm.
TimedOut(x) ==
  x.at = "readback" =>
    /\ x.pc \in {"read", "wrap", "user", "dead"}
    /\ x.pc = "wrap" /\ x.sys < 0 => timer = 0
    /\ x.pc = "user" /\ x.val = -1 => timer = 0

ReadInv == Restarts /\ TimedOut(Below) /\ (jb.live => jb.at # "readback")

LEMMA RestartsStep ==
  ASSUME NEW H, NEW A, TimedRead(H, A), IInv, Restarts, [Next]_vars
  PROVE  Restarts'
<1>1. CASE action' = action
  BY <1>1 DEF Restarts
<1>2. ASSUME NEW c, Signal(c) \/ Sigaction(c) PROVE Restarts'
  <2>0. /\ cpu.at \in Place /\ c \in Program[cpu.at] /\ c.sig \in Sig
        /\ action \in [Sig -> [handler : Handler, flags : SUBSET Flag, mask : SUBSET Sig]]
    BY <1>2, CallAt DEF Call, IInv, TypeOK, Cpu, CallRecord
  <2>1. ASSUME NEW fl, NEW ma, SetAction(c, fl, ma), c.sig = SIGALRM \/ "restart" \in fl
        PROVE  Restarts'
    <3>1. CASE action' = action
      BY <3>1 DEF Restarts
    <3>2. CASE action' # action
      <4> DEFINE new == [handler |-> c.handler, flags |-> WithRestorer(fl), mask |-> ma \ {SIGKILL}]
      <4>1. action' = [action EXCEPT ![c.sig] = new]
        BY <2>1, <3>2 DEF SetAction
      <4>2. c.sig = SIGALRM \/ "restart" \in new.flags
        BY <2>1 DEF WithRestorer
      <4> HIDE DEF new
      <4> QED
        BY <2>0, <4>1, <4>2 DEF Restarts
    <3> QED
      BY <3>1, <3>2
  <2>2. CASE Signal(c)
    BY <2>1, <2>2 DEF Signal, SignalFlags
  <2>3. CASE Sigaction(c)
    <3>1. c.op = "sigaction"
      BY <2>3 DEF Sigaction
    <3>2. c.sig = SIGALRM \/ "restart" \in c.flags
      BY <2>0, <3>1 DEF TimedRead
    <3> QED
      BY <2>1, <2>3, <3>2, <1>1 DEF Sigaction
  <2> QED
    BY <1>2, <2>2, <2>3
<1>3. ASSUME NEW c, Call(c) PROVE action' = action \/ Signal(c) \/ Sigaction(c)
  BY <1>3 DEF Call, Alarm, Sigprocmask, Sigpending, Other, WaitFor, Sleep, Setjmp, Longjmp,
              HandlerReturn, Perror, Exit
<1> QED
  BY <1>1, <1>2, <1>3, DeliveryClock, WorldClock, BackClock DEF Next, Run, Ended

\* The clock only runs down, but for alarm.
LEMMA TimerStep ==
  ASSUME IInv, [Next]_vars, timer = 0, ~\E c : Alarm(c)
  PROVE  timer' = 0
BY CallClock, DeliveryClock, WorldClock, BackClock DEF Next, Run, Ended

\* A delivery that enters no handler leaves the program, or ends it.
LEMMA DeliveredSame ==
  ASSUME IInv, Deliveries, frames' = frames
  PROVE  cpu' = cpu \/ (cpu'.at = cpu.at /\ cpu'.pc = "dead")
<1>0. cpu \in Cpu /\ frames \in Seq(Frame)
  BY DEF IInv, TypeOK, Frame
<1>1. PICK s \in Sig : Deliver(s, Catch)
  BY DEF Deliveries
<1>2. Append(frames, FrameOf(s)) # frames
  <2>1. FrameOf(s) \in Frame
    BY InterruptedSame DEF IInv, TypeOK, Frame, FrameOf
  <2>2. Len(Append(frames, FrameOf(s))) = Len(frames) + 1 /\ Len(frames) \in Nat
    BY <1>0, <2>1, AppendProperties, LenProperties
  <2> QED
    BY <2>2
<1>3. cpu' = cpu \/ Die
  BY <1>1, <1>2 DEF Deliver, DeliverDefault, DeliverIgnored, DeliverHandled, FrameOf
<1> QED
  BY <1>0, <1>3 DEF Die, Cpu

\* What the main program does itself.
LEMMA ReadOwn ==
  ASSUME NEW H, NEW A, TimedRead(H, A), IInv, TimedOut(cpu), [Next]_vars, frames = <<>>, frames' = <<>>,
         jb.live => jb.at # "readback", timer = 0 => timer' = 0
  PROVE  TimedOut(cpu)'
<1>0. cpu \in Cpu
  BY DEF IInv, TypeOK
<1>1. ASSUME cpu' = cpu \/ (cpu'.at = cpu.at /\ cpu'.pc = "dead") PROVE TimedOut(cpu)'
  BY <1>1 DEF TimedOut
<1>2. ASSUME NEW c, Call(c) PROVE TimedOut(cpu)'
  <2>1. CASE cpu'.at = c.next
    <3>1. cpu'.at = "readback" => c.op \in {"read", "exit"}
      BY <1>0, <1>2, <2>1, CallAt DEF TimedRead, Cpu
    <3>2. c.op = "read" => cpu'.pc = "read"
      BY <1>0, <1>2 DEF Call, Alarm, Sigprocmask, Sigpending, Signal, Sigaction, Other, WaitFor, Sleep,
                        Setjmp, Longjmp, HandlerReturn, Perror, Exit, Enter, Cpu
    <3>3. c.op = "exit" => cpu'.pc = "dead"
      BY <1>0, <1>2 DEF Call, Alarm, Sigprocmask, Sigpending, Signal, Sigaction, Other, WaitFor, Sleep,
                        Setjmp, Longjmp, HandlerReturn, Perror, Exit, Enter, Cpu
    <3> QED
      BY <3>1, <3>2, <3>3 DEF TimedOut
  <2>2. CASE Die
    BY <1>0, <1>1, <2>2 DEF Die, Cpu
  <2>3. CASE Longjmp(c)
    BY <1>0, <2>3 DEF Longjmp, TimedOut, Cpu
  <2> QED
    BY <1>2, <2>1, <2>2, <2>3, CallAt DEF HandlerReturn
<1>3. CASE Wrapper
  BY <1>0, <1>3 DEF Wrapper, TimedOut, Cpu
<1>4. CASE Input
  BY <1>0, <1>4 DEF Input, TimedOut, Cpu
<1>5. CASE Wake \/ SleepEnd \/ LongjmpMask
  BY <1>0, <1>5 DEF Wake, SleepEnd, LongjmpMask, TimedOut, Cpu
<1>6. CASE Time
  BY <1>0, <1>6 DEF Time, Tick, Sleeping, TimedOut, Cpu
<1>7. CASE Outside \/ UNCHANGED vars
  BY <1>1, <1>7 DEF Outside, Send, vars, kernelVars
<1>8. CASE Deliveries
  BY <1>1, <1>8, DeliveredSame
<1> QED
  BY <1>2, <1>3, <1>4, <1>5, <1>6, <1>7, <1>8 DEF Next, Run, Ended

LEMMA ReadStep ==
  ASSUME NEW H, NEW A, TimedRead(H, A), IInv, JumpDepth, Inside(H), AlarmInv(A), ReadInv, [Next]_vars
  PROVE  ReadInv'
<1>0. /\ OneAlarm(H, A) /\ Handlers(H) /\ cpu \in Cpu
      /\ jb \in [live : BOOLEAN, at : Place, depth : Nat, mask : SUBSET Sig, held : SUBSET Sig]
  BY DEF TimedRead, OneAlarm, IInv, TypeOK
<1>1. jb'.live => jb'.at # "readback"
  <2>1. ASSUME NEW c, Call(c) PROVE jb'.live => jb'.at # "readback"
    <3>0. c \in Program[cpu.at] /\ cpu.at \in Place
      BY <1>0, <2>1, CallAt DEF Cpu
    <3>1. CASE Setjmp(c)
      BY <1>0, <3>0, <3>1 DEF Setjmp, TimedRead
    <3>2. CASE HandlerReturn(c)
      BY <1>0, <3>2 DEF HandlerReturn, ReadInv
    <3> QED
      BY <2>1, <3>1, <3>2, CallClock DEF ReadInv
  <2> QED
    BY <2>1, DeliveryClock, WorldClock, BackClock DEF Next, Run, Ended, ReadInv
<1>2. TimedOut(Below)'
  <2>1. CASE \E c : Alarm(c)
    <3>1. PICK c : Alarm(c)
      BY <2>1
    <3>2. Below'.at = c.next
      BY <1>0, <3>1, SettingAlarm DEF Below
    <3>3. c.next # "readback"
      BY <1>0, <3>1, CallAt DEF Call, Alarm, TimedRead, Cpu
    <3> QED
      BY <3>2, <3>3 DEF TimedOut
  <2>2. CASE ~\E c : Alarm(c)
    <3>1. timer = 0 => timer' = 0
      BY <2>2, TimerStep
    <3>2. CASE frames = <<>> /\ frames' = <<>>
      <4>1. Below = cpu /\ Below' = cpu' /\ TimedOut(cpu)
        BY <3>2 DEF Below, ReadInv, TimedOut
      <4>2. TimedOut(cpu)'
        BY <3>1, <3>2, <4>1, ReadOwn DEF ReadInv
      <4> QED
        BY <4>1, <4>2 DEF TimedOut
    <3>3. ASSUME frames = <<>>, NEW s \in Sig, Deliver(s, Catch), Entered(s), Below' = Interrupted(s)
          PROVE  TimedOut(Below)'
      <4>1. Below = cpu /\ (cpu.at = "readback" => cpu.pc \in {"read", "wrap", "user", "dead"})
        BY <3>3 DEF Below, ReadInv, TimedOut
      <4>2. CASE Interrupted(s) = cpu
        BY <3>1, <3>3, <4>1, <4>2 DEF ReadInv, TimedOut
      <4>3. CASE cpu.at = "readback" /\ Interrupted(s) # cpu
        <5>1. Interrupted(s).pc = "wrap" /\ "restart" \notin action[s].flags
          BY <4>1, <4>3, InterruptedIs
        <5>2. s = SIGALRM
          BY <3>3, <5>1 DEF ReadInv, Restarts, Entered
        <5>3. timer = 0
          BY <3>3, <5>2 DEF Deliver, Deliverable, AlarmInv
        <5> QED
          BY <3>1, <3>3, <5>1, <5>3 DEF TimedOut
      <4>4. CASE cpu.at # "readback"
        BY <3>3, <4>4, InterruptedIs DEF TimedOut
      <4> QED
        BY <4>2, <4>3, <4>4
    <3>4. CASE jb.live /\ frames' = <<>> /\ cpu'.at = jb.at
      BY <3>4 DEF Below, ReadInv, TimedOut
    <3>5. CASE Below' = Below
      BY <3>1, <3>5 DEF ReadInv, TimedOut
    <3> QED
      BY <1>0, <3>2, <3>3, <3>4, <3>5, BelowMoves
  <2> QED
    BY <2>1, <2>2
<1>3. Restarts'
  BY RestartsStep DEF ReadInv
<1> QED
  BY <1>1, <1>2, <1>3 DEF ReadInv

\* Every client that sets one alarm and catches other signals with signal: a read that
\* fails after it has had the alarm, whatever other handlers ran meanwhile and whatever
\* they did (libmini.c:204-216).
THEOREM ReadsEndByAlarm ==
  ASSUME NEW H, NEW A, TimedRead(H, A)
  PROVE  Spec => []ReadEndsByAlarm
<1>1. Init => ReadInv
  BY DEF Init, ReadInv, Restarts, TimedOut, TimedRead, Below, DefaultAction
<1>2. (IInv /\ JumpDepth /\ Inside(H) /\ AlarmInv(A)) /\ ReadInv /\ [Next]_vars => ReadInv'
  BY ReadStep
<1>3. Inside(H) /\ ReadInv => ReadEndsByAlarm
  BY DEF Inside, ReadInv, TimedOut, Below, ReadEndsByAlarm, TimedRead
<1>4. Spec => [](IInv /\ JumpDepth /\ Inside(H) /\ AlarmInv(A))
  BY SpecAlarm DEF TimedRead
<1> QED
  BY <1>1, <1>2, <1>3, <1>4, PTL DEF Spec

----------------------------------------------------------------------------
(* A sleep that is slept on.                                               *)

\* Whole seconds.
LEMMA WholeSeconds ==
  ASSUME NEW x \in Nat
  PROVE  /\ x \div TicksPerSec \in Nat
         /\ (x \div TicksPerSec) * TicksPerSec <= x
         /\ x <= (x \div TicksPerSec) * TicksPerSec + (TicksPerSec - 1)
         /\ x = 0 => x \div TicksPerSec = 0
<1>1. ASSUME NEW d \in Nat \ {0}
      PROVE  /\ x \div d \in Nat /\ (x \div d) * d <= x /\ x <= (x \div d) * d + (d - 1)
             /\ x = 0 => x \div d = 0
  OBVIOUS
<1> QED
  BY <1>1, SignalAssumption

\* The part of a second that a signal can cost.
Fraction == TicksPerSec - 1

LEMMA Seconds ==
  ASSUME NEW m \in Int, NEW n \in Int
  PROVE  /\ m * TicksPerSec \in Int /\ Fraction \in Nat /\ m * Fraction \in Int
         /\ m <= n => m * Fraction <= n * Fraction
         /\ (m + 1) * Fraction = m * Fraction + Fraction
         /\ m >= 0 => m * Fraction >= 0
<1>1. ASSUME NEW d \in Nat
      PROVE  /\ m * d \in Int /\ (m <= n => m * d <= n * d) /\ (m + 1) * d = m * d + d
             /\ m >= 0 => m * d >= 0
  OBVIOUS
<1>2. Fraction \in Nat /\ TicksPerSec \in Nat
  BY SignalAssumption DEF Fraction
<1> QED
  BY <1>1, <1>2

\* The signals that have been sent and are not pending: at least the ones delivered.
Spent == sent - Cardinality(pending)

\* Before the alarm every pending signal has been sent.
CountInv(A) == Below.at \notin A => IsFiniteSet(pending) /\ Spent >= 0

\* What signals have cost so far, with what is left of the sleep.
Early(left) ==
  /\ slept + left <= 3 * TicksPerSec
  /\ 3 * TicksPerSec <= slept + left + Spent * Fraction

LEMMA CardinalityMoves ==
  ASSUME IsFiniteSet(pending), NEW s, NEW set
  PROVE  /\ Cardinality(pending) \in Nat
         /\ set = pending \ {s} =>
              /\ IsFiniteSet(set) /\ Cardinality(set) \in Nat
              /\ Cardinality(set) <= Cardinality(pending)
              /\ s \in pending => Cardinality(set) = Cardinality(pending) - 1
         /\ set = pending \cup {s} =>
              /\ IsFiniteSet(set) /\ Cardinality(set) \in Nat
              /\ Cardinality(set) <= Cardinality(pending) + 1
<1>1. Cardinality(pending) \in Nat
  BY FS_CardinalityType
<1>2. ASSUME set = pending \ {s}
      PROVE  /\ IsFiniteSet(set)
             /\ Cardinality(set) = IF s \in pending THEN Cardinality(pending) - 1
                                                    ELSE Cardinality(pending)
  BY <1>2, FS_RemoveElement
<1>3. ASSUME set = pending \cup {s}
      PROVE  /\ IsFiniteSet(set)
             /\ Cardinality(set) = IF s \in pending THEN Cardinality(pending)
                                                    ELSE Cardinality(pending) + 1
  BY <1>3, FS_AddElement
<1>4. IsFiniteSet(set) => Cardinality(set) \in Nat
  BY FS_CardinalityType
<1> QED
  BY <1>1, <1>2, <1>3, <1>4

\* A signal is spent when it is delivered, and none comes back.
LEMMA SpentStep ==
  ASSUME NEW H, NEW A, OneAlarm(H, A), IInv, AlarmInv(A), CountInv(A), Below.at \notin A, [Next]_vars
  PROVE  /\ IsFiniteSet(pending) /\ Spent \in Int
         /\ IsFiniteSet(pending') /\ Spent' \in Int /\ Spent' >= Spent /\ sent' >= sent
         /\ Deliveries => Spent' = Spent + 1
<1>0. IsFiniteSet(pending) /\ Cardinality(pending) \in Nat /\ sent \in Int
  BY FS_CardinalityType, SignalAssumption DEF CountInv, IInv, TypeOK
<1>1. ASSUME NEW set, NEW n, IsFiniteSet(set), Cardinality(set) \in Nat, n \in Int,
             pending' = set, sent' = n
      PROVE  IsFiniteSet(pending') /\ Spent' = n - Cardinality(set) /\ Spent' \in Int
  BY <1>1 DEF Spent
<1>2. CASE UNCHANGED <<pending, sent>> /\ ~Deliveries
  BY <1>0, <1>2 DEF Spent
<1>3. CASE Deliveries
  <2>1. PICK s \in Sig : s \in pending /\ pending' = pending \ {s} /\ sent' = sent
    BY <1>3, DeliveryClock
  <2>2. /\ IsFiniteSet(pending \ {s}) /\ Cardinality(pending \ {s}) \in Nat
        /\ Cardinality(pending \ {s}) = Cardinality(pending) - 1
    BY <1>0, <2>1, CardinalityMoves
  <2>3. IsFiniteSet(pending') /\ Spent' = sent - Cardinality(pending \ {s}) /\ Spent' \in Int
    BY <1>0, <1>1, <2>1, <2>2
  <2> QED
    BY <1>0, <2>1, <2>2, <2>3 DEF Spent
<1>4. ASSUME ~Deliveries, sent' = sent, NEW s, pending' = pending \ {s}
      PROVE  IsFiniteSet(pending') /\ Spent' \in Int /\ Spent' >= Spent /\ sent' >= sent
  <2>1. /\ IsFiniteSet(pending \ {s}) /\ Cardinality(pending \ {s}) \in Nat
        /\ Cardinality(pending \ {s}) <= Cardinality(pending)
    BY <1>0, CardinalityMoves
  <2>2. IsFiniteSet(pending') /\ Spent' = sent - Cardinality(pending \ {s}) /\ Spent' \in Int
    BY <1>0, <1>1, <1>4, <2>1
  <2> QED
    BY <1>0, <1>4, <2>1, <2>2 DEF Spent
<1>5. CASE ~Deliveries /\ Outside
  <2>1. PICK s \in Sendable : sent' = sent + 1 /\ pending' = Post(s)
    BY <1>5 DEF Outside, Send
  <2>2. pending' = pending \/ pending' = pending \cup {s}
    BY <2>1, PostIs
  <2>3. PICK set : /\ pending' = set /\ IsFiniteSet(set) /\ Cardinality(set) \in Nat
                   /\ Cardinality(set) <= Cardinality(pending) + 1
    <3>1. /\ IsFiniteSet(pending \cup {s}) /\ Cardinality(pending \cup {s}) \in Nat
          /\ Cardinality(pending \cup {s}) <= Cardinality(pending) + 1
      BY <1>0, CardinalityMoves
    <3>2. Cardinality(pending) <= Cardinality(pending) + 1
      BY <1>0
    <3> QED
      BY <1>0, <2>2, <3>1, <3>2
  <2>4. IsFiniteSet(pending') /\ Spent' = sent + 1 - Cardinality(set) /\ Spent' \in Int
    BY <1>0, <1>1, <2>1, <2>3
  <2> QED
    BY <1>0, <1>5, <2>1, <2>3, <2>4 DEF Spent
<1>6. CASE ~Deliveries /\ Time
  <2>1. UNCHANGED <<pending, sent>>
    BY <1>6 DEF Time, Tick, AlarmInv
  <2> QED
    BY <1>2, <1>6, <2>1
<1>7. CASE ~Deliveries /\ \E c : Call(c)
  <2>1. PICK c : Call(c)
    BY <1>7
  <2>2. sent' = sent /\ (pending' = pending \/ pending' = pending \ {c.sig})
    BY <2>1, CallClock
  <2>3. Spent \in Int
    BY <1>0 DEF Spent
  <2>4. CASE pending' = pending
    BY <1>2, <1>7, <2>2, <2>4
  <2>5. CASE pending' = pending \ {c.sig}
    BY <1>0, <1>4, <1>7, <2>2, <2>3, <2>5
  <2> QED
    BY <2>2, <2>4, <2>5
<1>8. CASE Wrapper \/ Wake \/ SleepEnd \/ LongjmpMask \/ Input \/ UNCHANGED vars
  <2>1. UNCHANGED <<pending, sent>>
    BY <1>8, BackClock
  <2> QED
    BY <1>2, <1>3, <2>1
<1> QED
  BY <1>3, <1>5, <1>6, <1>7, <1>8 DEF Next, Run, Ended

LEMMA CountStep ==
  ASSUME NEW H, NEW A, OneAlarm(H, A), IInv, JumpDepth, Inside(H), AlarmInv(A), CountInv(A),
         [Next]_vars
  PROVE  CountInv(A)'
<1>1. Below'.at \notin A => Below.at \notin A
  BY AlarmIsLast
<1>2. ASSUME Below.at \notin A PROVE IsFiniteSet(pending') /\ Spent' >= 0
  <2>1. Spent >= 0
    BY <1>2 DEF CountInv
  <2> QED
    BY <1>2, <2>1, SpentStep
<1> QED
  BY <1>1, <1>2 DEF CountInv

\* Signals that are spent only make it earlier.
LEMMA EarlyKept ==
  ASSUME NEW left \in Int, Early(left), slept \in Int, slept' = slept,
         Spent \in Int, Spent' \in Int, Spent' >= Spent
  PROVE  Early(left)'
<1>1. /\ Spent * Fraction \in Int /\ Spent' * Fraction \in Int
      /\ Spent * Fraction <= Spent' * Fraction
  BY Seconds
<1>2. ASSUME NEW x \in Int, NEW y \in Int, NEW z \in Int, x <= y, z <= slept + left + x
      PROVE  z <= slept + left + y
  BY <1>2
<1>3. 3 * TicksPerSec \in Int
  BY SignalAssumption
<1> QED
  BY <1>1, <1>2, <1>3 DEF Early

\* Handlers do not sleep, and none returns to a sleep that goes on.
Awake ==
  /\ frames # <<>> => cpu.pc # "sleep"
  /\ \A k \in DOMAIN frames : frames[k].cpu.pc # "sleep"

LEMMA AwakeStep ==
  ASSUME NEW H, NEW A, Naps(H, A), IInv, JumpDepth, Inside(H), Awake, [Next]_vars
  PROVE  Awake'
<1>0. cpu \in Cpu /\ frames \in Seq(Frame) /\ Handlers(H)
  BY DEF IInv, TypeOK, Frame, Naps, OneAlarm
<1>1. ASSUME frames' = frames, cpu'.pc = "sleep" => cpu.pc = "sleep" PROVE Awake'
  BY <1>1 DEF Awake
<1>2. ASSUME NEW s \in Sig, Entered(s) PROVE Awake'
  <2>1. FrameOf(s) \in Frame
    BY InterruptedSame DEF IInv, TypeOK, Frame, FrameOf
  <2>2. /\ Len(frames) \in Nat /\ DOMAIN frames = 1..Len(frames)
        /\ DOMAIN frames' = 1..(Len(frames) + 1)
        /\ frames'[Len(frames) + 1] = FrameOf(s)
        /\ \A k \in 1..Len(frames) : frames'[k] = frames[k]
    BY <1>0, <1>2, <2>1, LenProperties, AppendProperties DEF Entered
  <2>3. ASSUME NEW k \in 1..(Len(frames) + 1) PROVE frames'[k].cpu.pc # "sleep"
    <3>1. CASE k = Len(frames) + 1
      BY <2>2, <3>1, InterruptedIs DEF FrameOf
    <3>2. CASE k # Len(frames) + 1
      <4>1. k \in 1..Len(frames)
        BY <2>2, <3>2
      <4> QED
        BY <2>2, <4>1 DEF Awake
    <3> QED
      BY <3>1, <3>2
  <2> QED
    BY <1>2, <2>2, <2>3 DEF Awake, Entered
<1>3. ASSUME NEW c, Call(c) PROVE Awake'
  <2>0. cpu.pc = "user" /\ c \in Program[cpu.at]
    BY <1>3, CallAt
  <2>1. CASE HandlerReturn(c)
    <3> DEFINE n == Len(frames) - 1
    <3>1. /\ n \in Nat /\ DOMAIN frames = 1..(n + 1) /\ DOMAIN frames' = 1..n
          /\ \A k \in 1..n : frames'[k] = frames[k]
          /\ cpu' = frames[n + 1].cpu
      BY <2>1, ReturnMoves
    <3> HIDE DEF n
    <3>2. n + 1 \in DOMAIN frames /\ \A k \in 1..n : k \in DOMAIN frames
      BY <3>1
    <3> QED
      BY <3>1, <3>2 DEF Awake
  <2>2. CASE Longjmp(c)
    <3>1. frames' = <<>> /\ DOMAIN frames' = {}
      BY <1>0, <2>2, InsideCall
    <3> QED
      BY <3>1 DEF Awake
  <2>3. CASE Sleep(c)
    <3>1. c.op = "sleep" /\ frames' = frames
      BY <2>3 DEF Sleep
    <3>2. frames = <<>>
      BY <2>0, <3>1 DEF Naps, Inside
    <3> QED
      BY <3>1, <3>2 DEF Awake
  <2>4. CASE ~(HandlerReturn(c) \/ Longjmp(c) \/ Sleep(c))
    <3>1. frames' = frames
      BY <1>3, <2>4 DEF Call, Alarm, Sigprocmask, Sigpending, Signal, Sigaction, Other, WaitFor, Setjmp,
                        Perror, Exit
    <3>2. cpu'.pc # "sleep"
      <4>1. CASE Setjmp(c) \/ Perror(c)
        BY <1>0, <2>0, <4>1 DEF Setjmp, Perror, Cpu
      <4>2. CASE Signal(c) \/ Sigaction(c)
        BY <1>0, <4>2 DEF Signal, Sigaction, SetAction, Back, Enter, Die, Cpu
      <4>3. CASE Alarm(c) \/ Sigprocmask(c) \/ Sigpending(c) \/ Other(c) \/ WaitFor(c) \/ Exit(c)
        BY <1>0, <4>3 DEF Alarm, Sigprocmask, Sigpending, Other, WaitFor, Exit, Back, Enter, Cpu
      <4> QED
        BY <1>3, <2>4, <4>1, <4>2, <4>3 DEF Call
    <3> QED
      BY <1>1, <3>1, <3>2
  <2> QED
    BY <2>1, <2>2, <2>3, <2>4
<1>4. CASE Deliveries
  <2>1. CASE \E s \in Sig : Entered(s)
    BY <1>2, <2>1
  <2>2. CASE frames' = frames
    BY <1>1, <1>4, <2>2, DeliveredSame
  <2> QED
    BY <1>4, <2>1, <2>2, DeliveryMoves DEF Still
<1>5. CASE Wrapper \/ Wake \/ SleepEnd \/ LongjmpMask \/ Input \/ UNCHANGED vars
  <2>1. cpu'.pc = "sleep" => cpu.pc = "sleep"
    BY <1>0, <1>5 DEF Wrapper, Wake, SleepEnd, LongjmpMask, Input, vars, kernelVars, Cpu
  <2> QED
    BY <1>1, <1>5, <2>1, BackClock
<1>6. CASE Time \/ Outside
  <2>1. cpu'.pc = "sleep" => cpu.pc = "sleep"
    BY <1>0, <1>6 DEF Time, Tick, Sleeping, Outside, Send, Cpu
  <2> QED
    BY <1>1, <1>6, <2>1, WorldClock
<1> QED
  BY <1>3, <1>4, <1>5, <1>6 DEF Next, Run, Ended

\* While a handler runs no time counts as slept.
LEMMA SleptKept ==
  ASSUME NEW H, NEW A, Naps(H, A), IInv, Inside(H), Awake, [Next]_vars, frames # <<>>
  PROVE  slept' = slept
<1>1. ASSUME NEW c, Call(c) PROVE slept' = slept
  <2>1. c \in Program[cpu.at] /\ (Sleep(c) => c.op = "sleep")
    BY <1>1, CallAt DEF Sleep
  <2>2. ~Sleep(c)
    BY <2>1 DEF Naps, Inside
  <2> QED
    BY <1>1, <2>2, CallClock
<1>2. CASE Time
  BY <1>2 DEF Time, Sleeping, Awake
<1> QED
  BY <1>1, <1>2, DeliveryClock, BackClock DEF Next, Run, Ended, Outside, libVars

\* What is left to sleep, when no further signal comes.
Left(x) ==
  CASE x.pc = "sleep" -> x.left
    [] x.pc = "slept" -> (x.left \div TicksPerSec) * TicksPerSec
    [] OTHER -> x.val * TicksPerSec

\* The main program in its sleep, and at its end.
Napping(x) ==
  /\ x.at = "napagain" =>
       /\ x.pc \in {"sleep", "slept", "user", "dead"}
       /\ x.pc = "slept" => x.sys = -EINTR \/ (x.sys = 0 /\ x.left = 0)
       /\ x.pc = "user" => x.val >= 0
       /\ x.pc # "dead" => Early(Left(x))
  /\ x.at = "napped" => x.pc = "dead" /\ Early(0)

LEMMA LeftInt ==
  ASSUME NEW x \in Cpu
  PROVE  Left(x) \in Int
<1>1. x.left \in Nat /\ x.val \in Int /\ x.left \div TicksPerSec \in Int
  BY WholeSeconds DEF Cpu
<1>2. (x.left \div TicksPerSec) * TicksPerSec \in Int /\ x.val * TicksPerSec \in Int
  BY <1>1, Seconds
<1> QED
  BY <1>1, <1>2 DEF Left

\* What handlers, signals and time outside the sleep do to it.
LEMMA NappingKept ==
  ASSUME NEW x \in Cpu, Napping(x), slept \in Int, slept' = slept,
         x.at \in {"napagain", "napped"} =>
           Spent \in Int /\ Spent' \in Int /\ Spent' >= Spent
  PROVE  Napping(x)'
<1>1. ASSUME NEW l \in Int, Early(l), x.at \in {"napagain", "napped"} PROVE Early(l)'
  BY <1>1, EarlyKept
<1> DEFINE l == Left(x)
<1>2. l \in Int
  BY LeftInt
<1>3. x.at = "napagain" /\ x.pc # "dead" => Early(l)'
  <2> HIDE DEF l
  <2>1. x.at = "napagain" /\ x.pc # "dead" => Early(l)
    BY DEF Napping, l
  <2> QED
    BY <1>1, <1>2, <2>1
<1>4. x.at = "napped" => Early(0)'
  BY <1>1 DEF Napping
<1>5. Left(x)' = Left(x)
  BY DEF Left
<1> QED
  BY <1>3, <1>4, <1>5 DEF Napping

\* The end of a sleep, by a signal or by itself, leaves what was left of it in seconds.
LEMMA SecondsEarly ==
  ASSUME NEW l \in Nat, Early(l), slept \in Int, slept' = slept,
         Spent \in Int, Spent' = Spent + 1
  PROVE  Early((l \div TicksPerSec) * TicksPerSec)'
<1> DEFINE r == (l \div TicksPerSec) * TicksPerSec
           a == Spent * Fraction
           b == Spent' * Fraction
<1>1. l \div TicksPerSec \in Int /\ r <= l /\ l <= r + Fraction
  BY WholeSeconds DEF Fraction
<1>2. r \in Int /\ a \in Int /\ b = a + Fraction
  BY <1>1, Seconds
<1>3. slept + l <= 3 * TicksPerSec /\ 3 * TicksPerSec <= slept + l + a
  BY DEF Early
<1>4. slept' + r <= 3 * TicksPerSec /\ 3 * TicksPerSec <= slept' + r + b
  <2> HIDE DEF r, a, b
  <2>1. TicksPerSec \in Int /\ Fraction \in Int
    BY SignalAssumption, Seconds
  <2> QED
    BY <1>1, <1>2, <1>3, <2>1
<1> QED
  BY <1>4 DEF Early

\* The calls that begin the sleep, sleep on, and end it.
LEMMA NapCall ==
  ASSUME NEW H, NEW A, Naps(H, A), IInv, Napping(cpu), NEW c, Call(c), cpu'.at = c.next,
         cpu.at \notin A => Spent \in Int /\ Spent >= 0 /\ Spent' \in Int /\ Spent' >= Spent
  PROVE  Napping(cpu)'
<1>0. /\ cpu \in Cpu /\ cpu.at \in Place /\ cpu.pc = "user" /\ c \in Program[cpu.at] /\ At(c)
      /\ slept \in Int /\ cpu.val \in Int
  BY CallAt DEF IInv, TypeOK, Cpu
<1>1. c.next \in {"napagain", "napped"} => cpu.at \notin A
  BY <1>0 DEF Naps, OneAlarm
<1>2. CASE c.next = "napagain"
  <2>1. c.op = "sleep" /\ c.n = IF cpu.at = "napagain" THEN LastValue ELSE 3
    BY <1>0, <1>2 DEF Naps
  <2>2. Sleep(c)
    BY <2>1 DEF Call, Alarm, Sigprocmask, Sigpending, Signal, Sigaction, Other, WaitFor, Setjmp, Longjmp,
                HandlerReturn, Perror, Exit
  <2>3. /\ cpu'.at = "napagain" /\ cpu'.pc = "sleep" /\ cpu'.left = Arg(c) * TicksPerSec
    BY <1>0, <1>2, <2>2 DEF Sleep, Cpu
  <2>4. ASSUME NEW l, l = Arg(c) * TicksPerSec PROVE Early(l)'
    <3>1. CASE cpu.at = "napagain"
      <4>1. Arg(c) = cpu.val /\ slept' = slept
        BY <2>1, <2>2, <3>1 DEF Sleep, Arg
      <4>2. Early(l) /\ l \in Int
        BY <1>0, <2>4, <3>1, <4>1, Seconds DEF Napping, Left
      <4> QED
        BY <1>0, <1>1, <1>2, <4>1, <4>2, EarlyKept
    <3>2. CASE cpu.at # "napagain"
      <4>1. l = 3 * TicksPerSec /\ slept' = 0
        BY <2>1, <2>2, <2>4, <3>2 DEF Sleep, Arg, LastValue
      <4>2. Spent' \in Int /\ Spent' >= 0
        BY <1>1, <1>2
      <4>3. Spent' * Fraction \in Int /\ Spent' * Fraction >= 0
        BY <4>2, Seconds
      <4>4. 3 * TicksPerSec \in Int
        BY SignalAssumption
      <4>5. ASSUME NEW x \in Int, x >= 0
            PROVE  0 + l <= 3 * TicksPerSec /\ 3 * TicksPerSec <= 0 + l + x
        BY <4>1, <4>4, <4>5
      <4> QED
        BY <4>1, <4>3, <4>5 DEF Early
    <3> QED
      BY <3>1, <3>2
  <2>5. Early(Left(cpu))'
    <3>1. Left(cpu)' = Arg(c) * TicksPerSec
      BY <2>3 DEF Left
    <3>2. \A l : l = Arg(c) * TicksPerSec => Early(l)'
      BY <2>4
    <3> QED
      BY <3>1, <3>2 DEF Early
  <2> QED
    BY <2>3, <2>5 DEF Napping
<1>3. CASE c.next = "napped"
  <2>1. c.op = "exit" /\ (cpu.at = "napped" \/ (cpu.at = "napagain" /\ c.on = "zero"))
    BY <1>0, <1>3 DEF Naps
  <2>2. Exit(c)
    BY <2>1 DEF Call, Alarm, Sigprocmask, Sigpending, Signal, Sigaction, Other, WaitFor, Setjmp, Longjmp,
                HandlerReturn, Perror, Sleep
  <2>3. cpu'.at = "napped" /\ cpu'.pc = "dead" /\ slept' = slept
    BY <1>0, <1>3, <2>2 DEF Exit, Enter, Cpu, libVars
  <2>4. cpu.at = "napagain" /\ cpu.val = 0
    BY <1>0, <2>1 DEF At, Napping
  <2>5. Early(0)
    <3>1. 0 * TicksPerSec = 0
      BY SignalAssumption
    <3> QED
      BY <1>0, <2>4, <3>1 DEF Napping, Left
  <2>6. Early(0)'
    BY <1>0, <1>1, <1>3, <2>3, <2>5, EarlyKept
  <2> QED
    BY <2>3, <2>6 DEF Napping
<1>4. CASE c.next \notin {"napagain", "napped"}
  BY <1>4 DEF Napping
<1> QED
  BY <1>2, <1>3, <1>4

\* The sleep goes on, ends by itself, or has been ended.
LEMMA NapRuns ==
  ASSUME IInv, Napping(cpu), cpu.at \in {"napagain", "napped"}, Wake \/ SleepEnd \/ Time,
         Spent \in Int, Spent' \in Int, Spent' >= Spent
  PROVE  Napping(cpu)'
<1>0. cpu \in Cpu /\ cpu.left \in Nat /\ cpu.val \in Int /\ slept \in Nat
  BY DEF IInv, TypeOK, Cpu
<1>1. ASSUME NEW l \in Int, Early(l), slept' = slept PROVE Early(l)'
  BY <1>0, <1>1, EarlyKept
<1>2. CASE cpu.at = "napped" /\ (Wake \/ SleepEnd)
  BY <1>2 DEF Napping, Wake, SleepEnd
<1>3. CASE cpu.at = "napagain" /\ Wake
  <2>1. /\ cpu'.at = "napagain" /\ cpu'.pc = "slept" /\ cpu'.sys = 0 /\ cpu'.left = 0
        /\ slept' = slept
    BY <1>0, <1>3 DEF Wake, libVars, Cpu
  <2>2. Early(0)
    BY <1>3 DEF Napping, Left, Wake
  <2>3. (cpu'.left \div TicksPerSec) * TicksPerSec = 0
    <3>1. 0 \div TicksPerSec = 0 /\ 0 * TicksPerSec = 0
      BY WholeSeconds, SignalAssumption
    <3> QED
      BY <2>1, <3>1
  <2>4. Left(cpu)' = 0
    BY <2>1, <2>3 DEF Left
  <2>5. Early(Left(cpu))'
    BY <1>1, <2>1, <2>2, <2>4 DEF Early
  <2> QED
    BY <2>1, <2>5 DEF Napping
<1>4. CASE cpu.at = "napagain" /\ SleepEnd
  <2>1. /\ cpu'.at = "napagain" /\ cpu'.pc = "user" /\ slept' = slept
        /\ cpu'.val = SleepRem(cpu.sys, cpu.left, cpu.val)
    BY <1>0, <1>4 DEF SleepEnd, libVars, Cpu
  <2>2. /\ cpu.sys = -EINTR \/ (cpu.sys = 0 /\ cpu.left = 0)
        /\ Early((cpu.left \div TicksPerSec) * TicksPerSec)
    BY <1>4 DEF Napping, Left, SleepEnd
  <2>3. cpu'.val = cpu.left \div TicksPerSec /\ cpu'.val \in Nat
    <3>1. cpu.left \div TicksPerSec \in Nat /\ (cpu.left = 0 => cpu.left \div TicksPerSec = 0)
      BY <1>0, WholeSeconds
    <3> QED
      BY <2>1, <2>2, <3>1 DEF SleepRem
  <2>4. ASSUME NEW l, l = cpu'.val * TicksPerSec PROVE Early(l)'
    <3>1. Early(l) /\ l \in Int
      BY <2>2, <2>3, <2>4, Seconds
    <3> QED
      BY <1>1, <2>1, <3>1
  <2>5. Early(Left(cpu))'
    BY <2>1, <2>4 DEF Left, Early
  <2> QED
    BY <2>1, <2>3, <2>5 DEF Napping
<1>5. CASE Time /\ ~Sleeping
  <2>1. cpu' = cpu /\ slept' = slept
    BY <1>5 DEF Time, Tick
  <2>2. PICK x : x = cpu
    OBVIOUS
  <2>3. Napping(x)'
    BY <1>0, <2>1, <2>2, NappingKept
  <2> QED
    BY <2>1, <2>2, <2>3 DEF Napping, Left
<1>6. CASE Time /\ Sleeping
  <2>1. /\ cpu'.at = cpu.at /\ cpu'.pc = "sleep" /\ cpu'.left = cpu.left - 1 /\ slept' = slept + 1
        /\ cpu.pc = "sleep"
    BY <1>0, <1>6 DEF Time, Tick, Sleeping, Cpu
  <2>2. cpu.at = "napagain" /\ Early(cpu.left)
    BY <2>1 DEF Napping, Left
  <2>3. ASSUME NEW l, l = cpu.left PROVE Early(l - 1)'
    <3>1. l \in Int /\ slept \in Int /\ 3 * TicksPerSec \in Int
      BY <1>0, <2>3, SignalAssumption
    <3>2. /\ Spent * Fraction \in Int /\ Spent' * Fraction \in Int
          /\ Spent * Fraction <= Spent' * Fraction
      BY Seconds
    <3>3. ASSUME NEW x \in Int, NEW y \in Int, NEW z \in Int, x <= y,
                 slept + l <= z, z <= slept + l + x
          PROVE  slept + 1 + (l - 1) <= z /\ z <= slept + 1 + (l - 1) + y
      BY <3>1, <3>3
    <3>4. slept + l <= 3 * TicksPerSec /\ 3 * TicksPerSec <= slept + l + Spent * Fraction
      BY <2>2, <2>3 DEF Early
    <3> QED
      BY <2>1, <3>1, <3>2, <3>3, <3>4 DEF Early
  <2>4. Early(Left(cpu))'
    BY <2>1, <2>3 DEF Left, Early
  <2> QED
    BY <2>1, <2>2, <2>4 DEF Napping
<1> QED
  BY <1>2, <1>3, <1>4, <1>5, <1>6

\* A handler is entered on top of the sleep.
LEMMA NapInterrupted ==
  ASSUME IInv, Napping(cpu), NEW s \in Sig, slept' = slept,
         cpu.at \in {"napagain", "napped"} =>
           Spent \in Int /\ Spent' \in Int /\ Spent' = Spent + 1,
         Alive, Below' = Interrupted(s)
  PROVE  Napping(Below)'
<1>0. cpu \in Cpu /\ cpu.left \in Nat /\ slept \in Int
  BY DEF IInv, TypeOK, Cpu
<1>1. CASE cpu.at \notin {"napagain", "napped"}
  BY <1>1, InterruptedIs DEF Napping
<1>2. CASE cpu.at \in {"napagain", "napped"} /\ cpu.pc # "sleep"
  <2>1. cpu.pc \in {"slept", "user"}
    BY <1>2 DEF Napping, Alive
  <2>2. Below' = cpu
    BY <2>1, InterruptedIs
  <2>3. PICK x : x = cpu
    OBVIOUS
  <2>4. Napping(x)'
    BY <1>0, <1>2, <2>3, NappingKept
  <2> QED
    BY <2>2, <2>3, <2>4 DEF Napping, Left
<1>3. CASE cpu.at \in {"napagain", "napped"} /\ cpu.pc = "sleep"
  <2>1. cpu.at = "napagain" /\ Early(cpu.left)
    BY <1>3 DEF Napping, Left
  <2>2. /\ Below'.at = "napagain" /\ Below'.pc = "slept" /\ Below'.sys = -EINTR
        /\ Below'.left = cpu.left
    BY <1>3, <2>1, InterruptedIs
  <2>3. ASSUME NEW l, l = cpu.left PROVE Early((l \div TicksPerSec) * TicksPerSec)'
    BY <1>0, <1>3, <2>1, <2>3, SecondsEarly
  <2>4. Early(Left(Below))'
    BY <2>2, <2>3 DEF Left, Early
  <2> QED
    BY <2>2, <2>4 DEF Napping
<1> QED
  BY <1>1, <1>2, <1>3

NapInv(A) == CountInv(A) /\ Awake /\ Napping(Below)

\* What the main program does itself.
LEMMA NapOwn ==
  ASSUME NEW H, NEW A, Naps(H, A), IInv, AlarmInv(A), CountInv(A), Napping(cpu), [Next]_vars,
         frames = <<>>, frames' = <<>>
  PROVE  Napping(cpu)'
<1>0. /\ cpu \in Cpu /\ OneAlarm(H, A) /\ {"napagain", "napped"} \cap A = {} /\ slept \in Int
      /\ Below = cpu
  BY DEF IInv, TypeOK, Naps, Below
<1>1. cpu.at \notin A => /\ Spent \in Int /\ Spent >= 0 /\ Spent' \in Int /\ Spent' >= Spent
  <2>1. cpu.at \notin A => Spent >= 0
    BY <1>0 DEF CountInv
  <2> QED
    BY <1>0, <2>1, SpentStep
<1>2. ASSUME cpu'.at = cpu.at, cpu'.pc = "dead", cpu.pc # "dead" PROVE Napping(cpu)'
  BY <1>2 DEF Napping
<1>3. ASSUME cpu' = cpu, slept' = slept PROVE Napping(cpu)'
  <2>1. PICK x : x = cpu
    OBVIOUS
  <2>2. Napping(x)'
    BY <1>0, <1>1, <1>3, <2>1, NappingKept
  <2> QED
    BY <1>3, <2>1, <2>2 DEF Napping, Left
<1>4. ASSUME NEW c, Call(c) PROVE Napping(cpu)'
  <2>1. CASE cpu'.at = c.next
    BY <1>1, <1>4, <2>1, NapCall
  <2>2. CASE Die
    <3>1. cpu.pc = "user" /\ cpu'.at = cpu.at /\ cpu'.pc = "dead"
      BY <1>0, <1>4, <2>2, CallAt DEF Die, Cpu
    <3> QED
      BY <1>2, <3>1
  <2>3. CASE Longjmp(c)
    <3>1. cpu'.at = jb.at /\ jb.at \in A
      BY <1>0, <2>3 DEF Longjmp, AlarmInv, Cpu
    <3> QED
      BY <1>0, <3>1 DEF Napping
  <2> QED
    BY <1>4, <2>1, <2>2, <2>3, CallAt DEF HandlerReturn
<1>5. CASE Wake \/ SleepEnd \/ Time
  <2>1. cpu'.at = cpu.at
    BY <1>0, <1>5 DEF Wake, SleepEnd, Time, Tick, Cpu
  <2>2. CASE cpu.at \in {"napagain", "napped"}
    BY <1>0, <1>1, <1>5, <2>2, NapRuns
  <2> QED
    BY <2>1, <2>2 DEF Napping
<1>6. CASE Wrapper \/ Input \/ LongjmpMask
  <2>1. cpu'.at = cpu.at /\ cpu.pc \in {"wrap", "read", "jump"}
    BY <1>0, <1>6 DEF Wrapper, Input, LongjmpMask, Cpu
  <2> QED
    BY <2>1 DEF Napping
<1>7. CASE Outside \/ UNCHANGED vars
  BY <1>3, <1>7 DEF Outside, Send, vars, kernelVars, libVars
<1>8. CASE Deliveries
  <2>1. slept' = slept /\ cpu.pc # "dead"
    BY <1>8 DEF Deliveries, Deliver, Alive, libVars
  <2> QED
    BY <1>2, <1>3, <1>8, <2>1, DeliveredSame
<1> QED
  BY <1>4, <1>5, <1>6, <1>7, <1>8 DEF Next, Run, Ended

LEMMA NapStep ==
  ASSUME NEW H, NEW A, Naps(H, A), IInv, JumpDepth, Inside(H), AlarmInv(A), NapInv(A), [Next]_vars
  PROVE  NapInv(A)'
<1>0. /\ OneAlarm(H, A) /\ Handlers(H) /\ {"napagain", "napped"} \cap A = {} /\ slept \in Int
      /\ CountInv(A) /\ Awake /\ Napping(Below)
  BY DEF Naps, OneAlarm, IInv, TypeOK, NapInv
<1>1. CountInv(A)' /\ Awake'
  BY <1>0, CountStep, AwakeStep
<1>2. CASE frames = <<>> /\ frames' = <<>>
  <2>1. Below = cpu /\ Below' = cpu'
    BY <1>2 DEF Below
  <2>2. Napping(cpu)
    BY <1>0, <2>1
  <2>3. Napping(cpu)'
    BY <1>0, <1>2, <2>2, NapOwn
  <2> QED
    BY <1>1, <2>1, <2>3 DEF NapInv, Napping, Left
<1>3. ASSUME frames = <<>>, UNCHANGED libVars, NEW s \in Sig, Deliver(s, Catch),
             Below' = Interrupted(s)
      PROVE  NapInv(A)'
  <2>1. Below = cpu
    BY <1>3 DEF Below
  <2>2. Deliveries
    BY <1>3 DEF Deliveries
  <2>3. Napping(cpu) /\ slept' = slept /\ Alive
    BY <1>0, <1>3, <2>1 DEF libVars, Deliver
  <2>4. cpu.at \in {"napagain", "napped"} =>
          Spent \in Int /\ Spent' \in Int /\ Spent' = Spent + 1
    BY <1>0, <2>1, <2>2, SpentStep
  <2>5. Napping(Below)'
    BY <1>3, <2>3, <2>4, NapInterrupted
  <2> QED
    BY <1>1, <2>5 DEF NapInv
<1>4. CASE jb.live /\ frames' = <<>> /\ cpu'.at = jb.at
  <2>1. Below'.at \in A
    BY <1>4 DEF Below, AlarmInv
  <2>2. Napping(Below)'
    BY <1>0, <2>1 DEF Napping
  <2> QED
    BY <1>1, <2>2 DEF NapInv
<1>5. CASE frames # <<>> /\ Below' = Below
  <2>1. slept' = slept
    BY <1>0, <1>5, SleptKept
  <2>2. PICK x : x = Below
    OBVIOUS
  <2>3. x.at \in {"napagain", "napped"} => Spent \in Int /\ Spent' \in Int /\ Spent' >= Spent
    BY <1>0, <2>2, SpentStep
  <2>4. x \in Cpu
    BY <2>2, BelowTyped
  <2>5. Napping(x)'
    BY <1>0, <2>1, <2>2, <2>3, <2>4, NappingKept
  <2>6. Napping(Below)'
    BY <1>5, <2>2, <2>5 DEF Napping, Left
  <2> QED
    BY <1>1, <2>6 DEF NapInv
<1> QED
  BY <1>0, <1>2, <1>3, <1>4, <1>5, BelowMoves

\* Every client that sleeps on for what sleep returned until that is nothing, with any
\* grain of time and any signals, and whatever its handlers do but sleep: it has slept
\* the three seconds, less than a second short for each signal (libmini64.asm:146-167).
THEOREM NapsAreLongEnough ==
  ASSUME NEW H, NEW A, Naps(H, A)
  PROVE  Spec => []NapLength
<1>1. Init => NapInv(A)
  <2> SUFFICES ASSUME Init PROVE NapInv(A)
    OBVIOUS
  <2>1. IsFiniteSet(pending) /\ Cardinality(pending) = 0
    BY FS_EmptySet DEF Init
  <2>2. Spent = 0
    BY <2>1 DEF Init, Spent
  <2>3. Napping(Below) /\ Awake
    BY DEF Init, Below, Napping, Naps, Awake
  <2> QED
    BY <2>1, <2>2, <2>3 DEF NapInv, CountInv
<1>2. (IInv /\ JumpDepth /\ Inside(H) /\ AlarmInv(A)) /\ NapInv(A) /\ [Next]_vars => NapInv(A)'
  BY NapStep
<1>3. IInv /\ Inside(H) /\ NapInv(A) => NapLength
  <2> SUFFICES ASSUME IInv, Inside(H), NapInv(A), cpu.at = "napped"
               PROVE  /\ slept <= 3 * TicksPerSec
                      /\ slept + sent * Fraction >= 3 * TicksPerSec
    BY DEF NapLength, Fraction
  <2>1. Below = cpu /\ cpu.at \notin A
    BY DEF Inside, Below, Naps, OneAlarm
  <2>2. Early(0) /\ IsFiniteSet(pending)
    BY <2>1 DEF NapInv, Napping, CountInv
  <2>3. Spent \in Int /\ sent \in Int /\ Spent <= sent /\ slept \in Int
    BY <2>2, FS_CardinalityType, SignalAssumption DEF Spent, IInv, TypeOK
  <2>4. /\ Spent * Fraction \in Int /\ sent * Fraction \in Int
        /\ Spent * Fraction <= sent * Fraction
    BY <2>3, Seconds
  <2>5. 3 * TicksPerSec \in Int
    BY SignalAssumption
  <2>6. ASSUME NEW x \in Int, NEW y \in Int, NEW z \in Int, x <= y, slept + 0 <= z,
               z <= slept + 0 + x
        PROVE  slept <= z /\ slept + y >= z
    BY <2>3, <2>6
  <2> QED
    BY <2>2, <2>4, <2>5, <2>6 DEF Early
<1>4. Spec => [](IInv /\ JumpDepth /\ Inside(H) /\ AlarmInv(A))
  BY SpecAlarm DEF Naps
<1> QED
  BY <1>1, <1>2, <1>3, <1>4, PTL DEF Spec

----------------------------------------------------------------------------
(* A blocked alarm that is looked for.                                     *)

\* SIGALRM waits, now and wherever a frame returns to.
Shut == SIGALRM \in blocked /\ \A k \in DOMAIN frames : SIGALRM \in frames[k].mask

\* In B, where no jump leads, SIGALRM waits.
ShutInv(B) ==
  /\ Below.at \in B => Below.pc # "jump" /\ Shut
  /\ jb.live => jb.at \notin B

\* The alarm that is looked for is set, or pending.
Pends == Below.at \in Looks /\ timer = 0 => SIGALRM \in pending

\* Only a jump ends the waiting from within B and the handlers above it.
LEMMA ShutKept ==
  ASSUME NEW H, NEW B, Watches(H, B), IInv, JumpDepth, Inside(H), [Next]_vars,
         Below.at \in B, Below.pc # "jump", Shut, ~\E c : Longjmp(c)
  PROVE  Shut'
<1>0. frames \in Seq(Frame) /\ cpu.at \in H \cup B /\ cpu.at \in Place /\ cpu.pc # "jump"
  BY DEF IInv, TypeOK, Frame, Cpu, Below, Inside
<1>1. CASE UNCHANGED <<frames, blocked>>
  BY <1>1 DEF Shut
<1>2. ASSUME NEW c, Sigprocmask(c) PROVE Shut'
  <2>1. c.how \in {"SIG_BLOCK", "other"}
    BY <1>0, <1>2 DEF Sigprocmask, At, Watches, BlocksOnly
  <2>2. frames' = frames /\ SIGALRM \in blocked'
    BY <1>2, <2>1, SignalAssumption DEF Sigprocmask, NewMask, Shut
  <2> QED
    BY <2>2 DEF Shut
<1>3. ASSUME NEW c, HandlerReturn(c) PROVE Shut'
  <2> DEFINE n == Len(frames) - 1
  <2>1. /\ n \in Nat /\ DOMAIN frames = 1..(n + 1) /\ DOMAIN frames' = 1..n
        /\ \A k \in 1..n : frames'[k] = frames[k]
        /\ blocked' = frames[n + 1].mask
    BY <1>3, ReturnMoves
  <2> HIDE DEF n
  <2>2. n + 1 \in DOMAIN frames /\ \A k \in 1..n : k \in DOMAIN frames
    BY <2>1
  <2> QED
    BY <2>1, <2>2 DEF Shut
<1>4. ASSUME NEW s \in Sig, Entered(s) PROVE Shut'
  <2> DEFINE n == Len(frames)
  <2>1. FrameOf(s) \in Frame
    BY InterruptedSame DEF IInv, TypeOK, Frame, FrameOf
  <2>2. /\ n \in Nat /\ DOMAIN frames = 1..n /\ DOMAIN frames' = 1..(n + 1)
        /\ frames'[n + 1] = FrameOf(s)
        /\ \A k \in 1..n : frames'[k] = frames[k]
    BY <1>0, <1>4, <2>1, LenProperties, AppendProperties DEF Entered
  <2>3. SIGALRM \in blocked' /\ FrameOf(s).mask = blocked
    BY <1>4 DEF Entered, FrameOf, Shut
  <2>4. ASSUME NEW k \in 1..(n + 1) PROVE SIGALRM \in frames'[k].mask
    <3>1. k = n + 1 \/ k \in 1..n
      BY <2>2
    <3> QED
      BY <2>2, <2>3, <3>1 DEF Shut
  <2> QED
    BY <2>2, <2>3, <2>4 DEF Shut
<1>5. ASSUME NEW c, Call(c) PROVE Shut'
  <2>1. CASE Setjmp(c)
    BY <1>1, <2>1 DEF Setjmp
  <2> QED
    BY <1>1, <1>2, <1>3, <1>5, <2>1, CallMoves DEF Call, Still
<1>6. CASE Deliveries \/ Time \/ Outside \/ Wrapper \/ Wake \/ SleepEnd \/ Input
  BY <1>1, <1>4, <1>6, DeliveryMoves, WorldMoves, BackMoves DEF Still
<1>7. CASE LongjmpMask \/ UNCHANGED vars
  BY <1>0, <1>1, <1>7 DEF LongjmpMask, vars, kernelVars
<1> QED
  BY <1>5, <1>6, <1>7 DEF Next, Run, Ended

\* Where the main program comes from when it is in B, and in Looks.
LEMMA WatchMoves ==
  ASSUME NEW H, NEW B, Watches(H, B), IInv, JumpDepth, Inside(H), ShutInv(B), [Next]_vars,
         Below'.at \in B
  PROVE  /\ ~\E c : Longjmp(c)
         /\ Below.at \in B => Below'.pc # "jump"
         /\ Below'.at = Below.at \/ /\ frames = <<>> /\ frames' = <<>>
                                    /\ \E c : Call(c) /\ Below'.at = c.next
<1>0. Handlers(H) /\ cpu \in Cpu
  BY DEF Watches, IInv, TypeOK
<1>1. ASSUME NEW c, Longjmp(c) PROVE FALSE
  <2>1. frames' = <<>>
    BY <1>0, <1>1, InsideCall
  <2>2. Below'.at = jb.at /\ jb.live
    BY <1>0, <1>1, <2>1 DEF Longjmp, Below, Cpu
  <2> QED
    BY <2>2 DEF ShutInv
<1>2. CASE frames = <<>> /\ frames' = <<>>
  <2>1. Below = cpu /\ Below' = cpu'
    BY <1>2 DEF Below
  <2>2. ASSUME NEW c, Call(c) PROVE cpu'.pc # "jump"
    <3>1. CASE \/ Alarm(c) \/ Sigpending(c) \/ Other(c) \/ WaitFor(c) \/ Sleep(c) \/ Perror(c)
               \/ Exit(c) \/ Signal(c) \/ Sigaction(c)
      <4>1. Still /\ cpu.pc = "user"
        BY <2>2, <3>1, CallMoves, CallAt
      <4> QED
        BY <4>1 DEF Still
    <3>2. CASE Sigprocmask(c)
      BY <1>0, <3>2 DEF Sigprocmask, Back, Enter, Cpu
    <3>3. CASE Setjmp(c)
      BY <1>0, <3>3, CallAt, <2>2 DEF Setjmp, Cpu
    <3> QED
      BY <1>1, <1>2, <2>2, <3>1, <3>2, <3>3 DEF Call, HandlerReturn
  <2>3. Below.at \in B => cpu.pc # "jump"
    BY <2>1 DEF ShutInv
  <2> QED
    BY <1>1, <1>2, <2>1, <2>2, <2>3, OwnMoves
<1>3. ASSUME frames = <<>>, NEW s \in Sig, Below' = Interrupted(s)
      PROVE  Below'.at = Below.at /\ (Below.at \in B => Below'.pc # "jump")
  <2>1. Below = cpu
    BY <1>3 DEF Below
  <2> QED
    BY <1>3, <2>1, InterruptedSame DEF ShutInv
<1>4. CASE jb.live /\ frames' = <<>> /\ cpu'.at = jb.at
  BY <1>4 DEF Below, ShutInv
<1>5. CASE Below' = Below
  BY <1>1, <1>5 DEF ShutInv
<1> QED
  BY <1>0, <1>1, <1>2, <1>3, <1>4, <1>5, BelowMoves

LEMMA ShutStep ==
  ASSUME NEW H, NEW B, Watches(H, B), IInv, JumpDepth, Inside(H), ShutInv(B), [Next]_vars
  PROVE  ShutInv(B)'
<1>0. /\ cpu \in Cpu
      /\ jb \in [live : BOOLEAN, at : Place, depth : Nat, mask : SUBSET Sig, held : SUBSET Sig]
  BY DEF IInv, TypeOK
<1>1. jb'.live => jb'.at \notin B
  <2>1. ASSUME NEW c, Call(c) PROVE jb'.live => jb'.at \notin B
    <3>0. c \in Program[cpu.at] /\ cpu.at \in Place
      BY <1>0, <2>1, CallAt DEF Cpu
    <3>1. CASE Setjmp(c)
      BY <1>0, <3>0, <3>1 DEF Setjmp, Watches
    <3>2. CASE HandlerReturn(c)
      BY <1>0, <3>2 DEF HandlerReturn, ShutInv
    <3> QED
      BY <2>1, <3>1, <3>2, CallClock DEF ShutInv
  <2> QED
    BY <2>1, DeliveryClock, WorldClock, BackClock DEF Next, Run, Ended, ShutInv
<1>2. ASSUME Below'.at \in B, Below.at \in B PROVE Below'.pc # "jump" /\ Shut'
  <2>1. Below'.pc # "jump" /\ ~\E c : Longjmp(c)
    BY <1>2, WatchMoves
  <2> QED
    BY <1>2, <2>1, ShutKept DEF ShutInv
<1>3. ASSUME Below'.at \in B, Below.at \notin B PROVE Below'.pc # "jump" /\ Shut'
  <2>1. frames = <<>> /\ frames' = <<>>
    BY <1>3, WatchMoves
  <2>2. PICK c : Call(c) /\ Below'.at = c.next
    BY <1>3, WatchMoves
  <2>3. Below = cpu /\ Below' = cpu'
    BY <2>1 DEF Below
  <2>4. c.op = "sigprocmask" /\ c.how \in {"SIG_BLOCK", "SIG_SETMASK"} /\ SIGALRM \in c.set
    BY <1>0, <1>3, <2>2, <2>3, CallAt DEF Watches, Cpu
  <2>5. Sigprocmask(c)
    BY <2>2, <2>4 DEF Call, Alarm, Sigpending, Signal, Sigaction, Other, WaitFor, Sleep, Setjmp, Longjmp,
                      HandlerReturn, Perror, Exit
  <2>6. SIGALRM \in blocked' /\ cpu'.pc = "wrap"
    BY <1>0, <2>4, <2>5, SignalAssumption DEF Sigprocmask, NewMask, Back, Enter, Cpu
  <2>7. DOMAIN frames' = {}
    BY <2>1
  <2> QED
    BY <2>3, <2>6, <2>7 DEF Shut
<1> QED
  BY <1>1, <1>2, <1>3 DEF ShutInv

\* The places a call leads to while the alarm is looked for: Looks, or a handler's.
LEMMA LookingCalls ==
  ASSUME NEW H, NEW B, Watches(H, B), IInv, Inside(H), NEW c, Call(c), cpu'.at = c.next,
         Below.at \in Looks, Below'.at \in Looks, frames' = frames
  PROVE  /\ cpu.at \in Place /\ c \in Program[cpu.at] /\ c.next \in Looks \cup H
         /\ c.op = "alarm" => c.n > 0
         /\ c.op \in {"signal", "sigaction"} /\ c.sig = SIGALRM => c.handler # "ign"
<1>1. cpu.at \in Place /\ c \in Program[cpu.at]
  BY CallAt DEF IInv, TypeOK, Cpu
<1>2. c.next \in Looks \cup H
  <2>1. CASE frames = <<>>
    BY <2>1 DEF Below
  <2>2. CASE frames # <<>>
    BY <1>1, <2>2 DEF Inside, Watches, Handlers
  <2> QED
    BY <2>1, <2>2
<1> QED
  BY <1>1, <1>2 DEF Watches

LEMMA PendsCall ==
  ASSUME NEW H, NEW B, Watches(H, B), IInv, Inside(H), Pends, NEW c, Call(c),
         Below.at \in Looks, Below'.at \in Looks
  PROVE  Pends'
<1>0. cpu \in Cpu /\ timer \in Nat /\ c \in CallRecord
  BY CallAt DEF IInv, TypeOK
<1>1. ASSUME NEW pc0, NEW sys0, Enter(c, pc0, sys0) PROVE cpu'.at = c.next
  BY <1>0, <1>1 DEF Enter, Cpu
<1>2. CASE Alarm(c)
  <2>1. cpu'.at = c.next /\ frames' = frames /\ c.op = "alarm" /\ timer' = AlarmTicks(c.n)
    BY <1>1, <1>2 DEF Alarm, Back
  <2>2. c.n > 0 /\ c.n \in Int
    BY <1>0, <2>1, LookingCalls DEF CallRecord
  <2>3. c.n * TicksPerSec # 0
    <3>1. ASSUME NEW x \in Nat \ {0}, NEW y \in Nat \ {0} PROVE x * y # 0
      OBVIOUS
    <3> QED
      BY <2>2, <3>1, SignalAssumption
  <2> QED
    BY <2>1, <2>3 DEF AlarmTicks, Pends
<1>3. CASE Signal(c) \/ Sigaction(c)
  <2>1. timer' = timer /\ frames' = frames /\ c.op \in {"signal", "sigaction"}
    BY <1>3 DEF Signal, Sigaction
  <2>2. (\E flags, mask : SetAction(c, flags, mask)) \/ pending' = pending
    BY <1>3 DEF Signal, Sigaction
  <2>3. CASE pending' # pending
    <3>1. c.handler = "ign" /\ pending' = pending \ {c.sig} /\ cpu'.at = c.next
      BY <1>1, <2>2, <2>3 DEF SetAction, Back
    <3>2. c.sig # SIGALRM
      BY <2>1, <3>1, LookingCalls
    <3> QED
      BY <2>1, <3>1, <3>2 DEF Pends
  <2> QED
    BY <2>1, <2>3 DEF Pends
<1> QED
  BY <1>2, <1>3, CallClock DEF Pends

LEMMA PendsStep ==
  ASSUME NEW H, NEW B, Watches(H, B), IInv, JumpDepth, Inside(H), ShutInv(B), Pends, [Next]_vars
  PROVE  Pends'
<1>0. timer \in Nat /\ cpu.at \in Place /\ Looks \subseteq B
  BY DEF IInv, TypeOK, Cpu, Watches
<1>1. ASSUME Below'.at \in Looks, Below.at \notin Looks PROVE timer' # 0
  <2>1. frames = <<>> /\ frames' = <<>>
    BY <1>0, <1>1, WatchMoves
  <2>2. PICK c : Call(c) /\ Below'.at = c.next
    BY <1>0, <1>1, WatchMoves
  <2>3. Below = cpu
    BY <2>1 DEF Below
  <2>4. c \in Program[cpu.at] /\ c \in CallRecord
    BY <2>2, CallAt
  <2>5. c.op = "alarm" /\ c.n > 0 /\ c.n \in Int
    BY <1>0, <1>1, <2>2, <2>3, <2>4 DEF Watches, CallRecord
  <2>6. timer' = c.n * TicksPerSec
    BY <2>2, <2>5 DEF Call, Alarm, AlarmTicks, Sigprocmask, Sigpending, Signal, Sigaction, Other, WaitFor,
                      Sleep, Setjmp, Longjmp, HandlerReturn, Perror, Exit
  <2>7. ASSUME NEW x \in Nat \ {0}, NEW y \in Nat \ {0} PROVE x * y # 0
    OBVIOUS
  <2> QED
    BY <2>5, <2>6, <2>7, SignalAssumption
<1>2. ASSUME Below'.at \in Looks, Below.at \in Looks PROVE Pends'
  <2>1. SIGALRM \in blocked
    BY <1>0, <1>2 DEF ShutInv, Shut
  <2>2. ASSUME timer' = timer, SIGALRM \in pending => SIGALRM \in pending' PROVE Pends'
    BY <1>2, <2>2 DEF Pends
  <2>3. CASE \E c : Call(c)
    BY <1>2, <2>3, PendsCall
  <2>4. CASE Deliveries
    <3>1. timer' = timer
      BY <2>4, DeliveryClock
    <3>2. PICK s \in Sig : Deliver(s, Catch)
      BY <2>4 DEF Deliveries
    <3>3. s # SIGALRM /\ pending' = pending \ {s}
      BY <2>1, <3>2 DEF Deliver, Deliverable
    <3> QED
      BY <2>2, <3>1, <3>3
  <2>5. CASE Outside
    BY <2>2, <2>5, PostIs, WorldClock DEF Outside, Send
  <2>6. CASE Time
    <3>1. /\ timer' = IF timer > 0 THEN timer - 1 ELSE 0
          /\ pending' = IF timer = 1 THEN Post(SIGALRM) ELSE pending
      BY <2>6 DEF Time, Tick
    <3>2. CASE timer = 1
      BY <2>1, <3>1, <3>2, PostIs DEF Pends
    <3>3. CASE timer # 1
      BY <1>0, <1>2, <3>1, <3>3 DEF Pends
    <3> QED
      BY <3>2, <3>3
  <2>7. CASE Wrapper \/ Wake \/ SleepEnd \/ LongjmpMask \/ Input \/ UNCHANGED vars
    BY <2>2, <2>7, BackClock
  <2> QED
    BY <2>3, <2>4, <2>5, <2>6, <2>7 DEF Next, Run, Ended
<1> QED
  BY <1>1, <1>2 DEF Pends

\* Every client that sets an alarm with SIGALRM blocked and then looks for it, if neither
\* it nor its handlers unblock the signal, cancel the alarm or ignore the signal meanwhile:
\* once the time is over SIGALRM is pending, whatever else is sent and handled
\* (libmini.c:172-174, 196-222).
THEOREM BlockedAlarmPends ==
  ASSUME NEW H, NEW B, Watches(H, B)
  PROVE  Spec => []Alarm3Pends
<1>1. Init => ShutInv(B) /\ Pends
  BY DEF Init, ShutInv, Pends, Watches, Below
<1>2. (IInv /\ JumpDepth /\ Inside(H)) /\ (ShutInv(B) /\ Pends) /\ [Next]_vars
        => (ShutInv(B) /\ Pends)'
  BY ShutStep, PendsStep
<1>3. Inside(H) /\ (ShutInv(B) /\ Pends) => Alarm3Pends
  BY DEF Inside, Pends, Below, Looks, Alarm3Pends, Watches
<1>4. Spec => [](IInv /\ JumpDepth /\ Inside(H))
  BY SpecInside DEF Watches
<1> QED
  BY <1>1, <1>2, <1>3, <1>4, PTL DEF Spec

=============================================================================
