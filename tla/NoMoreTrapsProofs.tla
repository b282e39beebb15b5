------------------------- MODULE NoMoreTrapsProofs -------------------------
(***************************************************************************)
(* Proofs about the tracer of CTF/ptrace/no_more_traps, for every program, *)
(* set of traps, text file and word length.                                *)
(***************************************************************************)
EXTENDS NoMoreTrapsProperties, SequenceTheorems, TLAPS

----------------------------------------------------------------------------
(* Types, and what becomes of the child.                                   *)

\* The child is there from the fork on, runs only while the tracer waits for it, and
\* dies with the tracer once that has asked for it.
Places ==
  /\ pc = "fork" => proc = "none"
  /\ pc # "fork" /\ proc # "none" => exec \in File
  /\ pc \in {"fork", "first"} => used = 0
  /\ proc = "forked" => pc = "first"
  /\ proc = "running" => pc = "wait"
  /\ pc \in {"hint", "poke", "setregs"} => ip \in Addr /\ exec \in File
  /\ pc \notin {"fork", "first"} => proc \in {"none", "zombie"} \/ exitkill
  /\ proc # "untraced" /\ ~stepping
Held == TypeOK /\ Places /\ NoneLeft

LEMMA WordTypes ==
  ASSUME NEW m \in [MemAddr -> Byte], NEW a \in Addr
  PROVE  /\ PeekWord(m, a) \in Word
         /\ \A w \in Word : PokeWord(m, a, w) \in [MemAddr -> Byte]
<1>1. \A k \in Offset : a + k \in MemAddr
  BY SizeAssumption DEF Offset, Addr, MemAddr
<1>2. PeekWord(m, a) \in Word
  BY <1>1 DEF PeekWord, Word
<1>3. ASSUME NEW w \in Word  PROVE PokeWord(m, a, w) \in [MemAddr -> Byte]
  BY <1>3 DEF PokeWord, Word
<1> QED BY <1>2, <1>3

LEMMA NoWordType == NoWord \in Word
BY TrapAssumption DEF NoWord, Word

LEMMA HeldInit == Init => Held
<1> SUFFICES ASSUME Init  PROVE Held
  OBVIOUS
<1>1. mem \in [MemAddr -> Byte] /\ 1 \in RipRange
  BY ImageAssumption, SizeAssumption DEF Init, TraceeInit, RipRange
<1> QED BY <1>1, NoWordType
        DEF Init, TraceeInit, Held, TypeOK, TraceeTypeOK, Places, NoneLeft

LEMMA ProgramHeld == ASSUME Held, Program  PROVE Held'
<1> USE DEF Held, TypeOK, TraceeTypeOK, Places, NoneLeft
<1>t. UNCHANGED <<pc, fptr, used, ip, code, hex>>
  BY DEF Program, tracerVars
<1>1. CASE ExecDelivered
  <2>1. exec \in File
    BY <1>1 DEF ExecDelivered
  <2>2. Delivered(exec) \in [MemAddr -> Byte] /\ Entry[exec] \in RipRange
    BY <2>1, ImageAssumption, CodeAssumption, SizeAssumption DEF Delivered, Addr, RipRange
  <2> QED BY <1>1, <1>t, <2>2 DEF ExecDelivered, Stop
<1>2. CASE ExecFails
  BY <1>2, <1>t DEF ExecFails, End
<1>3. CASE Trap
  <2>1. rip + 1 \in RipRange
    BY <1>3, SizeAssumption DEF Trap, AtTrap, Addr, RipRange
  <2> QED BY <1>3, <1>t, <2>1 DEF Trap, Stop
<1>4. CASE Execute \/ Garbled
  <2>1. UNCHANGED <<mem, stepping, exec, exitkill>> /\ proc = "running"
    BY <1>4 DEF Execute, Garbled
  <2>2. rip' \in RipRange
    <3>1. CASE Execute
      <4>1. exec \in File /\ rip \in Addr
        BY <3>1 DEF Execute, Intact
      <4>2. Succ[exec][rip] \subseteq Addr \cup {Done}
        BY <4>1, CodeAssumption
      <4> QED BY <3>1, <4>2, SizeAssumption DEF Execute, GoOn, Addr, RipRange
    <3>2. CASE Garbled
      BY <3>2, SizeAssumption DEF Garbled, GoOn, Addr, RipRange
    <3> QED BY <1>4, <3>1, <3>2
  <2>3. \/ proc' = "stopped" /\ event' \in {"trap", "signal"}
        \/ proc' = "zombie" /\ event' = "exited"
        \/ UNCHANGED <<proc, event>>
    BY <1>4 DEF Execute, Garbled, GoOn, Stop, End
  <2> QED BY <1>t, <2>1, <2>2, <2>3
<1>5. CASE Signal \/ Killed
  BY <1>5, <1>t DEF Signal, Killed, Stop, End
<1> QED BY <1>1, <1>2, <1>3, <1>4, <1>5 DEF Program, Instruction

LEMMA TracerHeld == ASSUME Held, Tracer  PROVE Held'
<1> USE DEF Held, TypeOK, TraceeTypeOK, Places, NoneLeft
<1>q. ASSUME Quit, pc # "first"  PROVE Held'
  <2>1. proc' \in {"none", "zombie"}
    BY <1>q DEF Quit, End
  <2>2. UNCHANGED <<mem, rip, stepping, exec, exitkill, fptr, used, ip, code, hex>> /\ pc' = "exit"
    BY <1>q DEF Quit
  <2>3. event' \in {"none", "trap", "signal", "exited", "killed"}
    BY <1>q DEF Quit, End
  <2>4. proc' # "none" => exec \in File
    BY <1>q DEF Quit, End
  <2> QED BY <2>1, <2>2, <2>3, <2>4
<1>1. CASE Fork
  BY <1>1, <1>q DEF Fork
<1>2. CASE FirstWait
  BY <1>2 DEF FirstWait, SetOptions, Answers
<1>3. CASE Wait
  BY <1>3 DEF Wait, Answers
<1>4. CASE GetRegs
  <2>1. rip - 1 \in {0} \cup RipRange
    BY SizeAssumption DEF RipRange
  <2> QED BY <1>4, <1>q, <2>1 DEF GetRegs, RipBack, Answers, traceeVars
<1>5. CASE PeekText
  <2>1. CASE Answers /\ AtTrap(ip)
    <3>1. Fetched \in Word /\ ip \in Addr /\ exec \in File
      BY <1>5, <2>1, WordTypes DEF Fetched, AtTrap, Answers, PeekText
    <3> QED BY <1>5, <2>1, <3>1 DEF PeekText, Answers, traceeVars
  <2>2. CASE ~(Answers /\ AtTrap(ip))
    BY <1>5, <2>2 DEF PeekText, Else, Answers, traceeVars
  <2> QED BY <2>1, <2>2
<1>6. CASE ReadHint
  <2>1. CASE fptr /\ used' = used + 1 /\ pc' = "poke" /\ UNCHANGED <<traceeVars, fptr, ip, code>>
    <3>1. hex' \in Word
      <4>1. CASE used < Len(Hints[exec])
        <5>1. Hints[exec] \in Seq(Byte) /\ pc = "hint"
          BY <1>6, TrapAssumption DEF ReadHint
        <5>2. Hints[exec][used + 1] \in Byte
          BY <4>1, <5>1, ElementOfSeq
        <5> QED BY <1>6, <2>1, <4>1, <5>2 DEF ReadHint, Quit, Word
      <4>2. CASE ~(used < Len(Hints[exec]))
        BY <1>6, <2>1, <4>2, NoWordType DEF ReadHint, Quit
      <4> QED BY <4>1, <4>2
    <3> QED BY <1>6, <2>1, <3>1 DEF ReadHint, traceeVars
  <2> QED BY <1>6, <1>q, <2>1 DEF ReadHint
<1>7. CASE PokeText
  <2>1. mem' = PokeWord(mem, ip, hex) => mem' \in [MemAddr -> Byte]
    BY <1>7, WordTypes DEF PokeText
  <2> QED BY <1>7, <1>q, <2>1 DEF PokeText, Answers
<1>8. CASE SetRegs
  <2>1. ip \in RipRange
    BY <1>8, SizeAssumption DEF SetRegs, Addr, RipRange
  <2> QED BY <1>8, <1>q, <2>1 DEF SetRegs, NewRip, Answers
<1>9. CASE Cont
  BY <1>9 DEF Cont, Answers
<1> QED BY <1>1, <1>2, <1>3, <1>4, <1>5, <1>6, <1>7, <1>8, <1>9 DEF Tracer

LEMMA HeldNext == Held /\ [Next]_vars => Held'
<1>1. ASSUME Held, UNCHANGED vars  PROVE Held'
  BY <1>1 DEF vars, traceeVars, tracerVars, Held, TypeOK, TraceeTypeOK, Places, NoneLeft
<1> QED BY <1>1, ProgramHeld, TracerHeld DEF Next

\* Every variable keeps its type, for every program and text file.
THEOREM TrapsTypeCorrect == Spec => []TypeOK
<1>1. Held => TypeOK
  BY DEF Held
<1> QED BY <1>1, HeldInit, HeldNext, PTL DEF Spec

\* No child is left running when the tracer is gone, however it ended (test.cpp:59).
THEOREM NoneIsLeft == Spec => []NoneLeft
<1>1. Held => NoneLeft
  BY DEF Held
<1> QED BY <1>1, HeldInit, HeldNext, PTL DEF Spec

----------------------------------------------------------------------------
(* The traps are met in the order of the text file: those behind the       *)
(* number of bytes already put back are all still there, and the program   *)
(* has not come past any of them.                                          *)

Traps == DOMAIN TrapSeq[exec]
PutBack == IF pc = "poke" THEN used - 1 ELSE used
Left(a) == \E k \in Traps : k > PutBack /\ TrapSeq[exec][k] = a

MemoryIs == \A a \in MemAddr : mem[a] = IF Left(a) THEN INT3 ELSE Image[exec][a]
InFront ==
  /\ Here \in Addr /\ InsnLen[exec][Here] > 0
  /\ \A k \in Traps : k > PutBack => Here <= TrapSeq[exec][k]
\* How far the tracer has come with a trap.
Stage ==
  /\ proc = "running" \/ pc \notin {"first", "wait"} => event = "none"
  /\ pc = "wait" /\ proc = "stopped" =>
       event = "signal" \/ (event = "trap" /\ AtTrap(rip - 1))
  /\ pc \in {"peek", "hint", "poke", "setregs"} => ip = rip - 1
  /\ pc \in {"hint", "poke"} => AtTrap(ip)
  /\ pc = "hint" => code = PeekWord(mem, ip)
  /\ pc = "poke" =>
       /\ used \in Traps /\ TrapSeq[exec][used] = ip
       /\ hex = [PeekWord(mem, ip) EXCEPT ![0] = Image[exec][ip]]
Guarded == Present /\ Orderly(exec)
TrapHeld == Guarded => MemoryIs /\ InFront /\ Stage

\* A trap in memory is one that is left.
LEMMA TrapLeft ==
  ASSUME Held, Guarded, MemoryIs, NEW a \in Addr
  PROVE  AtTrap(a) <=> Left(a)
<1>1. a \in MemAddr
  BY SizeAssumption DEF Addr, MemAddr
<1>2. Image[exec][a] # INT3
  BY <1>1 DEF Guarded, Orderly, MadeOfInsns
<1> QED BY <1>1, <1>2 DEF MemoryIs, AtTrap

\* The types of a file's traps.
LEMMA TrapTypes ==
  ASSUME exec \in File
  PROVE  /\ Traps = 1..Len(TrapSeq[exec]) /\ Len(TrapSeq[exec]) \in Nat
         /\ \A k \in Traps : k \in Nat \ {0} /\ TrapSeq[exec][k] \in Addr
<1>1. TrapSeq[exec] \in Seq(Addr)
  BY TrapAssumption
<1> QED BY <1>1, LenProperties, ElementOfSeq DEF Traps

\* A trap the program stands at is the next one to put back.
LEMMA NextTrap ==
  ASSUME Held, Guarded, exec \in File, InFront, Stage, NEW k \in Traps, k > PutBack,
         TrapSeq[exec][k] = Here
  PROVE  k = PutBack + 1
<1>1. PutBack \in Nat /\ k \in Nat
  BY TrapTypes DEF PutBack, Stage, Held, TypeOK
<1>2. CASE k > PutBack + 1
  <2>1. PutBack + 1 \in Traps /\ PutBack + 1 \in 1..(k - 1)
    BY <1>1, <1>2, TrapTypes
  <2>2. TrapSeq[exec][PutBack + 1] < TrapSeq[exec][k]
    BY <2>1 DEF Guarded, Orderly, Traps
  <2>3. Here <= TrapSeq[exec][PutBack + 1]
    BY <2>1, <1>1 DEF InFront
  <2>4. TrapSeq[exec][PutBack + 1] \in Int /\ Here \in Int
    BY <2>1, TrapTypes DEF InFront, Addr
  <2> QED BY <2>2, <2>3, <2>4
<1> QED BY <1>1, <1>2

\* What a step has to show, its effect on the path included.
StepOK ==
  /\ MemoryIs' /\ InFront' /\ Stage'
  /\ Present => Here' = Here \/ Here' \in Succ[exec][Here]

\* A step that leaves the memory, the program's place and the number of bytes alone.
LEMMA StaysOK ==
  ASSUME MemoryIs, InFront, UNCHANGED <<mem, exec, PutBack, Here>>, Stage'
  PROVE  StepOK
<1>1. Traps' = Traps /\ \A a : Left(a)' = Left(a)
  BY DEF Traps, Left
<1> QED BY <1>1 DEF StepOK, MemoryIs, InFront

LEMMA Whole ==
  ASSUME Held, Guarded, exec \in File, MemoryIs, InFront, rip = Here, ~AtTrap(rip)
  PROVE  Intact(rip)
<1>1. rip \in Addr /\ InsnLen[exec][rip] > 0
  BY DEF InFront
<1>2. InsnLen[exec][rip] \in 0..WordLen
  BY <1>1, CodeAssumption
<1>3. ASSUME NEW i \in 0..(InsnLen[exec][rip] - 1)
      PROVE  mem[rip + i] = Image[exec][rip + i]
  <2>1. rip + i \in MemAddr
    BY <1>1, <1>2, SizeAssumption DEF Addr, MemAddr
  <2>2. ASSUME NEW k \in Traps, k > PutBack, TrapSeq[exec][k] = rip + i  PROVE FALSE
    <3>1. rip <= TrapSeq[exec][k] /\ TrapSeq[exec][k] \in Addr
      BY <2>2, TrapTypes DEF InFront
    <3>2. CASE rip = TrapSeq[exec][k]
      BY <1>1, <2>2, <3>2, TrapLeft DEF Left
    <3>3. CASE rip < TrapSeq[exec][k]
      <4>1. rip + InsnLen[exec][rip] <= TrapSeq[exec][k]
        BY <1>1, <3>3 DEF Guarded, Orderly, MadeOfInsns, Traps
      <4> QED BY <1>1, <1>2, <2>2, <4>1, SizeAssumption DEF Addr
    <3> QED BY <1>1, <3>1, <3>2, <3>3 DEF Addr
  <2> QED BY <2>1, <2>2 DEF MemoryIs, Left
<1> QED BY <1>1, <1>3 DEF Intact

LEMMA ProgramSteps ==
  ASSUME Held, TrapHeld, Program, Guarded'  PROVE StepOK
<1>t. UNCHANGED <<pc, fptr, used, ip, code, hex>>
  BY DEF Program, tracerVars
<1>p. PutBack' = PutBack
  BY <1>t DEF PutBack
<1>1. CASE ExecDelivered
  <2>1. exec' = exec /\ exec \in File /\ pc = "first" /\ used = 0 /\ ~Present
    BY <1>1 DEF ExecDelivered, Held, Places, Present
  <2>2. mem' = Delivered(exec) /\ rip' = Entry[exec] /\ proc' = "stopped" /\ pc' = "first"
    BY <1>1, <1>t, <2>1 DEF ExecDelivered, Stop
  <2>3. Orderly(exec) /\ PutBack' = 0 /\ Traps' = Traps
    BY <1>t, <2>1 DEF Guarded, Orderly, MadeOfInsns, PutBack, Traps
  <2>4. MemoryIs'
    <3>1. \A a : Left(a)' <=> IsTrap(exec, a)
      BY <2>1, <2>3, TrapTypes DEF Left, IsTrap, Traps
    <3> QED BY <2>1, <2>2, <3>1 DEF MemoryIs, Delivered
  <2>5. Here' = Entry[exec]
    BY <2>2 DEF Here, Dealing
  <2>6. InFront'
    BY <2>1, <2>3, <2>5, CodeAssumption DEF InFront, Orderly, MadeOfInsns, Traps
  <2>7. Stage'
    BY <2>2 DEF Stage
  <2> QED BY <2>1, <2>4, <2>6, <2>7 DEF StepOK
<1>2. CASE ExecFails \/ Killed
  BY <1>2 DEF ExecFails, Killed, End, Guarded, Present
<1>3. CASE proc = "running" /\ (Instruction \/ Signal)
  <2>1. Guarded /\ MemoryIs /\ InFront /\ Stage /\ exec' = exec /\ pc = "wait" /\ exec \in File
        /\ mem' = mem /\ ~stepping
    BY <1>3 DEF Instruction, Signal, Trap, Execute, Garbled, Guarded, TrapHeld, Present, Held,
       Places
  <2>2. Here = rip /\ pc' = "wait"
    BY <1>3, <1>t, <2>1 DEF Here, Dealing
  <2>3. CASE Trap
    <3>1. proc' = "stopped" /\ event' = "trap" /\ rip' = rip + 1 /\ AtTrap(rip)
      BY <2>3 DEF Trap, Stop
    <3>2. rip \in Int /\ rip' - 1 = rip
      BY <3>1 DEF AtTrap, Addr
    <3>3. Here' = rip
      BY <2>2, <3>1, <3>2 DEF Here, Dealing
    <3>4. AtTrap(rip - 1)'
      BY <2>1, <3>1, <3>2 DEF AtTrap
    <3>5. Stage'
      BY <2>2, <3>1, <3>4 DEF Stage
    <3> QED BY <1>p, <2>1, <2>2, <3>3, <3>5, StaysOK
  <2>4. CASE Execute
    <3>1. PICK next \in Succ[exec][rip] : next # Done /\ GoOn(next)
      BY <2>4 DEF Execute, End, Guarded, Present
    <3>2. rip' = next /\ UNCHANGED <<proc, event>> /\ ~AtTrap(rip) /\ rip \in Addr
      BY <2>1, <2>4, <3>1 DEF GoOn, Execute, Intact
    <3>3. Here' = next /\ Stage'
      BY <1>3, <2>1, <2>2, <3>2 DEF Here, Dealing, Stage
    <3>4. next \in Addr /\ InsnLen[exec][next] > 0
      BY <2>1, <3>1, <3>2, CodeAssumption DEF Guarded, Orderly, MadeOfInsns
    <3>5. ASSUME NEW k \in Traps, k > PutBack  PROVE next <= TrapSeq[exec][k]
      <4>1. rip <= TrapSeq[exec][k] /\ TrapSeq[exec][k] \in Addr
        BY <2>1, <2>2, <3>5, TrapTypes DEF InFront
      <4>2. rip # TrapSeq[exec][k]
        BY <2>1, <3>2, <3>5, TrapLeft DEF Left
      <4>3. rip \in 1..(TrapSeq[exec][k] - 1)
        BY <3>2, <4>1, <4>2 DEF Addr
      <4> QED BY <2>1, <3>1, <3>5, <4>3 DEF Guarded, Orderly, Traps
    <3>6. Traps' = Traps /\ (\A a : Left(a)' = Left(a)) /\ PutBack' = PutBack
      BY <1>p, <2>1 DEF Traps, Left
    <3>7. MemoryIs' /\ InFront'
      BY <2>1, <3>3, <3>4, <3>5, <3>6 DEF MemoryIs, InFront
    <3> QED BY <2>2, <3>1, <3>3, <3>7 DEF StepOK
  <2>5. CASE Garbled
    BY <2>1, <2>2, <2>5, Whole DEF Garbled
  <2>6. CASE Signal
    <3>1. proc' = "stopped" /\ event' = "signal" /\ rip' = rip
      BY <2>6 DEF Signal, Stop
    <3>2. Here' = rip /\ Stage'
      BY <2>2, <3>1 DEF Here, Dealing, Stage
    <3> QED BY <1>p, <2>1, <2>2, <3>2, StaysOK
  <2> QED BY <1>3, <2>3, <2>4, <2>5, <2>6 DEF Instruction
<1> QED BY <1>1, <1>2, <1>3 DEF Program, Instruction, Trap, Execute, Garbled, Signal

\* Behind no trap that is left there is none in front of rip.
LEMMA NoneInFront ==
  ASSUME Held, Guarded, exec \in File, MemoryIs, InFront, Here = rip
  PROVE  ~AtTrap(rip - 1)
<1> SUFFICES ASSUME AtTrap(rip - 1)  PROVE FALSE
  OBVIOUS
<1>1. rip - 1 \in Addr /\ rip \in Int
  BY DEF AtTrap, Addr, InFront
<1>2. PICK k \in Traps : k > PutBack /\ TrapSeq[exec][k] = rip - 1
  BY <1>1, TrapLeft DEF Left
<1>3. rip <= TrapSeq[exec][k]
  BY <1>2 DEF InFront
<1> QED BY <1>1, <1>2, <1>3

LEMMA TracerSteps ==
  ASSUME Held, TrapHeld, Tracer, Guarded'  PROVE StepOK
<1>q. ~Quit
  BY DEF Quit, End, Guarded, Present, Held, Places
<1>f. ~Fork
  BY <1>q DEF Fork, Guarded, Present
<1>0. Guarded /\ MemoryIs /\ InFront /\ Stage /\ exec' = exec /\ exec \in File /\ Present
  BY <1>q, <1>f
     DEF Tracer, FirstWait, Wait, GetRegs, PeekText, ReadHint, PokeText, SetRegs, Cont, Answers,
         traceeVars, Guarded, Present, TrapHeld, Held, Places
<1>1. CASE FirstWait
  <2>1. /\ pc = "first" /\ pc' = "wait" /\ proc' = "running" /\ event' = "none"
        /\ UNCHANGED <<mem, rip, used>>
    BY <1>1 DEF FirstWait, Guarded, Present
  <2>2. Here' = Here /\ PutBack' = PutBack /\ Stage'
    BY <2>1 DEF Here, Dealing, PutBack, Stage
  <2> QED BY <1>0, <2>1, <2>2, StaysOK
<1>2. CASE Wait
  <2>1. /\ pc = "wait" /\ pc' = "regs" /\ proc = "stopped" /\ proc' = proc /\ event' = "none"
        /\ UNCHANGED <<mem, rip, used>>
    BY <1>2 DEF Wait, Answers, Guarded, Present
  <2>2. event = "trap" <=> AtTrap(rip - 1)
    <3>1. CASE event = "trap"
      BY <1>0, <2>1, <3>1 DEF Stage
    <3>2. CASE event = "signal"
      BY <1>0, <2>1, <3>2, NoneInFront DEF Here, Dealing
    <3> QED BY <1>0, <2>1, <3>1, <3>2 DEF Stage
  <2>3. Here' = Here /\ PutBack' = PutBack /\ Stage'
    BY <2>1, <2>2 DEF Here, Dealing, PutBack, Stage, AtTrap
  <2> QED BY <1>0, <2>1, <2>3, StaysOK
<1>3. CASE GetRegs
  <2>1. /\ pc = "regs" /\ pc' = "peek" /\ ip' = rip - 1 /\ proc = "stopped"
        /\ UNCHANGED <<mem, rip, proc, event, used>>
    BY <1>3, <1>q DEF GetRegs, RipBack, Answers, traceeVars
  <2>2. Here' = Here /\ PutBack' = PutBack /\ Stage'
    BY <1>0, <2>1 DEF Here, Dealing, PutBack, Stage, AtTrap
  <2> QED BY <1>0, <2>1, <2>2, StaysOK
<1>4. CASE PeekText
  <2>1. pc = "peek" /\ proc = "stopped" /\ ip = rip - 1
        /\ UNCHANGED <<mem, rip, proc, event, used, ip>>
    BY <1>0, <1>4 DEF PeekText, traceeVars, Stage, Present, Held, Places
  <2>2. CASE AtTrap(ip)
    <3>1. pc' = "hint" /\ code' = PeekWord(mem, ip)
      BY <1>4, <2>1, <2>2 DEF PeekText, Answers, Fetched
    <3>2. Here' = Here /\ PutBack' = PutBack /\ Stage'
      BY <1>0, <2>1, <2>2, <3>1 DEF Here, Dealing, PutBack, Stage, AtTrap, PeekWord
    <3> QED BY <1>0, <2>1, <3>2, StaysOK
  <2>3. CASE ~AtTrap(ip)
    <3>1. pc' = "cont"
      BY <1>4, <2>1, <2>3 DEF PeekText, Answers, Else
    <3>2. Here' = Here /\ PutBack' = PutBack /\ Stage'
      BY <1>0, <2>1, <2>3, <3>1 DEF Here, Dealing, PutBack, Stage, AtTrap
    <3> QED BY <1>0, <2>1, <3>2, StaysOK
  <2> QED BY <2>2, <2>3
<1>5. CASE ReadHint
  <2>1. /\ pc = "hint" /\ pc' = "poke" /\ proc = "stopped" /\ used' = used + 1 /\ used \in Nat
        /\ UNCHANGED <<mem, rip, proc, event, ip>>
    BY <1>0, <1>5, <1>q DEF ReadHint, traceeVars, Present, Held, Places, TypeOK
  <2>2. AtTrap(ip) /\ ip = rip - 1 /\ code = PeekWord(mem, ip) /\ Here = ip /\ ip \in Addr
    BY <1>0, <2>1 DEF Stage, Here, Dealing, AtTrap
  <2>3. PICK k \in Traps : k > used /\ TrapSeq[exec][k] = ip
    BY <1>0, <2>1, <2>2, TrapLeft DEF Left, PutBack
  <2>4. k = used + 1
    BY <1>0, <2>1, <2>2, <2>3, NextTrap DEF PutBack
  <2>5. used < Len(Hints[exec]) /\ Hints[exec][used + 1] = Image[exec][ip]
    BY <1>0, <2>1, <2>3, <2>4, TrapTypes DEF Guarded, Orderly, Traps
  <2>6. hex' = [PeekWord(mem, ip) EXCEPT ![0] = Image[exec][ip]]
    BY <1>5, <1>q, <2>2, <2>5 DEF ReadHint
  <2>7. PutBack' = PutBack
    BY <2>1 DEF PutBack
  <2>8. Here' = Here
    BY <2>1 DEF Here, Dealing, AtTrap
  <2>9. Stage'
    BY <1>0, <2>1, <2>2, <2>3, <2>4, <2>6 DEF Stage, AtTrap, PeekWord, Traps
  <2> QED BY <1>0, <2>1, <2>7, <2>8, <2>9, StaysOK
<1>6. CASE PokeText
  <2>1. /\ pc = "poke" /\ pc' = "setregs" /\ proc = "stopped" /\ mem' = PokeWord(mem, ip, hex)
        /\ UNCHANGED <<rip, proc, event, ip, used>> /\ used \in Nat
    BY <1>6, <1>q DEF PokeText, Answers, Held, TypeOK
  <2>2. /\ AtTrap(ip) /\ ip = rip - 1 /\ Here = ip /\ ip \in Addr
        /\ used \in Traps /\ TrapSeq[exec][used] = ip
        /\ hex = [PeekWord(mem, ip) EXCEPT ![0] = Image[exec][ip]]
    BY <1>0, <2>1 DEF Stage, Here, Dealing, AtTrap
  <2>3. ASSUME NEW a \in MemAddr
        PROVE  mem'[a] = IF a = ip THEN Image[exec][ip] ELSE mem[a]
    <3>1. mem'[a] = IF a - ip \in Offset THEN hex[a - ip] ELSE mem[a]
      BY <2>1, <2>3 DEF PokeWord
    <3>2. ASSUME a - ip \in Offset, a # ip  PROVE hex[a - ip] = mem[a]
      <4>1. a \in Int /\ ip \in Int /\ a - ip # 0 /\ ip + (a - ip) = a
        BY <2>2, <3>2 DEF Addr, MemAddr
      <4>2. hex[a - ip] = PeekWord(mem, ip)[a - ip]
        BY <2>2, <3>2, <4>1 DEF PeekWord
      <4> QED BY <3>2, <4>1, <4>2 DEF PeekWord
    <3>3. a = ip => a - ip \in Offset /\ hex[a - ip] = Image[exec][ip]
      <4>1. ip \in Int /\ ip - ip = 0 /\ 0 \in Offset
        BY <2>2, SizeAssumption DEF Addr, Offset
      <4> QED BY <2>2, <4>1 DEF PeekWord
    <3> QED BY <3>1, <3>2, <3>3
  <2>4. Traps' = Traps /\ PutBack = used - 1 /\ PutBack' = used /\ Here' = ip
    BY <1>0, <2>1, <2>2 DEF Traps, PutBack, Here, Dealing
  <2>5. ~Left(ip)'
    <3>1. ASSUME NEW k \in Traps, k > used, TrapSeq[exec][k] = ip  PROVE FALSE
      <4>1. k \in Nat /\ k > PutBack
        BY <1>0, <2>1, <2>4, <3>1, TrapTypes
      <4>2. k = PutBack + 1
        BY <1>0, <2>2, <3>1, <4>1, NextTrap
      <4> QED BY <2>1, <2>4, <3>1, <4>1, <4>2
    <3> QED BY <1>0, <2>1, <2>4, <3>1, TrapTypes DEF Left
  <2>6. \A a : a # ip => (Left(a)' <=> Left(a))
    BY <1>0, <2>1, <2>2, <2>4, TrapTypes DEF Left
  <2>7. MemoryIs'
    <3>1. ASSUME NEW a \in MemAddr
          PROVE  mem'[a] = IF Left(a)' THEN INT3 ELSE Image[exec][a]
      <4>0. Left(ip)' <=> \E k \in Traps' : k > PutBack' /\ TrapSeq[exec'][k] = ip
        BY <1>6, <1>q DEF Left, PokeText
      <4>1. CASE a = ip
        <5>1. Left(a)' <=> \E k \in Traps' : k > PutBack' /\ TrapSeq[exec'][k] = a
          BY DEF Left
        <5> QED BY <2>3, <2>5, <4>0, <4>1, <5>1
      <4>2. CASE a # ip
        BY <1>0, <2>3, <2>6, <4>2 DEF MemoryIs
      <4> QED BY <4>1, <4>2
    <3> QED BY <1>0, <3>1 DEF MemoryIs
  <2>8. InFront'
    BY <1>0, <2>1, <2>2, <2>4, TrapTypes DEF InFront
  <2>9. Stage'
    BY <1>0, <2>1, <2>2 DEF Stage
  <2> QED BY <2>2, <2>4, <2>7, <2>8, <2>9 DEF StepOK
<1>7. CASE SetRegs
  <2>1. /\ pc = "setregs" /\ pc' = "cont" /\ proc = "stopped" /\ rip' = ip /\ ip = rip - 1
        /\ UNCHANGED <<mem, proc, event, used>>
    BY <1>0, <1>7, <1>q DEF SetRegs, NewRip, Answers, Stage
  <2>2. Here' = Here /\ PutBack' = PutBack /\ Stage'
    BY <1>0, <2>1 DEF Here, Dealing, PutBack, Stage
  <2> QED BY <1>0, <2>1, <2>2, StaysOK
<1>8. CASE Cont
  <2>1. /\ pc = "cont" /\ pc' = "wait" /\ proc = "stopped" /\ proc' = "running"
        /\ UNCHANGED <<mem, rip, event, used>>
    BY <1>0, <1>8 DEF Cont, Answers, Present, Held, Places
  <2>2. Here' = Here /\ PutBack' = PutBack /\ Stage'
    BY <1>0, <2>1 DEF Here, Dealing, PutBack, Stage
  <2> QED BY <1>0, <2>1, <2>2, StaysOK
<1> QED BY <1>f, <1>1, <1>2, <1>3, <1>4, <1>5, <1>6, <1>7, <1>8 DEF Tracer

LEMMA TrapHeldInit == Init => TrapHeld
BY DEF Init, TraceeInit, TrapHeld, Guarded, Present

LEMMA TrapHeldNext == Held /\ TrapHeld /\ [Next]_vars => TrapHeld'
<1>1. ASSUME TrapHeld, UNCHANGED vars  PROVE TrapHeld'
  BY <1>1
     DEF vars, traceeVars, tracerVars, TrapHeld, Guarded, Present, Orderly, MadeOfInsns,
         MemoryIs, InFront, Stage, Here, Dealing, Left, Traps, PutBack, AtTrap, PeekWord
<1>2. ASSUME Held, TrapHeld, Next, Guarded'  PROVE MemoryIs' /\ InFront' /\ Stage'
  BY <1>2, ProgramSteps, TracerSteps DEF Next, StepOK
<1> QED BY <1>1, <1>2 DEF TrapHeld

\* The bytes come back to where they were taken from, for every program whose text file
\* is in the order of its traps: the tracer counts them, whatever it was that stopped the
\* program (test.cpp:67-77).
THEOREM BytesComeBack == Spec => []Restored
<1>1. Held /\ TrapHeld => Restored
  <2> SUFFICES ASSUME Held, TrapHeld, Present, Orderly(exec), NEW a \in MemAddr
               PROVE  mem[a] = Image[exec][a] \/ (mem[a] = INT3 /\ IsTrap(exec, a))
    BY DEF Restored
  <2>1. mem[a] = IF Left(a) THEN INT3 ELSE Image[exec][a]
    BY DEF TrapHeld, Guarded, MemoryIs
  <2> QED BY <2>1 DEF Left, Traps, IsTrap
<1> QED BY <1>1, HeldInit, HeldNext, TrapHeldInit, TrapHeldNext, PTL DEF Spec

\* The program takes the path it would take without traps: each step of it and of the
\* tracer leaves it where it is or takes it to where its own instruction leads.
THEOREM PathIsKept == Spec => PathKept
<1>1. Held /\ TrapHeld /\ [Next]_vars =>
        [Present /\ Present' /\ Orderly(exec) =>
           Here' = Here \/ Here' \in Succ[exec][Here]]_vars
  <2> SUFFICES ASSUME Held, TrapHeld, Next, Present, Present', Orderly(exec)
               PROVE  Here' = Here \/ Here' \in Succ[exec][Here]
    OBVIOUS
  <2>1. exec' = exec
    BY DEF Next, Program, ExecDelivered, ExecFails, Instruction, Trap, Execute, Garbled, Signal,
           Killed, End, Tracer, Fork, FirstWait, Wait, GetRegs, PeekText, ReadHint, PokeText,
           SetRegs, Cont, Quit, traceeVars, Present, Held, Places
  <2>2. Guarded'
    BY <2>1 DEF Guarded, Orderly, MadeOfInsns
  <2> QED BY <2>2, ProgramSteps, TracerSteps DEF Next, StepOK
<1> QED BY <1>1, HeldInit, HeldNext, TrapHeldInit, TrapHeldNext, PTL DEF Spec, PathKept
=============================================================================
