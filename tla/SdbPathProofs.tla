--------------------------- MODULE SdbPathProofs ---------------------------
(***************************************************************************)
(* Theorems about the traced program: no trap outlives its break point,    *)
(* and the program takes the path it would take without a debugger.  Both  *)
(* are about sessions with one program, with break points a word apart and *)
(* without a delete behind the end of the list.                            *)
(***************************************************************************)
EXTENDS SdbProofs

----------------------------------------------------------------------------
(* The text of the program, up to the listed break points.                 *)

\* A break point the user named, whose word is the program's own.
ExactBp ==
  {b \in Bp : /\ b.addr \in BreakInput
              /\ \A f \in File : \A k \in Offset : b.orig_code[k] = Image[f][b.addr + k]}

MemExact ==
  Present => \A f \in File : \A x \in MemAddr :
               mem[x] = Image[f][x] \/ (mem[x] = INT3 /\ Listed(x))

Exact == MemExact /\ bp_list \in Seq(ExactBp)

\* What is listed is one of the break points the user named.
LEMMA ListedNamed ==
  ASSUME bp_list \in Seq(ExactBp)
  PROVE  /\ \A k \in DOMAIN bp_list : bp_list[k] \in ExactBp
         /\ \A x : Listed(x) => x \in BreakInput \cap Addr
<1>1. \A k \in DOMAIN bp_list : bp_list[k] \in ExactBp
  BY LenProperties, ElementOfSeq
<1> QED
  BY <1>1 DEF Listed, ExactBp, Bp

\* No other break point is in the word of one.
LEMMA OneInAWord ==
  ASSUME WordApart, NEW a \in BreakInput \cap Addr, NEW k \in Offset, k # 0
  PROVE  a + k \notin BreakInput \cap Addr
BY SizeAssumption DEF WordApart, Addr, Offset

\* Arming changes a byte of the text into a trap, and keeps the rest.
LEMMA ArmExact ==
  ASSUME TypeOK, MemExact, Present, Present', NEW a \in Addr,
         mem' = PokeWord(mem, a, ArmedWord(a)),
         Listed(a)', \A x : Listed(x) => Listed(x)'
  PROVE  MemExact'
<1>1. \A x \in MemAddr : mem'[x] = IF x = a THEN INT3 ELSE mem[x]
  BY ArmLemma DEF TypeOK, TraceeTypeOK
<1> QED
  BY <1>1 DEF MemExact

\* The word break saves is the program's: the byte at the address holds no trap,
\* and no other break point is near.
LEMMA SavedExact ==
  ASSUME WordApart, TypeOK, Exact, Present, NEW a \in BreakInput \cap Addr, mem[a] # INT3,
         NEW n \in Nat
  PROVE  [id |-> n, addr |-> a, orig_code |-> SavedWord(a)] \in ExactBp
<1> DEFINE b == [id |-> n, addr |-> a, orig_code |-> SavedWord(a)]
<1>1. b \in Bp /\ b.addr = a
  BY PeekType DEF TypeOK, TraceeTypeOK, SavedWord, Bp
<1>2. ASSUME NEW f \in File, NEW k \in Offset
      PROVE  b.orig_code[k] = Image[f][a + k]
  <2>1. a + k \in MemAddr /\ b.orig_code[k] = mem[a + k]
    BY SizeAssumption DEF SavedWord, PeekWord, Addr, Offset, MemAddr
  <2>2. mem[a + k] = Image[f][a + k] \/ (mem[a + k] = INT3 /\ Listed(a + k))
    BY <2>1 DEF Exact, MemExact
  <2>3. CASE k = 0
    <3>1. a + k = a
      BY <2>3 DEF Addr
    <3> QED
      BY <2>1, <2>2, <3>1
  <2>4. CASE k # 0
    <3>1. ~Listed(a + k)
      BY <2>4, OneInAWord, ListedNamed DEF Exact
    <3> QED
      BY <2>1, <2>2, <3>1
  <2> QED
    BY <2>3, <2>4
<1> HIDE DEF b
<1> QED
  BY <1>1, <1>2 DEF ExactBp, b

\* Writing a word back leaves the traps of the other break points.
LEMMA RestoreExact ==
  ASSUME TypeOK, MemExact, Present, NEW b \in ExactBp,
         mem' = Restore(b),
         \A x : Listed(x) /\ x # b.addr => Listed(x)'
  PROVE  MemExact'
<1> SUFFICES ASSUME NEW f \in File, NEW x \in MemAddr
             PROVE  mem'[x] = Image[f][x] \/ (mem'[x] = INT3 /\ Listed(x)')
  BY DEF MemExact
<1>0. b.addr \in Int /\ x \in Int
  BY SizeAssumption DEF ExactBp, Bp, Addr, MemAddr
<1>1. CASE x - b.addr \in Offset
  <2>1. mem'[x] = b.orig_code[x - b.addr]
    BY <1>1 DEF Restore, PokeWord
  <2>2. b.orig_code[x - b.addr] = Image[f][b.addr + (x - b.addr)]
    BY <1>1 DEF ExactBp
  <2>3. b.addr + (x - b.addr) = x
    BY <1>0
  <2> QED
    BY <2>1, <2>2, <2>3
<1>2. CASE x - b.addr \notin Offset
  <2>1. mem'[x] = mem[x]
    BY <1>2 DEF Restore, PokeWord
  <2>2. x # b.addr
    BY <1>0, <1>2, SizeAssumption DEF Offset
  <2> QED
    BY <2>1, <2>2 DEF MemExact
<1> QED
  BY <1>1, <1>2

LEMMA ExactStep ==
  OneProgram /\ WordApart /\ IInv /\ Exact /\ [Next]_vars /\ [InRange]_vars => Exact'
<1> SUFFICES ASSUME OneProgram, WordApart, IInv, Exact, [Next]_vars, [InRange]_vars
             PROVE  Exact'
  OBVIOUS
<1>0. TypeOK /\ TraceeTypeOK /\ Control /\ bp_list \in Seq(ExactBp) /\ MemExact
  BY DEF IInv, TypeOK, Exact
<1>1. ASSUME mem' = mem, Present' => Present, UNCHANGED bp_list
      PROVE  Exact'
  BY <1>0, <1>1 DEF Exact, MemExact, Listed
<1>2. CASE Error
  BY <1>1, <1>2 DEF Error, LeaveTracee, End, session, Present
<1>3. CASE TraceeStep
  <2>1. CASE ExecOk
    <3>1. mem' = Image[exec] /\ exec \in File /\ UNCHANGED bp_list
      BY <1>0, <1>3, <2>1 DEF ExecOk, Control, TraceeStep, sdbVars
    <3> QED
      BY <1>0, <3>1 DEF Exact, MemExact, OneProgram
  <2>2. CASE ~ExecOk
    <3>1. mem' = mem /\ (Present' => Present) /\ UNCHANGED bp_list
      BY <1>3, <2>2
         DEF TraceeStep, TraceeNext, Exec, ExecFails, Instruction, Trap, Execute, Garbled,
             GoOn, Signal, Killed, Stop, End, Present, sdbVars
    <3> QED
      BY <3>1, <1>1
  <2> QED
    BY <2>1, <2>2
<1>4. ASSUME NEW a \in BreakInput, Break(a), ~Error
      PROVE  Exact'
  <2>1. /\ a \in BreakInput \cap Addr /\ Answers /\ mem[a] # INT3
        /\ mem' = PokeWord(mem, a, ArmedWord(a)) /\ UNCHANGED proc
    BY <1>4 DEF Break
  <2>2. Present /\ Present'
    BY <2>1 DEF Answers, Present
  <2>3. CASE Listed(a)
    <3>1. UNCHANGED bp_list
      BY <1>4, <2>3 DEF Break
    <3>2. Listed(a)' /\ \A x : Listed(x) => Listed(x)'
      BY <2>3, <3>1 DEF Listed
    <3>3. MemExact'
      BY <1>0, <2>1, <2>2, <3>2, ArmExact
    <3> QED
      BY <1>0, <3>1, <3>3 DEF Exact
  <2>4. CASE ~Listed(a)
    <3> DEFINE b == [id |-> Len(bp_list), addr |-> a, orig_code |-> SavedWord(a)]
    <3>1. /\ bp_list' = Append(bp_list, b)
          /\ spare' = IF spare = <<>> THEN <<>> ELSE Tail(spare)
      BY <1>4, <2>4 DEF Break, NewId
    <3>2. Len(bp_list) \in Nat
      BY <1>0, LenProperties
    <3>3. b \in ExactBp /\ b.addr = a
      BY <1>0, <2>1, <2>2, <3>2, SavedExact
    <3> HIDE DEF b
    <3>4. bp_list' \in Seq(ExactBp)
      BY <1>0, <3>1, <3>3, AppendProperties
    <3>5. /\ DOMAIN bp_list = 1..Len(bp_list)
          /\ DOMAIN bp_list' = 1..(Len(bp_list) + 1)
          /\ \A k \in 1..Len(bp_list) : bp_list'[k] = bp_list[k]
          /\ bp_list'[Len(bp_list) + 1] = b
      BY <1>0, <3>1, <3>3, AppendProperties, LenProperties
    <3>6. Listed(a)' /\ \A x : Listed(x) => Listed(x)'
      BY <3>2, <3>3, <3>5 DEF Listed
    <3>7. MemExact'
      BY <1>0, <2>1, <2>2, <3>6, ArmExact
    <3> QED
      BY <3>4, <3>7 DEF Exact
  <2> QED
    BY <2>3, <2>4
<1>5. ASSUME NEW id \in DeleteInput, Delete(id), ~Error
      PROVE  Exact'
  <2>1. /\ id \in Nat /\ Answers /\ UNCHANGED proc /\ pc' = "prompt"
        /\ mem' = Restore(Slot(id)) /\ bp_list # <<>>
        /\ bp_list' = IF id < Len(bp_list) THEN RemoveAt(bp_list, id + 1) ELSE Front(bp_list)
        /\ spare' = <<Last(bp_list)>> \o spare
    BY <1>5, InputAssumption DEF Delete, control
  <2>2. Len(bp_list) \in Nat /\ Len(bp_list') = Len(bp_list) - 1
    BY <1>0, <2>1, EraseLemma DEF TypeOK
  <2>3. id < Len(bp_list)
    <3>1. bp_list' # bp_list
      <4> DEFINE l == Len(bp_list)
                 m == Len(bp_list')
      <4>1. l # m
        <5>1. l \in Nat /\ m = l - 1
          BY <2>2
        <5> HIDE DEF l, m
        <5> QED
          BY <5>1
      <4> QED
        BY <4>1, Zenon
    <3>2. vars' # vars
      BY <3>1 DEF vars, sdbVars
    <3>3. InRange
      BY <3>2
    <3> QED
      BY <1>5, <2>1, <3>3 DEF InRange
  <2> DEFINE n == id + 1
             b == bp_list[n]
  <2>4. n \in 1..Len(bp_list) /\ DOMAIN bp_list = 1..Len(bp_list)
    BY <1>0, <2>1, <2>2, <2>3, LenProperties
  <2>5. b \in ExactBp
    BY <1>0, <2>4, ListedNamed
  <2>6. mem' = Restore(b)
    <3>1. (bp_list \o spare)[n] = bp_list[n]
      BY <1>0, <2>4, ConcatProperties, LenProperties DEF TypeOK
    <3> QED
      BY <2>1, <3>1 DEF Slot
  <2>7. /\ bp_list' \in Seq(ExactBp)
        /\ DOMAIN bp_list' = 1..(Len(bp_list) - 1)
        /\ \A k \in 1..(Len(bp_list) - 1) :
             bp_list'[k] = IF k < n THEN bp_list[k] ELSE bp_list[k + 1]
    BY <1>0, <2>1, <2>3, <2>4, RemoveAtLemma, LenProperties
  <2>8. ASSUME NEW x, Listed(x), x # b.addr
        PROVE  Listed(x)'
    <3>1. PICK k \in 1..Len(bp_list) : bp_list[k].addr = x
      BY <2>4, <2>8 DEF Listed
    <3>2. k # n
      BY <2>8, <3>1
    <3>3. CASE k < n
      <4>1. k \in 1..(Len(bp_list) - 1)
        BY <2>2, <2>4, <3>3
      <4> QED
        BY <2>7, <3>1, <3>3, <4>1 DEF Listed
    <3>4. CASE k > n
      <4>1. k - 1 \in 1..(Len(bp_list) - 1) /\ ~(k - 1 < n) /\ (k - 1) + 1 = k
        BY <2>2, <2>4, <3>4
      <4>2. bp_list'[k - 1] = bp_list[k]
        BY <2>7, <4>1
      <4> QED
        BY <2>7, <3>1, <4>1, <4>2 DEF Listed
    <3> QED
      BY <2>4, <3>2, <3>3, <3>4
  <2> HIDE DEF b
  <2>9. MemExact'
    BY <1>0, <2>1, <2>5, <2>6, <2>8, RestoreExact DEF Answers, Present
  <2> QED
    BY <2>7, <2>9 DEF Exact
<1>6. CASE Chkbp /\ ~Error
  <2>1. UNCHANGED <<bp_list, proc>>
    BY <1>6 DEF Chkbp, session, traceeVars
  <2>2. CASE mem' = mem
    BY <2>1, <2>2, <1>1 DEF Present
  <2>3. CASE mem' # mem
    <3>1. i \in DOMAIN bp_list /\ bp_list[i].addr \in Addr
      BY <1>0, <1>6, EntryType DEF Chkbp, Control, Bp
    <3>2. PICK a \in Addr : a = bp_list[i].addr
      BY <3>1
    <3>3. Answers /\ mem' = PokeWord(mem, a, ArmedWord(a))
      BY <2>3, <3>2, <1>6 DEF Chkbp, traceeVars
    <3>4. Listed(a)' /\ \A x : Listed(x) => Listed(x)'
      BY <2>1, <3>1, <3>2 DEF Listed
    <3>5. MemExact'
      BY <1>0, <2>1, <3>3, <3>4, ArmExact DEF Answers, Present
    <3> QED
      BY <1>0, <2>1, <3>5 DEF Exact
  <2> QED
    BY <2>2, <2>3
<1>7. CASE Hit /\ ~Error
  <2>1. UNCHANGED <<bp_list, proc>>
    BY <1>7 DEF Hit, session, traceeVars
  <2>2. CASE mem' = mem
    BY <2>1, <2>2, <1>1 DEF Present
  <2>3. CASE mem' # mem
    <3>1. bp_list[i] \in ExactBp
      BY <1>0, <1>7, EntryType, ListedNamed DEF Hit, Control
    <3>2. Answers /\ mem' = Restore(bp_list[i])
      BY <2>3, <1>7 DEF Hit, traceeVars
    <3>3. \A x : Listed(x) => Listed(x)'
      BY <2>1 DEF Listed
    <3>4. MemExact'
      BY <1>0, <3>1, <3>2, <3>3, RestoreExact DEF Answers, Present
    <3> QED
      BY <1>0, <2>1, <3>4 DEF Exact
  <2> QED
    BY <2>2, <2>3
<1>8. CASE Step /\ ~Error /\ ~Chkbp /\ ~Hit
  <2>1. UNCHANGED <<mem, bp_list>> /\ (Present' => Present)
    BY <1>8
       DEF Step, Started, Go, Wait, WaitExited, WaitKilled, WaitSignal, WaitTrap, GetRegs, HitEnd,
           Answers, Present, session, traceeVars
  <2> QED
    BY <2>1, <1>1
<1>9. CASE Command /\ ~Error
  <2>1. \/ UNCHANGED <<mem, bp_list>> /\ (Present' => Present)
        \/ \E a \in BreakInput : Break(a)
        \/ \E id \in DeleteInput : Delete(id)
    BY <1>9
       DEF Command, Load, Start, Resume, SetRip, Inspect, Vmmap, Disassemble, Quit, LeaveTracee,
           End, Present, session, sdbVars, traceeVars
  <2> QED
    BY <2>1, <1>1, <1>4, <1>5, <1>9
<1>10. CASE UNCHANGED vars
  BY <1>10, <1>1 DEF vars, traceeVars, sdbVars, Present
<1> QED
  BY <1>2, <1>3, <1>6, <1>7, <1>8, <1>9, <1>10 DEF Next, Ended

LEMMA ExactInit == Init => Exact
BY EmptySeq DEF Init, TraceeInit, Exact, MemExact, Present

\* A trap in memory that is not the program's own is that of a listed break point, in
\* every session with one program whose break points are a word apart and that gives
\* delete no id behind the end: whatever is set, hit, armed again and deleted, the
\* traps of the deleted ones are gone and nothing else of the program has changed.
THEOREM NoTrapStays ==
  ASSUME OneProgram, WordApart
  PROVE  Spec /\ DeletesInRange => []NoStrayTrap
<1>1. IInv /\ Exact => NoStrayTrap
  BY DEF Exact, MemExact, NoStrayTrap, IInv, Control, Present
<1>2. IInv /\ Exact /\ [Next]_vars /\ [InRange]_vars => Exact'
  BY ExactStep
<1> QED
  BY <1>1, <1>2, ExactInit, SpecIInv, PTL DEF Spec, DeletesInRange

\* Deleting the front entry only is one way to keep the ids in range.
THEOREM FrontIsInRange ==
  ASSUME DeleteInput \subseteq {0}
  PROVE  Spec => DeletesInRange
<1>1. IInv => InRange
  <2> SUFFICES ASSUME IInv, NEW id \in DeleteInput, Delete(id)
               PROVE  id < Len(bp_list)
    BY DEF InRange
  <2>1. bp_list \in Seq(Bp) /\ id = 0
    BY DEF IInv, TypeOK
  <2>2. bp_list # <<>>
    BY DEF Delete
  <2> QED
    BY <2>1, <2>2, EmptySeq, LenProperties
<1> QED
  BY <1>1, SpecIInv, PTL DEF Spec, DeletesInRange

----------------------------------------------------------------------------
(* The path of the program.                                                *)

\* A child that is there stands before an instruction of its path, or, behind the trap
\* of a listed break point, has one to go back to.
OnPath(R) ==
  /\ event \in {"exited", "killed"} => proc = "zombie"
  /\ proc = "running" => (stepping <=> cmd = "si")
  /\ Present => exec \in Program /\ (rip \in R[exec] \/ (Trapped /\ rip - 1 \in R[exec]))

Simulates == [Transparent!DNext]_(Transparent!dvars)

LEMMA PathInit ==
  ASSUME NEW R
  PROVE  Init => OnPath(R) /\ Transparent!DInit
BY DEF Init, TraceeInit, OnPath, Present, Running, Transparent!DInit, Ip, Phase, Budget, Done

\* Behind a break point the path has no instruction: a process that stands there has
\* hit it.
LEMMA BehindIsTrapped ==
  ASSUME NEW R, Steppable(R), Exact, OnPath(R), Present, rip \in RipRange,
         NEW k \in DOMAIN bp_list, bp_list[k].addr = rip - 1
  PROVE  Trapped /\ rip - 1 \in R[exec]
<1>1. bp_list[k] \in ExactBp
  BY ListedNamed DEF Exact
<1>2. bp_list[k].addr \in BreakInput \cap Addr /\ bp_list[k].addr + 1 = rip
  BY <1>1 DEF ExactBp, Bp, RipRange
<1>3. rip \notin R[exec]
  BY <1>2 DEF OnPath, Steppable
<1> QED
  BY <1>3 DEF OnPath

\* Where control arrives is an instruction, with no break point just in front of it.
LEMMA ArriveUntrapped ==
  ASSUME NEW R, Steppable(R), Exact, exec \in Program, rip' \in R[exec], UNCHANGED bp_list
  PROVE  ~Trapped'
<1> SUFFICES ASSUME NEW k \in DOMAIN bp_list, bp_list[k].addr = rip' - 1
             PROVE  FALSE
  BY DEF Trapped
<1>1. bp_list[k] \in ExactBp
  BY ListedNamed DEF Exact
<1>2. rip' \in Addr
  BY DEF Steppable, Insn
<1>3. bp_list[k].addr \in BreakInput \cap Addr /\ bp_list[k].addr + 1 = rip'
  <2>1. bp_list[k].addr \in BreakInput \cap Addr
    BY <1>1 DEF ExactBp, Bp
  <2>2. \A x, y \in Addr : x = y - 1 => x + 1 = y
    BY DEF Addr
  <2> QED
    BY <1>2, <2>1, <2>2
<1> QED
  BY <1>3 DEF Steppable

\* A running process is in front of an instruction; a trap there is a break point's,
\* and without a trap the whole instruction is the image's.
LEMMA RunningAtInsn ==
  ASSUME NEW R, Steppable(R), IInv, Exact, OnPath(R), proc = "running"
  PROVE  /\ Present /\ ~Trapped /\ exec \in Program /\ rip \in R[exec]
         /\ pc = "wait" /\ event = "none"
         /\ AtTrap(rip) => Listed(rip)
         /\ AtTrap(rip) \/ Intact(rip)
<1>1. Present /\ ~Trapped /\ pc = "wait" /\ event = "none"
  BY DEF Present, Trapped, IInv, Control
<1>2. exec \in Program /\ rip \in R[exec] /\ exec \in File
  BY <1>1 DEF OnPath, Program
<1>3. rip \in Addr /\ rip \in MemAddr /\ Image[exec][rip] # INT3 /\ InsnLen[exec][rip] > 0
      /\ InsnLen[exec][rip] \in 0..WordLen
  BY <1>2, SizeAssumption, CodeAssumption DEF Insn, Addr, MemAddr, Steppable
<1>4. \A x \in MemAddr : mem[x] = Image[exec][x] \/ (mem[x] = INT3 /\ Listed(x))
  BY <1>1, <1>2 DEF Exact, MemExact
<1>5. AtTrap(rip) => Listed(rip)
  BY <1>3, <1>4 DEF AtTrap
<1>6. ASSUME ~AtTrap(rip), NEW k \in 0..(InsnLen[exec][rip] - 1)
      PROVE  mem[rip + k] = Image[exec][rip + k]
  <2>1. rip + k \in MemAddr
    BY <1>3, SizeAssumption DEF Addr, MemAddr
  <2>2. CASE k = 0
    <3>1. rip + k = rip
      BY <1>3, <2>2 DEF Addr
    <3> QED
      BY <1>3, <1>4, <1>6, <3>1 DEF AtTrap
  <2>3. CASE k # 0
    <3>1. rip + k \notin BreakInput \cap Addr
      <4>1. k \in 1..(InsnLen[exec][rip] - 1)
        BY <1>3, <2>3
      <4> QED
        BY <1>2, <4>1 DEF Steppable
    <3>2. ~Listed(rip + k)
      BY <3>1, ListedNamed DEF Exact
    <3> QED
      BY <1>4, <2>1, <3>2
  <2> QED
    BY <2>2, <2>3
<1> QED
  BY <1>1, <1>2, <1>3, <1>5, <1>6 DEF Intact

\* At the prompt and in chkbp a step that moves neither process is not noticed.
LEMMA QuietSimulates ==
  ASSUME NEW R, OnPath(R), pc \in {"prompt", "chkbp"},
         UNCHANGED <<rip, proc, event, stepping, exec, pc, cmd>>
  PROVE  OnPath(R)' /\ Simulates
<1>1. ~Trapped /\ ~Trapped'
  BY DEF Trapped
<1>2. UNCHANGED <<Present, Running>>
  BY DEF Present, Running
<1>3. OnPath(R)'
  BY <1>1, <1>2 DEF OnPath
<1>4. UNCHANGED <<Ip, Phase, Budget>>
  BY <1>1, <1>2 DEF Ip, Phase, Budget
<1> QED
  BY <1>2, <1>3, <1>4 DEF Simulates, Transparent!dvars

\* The debugger leaves, by exit or an error: its child dies or was gone already.
LEMMA LeaveSimulates ==
  ASSUME NEW R, IInv, OnPath(R), pc # "exec" \/ proc = "zombie", LeaveTracee, pc' = "exit"
  PROVE  OnPath(R)' /\ Simulates
<1>1. /\ exec' = exec /\ proc' \in {"none", "zombie"}
      /\ UNCHANGED <<proc, event>> \/ proc' = "zombie"
  <2>1. CASE proc \in {"stopped", "running"}
    BY <2>1 DEF IInv, Control, LeaveTracee, End, Present
  <2>2. CASE proc \notin {"stopped", "running"}
    BY <2>2 DEF IInv, TypeOK, TraceeTypeOK, Control, LeaveTracee, End
  <2> QED
    BY <2>1, <2>2
<1>2. ~Present' /\ Ip' = Done /\ Phase' = "over" /\ Budget' = "none"
  BY <1>1 DEF Present, Ip, Phase, Budget
<1>3. OnPath(R)'
  BY <1>1, <1>2 DEF OnPath
<1>4. CASE Present
  BY <1>1, <1>2, <1>3, <1>4 DEF Simulates, Transparent!DNext, Transparent!Die
<1>5. CASE ~Present
  <2>1. Ip = Done /\ Budget = "none"
    BY <1>5 DEF Ip, Budget
  <2>2. Present' = Present
    BY <1>2, <1>5 DEF Present
  <2> QED
    BY <1>1, <1>2, <1>3, <1>5, <2>1, <2>2 DEF Simulates, Transparent!DNext, Transparent!Leave
<1> QED
  BY <1>4, <1>5

\* The steps of the child: an instruction is one of the image, a trap is a break point's.
LEMMA ChildSimulates ==
  ASSUME NEW R, Steppable(R), IInv, Exact, OnPath(R), TraceeStep
  PROVE  OnPath(R)' /\ Simulates
<1>0. /\ TypeOK /\ TraceeTypeOK /\ Control /\ TraceeNext
      /\ UNCHANGED <<pc, cmd, i, bp_list, sdbVars>>
  BY DEF IInv, TypeOK, TraceeStep, sdbVars
<1>p. Phase' = Phase
  BY <1>0 DEF Phase
<1>1. CASE ExecOk
  <2>1. /\ pc = "exec" /\ proc = "forked" /\ exec \in Program
        /\ exec' = exec /\ rip' = Entry[exec] /\ proc' = "stopped" /\ event' = "trap"
    BY <1>0, <1>1 DEF ExecOk, Stop, Control, Program
  <2>2. exec \in File /\ ~Present /\ Present' /\ ~Trapped'
    BY <1>0, <2>1 DEF Present, Trapped, Program
  <2>3. OnPath(R)'
    BY <2>1, <2>2 DEF OnPath, Steppable
  <2>4. Phase = "prompt" /\ Ip' = Entry[exec] /\ Budget = "none" /\ Budget' = "none"
    BY <1>0, <2>1, <2>2 DEF Phase, Ip, Budget
  <2> QED
    BY <1>p, <2>1, <2>2, <2>3, <2>4 DEF Simulates, Transparent!DNext, Transparent!Launch
<1>2. CASE proc' = "zombie" /\ event' \in {"exited", "killed"} /\ UNCHANGED exec /\ ~Present
  <2>1. Present' = Present /\ ~Present'
    BY <1>2 DEF Present
  <2>2. OnPath(R)' /\ UNCHANGED <<Ip, Budget>>
    BY <1>2, <2>1 DEF OnPath, Ip, Budget
  <2> QED
    BY <1>p, <1>2, <2>1, <2>2 DEF Simulates, Transparent!dvars
<1>3. CASE proc' = "zombie" /\ event' = "killed" /\ UNCHANGED exec /\ Present
  <2>1. ~Present' /\ Ip' = Done /\ Budget' = "none"
    BY <1>3 DEF Present, Ip, Budget
  <2>2. OnPath(R)'
    BY <1>3, <2>1 DEF OnPath
  <2> QED
    BY <1>p, <1>3, <2>1, <2>2 DEF Simulates, Transparent!DNext, Transparent!Die
<1>4. CASE Instruction \/ Signal
  <2>0. proc = "running" /\ UNCHANGED <<mem, stepping, exec, exitkill>>
    BY <1>4 DEF Instruction, Trap, Execute, Garbled, Signal
  <2>1. /\ Present /\ ~Trapped /\ exec \in Program /\ rip \in R[exec]
        /\ pc = "wait" /\ event = "none"
        /\ AtTrap(rip) => Listed(rip)
        /\ AtTrap(rip) \/ Intact(rip)
    BY <2>0, RunningAtInsn
  <2>2. Ip = rip /\ Phase = "go" /\ Budget = IF cmd = "si" THEN "one" ELSE "many"
    BY <2>0, <2>1 DEF Ip, Phase, Budget, Running
  <2>3. rip \in Addr
    BY <2>1 DEF Steppable, Insn
  <2>4. CASE Trap
    <3>1. /\ rip' = rip + 1 /\ proc' = "stopped" /\ event' = "trap" /\ mem[rip] = INT3
          /\ Listed(rip)
      BY <2>1, <2>4 DEF Trap, Stop, AtTrap
    <3>2. Present' /\ Present' = Present /\ Budget' = "none"
      BY <2>0, <2>1, <3>1, <1>0 DEF Present, Budget, Running
    <3>3. Trapped' /\ rip' - 1 = rip
      BY <1>0, <2>0, <2>1, <2>3, <3>1 DEF Trapped, Listed, Addr
    <3>4. OnPath(R)' /\ Ip' = Ip
      BY <2>0, <2>1, <2>2, <3>1, <3>2, <3>3 DEF OnPath, Ip
    <3> QED
      BY <1>p, <2>0, <2>1, <2>2, <3>2, <3>4 DEF Simulates, Transparent!DNext, Transparent!Halt
  <2>5. CASE Signal
    <3>1. proc' = "stopped" /\ event' = "signal" /\ rip' = rip
      BY <2>5 DEF Signal, Stop
    <3>2. Present' /\ Present' = Present /\ Budget' = "none" /\ ~Trapped'
      BY <2>0, <2>1, <3>1, <1>0 DEF Present, Budget, Running, Trapped
    <3>3. OnPath(R)' /\ Ip' = Ip
      BY <2>0, <2>1, <2>2, <3>1, <3>2 DEF OnPath, Ip, Insn
    <3> QED
      BY <1>p, <2>0, <2>1, <2>2, <3>2, <3>3 DEF Simulates, Transparent!DNext, Transparent!Halt
  <2>6. CASE Execute
    <3>1. PICK next \in Succ[exec][rip] :
            \/ next = Done /\ End("exited") /\ UNCHANGED rip
            \/ next # Done /\ GoOn(next)
      BY <2>6 DEF Execute
    <3>2. next \in R[exec] \cup {Done}
      BY <2>1, <3>1 DEF Steppable
    <3>3. CASE next = Done /\ End("exited")
      <4>1. ~Present' /\ Ip' = Done /\ Budget' = "none" /\ proc' = "zombie"
        BY <3>3 DEF End, Present, Ip, Budget
      <4>2. OnPath(R)'
        BY <4>1 DEF OnPath
      <4>3. Budget # "none"
        BY <2>2
      <4> QED
        BY <1>p, <2>0, <2>1, <2>2, <3>1, <3>3, <4>1, <4>2, <4>3
           DEF Simulates, Transparent!DNext, Transparent!Finish
    <3>4. CASE next # Done /\ GoOn(next)
      <4>1. rip' = next /\ next \in R[exec] /\ exec' = exec
        BY <2>0, <3>2, <3>4 DEF GoOn
      <4>2. ~Trapped'
        BY <1>0, <2>1, <4>1, ArriveUntrapped
      <4>3. /\ stepping => proc' = "stopped" /\ event' = "trap"
            /\ ~stepping => proc' = proc /\ event' = event
        BY <3>4 DEF GoOn, Stop
      <4>4. Present' /\ Present' = Present /\ Ip' = next
        BY <2>0, <2>1, <4>1, <4>2, <4>3 DEF Present, Ip
      <4>5. OnPath(R)'
        BY <1>0, <2>0, <2>1, <4>1, <4>3, <4>4 DEF OnPath
      <4>6. stepping <=> cmd = "si"
        BY <2>0 DEF OnPath
      <4>7. Budget' \in IF Budget = "one" THEN {"none"} ELSE {"none", "many"}
        BY <1>0, <2>0, <2>1, <2>2, <4>3, <4>4, <4>6 DEF Budget, Running
      <4>8. Budget # "none"
        BY <2>2
      <4> QED
        BY <1>p, <2>0, <2>1, <2>2, <3>1, <3>4, <4>4, <4>5, <4>7, <4>8
           DEF Simulates, Transparent!DNext, Transparent!Take
    <3> QED
      BY <3>1, <3>3, <3>4
  <2>7. ~Garbled
    BY <2>1 DEF Garbled
  <2> QED
    BY <1>4, <2>4, <2>5, <2>6, <2>7 DEF Instruction
<1>5. CASE ExecFails
  BY <1>2, <1>5 DEF ExecFails, End, Present
<1>6. CASE Killed
  BY <1>2, <1>3, <1>6 DEF Killed, End
<1> QED
  BY <1>0, <1>1, <1>4, <1>5, <1>6 DEF TraceeNext, Exec

\* A failed ptrace or waitpid.
LEMMA ErrorSimulates ==
  ASSUME NEW R, IInv, OnPath(R), Error, pc # "exec" \/ proc = "zombie"
  PROVE  OnPath(R)' /\ Simulates
BY LeaveSimulates DEF Error

\* The steps of the debugger that no user typed: what they do to the program is not
\* noticed, other than that a command ends.
LEMMA StepSimulates ==
  ASSUME NEW R, Steppable(R), IInv, Exact, OnPath(R), Step
  PROVE  OnPath(R)' /\ Simulates
<1>0. TypeOK /\ TraceeTypeOK /\ Control
  BY DEF IInv, TypeOK
<1>1. CASE Error /\ pc # "exec"
  BY <1>1, ErrorSimulates
<1>2. CASE Started
  <2>1. CASE ~Answers
    <3>1. Error /\ proc = "zombie"
      BY <1>0, <1>2, <2>1 DEF Started, Answers, Control
    <3> QED
      BY <3>1, ErrorSimulates
  <2>2. CASE Answers
    <3>1. /\ pc = "exec" /\ proc = "stopped" /\ event' = "none"
          /\ UNCHANGED <<mem, rip, proc, stepping, exec, bp_list>>
      BY <1>2, <2>2 DEF Started, Answers
    <3>2. Present /\ Present' = Present /\ ~Trapped
      BY <3>1 DEF Present, Trapped
    <3>3. /\ Phase = "prompt" /\ Budget = "none" /\ Ip = rip
      BY <3>1, <3>2 DEF Phase, Budget, Ip
    <3>4. CASE cmd = "run"
      <4>1. pc' = "chkbp" /\ cmd' = "run"
        BY <1>2, <2>2, <3>4 DEF Started, Goto
      <4>2. ~Trapped' /\ Phase' = "go"
        BY <4>1 DEF Trapped, Phase
      <4>3. Budget' \in {"one", "many"} /\ Ip' = Ip
        BY <3>1, <3>2, <3>3, <4>1, <4>2 DEF Budget, Ip
      <4>4. OnPath(R)'
        BY <3>1, <3>2, <4>2 DEF OnPath
      <4> QED
        BY <3>1, <3>2, <3>3, <4>2, <4>3, <4>4
           DEF Simulates, Transparent!DNext, Transparent!GoOn
    <3>5. CASE cmd # "run"
      <4>1. pc' = "prompt"
        BY <1>2, <2>2, <3>5 DEF Started, Return
      <4>2. ~Trapped' /\ Phase' = "prompt"
        BY <4>1 DEF Trapped, Phase
      <4>3. Budget' = "none" /\ Ip' = Ip
        BY <3>1, <3>2, <3>3, <4>1, <4>2 DEF Budget, Ip
      <4>4. OnPath(R)'
        BY <3>1, <3>2, <4>2 DEF OnPath
      <4> QED
        BY <3>1, <3>2, <3>3, <4>2, <4>3, <4>4 DEF Simulates, Transparent!dvars
    <3> QED
      BY <3>4, <3>5
  <2> QED
    BY <2>1, <2>2
<1>3. CASE Chkbp /\ ~Error
  <2>1. pc = "chkbp" /\ UNCHANGED <<rip, proc, event, stepping, exec, pc, cmd>>
    BY <1>3 DEF Chkbp, traceeVars
  <2> QED
    BY <2>1, QuietSimulates
<1>4. CASE Go /\ ~Error
  <2>1. /\ pc = "chkbp" /\ proc = "stopped" /\ proc' = "running" /\ event' = "none"
        /\ (stepping' <=> cmd = "si") /\ pc' = "wait" /\ cmd' = cmd
        /\ UNCHANGED <<mem, rip, exec, bp_list>>
    BY <1>4 DEF Go, Answers, Goto, session
  <2>2. Present /\ Present' = Present /\ ~Trapped /\ ~Trapped' /\ Running'
    BY <2>1 DEF Present, Trapped, Running
  <2>3. OnPath(R)'
    BY <2>1, <2>2 DEF OnPath
  <2>4. UNCHANGED <<Ip, Phase, Budget>>
    BY <2>1, <2>2 DEF Ip, Phase, Budget
  <2> QED
    BY <2>1, <2>2, <2>3, <2>4 DEF Simulates, Transparent!dvars
<1>5. CASE Wait /\ event # "trap"
  <2>1. /\ pc = "wait" /\ pc' = "prompt" /\ event' = "none" /\ exec' = exec /\ rip' = rip
        /\ event # "none" /\ proc # "running"
    BY <1>0, <1>5
       DEF Wait, WaitExited, WaitKilled, WaitSignal, WaitTrap, Return, Control
  <2>2. ~Trapped /\ ~Trapped'
    BY <1>5, <2>1 DEF Trapped
  <2>3. proc' = proc \/ (proc = "zombie" /\ proc' = "none")
    BY <1>5 DEF Wait, WaitExited, WaitKilled, WaitSignal, WaitTrap, OnPath
  <2>4. Present' = Present
    BY <2>3 DEF Present
  <2>5. /\ Phase = "go" /\ Phase' = "prompt" /\ Budget = "none" /\ Budget' = "none" /\ Ip' = Ip
    BY <2>1, <2>2, <2>4 DEF Phase, Budget, Ip, Running
  <2>6. OnPath(R)'
    BY <2>1, <2>2, <2>3, <2>4 DEF OnPath
  <2> QED
    BY <2>1, <2>4, <2>5, <2>6 DEF Simulates, Transparent!DNext, Transparent!Yield
<1>6. CASE WaitTrap
  <2>1. /\ pc = "wait" /\ pc' = "getregs" /\ event = "trap" /\ event' = "none"
        /\ UNCHANGED <<mem, rip, proc, stepping, exec, cmd, bp_list>> /\ proc # "running"
    BY <1>0, <1>6 DEF WaitTrap, Goto, session, Control
  <2>2. Present' = Present
    BY <2>1 DEF Present
  <2>3. Trapped' = Trapped
    BY <2>1 DEF Trapped
  <2>4. UNCHANGED <<Ip, Phase, Budget>>
    BY <2>1, <2>2, <2>3 DEF Ip, Phase, Budget, Running
  <2>5. OnPath(R)'
    BY <2>1, <2>2, <2>3 DEF OnPath
  <2> QED
    BY <2>1, <2>2, <2>4, <2>5 DEF Simulates, Transparent!dvars
<1>g. CASE GetRegs /\ ~Error
  <2>1. /\ pc = "getregs" /\ pc' = "hit" /\ i' = 1
        /\ UNCHANGED <<mem, rip, proc, event, stepping, exec, cmd, bp_list>> /\ proc # "running"
    BY <1>0, <1>g DEF GetRegs, Goto, traceeVars, session, Control
  <2>2. Present' = Present
    BY <2>1 DEF Present
  <2>3. \A k \in DOMAIN bp_list : k >= 1
    BY <1>0, LenProperties DEF TypeOK
  <2>4. Trapped' = Trapped
    BY <2>1, <2>3 DEF Trapped
  <2>5. UNCHANGED <<Ip, Phase, Budget>>
    BY <2>1, <2>2, <2>4 DEF Ip, Phase, Budget
  <2>6. OnPath(R)'
    BY <2>1, <2>2, <2>4 DEF OnPath
  <2> QED
    BY <2>1, <2>2, <2>5, <2>6 DEF Simulates, Transparent!dvars
<1>7. CASE Hit /\ ~Error
  <2> DEFINE b == bp_list[i]
  <2>0. /\ pc = "hit" /\ i \in DOMAIN bp_list /\ b \in ExactBp /\ b \in Bp /\ i \in Nat
        /\ i' = i + 1 /\ UNCHANGED <<proc, event, stepping, exec, pc, cmd, bp_list>>
        /\ proc # "running" /\ i <= Len(bp_list)
    <3>1. i \in DOMAIN bp_list /\ b \in Bp
      BY <1>0, <1>7, EntryType DEF Hit, Control
    <3>2. b \in ExactBp
      BY <3>1, ListedNamed DEF Exact
    <3> HIDE DEF b
    <3> QED
      BY <1>0, <1>7, <3>1, <3>2 DEF Hit, session, traceeVars, Control, TypeOK
  <2>1. Present' = Present /\ Phase = "go" /\ Phase' = "go" /\ Budget = "none" /\ Budget' = "none"
    BY <2>0 DEF Present, Phase, Budget
  <2>2. CASE HitAt(b)
    <3>1. /\ Present /\ proc = "stopped" /\ rip' = rip - 1 /\ b.addr = rip - 1
      BY <1>7, <2>2 DEF Hit, Answers, Present, HitAt, RipAfterHit
    <3>2. Trapped /\ rip - 1 \in R[exec]
      BY <1>0, <2>0, <3>1, BehindIsTrapped DEF TraceeTypeOK
    <3>3. exec \in Program /\ rip' \in R[exec]
      BY <2>0, <3>1, <3>2 DEF OnPath
    <3>4. ~Trapped'
      BY <2>0, <3>3, ArriveUntrapped
    <3>5. Ip' = Ip
      BY <2>0, <2>1, <3>1, <3>2, <3>4 DEF Ip
    <3>6. OnPath(R)'
      BY <2>0, <2>1, <3>1, <3>3, <3>4 DEF OnPath
    <3> QED
      BY <2>0, <2>1, <3>5, <3>6 DEF Simulates, Transparent!dvars
  <2>3. CASE ~HitAt(b)
    <3>1. UNCHANGED <<rip, mem>> /\ b.addr # rip - 1
      BY <1>7, <2>3 DEF Hit, traceeVars, HitAt
    <3>2. \A k \in DOMAIN bp_list : bp_list[k].addr = rip - 1 => (k >= i + 1 <=> k >= i)
      <4>1. \A k \in DOMAIN bp_list : k \in Nat
        BY <1>0, LenProperties DEF TypeOK
      <4> QED
        BY <2>0, <3>1, <4>1
    <3>3. Trapped' = Trapped
      BY <2>0, <3>1, <3>2 DEF Trapped
    <3>4. Ip' = Ip
      BY <2>1, <3>1, <3>3 DEF Ip
    <3>5. OnPath(R)'
      BY <2>0, <2>1, <3>1, <3>3 DEF OnPath
    <3> QED
      BY <2>0, <2>1, <3>4, <3>5 DEF Simulates, Transparent!dvars
  <2> QED
    BY <2>2, <2>3
<1>8. CASE HitEnd
  <2>1. /\ pc = "hit" /\ pc' = "prompt" /\ i > Len(bp_list)
        /\ UNCHANGED <<rip, proc, event, stepping, exec>> /\ proc # "running"
    BY <1>0, <1>8 DEF HitEnd, Return, traceeVars, Control
  <2>2. ~Trapped /\ ~Trapped'
    <3>1. \A k \in DOMAIN bp_list : k < i
      BY <1>0, <2>1, LenProperties DEF TypeOK
    <3>2. \A k \in DOMAIN bp_list : k \in Nat /\ i \in Nat
      BY <1>0, LenProperties DEF TypeOK
    <3> QED
      BY <2>1, <3>1, <3>2 DEF Trapped
  <2>3. Present' = Present
    BY <2>1 DEF Present
  <2>4. Phase = "go" /\ Phase' = "prompt" /\ Budget = "none" /\ Budget' = "none" /\ Ip' = Ip
    BY <2>1, <2>2, <2>3 DEF Phase, Budget, Ip
  <2>5. OnPath(R)'
    BY <2>1, <2>2, <2>3 DEF OnPath
  <2> QED
    BY <2>1, <2>3, <2>4, <2>5 DEF Simulates, Transparent!DNext, Transparent!Yield
<1>9. Wait /\ event = "trap" => WaitTrap
  BY DEF Wait, WaitExited, WaitKilled, WaitSignal
<1>10. Chkbp \/ Go \/ GetRegs \/ Hit => pc # "exec"
  BY DEF Chkbp, Go, GetRegs, Hit
<1> QED
  BY <1>1, <1>2, <1>3, <1>4, <1>5, <1>6, <1>g, <1>7, <1>8, <1>9, <1>10 DEF Step

\* What the user types: a process is started or resumed, `set rip' moves it, the end
\* of the debugger ends it, and nothing else is noticed.
LEMMA CommandSimulates ==
  ASSUME NEW R, Steppable(R), IInv, OnPath(R), Command
  PROVE  OnPath(R)' /\ Simulates
<1>0. TypeOK /\ TraceeTypeOK /\ Control /\ pc = "prompt" /\ proc \in {"none", "stopped", "zombie"}
  <2>1. pc = "prompt"
    BY DEF Command, Load, Start, Resume, Break, Delete, SetRip, Inspect, Vmmap, Disassemble, Quit
  <2> QED
    BY <2>1 DEF IInv, TypeOK, TraceeTypeOK, Control
<1>1. Phase = "prompt" /\ Budget = "none" /\ ~Trapped
  BY <1>0 DEF Phase, Budget, Trapped
<1>2. CASE Error
  BY <1>0, <1>2, ErrorSimulates
<1>3. CASE LeaveTracee /\ pc' = "exit"
  BY <1>0, <1>3, LeaveSimulates
<1>4. CASE UNCHANGED <<rip, proc, event, stepping, exec, pc, cmd>>
  BY <1>0, <1>4, QuietSimulates
<1>5. ASSUME NEW c \in {"start", "run"}, Start(c)
      PROVE  OnPath(R)' /\ Simulates
  <2>1. /\ proc = "none" /\ proc' = "forked" /\ event' = "none" /\ pc' = "exec"
        /\ exec' = file_path /\ file_path \in File
    BY <1>0, <1>5 DEF Start, MayStart, Control
  <2>2. ~Present /\ ~Present' /\ Present' = Present
    BY <2>1 DEF Present
  <2>3. Phase' = "prompt" /\ Budget' = "none" /\ Ip' = Ip
    BY <2>1, <2>2 DEF Phase, Budget, Ip
  <2>4. OnPath(R)'
    BY <2>1, <2>2 DEF OnPath
  <2> QED
    BY <1>1, <2>1, <2>2, <2>3, <2>4 DEF Simulates, Transparent!DNext, Transparent!Choose
<1>6. ASSUME NEW c \in {"run", "cont", "si"}, Resume(c), ~Error
      PROVE  OnPath(R)' /\ Simulates
  <2>1. /\ proc = "stopped" /\ pc' = "chkbp"
        /\ UNCHANGED <<rip, proc, event, stepping, exec>>
    BY <1>6 DEF Resume, Answers, traceeVars
  <2>2. Present /\ Present' = Present /\ ~Trapped'
    BY <2>1 DEF Present, Trapped
  <2>3. Phase' = "go" /\ Budget' \in {"one", "many"} /\ Ip' = Ip
    BY <1>1, <2>1, <2>2 DEF Phase, Budget, Ip
  <2>4. OnPath(R)'
    BY <1>1, <2>1, <2>2 DEF OnPath
  <2> QED
    BY <1>1, <2>1, <2>2, <2>3, <2>4 DEF Simulates, Transparent!DNext, Transparent!GoOn
<1>7. ASSUME NEW v \in RipInput, SetRip(v), ~Error
      PROVE  OnPath(R)' /\ Simulates
  <2>1. /\ proc = "stopped" /\ rip' = v
        /\ UNCHANGED <<proc, event, stepping, exec, pc, cmd>>
    BY <1>7 DEF SetRip, Answers, sdbVars
  <2>2. Present /\ Present' = Present /\ ~Trapped'
    BY <1>0, <2>1 DEF Present, Trapped
  <2>3. Phase' = Phase /\ Budget' = "none" /\ Ip' = v
    BY <1>0, <2>1, <2>2 DEF Phase, Budget, Ip
  <2>4. v \in R[exec]
    BY <2>2 DEF OnPath, Steppable
  <2>5. OnPath(R)'
    BY <1>0, <2>1, <2>2, <2>4 DEF OnPath
  <2> QED
    BY <1>1, <2>1, <2>2, <2>3, <2>5 DEF Simulates, Transparent!DNext, Transparent!Redirect
<1>8. ASSUME NEW f \in File, Load(f)
      PROVE  OnPath(R)' /\ Simulates
  <2>1. UNCHANGED <<control, traceeVars>> \/ (LeaveTracee /\ pc' = "exit")
    BY <1>8 DEF Load
  <2> QED
    BY <2>1, <1>3, <1>4 DEF control, traceeVars
<1>9. ASSUME NEW a \in BreakInput, Break(a), ~Error
      PROVE  OnPath(R)' /\ Simulates
  BY <1>4, <1>9 DEF Break, control
<1>10. ASSUME NEW id \in DeleteInput, Delete(id), ~Error
       PROVE  OnPath(R)' /\ Simulates
  BY <1>4, <1>10 DEF Delete, control
<1>11. ASSUME NEW a \in Addr, Disassemble(a), ~Error
       PROVE  OnPath(R)' /\ Simulates
  BY <1>4, <1>11 DEF Disassemble, control, traceeVars
<1>12. Inspect \/ Vmmap => Error
  BY DEF Inspect, Vmmap
<1>13. Quit => LeaveTracee /\ pc' = "exit"
  BY DEF Quit
<1> QED
  BY <1>2, <1>3, <1>5, <1>6, <1>7, <1>8, <1>9, <1>10, <1>11, <1>12, <1>13 DEF Command

LEMMA NextSimulates ==
  ASSUME NEW R, Steppable(R), IInv, Exact, OnPath(R), [Next]_vars
  PROVE  OnPath(R)' /\ Simulates
<1>1. CASE UNCHANGED vars
  <2>1. /\ UNCHANGED <<mem, rip, proc, event, stepping, exec>>
        /\ UNCHANGED <<pc, cmd, i, bp_list>>
    BY <1>1 DEF vars, traceeVars, sdbVars
  <2>2. Present' = Present /\ Trapped' = Trapped
    BY <2>1 DEF Present, Trapped
  <2>3. UNCHANGED <<Ip, Phase, Budget>>
    BY <2>1, <2>2 DEF Ip, Phase, Budget, Running
  <2>4. OnPath(R)'
    BY <2>1, <2>2 DEF OnPath
  <2> QED
    BY <2>1, <2>2, <2>3, <2>4 DEF Simulates, Transparent!dvars
<1> QED
  BY <1>1, ChildSimulates, StepSimulates, CommandSimulates DEF Next, Ended

\* The debugger implements Debuggee: in every such session, if control stays on places
\* R[f] of the program f that no break point is inside of or just in front of, wherever
\* else there are some, the program takes the path it would take by itself.  Break points and signals only make it halt early, `si' takes one
\* instruction at most, and only `set rip' takes the program elsewhere.
THEOREM DebuggerIsTransparent ==
  ASSUME OneProgram, WordApart, NEW R, Steppable(R)
  PROVE  Spec /\ DeletesInRange => TransparentSpec
<1> DEFINE Held == IInv /\ Exact /\ OnPath(R)
<1>1. Init => Held /\ Transparent!DInit
  BY InitIInv, ExactInit, PathInit
<1>2. Held /\ [Next]_vars /\ [InRange]_vars => Held' /\ [Transparent!DNext]_(Transparent!dvars)
  BY NextIInv, ExactStep, NextSimulates DEF Simulates
<1> HIDE DEF Held
<1> QED
  BY <1>1, <1>2, PTL DEF Spec, DeletesInRange, TransparentSpec, Transparent!DSpec
=============================================================================
