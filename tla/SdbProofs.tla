----------------------------- MODULE SdbProofs -----------------------------
(***************************************************************************)
(* Theorems about the debugger of Sdb, for every program, word length,     *)
(* list bound and input.                                                   *)
(***************************************************************************)
EXTENDS SdbProperties, SequenceTheorems, TLAPS

USE DEF ChildPid

----------------------------------------------------------------------------
(* Facts about the operators the model is built from.                      *)

\* erase of the (n-1)-th entry: the list is one shorter, the entries in front of
\* it keep their places and the ones behind it move up by one.
LEMMA RemoveAtLemma ==
  ASSUME NEW S, NEW s \in Seq(S), NEW n \in 1..Len(s)
  PROVE  /\ RemoveAt(s, n) \in Seq(S)
         /\ Len(RemoveAt(s, n)) = Len(s) - 1
         /\ \A k \in 1..(Len(s) - 1) :
              RemoveAt(s, n)[k] = IF k < n THEN s[k] ELSE s[k + 1]
<1> DEFINE a == SubSeq(s, 1, n - 1)
           b == SubSeq(s, n + 1, Len(s))
<1>0. Len(s) \in Nat /\ n \in Int /\ \A k \in 1..Len(s) : s[k] \in S
  BY LenProperties, ElementOfSeq
<1>1. /\ a \in Seq(S)
      /\ Len(a) = n - 1
      /\ \A k \in 1..(n - 1) : a[k] = s[k]
  <2>1. \A k \in 1..(n - 1) : s[k] \in S
    BY <1>0
  <2>2. 1 \in Int /\ n - 1 \in Int
    BY <1>0
  <2>3. /\ a \in Seq(S)
        /\ Len(a) = IF 1 <= n - 1 THEN (n - 1) - 1 + 1 ELSE 0
        /\ \A k \in 1..((n - 1) - 1 + 1) : a[k] = s[1 + k - 1]
    BY <2>1, <2>2, SubSeqProperties
  <2> HIDE DEF a
  <2> QED
    BY <2>3, <1>0
<1>2. /\ b \in Seq(S)
      /\ Len(b) = Len(s) - n
      /\ \A k \in 1..(Len(s) - n) : b[k] = s[n + k]
  <2>1. \A k \in (n + 1)..Len(s) : s[k] \in S
    BY <1>0
  <2>2. n + 1 \in Int /\ Len(s) \in Int
    BY <1>0
  <2>3. /\ b \in Seq(S)
        /\ Len(b) = IF n + 1 <= Len(s) THEN Len(s) - (n + 1) + 1 ELSE 0
        /\ \A k \in 1..(Len(s) - (n + 1) + 1) : b[k] = s[(n + 1) + k - 1]
    BY <2>1, <2>2, SubSeqProperties
  <2> HIDE DEF b
  <2> QED
    BY <2>3, <1>0
<1>3. RemoveAt(s, n) = a \o b
  BY DEF RemoveAt
<1> HIDE DEF a, b
<1>4. /\ a \o b \in Seq(S)
      /\ Len(a \o b) = Len(a) + Len(b)
      /\ \A k \in 1..(Len(a) + Len(b)) :
           (a \o b)[k] = IF k <= Len(a) THEN a[k] ELSE b[k - Len(a)]
  BY <1>1, <1>2, ConcatProperties
<1> QED
  BY <1>0, <1>1, <1>2, <1>3, <1>4

\* erase behind the end: the last entry goes.
LEMMA FrontLemma ==
  ASSUME NEW S, NEW s \in Seq(S), s # <<>>
  PROVE  /\ Front(s) \in Seq(S)
         /\ Len(Front(s)) = Len(s) - 1
         /\ \A k \in 1..(Len(s) - 1) : Front(s)[k] = s[k]
<1>0. Len(s) \in Nat \ {0} /\ \A k \in 1..Len(s) : s[k] \in S
  BY LenProperties, ElementOfSeq, EmptySeq
<1>1. 1 \in Int /\ Len(s) - 1 \in Int /\ \A k \in 1..(Len(s) - 1) : s[k] \in S
  BY <1>0
<1> DEFINE f == SubSeq(s, 1, Len(s) - 1)
<1>2. /\ f \in Seq(S)
      /\ Len(f) = IF 1 <= Len(s) - 1 THEN (Len(s) - 1) - 1 + 1 ELSE 0
      /\ \A k \in 1..((Len(s) - 1) - 1 + 1) : f[k] = s[1 + k - 1]
  BY <1>1, SubSeqProperties
<1>3. Front(s) = f
  BY DEF Front
<1> HIDE DEF f
<1> QED
  BY <1>0, <1>2, <1>3

\* Arming changes one byte: the rest of the word is written back as it was read.
LEMMA ArmLemma ==
  ASSUME mem \in [MemAddr -> Byte], NEW a \in Addr
  PROVE  /\ PokeWord(mem, a, ArmedWord(a)) = [mem EXCEPT ![a] = INT3]
         /\ PokeWord(mem, a, ArmedWord(a)) \in [MemAddr -> Byte]
<1> USE SizeAssumption DEF MemAddr, Addr, Offset
<1>1. \A x \in MemAddr : PokeWord(mem, a, ArmedWord(a))[x]
                           = IF x = a THEN INT3 ELSE mem[x]
  BY DEF PokeWord, ArmedWord, PeekWord
<1> QED
  BY <1>1, ImageAssumption DEF PokeWord

\* PEEKTEXT returns a word of bytes, and a write of a word leaves memory bytes.
LEMMA PeekType ==
  ASSUME mem \in [MemAddr -> Byte], NEW a \in Addr
  PROVE  PeekWord(mem, a) \in Word
BY SizeAssumption DEF MemAddr, Addr, Offset, PeekWord, Word

LEMMA PokeType ==
  ASSUME mem \in [MemAddr -> Byte], NEW a, NEW w \in Word
  PROVE  PokeWord(mem, a, w) \in [MemAddr -> Byte]
BY DEF PokeWord, Word

----------------------------------------------------------------------------
(* The inductive invariant.                                                *)

\* Where the debugger is, given what the child is doing: this is what lets every
\* ptrace request of the code find the child it was meant for.
Control ==
  /\ proc # "untraced"
  /\ proc # "none" => exec \in File
  /\ proc = "forked" => pc = "exec" /\ event = "none"
  /\ pc = "exec" => proc \in {"forked", "stopped", "zombie"}
  /\ proc = "running" => pc = "wait" /\ event = "none"
  /\ Present /\ pc # "exec" => exitkill
  /\ pc = "exit" => proc \in {"none", "zombie"}
  /\ pid = 0 /\ pc # "exit" => proc = "none"
  /\ state # "NONLOAD" => file_path \in File
  /\ pc \notin {"prompt", "exit"} => state # "NONLOAD"
  /\ pc \in {"chkbp", "wait", "getregs", "hit"} => i > 0

IInv == TypeOK /\ Control /\ SlotKnown

LEMMA InitIInv == Init => IInv
<1> SUFFICES ASSUME Init
             PROVE  IInv
  OBVIOUS
<1>1. TraceeTypeOK
  <2>1. [a \in MemAddr |-> INT3] \in [MemAddr -> Byte] /\ 1 \in RipRange
    BY SizeAssumption, ImageAssumption DEF RipRange
  <2> QED
    BY <2>1 DEF Init, TraceeInit, TraceeTypeOK
<1>2. TypeOK
  BY <1>1, EmptySeq DEF Init, TypeOK
<1>3. Control
  BY DEF Init, TraceeInit, Control, Present
<1>4. SlotKnown
  BY DEF Init, SlotKnown
<1> QED
  BY <1>2, <1>3, <1>4 DEF IInv

\* The types of a word and of the entries of the list.
LEMMA RestoreType ==
  ASSUME mem \in [MemAddr -> Byte], NEW b \in Bp
  PROVE  Restore(b) \in [MemAddr -> Byte]
BY PokeType DEF Restore, Bp

\* Leaving the debugger: the child is killed or was already gone.
LEMMA LeaveLemma ==
  ASSUME IInv, pc # "exec", LeaveTracee
  PROVE  /\ TraceeTypeOK'
         /\ proc' \in {"none", "zombie"}
         /\ proc' # "none" => proc # "none"
BY DEF IInv, TypeOK, TraceeTypeOK, Control, Present, LeaveTracee, End

LEMMA ErrorStep ==
  ASSUME IInv, Error, pc # "exec" \/ proc = "zombie"
  PROVE  IInv'
<1>1. TraceeTypeOK' /\ proc' \in {"none", "zombie"} /\ (proc' # "none" => proc # "none")
  BY LeaveLemma DEF Error, IInv, TypeOK, TraceeTypeOK, LeaveTracee, End, Control
<1> QED
  BY <1>1 DEF IInv, TypeOK, Control, SlotKnown, Error, LeaveTracee, session, Present, RipRange

\* The steps of the child keep the invariant.
LEMMA TraceeStepIInv == IInv /\ TraceeStep => IInv'
<1> SUFFICES ASSUME IInv, TraceeNext, UNCHANGED sdbVars
             PROVE  IInv'
  BY DEF TraceeStep
<1>0. TypeOK /\ Control /\ SlotKnown
  BY DEF IInv
<1>1. SlotKnown'
  BY <1>0 DEF SlotKnown, sdbVars
<1>2. TraceeTypeOK' /\ Control'
  <2> USE <1>0 DEF TypeOK, TraceeTypeOK, Control, Present, sdbVars, Stop, End
  <2>1. CASE ExecOk
    <3>1. mem' \in [MemAddr -> Byte] /\ rip' \in Addr
      BY <2>1, ImageAssumption, CodeAssumption DEF ExecOk
    <3> QED
      BY <2>1, <3>1, SizeAssumption DEF ExecOk, RipRange, Addr
  <2>2. CASE ExecFails
    BY <2>2 DEF ExecFails
  <2>3. CASE Trap
    BY <2>3, SizeAssumption DEF Trap, AtTrap, RipRange, Addr
  <2>4. CASE Execute
    <3>1. Succ[exec][rip] \subseteq Addr \cup {Done}
      BY <2>4, CodeAssumption DEF Execute, Intact
    <3> QED
      BY <2>4, <3>1, SizeAssumption DEF Execute, GoOn, RipRange, Addr, Done
  <2>5. CASE Garbled
    BY <2>5, SizeAssumption DEF Garbled, GoOn, RipRange, Addr
  <2>6. CASE Signal
    BY <2>6 DEF Signal
  <2>7. CASE Killed
    BY <2>7 DEF Killed
  <2> QED
    BY <2>1, <2>2, <2>3, <2>4, <2>5, <2>6, <2>7 DEF TraceeNext, Exec, Instruction
<1> QED
  BY <1>0, <1>1, <1>2 DEF IInv, TypeOK, sdbVars
\* The vector and what is behind its end after a push_back.
LEMMA AppendLemma ==
  ASSUME NEW S, bp_list \in Seq(S), spare \in Seq(S), NEW b \in S,
         bp_list' = Append(bp_list, b),
         spare' = IF spare = <<>> THEN <<>> ELSE Tail(spare)
  PROVE  /\ bp_list' \in Seq(S) /\ spare' \in Seq(S)
         /\ Len(bp_list) \in Nat /\ Len(spare) \in Nat
         /\ Len(spare') \in Nat /\ Len(spare') >= Len(spare) - 1
         /\ Len(bp_list') = Len(bp_list) + 1
         /\ DOMAIN bp_list = 1..Len(bp_list)
         /\ DOMAIN bp_list' = 1..(Len(bp_list) + 1)
         /\ \A k \in 1..Len(bp_list) : bp_list'[k] = bp_list[k]
         /\ bp_list'[Len(bp_list) + 1] = b
<1>1. Len(bp_list) \in Nat /\ Len(spare) \in Nat
  BY LenProperties
<1>2. /\ spare' \in Seq(S)
      /\ Len(spare') \in Nat
      /\ Len(spare') >= Len(spare) - 1
  <2>1. CASE spare = <<>>
    BY <2>1, <1>1, EmptySeq
  <2>2. CASE spare # <<>>
    <3>1. Tail(spare) \in Seq(S) /\ Len(Tail(spare)) = Len(spare) - 1 /\ Len(spare) \in Nat \ {0}
      BY <2>2, <1>1, HeadTailProperties, EmptySeq
    <3> QED
      BY <2>2, <3>1
  <2> QED
    BY <2>1, <2>2
<1>3. /\ bp_list' \in Seq(S)
      /\ Len(bp_list') = Len(bp_list) + 1
      /\ \A k \in 1..Len(bp_list) : bp_list'[k] = bp_list[k]
      /\ bp_list'[Len(bp_list) + 1] = b
  BY AppendProperties
<1>4. DOMAIN bp_list = 1..Len(bp_list) /\ DOMAIN bp_list' = 1..Len(bp_list')
  BY <1>3, LenProperties
<1> QED
  BY <1>1, <1>2, <1>3, <1>4

\* An id below the number of slots stays there when the list grows by one entry.
LEMMA IdBelow ==
  ASSUME NEW l \in Nat, NEW m \in Nat, NEW n \in Nat, n >= m - 1,
         NEW x \in Nat, x < l + m \/ x = l
  PROVE  x < (l + 1) + n
OBVIOUS

\* break and delete keep the list a list of break points, with every id below the
\* number of slots.
LEMMA AppendStep ==
  ASSUME TypeOK, SlotKnown, NEW b \in Bp, b.id = Len(bp_list),
         bp_list' = Append(bp_list, b),
         spare' = IF spare = <<>> THEN <<>> ELSE Tail(spare)
  PROVE  bp_list' \in Seq(Bp) /\ spare' \in Seq(Bp) /\ SlotKnown'
<1>1. /\ bp_list \in Seq(Bp)
      /\ bp_list' \in Seq(Bp) /\ spare' \in Seq(Bp)
      /\ Len(bp_list) \in Nat /\ Len(spare) \in Nat
      /\ Len(spare') \in Nat /\ Len(spare') >= Len(spare) - 1
      /\ Len(bp_list') = Len(bp_list) + 1
      /\ DOMAIN bp_list = 1..Len(bp_list)
      /\ DOMAIN bp_list' = 1..(Len(bp_list) + 1)
      /\ \A k \in 1..Len(bp_list) : bp_list'[k] = bp_list[k]
      /\ bp_list'[Len(bp_list) + 1] = b
  BY AppendLemma DEF TypeOK
<1>2. ASSUME NEW k \in DOMAIN bp_list'
      PROVE  bp_list'[k].id < Len(bp_list') + Len(spare')
  <2>1. CASE k = Len(bp_list) + 1
    <3>1. bp_list'[k].id = Len(bp_list)
      BY <2>1, <1>1
    <3>2. Len(bp_list) < (Len(bp_list) + 1) + Len(spare')
      BY <1>1, IdBelow
    <3> QED
      BY <3>1, <3>2, <1>1, Zenon
  <2>2. CASE k # Len(bp_list) + 1
    <3>1. k \in DOMAIN bp_list /\ bp_list'[k] = bp_list[k]
      BY <2>2, <1>1
    <3>2. bp_list[k] \in Bp
      BY <3>1, <1>1, ElementOfSeq
    <3>3. bp_list[k].id < Len(bp_list) + Len(spare) /\ bp_list[k].id \in Nat
      BY <3>1, <3>2 DEF SlotKnown, Bp
    <3>4. bp_list[k].id < (Len(bp_list) + 1) + Len(spare')
      BY <3>3, <1>1, IdBelow
    <3> QED
      BY <3>1, <3>4, <1>1, Zenon
  <2> QED
    BY <2>1, <2>2
<1> QED
  BY <1>1, <1>2 DEF SlotKnown

\* What the vector holds after delete: its entries are old entries, in their old
\* order, one fewer than before, and the last one is left behind the end.
LEMMA EraseLemma ==
  ASSUME NEW S, bp_list \in Seq(S), spare \in Seq(S), NEW id \in Nat, bp_list # <<>>,
         bp_list' = IF id < Len(bp_list) THEN RemoveAt(bp_list, id + 1) ELSE Front(bp_list),
         spare' = <<Last(bp_list)>> \o spare
  PROVE  /\ bp_list' \in Seq(S) /\ spare' \in Seq(S)
         /\ Len(bp_list) \in Nat \ {0} /\ Len(spare) \in Nat
         /\ Len(bp_list') = Len(bp_list) - 1
         /\ Len(spare') = Len(spare) + 1
         /\ DOMAIN bp_list = 1..Len(bp_list)
         /\ DOMAIN bp_list' = 1..(Len(bp_list) - 1)
         /\ \A k \in 1..(Len(bp_list) - 1) :
              bp_list'[k] = IF k < id + 1 THEN bp_list[k] ELSE bp_list[k + 1]
<1>1. /\ bp_list \in Seq(S) /\ spare \in Seq(S)
      /\ Len(bp_list) \in Nat \ {0} /\ Len(spare) \in Nat
      /\ DOMAIN bp_list = 1..Len(bp_list)
  BY LenProperties, EmptySeq
<1>2. /\ bp_list' \in Seq(S)
      /\ Len(bp_list') = Len(bp_list) - 1
      /\ \A k \in 1..(Len(bp_list) - 1) :
           bp_list'[k] = IF k < id + 1 THEN bp_list[k] ELSE bp_list[k + 1]
  <2>1. CASE id < Len(bp_list)
    <3>1. id + 1 \in 1..Len(bp_list)
      BY <2>1, <1>1
    <3> QED
      BY <2>1, <3>1, <1>1, RemoveAtLemma
  <2>2. CASE ~(id < Len(bp_list))
    <3>1. /\ Front(bp_list) \in Seq(S)
          /\ Len(Front(bp_list)) = Len(bp_list) - 1
          /\ \A k \in 1..(Len(bp_list) - 1) : Front(bp_list)[k] = bp_list[k]
      BY <1>1, FrontLemma
    <3> QED
      BY <2>2, <3>1, <1>1
  <2> QED
    BY <2>1, <2>2
<1>3. /\ spare' \in Seq(S)
      /\ Len(spare') = Len(spare) + 1
  <2>1. Last(bp_list) \in S
    BY <1>1, ElementOfSeq DEF Last
  <2>2. <<Last(bp_list)>> \in Seq(S) /\ Len(<<Last(bp_list)>>) = 1
    BY <2>1
  <2> QED
    BY <2>2, <1>1, ConcatProperties
<1> QED
  BY <1>1, <1>2, <1>3, LenProperties

\* The slot delete reads holds a break point, listed or erased.
LEMMA SlotType ==
  ASSUME NEW S, bp_list \in Seq(S), spare \in Seq(S), NEW id \in Nat, id < Len(bp_list) + Len(spare)
  PROVE  Slot(id) \in S
<1>1. bp_list \in Seq(S) /\ spare \in Seq(S) /\ Len(bp_list) \in Nat /\ Len(spare) \in Nat
  BY LenProperties
<1>2. bp_list \o spare \in Seq(S) /\ Len(bp_list \o spare) = Len(bp_list) + Len(spare)
  BY <1>1, ConcatProperties
<1>3. id + 1 \in 1..Len(bp_list \o spare)
  BY <1>1, <1>2
<1> QED
  BY <1>2, <1>3, ElementOfSeq DEF Slot

\* delete keeps every id below the number of slots, which does not change.
LEMMA EraseSlotKnown ==
  ASSUME TypeOK, SlotKnown, NEW id \in Nat, bp_list # <<>>,
         bp_list' = IF id < Len(bp_list) THEN RemoveAt(bp_list, id + 1) ELSE Front(bp_list),
         spare' = <<Last(bp_list)>> \o spare
  PROVE  SlotKnown'
<1>1. /\ Len(bp_list) \in Nat \ {0} /\ Len(spare) \in Nat
      /\ Len(bp_list') = Len(bp_list) - 1 /\ Len(spare') = Len(spare) + 1
      /\ DOMAIN bp_list = 1..Len(bp_list)
      /\ DOMAIN bp_list' = 1..(Len(bp_list) - 1)
      /\ \A k \in 1..(Len(bp_list) - 1) :
           bp_list'[k] = IF k < id + 1 THEN bp_list[k] ELSE bp_list[k + 1]
  BY EraseLemma DEF TypeOK
<1>2. Len(bp_list') + Len(spare') = Len(bp_list) + Len(spare)
  <2> DEFINE l == Len(bp_list)
             m == Len(spare)
             l2 == Len(bp_list')
             m2 == Len(spare')
  <2>1. l \in Nat /\ m \in Nat /\ l2 = l - 1 /\ m2 = m + 1
    BY <1>1, Zenon
  <2> HIDE DEF l, m, l2, m2
  <2>2. l2 + m2 = l + m
    BY <2>1
  <2> QED
    BY <2>2 DEF l, m, l2, m2
<1>3. ASSUME NEW k \in DOMAIN bp_list'
      PROVE  \E j \in DOMAIN bp_list : bp_list'[k] = bp_list[j]
  <2> DEFINE l == Len(bp_list)
  <2>1. l \in Nat /\ k \in 1..(l - 1)
    BY <1>1, Zenon
  <2> HIDE DEF l
  <2>2. k \in 1..l /\ k + 1 \in 1..l
    BY <2>1
  <2>3. k \in DOMAIN bp_list /\ k + 1 \in DOMAIN bp_list
    BY <2>2, <1>1, Zenon DEF l
  <2> QED
    BY <2>1, <2>3, <1>1, Zenon DEF l
<1>4. ASSUME NEW k \in DOMAIN bp_list'
      PROVE  bp_list'[k].id < Len(bp_list') + Len(spare')
  <2>1. PICK j \in DOMAIN bp_list : bp_list'[k] = bp_list[j]
    BY <1>3
  <2>2. bp_list[j].id < Len(bp_list) + Len(spare)
    BY DEF SlotKnown
  <2> QED
    BY <2>1, <2>2, <1>2, Zenon
<1> QED
  BY <1>4 DEF SlotKnown

\* The entry a loop of chkbp or chkstat looks at is one of the list.
LEMMA EntryType ==
  ASSUME TypeOK, i <= Len(bp_list), pc \in {"chkbp", "hit"}, i > 0
  PROVE  i \in DOMAIN bp_list /\ bp_list[i] \in Bp
<1>1. bp_list \in Seq(Bp) /\ i \in Nat /\ Len(bp_list) \in Nat /\ DOMAIN bp_list = 1..Len(bp_list)
  BY LenProperties DEF TypeOK
<1>2. i \in 1..Len(bp_list)
  BY <1>1
<1> QED
  BY <1>1, <1>2, ElementOfSeq

\* A step inside a loop, or at the prompt, that leaves the list alone.
LEMMA KeepLists ==
  ASSUME TypeOK, TraceeTypeOK, Control, SlotKnown,
         mem' \in [MemAddr -> Byte], rip' \in RipRange, code' \in File \cup {NoFile},
         UNCHANGED <<proc, event, stepping, exec, exitkill>>,
         UNCHANGED <<state, pid, file_path, elf, bp_list, spare, pc, cmd, from>>,
         i' = i + 1, i > 0
  PROVE  IInv'
<1>1. TypeOK'
  <2>1. TraceeTypeOK'
    BY DEF TraceeTypeOK
  <2>2. i' \in Nat
    BY DEF TypeOK
  <2>3. {file_path, elf, code}' \subseteq File \cup {NoFile}
    BY DEF TypeOK
  <2> QED
    BY <2>1, <2>2, <2>3 DEF TypeOK
<1>2. Control'
  BY DEF Control, Present, TypeOK
<1>3. SlotKnown'
  BY DEF SlotKnown
<1> QED
  BY <1>1, <1>2, <1>3 DEF IInv

----------------------------------------------------------------------------
\* Every step of the session keeps the invariant: what the user types, what the
\* debugger goes on to do, and what the child does in between.
LEMMA NextIInv == IInv /\ [Next]_vars => IInv'
<1> SUFFICES ASSUME IInv, [Next]_vars
             PROVE  IInv'
  OBVIOUS
<1>0. TypeOK /\ TraceeTypeOK /\ Control /\ SlotKnown
  BY DEF IInv, TypeOK
<1>1. ASSUME NEW f \in File, Load(f)
      PROVE  IInv'
  <2>1. SlotKnown'
    BY <1>1, <1>0 DEF Load, SlotKnown
  <2>2. CASE pc' = pc
    <3>1. UNCHANGED traceeVars /\ UNCHANGED control /\ UNCHANGED <<pid, code, bp_list, spare>>
      BY <2>2, <1>1, <1>0 DEF Load, control, traceeVars
    <3>2. file_path' = f /\ elf' \in {f, elf} /\ state' \in {state, "LOADED"}
      BY <2>2, <1>1, <1>0 DEF Load
    <3> QED
      BY <2>1, <3>1, <3>2, <1>1, <1>0
         DEF IInv, TypeOK, TraceeTypeOK, Control, Present, control, traceeVars, Load
  <2>3. CASE pc' # pc
    <3>1. pc = "prompt" /\ pc' = "exit" /\ LeaveTracee
      BY <2>3, <1>1 DEF Load, control
    <3>2. TraceeTypeOK' /\ proc' \in {"none", "zombie"} /\ (proc' # "none" => proc # "none")
      BY <3>1, LeaveLemma
    <3>3. UNCHANGED <<pid, code, bp_list, spare, elf, state, cmd, i, from>> /\ file_path' = f
      BY <2>3, <1>1 DEF Load, control
    <3> QED
      BY <2>1, <3>1, <3>2, <3>3, <1>0
         DEF IInv, TypeOK, Control, Present, LeaveTracee
  <2> QED
    BY <2>2, <2>3
<1>2. ASSUME NEW c \in {"start", "run"}, Start(c)
      PROVE  IInv'
  <2>1. TypeOK'
    BY <1>2, <1>0 DEF Start, TypeOK, TraceeTypeOK
  <2>2. Control'
    BY <1>2, <1>0 DEF Start, MayStart, Control, Present
  <2>3. SlotKnown'
    BY <1>2, <1>0 DEF Start, SlotKnown
  <2> QED
    BY <2>1, <2>2, <2>3 DEF IInv
<1>3. ASSUME NEW c \in {"run", "cont", "si"}, Resume(c)
      PROVE  IInv'
  <2>1. CASE ~Error
    BY <2>1, <1>3, <1>0
       DEF Resume, Answers, session, traceeVars, IInv, TypeOK, TraceeTypeOK, Control,
           SlotKnown, Present
  <2> QED
    BY <2>1, <1>3, ErrorStep DEF Resume
<1>4. ASSUME NEW a \in BreakInput, Break(a)
      PROVE  IInv'
  <2>1. CASE ~Error /\ Listed(a)
    <3>1. mem' \in [MemAddr -> Byte]
      BY <2>1, <1>4, <1>0, ArmLemma DEF Break, TraceeTypeOK
    <3> QED
      BY <2>1, <3>1, <1>4, <1>0
         DEF Break, Answers, control, IInv, TypeOK, TraceeTypeOK, Control, SlotKnown, Present
  <2>2. CASE ~Error /\ ~Listed(a)
    <3> DEFINE b == [id |-> NewId, addr |-> a, orig_code |-> SavedWord(a)]
    <3>1. mem' \in [MemAddr -> Byte]
      BY <2>2, <1>4, <1>0, ArmLemma DEF Break, TraceeTypeOK
    <3>2. b \in Bp /\ b.id = Len(bp_list)
      <4>1. a \in Addr /\ SavedWord(a) \in Word
        BY <2>2, <1>4, <1>0, PeekType DEF Break, TraceeTypeOK, SavedWord
      <4>2. Len(bp_list) \in Nat
        BY <1>0, LenProperties DEF TypeOK
      <4> QED
        BY <4>1, <4>2 DEF Bp, NewId
    <3>3. /\ bp_list' = Append(bp_list, b)
          /\ spare' = IF spare = <<>> THEN <<>> ELSE Tail(spare)
      BY <2>2, <1>4 DEF Break
    <3>4. bp_list' \in Seq(Bp) /\ spare' \in Seq(Bp) /\ SlotKnown'
      <4> HIDE DEF b
      <4> QED
        BY <3>2, <3>3, <1>0, AppendStep
    <3>5. code' \in File \cup {NoFile}
      BY <2>2, <1>4, <1>0 DEF Break, Disasm, TypeOK
    <3> HIDE DEF b
    <3>6. /\ UNCHANGED <<rip, proc, event, stepping, exec, exitkill>>
          /\ UNCHANGED <<state, pid, file_path, elf, pc, cmd, i, from>>
      BY <2>2, <1>4 DEF Break, control
    <3>7. TypeOK'
      BY <3>1, <3>4, <3>5, <3>6, <1>0 DEF TypeOK, TraceeTypeOK
    <3>8. Control'
      BY <3>6, <1>0 DEF Control, Present
    <3> QED
      BY <3>4, <3>7, <3>8 DEF IInv
  <2>3. CASE Error
    BY <2>3, <1>4, ErrorStep DEF Break
  <2> QED
    BY <2>1, <2>2, <2>3
<1>5. ASSUME NEW id \in DeleteInput, Delete(id)
      PROVE  IInv'
  <2>1. CASE ~Error
    <3>1. /\ id \in Nat /\ id < Len(bp_list) + Len(spare)
          /\ bp_list # <<>>
      BY <2>1, <1>5, InputAssumption DEF Delete
    <3>2. Slot(id) \in Bp
      BY <3>1, <1>0, SlotType DEF TypeOK
    <3>3. mem' \in [MemAddr -> Byte]
      BY <2>1, <1>5, <3>2, <1>0, RestoreType DEF Delete, TraceeTypeOK
    <3>4. /\ bp_list' = IF id < Len(bp_list) THEN RemoveAt(bp_list, id + 1) ELSE Front(bp_list)
          /\ spare' = <<Last(bp_list)>> \o spare
      BY <2>1, <1>5 DEF Delete
    <3>5. bp_list' \in Seq(Bp) /\ spare' \in Seq(Bp)
      BY <3>1, <3>4, <1>0, EraseLemma DEF TypeOK
    <3>6. SlotKnown'
      BY <3>1, <3>4, <1>0, EraseSlotKnown
    <3>7. code' \in File \cup {NoFile}
      BY <2>1, <1>5, <1>0 DEF Delete, Disasm, TypeOK
    <3>8. /\ UNCHANGED <<rip, proc, event, stepping, exec, exitkill>>
          /\ UNCHANGED <<state, pid, file_path, elf, pc, cmd, i, from>>
      BY <2>1, <1>5 DEF Delete, control
    <3>9. TypeOK'
      BY <3>3, <3>5, <3>7, <3>8, <1>0 DEF TypeOK, TraceeTypeOK
    <3>10. Control'
      BY <3>8, <1>0 DEF Control, Present
    <3> QED
      BY <3>6, <3>9, <3>10 DEF IInv
  <2>2. CASE Error
    BY <2>2, <1>5, ErrorStep DEF Delete
  <2> QED
    BY <2>1, <2>2
<1>6. ASSUME NEW v \in RipInput, SetRip(v)
      PROVE  IInv'
  <2>1. CASE ~Error
    <3>1. v \in RipRange
      BY InputAssumption, SizeAssumption DEF Addr, RipRange
    <3> QED
      BY <2>1, <3>1, <1>6, <1>0
         DEF SetRip, sdbVars, IInv, TypeOK, TraceeTypeOK, Control, SlotKnown, Present
  <2> QED
    BY <2>1, <1>6, ErrorStep DEF SetRip
<1>7. CASE Inspect \/ Vmmap
  BY <1>7, ErrorStep DEF Inspect, Vmmap
<1>8. ASSUME NEW a \in Addr, Disassemble(a)
      PROVE  IInv'
  <2>1. CASE ~Error
    BY <2>1, <1>8, <1>0
       DEF Disassemble, Disasm, control, traceeVars, IInv, TypeOK, TraceeTypeOK, Control,
           SlotKnown, Present
  <2> QED
    BY <2>1, <1>8, ErrorStep DEF Disassemble
<1>9. CASE Quit
  <2>1. TraceeTypeOK' /\ proc' \in {"none", "zombie"} /\ (proc' # "none" => proc # "none")
    BY <1>9, LeaveLemma DEF Quit
  <2> QED
    BY <2>1, <1>9, <1>0
       DEF Quit, LeaveTracee, IInv, TypeOK, Control, SlotKnown, Present
<1>10. CASE Started
  <2>1. CASE Answers
    <3>1. /\ event' = "none" /\ exitkill' = TRUE /\ state' = "RUNNING"
          /\ pc = "exec" /\ pc' \in {"chkbp", "prompt"}
          /\ cmd' \in {cmd, "none"} /\ i' \in {0, 1} /\ from' \in {0, rip}
          /\ pc' = "chkbp" => i' = 1
          /\ UNCHANGED <<mem, rip, proc, stepping, exec>>
          /\ UNCHANGED <<pid, file_path, elf, code, bp_list, spare>>
      BY <2>1, <1>10 DEF Started, SetOptions, Goto, Return
    <3>2. TypeOK'
      BY <3>1, <1>0 DEF TypeOK, TraceeTypeOK
    <3>3. Control'
      BY <3>1, <2>1, <1>0 DEF Answers, Control, Present
    <3>4. SlotKnown'
      BY <3>1, <1>0 DEF SlotKnown
    <3> QED
      BY <3>2, <3>3, <3>4 DEF IInv
  <2>2. CASE ~Answers
    <3>1. Error /\ proc = "zombie"
      BY <2>2, <1>10, <1>0 DEF Started, Answers, Control
    <3> QED
      BY <3>1, ErrorStep
  <2> QED
    BY <2>1, <2>2
<1>11. CASE Chkbp
  <2>1. CASE Error
    BY <2>1, <1>11, ErrorStep DEF Chkbp
  <2>2. CASE ~Error
    <3>1. bp_list[i] \in Bp
      BY <1>11, <1>0, EntryType DEF Chkbp, Control
    <3>2. mem' \in [MemAddr -> Byte]
      BY <2>2, <3>1, <1>11, <1>0, ArmLemma DEF Chkbp, TraceeTypeOK, traceeVars, Bp
    <3>3. /\ UNCHANGED <<rip, proc, event, stepping, exec, exitkill>>
          /\ UNCHANGED <<state, pid, file_path, elf, code, bp_list, spare, pc, cmd, from>>
          /\ i' = i + 1
      BY <2>2, <1>11 DEF Chkbp, session, traceeVars
    <3>4. i > 0
      BY <1>11, <1>0 DEF Chkbp, Control
    <3>5. rip' \in RipRange /\ code' \in File \cup {NoFile}
      BY <3>3, <1>0 DEF TypeOK, TraceeTypeOK
    <3> QED
      BY <3>2, <3>3, <3>4, <3>5, <1>0, KeepLists
  <2> QED
    BY <2>1, <2>2
<1>12. CASE Go
  <2>1. CASE ~Error
    <3>1. (cmd = "si") \in BOOLEAN
      OBVIOUS
    <3>2. /\ proc' = "running" /\ event' = "none" /\ stepping' \in BOOLEAN
          /\ pc' = "wait" /\ i' = 1 /\ Answers /\ pc = "chkbp"
          /\ UNCHANGED <<mem, rip, exec, exitkill, cmd, from>>
          /\ UNCHANGED <<state, pid, file_path, elf, code, bp_list, spare>>
      BY <2>1, <3>1, <1>12 DEF Go, Goto, session
    <3>3. TypeOK'
      BY <3>2, <1>0 DEF TypeOK, TraceeTypeOK
    <3>4. Control'
      BY <3>2, <1>0 DEF Control, Answers, Present
    <3>5. SlotKnown'
      BY <3>2, <1>0 DEF SlotKnown
    <3> QED
      BY <3>3, <3>4, <3>5 DEF IInv
  <2> QED
    BY <2>1, <1>12, ErrorStep DEF Go
<1>13. CASE Wait
  <2>1. SlotKnown'
    BY <1>13, <1>0
       DEF Wait, WaitExited, WaitKilled, WaitSignal, WaitTrap, session, SlotKnown
  <2>2. CASE WaitExited
    <3>1. TypeOK'
      BY <2>2, <1>0 DEF WaitExited, Return, TypeOK, TraceeTypeOK
    <3>2. Control'
      BY <2>2, <1>0 DEF WaitExited, Return, Control, Present
    <3> QED
      BY <2>1, <3>1, <3>2 DEF IInv
  <2>3. CASE WaitKilled
    <3>1. TypeOK'
      BY <2>3, <1>0 DEF WaitKilled, Return, session, TypeOK, TraceeTypeOK
    <3>2. Control'
      BY <2>3, <1>0 DEF WaitKilled, Return, session, Control, Present
    <3> QED
      BY <2>1, <3>1, <3>2 DEF IInv
  <2>4. CASE WaitSignal
    <3>1. TypeOK'
      BY <2>4, <1>0 DEF WaitSignal, Return, session, TypeOK, TraceeTypeOK
    <3>2. Control'
      BY <2>4, <1>0 DEF WaitSignal, Return, session, Control, Present
    <3> QED
      BY <2>1, <3>1, <3>2 DEF IInv
  <2>5. CASE WaitTrap
    <3>1. TypeOK'
      BY <2>5, <1>0 DEF WaitTrap, Goto, session, TypeOK, TraceeTypeOK
    <3>2. Control'
      BY <2>5, <1>0 DEF WaitTrap, Goto, session, Control, Present
    <3> QED
      BY <2>1, <3>1, <3>2 DEF IInv
  <2> QED
    BY <1>13, <2>2, <2>3, <2>4, <2>5 DEF Wait
<1>14. CASE Hit
  <2>1. CASE Error
    BY <2>1, <1>14, ErrorStep DEF Hit
  <2>2. CASE ~Error
    <3>1. bp_list[i] \in Bp
      BY <1>14, <1>0, EntryType DEF Hit, Control
    <3>2. mem' \in [MemAddr -> Byte]
      BY <2>2, <3>1, <1>14, <1>0, RestoreType DEF Hit, TraceeTypeOK, traceeVars
    <3>3. rip' \in RipRange
      BY <2>2, <3>1, <1>14, <1>0, SizeAssumption
         DEF Hit, HitAt, RipAfterHit, TraceeTypeOK, traceeVars, Bp, Addr, RipRange
    <3>4. code' \in File \cup {NoFile}
      BY <2>2, <1>14, <1>0 DEF Hit, Disasm, TypeOK, session
    <3>5. /\ UNCHANGED <<proc, event, stepping, exec, exitkill>>
          /\ UNCHANGED <<state, pid, file_path, elf, bp_list, spare, pc, cmd, from>>
          /\ i' = i + 1
      BY <2>2, <1>14 DEF Hit, session, traceeVars
    <3>6. i > 0
      BY <1>14, <1>0 DEF Hit, Control
    <3> QED
      BY <3>2, <3>3, <3>4, <3>5, <3>6, <1>0, KeepLists
  <2> QED
    BY <2>1, <2>2
<1>15. CASE HitEnd
  BY <1>15, <1>0
     DEF HitEnd, Return, session, traceeVars, IInv, TypeOK, TraceeTypeOK, Control,
         SlotKnown, Present
<1>g. CASE GetRegs
  <2>1. CASE Answers
    BY <2>1, <1>g, <1>0
       DEF GetRegs, Goto, session, traceeVars, IInv, TypeOK, TraceeTypeOK, Control,
           SlotKnown, Present, Answers
  <2> QED
    BY <2>1, <1>g, ErrorStep DEF GetRegs
<1>16. CASE TraceeStep
  BY <1>16, TraceeStepIInv
<1>17. CASE UNCHANGED vars
  BY <1>17, <1>0
     DEF vars, traceeVars, sdbVars, IInv, TypeOK, TraceeTypeOK, Control, SlotKnown, Present
<1> QED
  BY <1>1, <1>2, <1>3, <1>4, <1>5, <1>6, <1>7, <1>8, <1>9, <1>10, <1>11, <1>12, <1>13,
     <1>14, <1>15, <1>16, <1>17, <1>g DEF Next, Command, Step, Ended

LEMMA SpecIInv == Spec => []IInv
<1>1. Init => IInv
  BY InitIInv
<1>2. IInv /\ [Next]_vars => IInv'
  BY NextIInv
<1> QED
  BY <1>1, <1>2, PTL DEF Spec

----------------------------------------------------------------------------
(* The theorems about the session.                                         *)

\* Every variable of the debugger and of the child keeps its type: in particular
\* rip never leaves the text by more than one, and every word that delete or a
\* hit writes back has been read from memory.
THEOREM TypeCorrect == Spec => []TypeOK
<1>1. IInv => TypeOK
  BY DEF IInv
<1> QED
  BY <1>1, SpecIInv, PTL

\* When the debugger is gone, so is its child, whatever ended the debugger.
THEOREM NoOrphanSafe == Spec => []NoOrphan
<1>1. IInv => NoOrphan
  BY DEF IInv, Control, NoOrphan
<1> QED
  BY <1>1, SpecIInv, PTL

\* A debugger that has forgotten its child's id has no child.
THEOREM PidTracksChildSafe == Spec => []PidTracksChild
<1>1. IInv => PidTracksChild
  BY DEF IInv, Control, PidTracksChild
<1> QED
  BY <1>1, SpecIInv, PTL

\* delete never reads a slot of the vector that was never written.
THEOREM SlotKnownSafe == Spec => []SlotKnown
<1>1. IInv => SlotKnown
  BY DEF IInv
<1> QED
  BY <1>1, SpecIInv, PTL

\* start never forks a second child while the first one is there.
THEOREM OneChild == Spec => OneChildAtATime
<1>1. IInv /\ [Next]_vars => [Present => proc' # "forked"]_vars
  <2> SUFFICES ASSUME IInv, Next, Present
               PROVE  proc' # "forked"
    OBVIOUS
  <2>0. Control /\ proc # "forked"
    BY DEF IInv, Present
  <2>1. ASSUME NEW c \in {"start", "run"}, Start(c)
        PROVE  FALSE
    BY <2>1, <2>0 DEF Start, MayStart, Control, Present
  <2>2. CASE proc' = proc
    BY <2>2, <2>0
  <2>3. CASE LeaveTracee
    BY <2>3, <2>0 DEF LeaveTracee, End
  <2>4. CASE TraceeStep
    BY <2>4, <2>0
       DEF TraceeStep, TraceeNext, Exec, ExecOk, ExecFails, Instruction, Trap, Execute,
           Garbled, GoOn, Signal, Killed, Stop, End
  <2>5. CASE Step
    BY <2>5, <2>0
       DEF Step, Started, Chkbp, Go, Wait, WaitExited, WaitKilled, WaitSignal, WaitTrap, GetRegs,
           Hit, HitEnd, Error, LeaveTracee, End, traceeVars
  <2>6. CASE Command
    <3>1. proc' = proc \/ LeaveTracee \/ \E c \in {"start", "run"} : Start(c)
      BY <2>6
         DEF Command, Load, Resume, Break, Delete, SetRip, Inspect, Vmmap, Disassemble, Quit,
             Error, traceeVars
    <3> QED
      BY <3>1, <2>1, <2>2, <2>3
  <2> QED
    BY <2>2, <2>4, <2>5, <2>6 DEF Next, Ended, vars, traceeVars
<1> QED
  BY <1>1, SpecIInv, PTL DEF Spec, OneChildAtATime

----------------------------------------------------------------------------
(* No address is listed twice.                                             *)

\* How a step changes the list: not at all, by a new address, or by an erase.
ListGrows ==
  \E a \in Addr : \E b \in Bp :
    /\ ~Listed(a) /\ b.addr = a /\ b.id = Len(bp_list)
    /\ bp_list' = Append(bp_list, b)
    /\ spare' = IF spare = <<>> THEN <<>> ELSE Tail(spare)
ListShrinks ==
  \E id \in Nat :
    /\ bp_list # <<>> /\ id < Len(bp_list) + Len(spare)
    /\ bp_list' = IF id < Len(bp_list) THEN RemoveAt(bp_list, id + 1) ELSE Front(bp_list)
    /\ spare' = <<Last(bp_list)>> \o spare

LEMMA ListSteps ==
  IInv /\ [Next]_vars => UNCHANGED <<bp_list, spare>> \/ ListGrows \/ ListShrinks
<1> SUFFICES ASSUME IInv, [Next]_vars
             PROVE  UNCHANGED <<bp_list, spare>> \/ ListGrows \/ ListShrinks
  OBVIOUS
<1>0. TypeOK /\ TraceeTypeOK
  BY DEF IInv, TypeOK
<1>1. ASSUME NEW a \in BreakInput, Break(a)
      PROVE  UNCHANGED <<bp_list, spare>> \/ ListGrows
  <2>1. CASE ~Error /\ ~Listed(a)
    <3> DEFINE b == [id |-> NewId, addr |-> a, orig_code |-> SavedWord(a)]
    <3>1. a \in Addr /\ SavedWord(a) \in Word /\ Len(bp_list) \in Nat
      BY <2>1, <1>1, <1>0, PeekType, LenProperties DEF Break, TraceeTypeOK, TypeOK, SavedWord
    <3>2. b \in Bp /\ b.addr = a /\ b.id = Len(bp_list)
      BY <3>1 DEF Bp, NewId
    <3>3. /\ bp_list' = Append(bp_list, b)
          /\ spare' = IF spare = <<>> THEN <<>> ELSE Tail(spare)
      BY <2>1, <1>1 DEF Break
    <3> HIDE DEF b
    <3> QED
      BY <3>1, <3>2, <3>3, <2>1 DEF ListGrows
  <2>2. CASE Error \/ Listed(a)
    BY <2>2, <1>1 DEF Break, Error, session
  <2> QED
    BY <2>1, <2>2
<1>2. ASSUME NEW id \in DeleteInput, Delete(id)
      PROVE  UNCHANGED <<bp_list, spare>> \/ ListShrinks
  <2>1. CASE ~Error
    <3>1. /\ id \in Nat /\ id < Len(bp_list) + Len(spare) /\ bp_list # <<>>
          /\ bp_list' = IF id < Len(bp_list) THEN RemoveAt(bp_list, id + 1) ELSE Front(bp_list)
          /\ spare' = <<Last(bp_list)>> \o spare
      BY <2>1, <1>2, InputAssumption DEF Delete
    <3> QED
      BY <3>1 DEF ListShrinks
  <2>2. CASE Error
    BY <2>2 DEF Error, session
  <2> QED
    BY <2>1, <2>2
<1>3. CASE Step
  BY <1>3
     DEF Step, Started, Chkbp, Go, Wait, WaitExited, WaitKilled, WaitSignal, WaitTrap, GetRegs,
         Hit, HitEnd, Error, session
<1>4. CASE Command
  <2>1. \/ UNCHANGED <<bp_list, spare>>
        \/ \E a \in BreakInput : Break(a)
        \/ \E id \in DeleteInput : Delete(id)
    BY <1>4
       DEF Command, Load, Start, Resume, SetRip, Inspect, Vmmap, Disassemble, Quit, Error,
           session, sdbVars
  <2> QED
    BY <2>1, <1>1, <1>2
<1> QED
  BY <1>3, <1>4 DEF Next, TraceeStep, Ended, vars, sdbVars

\* An address is never in the list twice, whatever was set, hit, re-armed and
\* deleted before.
LEMMA DistinctStep ==
  IInv /\ BreakpointsDistinct /\ [Next]_vars => BreakpointsDistinct'
<1> SUFFICES ASSUME IInv, BreakpointsDistinct, [Next]_vars
             PROVE  BreakpointsDistinct'
  OBVIOUS
<1>0. bp_list \in Seq(Bp) /\ spare \in Seq(Bp)
  BY DEF IInv, TypeOK
<1>1. CASE UNCHANGED <<bp_list, spare>>
  BY <1>1 DEF BreakpointsDistinct
<1>2. CASE ListGrows
  <2>1. PICK a \in Addr, b \in Bp :
          /\ ~Listed(a) /\ b.addr = a
          /\ bp_list' = Append(bp_list, b)
          /\ spare' = IF spare = <<>> THEN <<>> ELSE Tail(spare)
    BY <1>2 DEF ListGrows
  <2>2. /\ Len(bp_list) \in Nat
        /\ DOMAIN bp_list = 1..Len(bp_list)
        /\ DOMAIN bp_list' = 1..(Len(bp_list) + 1)
        /\ \A k \in 1..Len(bp_list) : bp_list'[k] = bp_list[k]
        /\ bp_list'[Len(bp_list) + 1] = b
    BY <2>1, <1>0, AppendLemma
  <2>3. \A k \in 1..Len(bp_list) : bp_list[k].addr # b.addr
    BY <2>1, <2>2 DEF Listed
  <2>4. ASSUME NEW j \in DOMAIN bp_list', NEW k \in DOMAIN bp_list',
               bp_list'[j].addr = bp_list'[k].addr
        PROVE  j = k
    BY <2>2, <2>3, <2>4 DEF BreakpointsDistinct
  <2> QED
    BY <2>4 DEF BreakpointsDistinct
<1>3. CASE ListShrinks
  <2>1. PICK id \in Nat :
          /\ bp_list # <<>>
          /\ bp_list' = IF id < Len(bp_list) THEN RemoveAt(bp_list, id + 1) ELSE Front(bp_list)
          /\ spare' = <<Last(bp_list)>> \o spare
    BY <1>3 DEF ListShrinks
  <2>2. /\ Len(bp_list) \in Nat \ {0}
        /\ DOMAIN bp_list = 1..Len(bp_list)
        /\ DOMAIN bp_list' = 1..(Len(bp_list) - 1)
        /\ \A k \in 1..(Len(bp_list) - 1) :
             bp_list'[k] = IF k < id + 1 THEN bp_list[k] ELSE bp_list[k + 1]
    BY <2>1, <1>0, EraseLemma
  <2>3. ASSUME NEW j \in DOMAIN bp_list', NEW k \in DOMAIN bp_list',
               bp_list'[j].addr = bp_list'[k].addr
        PROVE  j = k
    <3> DEFINE l == Len(bp_list)
               Old(n) == IF n < id + 1 THEN n ELSE n + 1
    <3>1. l \in Nat \ {0} /\ j \in 1..(l - 1) /\ k \in 1..(l - 1)
      BY <2>2, Zenon
    <3>2. bp_list'[j] = bp_list[Old(j)] /\ bp_list'[k] = bp_list[Old(k)]
      BY <2>2, Zenon
    <3> HIDE DEF l
    <3>3. Old(j) \in 1..l /\ Old(k) \in 1..l
      BY <3>1
    <3>4. Old(j) = Old(k) => j = k
      BY <3>1
    <3> HIDE DEF Old
    <3>5. Old(j) \in DOMAIN bp_list /\ Old(k) \in DOMAIN bp_list
      BY <3>3, <2>2, Zenon DEF l
    <3> QED
      BY <2>3, <3>2, <3>4, <3>5, Zenon DEF BreakpointsDistinct
  <2> QED
    BY <2>3 DEF BreakpointsDistinct
<1> QED
  BY <1>1, <1>2, <1>3, ListSteps

THEOREM BreakpointsDistinctSafe == Spec => []BreakpointsDistinct
<1>1. Init => BreakpointsDistinct
  BY DEF Init, BreakpointsDistinct
<1> QED
  BY <1>1, DistinctStep, SpecIInv, PTL DEF Spec

----------------------------------------------------------------------------
(* Break points ahead are armed while the process runs.                    *)

\* chkbp has armed the entries in front of its index; once it is through, and
\* until the child stops, every entry ahead of from is armed.
Armed ==
  /\ pc = "chkbp" =>
       \A k \in DOMAIN bp_list :
         k < i /\ bp_list[k].addr > from => mem[bp_list[k].addr] = INT3
  /\ ArmedAhead

LEMMA ArmedStep == IInv /\ Armed /\ [Next]_vars => Armed'
<1> SUFFICES ASSUME IInv, Armed, [Next]_vars
             PROVE  Armed'
  OBVIOUS
<1>0. TypeOK /\ TraceeTypeOK /\ Control
  BY DEF IInv, TypeOK
<1>1. CASE TraceeStep
  <2>1. mem' = mem \/ proc = "forked"
    BY <1>1
       DEF TraceeStep, TraceeNext, Exec, ExecOk, ExecFails, Instruction, Trap, Execute,
           Garbled, Signal, Killed
  <2>2. proc' = "running" => proc = "running"
    BY <1>1
       DEF TraceeStep, TraceeNext, Exec, ExecOk, ExecFails, Instruction, Trap, Execute,
           Garbled, GoOn, Signal, Killed, Stop, End
  <2> QED
    BY <1>1, <2>1, <2>2, <1>0 DEF TraceeStep, sdbVars, Armed, ArmedAhead, Running, Control
<1>2. CASE pc' \notin {"chkbp", "wait"}
  BY <1>2 DEF Armed, ArmedAhead
<1>3. ASSUME NEW c \in {"run", "cont", "si"}, Resume(c), ~Error
      PROVE  Armed'
  <2>1. pc' = "chkbp" /\ i' = 1 /\ bp_list' = bp_list
    BY <1>3 DEF Resume, session
  <2>2. \A k \in DOMAIN bp_list : ~(k < 1)
    BY <1>0, LenProperties DEF TypeOK
  <2> QED
    BY <2>1, <2>2 DEF Armed, ArmedAhead
<1>4. CASE Started /\ ~Error /\ pc' = "chkbp"
  <2>1. i' = 1 /\ bp_list' = bp_list
    BY <1>4 DEF Started, Goto, Return
  <2>2. \A k \in DOMAIN bp_list : ~(k < 1)
    BY <1>0, LenProperties DEF TypeOK
  <2> QED
    BY <1>4, <2>1, <2>2 DEF Armed, ArmedAhead
<1>5. CASE Chkbp /\ ~Error
  <2> DEFINE a == bp_list[i].addr
  <2>1. i \in DOMAIN bp_list /\ bp_list[i] \in Bp /\ a \in Addr
    BY <1>5, <1>0, EntryType DEF Chkbp, Control, Bp
  <2>2. /\ pc = "chkbp" /\ pc' = "chkbp" /\ i' = i + 1
        /\ UNCHANGED <<bp_list, from>>
    BY <1>5 DEF Chkbp, session
  <2>3. mem' = mem \/ mem' = [mem EXCEPT ![a] = INT3]
    BY <1>5, <2>1, <1>0, ArmLemma DEF Chkbp, traceeVars, TraceeTypeOK
  <2>4. \A x \in MemAddr : mem[x] = INT3 => mem'[x] = INT3
    BY <2>3, <1>0 DEF TraceeTypeOK
  <2>5. a > from => mem'[a] = INT3
    <3>1. a \in MemAddr
      BY <2>1, SizeAssumption DEF Addr, MemAddr
    <3> QED
      BY <1>5, <2>1, <3>1, <1>0, ArmLemma DEF Chkbp, Ahead, traceeVars, TraceeTypeOK
  <2>6. ASSUME NEW k \in DOMAIN bp_list, k < i + 1, bp_list[k].addr > from
        PROVE  mem'[bp_list[k].addr] = INT3
    <3>1. bp_list[k] \in Bp /\ k \in Nat /\ i \in Nat
      BY <1>0, LenProperties, ElementOfSeq DEF TypeOK
    <3>2. bp_list[k].addr \in MemAddr
      BY <3>1, SizeAssumption DEF Bp, Addr, MemAddr
    <3>3. CASE k = i
      BY <3>3, <2>5, <2>6
    <3>4. CASE k < i
      BY <3>4, <3>2, <2>2, <2>4, <2>6 DEF Armed
    <3> QED
      BY <3>1, <3>3, <3>4, <2>6
  <2> QED
    BY <2>2, <2>6 DEF Armed, ArmedAhead
<1>6. CASE Go /\ ~Error
  <2>1. /\ pc = "chkbp" /\ pc' = "wait" /\ i > Len(bp_list)
        /\ UNCHANGED <<mem, bp_list, from>>
    BY <1>6 DEF Go, Goto, session
  <2>2. \A k \in DOMAIN bp_list : k < i
    BY <2>1, <1>0, LenProperties DEF TypeOK
  <2> QED
    BY <2>1, <2>2 DEF Armed, ArmedAhead
<1>7. CASE UNCHANGED vars
  BY <1>7 DEF vars, traceeVars, sdbVars, Armed, ArmedAhead, Running
<1>8. CASE Error
  BY <1>8, <1>2 DEF Error
<1>9. CASE Command /\ ~Error
  <2>1. pc' \notin {"chkbp", "wait"} \/ \E c \in {"run", "cont", "si"} : Resume(c)
    BY <1>9
       DEF Command, Load, Start, Break, Delete, SetRip, Inspect, Vmmap, Disassemble, Quit,
           control, sdbVars
  <2> QED
    BY <2>1, <1>2, <1>3, <1>9
<1>10. CASE Step /\ ~Error
  <2>1. \/ pc' \notin {"chkbp", "wait"}
        \/ Started /\ pc' = "chkbp"
        \/ Chkbp \/ Go
    BY <1>10
       DEF Step, Started, Wait, WaitExited, WaitKilled, WaitSignal, WaitTrap, GetRegs, Hit,
           HitEnd, Goto, Return, session
  <2> QED
    BY <2>1, <1>2, <1>4, <1>5, <1>6, <1>10
<1> QED
  BY <1>1, <1>7, <1>8, <1>9, <1>10 DEF Next, Ended

LEMMA ArmedAlways == Spec => []Armed
<1>1. Init => Armed
  BY DEF Init, Armed, ArmedAhead
<1> QED
  BY <1>1, ArmedStep, SpecIInv, PTL DEF Spec

THEOREM ArmedAheadSafe == Spec => []ArmedAhead
<1>1. Armed => ArmedAhead
  BY DEF Armed
<1> QED
  BY <1>1, ArmedAlways, PTL

\* The process never runs past a listed break point ahead of where it was
\* resumed: its trap is armed, and the trap stops it.
THEOREM StopsAhead == Spec => StopsAtBreakpointsAhead
<1>1. IInv /\ Armed /\ [Next]_vars
        => [Running /\ Listed(rip) /\ rip > from /\ rip' # rip =>
              proc' = "stopped" /\ rip' = rip + 1]_vars
  <2> SUFFICES ASSUME IInv, Armed, Next, Running, Listed(rip), rip > from, rip' # rip
               PROVE  proc' = "stopped" /\ rip' = rip + 1
    OBVIOUS
  <2>1. TypeOK /\ TraceeTypeOK /\ pc = "wait" /\ event = "none"
    BY DEF IInv, TypeOK, Control, Running
  <2>2. PICK k \in DOMAIN bp_list : bp_list[k].addr = rip
    BY DEF Listed
  <2>3. mem[rip] = INT3
    BY <2>1, <2>2 DEF Armed, ArmedAhead
  <2>4. rip \in Addr
    <3>1. bp_list \in Seq(Bp) /\ k \in 1..Len(bp_list)
      BY <2>1, <2>2, LenProperties DEF TypeOK
    <3>2. bp_list[k] \in Bp
      BY <3>1, ElementOfSeq
    <3> QED
      BY <2>2, <3>2 DEF Bp
  <2>5. CASE TraceeStep
    <3>1. AtTrap(rip) /\ proc = "running"
      BY <2>3, <2>4 DEF AtTrap, Running
    <3>2. CASE Trap
      BY <3>2 DEF Trap, Stop
    <3>3. ~Exec /\ ~Execute /\ ~Garbled
      BY <3>1 DEF Exec, ExecOk, ExecFails, Execute, Garbled
    <3>4. ~Signal /\ ~Killed
      BY DEF Signal, Killed
    <3> QED
      BY <2>5, <3>2, <3>3, <3>4 DEF TraceeStep, TraceeNext, Instruction
  <2>6. CASE Step
    BY <2>1, <2>6
       DEF Step, Started, Chkbp, Go, Wait, WaitExited, WaitKilled, WaitSignal, WaitTrap, GetRegs,
           Hit, HitEnd
  <2>7. CASE Command
    BY <2>1, <2>7
       DEF Command, Load, Start, Resume, Break, Delete, SetRip, Inspect, Vmmap, Disassemble, Quit
  <2> QED
    BY <2>1, <2>5, <2>6, <2>7 DEF Next, Ended
<1> QED
  BY <1>1, ArmedAlways, SpecIInv, PTL DEF Spec, StopsAtBreakpointsAhead

----------------------------------------------------------------------------
(* What the debugger writes into the program is the program's, or a trap.  *)

\* A break point whose word is the program's but for traps, and whose first byte is
\* the instruction.
CleanBp ==
  {b \in Bp : /\ b.orig_code[0] # INT3
              /\ \A f \in File : \A k \in Offset :
                   b.orig_code[k] \in {Image[f][b.addr + k], INT3}}

Text ==
  /\ Present => \A f \in File : \A x \in MemAddr : mem[x] \in {Image[f][x], INT3}
  /\ bp_list \in Seq(CleanBp) /\ spare \in Seq(CleanBp)

\* Writing such a word back, or arming an address, keeps the text clean.
LEMMA RestoreClean ==
  ASSUME NEW f \in File, NEW b \in CleanBp,
         \A x \in MemAddr : mem[x] \in {Image[f][x], INT3}
  PROVE  \A x \in MemAddr : Restore(b)[x] \in {Image[f][x], INT3}
<1> SUFFICES ASSUME NEW x \in MemAddr
             PROVE  Restore(b)[x] \in {Image[f][x], INT3}
  OBVIOUS
<1>0. b.addr \in Int /\ x \in Int
  BY SizeAssumption DEF CleanBp, Bp, Addr, MemAddr
<1>1. CASE x - b.addr \in Offset
  <2>1. Restore(b)[x] = b.orig_code[x - b.addr]
    BY <1>1 DEF Restore, PokeWord
  <2>2. b.orig_code[x - b.addr] \in {Image[f][b.addr + (x - b.addr)], INT3}
    BY <1>1 DEF CleanBp
  <2>3. b.addr + (x - b.addr) = x
    BY <1>0
  <2> QED
    BY <2>1, <2>2, <2>3
<1>2. CASE x - b.addr \notin Offset
  BY <1>2 DEF Restore, PokeWord
<1> QED
  BY <1>1, <1>2

LEMMA ArmClean ==
  ASSUME NEW f \in File, NEW a \in Addr, mem \in [MemAddr -> Byte],
         \A x \in MemAddr : mem[x] \in {Image[f][x], INT3},
         mem' = PokeWord(mem, a, ArmedWord(a))
  PROVE  \A x \in MemAddr : mem'[x] \in {Image[f][x], INT3}
BY ArmLemma

\* The word break saves at an address that holds no trap.
LEMMA SavedClean ==
  ASSUME TypeOK, Present, NEW a \in Addr, mem[a] # INT3, NEW n \in Nat,
         \A f \in File : \A x \in MemAddr : mem[x] \in {Image[f][x], INT3}
  PROVE  [id |-> n, addr |-> a, orig_code |-> SavedWord(a)] \in CleanBp
<1> DEFINE b == [id |-> n, addr |-> a, orig_code |-> SavedWord(a)]
<1>1. b \in Bp
  BY PeekType DEF TypeOK, TraceeTypeOK, SavedWord, Bp
<1>2. \A k \in Offset : a + k \in MemAddr /\ b.orig_code[k] = mem[a + k]
  BY SizeAssumption DEF SavedWord, PeekWord, Addr, Offset, MemAddr
<1>3. 0 \in Offset /\ a + 0 = a
  BY SizeAssumption DEF Offset, Addr
<1>4. b.orig_code[0] # INT3
  BY <1>2, <1>3
<1>5. b.addr = a
  OBVIOUS
<1> HIDE DEF b
<1> QED
  BY <1>1, <1>2, <1>4, <1>5 DEF CleanBp, b

LEMMA TextStep == OneProgram /\ IInv /\ Text /\ [Next]_vars => Text'
<1> SUFFICES ASSUME OneProgram, IInv, Text, [Next]_vars
             PROVE  Text'
  OBVIOUS
<1>0. /\ TypeOK /\ TraceeTypeOK /\ Control
      /\ bp_list \in Seq(CleanBp) /\ spare \in Seq(CleanBp)
  BY DEF IInv, TypeOK, Text
<1> DEFINE MemClean == Present => \A f \in File : \A x \in MemAddr :
                                     mem[x] \in {Image[f][x], INT3}
           ListsClean == bp_list \in Seq(CleanBp) /\ spare \in Seq(CleanBp)
<1>1. ASSUME mem' = mem, Present' => Present
      PROVE  MemClean'
  BY <1>1 DEF Text
<1>2. ASSUME UNCHANGED <<bp_list, spare>>
      PROVE  ListsClean'
  BY <1>0, <1>2
<1> HIDE DEF MemClean, ListsClean
<1>3. SUFFICES MemClean' /\ ListsClean'
  BY DEF MemClean, ListsClean, Text
<1>4. CASE Error
  <2>1. mem' = mem /\ (Present' => Present) /\ UNCHANGED <<bp_list, spare>>
    BY <1>4 DEF Error, LeaveTracee, End, session, Present
  <2> QED
    BY <2>1, <1>1, <1>2
<1>5. CASE TraceeStep
  <2>1. ListsClean'
    BY <1>5, <1>2 DEF TraceeStep, sdbVars
  <2>2. CASE ExecOk
    <3>1. mem' = Image[exec] /\ exec \in File
      BY <2>2, <1>0 DEF ExecOk, Control
    <3> QED
      BY <2>1, <3>1 DEF MemClean, OneProgram
  <2>3. CASE ~ExecOk
    <3>1. mem' = mem /\ (Present' => Present)
      BY <1>5, <2>3
         DEF TraceeStep, TraceeNext, Exec, ExecFails, Instruction, Trap, Execute, Garbled,
             GoOn, Signal, Killed, Stop, End, Present
    <3> QED
      BY <2>1, <3>1, <1>1
  <2> QED
    BY <2>2, <2>3
<1>6. ASSUME NEW a \in BreakInput, Break(a), ~Error
      PROVE  MemClean' /\ ListsClean'
  <2>1. /\ a \in Addr /\ Answers /\ mem[a] # INT3
        /\ mem' = PokeWord(mem, a, ArmedWord(a)) /\ UNCHANGED proc
    BY <1>6 DEF Break
  <2>2. Present /\ \A f \in File : \A x \in MemAddr : mem[x] \in {Image[f][x], INT3}
    BY <2>1 DEF Answers, Present, Text
  <2>3. MemClean'
    BY <2>1, <2>2, <1>0, ArmClean DEF MemClean, TraceeTypeOK
  <2>4. CASE Listed(a)
    <3>1. UNCHANGED <<bp_list, spare>>
      BY <1>6, <2>4 DEF Break
    <3> QED
      BY <2>3, <3>1, <1>2
  <2>5. CASE ~Listed(a)
    <3> DEFINE b == [id |-> Len(bp_list), addr |-> a, orig_code |-> SavedWord(a)]
    <3>1. /\ bp_list' = Append(bp_list, b)
          /\ spare' = IF spare = <<>> THEN <<>> ELSE Tail(spare)
      BY <1>6, <2>5 DEF Break, NewId
    <3>2. Len(bp_list) \in Nat
      BY <1>0, LenProperties
    <3>3. b \in CleanBp
      BY <2>1, <2>2, <3>2, <1>0, SavedClean
    <3> HIDE DEF b
    <3>4. bp_list' \in Seq(CleanBp) /\ spare' \in Seq(CleanBp)
      BY <3>1, <3>3, <1>0, AppendLemma
    <3> QED
      BY <2>3, <3>4 DEF ListsClean
  <2> QED
    BY <2>4, <2>5
<1>7. ASSUME NEW id \in DeleteInput, Delete(id), ~Error
      PROVE  MemClean' /\ ListsClean'
  <2>1. /\ id \in Nat /\ id < Len(bp_list) + Len(spare) /\ bp_list # <<>>
        /\ Answers /\ UNCHANGED proc
        /\ mem' = Restore(Slot(id))
        /\ bp_list' = IF id < Len(bp_list) THEN RemoveAt(bp_list, id + 1) ELSE Front(bp_list)
        /\ spare' = <<Last(bp_list)>> \o spare
    BY <1>7, InputAssumption DEF Delete
  <2>2. Slot(id) \in CleanBp
    BY <2>1, <1>0, SlotType
  <2>3. MemClean'
    BY <2>1, <2>2, RestoreClean DEF MemClean, Answers, Present, Text
  <2>4. bp_list' \in Seq(CleanBp) /\ spare' \in Seq(CleanBp)
    BY <2>1, <1>0, EraseLemma
  <2> QED
    BY <2>3, <2>4 DEF ListsClean
<1>8. CASE Chkbp /\ ~Error
  <2>1. UNCHANGED <<bp_list, spare, proc>>
    BY <1>8 DEF Chkbp, session, traceeVars
  <2>2. CASE mem' = mem
    BY <2>1, <2>2, <1>1, <1>2 DEF Present
  <2>3. CASE mem' # mem
    <3>1. bp_list[i].addr \in Addr
      BY <1>8, <1>0, EntryType DEF Chkbp, Control, Bp
    <3>2. Answers /\ mem' = PokeWord(mem, bp_list[i].addr, ArmedWord(bp_list[i].addr))
      BY <2>3, <1>8 DEF Chkbp, traceeVars
    <3>3. MemClean'
      BY <3>1, <3>2, <2>1, <1>0, ArmClean DEF MemClean, Text, Answers, Present, TraceeTypeOK
    <3> QED
      BY <3>3, <2>1, <1>2
  <2> QED
    BY <2>2, <2>3
<1>9. CASE Hit /\ ~Error
  <2>1. UNCHANGED <<bp_list, spare, proc>>
    BY <1>9 DEF Hit, session, traceeVars
  <2>2. CASE mem' = mem
    BY <2>1, <2>2, <1>1, <1>2 DEF Present
  <2>3. CASE mem' # mem
    <3>1. i \in DOMAIN bp_list
      BY <1>9, <1>0, EntryType DEF Hit, Control
    <3>2. bp_list[i] \in CleanBp
      BY <3>1, <1>0, LenProperties, ElementOfSeq
    <3>3. Answers /\ mem' = Restore(bp_list[i])
      BY <2>3, <1>9 DEF Hit, traceeVars
    <3>4. MemClean'
      BY <3>2, <3>3, <2>1, RestoreClean DEF MemClean, Text, Answers, Present
    <3> QED
      BY <3>4, <2>1, <1>2
  <2> QED
    BY <2>2, <2>3
<1>10. CASE Step /\ ~Error /\ ~Chkbp /\ ~Hit
  <2>1. UNCHANGED <<mem, bp_list, spare>> /\ (Present' => Present)
    BY <1>10
       DEF Step, Started, Go, Wait, WaitExited, WaitKilled, WaitSignal, WaitTrap, GetRegs, HitEnd,
           Answers, Present, session, traceeVars
  <2> QED
    BY <2>1, <1>1, <1>2
<1>11. CASE Command /\ ~Error
  <2>1. \/ UNCHANGED <<mem, bp_list, spare>> /\ (Present' => Present)
        \/ \E a \in BreakInput : Break(a)
        \/ \E id \in DeleteInput : Delete(id)
    BY <1>11
       DEF Command, Load, Start, Resume, SetRip, Inspect, Vmmap, Disassemble, Quit, LeaveTracee,
           End, Present, session, sdbVars, traceeVars
  <2> QED
    BY <2>1, <1>1, <1>2, <1>6, <1>7, <1>11
<1>12. CASE UNCHANGED vars
  BY <1>12, <1>1, <1>2 DEF vars, traceeVars, sdbVars, Present
<1> QED
  BY <1>4, <1>5, <1>8, <1>9, <1>10, <1>11, <1>12 DEF Next, Ended

LEMMA TextAlways ==
  ASSUME OneProgram
  PROVE  Spec => []Text
<1>1. Init => Text
  BY EmptySeq DEF Init, TraceeInit, Text, Present
<1>2. IInv /\ Text /\ [Next]_vars => Text'
  BY TextStep
<1> QED
  BY <1>1, <1>2, SpecIInv, PTL DEF Spec

\* In a session with one program every byte of it is the program's own or a trap,
\* however break points overlap, come and go.
THEOREM TextIntactSafe ==
  ASSUME OneProgram
  PROVE  Spec => []TextIntact
<1>1. IInv /\ Text => TextIntact
  BY DEF Text, TextIntact, IInv, Control, Present
<1> QED
  BY <1>1, TextAlways, SpecIInv, PTL

\* In such a session the byte saved for a break point is its instruction's.
THEOREM SavedByteIsOriginalSafe ==
  ASSUME OneProgram
  PROVE  Spec => []SavedByteIsOriginal
<1>1. IInv /\ Text => SavedByteIsOriginal
  <2> SUFFICES ASSUME IInv, Text, exec # NoFile, NEW k \in DOMAIN bp_list
               PROVE  /\ bp_list[k].orig_code[0] = Image[exec][bp_list[k].addr]
                      /\ bp_list[k].orig_code[0] # INT3
    BY DEF SavedByteIsOriginal
  <2>1. exec \in File
    BY DEF IInv, TypeOK, TraceeTypeOK
  <2>2. bp_list[k] \in CleanBp
    BY LenProperties, ElementOfSeq DEF Text
  <2>3. 0 \in Offset /\ bp_list[k].addr + 0 = bp_list[k].addr
    BY <2>2, SizeAssumption DEF CleanBp, Bp, Addr, Offset
  <2>4. bp_list[k].orig_code[0] \in {Image[exec][bp_list[k].addr + 0], INT3}
    BY <2>1, <2>2, <2>3 DEF CleanBp
  <2> QED
    BY <2>2, <2>3, <2>4 DEF CleanBp
<1> QED
  BY <1>1, TextAlways, SpecIInv, PTL

=============================================================================
