----------------------------- MODULE LsofProofs -----------------------------
(***************************************************************************)
(* Proofs about the listing of project1, for any processes, descriptors,   *)
(* files and options, and any number of changes.                           *)
(***************************************************************************)
EXTENDS LsofProperties, SequenceTheorems, FiniteSetTheorems, WellFoundedInduction, TLAPS

\* The next descriptor to look at is one of those left.
LEMMA LeastNatural ==
  ASSUME NEW T, T \subseteq Nat, T # {}
  PROVE  \E x \in T : \A y \in T : x <= y
<1>1. IsWellFoundedOn(OpToRel(<, Nat), Nat)
  BY NatLessThanWellFounded
<1>2. PICK x \in T : \A y \in T : ~(<<y, x>> \in OpToRel(<, Nat))
  BY <1>1, WFMin
<1>3. \A y \in T : ~(y < x)
  BY <1>2 DEF OpToRel
<1> QED BY <1>3

----------------------------------------------------------------------------
(* Types.                                                                  *)

\* There is a descriptor to look at.
Chosen == at \in {"fdstat", "fdmode"} => descs # {}
Typed == TypeOK /\ Chosen

\* The fields of a process.
LEMMA Fields ==
  ASSUME NEW p \in Process
  PROVE  /\ p.cmd \in Command /\ p.named \in BOOLEAN /\ p.ours \in BOOLEAN
         /\ p["cwd"] \in Inode \cup {None} /\ p["root"] \in Inode \cup {None}
         /\ p["exe"] \in Inode \cup {None}
         /\ p.maps \in Seq(Line) /\ p.fd \in [Desc -> Inode \cup {None}]
BY LsofAssumption DEF ProcessRecord

LEMMA CurrentLeast ==
  ASSUME descs \subseteq Desc, descs # {}
  PROVE  Current \in descs
<1>1. \E d \in descs : \A e \in descs : d <= e
  BY LeastNatural, LsofAssumption
<1> QED BY <1>1 DEF Current

LEMMA TypedInit == Init => Typed
<1> SUFFICES ASSUME Init  PROVE Typed
  OBVIOUS
<1>1. seen \in [Pid -> SUBSET (Process \cup {Gone})]
  BY DEF Init
<1>2. lines \in Seq(Line)
  BY DEF Init
<1>3. args \in Seq(Word)
  BY LsofAssumption DEF Init
<1> QED BY <1>1, <1>2, <1>3, LsofAssumption
        DEF Init, Typed, TypeOK, Chosen, Places, Ended, Types, None

\* The words that are left.
LEMMA ReadTypes ==
  ASSUME args \in Seq(Word), NEW n \in 0..Len(args), Read(n)
  PROVE  args' \in Seq(Word)
<1>1. \A i \in n+1..Len(args) : args[i] \in Word
  OBVIOUS
<1>2. Len(args) \in Nat
  OBVIOUS
<1> QED BY <1>1, <1>2, SubSeqProperties DEF Read

\* The rows.
LEMMA RowTypes ==
  ASSUME TypeOK, NEW f \in ({-1} \cup Desc) \X Columns, NEW t \in Types \cup {""},
         NEW n \in Inode \cup {None}, PrintRow(f, t, n) \/ PrintIf(f, t, n) \/ Skip
  PROVE  rows' \subseteq Row
<1> DEFINE r == [pid |-> pid, cmd |-> cmd, fd |-> f, type |-> t, node |-> n]
<1>1. pid \in Pid /\ cmd \in Command /\ rows \subseteq Row
  BY DEF TypeOK
<1>2. r \in Row
  BY <1>1 DEF Row
<1> HIDE DEF r
<1>3. rows' = rows \cup {r} \/ rows' = rows
  BY DEF PrintRow, PrintIf, Skip, r
<1> QED BY <1>1, <1>2, <1>3

\* What a look leaves alone.
LEMMA LookKeeps ==
  ASSUME TypeOK, UNCHANGED world
  PROVE  /\ ps' \in [Pid -> Process \cup {Gone}] /\ changes' \in 0..MaxChange
         /\ seen' \in [Pid -> SUBSET (Process \cup {Gone})]
BY DEF TypeOK, world

LEMMA GoTypes ==
  ASSUME Typed, UNCHANGED world, NEW next \in (Places \cup Ended) \ {"fdmode", "fdstat"},
         Go(next), rows' \subseteq Row
  PROVE  Typed'
BY LookKeeps DEF Typed, TypeOK, Chosen, Go, memVars, fdVars, scanVars

LEMMA FollowTypes ==
  ASSUME Typed, UNCHANGED world, NEW f \in {"cwd", "root", "exe"},
         NEW stat \in {"cwdstat", "rootstat", "exestat"},
         NEW next \in {"root", "exe", "maps"}, FollowLink(f, stat, next)
  PROVE  Typed'
<1>1. Slot(f) \in ({-1} \cup Desc) \X Columns /\ "unknown" \in Types /\ None \in Inode \cup {None}
  BY DEF Slot, Columns, Types
<1>2. rows' \subseteq Row
  BY <1>1, RowTypes DEF FollowLink, Typed
<1>3. Go(next) \/ Go(stat)
  BY DEF FollowLink
<1> QED BY <1>2, <1>3, GoTypes DEF Places

LEMMA StatTypes ==
  ASSUME Typed, UNCHANGED world, NEW f \in {"cwd", "root", "exe"},
         NEW types \in [Inode -> Types], NEW next \in {"root", "exe", "maps"},
         StatLink(f, types, next)
  PROVE  Typed'
<1>1. Slot(f) \in ({-1} \cup Desc) \X Columns
  BY DEF Slot, Columns
<1>2. rows' \subseteq Row
  <2>1. CASE Ours /\ ps[pid][f] # None
    <3>1. ps[pid] \in Process
      BY <2>1 DEF Ours, There, Typed, TypeOK
    <3>2. ps[pid][f] \in Inode
      BY <2>1, <3>1, Fields
    <3> QED BY <1>1, <2>1, <3>2, RowTypes DEF StatLink, Typed
  <2>2. CASE ~(Ours /\ ps[pid][f] # None)
    BY <2>2 DEF StatLink, error, Skip, Typed, TypeOK
  <2> QED BY <2>1, <2>2
<1>3. Go(next) \/ Go("failed")
  BY DEF StatLink, error
<1> QED BY <1>2, <1>3, GoTypes DEF Places, Ended

LEMMA OptionTypes ==
  ASSUME Typed, NoValue \/ Option  PROVE Typed'
<1>a. /\ args \in Seq(Word)
      /\ filter \in [cmd : SUBSET Command, type : SUBSET Types, file : BOOLEAN]
  BY DEF Typed, TypeOK
<1>1. UNCHANGED <<ps, seen, changes, lines, owner, node, fd, descs, type, inode, pids, pid, cmd,
                  leaked, rows>>
  BY DEF NoValue, Option, Idle, world, memVars, fdVars
<1>2. at' \in {"args", "crash", "usage"}
  BY DEF NoValue, Option, Options
<1>3. args' \in Seq(Word)
  <2>1. CASE NoValue
    <3>1. Read(1) /\ 1 \in 0..Len(args)
      BY <2>1 DEF NoValue
    <3> QED BY <1>a, <3>1, ReadTypes
  <2>2. CASE Option
    <3>1. Read(2) /\ Len(args) > 1
      BY <2>2, Zenon DEF Option
    <3>2. 2 \in 0..Len(args)
      BY <1>a, <3>1
    <3> QED BY <1>a, <3>1, <3>2, ReadTypes
  <2> QED BY <2>1, <2>2
<1>4. filter' \in [cmd : SUBSET Command, type : SUBSET Types, file : BOOLEAN]
  <2>1. CASE NoValue
    BY <1>a, <2>1 DEF NoValue
  <2>2. CASE Option
    <3>1. args[2] \in Word
      <4>1. Len(args) > 1
        BY <2>2, Zenon DEF Option
      <4> QED BY <1>a, <4>1, ElementOfSeq
    <3>2. Matches[args[2]] \subseteq Command
      BY <3>1, LsofAssumption
    <3>3. ASSUME NEW b \in BOOLEAN, filter' = [filter EXCEPT !.file = b]
          PROVE  filter' \in [cmd : SUBSET Command, type : SUBSET Types, file : BOOLEAN]
      BY <1>a, <3>3
    <3>4. (args[2] # "") \in BOOLEAN
      BY Zenon
    <3>5. filter' = [filter EXCEPT !.file = (args[2] # "")]
          => filter' \in [cmd : SUBSET Command, type : SUBSET Types, file : BOOLEAN]
      BY <3>3, <3>4, Zenon
    <3>6. CASE filter' = [filter EXCEPT !.cmd = Matches[args[2]]]
      BY <1>a, <3>2, <3>6
    <3>7. CASE ValidType(args[2]) /\ filter' = [filter EXCEPT !.type = {args[2]}]
      BY <1>a, <3>7 DEF ValidType
    <3> QED BY <1>a, <2>2, <3>5, <3>6, <3>7 DEF Option
  <2> QED BY <2>1, <2>2
<1> QED BY <1>1, <1>2, <1>3, <1>4 DEF Typed, TypeOK, Chosen, Places, Ended

LEMMA CommTypes ==
  ASSUME Typed, OpenProc \/ NextProcess \/ CheckCmd \/ FindUsr  PROVE Typed'
<1>s. UNCHANGED world
  BY DEF OpenProc, NextProcess, CheckCmd, FindUsr, Look
<1>r. rows' \subseteq Row
  BY DEF OpenProc, NextProcess, CheckCmd, FindUsr, Skip, Typed, TypeOK
<1>1. CASE OpenProc
  BY <1>1, <1>s, LookKeeps DEF OpenProc, memVars, fdVars, Typed, TypeOK, Chosen, Places, Ended
<1>2. CASE NextProcess
  <2>1. pid' \in Pid /\ pids' \subseteq Pid /\ at' \in {"done", "comm"}
    BY <1>2 DEF NextProcess, Typed, TypeOK
  <2> QED BY <1>2, <1>s, <2>1, LookKeeps
          DEF NextProcess, memVars, fdVars, Typed, TypeOK, Chosen, Places, Ended
<1>3. CASE CheckCmd
  <2>1. CASE Go("failed") \/ Go("proc")
    BY <2>1, <1>s, <1>r, GoTypes DEF Places, Ended
  <2>2. CASE There /\ owner' = ps[pid] /\ at' = "commline"
             /\ UNCHANGED <<lines, node, fd, fdVars, scanVars>>
    BY <2>2, <1>s, <1>r, LookKeeps
       DEF fdVars, scanVars, Typed, TypeOK, Chosen, Places, There
  <2>3. CASE There /\ cmd' = ps[pid].cmd
             /\ at' = (IF cmd' \in filter.cmd THEN "user" ELSE "proc")
             /\ UNCHANGED <<memVars, fdVars, args, filter, pids, pid, leaked>>
    <3>1. ps[pid].cmd \in Command
      BY <2>3, Fields DEF There, Typed, TypeOK
    <3>2. at' \in {"user", "proc"}
      BY <2>3
    <3> QED BY <2>3, <3>1, <3>2, <1>s, <1>r, LookKeeps
            DEF memVars, fdVars, Typed, TypeOK, Chosen, Places
  <2> QED BY <1>3, <2>1, <2>2, <2>3 DEF CheckCmd
<1>4. CASE FindUsr
  <2>1. Go("cwd") \/ Go("failed")
    BY <1>4 DEF FindUsr
  <2> QED BY <2>1, <1>s, <1>r, GoTypes DEF Places, Ended
<1> QED BY <1>1, <1>2, <1>3, <1>4

LEMMA LinkTypes ==
  ASSUME Typed, FindCwdRoot \/ FindExe  PROVE Typed'
<1>1. UNCHANGED world
  BY DEF FindCwdRoot, FindExe, Look
<1>2. [n \in Inode |-> "DIR"] \in [Inode -> Types] /\ TypeOf \in [Inode -> Types]
  BY LsofAssumption DEF Types
<1> QED BY <1>1, <1>2, FollowTypes, StatTypes DEF FindCwdRoot, FindExe

LEMMA MemTypes ==
  ASSUME Typed, FindMem  PROVE Typed'
<1>s. UNCHANGED world
  BY DEF FindMem, OpenMaps, StatMaps, MapsLine, MapsEnd, Look
<1>k. Skip => rows' \subseteq Row
  BY DEF Skip, Typed, TypeOK
<1>1. CASE Skip /\ (Go("failed") \/ Go("fd") \/ Go("mapsline"))
  BY <1>1, <1>s, <1>k, GoTypes DEF Places, Ended
<1>2. CASE Ours /\ at' = "mapsstat" /\ Skip
           /\ owner' = ps[pid] /\ lines' = ps[pid].maps /\ node' = None /\ fd' = "mem"
           /\ UNCHANGED <<fdVars, scanVars>>
  <2>1. ps[pid] \in Process /\ ps[pid].maps \in Seq(Line)
    BY <1>2, Fields DEF Ours, There, Typed, TypeOK
  <2> QED BY <1>2, <2>1, <1>s, <1>k, LookKeeps
          DEF fdVars, scanVars, Typed, TypeOK, Chosen, Places
<1>3. CASE MapsLine
  <2>1. Head(lines) \in Line /\ Tail(lines) \in Seq(Line)
    BY <1>3, HeadTailProperties DEF MapsLine, Typed, TypeOK
  <2>2. node' \in Inode \cup {None} /\ fd' \in {"mem", "del"}
    BY <1>3, <2>1 DEF MapsLine, Line, Typed, TypeOK
  <2>3. rows' \subseteq Row
    <3>1. Slot(fd') \in ({-1} \cup Desc) \X Columns /\ "REG" \in Types
      BY <2>2 DEF Slot, Columns, Types
    <3> QED BY <1>3, <2>2, <3>1, RowTypes DEF MapsLine, Typed
  <2> QED BY <1>3, <2>1, <2>2, <2>3, <1>s, LookKeeps
          DEF MapsLine, Look, fdVars, scanVars, Typed, TypeOK, Chosen
<1> QED BY <1>1, <1>2, <1>3 DEF FindMem, OpenMaps, StatMaps, MapsEnd

LEMMA FdTypes ==
  ASSUME Typed, FindFd  PROVE Typed'
<1>s. UNCHANGED world
  BY DEF FindFd, OpenDir, ReadDir, ReadLink, StatFd, Access, CloseDir, Look
<1>k. Skip => rows' \subseteq Row
  BY DEF Skip, Typed, TypeOK
<1>f. Go("failed") /\ Skip => Typed'
  BY <1>s, <1>k, GoTypes DEF Places, Ended
<1>1. CASE OpenDir
  <2>1. CASE There /\ Skip /\ owner' = ps[pid] /\ at' = "fdlist"
             /\ UNCHANGED <<lines, node, fd, fdVars, scanVars>>
    BY <2>1, <1>s, <1>k, LookKeeps DEF There, fdVars, scanVars, Typed, TypeOK, Chosen, Places
  <2>2. CASE PrintRow(Slot("NOFD"), "", None) /\ Go("proc")
    <3>1. Slot("NOFD") \in ({-1} \cup Desc) \X Columns
      BY DEF Slot, Columns
    <3>2. rows' \subseteq Row
      BY <2>2, <3>1, RowTypes DEF Typed
    <3> QED BY <2>2, <3>2, <1>s, GoTypes DEF Places
  <2> QED BY <1>1, <1>f, <2>1, <2>2 DEF OpenDir, error
<1>2. CASE ReadDir
  <2>1. descs' \subseteq Desc
    BY <1>2 DEF ReadDir
  <2> QED BY <1>2, <2>1, <1>s, <1>k, LookKeeps
          DEF ReadDir, memVars, scanVars, Typed, TypeOK, Chosen, Places
<1>3. CASE ReadLink
  <2>1. CASE Go("fdstat")
    <3>1. descs # {} /\ Skip
      BY <1>3 DEF ReadLink
    <3> QED BY <2>1, <3>1, <1>s, <1>k, LookKeeps
            DEF Go, memVars, fdVars, scanVars, Typed, TypeOK, Chosen, Places
  <2>2. CASE leaked' = leaked + 1 /\ at' = "proc"
             /\ UNCHANGED <<memVars, fdVars, args, filter, pids, pid, cmd>>
    BY <1>3, <2>2, <1>s, <1>k, LookKeeps
       DEF ReadLink, memVars, fdVars, Typed, TypeOK, Chosen, Places
  <2> QED BY <1>3, <1>f, <2>1, <2>2 DEF ReadLink
<1>4. CASE StatFd
  <2>1. CASE Open
    <3>1. Current \in Desc
      BY <1>4, CurrentLeast DEF StatFd, Look, Typed, TypeOK, Chosen
    <3>2. ps[pid].fd \in [Desc -> Inode \cup {None}]
      BY <2>1, Fields DEF Open, Ours, There, Typed, TypeOK
    <3>3. ps[pid].fd[Current] \in Inode
      BY <2>1, <3>1, <3>2 DEF Open
    <3>4. inode' \in Inode /\ type' \in Types /\ at' = "fdmode"
      BY <1>4, <2>1, <3>3, LsofAssumption DEF StatFd
    <3>5. descs # {}
      BY <1>4 DEF StatFd, Look, Typed, Chosen
    <3> QED BY <1>4, <2>1, <3>4, <3>5, <1>s, <1>k, LookKeeps
            DEF StatFd, memVars, scanVars, Typed, TypeOK, Chosen, Places
  <2>2. CASE ~Open
    BY <1>4, <1>f, <2>2 DEF StatFd, StatFails
  <2> QED BY <2>1, <2>2
<1>5. CASE Access
  <2>1. Current \in Desc
    BY <1>5, CurrentLeast DEF Access, Look, Typed, TypeOK, Chosen
  <2>2. <<Current, IF Open THEN "u" ELSE "">> \in ({-1} \cup Desc) \X Columns
    BY <2>1 DEF Columns
  <2>3. rows' \subseteq Row
    BY <1>5, <2>2, RowTypes DEF Access, Typed, TypeOK
  <2> QED BY <1>5, <2>3, <1>s, LookKeeps
          DEF Access, Rest, memVars, scanVars, Typed, TypeOK, Chosen, Places
<1>6. CASE CloseDir
  BY <1>6, <1>s, <1>k, LookKeeps
     DEF CloseDir, Closed, memVars, fdVars, Typed, TypeOK, Chosen, Places
<1> QED BY <1>1, <1>2, <1>3, <1>4, <1>5, <1>6 DEF FindFd

LEMMA ChangeTypes ==
  ASSUME Typed, Change  PROVE Typed'
<1>1. PICK p \in Pid, new \in Process \cup {Gone} :
        ps' = [ps EXCEPT ![p] = new] /\ seen' = [seen EXCEPT ![p] = @ \cup {new}]
  BY DEF Change
<1>2. ps' \in [Pid -> Process \cup {Gone}] /\ seen' \in [Pid -> SUBSET (Process \cup {Gone})]
  BY <1>1 DEF Typed, TypeOK
<1>3. changes' \in 0..MaxChange
  BY LsofAssumption DEF Change, Typed, TypeOK
<1> QED BY <1>2, <1>3 DEF Change, memVars, fdVars, scanVars, Typed, TypeOK, Chosen

LEMMA TypedNext == Typed /\ [Next]_vars => Typed'
<1>1. ASSUME Typed, UNCHANGED vars  PROVE Typed'
  BY <1>1 DEF vars, world, memVars, fdVars, scanVars, Typed, TypeOK, Chosen
<1> QED BY <1>1, OptionTypes, CommTypes, LinkTypes, MemTypes, FdTypes, ChangeTypes
        DEF Next, main

\* Every variable of the listing keeps its type, for all processes and options.
THEOREM LsofTypeCorrect == Spec => []TypeOK
<1>1. Typed => TypeOK
  BY DEF Typed
<1> QED BY <1>1, TypedInit, TypedNext, PTL DEF Spec

----------------------------------------------------------------------------
(* Rows are true.  What FindMem and FindFd carry from one look to the next *)
(* has been so at a process of the number they list.                       *)

RowTrue(r) ==
  /\ \E p \in Been(r.pid) : p.cmd = r.cmd
  /\ IF Denied(r) THEN \E p \in Been(r.pid) : ~p.ours ELSE Held(r)

OfOne == Places \ {"args", "proc", "comm", "commline"}
SeenNow == \A p \in Pid : ps[p] \in seen[p]
CmdSeen == at \in OfOne => \E p \in Been(pid) : p.cmd = cmd
MemSeen ==
  at \in {"mapsstat", "mapsline"} =>
    /\ owner \in Been(pid)
    /\ \A k \in 1..Len(lines) : lines[k].node = None \/ Mapped(owner, lines[k].node)
FdSeen ==
  at = "fdmode" => inode # None /\ \E p \in Been(pid) : p.fd[Current] = inode
TrueHeld == SeenNow /\ CmdSeen /\ MemSeen /\ FdSeen /\ RowsTrue

LEMMA TrueHeldInit == Init => TrueHeld
BY DEF Init, TrueHeld, SeenNow, CmdSeen, MemSeen, FdSeen, RowsTrue, OfOne

\* What has been stays so.
LEMMA TrueStays ==
  ASSUME NEW r, r.pid \in Pid, \A p \in Pid : seen[p] \subseteq seen'[p], RowTrue(r)
  PROVE  RowTrue(r)'
<1>1. Been(r.pid) \subseteq Been(r.pid)'
  BY DEF Been
<1>2. (\E p \in Been(r.pid) : p.cmd = r.cmd) => (\E p \in Been(r.pid)' : p.cmd = r.cmd)
  BY <1>1
<1>3. (\E p \in Been(r.pid) : ~p.ours) => (\E p \in Been(r.pid)' : ~p.ours)
  BY <1>1
<1>4. Held(r) => Held(r)'
  BY <1>1 DEF Held, Mapped
<1> QED BY <1>2, <1>3, <1>4 DEF RowTrue, Denied

\* A look that prints nothing, or a true row.
LEMMA RowsStay ==
  ASSUME Typed, RowsTrue, UNCHANGED world, NEW r, RowTrue(r), r.pid \in Pid,
         rows' = rows \/ rows' = rows \cup {r}
  PROVE  RowsTrue'
<1>1. \A p \in Pid : seen[p] \subseteq seen'[p]
  BY DEF world
<1>2. \A q \in rows : RowTrue(q) /\ q.pid \in Pid
  BY DEF RowsTrue, RowTrue, Typed, TypeOK, Row
<1>3. \A q \in rows' : RowTrue(q)'
  BY <1>1, <1>2, TrueStays
<1> QED BY <1>3 DEF RowsTrue, RowTrue

LEMMA RowsSame ==
  ASSUME Typed, RowsTrue, \A p \in Pid : seen[p] \subseteq seen'[p], rows' = rows
  PROVE  RowsTrue'
<1>2. \A q \in rows : RowTrue(q) /\ q.pid \in Pid
  BY DEF RowsTrue, RowTrue, Typed, TypeOK, Row
<1>3. \A q \in rows' : RowTrue(q)'
  BY <1>2, TrueStays
<1> QED BY <1>3 DEF RowsTrue, RowTrue

\* A row is printed of the process there is, or was.
LEMMA PrintedTrue ==
  ASSUME Typed, TrueHeld, UNCHANGED world, at \in OfOne, NEW f, NEW t, NEW n,
         PrintRow(f, t, n) \/ PrintIf(f, t, n),
         IF n = None THEN \E p \in Been(pid) : ~p.ours
         ELSE Held([pid |-> pid, cmd |-> cmd, fd |-> f, type |-> t, node |-> n])
  PROVE  RowsTrue'
<1> DEFINE r == [pid |-> pid, cmd |-> cmd, fd |-> f, type |-> t, node |-> n]
<1>1. r.pid = pid /\ r.cmd = cmd /\ r.node = n /\ pid \in Pid
  BY DEF Typed, TypeOK
<1>2. \E p \in Been(pid) : p.cmd = cmd
  BY DEF TrueHeld, CmdSeen
<1>3. rows' = rows \/ rows' = rows \cup {r}
  BY DEF PrintRow, PrintIf, Skip
<1>4. IF n = None THEN \E p \in Been(pid) : ~p.ours ELSE Held(r)
  OBVIOUS
<1> HIDE DEF r
<1>5. RowTrue(r)
  BY <1>1, <1>2, <1>4 DEF RowTrue, Denied
<1> QED BY <1>1, <1>3, <1>5, RowsStay DEF TrueHeld

LEMMA ThereBeen ==
  ASSUME Typed, SeenNow, There  PROVE ps[pid] \in Been(pid) /\ ps[pid] \in Process
BY DEF SeenNow, There, Been, Typed, TypeOK

\* A step to another look at the same process.
LEMMA GoTrue ==
  ASSUME Typed, TrueHeld, UNCHANGED world, NEW next \in Places \cup Ended, Go(next),
         next \in OfOne => at \in OfOne,
         next \notin {"mapsstat", "mapsline", "fdmode"}, RowsTrue'
  PROVE  TrueHeld'
<1>1. UNCHANGED <<ps, seen, pid, cmd>> /\ at' = next
  BY DEF Go, world, scanVars
<1>2. SeenNow' /\ CmdSeen'
  BY <1>1 DEF TrueHeld, SeenNow, CmdSeen, Been
<1> QED BY <1>1, <1>2 DEF TrueHeld, MemSeen, FdSeen

LEMMA StepTrue ==
  ASSUME TrueHeld, UNCHANGED <<world, pid, cmd>>, at' \in OfOne => at \in OfOne,
         MemSeen', FdSeen', RowsTrue'
  PROVE  TrueHeld'
BY DEF TrueHeld, SeenNow, CmdSeen, Been, world

LEMMA CommTrue ==
  ASSUME Typed, TrueHeld, NoValue \/ Option \/ OpenProc \/ NextProcess \/ CheckCmd \/ FindUsr
  PROVE  TrueHeld'
<1>1. UNCHANGED <<world, rows>>
  BY DEF NoValue, Option, Idle, OpenProc, NextProcess, CheckCmd, FindUsr, Look, Skip
<1>2. RowsTrue' /\ SeenNow'
  <2>1. \A p \in Pid : seen[p] \subseteq seen'[p]
    BY <1>1 DEF world
  <2> QED BY <1>1, <2>1, RowsSame DEF TrueHeld, SeenNow, world
<1>3. CASE NoValue \/ Option \/ OpenProc \/ NextProcess
  <2>1. at' \in {"args", "crash", "usage", "proc", "noproc", "comm", "done"}
    BY <1>3 DEF NoValue, Option, Options, OpenProc, NextProcess
  <2>2. at' \notin OfOne
    BY <2>1 DEF OfOne, Places
  <2> QED BY <1>2, <2>1, <2>2 DEF TrueHeld, CmdSeen, MemSeen, FdSeen
<1>4. CASE CheckCmd
  <2>1. CASE at' \notin OfOne
    BY <1>2, <2>1 DEF TrueHeld, CmdSeen, MemSeen, FdSeen, OfOne, Places
  <2>2. CASE at' \in OfOne
    <3>1. There /\ cmd' = ps[pid].cmd /\ at' = "user" /\ pid' = pid
      BY <1>4, <2>2 DEF CheckCmd, Go, OfOne, Places, scanVars
    <3>2. ps[pid] \in Been(pid)'
      BY <1>1, <3>1, ThereBeen DEF TrueHeld, Been, world
    <3>3. CmdSeen'
      BY <3>1, <3>2 DEF CmdSeen
    <3> QED BY <1>2, <3>1, <3>3 DEF TrueHeld, MemSeen, FdSeen
  <2> QED BY <2>1, <2>2
<1>5. CASE FindUsr
  <2>1. at = "user" /\ at \in OfOne
    BY <1>5 DEF FindUsr, Look, OfOne, Places
  <2>2. Go("cwd") \/ Go("failed")
    BY <1>5 DEF FindUsr
  <2> QED BY <1>1, <1>2, <2>1, <2>2, GoTrue DEF Places, Ended
<1> QED BY <1>3, <1>4, <1>5

LEMMA SkipTrue ==
  ASSUME Typed, TrueHeld, UNCHANGED world, Skip  PROVE RowsTrue'
BY RowsSame DEF TrueHeld, Skip, world

LEMMA FollowTrue ==
  ASSUME Typed, TrueHeld, UNCHANGED world, at \in OfOne, NEW f \in {"cwd", "root", "exe"},
         NEW stat \in {"cwdstat", "rootstat", "exestat"},
         NEW next \in {"root", "exe", "maps"}, FollowLink(f, stat, next)
  PROVE  TrueHeld'
<1>1. RowsTrue'
  <2>1. CASE There /\ ~ps[pid].ours /\ PrintRow(Slot(f), "unknown", None)
    <3>1. \E p \in Been(pid) : ~p.ours
      BY <2>1, ThereBeen DEF TrueHeld
    <3> QED BY <2>1, <3>1, PrintedTrue
  <2> QED BY <2>1, SkipTrue DEF FollowLink
<1>2. Go(next) \/ Go(stat)
  BY DEF FollowLink
<1> QED BY <1>1, <1>2, GoTrue DEF Places

LEMMA StatTrue ==
  ASSUME Typed, TrueHeld, UNCHANGED world, at \in OfOne, NEW f \in {"cwd", "root", "exe"},
         NEW types, NEW next \in {"root", "exe", "maps"}, StatLink(f, types, next)
  PROVE  TrueHeld'
<1>1. RowsTrue'
  <2>1. CASE Ours /\ ps[pid][f] # None
    <3> DEFINE n == ps[pid][f]
               r == [pid |-> pid, cmd |-> cmd, fd |-> Slot(f), type |-> types[n], node |-> n]
    <3>1. ps[pid] \in Been(r.pid)
      BY <2>1, ThereBeen DEF TrueHeld, Ours
    <3>2. r.fd[2] = f /\ r.node = n
      BY DEF Slot
    <3>3. Held(r)
      BY <3>1, <3>2 DEF Held
    <3>4. PrintIf(Slot(f), types[n], n) /\ n # None
      BY <2>1 DEF StatLink
    <3> QED BY <3>3, <3>4, PrintedTrue
  <2>2. CASE ~(Ours /\ ps[pid][f] # None)
    BY <2>2, SkipTrue DEF StatLink, error
  <2> QED BY <2>1, <2>2
<1>2. Go(next) \/ Go("failed")
  BY DEF StatLink, error
<1> QED BY <1>1, <1>2, GoTrue DEF Places, Ended

LEMMA LinkTrue ==
  ASSUME Typed, TrueHeld, FindCwdRoot \/ FindExe  PROVE TrueHeld'
<1>1. UNCHANGED world
  BY DEF FindCwdRoot, FindExe, Look
<1>2. at \in OfOne
  BY DEF FindCwdRoot, FindExe, Look, OfOne, Places
<1> QED BY <1>1, <1>2, FollowTrue, StatTrue DEF FindCwdRoot, FindExe

LEMMA MemTrue ==
  ASSUME Typed, TrueHeld, FindMem  PROVE TrueHeld'
<1>w. UNCHANGED world /\ at \in OfOne
  BY DEF FindMem, OpenMaps, StatMaps, MapsLine, MapsEnd, Look, OfOne, Places
<1>1. CASE Skip /\ (Go("failed") \/ Go("fd"))
  BY <1>1, <1>w, SkipTrue, GoTrue DEF Places, Ended
<1>2. CASE Ours /\ at' = "mapsstat" /\ Skip
           /\ owner' = ps[pid] /\ lines' = ps[pid].maps /\ node' = None /\ fd' = "mem"
           /\ UNCHANGED <<fdVars, scanVars>>
  <2>1. ps[pid] \in Been(pid) /\ ps[pid].maps \in Seq(Line)
    BY <1>2, ThereBeen, Fields DEF TrueHeld, Ours
  <2>2. MemSeen'
    <3>1. \A k \in 1..Len(ps[pid].maps) : Mapped(ps[pid], ps[pid].maps[k].node)
      BY <2>1 DEF Mapped
    <3> QED BY <1>2, <1>w, <2>1, <3>1 DEF MemSeen, Been, Mapped, world, scanVars
  <2>3. FdSeen'
    BY <1>2 DEF FdSeen
  <2> QED BY <1>2, <1>w, <2>2, <2>3, SkipTrue, StepTrue DEF scanVars
<1>3. CASE at = "mapsstat" /\ Go("mapsline") /\ Skip
  <2>1. MemSeen' /\ FdSeen'
    BY <1>3, <1>w DEF TrueHeld, MemSeen, FdSeen, Go, memVars, scanVars, world, Been, Mapped
  <2> QED BY <1>3, <1>w, <2>1, SkipTrue, StepTrue DEF Go, scanVars
<1>4. CASE MapsLine
  <2> DEFINE line == Head(lines)
  <2>1. at = "mapsline" /\ at' = at /\ UNCHANGED <<owner, fdVars, scanVars>> /\ lines' = Tail(lines)
    BY <1>4 DEF MapsLine, Look
  <2>2. lines \in Seq(Line) /\ lines # <<>>
    BY <1>4 DEF MapsLine, Typed, TypeOK
  <2>3. owner \in Been(pid)
        /\ \A k \in 1..Len(lines) : lines[k].node = None \/ Mapped(owner, lines[k].node)
    BY <2>1 DEF TrueHeld, MemSeen
  <2>4. \A k \in 1..Len(Tail(lines)) : k + 1 \in 1..Len(lines) /\ Tail(lines)[k] = lines[k + 1]
    BY <2>2, HeadTailProperties
  <2>5. MemSeen'
    BY <1>w, <2>1, <2>3, <2>4 DEF MemSeen, Been, Mapped, world, scanVars
  <2>6. line.node = None \/ Mapped(owner, line.node)
    <3>1. line = lines[1] /\ 1 \in 1..Len(lines)
      BY <2>2
    <3> QED BY <2>3, <3>1
  <2>7. RowsTrue'
    <3>1. CASE line.node \in {None, node}
      BY <1>4, <1>w, <3>1, SkipTrue DEF MapsLine
    <3>2. CASE line.node \notin {None, node}
      <4>1. node' = line.node /\ fd' \in {"mem", "del"} /\ PrintIf(Slot(fd'), "REG", node')
        BY <1>4, <3>2 DEF MapsLine, Typed, TypeOK
      <4> DEFINE r == [pid |-> pid, cmd |-> cmd, fd |-> Slot(fd'), type |-> "REG", node |-> node']
      <4>2. r.pid = pid /\ r.fd[2] \in {"mem", "del"} /\ r.node = line.node
        BY <4>1 DEF Slot
      <4>3. Held(r)
        BY <2>3, <2>6, <3>2, <4>2 DEF Held
      <4> QED BY <1>w, <3>2, <4>1, <4>3, PrintedTrue
    <3> QED BY <3>1, <3>2
  <2>8. FdSeen'
    BY <2>1 DEF FdSeen
  <2> QED BY <1>w, <2>1, <2>5, <2>7, <2>8, StepTrue DEF scanVars
<1> QED BY <1>1, <1>2, <1>3, <1>4 DEF FindMem, OpenMaps, StatMaps, MapsEnd, Look

LEMMA FdTrue ==
  ASSUME Typed, TrueHeld, FindFd  PROVE TrueHeld'
<1>w. UNCHANGED world /\ at \in OfOne
  BY DEF FindFd, OpenDir, ReadDir, ReadLink, StatFd, Access, CloseDir, Look, OfOne, Places
<1>f. Go("failed") /\ Skip => TrueHeld'
  BY <1>w, SkipTrue, GoTrue DEF Ended, OfOne, Places
<1>s. ASSUME Skip, UNCHANGED <<pid, cmd>>, at' \in {"fdlist", "fdlink", "fdstat", "proc"}
      PROVE  TrueHeld'
  BY <1>s, <1>w, SkipTrue, StepTrue DEF MemSeen, FdSeen
<1>1. CASE OpenDir
  <2>1. CASE Skip /\ at' = "fdlist" /\ UNCHANGED <<lines, node, fd, fdVars, scanVars>>
    BY <2>1, <1>s DEF scanVars
  <2>2. CASE There /\ ~ps[pid].ours /\ PrintRow(Slot("NOFD"), "", None) /\ Go("proc")
    <3>1. \E p \in Been(pid) : ~p.ours
      BY <2>2, ThereBeen DEF TrueHeld
    <3> QED BY <2>2, <3>1, <1>w, PrintedTrue, GoTrue DEF Places
  <2> QED BY <1>1, <1>f, <2>1, <2>2 DEF OpenDir, error
<1>2. CASE ReadDir
  BY <1>2, <1>s DEF ReadDir, scanVars
<1>3. CASE ReadLink
  BY <1>3, <1>s, <1>f DEF ReadLink, Go, scanVars
<1>4. CASE StatFd
  <2>1. CASE Open
    <3>1. /\ inode' = ps[pid].fd[Current] /\ at' = "fdmode"
          /\ UNCHANGED <<memVars, descs, scanVars>> /\ Skip
      BY <1>4, <2>1 DEF StatFd
    <3>2. ps[pid] \in Been(pid)
      BY <2>1, ThereBeen DEF TrueHeld, Open, Ours
    <3>3. FdSeen'
      <4>1. inode' # None /\ Current' = Current
        BY <2>1, <3>1 DEF Open, Current
      <4>2. Been(pid)' = Been(pid)
        BY <1>w, <3>1 DEF Been, world, scanVars
      <4> QED BY <3>1, <3>2, <4>1, <4>2 DEF FdSeen
    <3>4. MemSeen'
      BY <3>1 DEF MemSeen
    <3> QED BY <1>w, <3>1, <3>3, <3>4, SkipTrue, StepTrue DEF scanVars
  <2>2. CASE ~Open
    BY <1>4, <1>f, <2>2 DEF StatFd, StatFails
  <2> QED BY <2>1, <2>2
<1>5. CASE Access
  <2> DEFINE c == Current
             m == IF Open THEN "u" ELSE ""
             r == [pid |-> pid, cmd |-> cmd, fd |-> <<c, m>>, type |-> type, node |-> inode]
  <2>1. at = "fdmode" /\ PrintIf(<<c, m>>, type, inode) /\ at' = "fdlink"
        /\ UNCHANGED <<memVars, type, inode, scanVars>>
    BY <1>5 DEF Access, Look
  <2>2. inode # None /\ \E p \in Been(pid) : p.fd[c] = inode
    BY <2>1 DEF TrueHeld, FdSeen
  <2>3. c \in Desc /\ m \in {"u", ""}
    BY <2>1, CurrentLeast DEF Typed, TypeOK, Chosen
  <2> HIDE DEF c, m
  <2>4. r.pid = pid /\ r.fd[1] = c /\ r.fd[2] = m /\ r.node = inode
    OBVIOUS
  <2>5. Held(r)
    BY <2>2, <2>3, <2>4 DEF Held
  <2>6. RowsTrue'
    BY <1>w, <2>1, <2>2, <2>5, PrintedTrue
  <2> QED BY <1>w, <2>1, <2>6, StepTrue DEF MemSeen, FdSeen, scanVars
<1>6. CASE CloseDir
  BY <1>6, <1>s DEF CloseDir
<1> QED BY <1>1, <1>2, <1>3, <1>4, <1>5, <1>6 DEF FindFd

LEMMA ChangeTrue ==
  ASSUME Typed, TrueHeld, Change  PROVE TrueHeld'
<1>1. PICK p \in Pid, new \in Process \cup {Gone} :
        ps' = [ps EXCEPT ![p] = new] /\ seen' = [seen EXCEPT ![p] = @ \cup {new}]
  BY DEF Change
<1>2. /\ UNCHANGED <<memVars, fdVars, scanVars, at, rows>>
      /\ \A q \in Pid : seen[q] \subseteq seen'[q]
      /\ \A q \in Pid : Been(q) \subseteq Been(q)'
  BY <1>1 DEF Change, Typed, TypeOK, Been
<1>3. SeenNow'
  BY <1>1 DEF TrueHeld, SeenNow, Typed, TypeOK
<1>4. RowsTrue'
  BY <1>2, RowsSame DEF TrueHeld
<1>5. pid \in Pid /\ pid' = pid /\ Current' = Current
  BY <1>2 DEF Typed, TypeOK, scanVars, fdVars, Current
<1>6. CmdSeen' /\ MemSeen' /\ FdSeen'
  BY <1>2, <1>5 DEF TrueHeld, CmdSeen, MemSeen, FdSeen, Mapped, memVars, fdVars, scanVars
<1> QED BY <1>3, <1>4, <1>6 DEF TrueHeld

LEMMA TrueHeldNext == Typed /\ TrueHeld /\ [Next]_vars => TrueHeld'
<1>1. ASSUME Typed, TrueHeld, UNCHANGED vars  PROVE TrueHeld'
  BY <1>1, RowsSame
     DEF vars, world, memVars, fdVars, scanVars, TrueHeld, SeenNow, CmdSeen, MemSeen, FdSeen,
         Been, Mapped, Current
<1> QED BY <1>1, CommTrue, LinkTrue, MemTrue, FdTrue, ChangeTrue DEF Next, main

\* No row of the listing is made up, for any processes and however often they change
\* between its looks (hw1.cpp:162, 106).
THEOREM RowsAreTrue == Spec => []RowsTrue
<1>1. TrueHeld => RowsTrue
  BY DEF TrueHeld
<1> QED BY <1>1, TypedInit, TypedNext, TrueHeldInit, TrueHeldNext, PTL DEF Spec

----------------------------------------------------------------------------
(* Each look at a process that stays as it is finds what the one before it *)
(* has found, and only those behind that did not stay have cost a          *)
(* descriptor.                                                             *)

AtOne == {"comm", "commline"} \cup OfOne
Steady ==
  /\ at \in AtOne => There
  /\ at = "failed" => There /\ (Full \/ ~ps[pid].named)
  /\ at \in {"commline", "fdlist"} => owner = ps[pid]
  /\ at = "cwdstat" => Ours /\ ps[pid]["cwd"] # None
  /\ at = "rootstat" => Ours /\ ps[pid]["root"] # None
  /\ at = "exestat" => Ours /\ ps[pid]["exe"] # None
  /\ at \in {"fdlist", "fdlink", "fdstat", "fdmode"} => Ours
  /\ at \in {"fdlink", "fdstat", "fdmode"} => \A d \in descs : ps[pid].fd[d] # None
Ahead ==
  /\ \A p \in pids : Stays(p) => ps[p] # Gone
  /\ at \in AtOne => pid \notin pids
Behind == {p \in Pid : ~Stays(p) /\ p \notin pids /\ (at \in AtOne => p # pid)}
Lost == IF at = "args" THEN leaked = 0 ELSE leaked <= Cardinality(Behind)
SteadyHeld == (Stays(pid) => Steady) /\ Ahead /\ Lost

LEMMA BehindFinite == IsFiniteSet(Behind) /\ Cardinality(Behind) \in Nat
BY LsofAssumption, FS_Subset, FS_CardinalityType DEF Behind

LEMMA BehindFinite2 == IsFiniteSet(Behind') /\ Cardinality(Behind') \in Nat
BY LsofAssumption, FS_Subset, FS_CardinalityType DEF Behind

LEMMA SteadyInit == Init => SteadyHeld
BY DEF Init, SteadyHeld, Steady, Ahead, Lost, AtOne, OfOne

\* A look that stays with its process and leaves no directory open, or is the last one.
LEMMA SteadyLook ==
  ASSUME Typed, SteadyHeld, UNCHANGED <<world, pids, pid, leaked>>, at \in AtOne,
         at' \in AtOne \cup {"proc", "failed"}, Stays(pid) => Steady'
  PROVE  SteadyHeld'
<1>1. (\A p : Stays(p)' = Stays(p)) /\ ps' = ps
  BY DEF Stays, world
<1>2. Ahead'
  BY <1>1 DEF SteadyHeld, Ahead
<1>3. Behind \subseteq Behind'
  BY <1>1 DEF Behind
<1>4. Cardinality(Behind) <= Cardinality(Behind')
  BY <1>3, BehindFinite2, FS_Subset
<1>5. at # "args" /\ at' # "args"
  BY DEF AtOne, OfOne
<1>6. leaked \in Nat /\ leaked <= Cardinality(Behind)
  BY <1>5 DEF SteadyHeld, Lost, Typed, TypeOK
<1>7. Lost'
  BY <1>4, <1>5, <1>6, BehindFinite, BehindFinite2 DEF Lost
<1> QED BY <1>1, <1>2, <1>7 DEF SteadyHeld

\* A change leaves what is known of the processes that stay.
LEMMA SteadyChange ==
  ASSUME Typed, TrueHeld, SteadyHeld, Change  PROVE SteadyHeld'
<1>1. PICK q \in Pid, new \in Process \cup {Gone} :
        ps' = [ps EXCEPT ![q] = new] /\ seen' = [seen EXCEPT ![q] = @ \cup {new}]
  BY DEF Change
<1>2. UNCHANGED <<memVars, fdVars, scanVars, at, rows>> /\ pid \in Pid /\ pids \subseteq Pid
  BY DEF Change, Typed, TypeOK
<1>3. ASSUME NEW p \in Pid, Stays(p)'  PROVE Stays(p) /\ ps'[p] = ps[p]
  <2>1. ps[p] \in seen[p]
    BY DEF TrueHeld, SeenNow
  <2>2. CASE p = q
    <3>1. ps'[p] = new /\ seen'[p] = seen[p] \cup {new}
      BY <1>1, <2>2 DEF Typed, TypeOK
    <3> QED BY <1>3, <2>1, <3>1 DEF Stays
  <2>3. CASE p # q
    <3>1. ps'[p] = ps[p] /\ seen'[p] = seen[p]
      BY <1>1, <2>3 DEF Typed, TypeOK
    <3> QED BY <1>3, <3>1 DEF Stays
  <2> QED BY <2>2, <2>3
<1>4. UNCHANGED <<at, pids, pid, leaked, owner, descs>>
  BY <1>2 DEF memVars, fdVars, scanVars
<1>5. Stays(pid)' => Steady'
  <2>1. Stays(pid)' => Steady /\ ps'[pid'] = ps[pid]
    BY <1>2, <1>3, <1>4 DEF SteadyHeld
  <2> QED BY <1>4, <2>1 DEF Steady, There, Ours, Full
<1>6. Ahead'
  BY <1>2, <1>3, <1>4 DEF SteadyHeld, Ahead
<1>7. Behind \subseteq Behind'
  BY <1>3, <1>4 DEF Behind
<1>8. Cardinality(Behind) <= Cardinality(Behind')
  BY <1>7, BehindFinite2, FS_Subset
<1>9. leaked \in Nat
  BY DEF Typed, TypeOK
<1>10. Lost'
  BY <1>4, <1>8, <1>9, BehindFinite, BehindFinite2 DEF SteadyHeld, Lost
<1> QED BY <1>5, <1>6, <1>10 DEF SteadyHeld

\* The options, and the loop over the processes.
LEMMA SteadyLoop ==
  ASSUME Typed, SteadyHeld, NoValue \/ Option \/ OpenProc \/ NextProcess  PROVE SteadyHeld'
<1>1. UNCHANGED <<world, leaked>> /\ leaked \in Nat
  BY DEF NoValue, Option, Idle, OpenProc, NextProcess, Look, Typed, TypeOK
<1>2. (\A p : Stays(p)' = Stays(p)) /\ ps' = ps
  BY <1>1 DEF Stays, world
<1>3. CASE NoValue \/ Option
  <2>1. at = "args" /\ at' \in {"args", "crash", "usage"} /\ UNCHANGED <<pids, pid>>
    BY <1>3 DEF NoValue, Option, Options, Idle
  <2>2. leaked = 0
    BY <2>1 DEF SteadyHeld, Lost
  <2>3. Lost'
    BY <1>1, <2>2, BehindFinite2 DEF Lost
  <2> QED BY <1>2, <2>1, <2>3 DEF SteadyHeld, Steady, Ahead, AtOne, OfOne, Places
<1>4. CASE OpenProc
  <2>1. /\ at = "args" /\ at' \in {"proc", "noproc"}
        /\ pids' \in {pids, {p \in Pid : ps[p] # Gone}}
    BY <1>4 DEF OpenProc
  <2>2. leaked = 0
    BY <2>1 DEF SteadyHeld, Lost
  <2>3. Lost'
    BY <1>1, <2>2, BehindFinite2 DEF Lost
  <2>4. Ahead'
    BY <1>2, <2>1 DEF SteadyHeld, Ahead, AtOne, OfOne, Places
  <2> QED BY <2>1, <2>3, <2>4 DEF SteadyHeld, Steady, AtOne, OfOne, Places
<1>5. CASE NextProcess
  <2>1. at = "proc" /\ at \notin AtOne
    BY <1>5 DEF NextProcess, Look, AtOne, OfOne, Places
  <2>2. CASE pids = {} /\ at' = "done" /\ UNCHANGED <<pids, pid>>
    <3>1. Behind' = Behind /\ at' \notin AtOne
      BY <1>2, <2>1, <2>2 DEF Behind, AtOne, OfOne, Places
    <3>2. Lost'
      BY <1>1, <2>1, <2>2, <3>1 DEF SteadyHeld, Lost
    <3> QED BY <1>2, <2>2, <3>1, <3>2 DEF SteadyHeld, Steady, Ahead, AtOne, OfOne, Places
  <2>3. CASE pid' \in pids /\ pids' = pids \ {pid'} /\ at' = "comm"
    <3>1. at' \in AtOne
      BY <2>3 DEF AtOne
    <3>2. Behind' = Behind
      BY <1>2, <2>1, <2>3, <3>1 DEF Behind
    <3>3. Lost'
      BY <1>1, <2>1, <2>3, <3>2 DEF SteadyHeld, Lost
    <3>4. Ahead'
      BY <1>2, <2>3 DEF SteadyHeld, Ahead
    <3>5. Stays(pid)' => Steady'
      BY <1>2, <2>3 DEF SteadyHeld, Ahead, Steady, There
    <3> QED BY <3>3, <3>4, <3>5 DEF SteadyHeld
  <2> QED BY <1>5, <2>2, <2>3 DEF NextProcess
<1> QED BY <1>3, <1>4, <1>5

LEMMA SteadyComm ==
  ASSUME Typed, SteadyHeld, CheckCmd \/ FindUsr  PROVE SteadyHeld'
<1>1. UNCHANGED <<world, pids, pid, leaked>> /\ at \in AtOne
  BY DEF CheckCmd, FindUsr, Look, Go, scanVars, AtOne, OfOne, Places
<1>2. at' \in AtOne \cup {"proc", "failed"}
  BY DEF CheckCmd, FindUsr, Go, AtOne, OfOne, Places
<1>3. ASSUME Stays(pid)  PROVE Steady'
  <2>1. Steady /\ There /\ ps' = ps
    BY <1>1, <1>3 DEF SteadyHeld, Steady, world
  <2>2. There' /\ ps'[pid'] = ps[pid] /\ Full' = Full
    BY <1>1, <2>1 DEF There, Full
  <2>3. CASE CheckCmd
    <3>1. \/ at' = "failed" /\ Full
          \/ at' \in {"proc", "user"}
          \/ at' = "commline" /\ owner' = ps[pid]
      BY <2>1, <2>3 DEF CheckCmd, Look, Go, Steady
    <3> QED BY <2>2, <3>1 DEF Steady, OfOne, Places
  <2>4. CASE FindUsr
    <3>1. at' = "cwd" \/ (at' = "failed" /\ ~ps[pid].named)
      BY <2>1, <2>4 DEF FindUsr, Go
    <3> QED BY <2>2, <3>1 DEF Steady, OfOne, Places
  <2> QED BY <2>3, <2>4
<1> QED BY <1>1, <1>2, <1>3, SteadyLook

LEMMA SteadyLinks ==
  ASSUME Typed, SteadyHeld, FindCwdRoot \/ FindExe  PROVE SteadyHeld'
<1>1. UNCHANGED <<world, pids, pid, leaked>> /\ at \in AtOne
  BY DEF FindCwdRoot, FindExe, FollowLink, StatLink, error, Look, Go, scanVars, AtOne, OfOne,
         Places
<1>2. at' \in AtOne \cup {"proc", "failed"}
  BY DEF FindCwdRoot, FindExe, FollowLink, StatLink, error, Go, AtOne, OfOne, Places
<1>3. ASSUME Stays(pid)  PROVE Steady'
  <2>1. Steady /\ There /\ ps' = ps
    BY <1>1, <1>3 DEF SteadyHeld, Steady, world
  <2>2. There' /\ ps'[pid'] = ps[pid] /\ Ours' = Ours
    BY <1>1, <2>1 DEF There, Ours
  <2>3. \/ at' \in {"root", "exe", "maps"}
        \/ at' = "cwdstat" /\ Ours /\ ps[pid]["cwd"] # None
        \/ at' = "rootstat" /\ Ours /\ ps[pid]["root"] # None
        \/ at' = "exestat" /\ Ours /\ ps[pid]["exe"] # None
    BY <2>1 DEF FindCwdRoot, FindExe, FollowLink, StatLink, error, Look, Go, Steady
  <2> QED BY <2>2, <2>3 DEF Steady, OfOne, Places
<1> QED BY <1>1, <1>2, <1>3, SteadyLook

LEMMA SteadyMem ==
  ASSUME Typed, SteadyHeld, FindMem  PROVE SteadyHeld'
<1>1. UNCHANGED <<world, pids, pid, leaked>> /\ at \in AtOne
  BY DEF FindMem, OpenMaps, StatMaps, MapsLine, MapsEnd, Look, Go, scanVars, AtOne, OfOne,
         Places
<1>2. at' \in AtOne \cup {"proc", "failed"}
  BY <1>1 DEF FindMem, OpenMaps, StatMaps, MapsLine, MapsEnd, Go, AtOne, OfOne, Places
<1>3. ASSUME Stays(pid)  PROVE Steady'
  <2>1. Steady /\ There /\ ps' = ps
    BY <1>1, <1>3 DEF SteadyHeld, Steady, world
  <2>2. There' /\ ps'[pid'] = ps[pid] /\ Full' = Full
    BY <1>1, <2>1 DEF There, Full
  <2>3. at' \in {"mapsstat", "mapsline", "fd"} \/ (at' = "failed" /\ Full)
    BY <2>1 DEF FindMem, OpenMaps, StatMaps, MapsLine, MapsEnd, Look, Go
  <2> QED BY <2>2, <2>3 DEF Steady, OfOne, Places
<1> QED BY <1>1, <1>2, <1>3, SteadyLook

\* Only a process that did not stay costs a descriptor.
LEMMA SteadyLeak ==
  ASSUME Typed, SteadyHeld, UNCHANGED <<world, pids, pid>>, at \in AtOne, at' = "proc",
         leaked' = leaked + 1, ~Stays(pid)
  PROVE  SteadyHeld'
<1>1. (\A p : Stays(p)' = Stays(p)) /\ ps' = ps
  BY DEF Stays, world
<1>2. at # "args" /\ at' # "args" /\ at' \notin AtOne /\ pid \in Pid /\ pid \notin pids
  BY DEF AtOne, OfOne, Places, SteadyHeld, Ahead, Typed, TypeOK
<1>3. Behind' = Behind \cup {pid} /\ pid \notin Behind
  BY <1>1, <1>2 DEF Behind
<1>4. Cardinality(Behind') = Cardinality(Behind) + 1
  BY <1>3, BehindFinite, FS_AddElement
<1>5. leaked \in Nat /\ leaked <= Cardinality(Behind)
  BY <1>2 DEF SteadyHeld, Lost, Typed, TypeOK
<1>6. leaked' <= Cardinality(Behind')
  BY <1>4, <1>5, BehindFinite
<1>7. Lost'
  BY <1>2, <1>6 DEF Lost
<1> QED BY <1>1, <1>2, <1>7 DEF SteadyHeld, Ahead

LEMMA SteadyFd ==
  ASSUME Typed, SteadyHeld, FindFd  PROVE SteadyHeld'
<1>1. UNCHANGED <<world, pids, pid>> /\ at \in AtOne
  BY DEF FindFd, OpenDir, ReadDir, ReadLink, StatFd, StatFails, Access, CloseDir, error, Look,
         Go, scanVars, AtOne, OfOne, Places
<1>2. Stays(pid) => Steady /\ There /\ (at # "fd" => Ours)
  BY <1>1
     DEF FindFd, OpenDir, ReadDir, ReadLink, StatFd, Access, CloseDir, Look, SteadyHeld, Steady
<1>3. Stays(pid) /\ at \in {"fdlink", "fdstat", "fdmode"} /\ descs # {} => Open
  BY <1>2, CurrentLeast DEF Steady, Open, Typed, TypeOK
<1>4. ps'[pid'] = ps[pid] /\ There' = There /\ Ours' = Ours
  BY <1>1 DEF world, There, Ours
<1>5. CASE OpenDir
  <2>1. leaked' = leaked /\ Full' = Full /\ at' \in {"fdlist", "proc", "failed"}
    BY <1>5 DEF OpenDir, error, Go, scanVars, Full
  <2>2. Stays(pid) =>
          at' = "proc" \/ (at' = "failed" /\ Full) \/ (at' = "fdlist" /\ Ours /\ owner' = ps[pid])
    BY <1>2, <1>5 DEF OpenDir, error, Ours, Go
  <2>3. Stays(pid) => Steady'
    BY <1>2, <1>4, <2>1, <2>2 DEF Steady, AtOne, OfOne, Places
  <2> QED BY <1>1, <2>1, <2>3, SteadyLook DEF AtOne, OfOne, Places
<1>6. CASE ReadDir
  <2>1. leaked' = leaked /\ at' = "fdlink" /\ at = "fdlist"
    BY <1>6 DEF ReadDir, Look, scanVars
  <2>2. Stays(pid) => descs' = {d \in Desc : ps[pid].fd[d] # None}
    BY <1>2, <1>6, <2>1 DEF ReadDir, Steady
  <2>3. Stays(pid) => Steady'
    BY <1>2, <1>4, <2>1, <2>2 DEF Steady, AtOne, OfOne, Places
  <2> QED BY <1>1, <2>1, <2>3, SteadyLook DEF AtOne, OfOne, Places
<1>7. CASE ReadLink
  <2>1. at = "fdlink" /\ descs # {} /\ (Stays(pid) => Open /\ Ours)
    BY <1>2, <1>3, <1>7 DEF ReadLink, Look
  <2>2. \/ Open /\ Go("fdstat")
        \/ ~Open /\ leaked' = leaked + 1 /\ at' = "proc"
        \/ ~Ours /\ Go("failed")
    BY <1>7 DEF ReadLink, Ours
  <2>3. CASE Open /\ Go("fdstat")
    <3>1. UNCHANGED <<leaked, descs>> /\ at' = "fdstat"
      BY <2>3 DEF Go, fdVars, scanVars
    <3>2. Stays(pid) => Steady'
      BY <1>2, <1>4, <2>1, <3>1 DEF Steady, AtOne, OfOne, Places
    <3> QED BY <1>1, <3>1, <3>2, SteadyLook DEF AtOne, OfOne, Places
  <2>4. CASE ~Open /\ leaked' = leaked + 1 /\ at' = "proc"
    BY <1>1, <2>1, <2>4, SteadyLeak
  <2>5. CASE ~Ours /\ Go("failed")
    <3>1. leaked' = leaked /\ at' = "failed" /\ ~Stays(pid)
      BY <2>1, <2>5 DEF Go, scanVars
    <3> QED BY <1>1, <3>1, SteadyLook
  <2> QED BY <2>2, <2>3, <2>4, <2>5
<1>8. CASE StatFd
  <2>1. at = "fdstat" /\ descs # {}
    BY <1>8 DEF StatFd, Look, Typed, Chosen
  <2>2. leaked' = leaked /\ at' \in {"fdmode", "failed"}
    BY <1>8 DEF StatFd, StatFails, Go, scanVars
  <2>3. Stays(pid) => at' = "fdmode" /\ descs' = descs
    BY <1>3, <1>8, <2>1 DEF StatFd
  <2>4. Stays(pid) => Steady'
    BY <1>2, <1>4, <2>1, <2>3 DEF Steady, AtOne, OfOne, Places
  <2> QED BY <1>1, <2>2, <2>4, SteadyLook DEF AtOne, OfOne, Places
<1>9. CASE Access
  <2>1. at = "fdmode" /\ at' = "fdlink" /\ leaked' = leaked /\ descs' \subseteq descs
    BY <1>9 DEF Access, Look, Rest, scanVars
  <2>2. Stays(pid) => Steady'
    BY <1>2, <1>4, <2>1 DEF Steady, AtOne, OfOne, Places
  <2> QED BY <1>1, <2>1, <2>2, SteadyLook DEF AtOne, OfOne, Places
<1>10. CASE CloseDir
  <2>1. at' = "proc" /\ leaked' = leaked
    BY <1>10 DEF CloseDir, Closed
  <2>2. Steady'
    BY <2>1 DEF Steady, AtOne, OfOne, Places
  <2> QED BY <1>1, <2>1, <2>2, SteadyLook
<1> QED BY <1>5, <1>6, <1>7, <1>8, <1>9, <1>10 DEF FindFd

LEMMA SteadyNext == Typed /\ TrueHeld /\ SteadyHeld /\ [Next]_vars => SteadyHeld'
<1> SUFFICES ASSUME Typed, TrueHeld, SteadyHeld, [Next]_vars  PROVE SteadyHeld'
  OBVIOUS
<1>1. CASE UNCHANGED vars
  <2>1. UNCHANGED <<ps, seen, at, pids, pid, leaked, owner, descs>>
    BY <1>1 DEF vars, world, memVars, fdVars, scanVars
  <2>2. Behind' = Behind /\ \A p : Stays(p)' = Stays(p)
    BY <2>1 DEF Behind, Stays
  <2> QED BY <2>1, <2>2 DEF SteadyHeld, Steady, Ahead, Lost, There, Ours, Full
<1> QED
  BY <1>1, SteadyChange, SteadyLoop, SteadyComm, SteadyLinks, SteadyMem, SteadyFd DEF Next, main

\* The listing gives up on a process only when that process has changed or has a user
\* without a name, or when as many others have changed as the listing may have files
\* open, for any number of processes and descriptors (hw1.cpp:68, 85, 121, 125, 170).
THEOREM AbortsOnlyOnChange == Spec => []AbortOnlyOnChange
<1>1. Typed /\ SteadyHeld => AbortOnlyOnChange
  <2> SUFFICES ASSUME Typed, SteadyHeld, at = "failed", Stays(pid), There => ps[pid].named
               PROVE  Cardinality({p \in Pid : ~Stays(p)}) >= MaxOpen
    BY DEF AbortOnlyOnChange
  <2> DEFINE D == {p \in Pid : ~Stays(p)}
  <2>1. leaked >= MaxOpen /\ leaked <= Cardinality(Behind) /\ leaked \in Nat
    BY DEF SteadyHeld, Steady, Lost, Full, Typed, TypeOK
  <2>2. Behind \subseteq D /\ IsFiniteSet(D)
    BY LsofAssumption, FS_Subset DEF Behind
  <2>3. Cardinality(Behind) <= Cardinality(D) /\ Cardinality(D) \in Nat
    BY <2>2, FS_Subset, FS_CardinalityType
  <2> QED BY <2>1, <2>3, BehindFinite, LsofAssumption
<1> QED BY <1>1, TypedInit, TypedNext, TrueHeldInit, TrueHeldNext, SteadyInit, SteadyNext, PTL DEF Spec
=============================================================================
