-------------------------- MODULE LsofQuietProofs --------------------------
(***************************************************************************)
(* A finished listing of project1 is complete for every process that       *)
(* stayed as it was, for any processes, descriptors, files and options and *)
(* however the other processes change meanwhile.                           *)
(***************************************************************************)
EXTENDS LsofProofs

\* The stages at which one process is looked at; those of FindMem and FindFd at which
\* there are lines, or descriptors, left.
Looking == Places \ {"args", "proc"}
MemLook == {"mapsstat", "mapsline"}
FdLook == {"fdlink", "fdstat", "fdmode"}
Links == {"cwd", "root", "exe"}

\* The rows of process p: those of its links, of its descriptors and of its maps.
RowOf(p, f, t, n) == [pid |-> p, cmd |-> ps[p].cmd, fd |-> f, type |-> t, node |-> n]
LinkType(p, f) == IF f = "exe" THEN TypeOf[ps[p][f]] ELSE "DIR"
LinkRow(p, f) ==
  IF ps[p].ours THEN RowOf(p, Slot(f), LinkType(p, f), ps[p][f])
  ELSE RowOf(p, Slot(f), "unknown", None)
LinkDue(p, f) == ps[p].ours => ps[p][f] # None /\ LinkType(p, f) \in filter.type
FdRow(p, d) == RowOf(p, <<d, "u">>, TypeOf[ps[p].fd[d]], ps[p].fd[d])
FdDue(p, d) == ps[p].ours /\ ps[p].fd[d] # None /\ TypeOf[ps[p].fd[d]] \in filter.type
NoFdRow(p) == RowOf(p, Slot("NOFD"), "", None)
MapRow(p, n) == \E r \in rows : r.pid = p /\ InMaps(r) /\ r.node = n

\* What the output has of them.
LinksThere(p, F) == \A f \in F : LinkDue(p, f) => LinkRow(p, f) \in rows
FdsThere(p, D) == \A d \in D : FdDue(p, d) => FdRow(p, d) \in rows
MapsThere(p) == \A n \in ListingMaps(p) : MapRow(p, n)
Whole(p) ==
  /\ LinksThere(p, Links) /\ MapsThere(p) /\ FdsThere(p, Desc)
  /\ ~ps[p].ours => NoFdRow(p) \in rows

\* A row of p is one that should be there.
Sound(p) ==
  \A r \in rows : r.pid = p =>
    /\ ps[p].cmd \in filter.cmd
    /\ IF InMaps(r) THEN r.node \in ListingMaps(p) ELSE r \in Listing(p)

\* Where the listing is with p: the links behind it at each stage, the lines it has still
\* to read, the descriptors it has looked at.
LinksDone(a) ==
  IF a \in {"user", "cwd", "cwdstat"} THEN {}
  ELSE IF a \in {"root", "rootstat"} THEN {"cwd"}
  ELSE IF a \in {"exe", "exestat"} THEN {"cwd", "root"}
  ELSE Links
SoFar(p) ==
  /\ at \in OfOne => LinksThere(p, LinksDone(at))
  /\ at \in MemLook =>
       /\ \A n \in ListingMaps(p) : MapRow(p, n) \/ \E k \in 1..Len(lines) : lines[k].node = n
       /\ node # None /\ "REG" \in filter.type => MapRow(p, node)
  /\ at \in {"fd", "fdlist"} \cup FdLook => MapsThere(p)
  /\ at \in FdLook => FdsThere(p, Desc \ descs)

\* The listing is through with p.
Passed(p) == p \notin pids /\ at \in Looking \cup {"proc", "done"} /\ (at \in Looking => pid # p)
Complete(p) ==
  ~filter.file /\ ps[p].cmd \in filter.cmd =>
    (Passed(p) => Whole(p)) /\ (pid = p => SoFar(p))

\* What the stages have in hand.
Carried ==
  /\ at = "args" => rows = {}
  /\ at = "done" => pids = {}
  /\ at \in Looking => pid \notin pids
  /\ at \in OfOne => cmd \in filter.cmd
  /\ at \in {"commline", "fdlist"} => owner \in seen[pid]
  /\ at = "fdmode" => type = TypeOf[inode]
  /\ Quiet(pid) /\ at \in MemLook \cup {"fdlist"} \cup FdLook => ps[pid].ours
  /\ Quiet(pid) /\ at \in FdLook => \A d \in descs : ps[pid].fd[d] # None

QuietHeld == Carried /\ \A p \in Pid : Quiet(p) => Sound(p) /\ Complete(p)

----------------------------------------------------------------------------
(* The rows that should be there.                                          *)

LEMMA QuietProcess ==
  ASSUME Typed, NEW p \in Pid, Quiet(p)
  PROVE  ps[p] \in Process /\ ps[p] # Gone /\ Been(p) = {ps[p]} /\ seen[p] = {ps[p]}
BY DEF Typed, TypeOK, Quiet, Stays, Been

LEMMA LinkInode ==
  ASSUME Typed, NEW p \in Pid, Quiet(p), ps[p].ours, NEW f \in Links, ps[p][f] # None
  PROVE  ps[p][f] \in Inode /\ LinkType(p, f) \in Types
<1>1. ps[p][f] \in Inode
  BY QuietProcess, Fields DEF Links
<1> QED BY <1>1, LsofAssumption DEF LinkType, Types

LEMMA ListingIs ==
  ASSUME Typed, NEW p \in Pid, Quiet(p), NEW r
  PROVE  r \in Listing(p) <=>
           \/ \E f \in Links : LinkDue(p, f) /\ r = LinkRow(p, f)
           \/ \E d \in Desc : FdDue(p, d) /\ r = FdRow(p, d)
           \/ ~ps[p].ours /\ r = NoFdRow(p)
<1> DEFINE R(f, t, n) == [pid |-> p, cmd |-> ps[p].cmd, fd |-> f, type |-> t, node |-> n]
           T(f) == IF f = "exe" THEN TypeOf[ps[p][f]] ELSE "DIR"
           wanted == {t \in Types : t \in filter.type}
<1>1. CASE ps[p].ours
  <2> DEFINE A == {R(Slot(f), T(f), ps[p][f]) : f \in {l \in Links : ps[p][l] # None}}
             B == {R(<<d, "u">>, TypeOf[ps[p].fd[d]], ps[p].fd[d]) :
                     d \in {e \in Desc : ps[p].fd[e] # None}}
  <2>1. Listing(p) = {x \in A \cup B : x.type \in wanted}
    BY <1>1 DEF Listing, Links
  <2>2. ASSUME NEW f \in Links, ps[p][f] # None
        PROVE  R(Slot(f), T(f), ps[p][f]).type \in wanted <=> LinkDue(p, f)
    BY <1>1, <2>2, LinkInode DEF LinkDue, LinkType
  <2>3. ASSUME NEW d \in Desc, ps[p].fd[d] # None
        PROVE  R(<<d, "u">>, TypeOf[ps[p].fd[d]], ps[p].fd[d]).type \in wanted <=> FdDue(p, d)
    <3>1. ps[p].fd[d] \in Inode
      BY <2>3, QuietProcess, Fields
    <3>2. TypeOf[ps[p].fd[d]] \in Types
      BY <3>1, LsofAssumption
    <3> QED BY <1>1, <2>3, <3>2 DEF FdDue
  <2>4. \A f \in Links : R(Slot(f), T(f), ps[p][f]) = LinkRow(p, f)
    BY <1>1 DEF LinkRow, RowOf, LinkType
  <2>5. \A d \in Desc : R(<<d, "u">>, TypeOf[ps[p].fd[d]], ps[p].fd[d]) = FdRow(p, d)
    BY DEF FdRow, RowOf
  <2> HIDE DEF wanted, R, T
  <2>6. \A f \in Links : LinkDue(p, f) => ps[p][f] # None
    BY <1>1 DEF LinkDue
  <2>7. \A d \in Desc : FdDue(p, d) => ps[p].fd[d] # None
    BY DEF FdDue
  <2> QED BY <1>1, <2>1, <2>2, <2>3, <2>4, <2>5, <2>6, <2>7
<1>2. CASE ~ps[p].ours
  <2>1. Listing(p) = {R(Slot(f), "unknown", None) : f \in Links} \cup {R(Slot("NOFD"), "", None)}
    BY <1>2 DEF Listing, Links
  <2>2. \A f \in Links : LinkDue(p, f) /\ LinkRow(p, f) = R(Slot(f), "unknown", None)
    BY <1>2 DEF LinkDue, LinkRow, RowOf
  <2>3. NoFdRow(p) = R(Slot("NOFD"), "", None) /\ \A d \in Desc : ~FdDue(p, d)
    BY <1>2 DEF NoFdRow, RowOf, FdDue
  <2> HIDE DEF R
  <2> QED BY <1>2, <2>1, <2>2, <2>3
<1> QED BY <1>1, <1>2

\* Only FindMem's rows are rows of the maps.
LEMMA ListingNotMaps ==
  ASSUME Typed, NEW p \in Pid, Quiet(p), NEW r \in Listing(p)
  PROVE  r.pid = p /\ ~InMaps(r)
<1>1. ASSUME NEW f \in Links, r = LinkRow(p, f)  PROVE r.pid = p /\ r.fd = Slot(f)
  BY <1>1 DEF LinkRow, RowOf
<1>2. ASSUME NEW d \in Desc, r = FdRow(p, d)  PROVE r.pid = p /\ r.fd = <<d, "u">>
  BY <1>2 DEF FdRow, RowOf
<1>3. ASSUME r = NoFdRow(p)  PROVE r.pid = p /\ r.fd = Slot("NOFD")
  BY <1>3 DEF NoFdRow, RowOf
<1>4. r.pid = p /\ r.fd[2] \notin {"mem", "del"}
  BY <1>1, <1>2, <1>3, ListingIs DEF Slot, Links
<1> QED BY <1>4 DEF InMaps

\* At the end all that should be there is, and nothing else.
LEMMA QuietEnd ==
  ASSUME Typed, QuietHeld  PROVE QuietComplete
<1> SUFFICES ASSUME at = "done", NEW p \in Pid, Quiet(p)
             PROVE  LET mine == {r \in rows : r.pid = p}
                        open == {r \in mine : ~InMaps(r)}
                        maps == {r.node : r \in {s \in mine : InMaps(s)}}
                    IN IF ps[p].cmd \notin filter.cmd THEN mine = {}
                       ELSE IF filter.file
                            THEN open \subseteq Listing(p) /\ maps \subseteq ListingMaps(p)
                            ELSE open = Listing(p) /\ maps = ListingMaps(p)
  BY DEF QuietComplete
<1> DEFINE mine == {r \in rows : r.pid = p}
           open == {r \in mine : ~InMaps(r)}
           maps == {r.node : r \in {s \in mine : InMaps(s)}}
<1>1. Sound(p) /\ Complete(p)
  BY DEF QuietHeld
<1>2. ps[p].cmd \notin filter.cmd => mine = {}
  BY <1>1 DEF Sound
<1>3. open \subseteq Listing(p) /\ maps \subseteq ListingMaps(p)
  BY <1>1 DEF Sound
<1>4. ASSUME ~filter.file, ps[p].cmd \in filter.cmd
      PROVE  Listing(p) \subseteq open /\ ListingMaps(p) \subseteq maps
  <2>1. Passed(p)
    BY DEF Passed, QuietHeld, Carried, Looking, Places
  <2>2. Whole(p)
    BY <1>1, <1>4, <2>1 DEF Complete
  <2>3. ASSUME NEW r \in Listing(p)  PROVE r \in open
    <3>1. r \in rows
      BY <2>2, ListingIs DEF Whole, LinksThere, FdsThere
    <3> QED BY <3>1, ListingNotMaps
  <2>4. ASSUME NEW n \in ListingMaps(p)  PROVE n \in maps
    BY <2>2 DEF Whole, MapsThere, MapRow
  <2> QED BY <2>3, <2>4
<1> QED BY <1>2, <1>3, <1>4

----------------------------------------------------------------------------
(* Steps.                                                                  *)

LEMMA QuietInit == Init => QuietHeld
BY DEF Init, QuietHeld, Carried, Quiet, Stays, Sound, Complete, Passed, SoFar, OfOne, Places, Looking,
       MemLook, FdLook

\* What is in the output stays there.
LEMMA ThereStays ==
  ASSUME NEW p, ps' = ps, filter' = filter, rows \subseteq rows'
  PROVE  /\ \A F : LinksThere(p, F) => LinksThere(p, F)'
         /\ \A D : FdsThere(p, D) => FdsThere(p, D)'
         /\ \A n : MapRow(p, n) => MapRow(p, n)'
         /\ MapsThere(p) => MapsThere(p)'
         /\ Whole(p) => Whole(p)'
<1>1. ASSUME NEW F, LinksThere(p, F)  PROVE LinksThere(p, F)'
  BY <1>1 DEF LinksThere, LinkDue, LinkRow, LinkType, RowOf
<1>2. ASSUME NEW D, FdsThere(p, D)  PROVE FdsThere(p, D)'
  BY <1>2 DEF FdsThere, FdDue, FdRow, RowOf
<1>3. ASSUME NEW n, MapRow(p, n)  PROVE MapRow(p, n)'
  BY <1>3 DEF MapRow, InMaps
<1>4. ListingMaps(p)' = ListingMaps(p)
  BY DEF ListingMaps, Mapped
<1>5. MapsThere(p) => MapsThere(p)'
  BY <1>3, <1>4 DEF MapsThere
<1>6. NoFdRow(p) \in rows => NoFdRow(p)' \in rows'
  BY DEF NoFdRow, RowOf
<1>7. Whole(p) => Whole(p)'
  BY <1>1, <1>2, <1>5, <1>6 DEF Whole
<1> QED BY <1>1, <1>2, <1>3, <1>5, <1>7

\* What should be there depends on the process and the options.
LEMMA ListingStays ==
  ASSUME NEW p, ps'[p] = ps[p], filter' = filter
  PROVE  Listing(p)' = Listing(p) /\ ListingMaps(p)' = ListingMaps(p)
<1>1. ListingMaps(p)' = ListingMaps(p)
  BY DEF ListingMaps, Mapped
<1>2. Listing(p)' = Listing(p)
  BY DEF Listing
<1> QED BY <1>1, <1>2

\* A look at the process pid: what is left to show is about pid itself.
Looks ==
  /\ UNCHANGED <<world, filter, pids, pid>> /\ at \in Looking /\ at' \in Looking \cup {"proc", "failed"}
  /\ rows \subseteq rows' /\ \A r \in rows' : r \in rows \/ r.pid = pid

LEMMA LookHeld ==
  ASSUME Typed, QuietHeld, Looks, Carried',
         \A p \in Pid : p = pid /\ Quiet(p) => Sound(p)' /\ Complete(p)'
  PROVE  QuietHeld'
<1> SUFFICES ASSUME NEW p \in Pid, Quiet(p)', p # pid  PROVE Sound(p)' /\ Complete(p)'
  <2>1. \A p \in Pid : Quiet(p)' => Quiet(p)
    BY DEF Quiet, Stays, Looks, world
  <2> QED BY <2>1 DEF QuietHeld
<1>1. /\ Quiet(p) /\ ps' = ps /\ filter' = filter /\ pids' = pids /\ pid' = pid
      /\ Sound(p) /\ Complete(p)
  BY DEF Looks, world, Quiet, Stays, QuietHeld
<1>2. Sound(p)'
  <2>1. \A r \in rows' : r.pid = p => r \in rows
    BY DEF Looks
  <2>2. \A r : InMaps(r)' = InMaps(r)
    BY DEF InMaps
  <2> QED BY <1>1, <2>1, <2>2, ListingStays DEF Sound
<1>3. Complete(p)'
  <2>1. Passed(p)' => Passed(p)
    BY <1>1 DEF Passed, Looks, Looking
  <2>2. rows \subseteq rows'
    BY DEF Looks
  <2> QED BY <1>1, <2>1, <2>2, ThereStays DEF Complete
<1> QED BY <1>2, <1>3

\* The rows of one look are sound when the row it may print is.
LEMMA SoundStays ==
  ASSUME NEW p, p = pid, Looks, Sound(p), NEW r,
         rows' = rows \/ rows' = rows \cup {r},
         ps[p].cmd \in filter.cmd,
         IF InMaps(r) THEN r.node \in ListingMaps(p) ELSE r \in Listing(p)
  PROVE  Sound(p)'
<1>1. ps' = ps /\ filter' = filter
  BY DEF Looks, world
<1>2. Listing(p)' = Listing(p) /\ ListingMaps(p)' = ListingMaps(p)
  BY <1>1, ListingStays
<1>3. \A q : InMaps(q)' = InMaps(q)
  BY DEF InMaps
<1> QED BY <1>1, <1>2, <1>3 DEF Sound

\* Without one too.
LEMMA SoundSkip ==
  ASSUME NEW p, p = pid, Looks, Sound(p), rows' = rows
  PROVE  Sound(p)'
<1>1. ps' = ps /\ filter' = filter
  BY DEF Looks, world
<1>2. Listing(p)' = Listing(p) /\ ListingMaps(p)' = ListingMaps(p)
  BY <1>1, ListingStays
<1>3. \A q : InMaps(q)' = InMaps(q)
  BY DEF InMaps
<1> QED BY <1>1, <1>2, <1>3 DEF Sound

\* A quiet process is as the listing has read it.
LEMMA QuietRead ==
  ASSUME Typed, TrueHeld, QuietHeld, Quiet(pid)
  PROVE  /\ pid \in Pid /\ ps[pid] \in Process /\ There
         /\ at \in OfOne => cmd = ps[pid].cmd /\ cmd \in filter.cmd
         /\ at \in {"commline", "fdlist"} => owner = ps[pid]
         /\ at \in MemLook =>
              /\ owner = ps[pid]
              /\ \A k \in 1..Len(lines) : lines[k].node = None \/ Mapped(ps[pid], lines[k].node)
         /\ at = "fdmode" => inode # None /\ inode = ps[pid].fd[Current] /\ type = TypeOf[inode]
<1>1. pid \in Pid /\ ps[pid] \in Process /\ There /\ Been(pid) = {ps[pid]} /\ seen[pid] = {ps[pid]}
  BY QuietProcess DEF Typed, TypeOK, There
<1>2. at \in OfOne => cmd = ps[pid].cmd /\ cmd \in filter.cmd
  BY <1>1 DEF TrueHeld, CmdSeen, QuietHeld, Carried
<1>3. at \in {"commline", "fdlist"} => owner = ps[pid]
  BY <1>1 DEF QuietHeld, Carried
<1>4. at \in MemLook =>
        /\ owner = ps[pid]
        /\ \A k \in 1..Len(lines) : lines[k].node = None \/ Mapped(ps[pid], lines[k].node)
  BY <1>1 DEF TrueHeld, MemSeen, MemLook
<1>5. at = "fdmode" => inode # None /\ inode = ps[pid].fd[Current] /\ type = TypeOf[inode]
  BY <1>1 DEF TrueHeld, FdSeen, QuietHeld, Carried
<1> QED BY <1>1, <1>2, <1>3, <1>4, <1>5

\* The options, and the beginning of the loop.
LEMMA OptionQuiet ==
  ASSUME Typed, QuietHeld, NoValue \/ Option  PROVE QuietHeld'
<1>1. at = "args" /\ rows = {} /\ rows' = {} /\ at' \in {"args", "crash", "usage"}
  BY DEF QuietHeld, Carried, NoValue, Option, Options, Idle
<1> QED BY <1>1
        DEF QuietHeld, Carried, Sound, Complete, Passed, SoFar, OfOne, Places, Looking,
            MemLook, FdLook

LEMMA LoopQuiet ==
  ASSUME Typed, QuietHeld, OpenProc \/ NextProcess  PROVE QuietHeld'
<1>1. /\ UNCHANGED <<world, filter, rows>> /\ at \in {"args", "proc"}
      /\ at' \in {"proc", "noproc", "comm", "done"}
  BY DEF OpenProc, NextProcess, Look
<1>2. Carried'
  <2>1. at' = "done" => pids' = {}
    BY <1>1 DEF OpenProc, NextProcess
  <2>2. at' = "comm" => pid' \notin pids'
    BY <1>1 DEF OpenProc, NextProcess
  <2> QED BY <1>1, <2>1, <2>2 DEF Carried, Looking, Places, OfOne, MemLook, FdLook
<1>3. ASSUME NEW p \in Pid, Quiet(p)'  PROVE Sound(p)' /\ Complete(p)'
  <2>1. Quiet(p) /\ Sound(p) /\ Complete(p) /\ ps' = ps /\ filter' = filter /\ rows' = rows
    BY <1>1, <1>3 DEF QuietHeld, Quiet, Stays, world
  <2>2. Sound(p)'
    <3>1. \A r : InMaps(r)' = InMaps(r)
      BY DEF InMaps
    <3> QED BY <2>1, <3>1, ListingStays DEF Sound
  <2>3. Passed(p)' => Passed(p)
    <3>1. CASE OpenProc
      <4>1. p \in pids' \/ at' = "noproc"
        BY <3>1, <2>1 DEF OpenProc, Quiet, Stays
      <4> QED BY <4>1 DEF Passed, Looking, Places
    <3>2. CASE NextProcess
      <4>1. at = "proc" /\ (p \in pids => p \in pids' \/ (p = pid' /\ at' = "comm"))
        BY <3>2 DEF NextProcess, Look
      <4> QED BY <1>1, <4>1 DEF Passed, Looking, Places
    <3> QED BY <3>1, <3>2
  <2>4. Complete(p)'
    BY <1>1, <2>1, <2>3, ThereStays
       DEF Complete, SoFar, OfOne, Places, MemLook, FdLook
  <2> QED BY <2>2, <2>4
<1> QED BY <1>2, <1>3 DEF QuietHeld

\* A change of another process; one of its own makes a process no longer quiet, unless it
\* is no change.
LEMMA ChangeQuiet ==
  ASSUME Typed, TrueHeld, QuietHeld, Change  PROVE QuietHeld'
<1>1. PICK q \in Pid, new \in Process \cup {Gone} :
        ps' = [ps EXCEPT ![q] = new] /\ seen' = [seen EXCEPT ![q] = @ \cup {new}]
  BY DEF Change
<1>2. UNCHANGED <<memVars, fdVars, scanVars, at, rows>> /\ pid \in Pid
  BY DEF Change, Typed, TypeOK
<1>3. ASSUME NEW p \in Pid, Quiet(p)'  PROVE Quiet(p) /\ ps'[p] = ps[p]
  <2>1. ps[p] \in seen[p]
    BY DEF TrueHeld, SeenNow
  <2>2. CASE p = q
    <3>1. ps'[p] = new /\ seen'[p] = seen[p] \cup {new}
      BY <1>1, <2>2 DEF Typed, TypeOK
    <3> QED BY <1>3, <2>1, <3>1 DEF Quiet, Stays
  <2>3. CASE p # q
    <3>1. ps'[p] = ps[p] /\ seen'[p] = seen[p]
      BY <1>1, <2>3 DEF Typed, TypeOK
    <3> QED BY <1>3, <3>1 DEF Quiet, Stays
  <2> QED BY <2>2, <2>3
<1>4. Carried'
  <2>1. owner \in seen[pid] => owner \in seen'[pid]
    BY <1>1, <1>2 DEF Typed, TypeOK
  <2>2. Quiet(pid)' => Quiet(pid) /\ ps'[pid] = ps[pid]
    <3>1. pid' = pid
      BY <1>2 DEF scanVars
    <3> QED BY <1>2, <1>3, <3>1
  <2> QED BY <1>2, <2>1, <2>2 DEF QuietHeld, Carried, memVars, fdVars, scanVars
<1>5. ASSUME NEW p \in Pid, Quiet(p)'  PROVE Sound(p)' /\ Complete(p)'
  <2>1. /\ ps'[p] = ps[p] /\ Sound(p) /\ Complete(p)
        /\ UNCHANGED <<rows, filter, at, pids, pid, lines, node, descs>>
    BY <1>2, <1>3, <1>5 DEF QuietHeld, memVars, fdVars, scanVars
  <2>2. \A r : InMaps(r)' = InMaps(r)
    BY DEF InMaps
  <2>3. Listing(p)' = Listing(p) /\ ListingMaps(p)' = ListingMaps(p)
    BY <2>1, ListingStays
  <2>4. Sound(p)'
    BY <2>1, <2>2, <2>3 DEF Sound
  <2>5. \A f : LinkDue(p, f)' = LinkDue(p, f) /\ LinkRow(p, f)' = LinkRow(p, f)
    BY <2>1 DEF LinkDue, LinkRow, LinkType, RowOf
  <2>6. \A d : FdDue(p, d)' = FdDue(p, d) /\ FdRow(p, d)' = FdRow(p, d)
    BY <2>1 DEF FdDue, FdRow, RowOf
  <2>7. \A n : MapRow(p, n)' = MapRow(p, n)
    BY <2>1, <2>2 DEF MapRow
  <2>8. (Whole(p) => Whole(p)') /\ (SoFar(p) => SoFar(p)')
    <3>1. \A F : LinksThere(p, F) => LinksThere(p, F)'
      BY <2>1, <2>5 DEF LinksThere
    <3>2. \A D : FdsThere(p, D) => FdsThere(p, D)'
      BY <2>1, <2>6 DEF FdsThere
    <3>3. MapsThere(p) => MapsThere(p)'
      BY <2>3, <2>7 DEF MapsThere
    <3>4. NoFdRow(p)' = NoFdRow(p)
      BY <2>1 DEF NoFdRow, RowOf
    <3>5. Whole(p) => Whole(p)'
      BY <2>1, <3>1, <3>2, <3>3, <3>4 DEF Whole
    <3>6. SoFar(p) => SoFar(p)'
      BY <2>1, <2>3, <2>7, <3>1, <3>2, <3>3 DEF SoFar
    <3> QED BY <3>5, <3>6
  <2>9. Passed(p)' = Passed(p)
    BY <2>1 DEF Passed
  <2> QED BY <2>1, <2>4, <2>8, <2>9 DEF Complete
<1> QED BY <1>4, <1>5 DEF QuietHeld

----------------------------------------------------------------------------
(* The looks at one process.                                               *)

\* A look that prints nothing.
LEMMA PlainLook ==
  ASSUME Typed, QuietHeld, Looks, Carried', rows' = rows,
         \A p \in Pid : p = pid /\ Quiet(p) => Complete(p)'
  PROVE  QuietHeld'
<1>1. ASSUME NEW p \in Pid, p = pid, Quiet(p)  PROVE Sound(p)'
  BY <1>1, SoundSkip DEF QuietHeld
<1> QED BY <1>1, LookHeld

LEMMA FailedLook ==
  ASSUME Typed, QuietHeld, UNCHANGED world, at \in Looking, Go("failed"), Skip  PROVE QuietHeld'
<1>1. Looks /\ rows' = rows /\ at' = "failed"
  BY DEF Looks, Go, Skip, scanVars
<1>2. Carried'
  BY <1>1 DEF Carried, Looking, OfOne, Places, MemLook, FdLook
<1>3. \A p \in Pid : Complete(p)'
  BY <1>1 DEF Complete, Passed, SoFar, Looking, OfOne, Places, MemLook, FdLook
<1> QED BY <1>1, <1>2, <1>3, PlainLook

LEMMA CommQuiet ==
  ASSUME Typed, TrueHeld, QuietHeld, CheckCmd \/ FindUsr  PROVE QuietHeld'
<1>w. UNCHANGED world /\ at \in {"comm", "commline", "user"} /\ Skip /\ at \in Looking
  BY DEF CheckCmd, FindUsr, Look, Looking, Places
<1>f. Go("failed") => QuietHeld'
  BY <1>w, FailedLook
<1>h. pid \notin pids /\ (at \in OfOne => cmd \in filter.cmd)
  BY <1>w DEF QuietHeld, Carried
<1>1. CASE at = "comm" /\ ~There /\ Go("proc")
  <2>1. Looks /\ rows' = rows /\ at' = "proc" /\ \A p : p = pid => ~Quiet(p)
    BY <1>w, <1>1 DEF Looks, Go, Skip, scanVars, Quiet, Stays, There
  <2>2. Carried'
    BY <2>1 DEF Carried, Looking, OfOne, Places, MemLook, FdLook
  <2> QED BY <2>1, <2>2, PlainLook
<1>2. CASE /\ at = "comm" /\ There /\ owner' = ps[pid] /\ at' = "commline"
           /\ UNCHANGED <<lines, node, fd, fdVars, scanVars>>
  <2>1. Looks /\ rows' = rows
    BY <1>w, <1>2 DEF Looks, Skip, scanVars, Looking, Places
  <2>2. owner' \in seen'[pid']
    BY <1>w, <1>2 DEF TrueHeld, SeenNow, Typed, TypeOK, world, scanVars
  <2>3. Carried'
    BY <1>2, <1>h, <2>1, <2>2 DEF Carried, Looks, Looking, OfOne, Places, MemLook, FdLook
  <2>4. \A p \in Pid : p = pid => Complete(p)'
    BY <1>2, <2>1 DEF Looks, Complete, Passed, SoFar, Looking, OfOne, Places, MemLook, FdLook
  <2> QED BY <2>1, <2>3, <2>4, PlainLook
<1>3. CASE /\ at = "commline" /\ There /\ cmd' = ps[pid].cmd
           /\ at' = IF cmd' \in filter.cmd THEN "user" ELSE "proc"
           /\ UNCHANGED <<memVars, fdVars, args, filter, pids, pid, leaked>>
  <2>1. Looks /\ rows' = rows
    BY <1>w, <1>3 DEF Looks, Skip, Looking, Places
  <2>2. Carried'
    BY <1>3, <1>h, <2>1 DEF Carried, Looks, Looking, OfOne, Places, MemLook, FdLook
  <2>3. ASSUME NEW p \in Pid, p = pid  PROVE Complete(p)'
    <3>1. CASE ps[p].cmd \notin filter.cmd
      BY <1>3, <2>1, <3>1 DEF Complete, Looks, world
    <3>2. CASE ps[p].cmd \in filter.cmd
      <4>1. at' = "user" /\ pid' = p /\ LinksDone(at)' = {}
        BY <1>3, <2>3, <3>2 DEF LinksDone
      <4> QED BY <4>1 DEF Complete, Passed, SoFar, LinksThere, Looking, Places, MemLook, FdLook
    <3> QED BY <3>1, <3>2
  <2> QED BY <2>1, <2>2, <2>3, PlainLook
<1>4. CASE at = "user" /\ Go("cwd")
  <2>1. Looks /\ rows' = rows /\ at' = "cwd" /\ cmd' = cmd
    BY <1>w, <1>4 DEF Looks, Go, Skip, scanVars, Looking, Places
  <2>2. Carried'
    BY <1>w, <1>4, <1>h, <2>1 DEF Carried, Looks, Looking, OfOne, Places, MemLook, FdLook
  <2>3. ASSUME NEW p \in Pid, p = pid  PROVE Complete(p)'
    <3>1. LinksDone(at)' = {} /\ pid' = p
      BY <2>1, <2>3 DEF LinksDone, Looks
    <3> QED BY <2>1, <3>1
            DEF Complete, Passed, SoFar, LinksThere, Looking, OfOne, Places, MemLook, FdLook
  <2> QED BY <2>1, <2>2, <2>3, PlainLook
<1> QED BY <1>f, <1>1, <1>2, <1>3, <1>4 DEF CheckCmd, FindUsr, Look

\* The looks at the links.
LinkLook == {"cwd", "cwdstat", "root", "rootstat", "exe", "exestat"}

\* What a look at the link f does to the rows of a quiet process, when after it the links
\* in more are behind the listing as well.
LinkRows(p, f, more) ==
  /\ rows' = rows \/ (LinkDue(p, f) /\ rows' = rows \cup {LinkRow(p, f)})
  /\ ~filter.file /\ f \in more /\ LinkDue(p, f) => LinkRow(p, f) \in rows'

LEMMA LinkQuiet ==
  ASSUME Typed, TrueHeld, QuietHeld, UNCHANGED world, at \in LinkLook,
         NEW next \in LinkLook \cup {"maps"}, Go(next), NEW f \in Links,
         NEW more \in SUBSET {f}, LinksDone(next) = LinksDone(at) \cup more,
         rows \subseteq rows', \A r \in rows' : r \in rows \/ r.pid = pid,
         \A p \in Pid : p = pid /\ Quiet(p) => LinkRows(p, f, more)
  PROVE  QuietHeld'
<1>1. at \in Looking /\ at \in OfOne /\ at' = next /\ UNCHANGED <<filter, pids, pid, cmd>>
  BY DEF Go, scanVars, LinkLook, Looking, OfOne, Places
<1>2. Looks
  BY <1>1 DEF Looks, LinkLook, Looking, Places
<1>3. Carried'
  BY <1>1 DEF QuietHeld, Carried, LinkLook, MemLook, FdLook, Looking, OfOne, Places
<1> SUFFICES ASSUME NEW p \in Pid, p = pid, Quiet(p)  PROVE Sound(p)' /\ Complete(p)'
  BY <1>2, <1>3, LookHeld
<1>4. Sound(p) /\ Complete(p) /\ ps[p].cmd \in filter.cmd
  BY <1>1, QuietRead DEF QuietHeld
<1>5. LinkRows(p, f, more)
  OBVIOUS
<1>6. Sound(p)'
  <2>1. CASE rows' = rows
    BY <1>2, <1>4, <2>1, SoundSkip
  <2>2. CASE LinkDue(p, f) /\ rows' = rows \cup {LinkRow(p, f)}
    <3>1. LinkRow(p, f) \in Listing(p)
      BY <2>2, ListingIs
    <3>2. ~InMaps(LinkRow(p, f))
      BY <3>1, ListingNotMaps
    <3> QED BY <1>2, <1>4, <2>2, <3>1, <3>2, SoundStays
  <2> QED BY <1>5, <2>1, <2>2 DEF LinkRows
<1>7. Complete(p)'
  <2> SUFFICES ASSUME ~filter.file
               PROVE  LinksThere(p, LinksDone(next))'
    BY <1>1 DEF Complete, Passed, SoFar, LinkLook, Looking, Places, MemLook, FdLook, world
  <2>1. LinksThere(p, LinksDone(at))
    BY <1>1, <1>4 DEF Complete, SoFar
  <2>2. ps' = ps /\ filter' = filter
    BY <1>1 DEF world
  <2>3. \A g : LinkDue(p, g)' = LinkDue(p, g) /\ LinkRow(p, g)' = LinkRow(p, g)
    BY <2>2 DEF LinkDue, LinkRow, LinkType, RowOf
  <2>4. \A g \in LinksDone(at) \cup more : LinkDue(p, g) => LinkRow(p, g) \in rows'
    BY <1>5, <2>1 DEF LinksThere, LinkRows
  <2>5. \A g \in LinksDone(next) : LinkDue(p, g)' => LinkRow(p, g)' \in rows'
    BY <2>3, <2>4
  <2>6. LinksDone(next)' = LinksDone(next)
    BY DEF LinksDone
  <2> QED BY <2>5, <2>6 DEF LinksThere
<1> QED BY <1>6, <1>7

\* What a print does to the rows.
LEMMA PrintGrows ==
  ASSUME NEW f, NEW t, NEW n, PrintRow(f, t, n) \/ PrintIf(f, t, n) \/ Skip
  PROVE  rows \subseteq rows' /\ \A r \in rows' : r \in rows \/ r.pid = pid
BY DEF PrintRow, PrintIf, Skip

LEMMA FollowQuiet ==
  ASSUME Typed, TrueHeld, QuietHeld, UNCHANGED world, at \in LinkLook, NEW f \in Links,
         NEW stat \in LinkLook, NEW next \in LinkLook \cup {"maps"},
         LinksDone(stat) = LinksDone(at), LinksDone(next) = LinksDone(at) \cup {f},
         FollowLink(f, stat, next)
  PROVE  QuietHeld'
<1>0. at \in OfOne
  BY DEF LinkLook, OfOne, Places
<1>1. CASE There /\ ~ps[pid].ours /\ PrintRow(Slot(f), "unknown", None) /\ Go(next)
  <2>1. ASSUME NEW p \in Pid, p = pid, Quiet(p)  PROVE LinkRows(p, f, {f})
    <3>1. LinkDue(p, f) /\ LinkRow(p, f) = RowOf(p, Slot(f), "unknown", None) /\ cmd = ps[p].cmd
      BY <1>0, <1>1, <2>1, QuietRead DEF LinkDue, LinkRow
    <3>2. rows' = rows \cup {LinkRow(p, f)}
      BY <1>1, <2>1, <3>1 DEF PrintRow, RowOf
    <3> QED BY <3>1, <3>2 DEF LinkRows
  <2>2. rows \subseteq rows' /\ \A r \in rows' : r \in rows \/ r.pid = pid
    BY <1>1, PrintGrows
  <2> QED BY <1>1, <2>1, <2>2, LinkQuiet
<1>2. CASE (There => ps[pid].ours /\ ps[pid][f] = None) /\ Skip /\ Go(next)
  <2>1. ASSUME NEW p \in Pid, p = pid, Quiet(p)  PROVE LinkRows(p, f, {f})
    <3>1. ~LinkDue(p, f)
      BY <1>2, <2>1, QuietRead DEF LinkDue
    <3> QED BY <1>2, <3>1 DEF LinkRows, Skip
  <2> QED BY <1>2, <2>1, LinkQuiet DEF Skip
<1>3. CASE Skip /\ Go(stat)
  <2>1. \A p \in Pid : p = pid /\ Quiet(p) => LinkRows(p, f, {})
    BY <1>3 DEF LinkRows, Skip
  <2> QED BY <1>3, <2>1, LinkQuiet DEF Skip
<1> QED BY <1>1, <1>2, <1>3 DEF FollowLink

LEMMA StatQuiet ==
  ASSUME Typed, TrueHeld, QuietHeld, UNCHANGED world, at \in LinkLook, NEW f \in Links,
         NEW types, \A n \in Inode : types[n] = (IF f = "exe" THEN TypeOf[n] ELSE "DIR"),
         NEW next \in LinkLook \cup {"maps"},
         LinksDone(next) = LinksDone(at) \cup {f}, StatLink(f, types, next)
  PROVE  QuietHeld'
<1>0. at \in OfOne /\ at \in Looking
  BY DEF LinkLook, OfOne, Looking, Places
<1>1. CASE Ours /\ ps[pid][f] # None
  <2> DEFINE n == ps[pid][f]
  <2>1. PrintIf(Slot(f), types[n], n) /\ Go(next)
    BY <1>1 DEF StatLink
  <2>2. ASSUME NEW p \in Pid, p = pid, Quiet(p)  PROVE LinkRows(p, f, {f})
    <3>1. ps[p].ours /\ n \in Inode /\ n # None
      BY <1>1, <2>2, LinkInode DEF Ours
    <3>2. types[n] = LinkType(p, f) /\ cmd = ps[p].cmd
      BY <1>0, <2>2, <3>1, QuietRead DEF LinkType
    <3>3. LinkRow(p, f) = [pid |-> pid, cmd |-> cmd, fd |-> Slot(f), type |-> types[n], node |-> n]
      BY <2>2, <3>1, <3>2 DEF LinkRow, RowOf
    <3>4. LinkDue(p, f) <=> types[n] \in filter.type
      BY <2>2, <3>1, <3>2 DEF LinkDue
    <3> QED BY <2>1, <3>3, <3>4 DEF LinkRows, PrintIf, PrintRow, Skip
  <2>3. rows \subseteq rows' /\ \A r \in rows' : r \in rows \/ r.pid = pid
    BY <2>1, PrintGrows
  <2> QED BY <2>1, <2>2, <2>3, LinkQuiet
<1>2. CASE ~(Ours /\ ps[pid][f] # None)
  BY <1>0, <1>2, FailedLook DEF StatLink, error
<1> QED BY <1>1, <1>2

LEMMA LinksQuiet ==
  ASSUME Typed, TrueHeld, QuietHeld, FindCwdRoot \/ FindExe  PROVE QuietHeld'
<1>w. UNCHANGED world /\ at \in LinkLook
  BY DEF FindCwdRoot, FindExe, Look, LinkLook
<1> DEFINE DIR == [n \in Inode |-> "DIR"]
<1>1. CASE at = "cwd" /\ FollowLink("cwd", "cwdstat", "root")
  BY <1>w, <1>1, FollowQuiet DEF LinksDone, LinkLook, Links
<1>2. CASE at = "cwdstat" /\ StatLink("cwd", DIR, "root")
  BY <1>w, <1>2, StatQuiet DEF LinksDone, LinkLook, Links
<1>3. CASE at = "root" /\ FollowLink("root", "rootstat", "exe")
  BY <1>w, <1>3, FollowQuiet DEF LinksDone, LinkLook, Links
<1>4. CASE at = "rootstat" /\ StatLink("root", DIR, "exe")
  BY <1>w, <1>4, StatQuiet DEF LinksDone, LinkLook, Links
<1>5. CASE at = "exe" /\ FollowLink("exe", "exestat", "maps")
  BY <1>w, <1>5, FollowQuiet DEF LinksDone, LinkLook, Links
<1>6. CASE at = "exestat" /\ StatLink("exe", TypeOf, "maps")
  BY <1>w, <1>6, StatQuiet DEF LinksDone, LinkLook, Links
<1> QED BY <1>1, <1>2, <1>3, <1>4, <1>5, <1>6 DEF FindCwdRoot, FindExe, Look

\* The looks of FindMem.
LEMMA MapsQuiet ==
  ASSUME Typed, TrueHeld, QuietHeld, OpenMaps \/ StatMaps \/ MapsEnd  PROVE QuietHeld'
<1>w. /\ UNCHANGED world /\ Skip /\ at \in {"maps", "mapsstat", "mapsline"}
      /\ at \in Looking /\ at \in OfOne
  BY DEF OpenMaps, StatMaps, MapsEnd, Look, Looking, OfOne, Places
<1>h. pid \notin pids /\ cmd \in filter.cmd
  BY <1>w DEF QuietHeld, Carried
<1>l. ASSUME NEW p \in Pid, p = pid, Quiet(p), ~filter.file, ps[p].cmd \in filter.cmd
      PROVE  LinksThere(p, Links)
  <2>1. LinksDone(at) = Links
    BY <1>w DEF LinksDone
  <2> QED BY <1>w, <1>l, <2>1 DEF QuietHeld, Complete, SoFar
<1>f. Go("failed") => QuietHeld'
  BY <1>w, FailedLook
<1>1. CASE at = "maps" /\ Ours /\ at' = "mapsstat"
           /\ owner' = ps[pid] /\ lines' = ps[pid].maps /\ node' = None /\ fd' = "mem"
           /\ UNCHANGED <<fdVars, scanVars>>
  <2>1. Looks /\ rows' = rows /\ cmd' = cmd
    BY <1>w, <1>1 DEF Looks, Skip, scanVars, Looking, Places
  <2>2. Carried'
    BY <1>1, <1>h, <2>1 DEF Carried, Looks, Looking, OfOne, Places, MemLook, FdLook, Ours, world
  <2>3. ASSUME NEW p \in Pid, p = pid, Quiet(p)  PROVE Complete(p)'
    <3> SUFFICES ASSUME ~filter.file, ps[p].cmd \in filter.cmd
                 PROVE  /\ LinksThere(p, Links)'
                        /\ \A n \in ListingMaps(p)' : \E k \in 1..Len(ps[p].maps) : ps[p].maps[k].node = n
      <4>1. LinksDone(at)' = Links
        BY <1>1 DEF LinksDone
      <4> QED BY <1>1, <2>1, <2>3, <4>1
              DEF Complete, Passed, SoFar, Looks, Looking, OfOne, Places, MemLook, FdLook, world
    <3>1. LinksThere(p, Links)'
      BY <1>l, <2>1, <2>3, ThereStays DEF Looks, world
    <3>2. \A n \in ListingMaps(p) : \E k \in 1..Len(ps[p].maps) : ps[p].maps[k].node = n
      <4>1. DOMAIN ps[p].maps = 1..Len(ps[p].maps)
        BY <2>3, QuietProcess, Fields, LenProperties
      <4> QED BY <4>1 DEF ListingMaps, Mapped
    <3>3. ListingMaps(p)' = ListingMaps(p)
      BY <2>1, ListingStays DEF Looks, world
    <3> QED BY <3>1, <3>2, <3>3
  <2> QED BY <2>1, <2>2, <2>3, PlainLook
<1>2. CASE at = "mapsstat" /\ Go("mapsline")
  <2>1. Looks /\ rows' = rows /\ at' = "mapsline" /\ UNCHANGED <<lines, node, cmd>>
    BY <1>w, <1>2 DEF Looks, Go, Skip, memVars, scanVars, Looking, Places
  <2>2. Carried'
    <3>1. Quiet(pid)' => Quiet(pid) /\ ps' = ps /\ pid' = pid
      BY <2>1 DEF Looks, Quiet, Stays, world
    <3>2. Quiet(pid) => ps[pid].ours
      BY <1>2 DEF QuietHeld, Carried, MemLook
    <3> QED BY <1>h, <2>1, <3>1, <3>2 DEF Carried, Looks, Looking, OfOne, Places, MemLook, FdLook
  <2>3. ASSUME NEW p \in Pid, p = pid, Quiet(p)  PROVE Complete(p)'
    <3> SUFFICES ASSUME ~filter.file, ps[p].cmd \in filter.cmd
                 PROVE  /\ LinksThere(p, Links)'
                        /\ \A n \in ListingMaps(p)' :
                             MapRow(p, n)' \/ \E k \in 1..Len(lines) : lines[k].node = n
                        /\ node # None /\ "REG" \in filter.type => MapRow(p, node)'
      <4>1. LinksDone(at)' = Links
        BY <2>1 DEF LinksDone
      <4>2. node' = node /\ MapRow(p, node)' = MapRow(p, node)
        BY <2>1 DEF MapRow, InMaps
      <4>3. MapRow(p, node) <=> \E r \in rows : r.pid = p /\ InMaps(r) /\ r.node = node
        BY DEF MapRow
      <4> QED BY <2>1, <2>3, <4>1, <4>2
              DEF Complete, Passed, SoFar, Looks, Looking, OfOne, Places, MemLook, FdLook, world
    <3>1. LinksThere(p, Links)'
      BY <1>l, <2>1, <2>3, ThereStays DEF Looks, world
    <3>2. /\ \A n \in ListingMaps(p) : MapRow(p, n) \/ \E k \in 1..Len(lines) : lines[k].node = n
          /\ node # None /\ "REG" \in filter.type => MapRow(p, node)
      BY <1>2, <2>3 DEF QuietHeld, Complete, SoFar, MemLook
    <3>3. ListingMaps(p)' = ListingMaps(p)
      BY <2>1, ListingStays DEF Looks, world
    <3>4. \A n : MapRow(p, n) => MapRow(p, n)'
      BY <2>1 DEF MapRow, InMaps
    <3>5. MapRow(p, node) => MapRow(p, node)'
      BY <2>1 DEF MapRow, InMaps
    <3> QED BY <3>1, <3>2, <3>3, <3>4, <3>5
  <2> QED BY <2>1, <2>2, <2>3, PlainLook
<1>3. CASE Go("fd") /\ \A p : p = pid /\ Quiet(p) /\ ~filter.file /\ ps[p].cmd \in filter.cmd
                              => MapsThere(p)
  <2>1. Looks /\ rows' = rows /\ at' = "fd" /\ cmd' = cmd
    BY <1>w, <1>3 DEF Looks, Go, Skip, scanVars, Looking, Places
  <2>2. Carried'
    BY <1>h, <2>1 DEF Carried, Looks, Looking, OfOne, Places, MemLook, FdLook
  <2>3. ASSUME NEW p \in Pid, p = pid, Quiet(p)  PROVE Complete(p)'
    <3> SUFFICES ASSUME ~filter.file, ps[p].cmd \in filter.cmd
                 PROVE  LinksThere(p, Links)' /\ MapsThere(p)'
      <4>1. LinksDone(at)' = Links
        BY <2>1 DEF LinksDone
      <4> QED BY <2>1, <2>3, <4>1
              DEF Complete, Passed, SoFar, Looks, Looking, OfOne, Places, MemLook, FdLook, world
    <3> QED BY <1>l, <1>3, <2>1, <2>3, ThereStays DEF Looks, world
  <2> QED BY <2>1, <2>2, <2>3, PlainLook
<1>4. CASE at = "maps" /\ ~Ours /\ Go("fd")
  <2>1. ASSUME NEW p, p = pid, Quiet(p)  PROVE MapsThere(p)
    <3>1. ~ps[p].ours
      BY <1>4, <2>1, QuietRead DEF Ours
    <3> QED BY <3>1 DEF MapsThere, ListingMaps
  <2> QED BY <1>3, <1>4, <2>1
<1>5. CASE MapsEnd
  <2>1. ASSUME NEW p, p = pid, Quiet(p), ~filter.file, ps[p].cmd \in filter.cmd
        PROVE  MapsThere(p)
    <3>1. at \in MemLook /\ lines = <<>> /\ p \in Pid
      BY <1>5, <2>1, QuietRead DEF MapsEnd, Look, MemLook
    <3>2. \A n \in ListingMaps(p) : MapRow(p, n) \/ \E k \in 1..Len(lines) : lines[k].node = n
      BY <2>1, <3>1 DEF QuietHeld, Complete, SoFar
    <3>3. 1..Len(lines) = {}
      BY <3>1
    <3> QED BY <3>2, <3>3 DEF MapsThere
  <2> QED BY <1>3, <1>5, <2>1 DEF MapsEnd
<1> QED BY <1>f, <1>1, <1>2, <1>4, <1>5 DEF OpenMaps, StatMaps, Look

\* A line of the maps file: its row is printed, or it has no inode, or that of the line
\* before, whose row is there.
LEMMA LineQuiet ==
  ASSUME Typed, TrueHeld, QuietHeld, MapsLine  PROVE QuietHeld'
<1> DEFINE line == Head(lines)
<1>1. /\ at = "mapsline" /\ at' = at /\ UNCHANGED <<world, owner, fdVars, scanVars>>
      /\ lines' = Tail(lines) /\ lines # <<>> /\ lines \in Seq(Line)
  BY DEF MapsLine, Look, Typed, TypeOK
<1>2. at \in Looking /\ at \in OfOne /\ at \in MemLook /\ fd' \in {"mem", "del"}
  BY <1>1 DEF Looking, OfOne, Places, MemLook, MapsLine, Typed, TypeOK
<1>3. rows \subseteq rows' /\ \A r \in rows' : r \in rows \/ r.pid = pid
  BY DEF MapsLine, PrintRow, PrintIf, Skip
<1>4. Looks
  BY <1>1, <1>2, <1>3 DEF Looks, scanVars
<1>5. Carried'
  BY <1>1 DEF QuietHeld, Carried, Quiet, Stays, world, scanVars, Looking, OfOne, Places, MemLook, FdLook
<1> SUFFICES ASSUME NEW p \in Pid, p = pid, Quiet(p)  PROVE Sound(p)' /\ Complete(p)'
  BY <1>4, <1>5, LookHeld
<1>6. /\ Sound(p) /\ Complete(p) /\ ps[p].cmd \in filter.cmd /\ cmd = ps[p].cmd /\ ps[p].ours
      /\ \A k \in 1..Len(lines) : lines[k].node = None \/ Mapped(ps[p], lines[k].node)
      /\ ps[p] \in Process
  BY <1>2, QuietRead DEF QuietHeld, Carried
<1>7. /\ Len(lines) \in Nat /\ Len(lines) # 0 /\ line = lines[1] /\ line \in Line
      /\ Len(Tail(lines)) = Len(lines) - 1
      /\ \A k \in 1..Len(Tail(lines)) : Tail(lines)[k] = lines[k + 1]
  BY <1>1, HeadTailProperties, LenProperties, EmptySeq
<1>8. ps' = ps /\ filter' = filter /\ pids' = pids /\ pid' = pid
  BY <1>1 DEF world, scanVars
<1>9. ListingMaps(p)' = ListingMaps(p)
  BY <1>8, ListingStays
<1>10. CASE line.node \in {None, node}
  <2>1. rows' = rows /\ node' = node
    BY <1>10 DEF MapsLine, Skip
  <2>2. Sound(p)'
    BY <1>4, <1>6, <2>1, SoundSkip
  <2>3. Complete(p)'
    <3> SUFFICES ASSUME ~filter.file
                 PROVE  SoFar(p)'
      BY <1>1, <1>2, <1>8 DEF Complete, Passed
    <3>1. SoFar(p)
      BY <1>6, <1>8 DEF Complete
    <3>2. LinksDone(at)' = Links /\ LinksThere(p, Links)'
      <4>1. LinksDone(at) = Links /\ LinksDone(at)' = Links
        BY <1>1 DEF LinksDone
      <4>2. LinksThere(p, Links)
        BY <1>2, <3>1, <4>1 DEF SoFar
      <4>3. LinksThere(p, Links)'
        BY <1>3, <1>8, <4>2, ThereStays
      <4> QED BY <4>1, <4>3
    <3>3. node' # None /\ "REG" \in filter'.type => MapRow(p, node)'
      BY <1>2, <1>8, <2>1, <3>1 DEF SoFar, MapRow, InMaps
    <3>4. ASSUME NEW n \in ListingMaps(p)'
          PROVE  MapRow(p, n)' \/ \E k \in 1..Len(lines') : lines'[k].node = n
      <4>1. MapRow(p, n) \/ \E k \in 1..Len(lines) : lines[k].node = n
        BY <1>2, <1>9, <3>1 DEF SoFar
      <4>2. n # None /\ "REG" \in filter.type
        BY <1>9, LsofAssumption DEF ListingMaps
      <4>3. CASE MapRow(p, n)
        BY <1>3, <1>8, <4>3, ThereStays
      <4>4. ASSUME NEW k \in 1..Len(lines), lines[k].node = n, k = 1  PROVE MapRow(p, n)'
        <5>1. n = node
          BY <1>7, <1>10, <4>2, <4>4
        <5>2. MapRow(p, n)
          BY <1>2, <3>1, <4>2, <5>1 DEF SoFar
        <5> QED BY <1>3, <1>8, <5>2, ThereStays
      <4>5. ASSUME NEW k \in 1..Len(lines), lines[k].node = n, k # 1
            PROVE  \E j \in 1..Len(lines') : lines'[j].node = n
        <5>1. k - 1 \in 1..Len(Tail(lines)) /\ (k - 1) + 1 = k
          BY <1>7, <4>5
        <5>2. Tail(lines)[k - 1] = lines[k]
          BY <1>7, <5>1
        <5> QED BY <1>1, <4>5, <5>1, <5>2
      <4> QED BY <4>1, <4>3, <4>4, <4>5
    <3> QED BY <1>1, <3>2, <3>3, <3>4 DEF SoFar, MemLook, FdLook
  <2> QED BY <2>2, <2>3
<1>11. CASE line.node \notin {None, node}
  <2> DEFINE r == [pid |-> pid, cmd |-> cmd, fd |-> Slot(fd'), type |-> "REG", node |-> line.node]
  <2>1. /\ node' = line.node /\ line.node \in Inode
        /\ \/ "REG" \in filter.type /\ rows' = rows \cup {r}
           \/ ("REG" \notin filter.type \/ filter.file) /\ rows' = rows
    BY <1>7, <1>11 DEF MapsLine, PrintIf, PrintRow, Skip, Line
  <2>2. r.pid = p /\ InMaps(r) /\ r.node = line.node
    BY <1>2 DEF InMaps, Slot
  <2>3. Mapped(ps[p], line.node)
    <3>1. 1 \in 1..Len(lines)
      BY <1>7
    <3> QED BY <1>6, <1>7, <1>11, <3>1
  <2>4. "REG" \in filter.type => r.node \in ListingMaps(p)
    BY <1>6, <2>1, <2>2, <2>3 DEF ListingMaps
  <2> HIDE DEF r
  <2>5. Sound(p)'
    <3>1. CASE rows' = rows
      BY <1>4, <1>6, <3>1, SoundSkip
    <3>2. CASE "REG" \in filter.type /\ rows' = rows \cup {r}
      BY <1>4, <1>6, <2>2, <2>4, <3>2, SoundStays
    <3> QED BY <2>1, <3>1, <3>2
  <2>6. Complete(p)'
    <3> SUFFICES ASSUME ~filter.file
                 PROVE  SoFar(p)'
      BY <1>1, <1>2, <1>8 DEF Complete, Passed
    <3>1. SoFar(p)
      BY <1>6, <1>8 DEF Complete
    <3>2. LinksDone(at)' = Links /\ LinksThere(p, Links)'
      <4>1. LinksDone(at) = Links /\ LinksDone(at)' = Links
        BY <1>1 DEF LinksDone
      <4>2. LinksThere(p, Links)
        BY <1>2, <3>1, <4>1 DEF SoFar
      <4>3. LinksThere(p, Links)'
        BY <1>3, <1>8, <4>2, ThereStays
      <4> QED BY <4>1, <4>3
    <3>3. "REG" \in filter.type => \E q \in rows' : q.pid = p /\ InMaps(q) /\ q.node = line.node
      BY <2>1, <2>2
    <3>4. \A n : "REG" \in filter.type /\ n = line.node => MapRow(p, n)'
      BY <3>3 DEF MapRow, InMaps
    <3>5. node' # None /\ "REG" \in filter'.type => MapRow(p, node)'
      BY <1>8, <2>1, <3>3 DEF MapRow, InMaps
    <3>6. ASSUME NEW n \in ListingMaps(p)'
          PROVE  MapRow(p, n)' \/ \E k \in 1..Len(lines') : lines'[k].node = n
      <4>1. MapRow(p, n) \/ \E k \in 1..Len(lines) : lines[k].node = n
        BY <1>2, <1>9, <3>1 DEF SoFar
      <4>2. "REG" \in filter.type
        BY <1>9 DEF ListingMaps
      <4>3. CASE MapRow(p, n)
        BY <1>3, <1>8, <4>3, ThereStays
      <4>4. ASSUME NEW k \in 1..Len(lines), lines[k].node = n, k = 1  PROVE MapRow(p, n)'
        BY <1>7, <3>4, <4>2, <4>4
      <4>5. ASSUME NEW k \in 1..Len(lines), lines[k].node = n, k # 1
            PROVE  \E j \in 1..Len(lines') : lines'[j].node = n
        <5>1. k - 1 \in 1..Len(Tail(lines)) /\ (k - 1) + 1 = k
          BY <1>7, <4>5
        <5>2. Tail(lines)[k - 1] = lines[k]
          BY <1>7, <5>1
        <5> QED BY <1>1, <4>5, <5>1, <5>2
      <4> QED BY <4>1, <4>3, <4>4, <4>5
    <3> QED BY <1>1, <3>2, <3>5, <3>6 DEF SoFar, MemLook, FdLook
  <2> QED BY <2>5, <2>6
<1> QED BY <1>10, <1>11

\* The looks of FindFd.  What stays as it was until then: the links and the maps.
LEMMA FdSoFar ==
  ASSUME QuietHeld, at \in {"fd", "fdlist"} \cup FdLook,
         NEW p \in Pid, p = pid, Quiet(p), ~filter.file, ps[p].cmd \in filter.cmd
  PROVE  /\ LinksThere(p, Links) /\ MapsThere(p)
         /\ at \in FdLook => FdsThere(p, Desc \ descs)
<1>1. at \in OfOne /\ LinksDone(at) = Links
  BY DEF FdLook, OfOne, Places, LinksDone
<1> QED BY <1>1 DEF QuietHeld, Complete, SoFar

\* A look of FindFd that prints nothing and goes on with the same process.
LEMMA FdPlain ==
  ASSUME Typed, TrueHeld, QuietHeld, UNCHANGED <<world, filter, pids, pid, cmd>>, Skip,
         at \in {"fd", "fdlist"} \cup FdLook, at' \in {"fdlist"} \cup FdLook,
         at' = "fdlist" => owner' \in seen[pid],
         at' = "fdmode" => type' = TypeOf[inode'],
         Quiet(pid) => ps[pid].ours,
         Quiet(pid) /\ at' \in FdLook => \A d \in descs' : ps[pid].fd[d] # None,
         \A p \in Pid : p = pid /\ Quiet(p) /\ at' \in FdLook /\ FdsThere(p, Desc \ descs)
                          => FdsThere(p, Desc \ descs'),
         at \notin FdLook /\ at' \in FdLook =>
           \A p \in Pid : p = pid /\ Quiet(p) => FdsThere(p, Desc \ descs')
  PROVE  QuietHeld'
<1>1. Looks /\ rows' = rows
  BY DEF Looks, Skip, FdLook, Looking, Places
<1>2. Carried'
  <2>1. at \in Looking /\ at \in OfOne /\ at' \in OfOne /\ at' \notin {"args", "done", "commline"}
        /\ at' \notin MemLook
    BY DEF FdLook, Looking, OfOne, Places, MemLook
  <2>2. pid \notin pids /\ cmd \in filter.cmd
    BY <2>1 DEF QuietHeld, Carried
  <2>3. Quiet(pid)' <=> Quiet(pid)
    BY DEF Quiet, Stays, world
  <2> QED BY <2>1, <2>2, <2>3 DEF Carried, world
<1>3. ASSUME NEW p \in Pid, p = pid, Quiet(p)  PROVE Complete(p)'
  <2> SUFFICES ASSUME ~filter.file, ps[p].cmd \in filter.cmd
               PROVE  /\ LinksThere(p, Links)' /\ MapsThere(p)'
                      /\ at' \in FdLook => FdsThere(p, Desc \ descs)'
    <3>1. LinksDone(at)' = Links /\ at' \in Looking /\ at' \notin MemLook
      BY DEF FdLook, LinksDone, Looking, Places, MemLook
    <3> QED BY <1>1, <1>3, <3>1 DEF Complete, Passed, SoFar, Looks, world
  <2>1. LinksThere(p, Links) /\ MapsThere(p) /\ (at \in FdLook => FdsThere(p, Desc \ descs))
    BY <1>3, FdSoFar
  <2>2. at' \in FdLook => FdsThere(p, Desc \ descs')
    BY <1>3, <2>1
  <2>3. ps' = ps /\ filter' = filter /\ rows' = rows
    BY <1>1 DEF world
  <2>4. (FdsThere(p, Desc \ descs'))  => FdsThere(p, Desc \ descs)'
    BY <2>3 DEF FdsThere, FdDue, FdRow, RowOf
  <2> QED BY <2>1, <2>2, <2>3, <2>4, ThereStays
<1> QED BY <1>1, <1>2, <1>3, PlainLook

\* The last look at a process.
LEMMA FdLast ==
  ASSUME Typed, QuietHeld, Looks, at' = "proc",
         \A p \in Pid : p = pid /\ Quiet(p) => Sound(p)',
         \A p \in Pid : p = pid /\ Quiet(p) /\ ~filter.file /\ ps[p].cmd \in filter.cmd => Whole(p)'
  PROVE  QuietHeld'
<1>1. Carried'
  BY DEF Carried, Looking, OfOne, Places, MemLook, FdLook
<1>2. ASSUME NEW p \in Pid, p = pid, Quiet(p)  PROVE Complete(p)'
  BY <1>2 DEF Complete, SoFar, Looks, world, OfOne, Places, MemLook, FdLook
<1> QED BY <1>1, <1>2, LookHeld

LEMMA FdDirQuiet ==
  ASSUME Typed, TrueHeld, QuietHeld, OpenDir \/ ReadDir \/ CloseDir  PROVE QuietHeld'
<1>w. UNCHANGED world /\ at \in {"fd", "fdlist", "fdlink"} /\ at \in Looking /\ at \in OfOne
  BY DEF OpenDir, ReadDir, CloseDir, Look, Looking, OfOne, Places
<1>f. error => QuietHeld'
  BY <1>w, FailedLook DEF error
<1>1. CASE /\ at = "fd" /\ There /\ ps[pid].ours /\ Skip /\ owner' = ps[pid] /\ at' = "fdlist"
           /\ UNCHANGED <<lines, node, fd, fdVars, scanVars>>
  <2>1. ps[pid] \in seen[pid]
    BY DEF TrueHeld, SeenNow, Typed, TypeOK
  <2> QED BY <1>w, <1>1, <2>1, FdPlain DEF FdLook, scanVars
<1>2. CASE There /\ ~ps[pid].ours /\ PrintRow(Slot("NOFD"), "", None) /\ Go("proc") /\ at = "fd"
  <2> DEFINE r == [pid |-> pid, cmd |-> cmd, fd |-> Slot("NOFD"), type |-> "", node |-> None]
  <2>1. rows' = rows \cup {r} /\ at' = "proc"
    BY <1>2 DEF PrintRow, Go
  <2>2. Looks
    <3>1. rows \subseteq rows' /\ \A q \in rows' : q \in rows \/ q.pid = pid
      BY <1>2, PrintGrows
    <3> QED BY <1>w, <1>2, <2>1, <3>1 DEF Looks, Go, scanVars
  <2>3. ASSUME NEW p \in Pid, p = pid, Quiet(p)  PROVE r = NoFdRow(p) /\ cmd \in filter.cmd
    BY <1>w, <2>3, QuietRead DEF NoFdRow, RowOf
  <2> HIDE DEF r
  <2>4. ASSUME NEW p \in Pid, p = pid, Quiet(p)  PROVE Sound(p)'
    <3>1. r \in Listing(p) /\ ~InMaps(r)
      BY <1>2, <2>3, <2>4, ListingIs, ListingNotMaps
    <3>2. Sound(p) /\ ps[p].cmd \in filter.cmd
      BY <1>w, <2>4, QuietRead DEF QuietHeld
    <3> QED BY <2>1, <2>2, <2>4, <3>1, <3>2, SoundStays
  <2>5. ASSUME NEW p \in Pid, p = pid, Quiet(p), ~filter.file, ps[p].cmd \in filter.cmd
        PROVE  Whole(p)'
    <3>1. LinksThere(p, Links) /\ MapsThere(p)
      BY <1>2, <2>5, FdSoFar
    <3>2. LinksThere(p, Links)' /\ MapsThere(p)'
      BY <2>1, <2>2, <3>1, ThereStays DEF Looks, world
    <3>3. FdsThere(p, Desc)'
      BY <1>2, <2>2, <2>5 DEF FdsThere, FdDue, Looks, world
    <3>4. NoFdRow(p)' \in rows'
      BY <2>1, <2>2, <2>3, <2>5 DEF NoFdRow, RowOf, Looks, world
    <3> QED BY <3>2, <3>3, <3>4 DEF Whole
  <2> QED BY <2>1, <2>2, <2>4, <2>5, FdLast
<1>3. CASE ReadDir
  <2>1. /\ at = "fdlist" /\ at' = "fdlink" /\ Skip
        /\ UNCHANGED <<memVars, type, inode, scanVars>>
    BY <1>3 DEF ReadDir, Look
  <2>2. Quiet(pid) => ps[pid].ours
    BY <2>1 DEF QuietHeld, Carried
  <2>3. Quiet(pid) => descs' = {d \in Desc : ps[pid].fd[d] # None}
    BY <1>3, <2>1, QuietRead DEF ReadDir
  <2>4. ASSUME NEW p \in Pid, p = pid, Quiet(p)  PROVE FdsThere(p, Desc \ descs')
    BY <2>3, <2>4 DEF FdsThere, FdDue
  <2> QED BY <1>w, <2>1, <2>2, <2>3, <2>4, FdPlain DEF FdLook, scanVars
<1>4. CASE CloseDir
  <2>1. at = "fdlink" /\ descs = {} /\ Skip /\ at' = "proc" /\ UNCHANGED <<filter, pids, pid>>
    BY <1>4 DEF CloseDir, Look
  <2>2. Looks /\ rows' = rows
    BY <1>w, <2>1 DEF Looks, Skip
  <2>3. ASSUME NEW p \in Pid, p = pid, Quiet(p)  PROVE Sound(p)'
    BY <2>2, <2>3, SoundSkip DEF QuietHeld
  <2>4. ASSUME NEW p \in Pid, p = pid, Quiet(p), ~filter.file, ps[p].cmd \in filter.cmd
        PROVE  Whole(p)'
    <3>1. LinksThere(p, Links) /\ MapsThere(p) /\ FdsThere(p, Desc \ descs)
      BY <2>1, <2>4, FdSoFar DEF FdLook
    <3>2. FdsThere(p, Desc)
      BY <2>1, <3>1 DEF FdsThere
    <3>3. ps[p].ours
      BY <2>1, <2>4 DEF QuietHeld, Carried, FdLook
    <3>4. Whole(p)
      BY <3>1, <3>2, <3>3 DEF Whole
    <3> QED BY <2>2, <3>4, ThereStays DEF Looks, world
  <2> QED BY <2>1, <2>2, <2>3, <2>4, FdLast
<1> QED BY <1>f, <1>1, <1>2, <1>3, <1>4 DEF OpenDir, Look

LEMMA FdOneQuiet ==
  ASSUME Typed, TrueHeld, QuietHeld, ReadLink \/ StatFd \/ Access  PROVE QuietHeld'
<1>w. UNCHANGED world /\ at \in FdLook /\ at \in Looking /\ at \in OfOne
  BY DEF ReadLink, StatFd, Access, Look, FdLook, Looking, OfOne, Places
<1>o. descs # {} /\ Current \in descs /\ descs \subseteq Desc
  <2>1. descs # {} /\ descs \subseteq Desc
    BY DEF ReadLink, StatFd, Access, Look, Typed, TypeOK, Chosen
  <2> QED BY <2>1, CurrentLeast
<1>q. Quiet(pid) => There /\ ps[pid].ours /\ Open /\ \A d \in descs : ps[pid].fd[d] # None
  <2>1. Quiet(pid) => There /\ ps[pid].ours /\ \A d \in descs : ps[pid].fd[d] # None
    BY <1>w, QuietRead DEF QuietHeld, Carried
  <2> QED BY <1>o, <2>1 DEF Open, Ours
<1>f. Go("failed") /\ Skip => QuietHeld'
  BY <1>w, FailedLook
<1>1. CASE Skip /\ Go("fdstat")
  BY <1>w, <1>1, <1>q, FdPlain DEF Go, FdLook, fdVars, scanVars
<1>2. CASE /\ at = "fdlink" /\ (There => ps[pid].ours) /\ ~Open /\ Skip
           /\ leaked' = leaked + 1 /\ at' = "proc"
           /\ UNCHANGED <<memVars, fdVars, args, filter, pids, pid, cmd>>
  <2>1. Looks
    BY <1>w, <1>2 DEF Looks, Skip
  <2>2. \A p \in Pid : p = pid => ~Quiet(p)
    BY <1>2, <1>q
  <2> QED BY <1>2, <2>1, <2>2, FdLast
<1>3. CASE /\ Open /\ type' = TypeOf[ps[pid].fd[Current]] /\ inode' = ps[pid].fd[Current]
           /\ Skip /\ at' = "fdmode" /\ UNCHANGED <<memVars, descs, scanVars>>
  BY <1>w, <1>3, <1>q, FdPlain DEF FdLook, scanVars
<1>4. CASE Access
  <2> DEFINE c == Current
             m == IF Open THEN "u" ELSE ""
             r == [pid |-> pid, cmd |-> cmd, fd |-> <<c, m>>, type |-> type, node |-> inode]
  <2>1. /\ at = "fdmode" /\ at' = "fdlink" /\ descs' = descs \ {c}
        /\ UNCHANGED <<memVars, type, inode, scanVars>>
        /\ \/ type \in filter.type /\ rows' = rows \cup {r}
           \/ (type \notin filter.type \/ filter.file) /\ rows' = rows
    BY <1>4 DEF Access, Look, PrintIf, PrintRow, Skip, Rest
  <2>2. Looks
    <3>1. r.pid = pid
      OBVIOUS
    <3> HIDE DEF r
    <3>2. rows \subseteq rows' /\ \A q \in rows' : q \in rows \/ q.pid = pid
      BY <2>1, <3>1
    <3> QED BY <1>w, <2>1, <3>2 DEF Looks, scanVars, Looking, Places
  <2>3. Carried'
    <3>1. pid \notin pids /\ cmd \in filter.cmd
      BY <1>w DEF QuietHeld, Carried
    <3>2. Quiet(pid)' <=> Quiet(pid)
      BY <2>2 DEF Quiet, Stays, Looks, world
    <3>3. descs' \subseteq descs
      BY <2>1
    <3> HIDE DEF r, c
    <3> QED BY <1>q, <2>1, <2>2, <3>1, <3>2, <3>3
            DEF Carried, Looks, world, scanVars, Looking, OfOne, Places, MemLook, FdLook
  <2>4. ASSUME NEW p \in Pid, p = pid, Quiet(p)
        PROVE  /\ c \in Desc /\ ps[p].fd[c] # None /\ ps[p].ours
               /\ r = FdRow(p, c) /\ (FdDue(p, c) <=> type \in filter.type)
               /\ ps[p].cmd \in filter.cmd
    <3>1. c \in Desc /\ ps[p].fd[c] # None /\ ps[p].ours /\ m = "u"
      BY <1>o, <1>q, <2>4
    <3>2. /\ cmd = ps[p].cmd /\ cmd \in filter.cmd
          /\ inode = ps[p].fd[c] /\ type = TypeOf[ps[p].fd[c]]
      BY <1>w, <2>1, <2>4, QuietRead
    <3> HIDE DEF c, m
    <3> QED BY <2>4, <3>1, <3>2 DEF FdRow, RowOf, FdDue
  <2> HIDE DEF r, c
  <2>5. ASSUME NEW p \in Pid, p = pid, Quiet(p)  PROVE Sound(p)'
    <3>0. Sound(p)
      BY <2>5 DEF QuietHeld
    <3>1. CASE rows' = rows
      BY <2>2, <2>5, <3>0, <3>1, SoundSkip
    <3>2. CASE type \in filter.type /\ rows' = rows \cup {r}
      <4>1. r \in Listing(p)
        BY <2>4, <2>5, <3>2, ListingIs
      <4>2. ~InMaps(r)
        BY <2>5, <4>1, ListingNotMaps
      <4> QED BY <2>2, <2>4, <2>5, <3>0, <3>2, <4>1, <4>2, SoundStays
    <3> QED BY <2>1, <3>1, <3>2
  <2>6. ASSUME NEW p \in Pid, p = pid, Quiet(p)  PROVE Complete(p)'
    <3> SUFFICES ASSUME ~filter.file, ps[p].cmd \in filter.cmd
                 PROVE  LinksThere(p, Links)' /\ MapsThere(p)' /\ FdsThere(p, Desc \ descs)'
      <4>1. LinksDone(at)' = Links /\ at' \in Looking /\ at' \notin MemLook
        BY <2>1 DEF LinksDone, Looking, Places, MemLook
      <4> QED BY <2>1, <2>2, <2>6, <4>1 DEF Complete, Passed, SoFar, Looks, world
    <3>1. LinksThere(p, Links) /\ MapsThere(p) /\ FdsThere(p, Desc \ descs)
      BY <1>w, <2>6, FdSoFar
    <3>2. LinksThere(p, Links)' /\ MapsThere(p)'
      BY <2>2, <3>1, ThereStays DEF Looks, world
    <3>3. FdDue(p, c) => FdRow(p, c) \in rows'
      BY <2>1, <2>4, <2>6
    <3>4. \A d \in Desc \ descs' : FdDue(p, d) => FdRow(p, d) \in rows'
      BY <2>1, <3>1, <3>3 DEF FdsThere
    <3>5. ps' = ps /\ filter' = filter
      BY <2>2 DEF Looks, world
    <3>6. \A d : FdDue(p, d)' = FdDue(p, d) /\ FdRow(p, d)' = FdRow(p, d)
      BY <3>5 DEF FdDue, FdRow, RowOf
    <3>7. FdsThere(p, Desc \ descs)'
      BY <3>4, <3>6 DEF FdsThere
    <3> QED BY <3>2, <3>7
  <2> QED BY <2>2, <2>3, <2>5, <2>6, LookHeld
<1> QED BY <1>f, <1>1, <1>2, <1>3, <1>4 DEF ReadLink, StatFd, StatFails, Look

----------------------------------------------------------------------------
LEMMA QuietNext == Typed /\ TrueHeld /\ QuietHeld /\ [Next]_vars => QuietHeld'
<1> SUFFICES ASSUME Typed, TrueHeld, QuietHeld, [Next]_vars  PROVE QuietHeld'
  OBVIOUS
<1>1. CASE UNCHANGED vars
  <2>1. UNCHANGED <<ps, seen, filter, at, pids, pid, cmd, lines, owner, node, descs, type, inode,
                    rows>>
    BY <1>1 DEF vars, world, memVars, fdVars, scanVars
  <2>2. Carried'
    BY <2>1 DEF QuietHeld, Carried, Quiet, Stays
  <2>3. ASSUME NEW p \in Pid, Quiet(p)'  PROVE Sound(p)' /\ Complete(p)'
    <3>1. Quiet(p) /\ Sound(p) /\ Complete(p)
      BY <2>1, <2>3 DEF QuietHeld, Quiet, Stays
    <3>2. \A r : InMaps(r)' = InMaps(r)
      BY DEF InMaps
    <3>3. Sound(p)' /\ ListingMaps(p)' = ListingMaps(p)
      BY <2>1, <3>1, <3>2, ListingStays DEF Sound
    <3>4. /\ LinksThere(p, LinksDone(at)) => LinksThere(p, LinksDone(at))'
          /\ FdsThere(p, Desc \ descs) => FdsThere(p, Desc \ descs)'
          /\ MapRow(p, node) => MapRow(p, node)'
      BY <2>1, <3>2
         DEF LinksThere, LinksDone, LinkDue, LinkRow, LinkType, RowOf, FdsThere, FdDue, FdRow, MapRow
    <3>5. SoFar(p) => SoFar(p)'
      BY <2>1, <3>3, <3>4, ThereStays DEF SoFar
    <3>6. Passed(p)' = Passed(p)
      BY <2>1 DEF Passed
    <3> QED BY <2>1, <3>1, <3>3, <3>5, <3>6, ThereStays DEF Complete
  <2> QED BY <2>2, <2>3 DEF QuietHeld
<1> QED
  BY <1>1, OptionQuiet, LoopQuiet, CommQuiet, LinksQuiet, MapsQuiet, LineQuiet, FdDirQuiet,
     FdOneQuiet, ChangeQuiet
     DEF Next, main, FindMem, FindFd

\* For any processes, and however the others change while it is made: a finished listing
\* has every row of a process that stayed as it was, of the types asked for, and no other
\* (hw1.cpp:85, 106, 162; the loops of FindMem and FindFd and the order of main).
THEOREM QuietIsComplete == Spec => []QuietComplete
<1>1. Typed /\ QuietHeld => QuietComplete
  BY QuietEnd
<1> QED BY <1>1, TypedInit, TypedNext, TrueHeldInit, TrueHeldNext, QuietInit, QuietNext, PTL DEF Spec
=============================================================================
