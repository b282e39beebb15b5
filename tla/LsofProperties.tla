--------------------------- MODULE LsofProperties ---------------------------
(* What a listing of project1/hw1.cpp is worth when processes come and go. *)
EXTENDS Lsof

Places == {"args", "proc", "comm", "commline", "user", "cwd", "cwdstat", "root", "rootstat",
           "exe", "exestat", "maps", "mapsstat", "mapsline", "fd", "fdlist", "fdlink",
           "fdstat", "fdmode"}
Ended == {"done", "failed", "noproc", "usage", "crash"}
Columns == {"cwd", "root", "exe", "mem", "del", "NOFD", "u", ""}
Row == [pid : Pid, cmd : Command, fd : ({-1} \cup Desc) \X Columns,
        type : Types \cup {""}, node : Inode \cup {None}]

\* Every variable keeps its type.
TypeOK ==
  /\ ps \in [Pid -> Process \cup {Gone}]
  /\ seen \in [Pid -> SUBSET (Process \cup {Gone})]
  /\ changes \in 0..MaxChange
  /\ args \in Seq(Word)
  /\ filter \in [cmd : SUBSET Command, type : SUBSET Types, file : BOOLEAN]
  /\ at \in Places \cup Ended
  /\ pids \subseteq Pid /\ pid \in Pid /\ cmd \in Command
  /\ lines \in Seq(Line) /\ owner \in Process \cup {Gone}
  /\ node \in Inode \cup {None} /\ fd \in {"mem", "del"}
  /\ descs \subseteq Desc /\ type \in Types /\ inode \in Inode \cup {None}
  /\ leaked \in Nat /\ rows \subseteq Row

----------------------------------------------------------------------------
Been(p) == seen[p] \ {Gone}
Mapped(p, n) == \E k \in DOMAIN p.maps : p.maps[k].node = n
Denied(r) == r.node = None

\* A process of that number has had the file in the place the row names.
Held(r) ==
  \E p \in Been(r.pid) :
    CASE r.fd[2] \in {"cwd", "root", "exe"} -> p[r.fd[2]] = r.node
      [] r.fd[2] \in {"mem", "del"} -> Mapped(p, r.node)
      [] OTHER -> r.fd[1] \in Desc /\ p.fd[r.fd[1]] = r.node

\* No row is made up, whatever changes between the looks: its file was there in a
\* process of that number, its command was that number's, and a row without a file is
\* one for a process whose links we may not follow.  FindMem and FindFd go on with
\* node, type and fd from one turn of their loop to the next (hw1.cpp:162, 106).
RowsTrue ==
  \A r \in rows :
    /\ \E p \in Been(r.pid) : p.cmd = r.cmd
    /\ IF Denied(r) THEN \E p \in Been(r.pid) : ~p.ours ELSE Held(r)

----------------------------------------------------------------------------
\* What should be listed of a process that stays as it is.
Stays(p) == seen[p] = {ps[p]}
Quiet(p) == Stays(p) /\ ps[p] # Gone
Listing(p) ==
  LET q == ps[p]
      R(f, t, n) == [pid |-> p, cmd |-> q.cmd, fd |-> f, type |-> t, node |-> n]
      links == {"cwd", "root", "exe"}
      wanted == {t \in Types : t \in filter.type}
  IN IF q.ours
     THEN {r \in {R(Slot(f), IF f = "exe" THEN TypeOf[q[f]] ELSE "DIR", q[f]) :
                    f \in {l \in links : q[l] # None}}
             \cup {R(<<d, "u">>, TypeOf[q.fd[d]], q.fd[d]) : d \in {e \in Desc : q.fd[e] # None}} :
           r.type \in wanted}
     ELSE {R(Slot(f), "unknown", None) : f \in links} \cup {R(Slot("NOFD"), "", None)}
ListingMaps(p) ==
  IF ps[p].ours /\ "REG" \in filter.type THEN {n \in Inode : Mapped(ps[p], n)} ELSE {}

\* A finished listing is complete for every process that stayed as it was and passes
\* -c, whatever the others did meanwhile: all its files are there and nothing else is,
\* of the types asked for (with -f, only nothing else).
InMaps(r) == r.fd[2] \in {"mem", "del"}
QuietComplete ==
  at = "done" =>
    \A p \in Pid : Quiet(p) =>
      LET mine == {r \in rows : r.pid = p}
          open == {r \in mine : ~InMaps(r)}
          maps == {r.node : r \in {s \in mine : InMaps(s)}}
      IN IF ps[p].cmd \notin filter.cmd THEN mine = {}
         ELSE IF filter.file THEN open \subseteq Listing(p) /\ maps \subseteq ListingMaps(p)
         ELSE open = Listing(p) /\ maps = ListingMaps(p)

\* The listing gives up on a process only when that process has changed since the start
\* or has a user without a name, or when the descriptors have run out; and for each of
\* those some other process has changed, as FindFd leaves its directory open only when a
\* descriptor is gone (hw1.cpp:68, 85, 121, 125, 170).
AbortOnlyOnChange ==
  at = "failed" =>
    \/ ~Stays(pid)
    \/ There /\ ~ps[pid].named
    \/ Cardinality({p \in Pid : ~Stays(p)}) >= MaxOpen

\* The listing ends, however the processes change while it is made.
Ends == <>(at \in Ended)
=============================================================================
