--------------------------- MODULE MCNoMoreTraps ---------------------------
(***************************************************************************)
(* All programs of four instructions of one byte whose second and fourth   *)
(* may branch anywhere, with traps at any of them, and with all bytes in   *)
(* the text file or one too few.                                           *)
(***************************************************************************)
EXTENDS NoMoreTrapsProperties, SequencesExt

MCFile == [second : 0..4, fourth : 0..4, traps : SUBSET (1..4), short : BOOLEAN]
MCKind == [f \in File |-> IF f.short /\ f.traps = {} THEN "noexec" ELSE "program"]
MCByte == {"cc", "ff", "a0", "a1"}
MCImage == [f \in File |-> [a \in MemAddr |-> IF a % 2 = 0 THEN "a0" ELSE "a1"]]
MCEntry == [f \in File |-> 1]
MCLen == [f \in File |-> <<1, 1, 1, 1>>]
MCSucc == [f \in File |-> <<{2}, {3, f.second}, {4}, {Done, f.fourth}>>]
MCTrapSeq == [f \in File |-> SetToSortSeq(f.traps, <)]
MCHints ==
  [f \in File |-> LET all == [k \in DOMAIN TrapSeq[f] |-> Image[f][TrapSeq[f][k]]]
                  IN IF f.short /\ all # <<>> THEN Front(all) ELSE all]
=============================================================================
