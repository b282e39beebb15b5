---------------------------- MODULE MCSdbSessions ----------------------------
(***************************************************************************)
(* The sessions of sdb_sessions.cfg are of the kind the theorems about the *)
(* traced program ask for.                                                 *)
(***************************************************************************)
EXTENDS MCSdb

LoopPlaces == [f \in File |-> {1, 3, 5}]

ASSUME SessionAssumption ==
  OneProgram /\ WordApart /\ Steppable(LoopPlaces) /\ DeleteInput \subseteq {0}
=============================================================================
