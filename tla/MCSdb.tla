------------------------------- MODULE MCSdb -------------------------------
(***************************************************************************)
(* Small programs and sessions for the model checker.  A program has six   *)
(* text addresses and a word of two (WordLen in the .cfg), so that an      *)
(* instruction of two bytes is one word, as one of five bytes is less than *)
(* one word of eight.                                                      *)
(***************************************************************************)
EXTENDS SdbProperties

\* The bytes of the image tell, two by two, their place.
MCByte == {"cc", "a0", "a1"}
MCImage == [f \in File |-> [a \in MemAddr |-> <<"a0", "a1">>[1 + (a % 2)]]]
MCEntry == [f \in File |-> 1]
MCText == [f \in File |-> 1]
MCSize == [f \in File |-> MaxAddr]
MCKind ==
  [f \in File |-> CASE f \in {"A", "L"} -> "program" [] f = "N" -> "notelf"
                    [] OTHER -> "missing"]

\* 1: two bytes; 3: two bytes, may skip 5 or go back to 1; 5: one byte, the last.
\* Of the two programs, only L has the branch back.
LoopLen  == [f \in File |-> <<2, 0, 2, 0, 1>>]
LoopSucc == [f \in File |-> IF f = "L" THEN <<{3}, {}, {1, 5}, {}, {Done}>>
                           ELSE <<{3, 5}, {}, {5}, {}, {Done}>>]

\* Every instruction has one byte; 4 branches back to 2.
ByteLen  == [f \in File |-> <<1, 1, 1, 1, 1>>]
ByteSucc == [f \in File |-> <<{2}, {3, 4}, {4}, {2, 5}, {Done}>>]
=============================================================================
