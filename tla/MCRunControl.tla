---------------------------- MODULE MCRunControl ----------------------------
(***************************************************************************)
(* A program small enough for TLC.  The CPU starts at r, the program at e, *)
(* where x comes next; x branches back to e or on to y, y returns to e.    *)
(* Only e and y have a line: next from line 1 leaves it through an address *)
(* without a line, or goes round until its budget is used up.              *)
(***************************************************************************)
EXTENDS RunControlInv

CONSTANTS r, e, x, y, line1, line2

MCSucc == [a \in Addr |-> CASE a = r -> {e}
                            [] a = e -> {x}
                            [] a = x -> {e, y}
                            [] OTHER -> {e}]

MCLineAddr == [l \in Line |-> IF l = line1 THEN {e} ELSE {y}]

MCLoc == [a \in Addr |-> {l \in Line : MCLineAddr[l] = {a}}]

\* One instruction that jumps to itself, with a line: the smallest program.
MCSpin == [a \in Addr |-> Addr]
MCSpinLineAddr == [l \in Line |-> Addr]
MCSpinLoc == [a \in Addr |-> Line]
=============================================================================
