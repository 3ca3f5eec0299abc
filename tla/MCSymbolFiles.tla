--------------------------- MODULE MCSymbolFiles ---------------------------
(***************************************************************************)
(* Two modules and a stem that is none, one function, lines of a source    *)
(* and of a header at one or two addresses, symbols on both sides of the   *)
(* end of a 16-bit address.                                                *)
(***************************************************************************)
EXTENDS SymbolFiles

CONSTANTS A, B, other, f

LineOf(stem, ext, line, address) ==
  [type |-> "line", stem |-> stem, ext |-> ext, line |-> line, address |-> address]

MCCdbRecords ==
  {[type |-> "module", name |-> n] : n \in {A, B}}
    \cup {[type |-> "function", name |-> f], [type |-> "symbol"], [type |-> "type"],
          [type |-> "other"]}
    \cup {[type |-> "local", module |-> n, function |-> f] : n \in {A, B}}
    \cup {LineOf(A, "c", 1, 1), LineOf(A, "c", 1, 6), LineOf(A, "h", 1, 2),
          LineOf(B, "c", 1, NoAddress), LineOf(other, "c", 1, 1)}

MCMapRecords ==
  {[address |-> a, c_like |-> c] : a \in {1, 2, 5}, c \in BOOLEAN}
=============================================================================
