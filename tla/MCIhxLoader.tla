---------------------------- MODULE MCIhxLoader ----------------------------
(***************************************************************************)
(* All files of up to four lines, over a memory of four bytes in an        *)
(* address space of sixteen: data below, at and across the memory's end    *)
(* and the address space's, whole and with digits that do not parse.       *)
(***************************************************************************)
EXTENDS IhxLoader

DataOf(a, c, g) == [type |-> "data", addr |-> a, count |-> c, good |-> g]

MCLines ==
  {DataOf(1, 0, 0), DataOf(1, 2, 2), DataOf(1, 2, 0), DataOf(3, 1, 1), DataOf(3, 2, 2)}
    \cup {[type |-> "segment", v |-> 1], [type |-> "linear", v |-> 0],
          [type |-> "linear", v |-> 3]}
    \cup {[type |-> "start_segment", cs |-> 1, ip |-> 3],
          [type |-> "start_linear", v |-> 6]}
    \cup {[type |-> "other"]}
=============================================================================
