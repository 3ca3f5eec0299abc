------------------------ MODULE MCSourceBreakpoints ------------------------
(***************************************************************************)
(* Three paths, two of one bare name.  A launch finds up to two CDB lines  *)
(* and up to one MAP symbol: records that repeat a line, lines that share  *)
(* an address, a symbol above the memory (of two addresses), a symbol that *)
(* names no line, modules without lines, segments without symbols.         *)
(***************************************************************************)
EXTENDS SourceBreakpoints, SequencesExt

CONSTANTS f1, f2, g, n, m

MCBase == [f \in File |-> IF f = g THEN m ELSE n]

MCSymbol == [addr : {1, Size}, at : {{}} \cup {{l} : l \in Location}]

MCTables ==
  {t \in [cdb : BoundedSeq(CdbLine, 2), has_cdb : BOOLEAN,
          map : BoundedSeq(MCSymbol, 1), has_map : BOOLEAN] :
     /\ t.cdb # << >> => t.has_cdb
     /\ t.map # << >> => t.has_map}
=============================================================================
