------------------------- MODULE SourceBreakpoints -------------------------
(***************************************************************************)
(* Source breakpoints over symbol tables.  setBreakpoints stores the lines *)
(* of one file, answers for each of them, and resolves all lines of all    *)
(* files to addresses again; launch loads CDB and MAP records and resolves *)
(* again too.  dbg::lookup_address and dbg::lookup_source walk the records *)
(* in file order: the CDB first, then the MAP.  Files match by bare name.  *)
(*                                                                         *)
(* Requests are served one after the other (RunControl), so a request with *)
(* its response is one step; a session has one launch.  A request that     *)
(* names no file changes nothing and is left out.                          *)
(***************************************************************************)
EXTENDS Integers, Sequences

CONSTANTS
  File,     \* the paths the client sets breakpoints in
  Name,     \* bare file names
  Base,     \* Base[f]: the bare name of path f
  Line,     \* line numbers
  Size,     \* addresses are 0 .. Size - 1: 65536 for the Z80
  Tables    \* the symbols a launch may find

Location == [name : Name, line : Line]
CdbLine  == [name : Name, line : Line, addr : 0 .. Size - 1]
\* A MAP symbol has a 32-bit address, and a location if its name gives one.
Symbol   == [addr : Nat, at : {{}} \cup {{l} : l \in Location}]

\* What a launch has loaded; a MAP may have segments and no symbols, a CDB
\* modules and no lines.
Table == [cdb : Seq(CdbLine), has_cdb : BOOLEAN,
          map : Seq(Symbol),  has_map : BOOLEAN]

NoSymbols == [cdb |-> << >>, has_cdb |-> FALSE, map |-> << >>, has_map |-> FALSE]

ASSUME SymbolsAssumption ==
  /\ Size \in Nat /\ Size > 0
  /\ Base \in [File -> Name]
  /\ \A t \in Tables :
       /\ t \in Table
       /\ t.cdb # << >> => t.has_cdb
       /\ t.map # << >> => t.has_map

VARIABLES
  launched,  \* whether the session's launch has been served
  symbols,   \* cdb_modules_, map_symbols_
  sbf,       \* source_breakpoints_by_file_: {} for a file without an entry
  bps,       \* breakpoints_
  answers    \* what the client was last told of each line it asked for

vars == <<launched, symbols, sbf, bps, answers>>

cdb == symbols.cdb
map == symbols.map

-----------------------------------------------------------------------------
(* The lookups. *)

Earliest(I) == CHOOSE i \in I : \A j \in I : i <= j

\* Records that match a line of a file, or an address.
CdbOf(f, l) == {i \in DOMAIN cdb : cdb[i].line = l /\ cdb[i].name = Base[f]}
MapOf(f, l) == {i \in DOMAIN map : map[i].at = {[name |-> Base[f], line |-> l]}}
CdbAt(a)    == {i \in DOMAIN cdb : cdb[i].addr = a}
MapAt(a)    == {i \in DOMAIN map : map[i].addr = a /\ map[i].at # {}}

\* Mutant: a MAP address keeps its upper half.
LookupAddressUnmasked(f, l) ==
  IF CdbOf(f, l) # {} THEN {cdb[Earliest(CdbOf(f, l))].addr}
  ELSE IF MapOf(f, l) # {} THEN {map[Earliest(MapOf(f, l))].addr}
  ELSE {}

\* Mutant: the CDB is searched by line only.
LookupAddressAnyFile(f, l) ==
  IF \E i \in DOMAIN cdb : cdb[i].line = l
    THEN {cdb[Earliest({i \in DOMAIN cdb : cdb[i].line = l})].addr}
  ELSE IF MapOf(f, l) # {} THEN {map[Earliest(MapOf(f, l))].addr % Size}
  ELSE {}

\* {a}, the address of a line, or {}.
LookupAddress(f, l) ==
  IF CdbOf(f, l) # {} THEN {cdb[Earliest(CdbOf(f, l))].addr}
  ELSE IF MapOf(f, l) # {} THEN {map[Earliest(MapOf(f, l))].addr % Size}
  ELSE {}

\* {location}, the line of an address, or {}.
LookupSource(a) ==
  LET LocationOf(r) == [name |-> r.name, line |-> r.line] IN
  IF CdbAt(a) # {} THEN {LocationOf(cdb[Earliest(CdbAt(a))])}
  ELSE IF MapAt(a) # {} THEN map[Earliest(MapAt(a))].at
  ELSE {}

-----------------------------------------------------------------------------
(* The requests. *)

\* resolve_source_breakpoints_for_file, for one line.
Status(f, l) ==
  IF LookupAddress(f, l) # {} THEN "verified"
  ELSE IF ~symbols.has_cdb /\ ~symbols.has_map THEN "pending"
  ELSE "unmapped"

\* The addresses of all lines of all files.
Resolved == UNION {LookupAddress(p[1], p[2]) :
                     p \in {q \in File \X Line : q[2] \in sbf[q[1]]}}

\* rebuild_source_breakpoint_addresses, at the end of a request.
Rebuild == bps' = Resolved'

Init ==
  /\ launched = FALSE /\ symbols = NoSymbols
  /\ sbf = [f \in File |-> {}] /\ bps = {}
  /\ answers = [f \in File |-> [l \in Line |-> "none"]]

\* Mutant: the addresses are left as they are.
LaunchWithoutRebuild ==
  /\ ~launched /\ launched' = TRUE
  /\ symbols' \in Tables \cup {NoSymbols}
  /\ UNCHANGED <<sbf, bps, answers>>

\* Without a program there are no symbols, and no rebuild.
Launch ==
  /\ ~launched /\ launched' = TRUE
  /\ UNCHANGED <<sbf, answers>>
  /\ \/ symbols' \in Tables /\ Rebuild
     \/ symbols' = NoSymbols /\ UNCHANGED bps

Answer(f, lines) ==
  answers' = [answers EXCEPT ![f] =
                [l \in Line |-> IF l \in lines THEN Status(f, l) ELSE "none"]]

\* Mutant: only the addresses of the file's own lines are replaced.
SetBreakpointsPatches(f, lines) ==
  /\ sbf' = [sbf EXCEPT ![f] = lines]
  /\ Answer(f, lines)
  /\ bps' = (bps \ UNION {LookupAddress(f, l) : l \in sbf[f]})
              \cup UNION {LookupAddress(f, l) : l \in lines}
  /\ UNCHANGED <<launched, symbols>>

SetBreakpoints(f, lines) ==
  /\ sbf' = [sbf EXCEPT ![f] = lines]
  /\ UNCHANGED <<launched, symbols>>
  /\ Answer(f, lines)
  /\ Rebuild

Next == Launch \/ \E f \in File, lines \in SUBSET Line : SetBreakpoints(f, lines)

Spec == Init /\ [][Next]_vars

-----------------------------------------------------------------------------
(* Properties. *)

TypeOK ==
  /\ launched \in BOOLEAN
  /\ symbols \in Tables \cup {NoSymbols}
  /\ sbf \in [File -> SUBSET Line]
  /\ bps \in SUBSET (0 .. Size - 1)
  /\ answers \in [File -> [Line -> {"none", "verified", "pending", "unmapped"}]]

(***************************************************************************)
(* Armed is exactly what the lines asked for last resolve to in the loaded *)
(* symbols, whatever the order of launch and requests and although two     *)
(* files may share a bare name, and so an address                          *)
(* (rebuild_source_breakpoint_addresses).                                  *)
(***************************************************************************)
ArmedIsRequested == bps = Resolved

(***************************************************************************)
(* What setBreakpoints answered stays true until the file is asked about   *)
(* again, whatever is asked of other files in between: a line reported     *)
(* verified is armed, at its address; a line reported to have no mapping   *)
(* has none.                                                               *)
(***************************************************************************)
AnswersTruthful ==
  \A f \in File, l \in Line :
    /\ answers[f][l] = "verified" =>
         LookupAddress(f, l) # {} /\ LookupAddress(f, l) \subseteq bps
    /\ answers[f][l] = "unmapped" => launched /\ LookupAddress(f, l) = {}

\* The records in the order both lookups walk them.
Records ==
  [i \in DOMAIN cdb |->
     [addr |-> cdb[i].addr, at |-> {[name |-> cdb[i].name, line |-> cdb[i].line]}]]
  \o map

(***************************************************************************)
(* A program that stops at an armed address is shown in a line the client  *)
(* asked for there, across CDB and MAP, and in another one in two cases    *)
(* only: an earlier record puts that line at the same address              *)
(* (tests/data/ura.cdb:422-423 has two lines at 0x116: the second is shown *)
(* as the first), or the line's own address is that of a MAP symbol above  *)
(* the memory, which lookup_address cuts to 16 bits and lookup_source does *)
(* not: then the line is that of the address it was cut to, or none.       *)
(***************************************************************************)
ShownWhereSet ==
  \A a \in bps : \E f \in File : \E l \in sbf[f] : \E k \in DOMAIN Records :
    LET own == Records[k]  shown == LookupSource(a) IN
      /\ own.at = {[name |-> Base[f], line |-> l]} /\ own.addr % Size = a
      /\ \/ shown = own.at
         \/ shown = {} /\ own.addr # a
         \/ \E j \in DOMAIN Records :
              /\ Records[j].addr = a /\ Records[j].at = shown
              /\ j < k \/ own.addr # a

(***************************************************************************)
(* What makes them inductive: what was answered is still asked for, and    *)
(* before the launch nothing is loaded.                                    *)
(***************************************************************************)
BreakpointsInv ==
  /\ ArmedIsRequested /\ AnswersTruthful
  /\ \A f \in File, l \in Line : answers[f][l] # "none" => l \in sbf[f]
  /\ ~launched => symbols = NoSymbols
=============================================================================
