---------------------------- MODULE SymbolFiles ----------------------------
(***************************************************************************)
(* What launch makes of the symbol files SDCC writes beside a program: the *)
(* modules of the CDB file (cdb_parser.cpp), the symbols of the MAP file   *)
(* (map_parser.cpp), and what the debugger looks up in them (dbg.cpp).     *)
(* One record read is one step.                                            *)
(*                                                                         *)
(* A record is known by its number in the file.  A record the parser       *)
(* leaves at once, whatever ails its text, has type "other".  A file named *)
(* in a line record is its stem, what precedes the last '.', and its       *)
(* extension; with a directory in it a stem is the name of no module.      *)
(***************************************************************************)
EXTENDS Integers, Sequences, FiniteSets

CONSTANTS
  Word,        \* 2^16
  Name,        \* module names and stems
  Function,    \* function names
  CdbRecords,  \* the records a CDB file may have
  MapRecords,  \* the symbols a MAP file may have
  MaxRecords   \* bound on the records read

None      == "none"   \* no module yet
NoAddress == -1       \* the address of a line record does not parse

Record ==
  [type : {"module"}, name : Name]
    \cup [type : {"function"}, name : Function]
    \cup [type : {"local"}, module : Name, function : Function]
    \cup [type : {"symbol", "type", "other"}]
    \cup [type : {"line"}, stem : Name, ext : {"c", "h"}, line : Nat,
          address : Nat \cup {NoAddress}]

Symbol == [address : Nat, c_like : BOOLEAN]   \* c_like: its name begins with '_'

ASSUME SymbolFilesAssumption ==
  /\ Word \in Nat \ {0} /\ None \notin Name /\ MaxRecords \in Nat
  /\ CdbRecords \subseteq Record /\ MapRecords \subseteq Symbol

VARIABLES
  cdb,             \* the CDB records read so far
  current_module,
  data,            \* the modules
  symbols,         \* the MAP symbols read so far
  segments,        \* how many MAP segments were read
  reading          \* "cdb", then "map"

vars == <<cdb, current_module, data, symbols, segments, reading>>

-----------------------------------------------------------------------------
Init ==
  /\ cdb = << >> /\ current_module = None /\ data = << >>
  /\ symbols = << >> /\ segments = 0 /\ reading = "cdb"

Room == Len(cdb) + Len(symbols) + segments < MaxRecords

\* parse_line is given r.
Parse(r) ==
  /\ reading = "cdb" /\ Room
  /\ cdb' = Append(cdb, r)
  /\ UNCHANGED <<symbols, segments, reading>>

Other(r) ==
  /\ r.type = "other" /\ Parse(r) /\ UNCHANGED <<current_module, data>>

Module(n) == [name |-> n, file |-> "c", functions |-> << >>, symbols |-> << >>,
              types |-> << >>, lines |-> << >>]

\* Each M record adds a module; file is the extension of the name's file.
ParseModule(r) ==
  /\ r.type = "module" /\ Parse(r)
  /\ current_module' = r.name
  /\ data' = Append(data, Module(r.name))

\* The first module of a name is the one the loops find.
Named(n)   == {i \in DOMAIN data : data[i].name = n}
First(I)   == CHOOSE i \in I : \A j \in I : i <= j

\* The current module: the last M record names it.
Here == First(Named(current_module))

\* A record of the current module, which becomes m, if there is one.
ToCurrent(m) ==
  data' = IF Named(current_module) = {} THEN data ELSE [data EXCEPT ![Here] = m]

ParseFunction(r) ==
  /\ r.type = "function" /\ Parse(r)
  /\ ToCurrent([data[Here] EXCEPT !.functions =
                  Append(@, [rec |-> Len(cdb'), name |-> r.name, locals |-> << >>])])
  /\ UNCHANGED current_module

\* A symbol of the program, of the file or of a struct.
ParseSymbol(r) ==
  /\ r.type = "symbol" /\ Parse(r)
  /\ ToCurrent([data[Here] EXCEPT !.symbols = Append(@, Len(cdb'))])
  /\ UNCHANGED current_module

ParseType(r) ==
  /\ r.type = "type" /\ Parse(r)
  /\ ToCurrent([data[Here] EXCEPT !.types = Append(@, Len(cdb'))])
  /\ UNCHANGED current_module

\* Where a local symbol may go: a function of its name in a current module.
Functions(n, f) == {i \in Named(n) : \E j \in DOMAIN data[i].functions :
                                       data[i].functions[j].name = f}

AddLocal(f) ==
  LET i == First(Functions(current_module, f))
      j == First({k \in DOMAIN data[i].functions : data[i].functions[k].name = f})
  IN data' = [data EXCEPT ![i].functions[j].locals = Append(@, Len(cdb'))]

\* Mutant: the module in the symbol's scope is not looked at.
ParseLocalAnyModule(r) ==
  /\ r.type = "local" /\ Parse(r)
  /\ IF Functions(current_module, r.function) # {} THEN AddLocal(r.function)
     ELSE data' = data
  /\ UNCHANGED current_module

\* A local symbol, of a function of the module that is current.
ParseLocal(r) ==
  /\ r.type = "local" /\ Parse(r)
  /\ IF r.module = current_module /\ Functions(current_module, r.function) # {}
       THEN AddLocal(r.function) ELSE data' = data
  /\ UNCHANGED current_module

\* Mutant: the address is not narrowed.
LineWide(r) == [rec |-> Len(cdb'), ext |-> r.ext, line |-> r.line,
                address |-> IF r.address = NoAddress THEN 0 ELSE r.address]

\* A line as it is stored: 16 bits of its address, 0 without one.
Line(r) == [rec     |-> Len(cdb'),
            ext     |-> r.ext,
            line    |-> r.line,
            address |-> IF r.address = NoAddress THEN 0 ELSE r.address % Word]

\* Mutant: a line belongs to the current module.
ParseLineToCurrent(r) ==
  /\ r.type = "line" /\ Parse(r)
  /\ ToCurrent([data[Here] EXCEPT !.lines = Append(@, Line(r))])
  /\ UNCHANGED current_module

\* A line belongs to the module its file is named after, if that was read
\* before; while the module's file is still the default the line's replaces it.
ParseLine(r) ==
  /\ r.type = "line" /\ Parse(r)
  /\ IF current_module = None \/ Named(r.stem) = {} THEN data' = data
     ELSE LET there == First(Named(r.stem)) IN
          data' = [data EXCEPT ![there] =
                     [data[there] EXCEPT !.file = IF @ = "c" THEN r.ext ELSE @,
                                         !.lines = Append(@, Line(r))]]
  /\ UNCHANGED current_module

\* The end of the CDB file; the MAP file is read next.
ReadMap ==
  /\ reading = "cdb" /\ reading' = "map"
  /\ UNCHANGED <<cdb, current_module, data, symbols, segments>>

MapSymbol(s) ==
  /\ reading = "map" /\ Room
  /\ symbols' = Append(symbols, s)
  /\ UNCHANGED <<cdb, current_module, data, segments, reading>>

MapSegment ==
  /\ reading = "map" /\ Room
  /\ segments' = segments + 1
  /\ UNCHANGED <<cdb, current_module, data, symbols, reading>>

\* Both files are read; from here on they are only looked up.
Loaded == reading = "map" /\ UNCHANGED vars

Next ==
  \/ \E r \in CdbRecords :
       \/ ParseModule(r) \/ ParseFunction(r) \/ ParseSymbol(r) \/ ParseLocal(r)
       \/ ParseType(r) \/ ParseLine(r) \/ Other(r)
  \/ ReadMap
  \/ \E s \in MapRecords : MapSymbol(s)
  \/ MapSegment
  \/ Loaded

Spec == Init /\ [][Next]_vars

-----------------------------------------------------------------------------
(* What is looked up. *)

\* lookup_address in the CDB: modules in order, their lines in order.
Matches(stem, ext, line) ==
  {p \in (DOMAIN data) \X (1 .. Len(cdb)) :
     LET lines == data[p[1]].lines IN
     /\ p[2] \in DOMAIN lines /\ cdb[lines[p[2]].rec].stem = stem
     /\ lines[p[2]].ext = ext /\ lines[p[2]].line = line}

LookupLine(stem, ext, line) ==
  CHOOSE p \in Matches(stem, ext, line) :
    \A q \in Matches(stem, ext, line) :
      p[1] < q[1] \/ (p[1] = q[1] /\ p[2] <= q[2])

SymAddr(n) == symbols[n].address % Word

\* Mutant: of several symbols at one address the last is taken.
LookupSymbolLast(a) ==
  LET best[n \in 0 .. Len(symbols)] ==
        IF n = 0 THEN 0
        ELSE IF SymAddr(n) <= a /\ (best[n - 1] = 0 \/ SymAddr(n) >= SymAddr(best[n - 1]))
               THEN n ELSE best[n - 1]
  IN best[Len(symbols)]

\* lookup_symbol: the symbol a frame or an operand at address a is named by, or 0.
LookupSymbol(a) ==
  LET best[n \in 0 .. Len(symbols)] ==
        IF n = 0 THEN 0
        ELSE IF SymAddr(n) <= a /\ (best[n - 1] = 0 \/ SymAddr(n) > SymAddr(best[n - 1]))
               THEN n ELSE best[n - 1]
  IN best[Len(symbols)]

\* Mutant: the first symbol at the address is kept.
LookupSymbolExactFirst(a) ==
  LET best[n \in 0 .. Len(symbols)] ==
        IF n = 0 THEN 0
        ELSE IF SymAddr(n) = a /\ best[n - 1] = 0 THEN n ELSE best[n - 1]
  IN best[Len(symbols)]

\* lookup_symbol_exact: the symbol that labels address a in a listing, or 0.
LookupSymbolExact(a) ==
  LET best[n \in 0 .. Len(symbols)] ==
        IF n = 0 THEN 0
        ELSE IF SymAddr(n) = a /\ (best[n - 1] = 0 \/ symbols[n].c_like)
               THEN n ELSE best[n - 1]
  IN best[Len(symbols)]
-----------------------------------------------------------------------------
(* Properties. *)

FunctionRow == [rec : Nat, name : Function, locals : Seq(Nat)]
LineRow     == [rec : Nat, ext : {"c", "h"}, line : Nat, address : 0 .. Word - 1]
ModuleRow   == [name : Name, file : {"c", "h"}, functions : Seq(FunctionRow),
                symbols : Seq(Nat), types : Seq(Nat), lines : Seq(LineRow)]

TypeOK ==
  /\ cdb \in Seq(CdbRecords) /\ current_module \in Name \cup {None}
  /\ data \in Seq(ModuleRow)
  /\ symbols \in Seq(MapRecords) /\ segments \in Nat /\ reading \in {"cdb", "map"}

(***************************************************************************)
(* What the file says, without the loops: the current module of record k   *)
(* is that of the last M record before it, a line's is the one its file is *)
(* named after, and of several of one name the first counts.  Home(k) is   *)
(* its place in the list of modules, or 0 if record k belongs to none.     *)
(***************************************************************************)
Modules(k) == {j \in 1 .. k - 1 : cdb[j].type = "module"}
Latest(K)  == CHOOSE k \in K : \A j \in K : j <= k
Current(k) == IF Modules(k) = {} THEN None ELSE cdb[Latest(Modules(k))].name
Owner(k)   == IF cdb[k].type = "line" THEN cdb[k].stem ELSE Current(k)
Owners(k)  == {j \in Modules(k) : cdb[j].name = Owner(k)}
Home(k)    == IF Owners(k) = {} THEN 0 ELSE Cardinality(Modules(First(Owners(k)))) + 1

Kept(type, i) == {k \in DOMAIN cdb : cdb[k].type = type /\ Home(k) = i}

\* The sequence s holds the records K, each once and in the order of the file.
Holds(s, K) == {s[j] : j \in DOMAIN s} = K /\ \A j \in 1 .. Len(s) - 1 : s[j] < s[j + 1]

Recs(s) == [j \in DOMAIN s |-> s[j].rec]

(***************************************************************************)
(* Every record is kept where it belongs and nowhere else, in the order of *)
(* the file, however the records of several modules interleave (the comment*)
(* of parse_line_info: "L: records can appear after a different M: record  *)
(* in the CDB file").                                                      *)
(***************************************************************************)
RecordsAtHome ==
  /\ Len(data) = Cardinality(Modules(Len(cdb) + 1))
  /\ \A i \in DOMAIN data :
       /\ Holds(Recs(data[i].functions), Kept("function", i))
       /\ Holds(data[i].symbols, Kept("symbol", i))
       /\ Holds(data[i].types, Kept("type", i))
       /\ Holds(Recs(data[i].lines), Kept("line", i))

(***************************************************************************)
(* A function holds the local symbols the file gives it: those that name   *)
(* it and its module while that module is current, the first function of   *)
(* the name in the module taking them all.                                 *)
(***************************************************************************)
SameFunction(k) ==
  {m \in Kept("function", Home(k)) : m < k /\ cdb[m].name = cdb[k].function}

LocalsOf(m) ==
  {k \in DOMAIN cdb : /\ cdb[k].type = "local" /\ cdb[k].module = Current(k)
                      /\ m \in SameFunction(k) /\ \A n \in SameFunction(k) : m <= n}

LocalsAtHome ==
  \A i \in DOMAIN data : \A j \in DOMAIN data[i].functions :
    Holds(data[i].functions[j].locals, LocalsOf(data[i].functions[j].rec))

(***************************************************************************)
(* A module's file is that of its first line record that is not of the     *)
(* default file, so a header named like the module can stand for it.       *)
(***************************************************************************)
FileOfModule ==
  \A i \in DOMAIN data :
    data[i].file = IF \E k \in Kept("line", i) : cdb[k].ext = "h" THEN "h" ELSE "c"

(***************************************************************************)
(* A breakpoint on a line gets the address of the first record the file    *)
(* has for that line after the M record of its module, although the table  *)
(* is searched module by module (lookup_address).                          *)
(***************************************************************************)
SameLine(k) ==
  {m \in DOMAIN cdb : /\ cdb[m].type = "line" /\ Home(m) # 0
                      /\ cdb[m].stem = cdb[k].stem /\ cdb[m].ext = cdb[k].ext
                      /\ cdb[m].line = cdb[k].line}

FirstRecordFound ==
  \A k \in DOMAIN cdb : cdb[k].type = "line" =>
    LET found == Matches(cdb[k].stem, cdb[k].ext, cdb[k].line)
        p     == LookupLine(cdb[k].stem, cdb[k].ext, cdb[k].line)
    IN /\ found = {} <=> SameLine(k) = {}
       /\ found # {} => data[p[1]].lines[p[2]].rec = First(SameLine(k))

(***************************************************************************)
(* An address is named by the nearest symbol at or below it, the first of  *)
(* those at one address, in whatever order the MAP file has them and       *)
(* although addresses above 16 bits are narrowed (lookup_symbol).          *)
(***************************************************************************)
NearestSymbol ==
  \A a \in 0 .. Word - 1 :
    LET n     == LookupSymbol(a)
        below == {m \in DOMAIN symbols : SymAddr(m) <= a}
    IN /\ n = 0 <=> below = {}
       /\ n # 0 => /\ n \in below
                   /\ \A m \in below : /\ SymAddr(m) <= SymAddr(n)
                                       /\ SymAddr(m) = SymAddr(n) => n <= m

(***************************************************************************)
(* "prefer C-like symbol names for display" (lookup_symbol_exact): where a *)
(* C name has the address, the label is a C name, else any name it has.    *)
(***************************************************************************)
LabelPrefersC ==
  \A a \in 0 .. Word - 1 :
    LET n  == LookupSymbolExact(a)
        at == {m \in DOMAIN symbols : SymAddr(m) = a}
    IN /\ n = 0 <=> at = {}
       /\ n # 0 => n \in at /\ (symbols[n].c_like \/ \A m \in at : ~symbols[m].c_like)
=============================================================================
