----------------------- MODULE SourceBreakpointsProofs -----------------------
(***************************************************************************)
(* Breakpoints are what was asked for last, and a stop is shown where its  *)
(* breakpoint was set, for all symbol tables, files and lines.             *)
(***************************************************************************)
EXTENDS SourceBreakpoints, FiniteSetTheorems, TLAPS

-----------------------------------------------------------------------------
(* The lookups. *)

(* The earliest of some positions of a sequence is one of them: the first  *)
(* match a walk over the records returns is a match.                       *)
LEMMA EarliestMatches ==
  ASSUME NEW I \in SUBSET Nat, I # {}
  PROVE  Earliest(I) \in I /\ \A j \in I : Earliest(I) <= j
<1> DEFINE R == StrictSubsetOrdering(Nat)
           T == {J \in FiniteSubsetsOf(Nat) : \E i \in I : J = 1 .. i}
<1>1. IsWellFoundedOn(R, FiniteSubsetsOf(Nat))
  BY FS_StrictSubsetOrderingWellFounded
<1>2. \A i \in I : 1 .. i \in T
  BY FS_Interval DEF FiniteSubsetsOf
<1>3. PICK J \in T : \A K \in T : ~ (<<K, J>> \in R)
  <2>1. T \subseteq FiniteSubsetsOf(Nat) /\ T # {}
    BY <1>2
  <2> HIDE DEF R, T
  <2> QED BY <1>1, <2>1, WFMin
<1>4. PICK i \in I : J = 1 .. i
  OBVIOUS
<1>5. ASSUME NEW j \in I PROVE i <= j
  <2>1. SUFFICES ASSUME j < i PROVE FALSE
    OBVIOUS
  <2>2. 1 .. j \in T /\ 1 .. i \in T
    BY <1>2
  <2>3. 1 .. j \subseteq 1 .. i /\ 1 .. j # 1 .. i
    BY <2>1
  <2>4. <<1 .. j, 1 .. i>> \in R
    BY <2>2, <2>3 DEF StrictSubsetOrdering, FiniteSubsetsOf
  <2> QED BY <1>3, <1>4, <2>2, <2>4
<1> QED BY <1>5 DEF Earliest

\* The part of TypeOK the lookups depend on.
Loaded == symbols \in Tables \cup {NoSymbols}

(* What a launch has loaded are records of the declared types.             *)
LEMMA SymbolTypes ==
  ASSUME Loaded
  PROVE  /\ cdb \in Seq(CdbLine) /\ map \in Seq(Symbol)
         /\ DOMAIN cdb \subseteq Nat /\ DOMAIN map \subseteq Nat
         /\ \A i \in DOMAIN cdb : cdb[i] \in CdbLine
         /\ \A i \in DOMAIN map : map[i] \in Symbol
<1>1. symbols \in Table \/ symbols = NoSymbols
  BY SymbolsAssumption DEF Loaded
<1>2. NoSymbols \in Table
  BY DEF NoSymbols, Table
<1>3. cdb \in Seq(CdbLine) /\ map \in Seq(Symbol)
  BY <1>1, <1>2 DEF Table, cdb, map
<1> QED BY <1>3

(* lookup_address returns the address of a record of that file and line.   *)
LEMMA AddressOfLine ==
  ASSUME Loaded, NEW f \in File, NEW l \in Line, NEW a \in LookupAddress(f, l)
  PROVE  /\ a \in 0 .. Size - 1 /\ LookupAddress(f, l) = {a}
         /\ \/ \E i \in CdbOf(f, l) : cdb[i].addr = a
            \/ \E i \in MapOf(f, l) : map[i].addr % Size = a
<1> USE SymbolTypes, SymbolsAssumption
<1>1. CASE CdbOf(f, l) # {}
  <2> DEFINE i == Earliest(CdbOf(f, l))
  <2>1. i \in CdbOf(f, l) BY <1>1, EarliestMatches DEF CdbOf
  <2>2. cdb[i] \in CdbLine BY <2>1 DEF CdbOf
  <2> QED BY <1>1, <2>1, <2>2 DEF LookupAddress, CdbLine
<1>2. CASE CdbOf(f, l) = {} /\ MapOf(f, l) # {}
  <2> DEFINE i == Earliest(MapOf(f, l))
  <2>1. i \in MapOf(f, l) BY <1>2, EarliestMatches DEF MapOf
  <2>2. map[i].addr \in Nat BY <2>1 DEF MapOf, Symbol
  <2>3. LookupAddress(f, l) = {map[i].addr % Size} BY <1>2 DEF LookupAddress
  <2> QED BY <2>1, <2>2, <2>3
<1> QED BY <1>1, <1>2 DEF LookupAddress

(* The records of both files, one after the other.                         *)
LEMMA RecordsInOrder ==
  ASSUME Loaded
  PROVE  /\ DOMAIN Records = 1 .. Len(cdb) + Len(map)
         /\ DOMAIN cdb = 1 .. Len(cdb) /\ DOMAIN map = 1 .. Len(map)
         /\ Len(cdb) \in Nat /\ Len(map) \in Nat
         /\ \A i \in DOMAIN cdb :
              /\ i \in DOMAIN Records
              /\ Records[i].addr = cdb[i].addr
              /\ Records[i].at = {[name |-> cdb[i].name, line |-> cdb[i].line]}
         /\ \A i \in DOMAIN map :
              Len(cdb) + i \in DOMAIN Records /\ Records[Len(cdb) + i] = map[i]
<1> DEFINE R == [addr : Nat, at : SUBSET Location]
           lines == [i \in DOMAIN cdb |->
                       [addr |-> cdb[i].addr,
                        at |-> {[name |-> cdb[i].name, line |-> cdb[i].line]}]]
<1>1. cdb \in Seq(CdbLine) /\ map \in Seq(Symbol)
  BY SymbolTypes
<1>2. lines \in Seq(R) /\ Len(lines) = Len(cdb) /\ DOMAIN lines = DOMAIN cdb
  <2>1. \A r \in CdbLine : r.addr \in Nat /\ [name |-> r.name, line |-> r.line] \in Location
    BY SymbolsAssumption DEF CdbLine, Location
  <2>2. \A i \in 1 .. Len(cdb) : cdb[i] \in CdbLine
    BY <1>1
  <2>3. DOMAIN lines = DOMAIN cdb /\ DOMAIN cdb = 1 .. Len(cdb) /\ Len(cdb) \in Nat
    BY <1>1
  <2>4. ASSUME NEW i \in 1 .. Len(cdb) PROVE lines[i] \in R
    <3>1. /\ cdb[i].addr \in Nat
          /\ {[name |-> cdb[i].name, line |-> cdb[i].line]} \subseteq Location
      BY <2>1, <2>2
    <3>2. lines[i] = [addr |-> cdb[i].addr,
                      at |-> {[name |-> cdb[i].name, line |-> cdb[i].line]}]
      BY <2>3
    <3> QED BY <3>1, <3>2
  <2> HIDE DEF lines, R
  <2>5. lines = [i \in 1 .. Len(cdb) |-> lines[i]]
    BY <2>3 DEF lines
  <2> QED BY <2>3, <2>4, <2>5
<1>3. map \in Seq(R)
  <2>1. ASSUME NEW r \in Symbol PROVE r \in R
    BY DEF Symbol
  <2>2. Symbol \subseteq R BY <2>1
  <2> HIDE DEF R
  <2> QED BY <1>1, <2>2
<1>4. Records = lines \o map
  BY DEF Records
<1> HIDE DEF lines, R
<1>5. /\ DOMAIN Records = 1 .. Len(cdb) + Len(map)
      /\ \A i \in 1 .. Len(cdb) : Records[i] = lines[i]
      /\ \A i \in 1 .. Len(map) : Records[Len(cdb) + i] = map[i]
  <2>1. /\ Len(Records) = Len(cdb) + Len(map) /\ Records \in Seq(R)
        /\ \A i \in 1 .. Len(Records) :
             Records[i] = IF i <= Len(lines) THEN lines[i] ELSE map[i - Len(lines)]
    BY <1>2, <1>3, <1>4
  <2>2. Len(lines) \in Nat /\ Len(map) \in Nat
    BY <1>2, <1>3
  <2>3. ASSUME NEW i \in 1 .. Len(map) PROVE Records[Len(cdb) + i] = map[i]
    <3>1. /\ Len(cdb) + i \in 1 .. Len(Records) /\ ~ (Len(cdb) + i <= Len(lines))
          /\ (Len(cdb) + i) - Len(lines) = i
      BY <1>2, <2>1, <2>2
    <3> QED BY <2>1, <3>1
  <2>4. DOMAIN Records = 1 .. Len(Records)
    BY <2>1
  <2>5. ASSUME NEW i \in 1 .. Len(cdb) PROVE Records[i] = lines[i]
    <3>1. i \in 1 .. Len(Records) /\ i <= Len(lines)
      BY <1>2, <2>1, <2>2
    <3> QED BY <2>1, <3>1
  <2> QED BY <2>1, <2>3, <2>4, <2>5
<1>6. /\ DOMAIN cdb = 1 .. Len(cdb) /\ DOMAIN map = 1 .. Len(map)
      /\ Len(cdb) \in Nat /\ Len(map) \in Nat
  BY <1>1
<1>7. ASSUME NEW i \in DOMAIN cdb
      PROVE  /\ i \in DOMAIN Records
             /\ Records[i].addr = cdb[i].addr
             /\ Records[i].at = {[name |-> cdb[i].name, line |-> cdb[i].line]}
  <2>1. i \in 1 .. Len(cdb) /\ i \in 1 .. Len(cdb) + Len(map)
    BY <1>6
  <2>2. Records[i] = lines[i] /\ i \in DOMAIN Records
    BY <1>5, <2>1
  <2>3. lines[i] = [addr |-> cdb[i].addr,
                    at |-> {[name |-> cdb[i].name, line |-> cdb[i].line]}]
    BY DEF lines
  <2> QED BY <2>2, <2>3
<1>8. ASSUME NEW i \in DOMAIN map PROVE Len(cdb) + i \in DOMAIN Records
  <2>1. Len(cdb) + i \in 1 .. Len(cdb) + Len(map)
    BY <1>6
  <2> QED BY <1>5, <2>1
<1> QED BY <1>5, <1>6, <1>7, <1>8

(* lookup_address returns the address of a record of the line, cut to the  *)
(* size of the memory if the record is one of the MAP.                     *)
LEMMA OwnRecord ==
  ASSUME Loaded, NEW f \in File, NEW l \in Line, NEW a \in LookupAddress(f, l)
  PROVE  \E k \in DOMAIN Records :
           /\ Records[k].at = {[name |-> Base[f], line |-> l]}
           /\ Records[k].addr \in Nat /\ Records[k].addr % Size = a
<1> USE SymbolTypes, SymbolsAssumption
<1>1. CASE \E i \in CdbOf(f, l) : cdb[i].addr = a
  <2>1. PICK i \in CdbOf(f, l) : cdb[i].addr = a BY <1>1
  <2>2. i \in DOMAIN cdb /\ cdb[i].name = Base[f] /\ cdb[i].line = l BY DEF CdbOf
  <2>3. cdb[i].addr \in 0 .. Size - 1 BY <2>2 DEF CdbLine
  <2>4. a \in Nat /\ a % Size = a
    <3>1. \A x \in 0 .. Size - 1 : x \in Nat /\ x % Size = x OBVIOUS
    <3> QED BY ONLY <2>1, <2>3, <3>1
  <2> QED BY <2>1, <2>2, <2>4, RecordsInOrder
<1>2. CASE \E i \in MapOf(f, l) : map[i].addr % Size = a
  <2>1. PICK i \in MapOf(f, l) : map[i].addr % Size = a BY <1>2
  <2>2. i \in DOMAIN map /\ map[i].at = {[name |-> Base[f], line |-> l]} BY DEF MapOf
  <2>3. map[i].addr \in Nat BY <2>2 DEF Symbol
  <2> QED BY <2>1, <2>2, <2>3, RecordsInOrder
<1> QED BY <1>1, <1>2, AddressOfLine

(* lookup_source returns the line of the first record that puts one at the *)
(* address, and nothing if no record does.                                 *)
LEMMA FirstAtAddress ==
  ASSUME Loaded, NEW a \in Nat
  PROVE  \/ /\ LookupSource(a) = {}
            /\ \A i \in DOMAIN Records : Records[i].addr = a => Records[i].at = {}
         \/ \E j \in DOMAIN Records :
              /\ Records[j].addr = a /\ Records[j].at = LookupSource(a)
              /\ \A i \in DOMAIN Records :
                   Records[i].addr = a /\ Records[i].at # {} => j <= i
<1> USE SymbolTypes
<1>1. \A i \in DOMAIN Records :
        \/ i \in DOMAIN cdb /\ Records[i].addr = cdb[i].addr
        \/ i - Len(cdb) \in DOMAIN map /\ Records[i] = map[i - Len(cdb)] /\ i > Len(cdb)
  <2> TAKE i \in DOMAIN Records
  <2>1. CASE i \in 1 .. Len(cdb)
    <3>1. i \in DOMAIN cdb BY <2>1, RecordsInOrder
    <3> QED BY <3>1, RecordsInOrder
  <2>2. CASE i \notin 1 .. Len(cdb)
    <3>1. i - Len(cdb) \in 1 .. Len(map) /\ i > Len(cdb) /\ Len(cdb) + (i - Len(cdb)) = i
      BY <2>2, RecordsInOrder
    <3> QED BY <3>1, RecordsInOrder
  <2> QED BY <2>1, <2>2
<1>2. CASE CdbAt(a) # {}
  <2> DEFINE j == Earliest(CdbAt(a))
  <2>1. j \in CdbAt(a) /\ \A i \in CdbAt(a) : j <= i
    BY <1>2, EarliestMatches DEF CdbAt
  <2>2. j \in DOMAIN cdb /\ cdb[j].addr = a BY <2>1 DEF CdbAt
  <2>3. LookupSource(a) = {[name |-> cdb[j].name, line |-> cdb[j].line]}
    BY <1>2 DEF LookupSource
  <2>4. ASSUME NEW i \in DOMAIN Records, Records[i].addr = a PROVE j <= i
    <3>1. CASE i \in DOMAIN cdb /\ Records[i].addr = cdb[i].addr
      BY <2>1, <2>4, <3>1 DEF CdbAt
    <3>2. CASE i > Len(cdb)
      <4>1. j \in 1 .. Len(cdb) /\ i \in Nat /\ Len(cdb) \in Nat BY <2>2, RecordsInOrder
      <4> QED BY <3>2, <4>1
    <3> QED BY <1>1, <3>1, <3>2
  <2> QED BY <2>2, <2>3, <2>4, RecordsInOrder
<1>3. CASE CdbAt(a) = {} /\ MapAt(a) # {}
  <2> DEFINE m == Earliest(MapAt(a))
  <2>1. m \in MapAt(a) /\ \A i \in MapAt(a) : m <= i
    BY <1>3, EarliestMatches DEF MapAt
  <2>2. m \in DOMAIN map /\ map[m].addr = a BY <2>1 DEF MapAt
  <2>3. LookupSource(a) = map[m].at BY <1>3 DEF LookupSource
  <2>4. ASSUME NEW i \in DOMAIN Records, Records[i].addr = a, Records[i].at # {}
        PROVE  Len(cdb) + m <= i
    <3>1. i \notin DOMAIN cdb \/ cdb[i].addr # a BY <1>3 DEF CdbAt
    <3>2. i - Len(cdb) \in MapAt(a) BY <1>1, <2>4, <3>1 DEF MapAt
    <3>3. m <= i - Len(cdb) BY <2>1, <3>2
    <3> QED BY <2>2, <3>3, RecordsInOrder
  <2> QED BY <2>2, <2>3, <2>4, RecordsInOrder
<1>4. CASE CdbAt(a) = {} /\ MapAt(a) = {}
  <2>1. LookupSource(a) = {} BY <1>4 DEF LookupSource
  <2>2. ASSUME NEW i \in DOMAIN Records, Records[i].addr = a PROVE Records[i].at = {}
    BY <1>1, <1>4, <2>2 DEF CdbAt, MapAt
  <2> QED BY <2>1, <2>2
<1> QED BY <1>2, <1>3, <1>4

(* The round trip: lookup_source undoes lookup_address, but for an earlier *)
(* record of the address and for an address above the memory.              *)
LEMMA RoundTrip ==
  ASSUME Loaded, NEW f \in File, NEW l \in Line, NEW a \in LookupAddress(f, l)
  PROVE  \E k \in DOMAIN Records :
           /\ Records[k].at = {[name |-> Base[f], line |-> l]}
           /\ Records[k].addr % Size = a
           /\ \/ LookupSource(a) = Records[k].at
              \/ LookupSource(a) = {} /\ Records[k].addr # a
              \/ \E j \in DOMAIN Records :
                   /\ Records[j].addr = a /\ Records[j].at = LookupSource(a)
                   /\ j < k \/ Records[k].addr # a
<1>1. PICK k \in DOMAIN Records :
        /\ Records[k].at = {[name |-> Base[f], line |-> l]}
        /\ Records[k].addr % Size = a
  BY OwnRecord
<1>2. a \in Nat BY AddressOfLine, SymbolsAssumption
<1>3. CASE /\ LookupSource(a) = {}
           /\ \A i \in DOMAIN Records : Records[i].addr = a => Records[i].at = {}
  <2>1. Records[k].addr # a BY <1>1, <1>3
  <2> QED BY <1>1, <1>3, <2>1
<1>4. ASSUME NEW j \in DOMAIN Records,
             Records[j].addr = a, Records[j].at = LookupSource(a),
             \A i \in DOMAIN Records : Records[i].addr = a /\ Records[i].at # {} => j <= i
      PROVE  \/ LookupSource(a) = Records[k].at
             \/ j < k \/ Records[k].addr # a
  <2>1. CASE j = k BY <1>4, <2>1
  <2>2. CASE j # k
    <3>1. j \in Nat /\ k \in Nat BY RecordsInOrder
    <3>2. Records[k].at # {} BY <1>1
    <3>3. Records[k].addr = a => j <= k BY <1>4, <3>2
    <3> QED BY <2>2, <3>1, <3>3
  <2> QED BY <2>1, <2>2
<1> QED BY <1>1, <1>2, <1>3, <1>4, FirstAtAddress

-----------------------------------------------------------------------------
(* The invariant. *)

(* What is resolved are addresses of lines asked for.                      *)
LEMMA ResolvedLines ==
  \A a \in Resolved : \E f \in File : \E l \in sbf[f] :
    l \in Line /\ a \in LookupAddress(f, l)
<1> TAKE a \in Resolved
<1> DEFINE Asked == {q \in File \X Line : q[2] \in sbf[q[1]]}
<1>1. PICK p \in Asked : a \in LookupAddress(p[1], p[2]) BY DEF Resolved
<1> QED BY <1>1

(* What is resolved are addresses.                                         *)
LEMMA ResolvedTypes == Loaded => Resolved \subseteq 0 .. Size - 1
BY ResolvedLines, AddressOfLine

(* Without symbols nothing is resolved.                                    *)
LEMMA NothingWithoutSymbols ==
  symbols = NoSymbols =>
    Resolved = {} /\ \A f \in File, l \in Line : LookupAddress(f, l) = {}
<1> SUFFICES ASSUME symbols = NoSymbols
             PROVE  Resolved = {} /\ \A f \in File, l \in Line : LookupAddress(f, l) = {}
  OBVIOUS
<1>1. cdb = << >> /\ map = << >> BY DEF cdb, map, NoSymbols
<1>2. \A f, l : LookupAddress(f, l) = {}
  BY <1>1 DEF LookupAddress, CdbOf, MapOf
<1> QED BY <1>2, ResolvedLines

(* Every step keeps the types.                                             *)
LEMMA TypeStep == TypeOK /\ [Next]_vars => TypeOK'
<1> SUFFICES ASSUME TypeOK, [Next]_vars PROVE TypeOK'
  OBVIOUS
<1> USE DEF TypeOK
<1>1. ASSUME Loaded' PROVE Resolved' \subseteq 0 .. Size - 1
  <2>1. (Loaded => Resolved \subseteq 0 .. Size - 1)' BY ResolvedTypes, PTL
  <2> QED BY <1>1, <2>1
<1>2. CASE Launch
  BY <1>1, <1>2 DEF Launch, Rebuild, Loaded
<1>3. ASSUME NEW f \in File, NEW lines \in SUBSET Line, SetBreakpoints(f, lines)
      PROVE  TypeOK'
  <2>1. bps' \subseteq 0 .. Size - 1
    BY <1>1, <1>3 DEF SetBreakpoints, Rebuild, Loaded
  <2>2. \A l \in Line : Status(f, l) \in {"verified", "pending", "unmapped"}
    BY DEF Status
  <2>3. answers' \in [File -> [Line -> {"none", "verified", "pending", "unmapped"}]]
    BY <1>3, <2>2 DEF SetBreakpoints, Answer
  <2> QED BY <1>3, <2>1, <2>3 DEF SetBreakpoints
<1>4. CASE UNCHANGED vars
  BY <1>4 DEF vars
<1> QED BY <1>2, <1>3, <1>4 DEF Next

(* A launch keeps the invariant: the answers so far were all pending.      *)
LEMMA LaunchStep == TypeOK /\ BreakpointsInv /\ Launch => BreakpointsInv'
<1> SUFFICES ASSUME TypeOK, BreakpointsInv, Launch PROVE BreakpointsInv'
  OBVIOUS
<1> USE DEF Launch, TypeOK
<1>1. symbols = NoSymbols BY DEF BreakpointsInv
<1>2. Resolved = {} /\ \A f \in File, l \in Line : LookupAddress(f, l) = {}
  BY <1>1, NothingWithoutSymbols
<1>3. ArmedIsRequested'
  <2>1. CASE Rebuild BY <2>1 DEF ArmedIsRequested, Rebuild
  <2>2. CASE symbols' = NoSymbols /\ UNCHANGED bps
    <3>1. (symbols = NoSymbols => Resolved = {})' BY NothingWithoutSymbols, PTL
    <3> QED BY <1>2, <2>2, <3>1 DEF ArmedIsRequested, BreakpointsInv
  <2> QED BY <2>1, <2>2
<1>4. AnswersTruthful'
  <2>1. \A f \in File, l \in Line : answers[f][l] \notin {"verified", "unmapped"}
    BY <1>2 DEF BreakpointsInv, AnswersTruthful
  <2> QED BY <2>1 DEF AnswersTruthful
<1> QED BY <1>3, <1>4 DEF BreakpointsInv

(* So does setBreakpoints: what was answered of other files is resolved    *)
(* again with what is asked now.                                           *)
LEMMA SetBreakpointsStep ==
  ASSUME TypeOK, BreakpointsInv,
         NEW f \in File, NEW lines \in SUBSET Line, SetBreakpoints(f, lines)
  PROVE  BreakpointsInv'
<1> USE DEF SetBreakpoints, TypeOK
<1>1. ArmedIsRequested' BY DEF ArmedIsRequested, Rebuild
<1>2. \A e, l : LookupAddress(e, l)' = LookupAddress(e, l)
  BY DEF LookupAddress, CdbOf, MapOf, cdb, map
<1>3. \A e \in File : \A l \in sbf'[e] \cap Line : LookupAddress(e, l) \subseteq bps'
  <2> TAKE e \in File
  <2> TAKE l \in sbf'[e] \cap Line
  <2>1. <<e, l>> \in {q \in File \X Line : q[2] \in sbf'[q[1]]}
    OBVIOUS
  <2> QED BY <1>2, <2>1 DEF Rebuild, Resolved
<1>4. ASSUME NEW e \in File, NEW l \in Line, answers'[e][l] # "none"
      PROVE  /\ l \in sbf'[e]
             /\ answers'[e][l] = "verified" => LookupAddress(e, l) # {}
             /\ answers'[e][l] = "unmapped" => launched /\ LookupAddress(e, l) = {}
  <2>1. CASE e = f
    <3>1. answers'[f][l] = (IF l \in lines THEN Status(f, l) ELSE "none")
      BY DEF Answer
    <3>2. l \in lines BY <1>4, <2>1, <3>1
    <3>3. (~symbols.has_cdb /\ ~symbols.has_map) \/ launched
      BY DEF BreakpointsInv, NoSymbols
    <3> QED BY <2>1, <3>1, <3>2, <3>3 DEF Status
  <2>2. CASE e # f
    <3>1. answers'[e][l] = answers[e][l] /\ sbf'[e] = sbf[e]
      BY <2>2 DEF Answer
    <3> QED BY <1>4, <3>1 DEF BreakpointsInv, AnswersTruthful
  <2> QED BY <2>1, <2>2
<1>5. AnswersTruthful'
  BY <1>2, <1>3, <1>4 DEF AnswersTruthful
<1> QED BY <1>1, <1>4, <1>5 DEF BreakpointsInv

(* The invariant holds in every session.                                   *)
LEMMA BreakpointsCorrect == Spec => [](TypeOK /\ BreakpointsInv)
<1>1. Init => TypeOK /\ BreakpointsInv
  <2> SUFFICES ASSUME Init PROVE TypeOK /\ BreakpointsInv
    OBVIOUS
  <2>1. TypeOK BY DEF Init, TypeOK
  <2>2. Resolved = {} BY NothingWithoutSymbols DEF Init
  <2>3. \A f \in File, l \in Line : answers[f][l] = "none" BY DEF Init
  <2> QED BY <2>1, <2>2, <2>3
          DEF Init, BreakpointsInv, ArmedIsRequested, AnswersTruthful
<1>2. TypeOK /\ BreakpointsInv /\ [Next]_vars => BreakpointsInv'
  <2>1. ASSUME BreakpointsInv, UNCHANGED vars PROVE BreakpointsInv'
    <3> USE <2>1 DEF vars
    <3>1. \A f, l : LookupAddress(f, l)' = LookupAddress(f, l)
      BY DEF LookupAddress, CdbOf, MapOf, cdb, map
    <3>2. Resolved' = Resolved BY <3>1 DEF Resolved
    <3> QED BY <3>1, <3>2 DEF BreakpointsInv, ArmedIsRequested, AnswersTruthful
  <2> QED BY <2>1, LaunchStep, SetBreakpointsStep DEF Next
<1> QED BY <1>1, <1>2, TypeStep, PTL DEF Spec

(***************************************************************************)
(* Every state is of its type, for symbol files of any length: an armed    *)
(* address has 16 bits.                                                    *)
(***************************************************************************)
THEOREM BreakpointTypes == Spec => []TypeOK
BY BreakpointsCorrect, PTL

(* Every session keeps its armed addresses those of the lines asked for.   *)
THEOREM ArmedCorrect == Spec => []ArmedIsRequested
<1>1. BreakpointsInv => ArmedIsRequested BY DEF BreakpointsInv
<1> QED BY <1>1, BreakpointsCorrect, PTL

(* Every session's answers stay true until asked again.                    *)
THEOREM AnswersCorrect == Spec => []AnswersTruthful
<1>1. BreakpointsInv => AnswersTruthful BY DEF BreakpointsInv
<1> QED BY <1>1, BreakpointsCorrect, PTL

(***************************************************************************)
(* In every session and for all symbol files a stop at an armed address is *)
(* shown in a line asked for there, but for an earlier record of the same  *)
(* address and a MAP symbol above the memory.                              *)
(***************************************************************************)
THEOREM StopsAreShown == Spec => []ShownWhereSet
<1>1. TypeOK /\ BreakpointsInv => ShownWhereSet
  <2> SUFFICES ASSUME TypeOK, BreakpointsInv, NEW a \in bps
               PROVE  \E f \in File : \E l \in sbf[f] : \E k \in DOMAIN Records :
                        /\ Records[k].at = {[name |-> Base[f], line |-> l]}
                        /\ Records[k].addr % Size = a
                        /\ \/ LookupSource(a) = Records[k].at
                           \/ LookupSource(a) = {} /\ Records[k].addr # a
                           \/ \E j \in DOMAIN Records :
                                /\ Records[j].addr = a /\ Records[j].at = LookupSource(a)
                                /\ j < k \/ Records[k].addr # a
    BY DEF ShownWhereSet
  <2>1. PICK f \in File : \E l \in sbf[f] : l \in Line /\ a \in LookupAddress(f, l)
    BY ResolvedLines DEF BreakpointsInv, ArmedIsRequested
  <2>2. PICK l \in sbf[f] : l \in Line /\ a \in LookupAddress(f, l)
    BY <2>1
  <2> QED BY <2>2, RoundTrip DEF TypeOK, Loaded
<1> QED BY <1>1, BreakpointsCorrect, PTL
=============================================================================
