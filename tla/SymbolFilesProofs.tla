------------------------- MODULE SymbolFilesProofs -------------------------
(***************************************************************************)
(* What SymbolFiles promises, for CDB and MAP files of any length, any     *)
(* names and addresses of any size.                                        *)
(***************************************************************************)
EXTENDS SymbolFiles, FiniteSetTheorems, SequenceTheorems, TLAPS

-----------------------------------------------------------------------------
(* Positions. *)

\* Of some positions there is a first.
LEMMA FirstIs ==
  ASSUME NEW K \in SUBSET (Nat \ {0}), K # {}
  PROVE  First(K) \in K /\ \A j \in K : First(K) <= j
<1> DEFINE R == StrictSubsetOrdering(Nat)
           T == {J \in FiniteSubsetsOf(Nat) : \E k \in K : J = 1 .. k}
<1>1. IsWellFoundedOn(R, FiniteSubsetsOf(Nat))
  BY FS_StrictSubsetOrderingWellFounded
<1>2. \A k \in K : 1 .. k \in T
  BY FS_Interval DEF FiniteSubsetsOf
<1>3. PICK J \in T : \A I \in T : ~ (<<I, J>> \in R)
  <2>1. T \subseteq FiniteSubsetsOf(Nat) /\ T # {}
    BY <1>2
  <2> HIDE DEF R, T
  <2> QED
    BY <1>1, <2>1, WFMin
<1>4. PICK k \in K : J = 1 .. k
  OBVIOUS
<1>5. ASSUME NEW j \in K
      PROVE  k <= j
  <2>1. SUFFICES ASSUME j < k
                 PROVE  FALSE
    OBVIOUS
  <2>2. 1 .. j \in T /\ 1 .. k \in T
    BY <1>2
  <2>3. 1 .. j \subseteq 1 .. k /\ k \in 1 .. k /\ k \notin 1 .. j
    BY <2>1
  <2>4. <<1 .. j, 1 .. k>> \in R
    BY <2>2, <2>3 DEF StrictSubsetOrdering, FiniteSubsetsOf
  <2> QED
    BY <1>3, <1>4, <2>2, <2>4
<1>6. \E i \in K : \A j \in K : i <= j
  BY <1>5
<1> QED
  BY <1>6 DEF First

\* The first of some positions is the one that is not after any other.
LEMMA FirstUnique ==
  ASSUME NEW K \in SUBSET (Nat \ {0}), NEW k \in K, \A j \in K : k <= j
  PROVE  First(K) = k
<1>1. First(K) \in K /\ First(K) <= k
  BY FirstIs
<1>2. k <= First(K) /\ First(K) \in Nat
  BY <1>1
<1> QED
  BY <1>1, <1>2

\* Of some positions up to n there is a last.
LEMMA LatestIs ==
  ASSUME NEW n \in Nat, NEW K \in SUBSET (1 .. n), K # {}
  PROVE  Latest(K) \in K /\ \A j \in K : j <= Latest(K)
<1> DEFINE B == {n + 1 - j : j \in K}
<1>1. B \in SUBSET (Nat \ {0}) /\ B # {}
  <2>1. ASSUME NEW j \in K
        PROVE  n + 1 - j \in Nat \ {0}
    OBVIOUS
  <2> QED
    BY <2>1
<1>2. First(B) \in B /\ \A b \in B : First(B) <= b
  BY <1>1, FirstIs
<1>3. PICK k \in K : First(B) = n + 1 - k
  BY <1>2
<1>4. \A j \in K : n + 1 - k <= n + 1 - j
  BY <1>2, <1>3
<1>5. \A j \in K : j <= k
  BY <1>4
<1> QED
  BY <1>5 DEF Latest

\* One element of a sequence replaced.
LEMMA Replaced ==
  ASSUME NEW S, NEW s \in Seq(S), NEW i \in DOMAIN s, NEW x \in S
  PROVE  LET t == [s EXCEPT ![i] = x] IN
         /\ t \in Seq(S) /\ Len(t) = Len(s) /\ DOMAIN t = DOMAIN s
         /\ t[i] = x /\ \A j \in DOMAIN s : j # i => t[j] = s[j]
BY ExceptSeq

\* One element more.
LEMMA Appended ==
  ASSUME NEW S, NEW s \in Seq(S), NEW x \in S
  PROVE  LET t == Append(s, x) IN
         /\ t \in Seq(S) /\ Len(s) \in Nat /\ Len(t) = Len(s) + 1
         /\ DOMAIN s = 1 .. Len(s) /\ DOMAIN t = 1 .. Len(s) + 1
         /\ \A i \in DOMAIN s : t[i] = s[i]
         /\ t[Len(s) + 1] = x
OBVIOUS

-----------------------------------------------------------------------------
(* Types. *)

\* What the kinds of records carry.
LEMMA RecordKinds ==
  ASSUME NEW r \in CdbRecords
  PROVE  /\ r.type = "module" => r.name \in Name
         /\ r.type = "function" => r.name \in Function
         /\ r.type = "line" => /\ r.stem \in Name /\ r.ext \in {"c", "h"}
                               /\ r.line \in Nat /\ r.address \in Nat \cup {NoAddress}
BY SymbolFilesAssumption DEF Record

\* A module with one more record is a module.
LEMMA RowTypes ==
  ASSUME NEW m \in ModuleRow
  PROVE  /\ \A x \in FunctionRow : [m EXCEPT !.functions = Append(@, x)] \in ModuleRow
         /\ \A n \in Nat : /\ [m EXCEPT !.symbols = Append(@, n)] \in ModuleRow
                           /\ [m EXCEPT !.types = Append(@, n)] \in ModuleRow
         /\ \A x \in LineRow, ext \in {"c", "h"} :
              [m EXCEPT !.file = IF @ = "c" THEN ext ELSE @,
                        !.lines = Append(@, x)] \in ModuleRow
<1>1. /\ m.functions \in Seq(FunctionRow) /\ m.lines \in Seq(LineRow)
      /\ m.symbols \in Seq(Nat) /\ m.types \in Seq(Nat) /\ m.file \in {"c", "h"}
  BY DEF ModuleRow
<1>2. ASSUME NEW x \in FunctionRow
      PROVE  [m EXCEPT !.functions = Append(@, x)] \in ModuleRow
  <2>1. Append(m.functions, x) \in Seq(FunctionRow)
    BY <1>1, Appended
  <2> QED
    BY <2>1 DEF ModuleRow
<1>3. ASSUME NEW n \in Nat
      PROVE  /\ [m EXCEPT !.symbols = Append(@, n)] \in ModuleRow
             /\ [m EXCEPT !.types = Append(@, n)] \in ModuleRow
  <2>1. Append(m.symbols, n) \in Seq(Nat) /\ Append(m.types, n) \in Seq(Nat)
    BY <1>1, Appended
  <2> QED
    BY <2>1 DEF ModuleRow
<1>4. ASSUME NEW x \in LineRow, NEW ext \in {"c", "h"}
      PROVE  [m EXCEPT !.file = IF @ = "c" THEN ext ELSE @,
                       !.lines = Append(@, x)] \in ModuleRow
  <2>1. Append(m.lines, x) \in Seq(LineRow)
    BY <1>1, Appended
  <2> QED
    BY <1>1, <2>1 DEF ModuleRow
<1> QED
  BY <1>2, <1>3, <1>4

\* The first module of a name is a module.
LEMMA HereIs ==
  ASSUME TypeOK, NEW n, Named(n) # {}
  PROVE  /\ First(Named(n)) \in DOMAIN data /\ data[First(Named(n))] \in ModuleRow
         /\ data[First(Named(n))].name = n
         /\ \A i \in Named(n) : First(Named(n)) <= i
<1>1. Named(n) \in SUBSET (Nat \ {0}) /\ Named(n) \subseteq DOMAIN data
  BY DEF Named, TypeOK
<1>2. First(Named(n)) \in Named(n) /\ \A i \in Named(n) : First(Named(n)) <= i
  BY <1>1, FirstIs
<1> QED
  BY <1>1, <1>2 DEF Named, TypeOK

\* Init has its type.
LEMMA TypeInit == Init => TypeOK
<1>1. \A S : << >> \in Seq(S)
  OBVIOUS
<1> QED
  BY <1>1 DEF Init, TypeOK

\* A record for the current module keeps the modules' type.
LEMMA ToCurrentType ==
  ASSUME TypeOK, NEW m, ToCurrent(m), Named(current_module) # {} => m \in ModuleRow
  PROVE  data' \in Seq(ModuleRow)
<1>1. CASE Named(current_module) = {}
  BY <1>1 DEF ToCurrent, TypeOK
<1>2. CASE Named(current_module) # {}
  <2>1. Here \in DOMAIN data /\ data \in Seq(ModuleRow) /\ m \in ModuleRow
    BY <1>2, HereIs DEF Here, TypeOK
  <2>2. data' = [data EXCEPT ![Here] = m]
    BY <1>2 DEF ToCurrent
  <2> QED
    BY <2>1, <2>2, Replaced
<1> QED
  BY <1>1, <1>2

\* A line stored has its type.
LEMMA LineType ==
  ASSUME TypeOK, NEW r \in CdbRecords, r.type = "line", Parse(r)
  PROVE  Line(r) \in LineRow /\ Line(r).rec = Len(cdb) + 1 /\ Line(r).ext = r.ext
         /\ Line(r).line = r.line
<1>1. Len(cdb') = Len(cdb) + 1 /\ Len(cdb) \in Nat
  BY Appended DEF Parse, TypeOK
<1>2. r.address # NoAddress => r.address % Word \in 0 .. Word - 1
  BY RecordKinds, SymbolFilesAssumption
<1>3. 0 \in 0 .. Word - 1
  BY SymbolFilesAssumption
<1> QED
  BY <1>1, <1>2, <1>3, RecordKinds DEF Line, LineRow

\* Where a local symbol goes: the module and the function in it.
LocalModule(f)   == First(Functions(current_module, f))
LocalFunction(f) == First({k \in DOMAIN data[LocalModule(f)].functions :
                             data[LocalModule(f)].functions[k].name = f})

\* Where a local symbol goes there is a function for it.
LEMMA LocalPlace ==
  ASSUME TypeOK, NEW f, Functions(current_module, f) # {},
         NEW i, i = LocalModule(f), NEW j, j = LocalFunction(f)
  PROVE  /\ i \in DOMAIN data /\ data[i] \in ModuleRow
         /\ i \in Functions(current_module, f)
         /\ j \in DOMAIN data[i].functions /\ data[i].functions[j].name = f
         /\ \A k \in DOMAIN data[i].functions :
              data[i].functions[k].name = f => j <= k
<1> DEFINE J == {k \in DOMAIN data[i].functions : data[i].functions[k].name = f}
<1>1. /\ Functions(current_module, f) \in SUBSET (Nat \ {0})
      /\ Functions(current_module, f) \subseteq DOMAIN data
  BY DEF Functions, Named, TypeOK
<1>2. i \in Functions(current_module, f)
  BY <1>1, FirstIs DEF LocalModule
<1>3. data[i] \in ModuleRow
  BY <1>1, <1>2 DEF TypeOK
<1>4. J \in SUBSET (Nat \ {0}) /\ J # {}
  <2>1. data[i].functions \in Seq(FunctionRow)
    BY <1>3 DEF ModuleRow
  <2>2. DOMAIN data[i].functions \subseteq Nat \ {0}
    BY <2>1
  <2>3. \E k \in DOMAIN data[i].functions : data[i].functions[k].name = f
    BY <1>2 DEF Functions
  <2> QED
    BY <2>2, <2>3
<1>5. First(J) \in J /\ \A k \in J : First(J) <= k
  BY <1>4, FirstIs
<1> QED
  BY <1>1, <1>2, <1>3, <1>5 DEF LocalFunction

\* Row i once its function j has the local symbol of record n.
WithLocal(i, j, n) == [data[i] EXCEPT !.functions[j].locals = Append(@, n)]

\* A local symbol added to its function.
LEMMA LocalAdded ==
  ASSUME TypeOK, NEW f, Functions(current_module, f) # {}, AddLocal(f),
         NEW n \in Nat, Len(cdb') = n, NEW i, i = LocalModule(f),
         NEW j, j = LocalFunction(f), NEW row, row = WithLocal(i, j, n)
  PROVE  data' = [data EXCEPT ![i] = row] /\ row \in ModuleRow
<1>1. /\ i \in DOMAIN data /\ data[i] \in ModuleRow
      /\ j \in DOMAIN data[i].functions
  BY LocalPlace
<1>2. data' = [data EXCEPT ![i] = row]
  BY DEF AddLocal, LocalModule, LocalFunction, WithLocal
<1>3. row \in ModuleRow
  <2>1. data[i].functions \in Seq(FunctionRow)
    BY <1>1 DEF ModuleRow
  <2>2. data[i].functions[j] \in FunctionRow
    <3>1. PICK s : s = data[i].functions
      OBVIOUS
    <3>2. s \in Seq(FunctionRow) /\ j \in DOMAIN s
      BY <1>1, <2>1, <3>1
    <3>3. s[j] \in FunctionRow
      BY <3>2
    <3> QED
      BY <3>1, <3>3
  <2> DEFINE fun == [data[i].functions[j] EXCEPT !.locals = Append(@, n)]
  <2>3. fun \in FunctionRow
    <3>1. data[i].functions[j].locals \in Seq(Nat)
      BY <2>2 DEF FunctionRow
    <3>2. Append(data[i].functions[j].locals, n) \in Seq(Nat)
      BY <3>1, Appended
    <3> QED
      BY <2>2, <3>2 DEF FunctionRow
  <2>4. [data[i].functions EXCEPT ![j] = fun] \in Seq(FunctionRow)
    BY <1>1, <2>1, <2>3, Replaced
  <2>5. row = [data[i] EXCEPT !.functions = [data[i].functions EXCEPT ![j] = fun]]
    BY <1>1 DEF ModuleRow, WithLocal
  <2> HIDE DEF fun
  <2> QED
    BY <1>1, <2>4, <2>5 DEF ModuleRow
<1> QED
  BY <1>2, <1>3

\* Reading a record.
LEMMA ParseFacts ==
  ASSUME TypeOK, NEW r \in CdbRecords, Parse(r)
  PROVE  /\ cdb' \in Seq(CdbRecords) /\ Len(cdb) \in Nat /\ Len(cdb') = Len(cdb) + 1
         /\ DOMAIN cdb = 1 .. Len(cdb) /\ DOMAIN cdb' = 1 .. Len(cdb) + 1
         /\ \A i \in 1 .. Len(cdb) : cdb'[i] = cdb[i]
         /\ cdb'[Len(cdb) + 1] = r
         /\ UNCHANGED <<symbols, segments, reading>>
BY Appended DEF Parse, TypeOK

\* The type invariant is inductive.
LEMMA TypeStep == TypeOK /\ [Next]_vars => TypeOK'
<1> SUFFICES ASSUME TypeOK, [Next]_vars
             PROVE  TypeOK'
  OBVIOUS
<1>1. ASSUME NEW r \in CdbRecords, Parse(r), data' \in Seq(ModuleRow),
             current_module' \in Name \cup {None}
      PROVE  TypeOK'
  BY <1>1, ParseFacts DEF TypeOK
<1>2. ASSUME NEW r \in CdbRecords, ParseModule(r)
      PROVE  TypeOK'
  <2>1. r.name \in Name
    BY <1>2, RecordKinds DEF ParseModule
  <2>2. Module(r.name) \in ModuleRow
    <3>1. \A S : << >> \in Seq(S)
      OBVIOUS
    <3> QED
      BY <2>1, <3>1 DEF Module, ModuleRow
  <2>3. data' \in Seq(ModuleRow)
    BY <1>2, <2>2, Appended DEF ParseModule, TypeOK
  <2> QED
    BY <1>1, <1>2, <2>1, <2>3 DEF ParseModule
<1>3. ASSUME NEW r \in CdbRecords, ParseFunction(r)
      PROVE  TypeOK'
  <2> DEFINE fun == [rec |-> Len(cdb'), name |-> r.name, locals |-> << >>]
             m == [data[Here] EXCEPT !.functions = Append(@, fun)]
  <2>1. fun \in FunctionRow
    BY <1>3, RecordKinds, ParseFacts DEF ParseFunction, FunctionRow
  <2>2. ToCurrent(m)
    BY <1>3 DEF ParseFunction
  <2> HIDE DEF fun
  <2>3. Named(current_module) # {} => m \in ModuleRow
    BY <2>1, HereIs, RowTypes DEF Here
  <2> HIDE DEF m
  <2>4. data' \in Seq(ModuleRow)
    BY <2>2, <2>3, ToCurrentType
  <2> QED
    BY <1>1, <1>3, <2>4 DEF ParseFunction, TypeOK
<1>4. ASSUME NEW r \in CdbRecords, ParseSymbol(r) \/ ParseType(r)
      PROVE  TypeOK'
  <2> DEFINE m(n) == [data[Here] EXCEPT !.symbols = Append(@, n)]
             t(n) == [data[Here] EXCEPT !.types = Append(@, n)]
  <2>1. Parse(r) /\ current_module' = current_module
    BY <1>4 DEF ParseSymbol, ParseType
  <2>2. ToCurrent(m(Len(cdb'))) \/ ToCurrent(t(Len(cdb')))
    BY <1>4 DEF ParseSymbol, ParseType
  <2>3. PICK n \in Nat : Len(cdb') = n
    BY <2>1, ParseFacts
  <2>4. Named(current_module) # {} => m(n) \in ModuleRow /\ t(n) \in ModuleRow
    BY <2>3, HereIs, RowTypes DEF Here
  <2>5. ToCurrent(m(n)) \/ ToCurrent(t(n))
    BY <2>2, <2>3
  <2> HIDE DEF m, t
  <2>6. data' \in Seq(ModuleRow)
    BY <2>4, <2>5, ToCurrentType
  <2> QED
    BY <1>1, <2>1, <2>6 DEF TypeOK
<1>5. ASSUME NEW r \in CdbRecords, ParseLocal(r)
      PROVE  TypeOK'
  <2>1. Parse(r) /\ current_module' = current_module
    BY <1>5 DEF ParseLocal
  <2>2. CASE Functions(current_module, r.function) # {} /\ AddLocal(r.function)
    <3>1. PICK n \in Nat : Len(cdb') = n
      BY <2>1, ParseFacts
    <3>0. PICK f : f = r.function
      OBVIOUS
    <3>2. PICK i : i = LocalModule(f)
      OBVIOUS
    <3>3. PICK j : j = LocalFunction(f)
      OBVIOUS
    <3>4. PICK row : row = WithLocal(i, j, n)
      OBVIOUS
    <3>5. data' \in Seq(ModuleRow)
      <4>1. data' = [data EXCEPT ![i] = row] /\ row \in ModuleRow
        BY <2>2, <3>0, <3>1, <3>2, <3>3, <3>4, LocalAdded
      <4>2. i \in DOMAIN data /\ data \in Seq(ModuleRow)
        BY <2>2, <3>0, <3>2, <3>3, LocalPlace DEF TypeOK
      <4> QED
        BY <4>1, <4>2, Replaced
    <3> QED
      BY <1>1, <2>1, <3>5 DEF TypeOK
  <2>3. CASE data' = data
    BY <1>1, <2>1, <2>3 DEF TypeOK
  <2> QED
    BY <1>5, <2>2, <2>3 DEF ParseLocal
<1>6. ASSUME NEW r \in CdbRecords, ParseLine(r)
      PROVE  TypeOK'
  <2> DEFINE h == First(Named(r.stem))
             m == [data[h] EXCEPT !.file = IF @ = "c" THEN r.ext ELSE @,
                                  !.lines = Append(@, Line(r))]
  <2>1. Parse(r) /\ current_module' = current_module /\ r.type = "line"
    BY <1>6 DEF ParseLine
  <2>0. \/ Named(r.stem) # {} /\ data' = [data EXCEPT ![h] = m]
        \/ data' = data
    BY <1>6 DEF ParseLine
  <2>2. CASE Named(r.stem) # {} /\ data' = [data EXCEPT ![h] = m]
    <3>1. h \in DOMAIN data /\ data[h] \in ModuleRow
      BY <2>2, HereIs
    <3>2. Line(r) \in LineRow /\ r.ext \in {"c", "h"}
      BY <2>1, LineType, RecordKinds
    <3> HIDE DEF h
    <3>3. m \in ModuleRow
      BY <3>1, <3>2, RowTypes
    <3> HIDE DEF m
    <3>4. data' \in Seq(ModuleRow)
      BY <2>2, <3>1, <3>3, Replaced DEF TypeOK
    <3> QED
      BY <1>1, <2>1, <3>4 DEF TypeOK
  <2>3. CASE data' = data
    BY <1>1, <2>1, <2>3 DEF TypeOK
  <2> QED
    BY <2>0, <2>2, <2>3
<1>7. ASSUME NEW r \in CdbRecords, Other(r)
      PROVE  TypeOK'
  BY <1>1, <1>7 DEF Other, TypeOK
<1>8. CASE ReadMap \/ MapSegment \/ Loaded \/ UNCHANGED vars
  BY <1>8 DEF ReadMap, MapSegment, Loaded, vars, TypeOK
<1>9. ASSUME NEW s \in MapRecords, MapSymbol(s)
      PROVE  TypeOK'
  BY <1>9, Appended DEF MapSymbol, TypeOK
<1> QED
  BY <1>2, <1>3, <1>4, <1>5, <1>6, <1>7, <1>8, <1>9 DEF Next

(***************************************************************************)
(* Every state is of its type: the addresses of lines fit 16 bits, and     *)
(* modules, functions and lines carry what their records do.               *)
(***************************************************************************)
THEOREM SymbolTypes == Spec => []TypeOK
  BY TypeInit, TypeStep, PTL DEF Spec

-----------------------------------------------------------------------------
(* Where the file says a record belongs, and where the parser puts it.     *)

\* The place in the list of modules of the one record p adds.
Place(p) == Cardinality(Modules(p)) + 1

(***************************************************************************)
(* The list of modules is that of the M records read, in their order, and  *)
(* the current module is that of the last.                                 *)
(***************************************************************************)
PlaceInv ==
  /\ Len(data) = Cardinality(Modules(Len(cdb) + 1))
  /\ current_module = Current(Len(cdb) + 1)
  /\ \A p \in Modules(Len(cdb) + 1) :
       Place(p) \in DOMAIN data /\ data[Place(p)].name = cdb[p].name
  /\ \A i \in DOMAIN data : \E p \in Modules(Len(cdb) + 1) : i = Place(p)

\* The M records before a position are finitely many.
LEMMA ModulesFinite ==
  ASSUME NEW k \in Nat
  PROVE  /\ IsFiniteSet(Modules(k)) /\ Cardinality(Modules(k)) \in Nat
         /\ Modules(k) \in SUBSET (Nat \ {0}) /\ Modules(k) \subseteq 1 .. k - 1
<1>1. IsFiniteSet(1 .. k - 1)
  BY FS_Interval
<1>2. Modules(k) \in SUBSET (1 .. k - 1)
  BY DEF Modules
<1> QED
  BY <1>1, <1>2, FS_Subset, FS_CardinalityType

\* A later M record adds a later module.
LEMMA PlacesInOrder ==
  ASSUME NEW k \in Nat, NEW p \in Modules(k), NEW q \in Modules(k), p < q
  PROVE  Place(p) < Place(q)
<1>1. p \in Nat /\ q \in Nat
  BY ModulesFinite
<1>2. /\ IsFiniteSet(Modules(p)) /\ Cardinality(Modules(p)) \in Nat
      /\ IsFiniteSet(Modules(q)) /\ Cardinality(Modules(q)) \in Nat
  BY <1>1, ModulesFinite
<1>3. Modules(p) \in SUBSET Modules(q) /\ p \in Modules(q) /\ p \notin Modules(p)
  BY <1>1 DEF Modules
<1>4. /\ Cardinality(Modules(p)) <= Cardinality(Modules(q))
      /\ Cardinality(Modules(p)) # Cardinality(Modules(q))
  BY <1>2, <1>3, FS_Subset
<1> QED
  BY <1>2, <1>4 DEF Place

\* The first module of a name is that of the first M record of the name.
LEMMA FirstNamed ==
  ASSUME TypeOK, PlaceInv, NEW n
  PROVE  LET O == {p \in Modules(Len(cdb) + 1) : cdb[p].name = n} IN
         /\ O = {} <=> Named(n) = {}
         /\ O # {} => First(Named(n)) = Place(First(O))
<1> DEFINE O == {p \in Modules(Len(cdb) + 1) : cdb[p].name = n}
<1>1. Len(cdb) + 1 \in Nat
  BY DEF TypeOK
<1>2. \A p \in O : Place(p) \in Named(n)
  BY DEF PlaceInv, Named
<1>3. \A i \in Named(n) : \E p \in O : i = Place(p)
  BY DEF PlaceInv, Named
<1>4. ASSUME O # {}
      PROVE  First(Named(n)) = Place(First(O))
  <2>1. O \in SUBSET (Nat \ {0})
    BY <1>1, ModulesFinite
  <2>2. First(O) \in O /\ \A p \in O : First(O) <= p
    BY <1>4, <2>1, FirstIs
  <2>3. Named(n) \in SUBSET (Nat \ {0})
    BY DEF Named, TypeOK
  <2>4. ASSUME NEW i \in Named(n)
        PROVE  Place(First(O)) <= i
    <3>1. PICK p \in O : i = Place(p)
      BY <1>3
    <3>2. First(O) <= p /\ First(O) \in Nat /\ p \in Nat
      BY <2>1, <2>2
    <3>3. CASE First(O) = p
      BY <2>3, <3>1, <3>3
    <3>4. CASE First(O) < p
      <4>1. Place(First(O)) < Place(p)
        BY <1>1, <2>2, <3>4, PlacesInOrder
      <4> QED
        BY <2>2, <1>2, <2>3, <3>1, <4>1
    <3> QED
      BY <3>2, <3>3, <3>4
  <2> QED
    BY <1>2, <2>2, <2>3, <2>4, FirstUnique
<1> QED
  BY <1>2, <1>3, <1>4

\* A record read later says nothing of those before it.
LEMMA ModulesStay ==
  ASSUME TypeOK, NEW r \in CdbRecords, Parse(r)
  PROVE  /\ \A k \in 1 .. Len(cdb) + 1 : Modules(k)' = Modules(k)
         /\ \A k \in 1 .. Len(cdb) + 1 : Current(k)' = Current(k)
         /\ \A k \in 1 .. Len(cdb) : Home(k)' = Home(k)
<1>1. /\ Len(cdb) \in Nat /\ \A i \in 1 .. Len(cdb) : cdb'[i] = cdb[i]
  BY ParseFacts
<1>2. ASSUME NEW k \in 1 .. Len(cdb) + 1
      PROVE  /\ {j \in 1 .. k - 1 : cdb'[j].type = "module"} = Modules(k)
             /\ \A j \in Modules(k) : cdb'[j] = cdb[j]
  BY <1>1 DEF Modules
<1>3. ASSUME NEW k \in 1 .. Len(cdb) + 1
      PROVE  Modules(k)' = Modules(k)
  BY <1>2 DEF Modules
<1>4. ASSUME NEW k \in 1 .. Len(cdb) + 1
      PROVE  Current(k)' = Current(k)
  <2>1. CASE Modules(k) = {}
    BY <1>3, <2>1 DEF Current
  <2>2. CASE Modules(k) # {}
    <3>1. k - 1 \in Nat /\ Modules(k) \in SUBSET (1 .. k - 1)
      BY <1>1 DEF Modules
    <3>2. Latest(Modules(k)) \in Modules(k)
      BY <2>2, <3>1, LatestIs
    <3>3. cdb'[Latest(Modules(k))] = cdb[Latest(Modules(k))]
      BY <1>2, <3>2
    <3>4. Modules(k)' = Modules(k)
      BY <1>3
    <3> QED
      BY <2>2, <3>3, <3>4 DEF Current
  <2> QED
    BY <2>1, <2>2
<1>5. ASSUME NEW k \in 1 .. Len(cdb)
      PROVE  Home(k)' = Home(k)
  <2>1. cdb'[k] = cdb[k] /\ Current(k)' = Current(k) /\ k \in 1 .. Len(cdb) + 1
    BY <1>1, <1>4
  <2>2. Owner(k)' = Owner(k)
    BY <2>1 DEF Owner
  <2>3. Modules(k)' = Modules(k) /\ \A j \in Modules(k) : cdb'[j] = cdb[j]
    BY <1>2, <1>3, <2>1
  <2>4. Owners(k)' = Owners(k)
    BY <2>2, <2>3 DEF Owners
  <2>5. CASE Owners(k) = {}
    BY <2>4, <2>5 DEF Home
  <2>6. CASE Owners(k) # {}
    <3>1. Owners(k) \in SUBSET (Nat \ {0}) /\ Owners(k) \subseteq 1 .. Len(cdb)
      BY <1>1 DEF Owners, Modules
    <3>2. First(Owners(k)) \in 1 .. Len(cdb)
      BY <2>6, <3>1, FirstIs
    <3>3. PICK p \in 1 .. Len(cdb) + 1 : p = First(Owners(k))
      BY <1>1, <3>2
    <3>4. Modules(p)' = Modules(p)
      BY <1>3
    <3>5. Home(k) = Cardinality(Modules(p)) + 1
      BY <2>6, <3>3 DEF Home
    <3>6. Home(k)' = Cardinality(Modules(p)') + 1
      BY <2>4, <2>6, <3>3 DEF Home
    <3> QED
      BY <3>4, <3>5, <3>6
  <2> QED
    BY <2>5, <2>6
<1> QED
  BY <1>3, <1>4, <1>5

\* Where the record just read belongs.
LEMMA HomeOfNew ==
  ASSUME TypeOK, PlaceInv, NEW r \in CdbRecords, Parse(r), NEW k, k = Len(cdb) + 1,
         NEW n, n = IF r.type = "line" THEN r.stem ELSE current_module
  PROVE  Home(k)' = IF Named(n) = {} THEN 0 ELSE First(Named(n))
<1> DEFINE O == {p \in Modules(k) : cdb[p].name = n}
<1>1. /\ Len(cdb) \in Nat /\ \A i \in 1 .. Len(cdb) : cdb'[i] = cdb[i]
      /\ cdb'[k] = r
  BY ParseFacts
<1>2. k \in 1 .. Len(cdb) + 1
  BY <1>1
<1>3. Modules(k)' = Modules(k) /\ Current(k)' = current_module
  BY <1>2, ModulesStay DEF PlaceInv
<1>4. Owner(k)' = n
  BY <1>1, <1>2, <1>3 DEF Owner
<1>5. \A p \in Modules(k) : p \in 1 .. Len(cdb)
  BY <1>1, <1>2 DEF Modules
<1>6. Owners(k)' = O
  BY <1>1, <1>2, <1>3, <1>4, <1>5 DEF Owners
<1>7. /\ O = {} <=> Named(n) = {}
      /\ O # {} => First(Named(n)) = Place(First(O))
  BY FirstNamed
<1>8. CASE O = {}
  BY <1>2, <1>6, <1>7, <1>8 DEF Home
<1>9. CASE O # {}
  <2>1. O \in SUBSET (Nat \ {0}) /\ O \subseteq 1 .. Len(cdb)
    BY <1>1, <1>2, <1>5
  <2>2. PICK p \in 1 .. Len(cdb) + 1 : p = First(O)
    <3>1. First(O) \in O
      BY <1>9, <2>1, FirstIs
    <3>2. First(O) \in 1 .. Len(cdb) + 1
      BY <1>1, <2>1, <3>1
    <3> HIDE DEF O
    <3> QED
      BY <3>2
  <2>3. Modules(p)' = Modules(p)
    BY ModulesStay
  <2>4. Home(k)' = Cardinality(Modules(p)') + 1
    BY <1>6, <1>9, <2>2 DEF Home
  <2> QED
    BY <1>2, <1>7, <1>9, <2>2, <2>3, <2>4 DEF Place
<1> QED
  BY <1>8, <1>9

\* The M records up to the one just read.
LEMMA ModulesOfNew ==
  ASSUME TypeOK, NEW r \in CdbRecords, Parse(r), NEW k, k = Len(cdb) + 2
  PROVE  Modules(k)' = Modules(Len(cdb) + 1)
                         \cup (IF r.type = "module" THEN {Len(cdb) + 1} ELSE {})
<1>1. /\ Len(cdb) \in Nat /\ \A i \in 1 .. Len(cdb) : cdb'[i] = cdb[i]
      /\ cdb'[Len(cdb) + 1] = r
  BY ParseFacts
<1>2. 1 .. k - 1 = (1 .. Len(cdb)) \cup {Len(cdb) + 1}
  BY <1>1
<1>3. Modules(Len(cdb) + 1) = {j \in 1 .. Len(cdb) : cdb[j].type = "module"}
  BY <1>1 DEF Modules
<1>4. Modules(k)' = {j \in (1 .. Len(cdb)) \cup {Len(cdb) + 1} : cdb'[j].type = "module"}
  BY <1>2 DEF Modules
<1> QED
  BY <1>1, <1>3, <1>4

\* A record that adds no module leaves the modules' places alone.
LEMMA PlacesStay ==
  ASSUME TypeOK, PlaceInv, NEW r \in CdbRecords, Parse(r), r.type # "module",
         DOMAIN data' = DOMAIN data, Len(data') = Len(data),
         \A i \in DOMAIN data : data'[i].name = data[i].name,
         current_module' = current_module
  PROVE  PlaceInv'
<1>1. PICK k : k = Len(cdb) + 2
  OBVIOUS
<1>2. PICK M : M = Modules(Len(cdb) + 1)
  OBVIOUS
<1>3. Len(cdb') + 1 = k /\ Modules(k)' = M /\ Len(cdb) \in Nat
  <2>1. Modules(k)' = M \cup (IF r.type = "module" THEN {Len(cdb) + 1} ELSE {})
    BY <1>1, <1>2, ModulesOfNew
  <2>2. Modules(k)' = M
    BY <2>1
  <2> QED
    BY <1>1, <2>2, ParseFacts
<1>4. M \in SUBSET (1 .. Len(cdb)) /\ \A p \in M : cdb'[p] = cdb[p]
  BY <1>2, ParseFacts DEF Modules
<1>5. \A p \in M : Place(p)' = Place(p)
  BY <1>3, <1>4, ModulesStay DEF Place
<1>6. Current(k)' = current_module
  <2>1. Current(Len(cdb) + 1) = IF M = {} THEN None ELSE cdb[Latest(M)].name
    BY <1>2 DEF Current
  <2>2. Current(k)' = IF M = {} THEN None ELSE cdb'[Latest(M)].name
    BY <1>3 DEF Current
  <2>3. M # {} => Latest(M) \in M
    BY <1>3, <1>4, LatestIs
  <2> QED
    BY <1>4, <2>1, <2>2, <2>3 DEF PlaceInv
<1>7. /\ Len(data') = Cardinality(M) /\ current_module' = current_module
      /\ \A p \in M : Place(p) \in DOMAIN data' /\ data'[Place(p)].name = cdb'[p].name
      /\ \A i \in DOMAIN data' : \E p \in M : i = Place(p)
  BY <1>2, <1>4 DEF PlaceInv
<1>8. /\ \A p \in M : Place(p)' \in DOMAIN data' /\ data'[Place(p)'].name = cdb'[p].name
      /\ \A i \in DOMAIN data' : \E p \in M : i = Place(p)'
  BY <1>5, <1>7
<1> QED
  BY <1>3, <1>6, <1>7, <1>8 DEF PlaceInv

\* An M record adds its module behind the others.
LEMMA PlaceAdded ==
  ASSUME TypeOK, PlaceInv, NEW r \in CdbRecords, ParseModule(r)
  PROVE  PlaceInv'
<1>1. PICK k : k = Len(cdb) + 2
  OBVIOUS
<1>2. PICK M : M = Modules(Len(cdb) + 1)
  OBVIOUS
<1>3. PICK n : n = Len(cdb) + 1
  OBVIOUS
<1>4. Parse(r) /\ r.type = "module" /\ current_module' = r.name
      /\ data' = Append(data, Module(r.name))
  BY DEF ParseModule
<1>5. /\ Len(cdb') + 1 = k /\ Modules(k)' = M \cup {n} /\ Len(cdb) \in Nat
      /\ cdb'[n] = r
  BY <1>1, <1>2, <1>3, <1>4, ModulesOfNew, ParseFacts
<1>6. M \in SUBSET (1 .. Len(cdb)) /\ \A p \in M : cdb'[p] = cdb[p]
  BY <1>2, <1>4, ParseFacts DEF Modules
<1>7. \A p \in M \cup {n} : Modules(p)' = Modules(p)
  BY <1>3, <1>4, <1>5, <1>6, ModulesStay
<1>8. \A p \in M \cup {n} : Place(p)' = Place(p)
  BY <1>7 DEF Place
<1>9. /\ IsFiniteSet(M) /\ Cardinality(M) \in Nat /\ n \notin M
  BY <1>2, <1>3, <1>5, <1>6, ModulesFinite
<1>10. Place(n) = Len(data) + 1 /\ Len(data) = Cardinality(M)
  BY <1>2, <1>3 DEF Place, PlaceInv
<1>11. /\ Len(data') = Len(data) + 1 /\ DOMAIN data' = DOMAIN data \cup {Len(data) + 1}
       /\ \A i \in DOMAIN data : data'[i] = data[i]
       /\ data'[Len(data) + 1].name = r.name
  BY <1>4 DEF TypeOK, Module
<1>12. Cardinality(M \cup {n}) = Len(data')
  BY <1>9, <1>10, <1>11, FS_AddElement
<1>13. Current(k)' = r.name
  <2>1. Latest(M \cup {n}) = n
    <3>1. \A j \in M \cup {n} : j <= n
      BY <1>3, <1>5, <1>6
    <3>2. n \in Nat /\ M \cup {n} \in SUBSET (1 .. n) /\ M \cup {n} # {}
      <4>1. 1 .. n = (1 .. Len(cdb)) \cup {n}
        BY <1>3, <1>5
      <4>2. M \cup {n} \in SUBSET (1 .. n)
        BY <1>6, <4>1
      <4> QED
        BY <1>3, <1>5, <4>2
    <3>3. Latest(M \cup {n}) \in M \cup {n} /\ n <= Latest(M \cup {n})
      BY <3>2, LatestIs
    <3>4. Latest(M \cup {n}) <= n /\ Latest(M \cup {n}) \in Nat
      BY <3>1, <3>2, <3>3
    <3> QED
      BY <3>2, <3>3, <3>4
  <2> QED
    BY <1>5, <2>1 DEF Current
<1>14. \A p \in M \cup {n} : Place(p) \in DOMAIN data' /\ data'[Place(p)].name = cdb'[p].name
  BY <1>2, <1>5, <1>6, <1>10, <1>11 DEF PlaceInv
<1>15. \A i \in DOMAIN data' : \E p \in M \cup {n} : i = Place(p)
  BY <1>2, <1>10, <1>11 DEF PlaceInv
<1>16. /\ \A p \in M \cup {n} : Place(p)' \in DOMAIN data' /\ data'[Place(p)'].name = cdb'[p].name
       /\ \A i \in DOMAIN data' : \E p \in M \cup {n} : i = Place(p)'
  BY <1>8, <1>14, <1>15
<1> QED
  BY <1>4, <1>5, <1>12, <1>13, <1>16 DEF PlaceInv

-----------------------------------------------------------------------------
(* Records at home. *)

\* A list of records with a later one at its end.
LEMMA HoldsMore ==
  ASSUME NEW s \in Seq(Nat), NEW K, NEW n \in Nat, Holds(s, K), \A k \in K : k < n
  PROVE  Holds(Append(s, n), K \cup {n})
<1>1. PICK t : t = Append(s, n)
  OBVIOUS
<1>2. /\ t \in Seq(Nat) /\ Len(s) \in Nat /\ Len(t) = Len(s) + 1
      /\ DOMAIN s = 1 .. Len(s) /\ DOMAIN t = 1 .. Len(s) + 1
      /\ \A i \in DOMAIN s : t[i] = s[i]
      /\ t[Len(s) + 1] = n
  BY <1>1, Appended
<1>3. {t[j] : j \in DOMAIN t} = K \cup {n}
  <2>1. DOMAIN t = DOMAIN s \cup {Len(s) + 1}
    BY <1>2
  <2>2. {s[j] : j \in DOMAIN s} = K
    BY DEF Holds
  <2>3. ASSUME NEW e \in K
        PROVE  \E j \in DOMAIN t : t[j] = e
    <3>1. PICK j \in DOMAIN s : s[j] = e
      BY <2>2
    <3> QED
      BY <1>2, <2>1, <3>1
  <2>4. ASSUME NEW j \in DOMAIN t
        PROVE  t[j] \in K \cup {n}
    <3>1. CASE j \in DOMAIN s
      BY <1>2, <2>2, <3>1
    <3>2. CASE j = Len(s) + 1
      BY <1>2, <3>2
    <3> QED
      BY <2>1, <3>1, <3>2
  <2>5. \E j \in DOMAIN t : t[j] = n
    BY <1>2, <2>1
  <2> QED
    BY ONLY <2>3, <2>4, <2>5
<1>4. ASSUME NEW j \in 1 .. Len(t) - 1
      PROVE  t[j] < t[j + 1]
  <2>1. j \in 1 .. Len(s) /\ j \in DOMAIN s
    BY <1>2
  <2>2. CASE j = Len(s)
    <3>1. s[j] \in K
      BY <2>1 DEF Holds
    <3>2. t[j] < n
      BY <1>2, <2>1, <3>1
    <3> QED
      BY <1>2, <2>2, <3>2
  <2>3. CASE j \in 1 .. Len(s) - 1
    <3>1. s[j] < s[j + 1] /\ j + 1 \in DOMAIN s
      BY <1>2, <2>3 DEF Holds
    <3> QED
      BY <1>2, <2>1, <3>1
  <2>4. Len(s) \in Nat
    BY <1>2
  <2>5. j = Len(s) \/ j \in 1 .. Len(s) - 1
    BY <2>1, <2>4
  <2> QED
    BY <2>2, <2>3, <2>5
<1> QED
  BY <1>1, <1>3, <1>4 DEF Holds

\* No record in no list.
LEMMA HoldsNone == Holds(<< >>, {})
  BY DEF Holds

\* The records of a longer list of functions or lines.
LEMMA RecsMore ==
  ASSUME NEW S, \A x \in S : x.rec \in Nat, NEW s \in Seq(S), NEW x \in S
  PROVE  /\ Recs(s) \in Seq(Nat)
         /\ Recs(Append(s, x)) = Append(Recs(s), x.rec)
<1>1. Recs(s) \in Seq(Nat) /\ Len(Recs(s)) = Len(s)
  BY DEF Recs
<1> QED
  BY <1>1, Appended DEF Recs

\* What a module holds is what belongs to it.
AtHome(i) ==
  /\ Holds(Recs(data[i].functions), Kept("function", i))
  /\ Holds(data[i].symbols, Kept("symbol", i))
  /\ Holds(data[i].types, Kept("type", i))
  /\ Holds(Recs(data[i].lines), Kept("line", i))

HomeInv == PlaceInv /\ \A i \in DOMAIN data : AtHome(i)

\* A record belongs to a module there is.
LEMMA HomeInRange ==
  ASSUME TypeOK, PlaceInv, NEW k \in 1 .. Len(cdb), Home(k) # 0
  PROVE  Home(k) \in DOMAIN data
<1>1. Owners(k) # {} /\ Home(k) = Place(First(Owners(k)))
  BY DEF Home, Place
<1>2. Len(cdb) \in Nat
  BY DEF TypeOK
<1>3. /\ Owners(k) \in SUBSET (Nat \ {0})
      /\ Owners(k) \subseteq Modules(Len(cdb) + 1)
  BY <1>2 DEF Owners, Modules
<1>4. First(Owners(k)) \in Modules(Len(cdb) + 1)
  BY <1>1, <1>3, FirstIs
<1> QED
  BY <1>1, <1>4 DEF PlaceInv

\* What a module is to hold once a record has been read.
LEMMA KeptMore ==
  ASSUME TypeOK, PlaceInv, NEW r \in CdbRecords, Parse(r), NEW k, k = Len(cdb) + 1,
         NEW h, h = Home(k)', NEW i, NEW type
  PROVE  Kept(type, i)' =
           Kept(type, i) \cup (IF r.type = type /\ h = i THEN {k} ELSE {})
<1>1. /\ Len(cdb) \in Nat /\ \A j \in 1 .. Len(cdb) : cdb'[j] = cdb[j]
      /\ cdb'[k] = r /\ DOMAIN cdb = 1 .. Len(cdb)
      /\ DOMAIN cdb' = (1 .. Len(cdb)) \cup {k}
  <2>1. /\ Len(cdb) \in Nat /\ \A j \in 1 .. Len(cdb) : cdb'[j] = cdb[j]
        /\ cdb'[k] = r /\ DOMAIN cdb = 1 .. Len(cdb)
        /\ DOMAIN cdb' = 1 .. Len(cdb) + 1
    BY ParseFacts
  <2>2. 1 .. Len(cdb) + 1 = (1 .. Len(cdb)) \cup {k}
    BY <2>1
  <2> QED
    BY <2>1, <2>2
<1>2. \A j \in 1 .. Len(cdb) : Home(j)' = Home(j)
  BY ModulesStay
<1>3. Kept(type, i)' = {j \in DOMAIN cdb' : cdb'[j].type = type /\ Home(j)' = i}
  BY DEF Kept
<1>4. {j \in 1 .. Len(cdb) : cdb'[j].type = type /\ Home(j)' = i} = Kept(type, i)
  BY <1>1, <1>2 DEF Kept
<1> QED
  BY <1>1, <1>3, <1>4

\* A list that gets the record read if and only if that belongs to it.
LEMMA ListKept ==
  ASSUME TypeOK, PlaceInv, NEW r \in CdbRecords, Parse(r), NEW k, k = Len(cdb) + 1,
         NEW h, h = Home(k)', NEW i, NEW type,
         NEW s \in Seq(Nat), Holds(s, Kept(type, i)), NEW t,
         t = IF r.type = type /\ h = i THEN Append(s, k) ELSE s
  PROVE  Holds(t, Kept(type, i)')
<1>1. Len(cdb) \in Nat /\ k \in Nat
  BY ParseFacts
<1>2. \A j \in Kept(type, i) : j < k
  BY <1>1 DEF Kept, TypeOK
<1>3. PICK K : K = Kept(type, i)
  OBVIOUS
<1>4. Kept(type, i)' = K \cup (IF r.type = type /\ h = i THEN {k} ELSE {})
  BY <1>3, KeptMore
<1>5. CASE r.type = type /\ h = i
  <2>1. Holds(Append(s, k), K \cup {k})
    BY <1>1, <1>2, <1>3, HoldsMore
  <2> QED
    BY <1>4, <1>5, <2>1
<1>6. CASE ~ (r.type = type /\ h = i)
  <2>1. Kept(type, i)' = K /\ t = s
    BY <1>4, <1>6
  <2> QED
    BY <1>3, <2>1
<1> QED
  BY <1>5, <1>6

\* The record numbers of functions or lines.
LEMMA RecsType ==
  ASSUME NEW S, \A x \in S : x.rec \in Nat, NEW s \in Seq(S)
  PROVE  Recs(s) \in Seq(Nat)
BY DEF Recs

\* The records in a module's lists are numbers.
LEMMA ListTypes ==
  ASSUME TypeOK, NEW i \in DOMAIN data
  PROVE  /\ data[i] \in ModuleRow
         /\ Recs(data[i].functions) \in Seq(Nat) /\ Recs(data[i].lines) \in Seq(Nat)
         /\ data[i].symbols \in Seq(Nat) /\ data[i].types \in Seq(Nat)
<1>1. data[i] \in ModuleRow
  BY DEF TypeOK
<1>2. /\ data[i].functions \in Seq(FunctionRow) /\ data[i].lines \in Seq(LineRow)
      /\ data[i].symbols \in Seq(Nat) /\ data[i].types \in Seq(Nat)
  BY <1>1 DEF ModuleRow
<1>3. /\ \A x \in FunctionRow : x.rec \in Nat
      /\ \A x \in LineRow : x.rec \in Nat
  BY DEF FunctionRow, LineRow
<1>4. Recs(data[i].functions) \in Seq(Nat)
  BY <1>2, <1>3, RecsType
<1>5. Recs(data[i].lines) \in Seq(Nat)
  BY <1>2, <1>3, RecsType
<1> QED
  BY <1>1, <1>2, <1>4, <1>5

\* A module whose lists get what belongs to them.
LEMMA RowKept ==
  ASSUME TypeOK, PlaceInv, NEW r \in CdbRecords, Parse(r), NEW k, k = Len(cdb) + 1,
         NEW h, h = Home(k)', NEW i \in DOMAIN data, AtHome(i), NEW m, m = data'[i],
         Recs(m.functions) = IF r.type = "function" /\ h = i
                               THEN Append(Recs(data[i].functions), k)
                               ELSE Recs(data[i].functions),
         m.symbols = IF r.type = "symbol" /\ h = i
                       THEN Append(data[i].symbols, k) ELSE data[i].symbols,
         m.types = IF r.type = "type" /\ h = i
                     THEN Append(data[i].types, k) ELSE data[i].types,
         Recs(m.lines) = IF r.type = "line" /\ h = i
                           THEN Append(Recs(data[i].lines), k)
                           ELSE Recs(data[i].lines)
  PROVE  AtHome(i)'
<1>1. Holds(Recs(m.functions), Kept("function", i)')
  <2>1. /\ Recs(data[i].functions) \in Seq(Nat)
        /\ Holds(Recs(data[i].functions), Kept("function", i))
    BY ListTypes DEF AtHome
  <2> QED
    BY <2>1, ListKept
<1>2. Holds(m.symbols, Kept("symbol", i)')
  <2>1. data[i].symbols \in Seq(Nat) /\ Holds(data[i].symbols, Kept("symbol", i))
    BY ListTypes DEF AtHome
  <2> QED
    BY <2>1, ListKept
<1>3. Holds(m.types, Kept("type", i)')
  <2>1. data[i].types \in Seq(Nat) /\ Holds(data[i].types, Kept("type", i))
    BY ListTypes DEF AtHome
  <2> QED
    BY <2>1, ListKept
<1>4. Holds(Recs(m.lines), Kept("line", i)')
  <2>1. /\ Recs(data[i].lines) \in Seq(Nat)
        /\ Holds(Recs(data[i].lines), Kept("line", i))
    BY ListTypes DEF AtHome
  <2> QED
    BY <2>1, ListKept
<1> QED
  BY <1>1, <1>2, <1>3, <1>4 DEF AtHome

\* What module i gets of the record r, the k-th, that belongs to module h.
Gets(r, k, h, i) ==
  LET old == data[i]
      new == data'[i]
  IN /\ new.name = old.name
     /\ Recs(new.functions) = IF r.type = "function" /\ h = i
                                THEN Append(Recs(old.functions), k) ELSE Recs(old.functions)
     /\ new.symbols = IF r.type = "symbol" /\ h = i
                        THEN Append(old.symbols, k) ELSE old.symbols
     /\ new.types = IF r.type = "type" /\ h = i
                      THEN Append(old.types, k) ELSE old.types
     /\ Recs(new.lines) = IF r.type = "line" /\ h = i
                            THEN Append(Recs(old.lines), k) ELSE Recs(old.lines)

\* A record that adds no module, given to the one it belongs to.
LEMMA HomeKept ==
  ASSUME TypeOK, HomeInv, NEW r \in CdbRecords, Parse(r), r.type # "module",
         current_module' = current_module, DOMAIN data' = DOMAIN data,
         Len(data') = Len(data), NEW k, k = Len(cdb) + 1, NEW h, h = Home(k)',
         \A i \in DOMAIN data : Gets(r, k, h, i)
  PROVE  HomeInv'
<1>1. PlaceInv /\ \A i \in DOMAIN data : AtHome(i)
  BY DEF HomeInv
<1>2. \A i \in DOMAIN data : data'[i].name = data[i].name
  BY DEF Gets
<1>3. PlaceInv'
  BY <1>1, <1>2, PlacesStay
<1>4. ASSUME NEW i \in DOMAIN data
      PROVE  AtHome(i)'
  <2>1. AtHome(i) /\ Gets(r, k, h, i)
    BY <1>1
  <2>2. PICK m : m = data'[i]
    OBVIOUS
  <2>3. /\ Recs(m.functions) = IF r.type = "function" /\ h = i
                                 THEN Append(Recs(data[i].functions), k)
                                 ELSE Recs(data[i].functions)
        /\ m.symbols = IF r.type = "symbol" /\ h = i
                         THEN Append(data[i].symbols, k) ELSE data[i].symbols
        /\ m.types = IF r.type = "type" /\ h = i
                       THEN Append(data[i].types, k) ELSE data[i].types
        /\ Recs(m.lines) = IF r.type = "line" /\ h = i
                             THEN Append(Recs(data[i].lines), k)
                             ELSE Recs(data[i].lines)
    BY <2>1, <2>2 DEF Gets
  <2> QED
    BY <1>1, <2>1, <2>2, <2>3, RowKept
<1> QED
  BY <1>3, <1>4 DEF HomeInv

\* A row that got record k, of text r, in place of the row old.
Given(r, k, old, new) ==
  /\ new.name = old.name
  /\ Recs(new.functions) = IF r.type = "function"
                             THEN Append(Recs(old.functions), k) ELSE Recs(old.functions)
  /\ new.symbols = IF r.type = "symbol" THEN Append(old.symbols, k) ELSE old.symbols
  /\ new.types = IF r.type = "type" THEN Append(old.types, k) ELSE old.types
  /\ Recs(new.lines) = IF r.type = "line"
                         THEN Append(Recs(old.lines), k) ELSE Recs(old.lines)

\* One module's row is replaced by one that got the record.
LEMMA RowGiven ==
  ASSUME TypeOK, HomeInv, NEW r \in CdbRecords, Parse(r), r.type # "module",
         current_module' = current_module, NEW k, k = Len(cdb) + 1,
         NEW n, n = IF r.type = "line" THEN r.stem ELSE current_module,
         NEW h, h = First(Named(n)), NEW m,
         data' = IF Named(n) = {} THEN data ELSE [data EXCEPT ![h] = m],
         Named(n) # {} => Given(r, k, data[h], m)
  PROVE  HomeInv'
<1>1. PICK g : g = Home(k)'
  OBVIOUS
<1>2. g = IF Named(n) = {} THEN 0 ELSE h
  <2>1. PlaceInv
    BY DEF HomeInv
  <2> QED
    BY <1>1, <2>1, HomeOfNew
<1>3. data \in Seq(ModuleRow) /\ \A i \in DOMAIN data : i # 0
  BY DEF TypeOK
<1>4. CASE Named(n) = {}
  <2>1. data' = data /\ g = 0
    BY <1>2, <1>4
  <2>2. ASSUME NEW i \in DOMAIN data
        PROVE  Gets(r, k, g, i)
    BY <1>3, <2>1 DEF Gets
  <2> QED
    BY <1>1, <2>1, <2>2, HomeKept
<1>5. CASE Named(n) # {}
  <2>1. data' = [data EXCEPT ![h] = m] /\ g = h
    BY <1>2, <1>5
  <2>2. h \in DOMAIN data
    BY <1>5, HereIs
  <2>3. /\ DOMAIN data' = DOMAIN data /\ Len(data') = Len(data)
        /\ data'[h] = m /\ \A i \in DOMAIN data : i # h => data'[i] = data[i]
    BY <1>3, <2>1, <2>2
  <2>4. ASSUME NEW i \in DOMAIN data
        PROVE  Gets(r, k, g, i)
    <3>1. CASE i = h
      BY <1>5, <2>1, <2>3, <3>1 DEF Gets, Given
    <3>2. CASE i # h
      BY <2>1, <2>3, <3>2 DEF Gets
    <3> QED
      BY <3>1, <3>2
  <2> QED
    BY <1>1, <2>3, <2>4, HomeKept
<1> QED
  BY <1>4, <1>5

\* An M record: the modules there are keep what they hold, the new one is empty.
LEMMA HomeModule ==
  ASSUME TypeOK, HomeInv, NEW r \in CdbRecords, ParseModule(r)
  PROVE  HomeInv'
<1>1. /\ Parse(r) /\ r.type = "module" /\ data' = Append(data, Module(r.name))
      /\ PlaceInv /\ \A i \in DOMAIN data : AtHome(i)
  BY DEF ParseModule, HomeInv
<1>2. PlaceInv'
  BY <1>1, PlaceAdded
<1>3. /\ Len(data) \in Nat /\ DOMAIN data = 1 .. Len(data)
      /\ DOMAIN data' = 1 .. Len(data) + 1
      /\ \A i \in DOMAIN data : data'[i] = data[i]
      /\ data'[Len(data) + 1] = Module(r.name)
  BY <1>1 DEF TypeOK
<1>4. PICK k : k = Len(cdb) + 1
  OBVIOUS
<1>5. PICK h : h = Home(k)'
  OBVIOUS
<1>6. ASSUME NEW i \in DOMAIN data
      PROVE  AtHome(i)'
  <2>1. AtHome(i)
    BY <1>1
  <2>2. PICK m : m = data'[i]
    OBVIOUS
  <2>3. m = data[i]
    BY <1>3, <2>2
  <2>4. /\ Recs(m.functions) = Recs(data[i].functions) /\ m.symbols = data[i].symbols
        /\ m.types = data[i].types /\ Recs(m.lines) = Recs(data[i].lines)
    BY <2>3
  <2> QED
    BY <1>1, <1>4, <1>5, <2>1, <2>2, <2>4, RowKept
<1>7. ASSUME NEW i, i = Len(data) + 1
      PROVE  AtHome(i)'
  <2>1. ASSUME NEW type, type # "module"
        PROVE  Kept(type, i)' = {}
    <3>1. Kept(type, i)' = Kept(type, i) \cup (IF r.type = type /\ h = i THEN {k} ELSE {})
      BY <1>1, <1>4, <1>5, KeptMore
    <3>2. i # 0 /\ i \notin DOMAIN data
      BY <1>3, <1>7
    <3>3. ASSUME NEW j \in DOMAIN cdb
          PROVE  Home(j) # i
      BY <1>1, <3>2, HomeInRange DEF TypeOK
    <3>4. Kept(type, i) = {}
      BY <3>3 DEF Kept
    <3> QED
      BY <1>1, <2>1, <3>1, <3>4
  <2>2. PICK m : m = data'[i]
    OBVIOUS
  <2>3. /\ Recs(m.functions) = << >> /\ m.symbols = << >> /\ m.types = << >>
        /\ Recs(m.lines) = << >>
    BY <1>3, <1>7, <2>2 DEF Module, Recs
  <2>4. /\ Kept("function", i)' = {} /\ Kept("symbol", i)' = {}
        /\ Kept("type", i)' = {} /\ Kept("line", i)' = {}
    BY <2>1
  <2> QED
    BY <2>2, <2>3, <2>4, HoldsNone DEF AtHome
<1>8. \A i \in DOMAIN data' : i \in DOMAIN data \/ i = Len(data) + 1
  BY <1>3
<1> QED
  BY <1>2, <1>6, <1>7, <1>8 DEF HomeInv

\* A record the parser leaves alone.
LEMMA HomeAlone ==
  ASSUME TypeOK, HomeInv, NEW r \in CdbRecords, Parse(r), data' = data,
         current_module' = current_module,
         r.type \in {"local", "other"} \/ (r.type = "line" /\ Named(r.stem) = {})
  PROVE  HomeInv'
<1>1. PICK k : k = Len(cdb) + 1
  OBVIOUS
<1>2. PICK h : h = Home(k)'
  OBVIOUS
<1>3. r.type = "line" => h = 0
  <2>1. PlaceInv
    BY DEF HomeInv
  <2>2. ASSUME r.type = "line"
        PROVE  h = 0
    <3>1. PICK n : n = r.stem
      OBVIOUS
    <3>2. Home(k)' = IF Named(n) = {} THEN 0 ELSE First(Named(n))
      BY <1>1, <2>1, <2>2, <3>1, HomeOfNew
    <3> QED
      BY <1>2, <2>2, <3>1, <3>2
  <2> QED
    BY <2>2
<1>4. ASSUME NEW i \in DOMAIN data
      PROVE  Gets(r, k, h, i)
  <2>1. i # 0
    BY DEF TypeOK
  <2> QED
    BY <1>3, <2>1 DEF Gets
<1> QED
  BY <1>1, <1>2, <1>4, HomeKept

\* Without a current module there is no module at all.
LEMMA NoModule ==
  ASSUME TypeOK, PlaceInv, current_module = None, NEW n
  PROVE  Named(n) = {}
<1>1. PICK M : M = Modules(Len(cdb) + 1)
  OBVIOUS
<1>2. Len(cdb) + 1 \in Nat /\ M \subseteq DOMAIN cdb /\ \A p \in M : cdb[p].type = "module"
  BY <1>1 DEF Modules, TypeOK
<1>3. M = {}
  <2>1. SUFFICES ASSUME M # {}
                 PROVE  FALSE
    OBVIOUS
  <2>2. Latest(M) \in M
    <3>1. PICK e \in Nat : e = Len(cdb)
      BY <1>2 DEF TypeOK
    <3>2. M \in SUBSET (1 .. e)
      BY <1>2, <3>1 DEF TypeOK
    <3> QED
      BY <2>1, <3>1, <3>2, LatestIs
  <2>3. cdb[Latest(M)].name = None
    BY <1>1, <2>1 DEF PlaceInv, Current
  <2>4. cdb[Latest(M)] \in CdbRecords
    BY <1>2, <2>2 DEF TypeOK
  <2> QED
    BY <1>2, <2>2, <2>3, <2>4, RecordKinds, SymbolFilesAssumption
<1> QED
  BY <1>1, <1>3 DEF PlaceInv, Named

\* A local symbol changes no list of records.
LEMMA HomeLocal ==
  ASSUME TypeOK, HomeInv, NEW r \in CdbRecords, ParseLocal(r)
  PROVE  HomeInv'
<1>1. Parse(r) /\ r.type = "local" /\ current_module' = current_module
  BY DEF ParseLocal
<1>2. CASE data' = data
  <2>1. r.type \in {"local", "other"} \/ (r.type = "line" /\ Named(r.stem) = {})
    BY <1>1
  <2> QED
    BY <1>1, <1>2, <2>1, HomeAlone
<1>3. CASE Functions(current_module, r.function) # {} /\ AddLocal(r.function)
  <2>1. PICK k : k = Len(cdb) + 1
    OBVIOUS
  <2>2. PICK h : h = Home(k)'
    OBVIOUS
  <2>3. PICK f : f = r.function
    OBVIOUS
  <2>4. PICK i : i = LocalModule(f)
    OBVIOUS
  <2>5. PICK j : j = LocalFunction(f)
    OBVIOUS
  <2>6. PICK n \in Nat : Len(cdb') = n
    BY <1>1, ParseFacts
  <2>0. Functions(current_module, f) # {} /\ AddLocal(f)
    BY <1>3, <2>3
  <2>7. /\ i \in DOMAIN data /\ data[i] \in ModuleRow /\ j \in DOMAIN data[i].functions
    BY <2>0, <2>4, <2>5, LocalPlace
  <2>12. PICK row : row = WithLocal(i, j, n)
    OBVIOUS
  <2>8. /\ data' \in Seq(ModuleRow) /\ Len(data') = Len(data)
        /\ \A p \in DOMAIN data : p # i => data'[p] = data[p]
        /\ data'[i] = row /\ row \in ModuleRow
    <3>0. row \in ModuleRow
      BY <2>0, <2>4, <2>5, <2>6, <2>12, LocalAdded
    <3>1. data' = [data EXCEPT ![i] = row]
      BY <2>0, <2>4, <2>5, <2>6, <2>12 DEF AddLocal, LocalModule, LocalFunction, WithLocal
    <3>2. data \in Seq(ModuleRow)
      BY DEF TypeOK
    <3> QED
      BY <2>7, <3>0, <3>1, <3>2, Replaced
  <2>9. DOMAIN data' = DOMAIN data
    BY <2>8 DEF TypeOK
  <2>10. /\ data'[i].name = data[i].name /\ data'[i].symbols = data[i].symbols
         /\ data'[i].types = data[i].types /\ data'[i].lines = data[i].lines
    BY <2>7, <2>8, <2>12 DEF ModuleRow, WithLocal
  <2>11. Recs(data'[i].functions) = Recs(data[i].functions)
    <3>1. data'[i].functions = [data[i].functions EXCEPT ![j].locals = Append(@, n)]
      BY <2>7, <2>8, <2>12 DEF ModuleRow, WithLocal
    <3>2. data[i].functions \in Seq(FunctionRow)
      BY <2>7 DEF ModuleRow
    <3>3. DOMAIN data'[i].functions = DOMAIN data[i].functions
      BY <3>1, <3>2
    <3>4. ASSUME NEW p \in DOMAIN data[i].functions
          PROVE  data'[i].functions[p].rec = data[i].functions[p].rec
      <4>1. data[i].functions[p] \in FunctionRow
        BY <3>2
      <4>2. CASE p = j
        BY <3>1, <3>2, <4>1, <4>2 DEF FunctionRow
      <4>3. CASE p # j
        BY <3>1, <3>2, <4>3
      <4> QED
        BY <4>2, <4>3
    <3> QED
      BY <3>3, <3>4 DEF Recs
  <2>13. ASSUME NEW p \in DOMAIN data
         PROVE  Gets(r, k, h, p)
    <3>1. CASE p = i
      BY <1>1, <2>10, <2>11, <3>1 DEF Gets
    <3>2. CASE p # i
      BY <1>1, <2>8, <3>2 DEF Gets
    <3> QED
      BY <3>1, <3>2
  <2> QED
    BY <1>1, <2>1, <2>2, <2>8, <2>9, <2>13, HomeKept
<1> QED
  BY <1>2, <1>3 DEF ParseLocal

\* What belongs where depends on the records read alone.
LEMMA KeptStays ==
  ASSUME UNCHANGED cdb
  PROVE  /\ \A k : Modules(k)' = Modules(k) /\ Current(k)' = Current(k)
         /\ \A type, i : Kept(type, i)' = Kept(type, i)
<1>1. ASSUME NEW k
      PROVE  Modules(k)' = Modules(k) /\ Current(k)' = Current(k)
  BY DEF Modules, Current
<1>2. ASSUME NEW k
      PROVE  Home(k)' = Home(k)
  <2>1. Owner(k)' = Owner(k)
    BY DEF Owner, Current, Modules
  <2>2. Owners(k)' = Owners(k)
    BY <2>1 DEF Owners, Modules
  <2> QED
    BY <2>2 DEF Home, Modules
<1>3. ASSUME NEW type, NEW i
      PROVE  Kept(type, i)' = Kept(type, i)
  BY <1>2 DEF Kept
<1> QED
  BY <1>1, <1>3

\* HomeInv is inductive.
LEMMA HomeStep == TypeOK /\ HomeInv /\ [Next]_vars => HomeInv'
<1> SUFFICES ASSUME TypeOK, HomeInv, [Next]_vars
             PROVE  HomeInv'
  OBVIOUS
<1>1. ASSUME NEW r \in CdbRecords, ParseModule(r)
      PROVE  HomeInv'
  BY <1>1, HomeModule
<1>2. PICK k : k = Len(cdb) + 1
  OBVIOUS
<1>3. PICK c : c = current_module
  OBVIOUS
<1>4. PICK h : h = First(Named(c))
  OBVIOUS
<1>5. h = Here
  BY <1>3, <1>4 DEF Here
<1>6. Named(c) # {} => data[h] \in ModuleRow
  BY <1>4, HereIs
<1>7. ASSUME NEW r \in CdbRecords, ParseFunction(r)
      PROVE  HomeInv'
  <2>1. PICK fun : fun = [rec |-> Len(cdb'), name |-> r.name, locals |-> << >>]
    OBVIOUS
  <2>2. PICK m : m = [data[h] EXCEPT !.functions = Append(@, fun)]
    OBVIOUS
  <2>3. /\ Parse(r) /\ r.type = "function" /\ current_module' = current_module
        /\ data' = IF Named(c) = {} THEN data ELSE [data EXCEPT ![h] = m]
    BY <1>3, <1>5, <1>7, <2>1, <2>2 DEF ParseFunction, ToCurrent
  <2>4. fun \in FunctionRow /\ fun.rec = k
    BY <1>2, <2>1, <2>3, RecordKinds, ParseFacts DEF FunctionRow
  <2>5. ASSUME Named(c) # {}
        PROVE  /\ m.name = data[h].name /\ m.symbols = data[h].symbols
               /\ m.types = data[h].types /\ m.lines = data[h].lines
               /\ Recs(m.functions) = Append(Recs(data[h].functions), k)
    <3>1. data[h].functions \in Seq(FunctionRow) /\ data[h] \in ModuleRow
      BY <1>6, <2>5 DEF ModuleRow
    <3>2. m.functions = Append(data[h].functions, fun)
      BY <2>2, <3>1 DEF ModuleRow
    <3>3. \A x \in FunctionRow : x.rec \in Nat
      BY DEF FunctionRow
    <3>4. Recs(Append(data[h].functions, fun)) = Append(Recs(data[h].functions), k)
      BY <2>4, <3>1, <3>3, RecsMore
    <3> QED
      BY <2>2, <3>1, <3>2, <3>4 DEF ModuleRow
  <2>6. r.type # "module" /\ c = IF r.type = "line" THEN r.stem ELSE current_module
    BY <1>3, <2>3
  <2>7. Named(c) # {} => Given(r, k, data[h], m)
    BY <2>3, <2>5 DEF Given
  <2> QED
    BY <1>2, <1>4, <2>3, <2>6, <2>7, RowGiven
<1>8. ASSUME NEW r \in CdbRecords, ParseSymbol(r)
      PROVE  HomeInv'
  <2>1. PICK m : m = [data[h] EXCEPT !.symbols = Append(@, k)]
    OBVIOUS
  <2>2. /\ Parse(r) /\ r.type = "symbol" /\ current_module' = current_module
        /\ ToCurrent([data[Here] EXCEPT !.symbols = Append(@, Len(cdb'))])
    BY <1>8 DEF ParseSymbol
  <2>3. data' = IF Named(c) = {} THEN data ELSE [data EXCEPT ![h] = m]
    BY <1>2, <1>3, <1>5, <2>1, <2>2, ParseFacts DEF ToCurrent
  <2>4. ASSUME Named(c) # {}
        PROVE  /\ m.name = data[h].name /\ m.functions = data[h].functions
               /\ m.types = data[h].types /\ m.lines = data[h].lines
               /\ m.symbols = Append(data[h].symbols, k)
    BY <1>6, <2>1, <2>4 DEF ModuleRow
  <2>5. r.type = "symbol"
    BY <2>2
  <2>6. r.type # "module" /\ c = IF r.type = "line" THEN r.stem ELSE current_module
    BY <1>3, <2>2
  <2>7. Named(c) # {} => Given(r, k, data[h], m)
    <3>1. r.type # "function" /\ r.type # "type" /\ r.type # "line"
      BY <2>5
    <3>2. ASSUME Named(c) # {}
          PROVE  Recs(m.functions) = Recs(data[h].functions) /\ Recs(m.lines) = Recs(data[h].lines)
      BY <2>4, <3>2
    <3> QED
      BY <2>4, <2>5, <3>1, <3>2 DEF Given
  <2> QED
    BY <1>2, <1>4, <2>2, <2>3, <2>6, <2>7, RowGiven
<1>9. ASSUME NEW r \in CdbRecords, ParseType(r)
      PROVE  HomeInv'
  <2>1. PICK m : m = [data[h] EXCEPT !.types = Append(@, k)]
    OBVIOUS
  <2>2. /\ Parse(r) /\ r.type = "type" /\ current_module' = current_module
        /\ ToCurrent([data[Here] EXCEPT !.types = Append(@, Len(cdb'))])
    BY <1>9 DEF ParseType
  <2>3. data' = IF Named(c) = {} THEN data ELSE [data EXCEPT ![h] = m]
    BY <1>2, <1>3, <1>5, <2>1, <2>2, ParseFacts DEF ToCurrent
  <2>4. ASSUME Named(c) # {}
        PROVE  /\ m.name = data[h].name /\ m.functions = data[h].functions
               /\ m.symbols = data[h].symbols /\ m.lines = data[h].lines
               /\ m.types = Append(data[h].types, k)
    BY <1>6, <2>1, <2>4 DEF ModuleRow
  <2>5. r.type = "type"
    BY <2>2
  <2>6. r.type # "module" /\ c = IF r.type = "line" THEN r.stem ELSE current_module
    BY <1>3, <2>2
  <2>7. Named(c) # {} => Given(r, k, data[h], m)
    <3>1. r.type # "function" /\ r.type # "symbol" /\ r.type # "line"
      BY <2>5
    <3>2. ASSUME Named(c) # {}
          PROVE  Recs(m.functions) = Recs(data[h].functions) /\ Recs(m.lines) = Recs(data[h].lines)
      BY <2>4, <3>2
    <3> QED
      BY <2>4, <2>5, <3>1, <3>2 DEF Given
  <2> QED
    BY <1>2, <1>4, <2>2, <2>3, <2>6, <2>7, RowGiven
<1>10. ASSUME NEW r \in CdbRecords, ParseLine(r)
       PROVE  HomeInv'
  <2>1. Parse(r) /\ r.type = "line" /\ current_module' = current_module
    BY <1>10 DEF ParseLine
  <2>2. PICK n : n = r.stem
    OBVIOUS
  <2>3. PICK there : there = First(Named(n))
    OBVIOUS
  <2>4. PICK m : m = [data[there] EXCEPT !.file = IF @ = "c" THEN r.ext ELSE @,
                                         !.lines = Append(@, Line(r))]
    OBVIOUS
  <2>5. current_module = None => Named(n) = {}
    BY NoModule DEF HomeInv
  <2>6. data' = IF Named(n) = {} THEN data ELSE [data EXCEPT ![there] = m]
    BY <1>10, <2>2, <2>3, <2>4, <2>5 DEF ParseLine
  <2>7. ASSUME Named(n) # {}
        PROVE  /\ m.name = data[there].name /\ m.functions = data[there].functions
               /\ m.symbols = data[there].symbols /\ m.types = data[there].types
               /\ Recs(m.lines) = Append(Recs(data[there].lines), k)
    <3>1. data[there] \in ModuleRow
      BY <2>3, <2>7, HereIs
    <3>2. data[there].lines \in Seq(LineRow)
      BY <3>1 DEF ModuleRow
    <3>3. Line(r) \in LineRow /\ Line(r).rec = k
      BY <1>2, <2>1, LineType
    <3>4. \A x \in LineRow : x.rec \in Nat
      BY DEF LineRow
    <3>5. Recs(Append(data[there].lines, Line(r))) = Append(Recs(data[there].lines), k)
      BY <3>2, <3>3, <3>4, RecsMore
    <3> QED
      BY <2>4, <3>1, <3>5 DEF ModuleRow
  <2>8. Named(n) # {} => Given(r, k, data[there], m)
    BY <2>1, <2>7 DEF Given
  <2>9. r.type # "module" /\ n = IF r.type = "line" THEN r.stem ELSE current_module
    BY <2>1, <2>2
  <2> QED
    BY <1>2, <2>1, <2>3, <2>6, <2>8, <2>9, RowGiven
<1>11. ASSUME NEW r \in CdbRecords, Other(r)
       PROVE  HomeInv'
  <2>1. Parse(r) /\ data' = data /\ current_module' = current_module
    BY <1>11 DEF Other
  <2>2. r.type \in {"local", "other"} \/ (r.type = "line" /\ Named(r.stem) = {})
    BY <1>11 DEF Other
  <2> QED
    BY <2>1, <2>2, HomeAlone
<1>12. ASSUME NEW r \in CdbRecords, ParseLocal(r)
       PROVE  HomeInv'
  BY <1>12, HomeLocal
<1>13. ASSUME UNCHANGED <<cdb, current_module, data>>
       PROVE  HomeInv'
  <2>1. /\ \A b : Modules(b)' = Modules(b) /\ Current(b)' = Current(b)
        /\ \A type, i : Kept(type, i)' = Kept(type, i)
    BY <1>13, KeptStays
  <2>2. PlaceInv'
    <3>1. PICK n \in Nat : n = Len(cdb) + 1
      BY DEF TypeOK
    <3>2. Len(cdb') + 1 = n /\ Modules(n)' = Modules(n) /\ Current(n)' = Current(n)
      BY <1>13, <2>1, <3>1
    <3>3. \A p \in Modules(n) : Place(p)' = Place(p)
      <4>1. Modules(n) \subseteq Nat
        BY ModulesFinite
      <4> QED
        BY <2>1, <4>1 DEF Place
    <3>4. PlaceInv
      BY DEF HomeInv
    <3> QED
      BY <1>13, <3>1, <3>2, <3>3, <3>4 DEF PlaceInv
  <2>5. ASSUME NEW i \in DOMAIN data
        PROVE  AtHome(i)'
    <3>1. AtHome(i)
      BY DEF HomeInv
    <3> QED
      BY <1>13, <2>1, <3>1 DEF AtHome
  <2> QED
    BY <1>13, <2>2, <2>5 DEF HomeInv
<1> QED
  BY <1>1, <1>7, <1>8, <1>9, <1>10, <1>11, <1>12, <1>13
  DEF Next, ReadMap, MapSymbol, MapSegment, Loaded, vars

\* HomeInv holds at first: nothing is read.
LEMMA HomeInit == Init => HomeInv
<1> SUFFICES ASSUME Init
             PROVE  HomeInv
  OBVIOUS
<1>1. cdb = << >> /\ data = << >> /\ current_module = None /\ Len(cdb) = 0
  BY DEF Init
<1>2. Modules(1) = {} /\ Len(cdb) + 1 = 1
  BY <1>1 DEF Modules
<1>3. Current(1) = None
  BY <1>2 DEF Current
<1>4. Cardinality(Modules(1)) = 0
  BY <1>2, FS_EmptySet
<1> QED
  BY <1>1, <1>2, <1>3, <1>4 DEF HomeInv, PlaceInv

(***************************************************************************)
(* Every record is where the file says it belongs, in the order of the     *)
(* file, for CDB files of any length: the loops of cdb_parser.cpp that find*)
(* a module by name, record after record, are faithful to it.              *)
(***************************************************************************)
THEOREM RecordsKept == Spec => []RecordsAtHome
<1>1. HomeInv => RecordsAtHome
  BY DEF HomeInv, PlaceInv, AtHome, RecordsAtHome
<1> QED
  BY <1>1, HomeInit, HomeStep, SymbolTypes, PTL DEF Spec

-----------------------------------------------------------------------------
(* Files and lines. *)

\* A line is kept as its record has it.
LineInv ==
  \A i \in DOMAIN data : \A j \in DOMAIN data[i].lines :
    LET l == data[i].lines[j] IN
    /\ l.rec \in DOMAIN cdb
    /\ l.ext = cdb[l.rec].ext /\ l.line = cdb[l.rec].line

\* A line given to a module or to none, and whatever leaves the lines alone.
LEMMA LineStep == TypeOK /\ HomeInv /\ LineInv /\ FileOfModule /\ [Next]_vars
                    => LineInv' /\ FileOfModule'
<1> SUFFICES ASSUME TypeOK, HomeInv, LineInv, FileOfModule, [Next]_vars
             PROVE  LineInv' /\ FileOfModule'
  OBVIOUS
<1>1. PICK k : k = Len(cdb) + 1
  OBVIOUS
<1>2. PICK h : h = Home(k)'
  OBVIOUS
<1>3. PlaceInv /\ data \in Seq(ModuleRow)
  BY DEF HomeInv, TypeOK
\* A row that keeps its lines and its file.
<1>4. ASSUME NEW r \in CdbRecords, Parse(r), NEW i \in DOMAIN data,
             data'[i].lines = data[i].lines, data'[i].file = data[i].file,
             r.type = "line" => h # i
      PROVE  /\ \A j \in DOMAIN data'[i].lines :
                  LET l == data'[i].lines[j] IN
                  /\ l.rec \in DOMAIN cdb'
                  /\ l.ext = cdb'[l.rec].ext /\ l.line = cdb'[l.rec].line
             /\ data'[i].file = IF \E p \in Kept("line", i)' : cdb'[p].ext = "h"
                                  THEN "h" ELSE "c"
  <2>1. PICK K : K = Kept("line", i)
    OBVIOUS
  <2>2. Kept("line", i)' = K \cup (IF r.type = "line" /\ h = i THEN {k} ELSE {})
    BY <1>1, <1>2, <1>3, <1>4, <2>1, KeptMore
  <2>3. Kept("line", i)' = K /\ K \subseteq DOMAIN cdb
    BY <1>4, <2>1, <2>2 DEF Kept
  <2>4. \A p \in DOMAIN cdb : p \in DOMAIN cdb' /\ cdb'[p] = cdb[p]
    BY <1>4, ParseFacts
  <2>5. data[i].file = IF \E p \in K : cdb[p].ext = "h" THEN "h" ELSE "c"
    BY <2>1 DEF FileOfModule
  <2>6. (\E p \in K : cdb'[p].ext = "h") <=> (\E p \in K : cdb[p].ext = "h")
    BY <2>3, <2>4
  <2>7. data'[i].file = IF \E p \in Kept("line", i)' : cdb'[p].ext = "h"
                           THEN "h" ELSE "c"
    BY <1>4, <2>3, <2>5, <2>6
  <2>8. \A j \in DOMAIN data[i].lines :
          LET l == data[i].lines[j] IN
          l.rec \in DOMAIN cdb /\ l.ext = cdb[l.rec].ext /\ l.line = cdb[l.rec].line
    BY DEF LineInv
  <2> QED
    BY <1>4, <2>4, <2>7, <2>8
\* Every row does.
<1>5. ASSUME NEW r \in CdbRecords, Parse(r), DOMAIN data' = DOMAIN data,
             \A i \in DOMAIN data : /\ data'[i].lines = data[i].lines
                                    /\ data'[i].file = data[i].file,
             r.type = "line" => h = 0
      PROVE  LineInv' /\ FileOfModule'
  <2>1. \A i \in DOMAIN data : r.type = "line" => h # i
    BY <1>3, <1>5
  <2> QED
    BY <1>4, <1>5, <2>1 DEF LineInv, FileOfModule
<1>6. ASSUME NEW r \in CdbRecords, Parse(r), r.type # "line", NEW i \in DOMAIN data,
             NEW m, data' = [data EXCEPT ![i] = m], m.lines = data[i].lines,
             m.file = data[i].file
      PROVE  LineInv' /\ FileOfModule'
  <2>1. /\ DOMAIN data' = DOMAIN data
        /\ \A p \in DOMAIN data : /\ data'[p].lines = data[p].lines
                                  /\ data'[p].file = data[p].file
    BY <1>3, <1>6
  <2> QED
    BY <1>5, <1>6, <2>1
<1>7. ASSUME NEW r \in CdbRecords, ParseModule(r)
      PROVE  LineInv' /\ FileOfModule'
  <2>1. /\ Parse(r) /\ r.type = "module" /\ data' = Append(data, Module(r.name))
    BY <1>7 DEF ParseModule
  <2>2. /\ Len(data) \in Nat /\ DOMAIN data = 1 .. Len(data)
        /\ DOMAIN data' = 1 .. Len(data) + 1
        /\ \A i \in DOMAIN data : data'[i] = data[i]
        /\ data'[Len(data) + 1] = Module(r.name)
    BY <1>3, <2>1
  <2>3. PICK n : n = Len(data) + 1
    OBVIOUS
  <2>4. DOMAIN data' = DOMAIN data \cup {n} /\ data'[n].lines = << >>
        /\ data'[n].file = "c"
    BY <2>2, <2>3 DEF Module
  <2>5. Kept("line", n)' = {}
    <3>1. Recs(data'[n].lines) = << >>
      BY <2>4 DEF Recs
    <3>2. HomeInv'
      BY <2>1, <1>7, HomeModule
    <3>3. Holds(Recs(data'[n].lines), Kept("line", n)')
      BY <2>4, <3>2 DEF HomeInv, AtHome
    <3> QED
      BY <3>1, <3>3 DEF Holds
  <2>6. \A i \in DOMAIN data :
             /\ \A j \in DOMAIN data'[i].lines :
                  LET l == data'[i].lines[j] IN
                  /\ l.rec \in DOMAIN cdb'
                  /\ l.ext = cdb'[l.rec].ext /\ l.line = cdb'[l.rec].line
             /\ data'[i].file = IF \E p \in Kept("line", i)' : cdb'[p].ext = "h"
                                  THEN "h" ELSE "c"
    BY <1>4, <2>1, <2>2
  <2>7. \A j \in DOMAIN data'[n].lines : FALSE
    BY <2>4
  <2> QED
    BY <2>4, <2>5, <2>6, <2>7 DEF LineInv, FileOfModule
<1>8. ASSUME NEW r \in CdbRecords, ParseFunction(r)
      PROVE  LineInv' /\ FileOfModule'
  <2>1. Parse(r) /\ r.type = "function"
    BY <1>8 DEF ParseFunction
  <2>2. CASE data' = data
    BY <1>5, <2>1, <2>2
  <2>3. CASE Named(current_module) # {}
    <3>1. PICK fun : fun = [rec |-> Len(cdb'), name |-> r.name, locals |-> << >>]
      OBVIOUS
    <3>2. PICK m : m = [data[Here] EXCEPT !.functions = Append(@, fun)]
      OBVIOUS
    <3>3. Here \in DOMAIN data /\ data[Here] \in ModuleRow
      BY <2>3, HereIs DEF Here
    <3>4. data' = [data EXCEPT ![Here] = m] /\ m.lines = data[Here].lines
          /\ m.file = data[Here].file
      BY <1>8, <2>3, <3>1, <3>2, <3>3 DEF ParseFunction, ToCurrent, ModuleRow
    <3> QED
      BY <1>6, <2>1, <3>3, <3>4
  <2> QED
    BY <1>8, <2>2, <2>3 DEF ParseFunction, ToCurrent
<1>9. ASSUME NEW r \in CdbRecords, ParseSymbol(r) \/ ParseType(r)
      PROVE  LineInv' /\ FileOfModule'
  <2>1. Parse(r) /\ r.type # "line"
    BY <1>9 DEF ParseSymbol, ParseType
  <2>2. CASE data' = data
    BY <1>5, <2>1, <2>2
  <2>3. CASE Named(current_module) # {}
    <3>1. PICK n : n = Len(cdb')
      OBVIOUS
    <3>2. Here \in DOMAIN data /\ data[Here] \in ModuleRow
      BY <2>3, HereIs DEF Here
    <3>3. ASSUME ParseSymbol(r)
          PROVE  LineInv' /\ FileOfModule'
      <4>1. PICK m : m = [data[Here] EXCEPT !.symbols = Append(@, n)]
        OBVIOUS
      <4>2. data' = [data EXCEPT ![Here] = m] /\ m.lines = data[Here].lines
            /\ m.file = data[Here].file
        BY <2>3, <3>1, <3>2, <3>3, <4>1 DEF ParseSymbol, ToCurrent, ModuleRow
      <4> QED
        BY <1>6, <2>1, <3>2, <4>2
    <3>4. ASSUME ParseType(r)
          PROVE  LineInv' /\ FileOfModule'
      <4>1. PICK m : m = [data[Here] EXCEPT !.types = Append(@, n)]
        OBVIOUS
      <4>2. data' = [data EXCEPT ![Here] = m] /\ m.lines = data[Here].lines
            /\ m.file = data[Here].file
        BY <2>3, <3>1, <3>2, <3>4, <4>1 DEF ParseType, ToCurrent, ModuleRow
      <4> QED
        BY <1>6, <2>1, <3>2, <4>2
    <3> QED
      BY <1>9, <3>3, <3>4
  <2> QED
    BY <1>9, <2>2, <2>3 DEF ParseSymbol, ParseType, ToCurrent
<1>10. ASSUME NEW r \in CdbRecords, ParseLocal(r)
       PROVE  LineInv' /\ FileOfModule'
  <2>1. Parse(r) /\ r.type = "local"
    BY <1>10 DEF ParseLocal
  <2>2. CASE data' = data
    BY <1>5, <2>1, <2>2
  <2>3. CASE Functions(current_module, r.function) # {} /\ AddLocal(r.function)
    <3>1. PICK i : i = LocalModule(r.function)
      OBVIOUS
    <3>2. PICK j : j = LocalFunction(r.function)
      OBVIOUS
    <3>3. PICK n : n = Len(cdb')
      OBVIOUS
    <3>4. PICK m : m = [data[i] EXCEPT !.functions[j].locals = Append(@, n)]
      OBVIOUS
    <3>5. i \in DOMAIN data /\ data[i] \in ModuleRow
      BY <2>3, <3>1, <3>2, LocalPlace
    <3>6. data' = [data EXCEPT ![i] = m]
      BY <2>3, <3>1, <3>2, <3>3, <3>4 DEF AddLocal, LocalModule, LocalFunction
    <3>7. m.lines = data[i].lines /\ m.file = data[i].file
      BY <3>4, <3>5 DEF ModuleRow
    <3> QED
      BY <1>6, <2>1, <3>5, <3>6, <3>7
  <2> QED
    BY <1>10, <2>2, <2>3 DEF ParseLocal
<1>11. ASSUME NEW r \in CdbRecords, ParseLine(r)
       PROVE  LineInv' /\ FileOfModule'
  <2>1. Parse(r) /\ r.type = "line"
    BY <1>11 DEF ParseLine
  <2>2. PICK n : n = r.stem
    OBVIOUS
  <2>3. PICK there : there = First(Named(n))
    OBVIOUS
  <2>4. h = IF Named(n) = {} THEN 0 ELSE there
    BY <1>1, <1>2, <1>3, <2>1, <2>2, <2>3, HomeOfNew
  <2>5. CASE Named(n) = {}
    <3>1. data' = data /\ h = 0
      BY <1>11, <2>2, <2>4, <2>5 DEF ParseLine
    <3> QED
      BY <1>5, <2>1, <3>1
  <2>6. CASE Named(n) # {}
    <3>1. there \in DOMAIN data /\ data[there] \in ModuleRow
      BY <2>3, <2>6, HereIs
    <3>2. PICK l : l = Line(r)
      OBVIOUS
    <3>3. PICK m : m = [data[there] EXCEPT !.file = IF @ = "c" THEN r.ext ELSE @,
                                           !.lines = Append(@, l)]
      OBVIOUS
    <3>4. current_module # None
      BY <1>3, <2>6, NoModule
    <3>5. data' = [data EXCEPT ![there] = m]
      BY <1>11, <2>2, <2>3, <2>6, <3>2, <3>3, <3>4 DEF ParseLine
    <3>6. /\ DOMAIN data' = DOMAIN data /\ data'[there] = m
          /\ \A i \in DOMAIN data : i # there => data'[i] = data[i]
      BY <1>3, <3>1, <3>5
    <3>7. /\ m.file = IF data[there].file = "c" THEN r.ext ELSE data[there].file
          /\ m.lines = Append(data[there].lines, l)
      BY <3>1, <3>3 DEF ModuleRow
    <3>8. l \in LineRow /\ l.rec = k /\ l.ext = r.ext /\ l.line = r.line
      BY <1>1, <2>1, <3>2, LineType
    <3>9. /\ k \in DOMAIN cdb' /\ cdb'[k] = r /\ r.ext \in {"c", "h"}
          /\ \A p \in DOMAIN cdb : p \in DOMAIN cdb' /\ cdb'[p] = cdb[p]
      BY <1>1, <2>1, ParseFacts, RecordKinds
    <3>10. \A j \in DOMAIN m.lines :
             LET x == m.lines[j] IN
             /\ x.rec \in DOMAIN cdb'
             /\ x.ext = cdb'[x.rec].ext /\ x.line = cdb'[x.rec].line
      <4>1. PICK s : s = data[there].lines
        OBVIOUS
      <4>2. s \in Seq(LineRow)
        BY <3>1, <4>1 DEF ModuleRow
      <4>3. \A j \in DOMAIN s : /\ s[j].rec \in DOMAIN cdb /\ s[j].ext = cdb[s[j].rec].ext
                                /\ s[j].line = cdb[s[j].rec].line
        BY <3>1, <4>1 DEF LineInv
      <4>4. ASSUME NEW j \in DOMAIN m.lines
            PROVE  m.lines[j] = l \/ (j \in DOMAIN s /\ m.lines[j] = s[j])
        BY <3>7, <3>8, <4>1, <4>2
      <4> QED
        BY <3>8, <3>9, <4>3, <4>4
    <3>11. m.file = IF \E p \in Kept("line", there)' : cdb'[p].ext = "h" THEN "h" ELSE "c"
      <4>1. PICK K : K = Kept("line", there)
        OBVIOUS
      <4>2. h = there
        BY <2>4, <2>6
      <4>3. Kept("line", there)' = K \cup (IF r.type = "line" /\ h = there THEN {k} ELSE {})
        BY <1>1, <1>2, <1>3, <2>1, <4>1, KeptMore
      <4>4. Kept("line", there)' = K \cup {k} /\ K \subseteq DOMAIN cdb
        BY <2>1, <4>1, <4>2, <4>3 DEF Kept
      <4>5. data[there].file = IF \E p \in K : cdb[p].ext = "h" THEN "h" ELSE "c"
        BY <3>1, <4>1 DEF FileOfModule
      <4>6. (\E p \in K : cdb'[p].ext = "h") <=> (\E p \in K : cdb[p].ext = "h")
        BY <3>9, <4>4
      <4> QED
        BY <3>7, <3>9, <4>4, <4>5, <4>6
    <3>12. ASSUME NEW i \in DOMAIN data, i # there
           PROVE  /\ \A j \in DOMAIN data'[i].lines :
                      LET x == data'[i].lines[j] IN
                      /\ x.rec \in DOMAIN cdb'
                      /\ x.ext = cdb'[x.rec].ext /\ x.line = cdb'[x.rec].line
                  /\ data'[i].file = IF \E p \in Kept("line", i)' : cdb'[p].ext = "h"
                                       THEN "h" ELSE "c"
      <4>1. data'[i].lines = data[i].lines /\ data'[i].file = data[i].file
        BY <3>6, <3>12
      <4>2. r.type = "line" => h # i
        BY <2>4, <2>6, <3>12
      <4> QED
        BY <1>4, <2>1, <4>1, <4>2
    <3> QED
      BY <3>6, <3>10, <3>11, <3>12 DEF LineInv, FileOfModule
  <2> QED
    BY <2>5, <2>6
<1>12. ASSUME NEW r \in CdbRecords, Other(r)
       PROVE  LineInv' /\ FileOfModule'
  BY <1>5, <1>12 DEF Other
<1>13. ASSUME UNCHANGED <<cdb, current_module, data>>
       PROVE  LineInv' /\ FileOfModule'
  BY <1>13, KeptStays DEF LineInv, FileOfModule
<1> QED
  BY <1>7, <1>8, <1>9, <1>10, <1>11, <1>12, <1>13
  DEF Next, ReadMap, MapSymbol, MapSegment, Loaded, vars

\* FileOfModule and LineInv hold at first.
LEMMA LineInit == Init => LineInv /\ FileOfModule
  BY DEF Init, LineInv, FileOfModule

(***************************************************************************)
(* A module's file is that of its first line record that names no default  *)
(* file, however its lines interleave with other modules'.                 *)
(***************************************************************************)
THEOREM FilesNamed == Spec => []FileOfModule
  BY LineInit, LineStep, HomeInit, HomeStep, SymbolTypes, PTL DEF Spec

-----------------------------------------------------------------------------
(* Looking up a line. *)

\* A list in the file's order: a later place holds a later record.
LEMMA HoldsOrder ==
  ASSUME NEW s \in Seq(Nat), NEW K, Holds(s, K), NEW a \in DOMAIN s, NEW b \in DOMAIN s,
         a < b
  PROVE  s[a] < s[b]
<1> DEFINE B == {c \in DOMAIN s : a < c /\ ~ (s[a] < s[c])}
<1>1. DOMAIN s = 1 .. Len(s) /\ Len(s) \in Nat
  OBVIOUS
<1>2. SUFFICES ASSUME B # {}
               PROVE  FALSE
  BY <1>1
<1>3. B \in SUBSET (Nat \ {0})
  BY <1>1
<1>4. PICK c \in B : \A d \in B : c <= d
  BY <1>2, <1>3, FirstIs
<1>5. c - 1 \in 1 .. Len(s) - 1 /\ a <= c - 1 /\ c = (c - 1) + 1
  BY <1>1, <1>4
<1>6. s[c - 1] < s[c]
  BY <1>5 DEF Holds
<1>7. a = c - 1 \/ s[a] < s[c - 1]
  BY <1>1, <1>4, <1>5
<1>8. s[a] \in Nat /\ s[c] \in Nat /\ s[c - 1] \in Nat
  BY <1>1, <1>4, <1>5
<1> QED
  BY <1>4, <1>6, <1>7, <1>8

\* A list of records is no longer than the file.
LEMMA HoldsShort ==
  ASSUME NEW s \in Seq(Nat), NEW K, Holds(s, K), NEW n \in Nat, K \subseteq 1 .. n,
         NEW a \in DOMAIN s
  PROVE  a \in 1 .. n
<1> DEFINE B == {c \in DOMAIN s : s[c] < c}
<1>1. DOMAIN s = 1 .. Len(s) /\ Len(s) \in Nat /\ \A c \in DOMAIN s : s[c] \in 1 .. n
  BY DEF Holds
<1>2. B = {}
  <2>1. SUFFICES ASSUME B # {}
                 PROVE  FALSE
    OBVIOUS
  <2>2. B \in SUBSET (Nat \ {0})
    BY <1>1
  <2>3. PICK c \in B : \A d \in B : c <= d
    BY <2>1, <2>2, FirstIs
  <2>4. c # 1
    BY <1>1, <2>3
  <2>5. c - 1 \in 1 .. Len(s) - 1 /\ c - 1 \in DOMAIN s /\ c = (c - 1) + 1 /\ c \in Nat
    BY <1>1, <2>3, <2>4
  <2>6. s[c - 1] < s[c]
    BY <2>5 DEF Holds
  <2>7. s[c - 1] >= c - 1
    <3>1. c - 1 \notin B /\ s[c - 1] \in Nat
      <4>1. ~ (c <= c - 1)
        BY <2>5
      <4>2. s[c - 1] \in 1 .. n
        BY <1>1, <2>5
      <4> HIDE DEF B
      <4> QED
        BY <2>3, <4>1, <4>2
    <3>2. ~ (s[c - 1] < c - 1)
      BY <2>5, <3>1
    <3> QED
      BY <2>5, <3>1, <3>2
  <2> QED
    BY <1>1, <2>3, <2>5, <2>6, <2>7
<1> QED
  BY <1>1, <1>2

\* Line records of one stem belong to one module, those that belong to any.
LEMMA SameHome ==
  ASSUME TypeOK, NEW a \in DOMAIN cdb, NEW b \in DOMAIN cdb, cdb[a].type = "line",
         cdb[b].type = "line", cdb[a].stem = cdb[b].stem, Home(a) # 0, Home(b) # 0,
         a <= b
  PROVE  Home(a) = Home(b)
<1>1. a \in Nat /\ b \in Nat
  BY DEF TypeOK
<1>2. /\ Owners(a) \in SUBSET (Nat \ {0}) /\ Owners(a) # {}
      /\ Owners(b) \in SUBSET (Nat \ {0}) /\ Owners(b) # {}
  BY <1>1 DEF Owners, Modules, Home
<1>3. PICK p \in Owners(a) : p = First(Owners(a))
  BY <1>2, FirstIs
<1>4. PICK q \in Owners(b) : q = First(Owners(b)) /\ \A j \in Owners(b) : q <= j
  BY <1>2, FirstIs
<1>5. p \in Owners(b)
  BY <1>1 DEF Owners, Modules, Owner
<1>6. q <= p /\ q \in Nat /\ p \in Nat /\ p < a
  BY <1>1, <1>2, <1>4, <1>5 DEF Owners, Modules
<1>7. q \in Owners(a)
  BY <1>1, <1>2, <1>6 DEF Owners, Modules, Owner
<1>8. \A j \in Owners(a) : q <= j
  BY <1>1, <1>4 DEF Owners, Modules, Owner
<1>9. First(Owners(a)) = q
  BY <1>2, <1>7, <1>8, FirstUnique
<1> QED
  BY <1>2, <1>4, <1>9 DEF Home

\* The lines of a module are those kept in it.
LEMMA LinesKept ==
  ASSUME TypeOK, HomeInv, NEW i \in DOMAIN data
  PROVE  /\ Recs(data[i].lines) \in Seq(Nat)
         /\ DOMAIN Recs(data[i].lines) = DOMAIN data[i].lines
         /\ Holds(Recs(data[i].lines), Kept("line", i))
         /\ \A j \in DOMAIN data[i].lines :
              Recs(data[i].lines)[j] = data[i].lines[j].rec
<1>1. Recs(data[i].lines) \in Seq(Nat)
  BY ListTypes
<1>2. Holds(Recs(data[i].lines), Kept("line", i))
  BY DEF HomeInv, AtHome
<1> QED
  BY <1>1, <1>2 DEF Recs

\* The lines looked up are records of the line, each in its module.
LEMMA FoundIsLine ==
  ASSUME TypeOK, HomeInv, LineInv, NEW k \in DOMAIN cdb, cdb[k].type = "line",
         NEW p \in Matches(cdb[k].stem, cdb[k].ext, cdb[k].line)
  PROVE  /\ p[1] \in DOMAIN data /\ p[2] \in DOMAIN data[p[1]].lines
         /\ data[p[1]].lines[p[2]].rec \in SameLine(k)
         /\ p[1] = Home(data[p[1]].lines[p[2]].rec)
<1>1. PICK i : i = p[1]
  OBVIOUS
<1>2. PICK j : j = p[2]
  OBVIOUS
<1>3. PICK m : m = data[i].lines[j].rec
  OBVIOUS
<1>4. /\ i \in DOMAIN data /\ j \in DOMAIN data[i].lines
      /\ cdb[m].stem = cdb[k].stem
      /\ data[i].lines[j].ext = cdb[k].ext /\ data[i].lines[j].line = cdb[k].line
  BY <1>1, <1>2, <1>3 DEF Matches
<1>5. /\ m \in DOMAIN cdb /\ cdb[m].ext = cdb[k].ext /\ cdb[m].line = cdb[k].line
  BY <1>3, <1>4 DEF LineInv
<1>6. m \in Kept("line", i)
  BY <1>3, <1>4, LinesKept DEF Holds
<1>7. m \in SameLine(k) /\ Home(m) = i
  BY <1>4, <1>5, <1>6 DEF Kept, SameLine, TypeOK
<1> QED
  BY <1>1, <1>2, <1>3, <1>4, <1>7

\* A record of the line that belongs to a module is looked up.
LEMMA LineIsFound ==
  ASSUME TypeOK, HomeInv, LineInv, NEW k \in DOMAIN cdb, cdb[k].type = "line",
         NEW m \in SameLine(k), NEW i, i = Home(m)
  PROVE  /\ i \in DOMAIN data
         /\ \E j \in DOMAIN data[i].lines :
              /\ <<i, j>> \in Matches(cdb[k].stem, cdb[k].ext, cdb[k].line)
              /\ data[i].lines[j].rec = m
<1>1. PlaceInv /\ DOMAIN cdb = 1 .. Len(cdb) /\ Len(cdb) \in Nat
  BY DEF HomeInv, TypeOK
<1>2. m \in DOMAIN cdb /\ i # 0 /\ cdb[m].type = "line" /\ cdb[m].stem = cdb[k].stem
      /\ cdb[m].ext = cdb[k].ext /\ cdb[m].line = cdb[k].line
  BY DEF SameLine
<1>3. i \in DOMAIN data
  BY <1>1, <1>2, HomeInRange
<1>4. m \in Kept("line", i)
  BY <1>2 DEF Kept
<1>5. PICK s \in Seq(Nat) : s = Recs(data[i].lines)
  BY <1>3, LinesKept
<1>6. /\ Holds(s, Kept("line", i)) /\ DOMAIN s = DOMAIN data[i].lines
      /\ \A j \in DOMAIN s : s[j] = data[i].lines[j].rec
  BY <1>3, <1>5, LinesKept
<1>7. PICK j \in DOMAIN s : s[j] = m
  BY <1>4, <1>6 DEF Holds
<1>8. j \in 1 .. Len(cdb)
  <2>1. Kept("line", i) \subseteq 1 .. Len(cdb)
    BY <1>1 DEF Kept
  <2> QED
    BY <1>1, <1>6, <2>1, HoldsShort
<1>9. data[i].lines[j].ext = cdb[k].ext /\ data[i].lines[j].line = cdb[k].line
      /\ data[i].lines[j].rec = m /\ j \in DOMAIN data[i].lines
  BY <1>2, <1>3, <1>6, <1>7 DEF LineInv
<1>10. <<i, j>> \in Matches(cdb[k].stem, cdb[k].ext, cdb[k].line)
  BY <1>2, <1>3, <1>8, <1>9 DEF Matches
<1> QED
  BY <1>3, <1>9, <1>10

\* The table looked up module by module gives the file's first record.
LEMMA LineFound == TypeOK /\ HomeInv /\ LineInv => FirstRecordFound
<1> SUFFICES ASSUME TypeOK, HomeInv, LineInv,
                    NEW k \in DOMAIN cdb, cdb[k].type = "line"
             PROVE  LET found == Matches(cdb[k].stem, cdb[k].ext, cdb[k].line)
                        p     == LookupLine(cdb[k].stem, cdb[k].ext, cdb[k].line)
                    IN /\ found = {} <=> SameLine(k) = {}
                       /\ found # {} => data[p[1]].lines[p[2]].rec = First(SameLine(k))
  BY DEF FirstRecordFound
<1>1. PICK F : F = Matches(cdb[k].stem, cdb[k].ext, cdb[k].line)
  OBVIOUS
<1>2. PICK S : S = SameLine(k)
  OBVIOUS
<1> DEFINE rec(p) == data[p[1]].lines[p[2]].rec
<1>3. \A p \in F : /\ p[1] \in DOMAIN data /\ p[2] \in DOMAIN data[p[1]].lines
                 /\ rec(p) \in S /\ p[1] = Home(rec(p))
  BY <1>1, <1>2, FoundIsLine
<1>4. ASSUME NEW m \in S, NEW i, i = Home(m)
      PROVE  /\ i \in DOMAIN data
             /\ \E j \in DOMAIN data[i].lines :
                  <<i, j>> \in F /\ data[i].lines[j].rec = m
  <2>1. m \in SameLine(k)
    BY <1>2
  <2>2. i \in DOMAIN data
    BY <1>4, <2>1, LineIsFound
  <2>3. \E j \in DOMAIN data[i].lines :
          /\ <<i, j>> \in Matches(cdb[k].stem, cdb[k].ext, cdb[k].line)
          /\ data[i].lines[j].rec = m
    BY <1>4, <2>1, LineIsFound
  <2> QED
    BY <1>1, <2>2, <2>3
<1>5. S \in SUBSET (Nat \ {0}) /\ S \subseteq DOMAIN cdb
  BY <1>2 DEF SameLine, TypeOK
<1>6. \A a, b \in S : Home(a) = Home(b)
  <2>1. ASSUME NEW a \in S, NEW b \in S, a <= b
        PROVE  Home(a) = Home(b)
    <3>1. /\ a \in DOMAIN cdb /\ b \in DOMAIN cdb /\ cdb[a].type = "line"
          /\ cdb[b].type = "line" /\ cdb[a].stem = cdb[b].stem
          /\ Home(a) # 0 /\ Home(b) # 0
      BY <1>2 DEF SameLine
    <3> QED
      BY <2>1, <3>1, SameHome
  <2>2. \A a, b \in Nat : a <= b \/ b <= a
    OBVIOUS
  <2>3. \A a \in S : a \in Nat
    BY <1>5
  <2> QED
    BY <2>1, <2>2, <2>3
<1>7. F = {} <=> S = {}
  BY <1>3, <1>4
<1>8. ASSUME F # {}
      PROVE  LET p == LookupLine(cdb[k].stem, cdb[k].ext, cdb[k].line)
             IN rec(p) = First(S)
  <2>1. PICK m \in S : TRUE
    BY <1>7, <1>8
  <2>2. PICK i : i = Home(m)
    OBVIOUS
  <2>3. \A p \in F : p[1] = i /\ p[2] \in DOMAIN data[i].lines
    BY <1>3, <1>6, <2>2
  <2>4. i \in DOMAIN data /\ \A n \in S : Home(n) = i
    BY <1>4, <1>6, <2>1, <2>2
  <2>5. PICK s \in Seq(Nat) : s = Recs(data[i].lines)
    BY <2>4, ListTypes
  <2>6. /\ Holds(s, Kept("line", i)) /\ DOMAIN s = DOMAIN data[i].lines
        /\ \A j \in DOMAIN s : s[j] = data[i].lines[j].rec
    BY <2>4, <2>5 DEF HomeInv, AtHome, Recs
  <2>7. \A a, b \in DOMAIN s : a < b => s[a] < s[b]
    BY <2>6, HoldsOrder
  <2> DEFINE J == {j \in DOMAIN s : <<i, j>> \in F}
             good(p) == \A q \in F : p[1] < q[1] \/ (p[1] = q[1] /\ p[2] <= q[2])
  <2>8. J \in SUBSET (Nat \ {0}) /\ J # {}
    <3>1. DOMAIN s \subseteq Nat \ {0}
      OBVIOUS
    <3>2. \E j \in DOMAIN s : <<i, j>> \in F
      BY <1>4, <2>1, <2>2, <2>6
    <3> QED
      BY <3>1, <3>2
  <2>9. PICK j \in J : \A n \in J : j <= n
    BY <2>8, FirstIs
  <2>10. \A p \in F : p = <<i, p[2]>> /\ p[2] \in J
    <3>0. F \subseteq (DOMAIN data) \X (1 .. Len(cdb))
      BY <1>1 DEF Matches
    <3>1. \A p \in F : p = <<p[1], p[2]>>
      BY <3>0
    <3> QED
      BY <2>3, <2>6, <3>1
  <2>11. \E p \in F : good(p)
    <3>1. <<i, j>> \in F
      BY <2>9
    <3>2. \A q \in F : i = q[1] /\ j <= q[2]
      BY <2>3, <2>9, <2>10
    <3>3. good(<<i, j>>)
      BY <3>2
    <3> QED
      BY <3>1, <3>3
  <2>12. PICK p : p = CHOOSE q \in F : good(q)
    OBVIOUS
  <2>13. p \in F /\ good(p)
    <3> HIDE DEF good
    <3> QED
      BY <2>11, <2>12
  <2>14. p = LookupLine(cdb[k].stem, cdb[k].ext, cdb[k].line)
    BY <1>1, <2>12 DEF LookupLine
  <2>15. rec(p) \in S
    BY <1>3, <2>13
  <2>16. ASSUME NEW n \in S
         PROVE  rec(p) <= n
    <3>1. PICK b \in DOMAIN s : <<i, b>> \in F /\ s[b] = n
      <4>1. PICK b \in DOMAIN data[i].lines :
              <<i, b>> \in F /\ data[i].lines[b].rec = n
        BY <1>4, <2>4
      <4> QED
        BY <2>6, <4>1
    <3>2. p[2] \in DOMAIN s /\ p[1] = i
      BY <2>3, <2>6, <2>13
    <3>3. p[2] <= b
      <4>1. PICK q : q = <<i, b>>
        OBVIOUS
      <4>2. p[1] < q[1] \/ (p[1] = q[1] /\ p[2] <= q[2])
        BY <2>13, <3>1, <4>1
      <4>3. q[1] = i /\ q[2] = b /\ i \in Nat
        BY <2>4, <4>1 DEF TypeOK
      <4> QED
        BY <3>2, <4>2, <4>3
    <3>4. rec(p) = s[p[2]]
      BY <2>6, <3>2
    <3>5. s[p[2]] \in Nat /\ s[b] \in Nat /\ p[2] \in Nat /\ b \in Nat
      BY <3>2, <3>1
    <3> HIDE DEF rec
    <3>6. CASE p[2] = b
      BY <3>1, <3>4, <3>5, <3>6
    <3>7. CASE p[2] < b
      <4>1. s[p[2]] < s[b]
        BY <2>7, <3>1, <3>2, <3>7
      <4> QED
        BY <3>1, <3>4, <3>5, <4>1
    <3> QED
      BY <3>3, <3>5, <3>6, <3>7
  <2>17. rec(p) = First(S)
    BY <1>5, <2>15, <2>16, FirstUnique
  <2> QED
    BY <2>14, <2>17
<1> QED
  BY <1>1, <1>2, <1>7, <1>8

(***************************************************************************)
(* A breakpoint on a line gets the address of the file's first record of   *)
(* that line, of those that follow the M record of their module, although  *)
(* the search goes through the modules.                                    *)
(***************************************************************************)
THEOREM LinesFound == Spec => []FirstRecordFound
  BY LineFound, LineInit, LineStep, HomeInit, HomeStep, SymbolTypes, PTL DEF Spec

-----------------------------------------------------------------------------
(* Local symbols. *)

\* A function holds its name and its local symbols.
FunctionOK(x) ==
  /\ x.rec \in DOMAIN cdb /\ cdb[x.rec].name = x.name
  /\ Holds(x.locals, LocalsOf(x.rec))

LocalsInv ==
  \A i \in DOMAIN data : \A j \in DOMAIN data[i].functions :
    \A x : x = data[i].functions[j] => FunctionOK(x)

\* The functions of a module are those kept in it.
LEMMA FunctionsKept ==
  ASSUME TypeOK, HomeInv, NEW i \in DOMAIN data
  PROVE  /\ data[i].functions \in Seq(FunctionRow)
         /\ Recs(data[i].functions) \in Seq(Nat)
         /\ DOMAIN Recs(data[i].functions) = DOMAIN data[i].functions
         /\ Holds(Recs(data[i].functions), Kept("function", i))
         /\ \A j \in DOMAIN data[i].functions :
              Recs(data[i].functions)[j] = data[i].functions[j].rec
<1>1. Recs(data[i].functions) \in Seq(Nat) /\ data[i] \in ModuleRow
  BY ListTypes
<1>2. Holds(Recs(data[i].functions), Kept("function", i))
  BY DEF HomeInv, AtHome
<1> QED
  BY <1>1, <1>2 DEF Recs, ModuleRow

\* Of several modules of one name only the first has functions.
LEMMA OnlyFirst ==
  ASSUME TypeOK, HomeInv, NEW i \in DOMAIN data, NEW j \in DOMAIN data[i].functions
  PROVE  i = First(Named(data[i].name))
<1>1. PICK m : m = data[i].functions[j].rec
  OBVIOUS
<1>2. m \in Kept("function", i)
  BY <1>1, FunctionsKept DEF Holds
<1>3. PlaceInv /\ Len(cdb) \in Nat /\ DOMAIN cdb = 1 .. Len(cdb) /\ i \in Nat \ {0}
  BY DEF HomeInv, TypeOK
<1>4. m \in 1 .. Len(cdb) /\ Home(m) = i
  BY <1>2, <1>3 DEF Kept
<1>5. Owners(m) # {} /\ Home(m) = Place(First(Owners(m)))
  BY <1>3, <1>4 DEF Home, Place
<1>6. Owners(m) \in SUBSET (Nat \ {0})
  BY <1>4 DEF Owners, Modules
<1>7. PICK p \in Owners(m) : p = First(Owners(m)) /\ \A q \in Owners(m) : p <= q
  BY <1>5, <1>6, FirstIs
<1>8. PICK n : n = data[i].name
  OBVIOUS
<1>9. p \in Modules(Len(cdb) + 1) /\ p < m
  BY <1>3, <1>4, <1>7 DEF Owners, Modules
<1>10. cdb[p].name = n /\ Owner(m) = n
  <2>1. data[i].name = cdb[p].name
    BY <1>3, <1>4, <1>5, <1>7, <1>9 DEF PlaceInv
  <2> QED
    BY <1>7, <1>8, <2>1 DEF Owners
<1> DEFINE O == {q \in Modules(Len(cdb) + 1) : cdb[q].name = n}
<1>11. ASSUME NEW q \in O
       PROVE  p <= q
  <2>1. q \in 1 .. Len(cdb) /\ cdb[q].type = "module" /\ cdb[q].name = n
    BY <1>3 DEF Modules
  <2>2. CASE q < m
    <3>1. q \in Owners(m)
      BY <1>4, <1>10, <2>1, <2>2 DEF Owners, Modules
    <3> QED
      BY <1>7, <3>1
  <2>3. CASE ~ (q < m)
    <3>1. p \in Nat /\ q \in Nat /\ m \in Nat
      BY <1>4, <1>6, <2>1
    <3> QED
      BY <1>9, <2>3, <3>1
  <2> QED
    BY <2>2, <2>3
<1>12. p \in O /\ O \in SUBSET (Nat \ {0})
  BY <1>3, <1>9, <1>10 DEF Modules
<1>13. First(O) = p
  BY <1>11, <1>12, FirstUnique
<1>14. First(Named(n)) = Place(First(O))
  <2>1. O # {} => First(Named(n)) = Place(First(O))
    BY <1>3, FirstNamed
  <2> QED
    BY <1>12, <2>1
<1> QED
  BY <1>4, <1>5, <1>7, <1>8, <1>13, <1>14

\* A record read later is the function of no record read before.
LEMMA SameFunctionStays ==
  ASSUME TypeOK, PlaceInv, NEW r \in CdbRecords, Parse(r), NEW p \in 1 .. Len(cdb)
  PROVE  SameFunction(p)' = SameFunction(p)
<1>1. PICK k : k = Len(cdb) + 1
  OBVIOUS
<1>2. PICK h : h = Home(k)'
  OBVIOUS
<1>3. PICK g : g = Home(p)
  OBVIOUS
<1>4. Home(p)' = g /\ Len(cdb) \in Nat /\ \A j \in 1 .. Len(cdb) : cdb'[j] = cdb[j]
  BY <1>3, ModulesStay, ParseFacts
<1>5. PICK K : K = Kept("function", g)
  OBVIOUS
<1>6. Kept("function", g)' = K \cup (IF r.type = "function" /\ h = g THEN {k} ELSE {})
  BY <1>1, <1>2, <1>5, KeptMore
<1>7. K \subseteq 1 .. Len(cdb)
  BY <1>5 DEF Kept, TypeOK
<1>8. ~ (k < p)
  BY <1>1, <1>4
<1>9. SameFunction(p) = {m \in K : m < p /\ cdb[m].name = cdb[p].function}
  BY <1>3, <1>5 DEF SameFunction
<1>10. SameFunction(p)' = {m \in Kept("function", g)' : m < p /\ cdb'[m].name = cdb'[p].function}
  BY <1>4 DEF SameFunction
<1> QED
  BY <1>4, <1>6, <1>7, <1>8, <1>9, <1>10

\* The functions of the record just read.
LEMMA SameFunctionNew ==
  ASSUME TypeOK, PlaceInv, NEW r \in CdbRecords, Parse(r), r.type = "local",
         NEW k, k = Len(cdb) + 1, NEW h, h = Home(k)'
  PROVE  SameFunction(k)' = {m \in Kept("function", h) : cdb[m].name = r.function}
<1>1. /\ Len(cdb) \in Nat /\ \A j \in 1 .. Len(cdb) : cdb'[j] = cdb[j]
      /\ cdb'[k] = r
  BY ParseFacts
<1>2. PICK K : K = Kept("function", h)
  OBVIOUS
<1>3. Kept("function", h)' = K \cup (IF r.type = "function" /\ h = h THEN {k} ELSE {})
  BY <1>2, KeptMore
<1>4. Kept("function", h)' = K /\ K \subseteq 1 .. Len(cdb)
  BY <1>2, <1>3 DEF Kept, TypeOK
<1>5. \A m \in K : m < k /\ cdb'[m] = cdb[m]
  BY <1>1, <1>4
<1>6. SameFunction(k)' = {m \in Kept("function", h)' : m < k /\ cdb'[m].name = cdb'[k].function}
  BY DEF SameFunction
<1> QED
  BY <1>1, <1>2, <1>4, <1>5, <1>6

\* The local symbols of a function once a record has been read.
LEMMA LocalsMore ==
  ASSUME TypeOK, PlaceInv, NEW r \in CdbRecords, Parse(r), NEW k, k = Len(cdb) + 1,
         NEW G, G = SameFunction(k)', NEW m
  PROVE  LocalsOf(m)' = LocalsOf(m) \cup
           (IF /\ r.type = "local" /\ r.module = current_module
               /\ m \in G /\ \A n \in G : m <= n
            THEN {k} ELSE {})
<1>1. /\ Len(cdb) \in Nat /\ \A j \in 1 .. Len(cdb) : cdb'[j] = cdb[j]
      /\ cdb'[k] = r /\ DOMAIN cdb = 1 .. Len(cdb)
      /\ DOMAIN cdb' = 1 .. Len(cdb) + 1
  BY ParseFacts
<1>2. 1 .. Len(cdb) + 1 = (1 .. Len(cdb)) \cup {k} /\ k \in 1 .. Len(cdb) + 1
  BY <1>1
<1>3. Current(k)' = current_module
  BY <1>2, ModulesStay DEF PlaceInv
<1>4. \A p \in 1 .. Len(cdb) : Current(p)' = Current(p) /\ SameFunction(p)' = SameFunction(p)
  BY <1>1, ModulesStay, SameFunctionStays
<1>5. LocalsOf(m)' = {p \in (1 .. Len(cdb)) \cup {k} :
                        /\ cdb'[p].type = "local" /\ cdb'[p].module = Current(p)'
                        /\ m \in SameFunction(p)' /\ \A n \in SameFunction(p)' : m <= n}
  BY <1>1, <1>2 DEF LocalsOf
<1>6. LocalsOf(m) = {p \in 1 .. Len(cdb) :
                       /\ cdb[p].type = "local" /\ cdb[p].module = Current(p)
                       /\ m \in SameFunction(p) /\ \A n \in SameFunction(p) : m <= n}
  BY <1>1 DEF LocalsOf
<1>7. \A p : p \in LocalsOf(m)' <=>
        \/ p \in LocalsOf(m)
        \/ /\ p = k /\ r.type = "local" /\ r.module = current_module
           /\ m \in G /\ \A n \in G : m <= n
  BY <1>1, <1>3, <1>4, <1>5, <1>6
<1> QED
  BY <1>7

\* A function that gets the record read if and only if that is one of its own.
LEMMA FunctionMore ==
  ASSUME TypeOK, PlaceInv, NEW r \in CdbRecords, Parse(r), NEW k, k = Len(cdb) + 1,
         NEW G, G = SameFunction(k)', NEW x \in FunctionRow, FunctionOK(x), NEW y,
         y.rec = x.rec, y.name = x.name,
         y.locals = IF /\ r.type = "local" /\ r.module = current_module
                       /\ x.rec \in G /\ \A n \in G : x.rec <= n
                      THEN Append(x.locals, k) ELSE x.locals
  PROVE  FunctionOK(y)'
<1>1. /\ Len(cdb) \in Nat /\ \A j \in 1 .. Len(cdb) : cdb'[j] = cdb[j]
      /\ DOMAIN cdb = 1 .. Len(cdb) /\ DOMAIN cdb' = 1 .. Len(cdb) + 1
  BY ParseFacts
<1>2. PICK m : m = x.rec
  OBVIOUS
<1>3. m \in 1 .. Len(cdb) /\ cdb[m].name = x.name /\ Holds(x.locals, LocalsOf(m))
  BY <1>1, <1>2 DEF FunctionOK
<1>4. m \in DOMAIN cdb' /\ cdb'[m].name = y.name
  BY <1>1, <1>3
<1>5. PICK K : K = LocalsOf(m)
  OBVIOUS
<1> DEFINE own == /\ r.type = "local" /\ r.module = current_module
                  /\ m \in G /\ \A n \in G : m <= n
<1>6. LocalsOf(m)' = K \cup (IF own THEN {k} ELSE {})
  BY <1>5, LocalsMore
<1>7. y.locals = IF own THEN Append(x.locals, k) ELSE x.locals
  BY <1>2
<1> HIDE DEF own
<1>8. Holds(y.locals, LocalsOf(m)')
  <2>1. CASE own
    <3>1. x.locals \in Seq(Nat) /\ k \in Nat
      BY <1>1 DEF FunctionRow
    <3>2. \A p \in K : p < k
      BY <1>1, <1>5 DEF LocalsOf
    <3>3. Holds(Append(x.locals, k), K \cup {k})
      BY <1>3, <1>5, <3>1, <3>2, HoldsMore
    <3> QED
      BY <1>6, <1>7, <2>1, <3>3
  <2>2. CASE ~ own
    BY <1>3, <1>5, <1>6, <1>7, <2>2
  <2> QED
    BY <2>1, <2>2
<1> QED
  BY <1>2, <1>4, <1>8 DEF FunctionOK

\* A record that is no local symbol leaves a function as it is.
LEMMA FunctionStays ==
  ASSUME TypeOK, PlaceInv, NEW r \in CdbRecords, Parse(r), NEW x \in FunctionRow,
         FunctionOK(x), r.type # "local"
  PROVE  FunctionOK(x)'
<1>1. PICK k : k = Len(cdb) + 1
  OBVIOUS
<1>2. PICK G : G = SameFunction(k)'
  OBVIOUS
<1>3. x.locals = IF /\ r.type = "local" /\ r.module = current_module
                    /\ x.rec \in G /\ \A n \in G : x.rec <= n
                   THEN Append(x.locals, k) ELSE x.locals
  OBVIOUS
<1> QED
  BY <1>1, <1>2, <1>3, FunctionMore

\* A function just read has no local symbols yet.
LEMMA FunctionNew ==
  ASSUME TypeOK, PlaceInv, NEW r \in CdbRecords, Parse(r), r.type = "function",
         NEW k, k = Len(cdb) + 1, NEW x, x = [rec |-> k, name |-> r.name, locals |-> << >>]
  PROVE  FunctionOK(x)'
<1>1. /\ Len(cdb) \in Nat /\ cdb'[k] = r /\ DOMAIN cdb' = 1 .. Len(cdb) + 1
      /\ DOMAIN cdb = 1 .. Len(cdb)
  BY ParseFacts
<1>2. PICK G : G = SameFunction(k)'
  OBVIOUS
<1>3. LocalsOf(k) = {}
  <2>1. \A p \in DOMAIN cdb : k \notin SameFunction(p)
    BY <1>1 DEF SameFunction
  <2> QED
    BY <2>1 DEF LocalsOf
<1>4. PICK K : K = LocalsOf(k)
  OBVIOUS
<1>5. LocalsOf(k)' = K \cup (IF /\ r.type = "local" /\ r.module = current_module
                               /\ k \in G /\ \A n \in G : k <= n
                            THEN {k} ELSE {})
  BY <1>2, <1>4, LocalsMore
<1>6. LocalsOf(k)' = {}
  BY <1>3, <1>4, <1>5
<1>7. k \in DOMAIN cdb' /\ cdb'[k].name = r.name
  BY <1>1
<1>8. Holds(<< >>, LocalsOf(k)')
  BY <1>6, HoldsNone
<1>9. x.rec = k /\ x.name = r.name /\ x.locals = << >>
  OBVIOUS
<1> QED
  BY <1>7, <1>8, <1>9 DEF FunctionOK

\* Where the local symbol just read belongs, given that it names its module.
LEMMA LocalHome ==
  ASSUME TypeOK, HomeInv, LocalsInv, NEW r \in CdbRecords, Parse(r), r.type = "local",
         NEW k, k = Len(cdb) + 1, NEW G, G = SameFunction(k)', NEW f, f = r.function,
         NEW i \in DOMAIN data, NEW j \in DOMAIN data[i].functions,
         NEW m, m = data[i].functions[j].rec
  PROVE  (m \in G /\ \A n \in G : m <= n)
           <=> /\ Functions(current_module, f) # {}
               /\ i = LocalModule(f) /\ j = LocalFunction(f)
<1>1. PICK h : h = Home(k)'
  OBVIOUS
<1>2. PICK c : c = current_module
  OBVIOUS
<1>3. PlaceInv /\ data \in Seq(ModuleRow) /\ 0 \notin DOMAIN data
  BY DEF HomeInv, TypeOK
<1>4. h = IF Named(c) = {} THEN 0 ELSE First(Named(c))
  <2>1. c = IF r.type = "line" THEN r.stem ELSE current_module
    BY <1>2
  <2> QED
    BY <1>1, <1>3, <2>1, HomeOfNew
<1>5. G = {b \in Kept("function", h) : cdb[b].name = f}
  BY <1>1, <1>3, SameFunctionNew
<1>7. PICK s \in Seq(Nat) : s = Recs(data[i].functions)
  BY FunctionsKept
<1>8. /\ Holds(s, Kept("function", i)) /\ DOMAIN s = DOMAIN data[i].functions
      /\ \A b \in DOMAIN s : s[b] = data[i].functions[b].rec
      /\ s[j] = m
  BY <1>7, FunctionsKept
<1>9. \A b \in DOMAIN s : data[i].functions[b].name = cdb[s[b]].name
  BY <1>8 DEF LocalsInv, FunctionOK
\* A function of that name, of the module the record belongs to.
<1>10. m \in G <=> i = h /\ data[i].functions[j].name = f
  <2>1. m \in Kept("function", i) /\ Home(m) = i
    BY <1>8 DEF Holds, Kept
  <2>2. m \in Kept("function", h) => i = h
    BY <2>1 DEF Kept
  <2> QED
    BY <1>5, <1>8, <1>9, <2>1, <2>2
<1>11. i = h => h = First(Named(c)) /\ Named(c) # {} /\ data[i].name = c
  BY <1>3, <1>4, HereIs
<1>12. ASSUME Functions(c, f) # {}
       PROVE  LocalModule(f) = h
  <2>1. PICK p : p = LocalModule(f)
    OBVIOUS
  <2>2. PICK q : q = LocalFunction(f)
    OBVIOUS
  <2>3. p \in DOMAIN data /\ q \in DOMAIN data[p].functions /\ p \in Functions(c, f)
    BY <1>2, <1>12, <2>1, <2>2, LocalPlace
  <2>4. p \in Named(c) /\ data[p].name = c
    BY <2>3 DEF Functions, Named
  <2>5. p = First(Named(c))
    BY <2>3, <2>4, OnlyFirst
  <2> QED
    BY <1>4, <2>1, <2>4, <2>5
<1>13. ASSUME m \in G, \A n \in G : m <= n
       PROVE  Functions(c, f) # {} /\ i = LocalModule(f) /\ j = LocalFunction(f)
  <2>1. i = h /\ data[i].functions[j].name = f
    BY <1>10, <1>13
  <2>2. i \in Functions(c, f)
    BY <1>11, <2>1 DEF Functions, Named
  <2>3. i = LocalModule(f)
    BY <1>12, <2>1, <2>2
  <2>4. PICK q : q = LocalFunction(f)
    OBVIOUS
  <2>5. /\ q \in DOMAIN data[i].functions /\ data[i].functions[q].name = f /\ q <= j
    BY <1>2, <2>1, <2>2, <2>3, <2>4, LocalPlace
  <2>6. s[q] \in G
    BY <1>5, <1>8, <1>9, <2>1, <2>5 DEF Holds
  <2>7. s[j] <= s[q] /\ s[j] \in Nat /\ s[q] \in Nat /\ q \in Nat /\ j \in Nat
    BY <1>8, <1>13, <2>5, <2>6
  <2>8. q < j => s[q] < s[j]
    BY <1>8, <2>5, HoldsOrder
  <2> QED
    BY <2>2, <2>3, <2>4, <2>5, <2>7, <2>8
<1>14. ASSUME Functions(c, f) # {}, i = LocalModule(f), j = LocalFunction(f)
       PROVE  m \in G /\ \A n \in G : m <= n
  <2>1. /\ data[i].functions[j].name = f
        /\ \A b \in DOMAIN data[i].functions : data[i].functions[b].name = f => j <= b
    BY <1>2, <1>14, LocalPlace
  <2>2. i = h /\ m \in G
    BY <1>10, <1>12, <1>14, <2>1
  <2>3. ASSUME NEW n \in G
        PROVE  m <= n
    <3>1. PICK b \in DOMAIN s : s[b] = n
      BY <1>5, <1>8, <2>2 DEF Holds
    <3>2. data[i].functions[b].name = f
      BY <1>5, <1>9, <3>1
    <3>3. j <= b /\ j \in Nat /\ b \in Nat /\ j \in DOMAIN s
      BY <1>8, <2>1, <3>1, <3>2
    <3>4. j < b => s[j] < s[b]
      BY <1>8, <3>1, <3>3, HoldsOrder
    <3>5. s[j] \in Nat /\ s[b] \in Nat
      BY <3>1, <3>3
    <3> QED
      BY <1>8, <3>1, <3>3, <3>4, <3>5
  <2> QED
    BY <2>2, <2>3
<1> QED
  BY <1>2, <1>13, <1>14

\* LocalsInv is inductive.
LEMMA LocalsStep == TypeOK /\ HomeInv /\ LocalsInv /\ [Next]_vars => LocalsInv'
<1> SUFFICES ASSUME TypeOK, HomeInv, LocalsInv, [Next]_vars
             PROVE  LocalsInv'
  OBVIOUS
<1>1. PICK k : k = Len(cdb) + 1
  OBVIOUS
<1>2. PlaceInv /\ data \in Seq(ModuleRow)
  BY DEF HomeInv, TypeOK
<1>3. ASSUME NEW i \in DOMAIN data, NEW j \in DOMAIN data[i].functions,
             NEW x, x = data[i].functions[j]
      PROVE  x \in FunctionRow /\ FunctionOK(x)
  <2>1. data[i].functions \in Seq(FunctionRow)
    BY FunctionsKept
  <2>2. PICK s \in Seq(FunctionRow) : s = data[i].functions
    BY <2>1
  <2>3. x \in FunctionRow
    BY <1>3, <2>2
  <2> QED
    BY <1>3, <2>3 DEF LocalsInv
\* Every module keeps its functions.
<1>4. ASSUME NEW r \in CdbRecords, Parse(r), r.type # "local", DOMAIN data' = DOMAIN data,
             \A i \in DOMAIN data : data'[i].functions = data[i].functions
      PROVE  LocalsInv'
  <2>1. ASSUME NEW i \in DOMAIN data, NEW j \in DOMAIN data[i].functions,
               NEW x, x = data[i].functions[j]
        PROVE  FunctionOK(x)'
    <3>1. x \in FunctionRow /\ FunctionOK(x)
      BY <1>3, <2>1
    <3> QED
      BY <1>2, <1>4, <3>1, FunctionStays
  <2> QED
    BY <1>4, <2>1 DEF LocalsInv
\* One does.
<1>5. ASSUME NEW r \in CdbRecords, Parse(r), r.type # "local", NEW i \in DOMAIN data,
             NEW m, data' = [data EXCEPT ![i] = m], m.functions = data[i].functions
      PROVE  LocalsInv'
  <2>1. /\ DOMAIN data' = DOMAIN data
        /\ \A p \in DOMAIN data : data'[p].functions = data[p].functions
    BY <1>2, <1>5
  <2> QED
    BY <1>4, <1>5, <2>1
<1>6. ASSUME NEW r \in CdbRecords, ParseModule(r)
      PROVE  LocalsInv'
  <2>1. Parse(r) /\ r.type = "module" /\ data' = Append(data, Module(r.name))
    BY <1>6 DEF ParseModule
  <2>2. /\ Len(data) \in Nat /\ DOMAIN data = 1 .. Len(data)
        /\ DOMAIN data' = 1 .. Len(data) + 1
        /\ \A i \in DOMAIN data : data'[i] = data[i]
        /\ data'[Len(data) + 1] = Module(r.name)
    BY <1>2, <2>1
  <2>3. ASSUME NEW i \in DOMAIN data', NEW j \in DOMAIN data'[i].functions,
               NEW x, x = data'[i].functions[j]
        PROVE  FunctionOK(x)'
    <3>1. i \in DOMAIN data
      <4>1. i = Len(data) + 1 => data'[i].functions = << >>
        BY <2>2 DEF Module
      <4> QED
        BY <2>2, <2>3, <4>1
    <3>2. x \in FunctionRow /\ FunctionOK(x)
      BY <1>3, <2>2, <2>3, <3>1
    <3> QED
      BY <1>2, <2>1, <3>2, FunctionStays
  <2> QED
    BY <2>3 DEF LocalsInv
<1>7. ASSUME NEW r \in CdbRecords, ParseFunction(r)
      PROVE  LocalsInv'
  <2>1. Parse(r) /\ r.type = "function"
    BY <1>7 DEF ParseFunction
  <2>2. CASE data' = data
    BY <1>4, <2>1, <2>2
  <2>3. CASE Named(current_module) # {}
    <3>1. PICK h : h = Here
      OBVIOUS
    <3>2. PICK fun : fun = [rec |-> k, name |-> r.name, locals |-> << >>]
      OBVIOUS
    <3>3. PICK m : m = [data[h] EXCEPT !.functions = Append(@, fun)]
      OBVIOUS
    <3>4. h \in DOMAIN data /\ data[h] \in ModuleRow
      BY <2>3, <3>1, HereIs DEF Here
    <3>5. data' = [data EXCEPT ![h] = m]
      <4>1. Len(cdb') = k
        BY <1>1, <2>1, ParseFacts
      <4> QED
        BY <1>7, <2>3, <3>1, <3>2, <3>3, <4>1 DEF ParseFunction, ToCurrent
    <3>6. PICK s \in Seq(FunctionRow) : s = data[h].functions
      BY <3>4, FunctionsKept
    <3>7. data'[h].functions = Append(s, fun) /\ DOMAIN data' = DOMAIN data
          /\ \A i \in DOMAIN data : i # h => data'[i] = data[i]
      BY <1>2, <3>3, <3>4, <3>5, <3>6 DEF ModuleRow
    <3>8. FunctionOK(fun)'
      BY <1>1, <1>2, <2>1, <3>2, FunctionNew
    <3>9. ASSUME NEW i \in DOMAIN data', NEW j \in DOMAIN data'[i].functions,
                 NEW x, x = data'[i].functions[j]
          PROVE  FunctionOK(x)'
      <4>1. CASE x = fun
        BY <3>8, <4>1
      <4>2. CASE x # fun
        <5>1. j \in DOMAIN data[i].functions /\ x = data[i].functions[j]
          <6>1. CASE i = h
            BY <3>6, <3>7, <3>9, <4>2, <6>1
          <6>2. CASE i # h
            BY <3>7, <3>9, <6>2
          <6> QED
            BY <6>1, <6>2
        <5>2. x \in FunctionRow /\ FunctionOK(x)
          BY <1>3, <3>7, <5>1
        <5> QED
          BY <1>2, <2>1, <5>2, FunctionStays
      <4> QED
        BY <4>1, <4>2
    <3> QED
      BY <3>9 DEF LocalsInv
  <2> QED
    BY <1>7, <2>2, <2>3 DEF ParseFunction, ToCurrent
<1>8. ASSUME NEW r \in CdbRecords, ParseSymbol(r) \/ ParseType(r)
      PROVE  LocalsInv'
  <2>1. Parse(r) /\ r.type # "local"
    BY <1>8 DEF ParseSymbol, ParseType
  <2>2. CASE data' = data
    BY <1>4, <2>1, <2>2
  <2>3. CASE Named(current_module) # {}
    <3>1. PICK n : n = Len(cdb')
      OBVIOUS
    <3>2. Here \in DOMAIN data /\ data[Here] \in ModuleRow
      BY <2>3, HereIs DEF Here
    <3>3. ASSUME ParseSymbol(r)
          PROVE  LocalsInv'
      <4>1. PICK m : m = [data[Here] EXCEPT !.symbols = Append(@, n)]
        OBVIOUS
      <4>2. data' = [data EXCEPT ![Here] = m] /\ m.functions = data[Here].functions
        BY <2>3, <3>1, <3>2, <3>3, <4>1 DEF ParseSymbol, ToCurrent, ModuleRow
      <4> QED
        BY <1>5, <2>1, <3>2, <4>2
    <3>4. ASSUME ParseType(r)
          PROVE  LocalsInv'
      <4>1. PICK m : m = [data[Here] EXCEPT !.types = Append(@, n)]
        OBVIOUS
      <4>2. data' = [data EXCEPT ![Here] = m] /\ m.functions = data[Here].functions
        BY <2>3, <3>1, <3>2, <3>4, <4>1 DEF ParseType, ToCurrent, ModuleRow
      <4> QED
        BY <1>5, <2>1, <3>2, <4>2
    <3> QED
      BY <1>8, <3>3, <3>4
  <2> QED
    BY <1>8, <2>2, <2>3 DEF ParseSymbol, ParseType, ToCurrent
<1>9. ASSUME NEW r \in CdbRecords, ParseLine(r)
      PROVE  LocalsInv'
  <2>1. Parse(r) /\ r.type = "line"
    BY <1>9 DEF ParseLine
  <2>2. CASE data' = data
    BY <1>4, <2>1, <2>2
  <2>3. CASE Named(r.stem) # {}
    <3>1. PICK there : there = First(Named(r.stem))
      OBVIOUS
    <3>2. PICK m : m = [data[there] EXCEPT !.file = IF @ = "c" THEN r.ext ELSE @,
                                           !.lines = Append(@, Line(r))]
      OBVIOUS
    <3>3. there \in DOMAIN data /\ data[there] \in ModuleRow
      BY <2>3, <3>1, HereIs
    <3>4. data' = data \/ data' = [data EXCEPT ![there] = m]
      BY <1>9, <2>3, <3>1, <3>2 DEF ParseLine
    <3>5. m.functions = data[there].functions
      BY <3>2, <3>3 DEF ModuleRow
    <3> QED
      BY <1>5, <2>1, <2>2, <3>3, <3>4, <3>5
  <2> QED
    BY <1>9, <2>2, <2>3 DEF ParseLine
<1>10. ASSUME NEW r \in CdbRecords, Other(r)
       PROVE  LocalsInv'
  BY <1>4, <1>10 DEF Other
<1>11. ASSUME NEW r \in CdbRecords, ParseLocal(r)
       PROVE  LocalsInv'
  <2>1. Parse(r) /\ r.type = "local"
    BY <1>11 DEF ParseLocal
  <2>2. PICK G : G = SameFunction(k)'
    OBVIOUS
  <2>3. PICK f : f = r.function
    OBVIOUS
  <2>4. PICK p : p = LocalModule(f)
    OBVIOUS
  <2>5. PICK q : q = LocalFunction(f)
    OBVIOUS
  <2> DEFINE own(x) == /\ r.type = "local" /\ r.module = current_module
                       /\ x.rec \in G /\ \A n \in G : x.rec <= n
             given == r.module = current_module /\ Functions(current_module, f) # {}
  <2>6. ASSUME NEW i \in DOMAIN data, NEW j \in DOMAIN data[i].functions,
               NEW x, x = data[i].functions[j]
        PROVE  own(x) <=> given /\ i = p /\ j = q
    <3>1. PICK m : m = data[i].functions[j].rec
      OBVIOUS
    <3>2. (m \in G /\ \A n \in G : m <= n)
             <=> /\ Functions(current_module, f) # {}
                 /\ i = LocalModule(f) /\ j = LocalFunction(f)
      BY <1>1, <2>1, <2>2, <2>3, <3>1, LocalHome
    <3> QED
      BY <2>1, <2>4, <2>5, <2>6, <3>1, <3>2
  <2>7. ASSUME NEW x \in FunctionRow, FunctionOK(x), NEW y, y.rec = x.rec,
               y.name = x.name, y.locals = IF own(x) THEN Append(x.locals, k) ELSE x.locals
        PROVE  FunctionOK(y)'
    BY <1>1, <1>2, <2>1, <2>2, <2>7, FunctionMore
  <2> HIDE DEF own
  <2>8. CASE given
    <3>1. /\ p \in DOMAIN data /\ data[p] \in ModuleRow /\ q \in DOMAIN data[p].functions
      BY <2>4, <2>5, <2>8, LocalPlace
    <3>2. Len(cdb') = k
      BY <1>1, <2>1, ParseFacts
    <3>3. PICK s \in Seq(FunctionRow) : s = data[p].functions
      BY <3>1, FunctionsKept
    <3>4. PICK y : y = [s[q] EXCEPT !.locals = Append(@, k)]
      OBVIOUS
    <3>5. PICK t : t = [s EXCEPT ![q] = y]
      OBVIOUS
    <3>6. PICK m : m = [data[p] EXCEPT !.functions[q].locals = Append(@, k)]
      OBVIOUS
    <3>7. data' = [data EXCEPT ![p] = m]
      <4>1. AddLocal(f)
        BY <1>11, <2>3, <2>8 DEF ParseLocal
      <4> QED
        BY <2>4, <2>5, <3>2, <3>6, <4>1 DEF AddLocal, LocalModule, LocalFunction
    <3>8. m.functions = t
      BY <3>1, <3>3, <3>4, <3>5, <3>6 DEF ModuleRow
    <3>9. /\ DOMAIN data' = DOMAIN data /\ data'[p].functions = t
          /\ \A i \in DOMAIN data : i # p => data'[i] = data[i]
      BY <1>2, <3>1, <3>7, <3>8
    <3>10. /\ DOMAIN t = DOMAIN s /\ t[q] = y
           /\ \A j \in DOMAIN s : j # q => t[j] = s[j]
      BY <3>1, <3>3, <3>5
    <3>11. s[q] \in FunctionRow /\ FunctionOK(s[q]) /\ own(s[q])
      <4>1. PICK x : x = s[q]
        OBVIOUS
      <4>2. x \in FunctionRow /\ FunctionOK(x)
        BY <1>3, <3>1, <3>3, <4>1
      <4>3. own(x)
        BY <2>6, <2>8, <3>1, <3>3, <4>1
      <4> QED
        BY <4>1, <4>2, <4>3
    <3>12. FunctionOK(y)'
      <4>1. PICK x : x = s[q]
        OBVIOUS
      <4>2. x \in FunctionRow /\ FunctionOK(x) /\ own(x)
        BY <3>11, <4>1
      <4>3. y.rec = x.rec /\ y.name = x.name /\ y.locals = Append(x.locals, k)
        BY <3>4, <4>1, <4>2 DEF FunctionRow
      <4> QED
        BY <2>7, <4>2, <4>3
    <3>13. ASSUME NEW i \in DOMAIN data', NEW j \in DOMAIN data'[i].functions,
                  NEW x, x = data'[i].functions[j]
           PROVE  FunctionOK(x)'
      <4>1. CASE i = p /\ j = q
        BY <3>9, <3>10, <3>12, <3>13, <4>1
      <4>2. CASE ~ (i = p /\ j = q)
        <5>1. i \in DOMAIN data /\ j \in DOMAIN data[i].functions
              /\ x = data[i].functions[j]
          BY <3>3, <3>9, <3>10, <3>13, <4>2
        <5>2. x \in FunctionRow /\ FunctionOK(x) /\ ~ own(x)
          BY <1>3, <2>6, <4>2, <5>1
        <5> QED
          BY <2>7, <5>2
      <4> QED
        BY <4>1, <4>2
    <3> QED
      BY <3>13 DEF LocalsInv
  <2>9. CASE ~ given
    <3>1. data' = data
      BY <1>11, <2>3, <2>9 DEF ParseLocal
    <3>2. ASSUME NEW i \in DOMAIN data, NEW j \in DOMAIN data[i].functions,
                 NEW x, x = data[i].functions[j]
          PROVE  FunctionOK(x)'
      <4>1. x \in FunctionRow /\ FunctionOK(x) /\ ~ own(x)
        BY <1>3, <2>6, <2>9, <3>2
      <4> QED
        BY <2>7, <4>1
    <3> QED
      BY <3>1, <3>2 DEF LocalsInv
  <2> QED
    BY <2>8, <2>9
<1>12. ASSUME UNCHANGED <<cdb, current_module, data>>
       PROVE  LocalsInv'
  <2>1. ASSUME NEW p
        PROVE  SameFunction(p)' = SameFunction(p) /\ Current(p)' = Current(p)
    <3>1. Home(p)' = Home(p)
      BY <1>12 DEF Home, Owners, Owner, Current, Modules
    <3>2. PICK h : h = Home(p)
      OBVIOUS
    <3>3. Kept("function", h)' = Kept("function", h)
      BY <1>12, KeptStays
    <3> QED
      BY <1>12, <3>1, <3>2, <3>3, KeptStays DEF SameFunction
  <2>2. \A m : LocalsOf(m)' = LocalsOf(m)
    BY <1>12, <2>1 DEF LocalsOf
  <2>3. \A x : FunctionOK(x) => FunctionOK(x)'
    BY <1>12, <2>2 DEF FunctionOK
  <2> QED
    BY <1>12, <2>3 DEF LocalsInv
<1> QED
  BY <1>6, <1>7, <1>8, <1>9, <1>10, <1>11, <1>12
  DEF Next, ReadMap, MapSymbol, MapSegment, Loaded, vars

(***************************************************************************)
(* A function holds the local symbols the file gives it, in its order, for *)
(* CDB files of any length, though the parser finds module and function by *)
(* name anew for each.                                                     *)
(***************************************************************************)
THEOREM LocalsKept == Spec => []LocalsAtHome
<1>1. LocalsInv => LocalsAtHome
  BY DEF LocalsInv, FunctionOK, LocalsAtHome
<1>2. Init => LocalsInv
  BY DEF Init, LocalsInv
<1> QED
  BY <1>1, <1>2, LocalsStep, HomeInit, HomeStep, SymbolTypes, PTL DEF Spec

-----------------------------------------------------------------------------
(* Looking up a symbol. *)

\* What LookupSymbol(a) has found after n symbols, of what it had found before.
Nearer(a, n, b) == 
  IF SymAddr(n) <= a /\ (b = 0 \/ SymAddr(n) > SymAddr(b)) THEN n ELSE b

\* LookupSymbol is the recursion it is written as.
LEMMA LookupSymbolIs ==
  ASSUME TypeOK, NEW a \in 0 .. Word - 1
  PROVE  \E f :
           /\ f[0] = 0 /\ LookupSymbol(a) = f[Len(symbols)]
           /\ \A n \in 1 .. Len(symbols) : f[n] = Nearer(a, n, f[n - 1])
<1>1. PICK L \in Nat : L = Len(symbols)
  BY DEF TypeOK
<1> DEFINE Part(n, f) == f[0] = 0 /\ \A m \in 1 .. n : f[m] = Nearer(a, m, f[m - 1])
           B == {n \in 1 .. L : \A f \in [0 .. n -> Nat] : ~ Part(n, f)}
           Def(f) == f = [n \in 0 .. Len(symbols) |->
                            IF n = 0 THEN 0
                            ELSE IF SymAddr(n) <= a /\ (f[n - 1] = 0 \/ SymAddr(n) > SymAddr(f[n - 1]))
                              THEN n ELSE f[n - 1]]
\* As far as any n the recursion has a value.
<1>2. \A n \in 0 .. L : \E f \in [0 .. n -> Nat] : Part(n, f)
  <2>1. [m \in 0 .. 0 |-> 0] \in [0 .. 0 -> Nat] /\ Part(0, [m \in 0 .. 0 |-> 0])
    OBVIOUS
  <2>2. SUFFICES B = {}
    <3>1. \A n \in 1 .. L : n \notin B => \E f \in [0 .. n -> Nat] : Part(n, f)
      OBVIOUS
    <3>2. \A n \in 0 .. L : n = 0 \/ n \in 1 .. L
      OBVIOUS
    <3> HIDE DEF B, Part
    <3> QED
      BY <2>1, <2>2, <3>1, <3>2
  <2>3. SUFFICES ASSUME B # {}
                 PROVE  FALSE
    OBVIOUS
  <2>4. B \in SUBSET (Nat \ {0})
    OBVIOUS
  <2>5. PICK n \in B : \A m \in B : n <= m
    <3> HIDE DEF B
    <3> QED
      BY <2>3, <2>4, FirstIs
  <2>6. n \in 1 .. L /\ n - 1 \in 0 .. L /\ ~ (n <= n - 1) /\ n \in Nat
    OBVIOUS
  <2>7. \E f \in [0 .. n - 1 -> Nat] : Part(n - 1, f)
    <3>1. CASE n = 1
      <4>1. n - 1 = 0
        BY <3>1
      <4> HIDE DEF Part
      <4> QED
        BY <2>1, <4>1
    <3>2. CASE n # 1
      <4>1. n - 1 \in 1 .. L /\ n - 1 \notin B
        <5>1. n - 1 \in 1 .. L
          BY <2>6, <3>2
        <5> HIDE DEF B
        <5> QED
          BY <2>5, <2>6, <5>1
      <4> HIDE DEF Part
      <4> QED
        BY <4>1
    <3> QED
      BY <3>1, <3>2
  <2>8. PICK f \in [0 .. n - 1 -> Nat] : Part(n - 1, f)
    BY <2>7
  <2>9. PICK v \in Nat : v = Nearer(a, n, f[n - 1])
    BY <2>6 DEF Nearer
  <2>10. PICK g : g = [m \in 0 .. n |-> IF m = n THEN v ELSE f[m]]
    OBVIOUS
  <2>11. g \in [0 .. n -> Nat] /\ g[n] = v /\ \A m \in 0 .. n - 1 : g[m] = f[m]
    BY <2>6, <2>10
  <2>12. g[0] = 0
    BY <2>6, <2>8, <2>11
  <2>13. ASSUME NEW m \in 1 .. n
         PROVE  g[m] = Nearer(a, m, g[m - 1])
    <3>1. m - 1 \in 0 .. n - 1 /\ g[m - 1] = f[m - 1]
      BY <2>6, <2>11
    <3>2. CASE m = n
      BY <2>9, <2>11, <3>1, <3>2
    <3>3. CASE m # n
      <4>1. m \in 1 .. n - 1 /\ m \in 0 .. n - 1
        BY <2>6, <3>3
      <4> QED
        BY <2>8, <2>11, <3>1, <4>1
    <3> QED
      BY <3>2, <3>3
  <2> QED
    BY <2>5, <2>11, <2>12, <2>13
<1>3. PICK f \in [0 .. L -> Nat] : Part(L, f)
  <2>1. L \in 0 .. L
    OBVIOUS
  <2> HIDE DEF Part
  <2> QED
    BY <1>2, <2>1
<1>4. Def(f)
  <2>1. ASSUME NEW n \in 0 .. L
        PROVE  f[n] = IF n = 0 THEN 0
                      ELSE IF SymAddr(n) <= a /\ (f[n - 1] = 0 \/ SymAddr(n) > SymAddr(f[n - 1]))
                              THEN n ELSE f[n - 1]
    BY <1>3 DEF Nearer
  <2> QED
    BY <1>1, <2>1
<1>5. Def(CHOOSE best : Def(best))
  <2> HIDE DEF Def
  <2> QED
    BY <1>4
<1>6. PICK g : g = CHOOSE best : Def(best)
  OBVIOUS
<1>7. LookupSymbol(a) = g[Len(symbols)]
  BY <1>6 DEF LookupSymbol
<1>8. Def(g)
  <2> HIDE DEF Def
  <2> QED
    BY <1>5, <1>6
<1>9. ASSUME NEW n \in 0 .. L
      PROVE  g[n] = IF n = 0 THEN 0 ELSE Nearer(a, n, g[n - 1])
  BY <1>1, <1>8 DEF Nearer
<1>10. g[0] = 0
  BY <1>9
<1>11. ASSUME NEW n \in 1 .. L
       PROVE  g[n] = Nearer(a, n, g[n - 1])
  <2>1. n \in 0 .. L /\ n # 0
    OBVIOUS
  <2> QED
    BY <1>9, <2>1
<1> HIDE DEF Def, Part, B
<1> QED
  BY <1>1, <1>7, <1>10, <1>11

\* What LookupSymbolExact(a) has found after n symbols, of what it had found before.
Label(a, n, b) == 
  IF SymAddr(n) = a /\ (b = 0 \/ symbols[n].c_like) THEN n ELSE b

\* LookupSymbolExact is the recursion it is written as.
LEMMA LookupSymbolExactIs ==
  ASSUME TypeOK, NEW a \in 0 .. Word - 1
  PROVE  \E f :
           /\ f[0] = 0 /\ LookupSymbolExact(a) = f[Len(symbols)]
           /\ \A n \in 1 .. Len(symbols) : f[n] = Label(a, n, f[n - 1])
<1>1. PICK L \in Nat : L = Len(symbols)
  BY DEF TypeOK
<1> DEFINE Part(n, f) == f[0] = 0 /\ \A m \in 1 .. n : f[m] = Label(a, m, f[m - 1])
           B == {n \in 1 .. L : \A f \in [0 .. n -> Nat] : ~ Part(n, f)}
           Def(f) == f = [n \in 0 .. Len(symbols) |->
                            IF n = 0 THEN 0
                            ELSE IF SymAddr(n) = a /\ (f[n - 1] = 0 \/ symbols[n].c_like)
                              THEN n ELSE f[n - 1]]
\* As far as any n the recursion has a value.
<1>2. \A n \in 0 .. L : \E f \in [0 .. n -> Nat] : Part(n, f)
  <2>1. [m \in 0 .. 0 |-> 0] \in [0 .. 0 -> Nat] /\ Part(0, [m \in 0 .. 0 |-> 0])
    OBVIOUS
  <2>2. SUFFICES B = {}
    <3>1. \A n \in 1 .. L : n \notin B => \E f \in [0 .. n -> Nat] : Part(n, f)
      OBVIOUS
    <3>2. \A n \in 0 .. L : n = 0 \/ n \in 1 .. L
      OBVIOUS
    <3> HIDE DEF B, Part
    <3> QED
      BY <2>1, <2>2, <3>1, <3>2
  <2>3. SUFFICES ASSUME B # {}
                 PROVE  FALSE
    OBVIOUS
  <2>4. B \in SUBSET (Nat \ {0})
    OBVIOUS
  <2>5. PICK n \in B : \A m \in B : n <= m
    <3> HIDE DEF B
    <3> QED
      BY <2>3, <2>4, FirstIs
  <2>6. n \in 1 .. L /\ n - 1 \in 0 .. L /\ ~ (n <= n - 1) /\ n \in Nat
    OBVIOUS
  <2>7. \E f \in [0 .. n - 1 -> Nat] : Part(n - 1, f)
    <3>1. CASE n = 1
      <4>1. n - 1 = 0
        BY <3>1
      <4> HIDE DEF Part
      <4> QED
        BY <2>1, <4>1
    <3>2. CASE n # 1
      <4>1. n - 1 \in 1 .. L /\ n - 1 \notin B
        <5>1. n - 1 \in 1 .. L
          BY <2>6, <3>2
        <5> HIDE DEF B
        <5> QED
          BY <2>5, <2>6, <5>1
      <4> HIDE DEF Part
      <4> QED
        BY <4>1
    <3> QED
      BY <3>1, <3>2
  <2>8. PICK f \in [0 .. n - 1 -> Nat] : Part(n - 1, f)
    BY <2>7
  <2>9. PICK v \in Nat : v = Label(a, n, f[n - 1])
    BY <2>6 DEF Label
  <2>10. PICK g : g = [m \in 0 .. n |-> IF m = n THEN v ELSE f[m]]
    OBVIOUS
  <2>11. g \in [0 .. n -> Nat] /\ g[n] = v /\ \A m \in 0 .. n - 1 : g[m] = f[m]
    BY <2>6, <2>10
  <2>12. g[0] = 0
    BY <2>6, <2>8, <2>11
  <2>13. ASSUME NEW m \in 1 .. n
         PROVE  g[m] = Label(a, m, g[m - 1])
    <3>1. m - 1 \in 0 .. n - 1 /\ g[m - 1] = f[m - 1]
      BY <2>6, <2>11
    <3>2. CASE m = n
      BY <2>9, <2>11, <3>1, <3>2
    <3>3. CASE m # n
      <4>1. m \in 1 .. n - 1 /\ m \in 0 .. n - 1
        BY <2>6, <3>3
      <4> QED
        BY <2>8, <2>11, <3>1, <4>1
    <3> QED
      BY <3>2, <3>3
  <2> QED
    BY <2>5, <2>11, <2>12, <2>13
<1>3. PICK f \in [0 .. L -> Nat] : Part(L, f)
  <2>1. L \in 0 .. L
    OBVIOUS
  <2> HIDE DEF Part
  <2> QED
    BY <1>2, <2>1
<1>4. Def(f)
  <2>1. ASSUME NEW n \in 0 .. L
        PROVE  f[n] = IF n = 0 THEN 0
                      ELSE IF SymAddr(n) = a /\ (f[n - 1] = 0 \/ symbols[n].c_like)
                              THEN n ELSE f[n - 1]
    BY <1>3 DEF Label
  <2> QED
    BY <1>1, <2>1
<1>5. Def(CHOOSE best : Def(best))
  <2> HIDE DEF Def
  <2> QED
    BY <1>4
<1>6. PICK g : g = CHOOSE best : Def(best)
  OBVIOUS
<1>7. LookupSymbolExact(a) = g[Len(symbols)]
  BY <1>6 DEF LookupSymbolExact
<1>8. Def(g)
  <2> HIDE DEF Def
  <2> QED
    BY <1>5, <1>6
<1>9. ASSUME NEW n \in 0 .. L
      PROVE  g[n] = IF n = 0 THEN 0 ELSE Label(a, n, g[n - 1])
  BY <1>1, <1>8 DEF Label
<1>10. g[0] = 0
  BY <1>9
<1>11. ASSUME NEW n \in 1 .. L
       PROVE  g[n] = Label(a, n, g[n - 1])
  <2>1. n \in 0 .. L /\ n # 0
    OBVIOUS
  <2> QED
    BY <1>9, <2>1
<1> HIDE DEF Def, Part, B
<1> QED
  BY <1>1, <1>7, <1>10, <1>11

\* A symbol's narrowed address is a number.
LEMMA SymbolTyped ==
  ASSUME TypeOK, NEW n \in DOMAIN symbols
  PROVE  SymAddr(n) \in Nat /\ symbols[n].c_like \in BOOLEAN
<1>1. symbols[n] \in Symbol
  BY SymbolFilesAssumption DEF TypeOK
<1>2. symbols[n].address \in Nat /\ symbols[n].c_like \in BOOLEAN
  BY <1>1 DEF Symbol
<1> QED
  BY <1>2, SymbolFilesAssumption DEF SymAddr

\* The recursion finds the nearest symbol, the first at its address.
LEMMA LookupSymbolFinds == TypeOK => NearestSymbol
<1> SUFFICES ASSUME TypeOK, NEW a \in 0 .. Word - 1
             PROVE  LET n == LookupSymbol(a)
                        below == {m \in DOMAIN symbols : SymAddr(m) <= a}
                    IN /\ n = 0 <=> below = {}
                       /\ n # 0 => /\ n \in below
                                   /\ \A m \in below :
                                        /\ SymAddr(m) <= SymAddr(n)
                                        /\ SymAddr(m) = SymAddr(n) => n <= m
  BY DEF NearestSymbol
<1>1. PICK L \in Nat : L = Len(symbols)
  BY DEF TypeOK
<1>2. PICK f : /\ f[0] = 0 /\ LookupSymbol(a) = f[L]
               /\ \A n \in 1 .. L : f[n] = Nearer(a, n, f[n - 1])
  BY <1>1, LookupSymbolIs
<1>3. \A m \in 1 .. L : SymAddr(m) \in Nat
  BY <1>1, SymbolTyped DEF TypeOK
<1> DEFINE some(n) == {m \in 1 .. n : SymAddr(m) <= a}
           best(n) == /\ f[n] = 0 <=> some(n) = {}
                      /\ f[n] # 0 => /\ f[n] \in some(n)
                                     /\ \A m \in some(n) :
                                          /\ SymAddr(m) <= SymAddr(f[n])
                                          /\ SymAddr(m) = SymAddr(f[n]) => f[n] <= m
           B == {n \in 1 .. L : ~ best(n)}
<1>4. best(0)
  BY <1>2
<1>5. ASSUME NEW n \in 1 .. L, best(n - 1)
      PROVE  best(n)
  <2>1. f[n] = Nearer(a, n, f[n - 1])
    BY <1>2
  <2>2. \A m : m \in 1 .. n <=> m \in 1 .. n - 1 \/ m = n
    OBVIOUS
  <2>3. \A m \in 1 .. n : m \in 1 .. L
    OBVIOUS
  <2>4. \A m : m \in some(n) <=> m \in some(n - 1) \/ (m = n /\ SymAddr(n) <= a)
    BY <2>2
  <2>5. n \in Nat \ {0} /\ \A m \in some(n - 1) : m \in 1 .. L /\ m < n
    OBVIOUS
  <2> HIDE DEF some
  <2>6. CASE f[n] = n
    BY <1>3, <1>5, <2>1, <2>4, <2>5, <2>6 DEF Nearer
  <2>7. CASE f[n] # n
    BY <1>3, <1>5, <2>1, <2>4, <2>5, <2>7 DEF Nearer
  <2> QED
    BY <2>6, <2>7
<1>6. B = {}
  <2>1. SUFFICES ASSUME B # {}
                 PROVE  FALSE
    OBVIOUS
  <2>2. B \in SUBSET (Nat \ {0})
    OBVIOUS
  <2>3. PICK n \in B : \A m \in B : n <= m
    <3> HIDE DEF B
    <3> QED
      BY <2>1, <2>2, FirstIs
  <2>4. n \in 1 .. L /\ ~ (n <= n - 1) /\ (n - 1 = 0 \/ n - 1 \in 1 .. L)
    OBVIOUS
  <2>5. best(n - 1)
    <3> HIDE DEF best
    <3> QED
      BY <1>4, <2>3, <2>4
  <2> HIDE DEF best
  <2> QED
    BY <1>5, <2>3, <2>4, <2>5
<1>7. best(L)
  <2>1. L = 0 \/ L \in 1 .. L
    OBVIOUS
  <2> HIDE DEF best
  <2> QED
    BY <1>4, <1>6, <2>1
<1>8. DOMAIN symbols = 1 .. L
  BY <1>1 DEF TypeOK
<1> QED
  BY <1>2, <1>7, <1>8

\* The recursion finds a C name where there is one.
LEMMA LookupSymbolExactFinds == TypeOK => LabelPrefersC
<1> SUFFICES ASSUME TypeOK, NEW a \in 0 .. Word - 1
             PROVE  LET n == LookupSymbolExact(a)
                        at == {m \in DOMAIN symbols : SymAddr(m) = a}
                    IN /\ n = 0 <=> at = {}
                       /\ n # 0 => n \in at /\ (symbols[n].c_like
                                                \/ \A m \in at : ~symbols[m].c_like)
  BY DEF LabelPrefersC
<1>1. PICK L \in Nat : L = Len(symbols)
  BY DEF TypeOK
<1>2. PICK f : /\ f[0] = 0 /\ LookupSymbolExact(a) = f[L]
               /\ \A n \in 1 .. L : f[n] = Label(a, n, f[n - 1])
  BY <1>1, LookupSymbolExactIs
<1>3. \A m \in 1 .. L : SymAddr(m) \in Nat
  BY <1>1, SymbolTyped DEF TypeOK
<1> DEFINE some(n) == {m \in 1 .. n : SymAddr(m) = a}
           best(n) == /\ f[n] = 0 <=> some(n) = {}
                      /\ f[n] # 0 => /\ f[n] \in some(n)
                                     /\ \/ symbols[f[n]].c_like
                                        \/ \A m \in some(n) : ~symbols[m].c_like
           B == {n \in 1 .. L : ~ best(n)}
<1>4. best(0)
  BY <1>2
<1>5. ASSUME NEW n \in 1 .. L, best(n - 1)
      PROVE  best(n)
  <2>1. f[n] = Label(a, n, f[n - 1])
    BY <1>2
  <2>2. \A m : m \in 1 .. n <=> m \in 1 .. n - 1 \/ m = n
    OBVIOUS
  <2>3. \A m \in 1 .. n : m \in 1 .. L
    OBVIOUS
  <2>4. \A m : m \in some(n) <=> m \in some(n - 1) \/ (m = n /\ SymAddr(n) = a)
    BY <2>2
  <2>5. n \in Nat \ {0} /\ \A m \in some(n - 1) : m \in 1 .. L /\ m < n
    OBVIOUS
  <2> HIDE DEF some
  <2>6. CASE f[n] = n
    BY <1>3, <1>5, <2>1, <2>4, <2>5, <2>6 DEF Label
  <2>7. CASE f[n] # n
    BY <1>3, <1>5, <2>1, <2>4, <2>5, <2>7 DEF Label
  <2> QED
    BY <2>6, <2>7
<1>6. B = {}
  <2>1. SUFFICES ASSUME B # {}
                 PROVE  FALSE
    OBVIOUS
  <2>2. B \in SUBSET (Nat \ {0})
    OBVIOUS
  <2>3. PICK n \in B : \A m \in B : n <= m
    <3> HIDE DEF B
    <3> QED
      BY <2>1, <2>2, FirstIs
  <2>4. n \in 1 .. L /\ ~ (n <= n - 1) /\ (n - 1 = 0 \/ n - 1 \in 1 .. L)
    OBVIOUS
  <2>5. best(n - 1)
    <3> HIDE DEF best
    <3> QED
      BY <1>4, <2>3, <2>4
  <2> HIDE DEF best
  <2> QED
    BY <1>5, <2>3, <2>4, <2>5
<1>7. best(L)
  <2>1. L = 0 \/ L \in 1 .. L
    OBVIOUS
  <2> HIDE DEF best
  <2> QED
    BY <1>4, <1>6, <2>1
<1>8. DOMAIN symbols = 1 .. L
  BY <1>1 DEF TypeOK
<1> QED
  BY <1>2, <1>7, <1>8

(***************************************************************************)
(* An address in a stack frame or a listing is named by the nearest symbol *)
(* below it, for a MAP file of any length in any order.                    *)
(***************************************************************************)
THEOREM NearestFound == Spec => []NearestSymbol
  BY LookupSymbolFinds, SymbolTypes, PTL DEF Spec

(***************************************************************************)
(* A listing's label is a C name where the address has one.                *)
(***************************************************************************)
THEOREM LabelFound == Spec => []LabelPrefersC
  BY LookupSymbolExactFinds, SymbolTypes, PTL DEF Spec
=============================================================================
