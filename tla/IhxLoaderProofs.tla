--------------------------- MODULE IhxLoaderProofs ---------------------------
(***************************************************************************)
(* The loader computes the image and the entry point the lines say, for    *)
(* files of any length and content and every width of an address.          *)
(***************************************************************************)
EXTENDS IhxLoader, FiniteSetTheorems, TLAPS

\* Addresses are numbers.
LEMMA WideNat == Wide \in Nat /\ Wide >= Word /\ Wide - Word \in Nat
BY LoaderAssumption DEF Wide

(***************************************************************************)
(* The last of some of the first n lines is one of them.                   *)
(***************************************************************************)
LEMMA LatestIsLast ==
  ASSUME NEW n \in Nat, NEW K \in SUBSET (1 .. n), K # {}
  PROVE  Latest(K) \in K /\ \A j \in K : j <= Latest(K)
<1> DEFINE R == StrictSubsetOrdering(Nat)
           T == {J \in FiniteSubsetsOf(Nat) : \E k \in K : J = k .. n}
<1>1. IsWellFoundedOn(R, FiniteSubsetsOf(Nat))
  BY FS_StrictSubsetOrderingWellFounded
<1>2. \A k \in K : k .. n \in T
  BY FS_Interval DEF FiniteSubsetsOf
<1>3. PICK J \in T : \A I \in T : ~ (<<I, J>> \in R)
  <2>1. T \subseteq FiniteSubsetsOf(Nat) /\ T # {}
    BY <1>2
  <2> HIDE DEF R, T
  <2> QED BY <1>1, <2>1, WFMin
<1>4. PICK k \in K : J = k .. n
  OBVIOUS
<1>5. ASSUME NEW j \in K PROVE j <= k
  <2>1. SUFFICES ASSUME k < j PROVE FALSE
    OBVIOUS
  <2>2. j .. n \in T /\ k .. n \in T
    BY <1>2
  <2>3. j .. n \subseteq k .. n /\ k \in k .. n /\ k \notin j .. n
    BY <2>1
  <2>4. <<j .. n, k .. n>> \in R
    BY <2>2, <2>3 DEF StrictSubsetOrdering, FiniteSubsetsOf
  <2> QED BY <1>3, <1>4, <2>2, <2>4
<1> QED BY <1>5 DEF Latest

\* A line after all others is the last of them.
LEMMA LatestIsNew ==
  ASSUME NEW n \in Nat, NEW K \in SUBSET (1 .. n)
  PROVE  Latest(K \cup {n + 1}) = n + 1
<1>1. /\ n + 1 \in K \cup {n + 1} /\ \A j \in K \cup {n + 1} : j <= n + 1
      /\ \A k \in K \cup {n + 1} : (\A j \in K \cup {n + 1} : j <= k) => k = n + 1
  OBVIOUS
<1> QED BY <1>1 DEF Latest

-----------------------------------------------------------------------------
(* Types. *)

\* A line's base and start addresses are addresses.
LEMMA LineAddresses ==
  ASSUME NEW r \in Lines
  PROVE  /\ r.type \in {"segment", "linear"} => BaseAddress(r) \in 0 .. Wide - Word
         /\ r.type \in {"start_segment", "start_linear"} => StartAddress(r) \in Nat
         /\ r.type = "data" => /\ r.addr \in 0 .. Word - 1
                               /\ r.count \in Nat /\ r.good \in Nat
                               /\ r.good <= r.count
<1> USE LoaderAssumption DEF Record, Data, Base, Start
<1>1. ASSUME r.type \in {"segment", "linear"}
      PROVE  BaseAddress(r) \in 0 .. Wide - Word
  <2>1. r.v \in 0 .. Word - 1
    BY <1>1
  <2>2. ASSUME NEW v \in 0 .. Word - 1, NEW s \in 1 .. Word
        PROVE  v * s \in Nat /\ v * s <= Word * Word - Word
    <3>1. v * s <= (Word - 1) * s /\ (Word - 1) * s <= (Word - 1) * Word
      OBVIOUS
    <3> QED BY <3>1
  <2>3. Shift \in 1 .. Word /\ Word \in 1 .. Word
    OBVIOUS
  <2> QED BY <2>1, <2>2, <2>3, WideNat DEF BaseAddress, Wide
<1>2. ASSUME r.type \in {"start_segment", "start_linear"}
      PROVE  StartAddress(r) \in Nat
  BY <1>2, WideNat DEF StartAddress
<1>3. ASSUME r.type = "data"
      PROVE  /\ r.addr \in 0 .. Word - 1 /\ r.count \in Nat /\ r.good \in Nat
             /\ r.good <= r.count
  BY <1>3
<1> QED BY <1>1, <1>2, <1>3

\* Every step keeps the types.
LEMMA TypeStep == TypeOK /\ [Next]_vars => TypeOK'
<1> SUFFICES ASSUME TypeOK, [Next]_vars PROVE TypeOK'
  OBVIOUS
<1> USE LoaderAssumption, WideNat DEF TypeOK
<1>1. ASSUME NEW r \in Lines, Read(r)
      PROVE  /\ file' \in Seq(Lines) /\ Len(file') = Len(file) + 1
             /\ start' \in Starts \cup {None} /\ entry' = None
  BY <1>1 DEF Read
<1>2. ASSUME NEW r \in Lines, Other(r) PROVE TypeOK'
  BY <1>1, <1>2 DEF Other, loader
<1>3. ASSUME NEW r \in Lines, DataLine(r) PROVE TypeOK'
  <2>1. upper_base + r.addr \in Nat
    BY <1>3, LineAddresses DEF DataLine
  <2>2. lowest_data_addr' \in 0 .. Wide - 1
    BY <1>3, <2>1 DEF DataLine
  <2>3. mem' \in [0 .. Word - 1 -> 0 .. Len(file')]
    BY <1>1, <1>3 DEF DataLine
  <2> QED BY <1>1, <1>3, <2>2, <2>3 DEF DataLine
<1>4. ASSUME NEW r \in Lines, BaseLine(r) PROVE TypeOK'
  BY <1>1, <1>4, LineAddresses DEF BaseLine
<1>5. ASSUME NEW r \in Lines, StartLine(r) PROVE TypeOK'
  BY <1>1, <1>5, LineAddresses DEF StartLine
<1>6. CASE Enter
  <2>1. Entry \in 0 .. Word - 1
    <3>1. \A x \in Nat : x % Word \in 0 .. Word - 1
      OBVIOUS
    <3>2. /\ start # None => start % Word \in 0 .. Word - 1
          /\ explicit_entry # None => explicit_entry % Word \in 0 .. Word - 1
          /\ lowest_data_addr % Word \in 0 .. Word - 1
      <4>1. /\ start # None => start \in Nat
            /\ explicit_entry # None => explicit_entry \in Nat
            /\ lowest_data_addr \in Nat
        OBVIOUS
      <4> HIDE DEF TypeOK
      <4> QED BY <3>1, <4>1, Zenon
    <3>3. 0 \in 0 .. Word - 1
      OBVIOUS
    <3> QED BY <3>2, <3>3, Zenon DEF Entry
  <2> QED BY <1>6, <2>1 DEF Enter, loader
<1>7. CASE UNCHANGED vars
  BY <1>7 DEF vars, loader
<1> QED BY <1>2, <1>3, <1>4, <1>5, <1>6, <1>7 DEF Next, Served

(***************************************************************************)
(* Every state of the loader is of its type: the bytes written stay inside *)
(* the memory and every base address inside the file's address space.      *)
(***************************************************************************)
THEOREM LoaderTypes == Spec => []TypeOK
<1>1. Init => TypeOK
  BY LoaderAssumption, WideNat DEF Init, TypeOK
<1> QED BY <1>1, TypeStep, PTL DEF Spec

-----------------------------------------------------------------------------
(* The loop. *)

\* What reading a line changes in what the format says: the new line alone.
LEMMA ReadFacts ==
  ASSUME TypeOK, NEW r \in Lines, Read(r), NEW n, n = Len(file)
  PROVE  /\ n \in Nat /\ DOMAIN file = 1 .. n /\ DOMAIN file' = 1 .. n + 1
         /\ file'[n + 1] = r /\ \A k \in 1 .. n : file'[k] = file[k]
         /\ Len(file') = n + 1
BY DEF TypeOK, Read

LEMMA ReadBases ==
  ASSUME TypeOK, NEW r \in Lines, Read(r), NEW n, n = Len(file)
  PROVE  /\ \A k \in 1 .. n + 1 : BaseAt(k)' = BaseAt(k)
         /\ BaseAt(n + 2)' = IF r.type \in {"segment", "linear"} THEN BaseAddress(r)
                             ELSE BaseAt(n + 1)
<1>1. /\ n \in Nat /\ file'[n + 1] = r /\ \A k \in 1 .. n : file'[k] = file[k]
  BY ReadFacts
<1>2. \A k \in 1 .. n + 1 : BasesBefore(k) \subseteq 1 .. n
  BY <1>1 DEF BasesBefore
<1>3. \A k \in 1 .. n + 1 : BasesBefore(k)' = BasesBefore(k)
  BY <1>1 DEF BasesBefore
<1>4. ASSUME NEW k \in 1 .. n + 1, BasesBefore(k) # {}
      PROVE  file'[Latest(BasesBefore(k))] = file[Latest(BasesBefore(k))]
  BY <1>1, <1>2, <1>4, LatestIsLast
<1>5. \A K : Latest(K)' = Latest(K)
  BY DEF Latest
<1>6. \A k \in 1 .. n + 1 : BaseAt(k)' = BaseAt(k)
  BY <1>3, <1>4 DEF BaseAt, BaseAddress
<1>7. CASE r.type \in {"segment", "linear"}
  <2>1. BasesBefore(n + 2)' = BasesBefore(n + 1) \cup {n + 1}
    BY <1>1, <1>7 DEF BasesBefore
  <2>2. BasesBefore(n + 1) \in SUBSET (1 .. n)
    BY <1>1, <1>2
  <2>3. Latest(BasesBefore(n + 1) \cup {n + 1}) = n + 1
    BY <1>1, <2>2, LatestIsNew
  <2> QED BY <1>1, <1>6, <1>7, <2>1, <2>3 DEF BaseAt, BaseAddress
<1>8. CASE r.type \notin {"segment", "linear"}
  <2>1. BasesBefore(n + 2)' = BasesBefore(n + 1)
    BY <1>1, <1>8 DEF BasesBefore
  <2> QED BY <1>1, <1>4, <1>6, <1>8, <2>1 DEF BaseAt, BaseAddress
<1> QED BY <1>6, <1>7, <1>8

LEMMA ReadLines ==
  ASSUME TypeOK, NEW r \in Lines, Read(r), NEW n, n = Len(file), NEW types
  PROVE  /\ LinesOf(types) \in SUBSET (1 .. n)
         /\ LinesOf(types)' = IF r.type \in types THEN LinesOf(types) \cup {n + 1}
                              ELSE LinesOf(types)
<1>1. /\ n \in Nat /\ DOMAIN file = 1 .. n /\ DOMAIN file' = 1 .. n + 1
      /\ file'[n + 1] = r /\ \A k \in 1 .. n : file'[k] = file[k]
  BY ReadFacts
<1>2. LinesOf(types)' = {k \in 1 .. n + 1 : file'[k].type \in types}
  BY <1>1 DEF LinesOf
<1>3. LinesOf(types) = {k \in 1 .. n : file[k].type \in types}
  BY <1>1 DEF LinesOf
<1>4. 1 .. n + 1 = (1 .. n) \cup {n + 1}
  BY <1>1
<1> QED BY <1>1, <1>2, <1>3, <1>4

\* Lines placed before stay where they are.
LEMMA ReadAddresses ==
  ASSUME TypeOK, NEW r \in Lines, Read(r), NEW n, n = Len(file)
  PROVE  /\ \A k \in 1 .. n : \A i : Address(k, i)' = Address(k, i)
         /\ \A i : Address(n + 1, i)' = BaseAt(n + 1) + r.addr + i
<1>1. /\ n \in Nat /\ file'[n + 1] = r /\ \A k \in 1 .. n : file'[k] = file[k]
  BY ReadFacts
<1>2. \A k \in 1 .. n + 1 : BaseAt(k)' = BaseAt(k)
  BY ReadBases
<1>3. n + 1 \in 1 .. n + 1 /\ \A k \in 1 .. n : k \in 1 .. n + 1
  BY <1>1
<1> QED BY <1>1, <1>2, <1>3 DEF Address

(***************************************************************************)
(* A line that is not data leaves the image and the lowest address alone.  *)
(***************************************************************************)
LEMMA ReadOther ==
  ASSUME TypeOK, NEW r \in Lines, Read(r), r.type # "data"
  PROVE  /\ DataLines' = DataLines
         /\ \A k \in DataLines : Address(k, 0)' = Address(k, 0)
         /\ \A a : Sources(a)' = Sources(a)
<1> DEFINE n == Len(file)
<1>1. /\ LinesOf({"data"})' = LinesOf({"data"})
      /\ LinesOf({"data"}) \in SUBSET (1 .. n)
  BY ReadLines
<1>2. /\ \A k \in 1 .. n : file'[k] = file[k]
      /\ \A k \in 1 .. n : \A i : Address(k, i)' = Address(k, i)
  BY ReadFacts, ReadAddresses
<1> QED BY <1>1, <1>2 DEF DataLines, Sources

\* A line of data adds itself to both.
LEMMA ReadData ==
  ASSUME TypeOK, NEW r \in Lines, Read(r), r.type = "data", NEW n, n = Len(file),
         upper_base = BaseAt(n + 1)
  PROVE  /\ DataLines \in SUBSET (1 .. n)
         /\ DataLines' = IF r.count > 0 /\ BaseAt(n + 1) + r.addr < Wide - 1
                         THEN DataLines \cup {n + 1} ELSE DataLines
         /\ \A a : /\ Sources(a) \in SUBSET (1 .. n)
                   /\ Sources(a)' =
                        IF \E i \in 0 .. r.good - 1 :
                             (BaseAt(n + 1) + r.addr + i) % Wide = a
                          THEN Sources(a) \cup {n + 1} ELSE Sources(a)
<1>1. /\ LinesOf({"data"})' = LinesOf({"data"}) \cup {n + 1}
      /\ LinesOf({"data"}) \in SUBSET (1 .. n)
  BY ReadLines
<1>2. /\ n \in Nat /\ file'[n + 1] = r
      /\ \A k \in 1 .. n : file'[k] = file[k]
      /\ \A k \in 1 .. n : \A i : Address(k, i)' = Address(k, i)
      /\ \A i : Address(n + 1, i)' = BaseAt(n + 1) + r.addr + i
  BY ReadFacts, ReadAddresses
<1>3. BaseAt(n + 1) + r.addr + 0 = BaseAt(n + 1) + r.addr
  BY LineAddresses, WideNat, LoaderAssumption DEF TypeOK
<1>4. DataLines' = {k \in LinesOf({"data"}) \cup {n + 1} :
                      file'[k].count > 0 /\ Address(k, 0)' < Wide - 1}
  BY <1>1 DEF DataLines
<1>5. \A a : Sources(a)' = {k \in LinesOf({"data"}) \cup {n + 1} :
                 \E i \in 0 .. file'[k].good - 1 : Address(k, i)' % Wide = a}
  BY <1>1 DEF Sources
<1>6. DataLines \in SUBSET (1 .. n) /\ \A a : Sources(a) \in SUBSET (1 .. n)
  BY <1>1 DEF DataLines, Sources
<1>7. DataLines' = IF r.count > 0 /\ BaseAt(n + 1) + r.addr < Wide - 1
                   THEN DataLines \cup {n + 1} ELSE DataLines
  BY <1>1, <1>2, <1>3, <1>4 DEF DataLines
<1>8. ASSUME NEW a
      PROVE  Sources(a)' = IF \E i \in 0 .. r.good - 1 :
                                (BaseAt(n + 1) + r.addr + i) % Wide = a
                           THEN Sources(a) \cup {n + 1} ELSE Sources(a)
  BY <1>1, <1>2, <1>5 DEF Sources
<1> QED BY <1>6, <1>7, <1>8

-----------------------------------------------------------------------------
(* The invariant. *)

\* Lines are placed at addresses.
LEMMA BaseNat ==
  ASSUME TypeOK, NEW k \in LinesOf({"data"})
  PROVE  BaseAt(k) \in Nat
<1>1. k \in 1 .. Len(file) /\ Len(file) \in Nat
  BY DEF TypeOK, LinesOf
<1>2. BasesBefore(k) \in SUBSET (1 .. k - 1) /\ k - 1 \in Nat
  BY <1>1 DEF BasesBefore
<1>3. ASSUME BasesBefore(k) # {}
      PROVE  Latest(BasesBefore(k)) \in BasesBefore(k)
  BY <1>2, <1>3, LatestIsLast
<1>4. ASSUME NEW j \in BasesBefore(k)
      PROVE  file[j] \in Lines /\ file[j].type \in {"segment", "linear"}
  BY <1>1 DEF BasesBefore, TypeOK
<1>5. ASSUME NEW j \in BasesBefore(k) PROVE BaseAddress(file[j]) \in Nat
  BY <1>4, LineAddresses, WideNat
<1> QED BY <1>3, <1>5 DEF BaseAt

LEMMA DataAddresses ==
  ASSUME TypeOK, NEW k \in LinesOf({"data"})
  PROVE  Address(k, 0) \in Nat
<1>1. file[k] \in Lines /\ file[k].type = "data"
  BY DEF TypeOK, LinesOf
<1>2. file[k].addr \in Nat
  BY <1>1, LineAddresses, LoaderAssumption
<1> QED BY <1>2, BaseNat DEF Address

(***************************************************************************)
(* A line of data keeps the lowest address the lowest.                     *)
(***************************************************************************)
LEMMA DataLowest ==
  ASSUME TypeOK, LowestInv, NEW r \in Lines, DataLine(r), NEW n, n = Len(file),
         upper_base = BaseAt(n + 1), NEW base, base = BaseAt(n + 1) + r.addr
  PROVE  LowestInv'
<1>1. Read(r) /\ r.type = "data"
  BY DEF DataLine
<1>2. /\ DataLines \in SUBSET (1 .. n)
      /\ DataLines' = IF r.count > 0 /\ base < Wide - 1
                      THEN DataLines \cup {n + 1} ELSE DataLines
  BY <1>1, ReadData
<1>3. n \in Nat
  BY <1>1, ReadFacts
<1>4. base \in Nat /\ r.count \in Nat
  BY <1>1, LineAddresses, WideNat, LoaderAssumption DEF TypeOK
<1>5. Wide - 1 \in Nat /\ lowest_data_addr \in Nat /\ lowest_data_addr <= Wide - 1
  BY WideNat, LoaderAssumption DEF TypeOK
<1>6. \A k \in DataLines : Address(k, 0)' = Address(k, 0)
  BY <1>1, <1>2, ReadAddresses
<1>7. Address(n + 1, 0)' = base
  <2>1. Address(n + 1, 0)' = BaseAt(n + 1) + r.addr + 0
    BY <1>1, ReadAddresses
  <2> QED BY <1>4, <2>1
<1>8. lowest_data_addr' = IF r.count > 0 /\ base < lowest_data_addr
                          THEN base ELSE lowest_data_addr
  BY DEF DataLine
<1>9. \A k \in DataLines : Address(k, 0) \in Nat
  BY DataAddresses DEF DataLines
<1>10. CASE r.count > 0 /\ base < lowest_data_addr
  <2>1. lowest_data_addr' = base /\ DataLines' = DataLines \cup {n + 1}
    BY <1>2, <1>4, <1>5, <1>8, <1>10
  <2>2. \A k \in DataLines : base <= Address(k, 0)'
    BY <1>4, <1>5, <1>6, <1>9, <1>10 DEF LowestInv
  <2> QED BY <1>4, <1>7, <2>1, <2>2 DEF LowestInv
<1>11. CASE ~ (r.count > 0 /\ base < lowest_data_addr)
  <2>1. lowest_data_addr' = lowest_data_addr
    BY <1>8, <1>11
  <2>2. CASE DataLines' = DataLines
    BY <1>6, <2>1, <2>2 DEF LowestInv
  <2>3. CASE DataLines' # DataLines
    <3>1. DataLines' = DataLines \cup {n + 1} /\ r.count > 0 /\ base < Wide - 1
      BY <1>2, <2>3
    <3>2. lowest_data_addr <= base /\ DataLines # {}
      BY <1>4, <1>5, <1>11, <3>1 DEF LowestInv
    <3> QED BY <1>6, <1>7, <2>1, <3>1, <3>2 DEF LowestInv
  <2> QED BY <2>2, <2>3
<1> QED BY <1>10, <1>11

(***************************************************************************)
(* A line of data writes its bytes over those of the lines before it.      *)
(***************************************************************************)
LEMMA DataMemory ==
  ASSUME TypeOK, MemoryIsImage, NEW r \in Lines, DataLine(r), NEW n, n = Len(file),
         upper_base = BaseAt(n + 1)
  PROVE  MemoryIsImage'
<1>1. Read(r) /\ r.type = "data"
  BY DEF DataLine
<1>2. \A a : /\ Sources(a) \in SUBSET (1 .. n)
             /\ Sources(a)' = IF \E i \in 0 .. r.good - 1 :
                                   (BaseAt(n + 1) + r.addr + i) % Wide = a
                              THEN Sources(a) \cup {n + 1} ELSE Sources(a)
  BY <1>1, ReadData
<1>3. n \in Nat /\ Len(file') = n + 1
  BY <1>1, ReadFacts
<1>4. mem' = [a \in 0 .. Word - 1 |->
                IF \E i \in 0 .. r.good - 1 : (BaseAt(n + 1) + r.addr + i) % Wide = a
                  THEN n + 1 ELSE mem[a]]
  BY <1>3 DEF DataLine, TypeOK
<1>5. \A K : Latest(K)' = Latest(K)
  BY DEF Latest
<1>6. SUFFICES ASSUME NEW a \in 0 .. Word - 1
               PROVE  mem'[a] = IF Sources(a)' = {} THEN 0 ELSE Latest(Sources(a)')
  BY <1>5 DEF MemoryIsImage
<1>7. CASE \E i \in 0 .. r.good - 1 : (BaseAt(n + 1) + r.addr + i) % Wide = a
  <2>1. Sources(a)' = Sources(a) \cup {n + 1} /\ mem'[a] = n + 1
    BY <1>2, <1>4, <1>7
  <2>2. Latest(Sources(a) \cup {n + 1}) = n + 1
    BY <1>2, <1>3, LatestIsNew
  <2> QED BY <2>1, <2>2
<1>8. CASE ~ \E i \in 0 .. r.good - 1 : (BaseAt(n + 1) + r.addr + i) % Wide = a
  <2>1. Sources(a)' = Sources(a) /\ mem'[a] = mem[a]
    BY <1>2, <1>4, <1>8
  <2> QED BY <2>1 DEF MemoryIsImage
<1> QED BY <1>7, <1>8

(***************************************************************************)
(* Reading a line sets the base for the next, and the last start address.  *)
(***************************************************************************)
LEMMA BaseKept ==
  ASSUME TypeOK, BaseInv, NEW r \in Lines, Read(r),
         upper_base' = IF r.type \in {"segment", "linear"} THEN BaseAddress(r)
                       ELSE upper_base
  PROVE  BaseInv'
<1>1. PICK n : n = Len(file)
  OBVIOUS
<1>2. n \in Nat /\ Len(file') = n + 1
  BY <1>1, ReadFacts
<1>3. BaseAt(n + 2)' = IF r.type \in {"segment", "linear"} THEN BaseAddress(r)
                       ELSE BaseAt(n + 1)
  BY <1>1, ReadBases
<1>4. BaseInv' <=> upper_base' = BaseAt(n + 2)'
  <2>1. Len(file') + 1 = n + 2
    BY <1>2
  <2> QED BY <2>1 DEF BaseInv, BaseAt, BasesBefore
<1> QED BY <1>1, <1>3, <1>4 DEF BaseInv

LEMMA StartKept ==
  ASSUME TypeOK, StartInv, NEW r \in Lines, Read(r),
         explicit_entry' = IF r.type \in {"start_segment", "start_linear"}
                           THEN StartAddress(r) ELSE explicit_entry
  PROVE  StartInv'
<1> DEFINE n == Len(file)
<1>1. /\ n \in Nat /\ file'[n + 1] = r /\ \A k \in 1 .. n : file'[k] = file[k]
  BY ReadFacts
<1>2. /\ StartLines \in SUBSET (1 .. n)
      /\ StartLines' = IF r.type \in {"start_segment", "start_linear"}
                       THEN StartLines \cup {n + 1} ELSE StartLines
  BY ReadLines DEF StartLines
<1>3. \A K : Latest(K)' = Latest(K)
  BY DEF Latest
<1>4. Latest(StartLines \cup {n + 1}) = n + 1
  BY <1>1, <1>2, LatestIsNew
<1>5. StartLines # {} => file'[Latest(StartLines)] = file[Latest(StartLines)]
  BY <1>1, <1>2, LatestIsLast
<1> QED BY <1>1, <1>2, <1>3, <1>4, <1>5 DEF StartInv, StartAddress

(***************************************************************************)
(* Every step keeps the invariant.                                         *)
(***************************************************************************)
LEMMA LoaderStep == TypeOK /\ LoaderInv /\ [Next]_vars => LoaderInv'
<1> SUFFICES ASSUME TypeOK, LoaderInv, [Next]_vars PROVE LoaderInv'
  OBVIOUS
<1> USE DEF LoaderInv
<1>1. ASSUME NEW r \in Lines, Read(r), r.type # "data",
             UNCHANGED <<lowest_data_addr, mem>>
      PROVE  LowestInv' /\ MemoryIsImage'
  <2>1. /\ DataLines' = DataLines
        /\ \A k \in DataLines : Address(k, 0)' = Address(k, 0)
        /\ \A a : Sources(a)' = Sources(a)
    BY <1>1, ReadOther
  <2> QED BY <1>1, <2>1 DEF LowestInv, MemoryIsImage, Latest
<1>2. ASSUME NEW r \in Lines, Read(r) PROVE EntryInv'
  BY <1>2 DEF Read, EntryInv
<1>3. ASSUME NEW r \in Lines, Other(r) PROVE LoaderInv'
  <2>1. /\ Read(r) /\ r.type = "other"
        /\ UNCHANGED <<upper_base, lowest_data_addr, explicit_entry, mem>>
    BY <1>3 DEF Other, loader
  <2> QED BY <1>1, <1>2, <2>1, BaseKept, StartKept
<1>4. ASSUME NEW r \in Lines, DataLine(r) PROVE LoaderInv'
  <2>1. Read(r) /\ r.type = "data" /\ UNCHANGED <<upper_base, explicit_entry>>
    BY <1>4 DEF DataLine
  <2>2. upper_base = BaseAt(Len(file) + 1)
    BY DEF BaseInv
  <2>3. LowestInv' /\ MemoryIsImage'
    BY <1>4, <2>2, DataLowest, DataMemory
  <2> QED BY <1>2, <2>1, <2>3, BaseKept, StartKept
<1>5. ASSUME NEW r \in Lines, BaseLine(r) PROVE LoaderInv'
  <2>1. /\ Read(r) /\ r.type \in {"segment", "linear"} /\ upper_base' = BaseAddress(r)
        /\ UNCHANGED <<lowest_data_addr, explicit_entry, mem>>
    BY <1>5 DEF BaseLine
  <2> QED BY <1>1, <1>2, <2>1, BaseKept, StartKept
<1>6. ASSUME NEW r \in Lines, StartLine(r) PROVE LoaderInv'
  <2>1. /\ Read(r) /\ r.type \in {"start_segment", "start_linear"}
        /\ explicit_entry' = StartAddress(r)
        /\ UNCHANGED <<upper_base, lowest_data_addr, mem>>
    BY <1>6 DEF StartLine
  <2> QED BY <1>1, <1>2, <2>1, BaseKept, StartKept
<1>7. ASSUME UNCHANGED <<file, loader>>
      PROVE  BaseInv' /\ StartInv' /\ LowestInv' /\ MemoryIsImage'
  <2>1. file' = file /\ UNCHANGED <<upper_base, lowest_data_addr, explicit_entry, mem>>
    BY <1>7 DEF loader
  <2>2. BaseInv'
    BY <2>1 DEF BaseInv, BaseAt, BasesBefore, BaseAddress, Latest
  <2>3. StartInv'
    BY <2>1 DEF StartInv, StartLines, LinesOf, StartAddress, Latest
  <2>4. \A k, i : Address(k, i)' = Address(k, i)
    BY <2>1 DEF Address, BaseAt, BasesBefore, BaseAddress, Latest
  <2>5. DataLines' = DataLines
    BY <2>1, <2>4 DEF DataLines, LinesOf
  <2>6. \A a : Sources(a)' = Sources(a)
    BY <2>1, <2>4 DEF Sources, LinesOf
  <2>7. LowestInv'
    BY <2>1, <2>4, <2>5 DEF LowestInv
  <2>8. MemoryIsImage'
    BY <2>1, <2>6 DEF MemoryIsImage, Latest
  <2> QED BY <2>2, <2>3, <2>7, <2>8
<1>8. CASE Enter
  <2>1. EntryInv'
    BY <1>8 DEF Enter, EntryInv, Entry, loader
  <2> QED BY <1>7, <1>8, <2>1 DEF Enter
<1>9. CASE UNCHANGED vars
  <2>1. EntryInv'
    BY <1>9 DEF vars, EntryInv, Entry, loader
  <2> QED BY <1>7, <1>9, <2>1 DEF vars
<1> QED BY <1>3, <1>4, <1>5, <1>6, <1>8, <1>9 DEF Next, Served

\* Before the first line nothing is loaded and no line is anything.
LEMMA LoaderInit == Init => TypeOK /\ LoaderInv
<1> SUFFICES ASSUME Init PROVE TypeOK /\ LoaderInv
  OBVIOUS
<1>1. TypeOK
  BY LoaderAssumption, WideNat DEF Init, TypeOK
<1>2. file = << >> /\ Len(file) = 0 /\ DOMAIN file = {}
  BY DEF Init
<1>3. StartLines = {} /\ DataLines = {} /\ \A a : Sources(a) = {}
  BY <1>2 DEF StartLines, DataLines, Sources, LinesOf
<1>4. BasesBefore(Len(file) + 1) = {}
  BY <1>2 DEF BasesBefore
<1> QED BY <1>1, <1>3, <1>4 DEF Init, LoaderInv, BaseInv, StartInv, LowestInv,
           MemoryIsImage, EntryInv, BaseAt

(***************************************************************************)
(* The loop's variables say of the lines read what the format says.        *)
(***************************************************************************)
THEOREM LoaderCorrect == Spec => [](TypeOK /\ LoaderInv)
<1>1. (TypeOK /\ LoaderInv) /\ [Next]_vars => (TypeOK /\ LoaderInv)'
  BY TypeStep, LoaderStep
<1> QED BY LoaderInit, <1>1, PTL DEF Spec

(***************************************************************************)
(* Memory is the image of the file, for every file.                        *)
(***************************************************************************)
THEOREM ImageIsRight == Spec => []MemoryIsImage
<1>1. LoaderInv => MemoryIsImage
  BY DEF LoaderInv
<1> QED BY <1>1, LoaderCorrect, PTL

\* "Falls back to the lowest data address" (launch.cpp, of load_ihx).
FallsBackToLowest ==
  entry # None /\ start = None /\ StartLines = {} /\ DataLines # {} =>
    \E k \in DataLines : /\ entry = Address(k, 0) % Word
                         /\ \A j \in DataLines : Address(k, 0) <= Address(j, 0)

\* The entry point follows the file in every state of the invariant.
LEMMA EntryFacts == TypeOK /\ LoaderInv => EntryFollowsFile /\ FallsBackToLowest
<1> SUFFICES ASSUME TypeOK, LoaderInv, entry # None
             PROVE  EntryFollowsFile /\ FallsBackToLowest
  BY DEF EntryFollowsFile, FallsBackToLowest
<1>1. entry = Entry /\ StartInv /\ LowestInv
  BY DEF LoaderInv, EntryInv
<1>2. ASSUME StartLines # {}
      PROVE  StartAddress(file[Latest(StartLines)]) # None
  <2>1. Len(file) \in Nat /\ StartLines \in SUBSET (1 .. Len(file))
    BY DEF StartLines, LinesOf, TypeOK
  <2>2. Latest(StartLines) \in StartLines
    BY <1>2, <2>1, LatestIsLast
  <2>3. /\ file[Latest(StartLines)] \in Lines
        /\ file[Latest(StartLines)].type \in {"start_segment", "start_linear"}
    BY <2>2 DEF StartLines, LinesOf, TypeOK
  <2> QED BY <2>3, LineAddresses DEF None
<1>3. ASSUME DataLines # {}
      PROVE  /\ lowest_data_addr # Wide - 1
             /\ \E k \in DataLines : /\ lowest_data_addr = Address(k, 0)
                                     /\ \A j \in DataLines : Address(k, 0) <= Address(j, 0)
  <2>1. PICK k \in DataLines : lowest_data_addr = Address(k, 0)
    BY <1>1, <1>3 DEF LowestInv
  <2>2. Address(k, 0) < Wide - 1 /\ Address(k, 0) \in Nat /\ Wide - 1 \in Int
    BY DataAddresses, WideNat DEF DataLines
  <2> QED BY <1>1, <2>1, <2>2 DEF LowestInv
<1>4. DataLines = {} => lowest_data_addr = Wide - 1
  BY <1>1 DEF LowestInv
<1>5. start # None => entry = start % Word
  BY <1>1, Zenon DEF Entry
<1>6. start = None /\ StartLines # {} =>
        entry = StartAddress(file[Latest(StartLines)]) % Word
  BY <1>1, <1>2, Zenon DEF Entry, StartInv
<1>7. start = None /\ StartLines = {} /\ DataLines # {} => entry = lowest_data_addr % Word
  BY <1>1, <1>3, Zenon DEF Entry, StartInv
<1>8. start = None /\ StartLines = {} /\ DataLines = {} => entry = 0
  BY <1>1, <1>4, Zenon DEF Entry, StartInv
<1>9. LinesOf({"data"}) \cup StartLines = {} => StartLines = {} /\ DataLines = {}
  BY DEF DataLines
<1>10. EntryFollowsFile
  BY <1>5, <1>6, <1>8, <1>9, Zenon DEF EntryFollowsFile
<1>11. FallsBackToLowest
  BY <1>3, <1>7, Zenon DEF FallsBackToLowest
<1> QED BY <1>10, <1>11

(***************************************************************************)
(* The program counter is the request's, else the file's last start        *)
(* address, for every file; without either and without data it is 0.       *)
(***************************************************************************)
THEOREM EntryIsRight == Spec => []EntryFollowsFile
BY EntryFacts, LoaderCorrect, PTL

(***************************************************************************)
(* A program of whole data lines inside the memory and no start addresses  *)
(* is entered at a byte of it, whatever the size of the memory.            *)
(***************************************************************************)
THEOREM EntryHasByte == Spec => []EntryIsLoaded
<1>1. TypeOK /\ LoaderInv => EntryIsLoaded
  <2> SUFFICES ASSUME TypeOK, LoaderInv, entry # None, start = None,
                      StartLines = {}, WellFormed
               PROVE  mem[entry] # 0
    BY DEF EntryIsLoaded
  <2>1. PICK k \in DataLines : entry = Address(k, 0) % Word
    BY EntryFacts DEF FallsBackToLowest, WellFormed
  <2>2. k \in LinesOf({"data"}) /\ file[k].count > 0
    BY DEF DataLines
  <2>3. file[k].good = file[k].count /\ Address(k, file[k].count) <= Word
    BY <2>2 DEF WellFormed
  <2>4. file[k].count \in Nat /\ file[k].addr \in Nat
    BY <2>2, LineAddresses, LoaderAssumption DEF LinesOf, TypeOK
  <2>5. Address(k, 0) \in 0 .. Word - 1
    <3>1. Address(k, 0) \in Nat /\ Word \in Nat
      BY <2>2, DataAddresses, LoaderAssumption
    <3>2. BaseAt(k) \in Nat
      BY <2>2, <2>4, BaseNat
    <3>3. Address(k, file[k].count) = Address(k, 0) + file[k].count
      BY <2>4, <3>2 DEF Address
    <3> QED BY <2>2, <2>3, <2>4, <3>1, <3>3
  <2>6. entry = Address(k, 0) /\ Address(k, 0) % Wide = Address(k, 0)
    <3>1. \A x \in 0 .. Word - 1 : x % Word = x
      BY LoaderAssumption
    <3>2. \A x \in 0 .. Wide - 1 : x % Wide = x
      BY WideNat
    <3>3. Address(k, 0) \in 0 .. Wide - 1
      BY <2>5, WideNat, LoaderAssumption
    <3> QED BY <2>1, <2>5, <3>1, <3>2, <3>3, Zenon
  <2>7. 0 \in 0 .. file[k].good - 1
    BY <2>2, <2>3, <2>4
  <2>8. k \in Sources(entry)
    BY <2>2, <2>6, <2>7 DEF Sources
  <2>9. Sources(entry) \in SUBSET (1 .. Len(file)) /\ Len(file) \in Nat
    BY DEF Sources, LinesOf, TypeOK
  <2>10. Latest(Sources(entry)) \in 1 .. Len(file)
    BY <2>8, <2>9, LatestIsLast
  <2> QED BY <2>5, <2>6, <2>8, <2>10 DEF LoaderInv, MemoryIsImage
<1> QED BY <1>1, LoaderCorrect, PTL
=============================================================================
