----------------------------- MODULE IhxLoader -----------------------------
(***************************************************************************)
(* What launch makes of an Intel HEX file: load_ihx walks the lines once,  *)
(* with a base address, the lowest data address so far and the last start  *)
(* address; launch then puts the program counter at the startAddress of    *)
(* the request, else at a start address of the file, else at the lowest    *)
(* data address.  One line is one step.                                    *)
(*                                                                         *)
(* A byte in memory is named by the line it came from.  A line the loop    *)
(* passes over, for whatever reason (no ':', too short, not hexadecimal,   *)
(* unknown type, too few bytes for its type), has type "other".  Nothing   *)
(* is read past an end record, so it is the end of the file.               *)
(***************************************************************************)
EXTENDS Integers, Sequences

CONSTANTS
  Word,      \* 2^16: offsets are below it, and so is the memory
  Shift,     \* 2^4: a segment counts in units of it
  Lines,     \* the lines a file may have
  MaxLines,  \* bound on the lines read
  Starts     \* the startAddress a request may have

Wide == Word * Word   \* 2^32

Data   == [type : {"data"}, addr : 0 .. Word - 1, count : Nat, good : Nat]
Base   == [type : {"segment", "linear"}, v : 0 .. Word - 1]
Start  == [type : {"start_segment"}, cs : 0 .. Word - 1, ip : 0 .. Word - 1]
            \cup [type : {"start_linear"}, v : 0 .. Wide - 1]
Record == Data \cup Base \cup Start \cup [type : {"other"}]

\* count bytes are announced, the first good of them are hexadecimal.
ASSUME LoaderAssumption ==
  /\ Word \in Nat /\ Word > 1 /\ Shift \in 1 .. Word
  /\ Starts \subseteq Nat
  /\ MaxLines \in Nat
  /\ Lines \subseteq Record
  /\ \A r \in Lines : r.type = "data" => r.good <= r.count

None == -1   \* no address

VARIABLES
  file,            \* the lines read so far
  start,           \* the startAddress of the request, or None
  upper_base,
  lowest_data_addr,
  explicit_entry,  \* the last start address of the file, or None
  mem,             \* for each address, the line its byte came from, or 0
  entry            \* the program counter once launch has set it, or None

loader == <<upper_base, lowest_data_addr, explicit_entry, mem>>
vars   == <<file, start, loader, entry>>

-----------------------------------------------------------------------------
Init ==
  /\ file = << >> /\ start \in Starts \cup {None}
  /\ upper_base = 0 /\ lowest_data_addr = Wide - 1
  /\ explicit_entry = None /\ mem = [a \in 0 .. Word - 1 |-> 0] /\ entry = None

\* The loop reads r.
Read(r) ==
  /\ entry = None /\ Len(file) < MaxLines
  /\ file' = Append(file, r)
  /\ UNCHANGED <<start, entry>>

Other(r) == r.type = "other" /\ Read(r) /\ UNCHANGED loader

\* Mutant: a line without bytes lowers the lowest address too.
DataLineCountsEmpty(r) ==
  /\ r.type = "data" /\ Read(r)
  /\ LET base_addr == upper_base + r.addr IN
     /\ lowest_data_addr' =
          IF base_addr < lowest_data_addr THEN base_addr ELSE lowest_data_addr
     /\ mem' = [a \in DOMAIN mem |->
                  IF \E i \in 0 .. r.good - 1 : (base_addr + i) % Wide = a
                    THEN Len(file') ELSE mem[a]]
  /\ UNCHANGED <<upper_base, explicit_entry>>

\* Addresses are 32 bits wide and wrap; bytes past the memory are dropped.
DataLine(r) ==
  /\ r.type = "data" /\ Read(r)
  /\ LET base_addr == upper_base + r.addr IN
     /\ lowest_data_addr' =
          IF r.count > 0 /\ base_addr < lowest_data_addr
            THEN base_addr ELSE lowest_data_addr
     /\ mem' = [a \in DOMAIN mem |->
                  IF \E i \in 0 .. r.good - 1 : (base_addr + i) % Wide = a
                    THEN Len(file') ELSE mem[a]]
  /\ UNCHANGED <<upper_base, explicit_entry>>

\* The base address a line sets.
BaseAddress(r) == IF r.type = "segment" THEN r.v * Shift ELSE r.v * Word

\* Mutant: a base adds to the base before it.
BaseLineAdds(r) ==
  /\ r.type \in {"segment", "linear"} /\ Read(r)
  /\ upper_base' = (upper_base + BaseAddress(r)) % Wide
  /\ UNCHANGED <<lowest_data_addr, explicit_entry, mem>>

BaseLine(r) ==
  /\ r.type \in {"segment", "linear"} /\ Read(r)
  /\ upper_base' = BaseAddress(r)
  /\ UNCHANGED <<lowest_data_addr, explicit_entry, mem>>

\* The start address a line sets.
StartAddress(r) ==
  IF r.type = "start_segment" THEN r.cs * Shift + r.ip ELSE r.v

StartLine(r) ==
  /\ r.type \in {"start_segment", "start_linear"} /\ Read(r)
  /\ explicit_entry' = StartAddress(r)
  /\ UNCHANGED <<upper_base, lowest_data_addr, mem>>

\* Mutant: a start address of the file beats the request.
EntryOfFile ==
  IF explicit_entry # None THEN explicit_entry % Word
  ELSE IF start # None THEN start % Word
  ELSE IF lowest_data_addr # Wide - 1 THEN lowest_data_addr % Word
  ELSE 0

\* Where launch puts the program counter.
Entry ==
  IF start # None THEN start % Word
  ELSE IF explicit_entry # None THEN explicit_entry % Word
  ELSE IF lowest_data_addr # Wide - 1 THEN lowest_data_addr % Word
  ELSE 0

\* The end of the file.
Enter ==
  /\ entry = None
  /\ entry' = Entry
  /\ UNCHANGED <<file, start, loader>>

\* The launch is served.
Served == entry # None /\ UNCHANGED vars

Next ==
  \/ \E r \in Lines : Other(r) \/ DataLine(r) \/ BaseLine(r) \/ StartLine(r)
  \/ Enter
  \/ Served

Spec == Init /\ [][Next]_vars

-----------------------------------------------------------------------------
(* Properties. *)

TypeOK ==
  /\ file \in Seq(Lines) /\ start \in Starts \cup {None}
  /\ upper_base \in 0 .. Wide - Word /\ lowest_data_addr \in 0 .. Wide - 1
  /\ explicit_entry \in Nat \cup {None}
  /\ mem \in [0 .. Word - 1 -> 0 .. Len(file)]
  /\ entry \in (0 .. Word - 1) \cup {None}

\* What the format says of the lines read, without the loop: line k is placed
\* by the last base line before it.
Latest(K) == CHOOSE k \in K : \A j \in K : j <= k

LinesOf(types) == {k \in DOMAIN file : file[k].type \in types}
BasesBefore(k) == {j \in 1 .. k - 1 : file[j].type \in {"segment", "linear"}}
BaseAt(k) ==
  IF BasesBefore(k) = {} THEN 0 ELSE BaseAddress(file[Latest(BasesBefore(k))])
Address(k, i) == BaseAt(k) + file[k].addr + i

Sources(a) ==
  {k \in LinesOf({"data"}) :
     \E i \in 0 .. file[k].good - 1 : Address(k, i) % Wide = a}

(***************************************************************************)
(* Memory is the image of the lines read: each byte is that of the last    *)
(* line that places one at its address, and 0 where no line does, whatever *)
(* the order of base, data and other lines (load_ihx).                     *)
(***************************************************************************)
MemoryIsImage ==
  \A a \in 0 .. Word - 1 :
    mem[a] = IF Sources(a) = {} THEN 0 ELSE Latest(Sources(a))

StartLines == LinesOf({"start_segment", "start_linear"})

(***************************************************************************)
(* The program is entered at the startAddress of the request, whatever the *)
(* file says, else at the file's last start address, whatever its kind and *)
(* its data; a file with neither start addresses nor data is entered at 0. *)
(***************************************************************************)
EntryFollowsFile ==
  entry # None =>
    /\ start # None => entry = start % Word
    /\ start = None /\ StartLines # {} =>
         entry = StartAddress(file[Latest(StartLines)]) % Word
    /\ start = None /\ LinesOf({"data"}) \cup StartLines = {} => entry = 0

(***************************************************************************)
(* "If omitted, IHX start address is used when available; otherwise entry  *)
(* defaults to 0x0000" (README.md:79-80, of startAddress).  The code does  *)
(* not: without a start address it enters the file at its lowest data      *)
(* address (launch.cpp:149).                                               *)
(***************************************************************************)
EntryDefaultsToZero ==
  entry # None /\ start = None /\ StartLines = {} => entry = 0

\* The lines that count for the lowest address; 2^32 - 1 counts as none.
DataLines == {k \in LinesOf({"data"}) : file[k].count > 0 /\ Address(k, 0) < Wide - 1}

(***************************************************************************)
(* A program without start addresses whose data is whole and inside the    *)
(* memory is entered at a byte the file put there.                         *)
(***************************************************************************)
WellFormed ==
  /\ DataLines # {}
  /\ \A k \in LinesOf({"data"}) :
       file[k].good = file[k].count /\ Address(k, file[k].count) <= Word

EntryIsLoaded ==
  entry # None /\ start = None /\ StartLines = {} /\ WellFormed => mem[entry] # 0

(***************************************************************************)
(* The loop's variables after the lines read.                              *)
(***************************************************************************)
BaseInv == upper_base = BaseAt(Len(file) + 1)

StartInv ==
  explicit_entry = IF StartLines = {} THEN None
                   ELSE StartAddress(file[Latest(StartLines)])

LowestInv ==
  /\ DataLines = {} => lowest_data_addr = Wide - 1
  /\ DataLines # {} => \E k \in DataLines : lowest_data_addr = Address(k, 0)
  /\ \A k \in DataLines : lowest_data_addr <= Address(k, 0)

EntryInv == entry # None => entry = Entry

LoaderInv == BaseInv /\ StartInv /\ LowestInv /\ MemoryIsImage /\ EntryInv
=============================================================================
