--------------------------- MODULE SourceDelivery ---------------------------
(***************************************************************************)
(* What the client shows for a stopped program: stackTrace names a text by *)
(* a sourceReference, source delivers the text of a reference.  References *)
(* of source files index a cache in class dbg and count up from FirstRef   *)
(* (1000 in dbg.h); references of disassembly listings count up from 2,    *)
(* name nothing in the server, and are disassembled when they are fetched. *)
(* A client fetches a reference it has no text for and keeps the text.     *)
(* Requests are served one after the other (RunControl), so a request with *)
(* its response is one step.                                               *)
(***************************************************************************)
EXTENDS Integers

CONSTANTS
  Addr,        \* addresses the program counter can hold
  Entry,       \* where launch puts it
  Path,        \* source files, by the path resolve_source_path finds them at
  CdbLoc,      \* CdbLoc[a]: {p}, the file the CDB gives address a, or {}
  MapLoc,      \* MapLoc[a]: the same for the MAP symbols
  FirstRef,    \* the first reference of a source file
  MaxRef,      \* bound on the references of listings: no stackTrace beyond it
  MaxSaves     \* bound on how often a file is saved or removed

Partial(S) == {{}} \cup {{x} : x \in S}

ASSUME DeliveryAssumption ==
  /\ Entry \in Addr
  /\ CdbLoc \in [Addr -> Partial(Path)] /\ MapLoc \in [Addr -> Partial(Path)]
  /\ FirstRef \in Nat /\ FirstRef > 1 /\ MaxRef \in Nat /\ MaxSaves \in Nat

VARIABLES
  pc,          \* the program counter
  has_cdb, has_map, \* which symbols the last launch has loaded
  vref,        \* virtual_lst_source_reference_
  next_ref,    \* next_source_reference_
  by_ref,      \* source_ref_to_content_: the texts read, by reference
  by_path,     \* source_path_to_ref_: their references, by path
  disk,        \* the version of each file, 0 when there is no such file
  saves,       \* the files saved or removed so far: the newest version
  born,        \* what disk was at the last launch
  frame,       \* {f}, the stack frame the client shows, or {}
  viewed       \* the texts the client keeps, by reference

symbols == <<has_cdb, has_map>>
cache   == <<next_ref, by_ref, by_path>>
files   == <<disk, saves, born>>
vars    == <<pc, symbols, vref, cache, files, frame, viewed>>

-----------------------------------------------------------------------------
\* A text is a version of a file, or the listing from an address on.
FileText(p, v) == [of |-> {p}, n |-> v]
Listing(a)     == [of |-> {}, n |-> a]

\* The map f after f[x] = y.
Put(f, x, y) == [z \in DOMAIN f \cup {x} |-> IF z = x THEN y ELSE f[z]]

Empty == [z \in {} |-> z]

Init ==
  /\ pc = Entry /\ has_cdb = FALSE /\ has_map = FALSE
  /\ vref = 1 /\ next_ref = FirstRef /\ by_ref = Empty /\ by_path = Empty
  /\ disk \in [Path -> {0, 1}] /\ saves = 1 /\ born = disk
  /\ frame = {} /\ viewed = Empty

\* Mutant: the cache survives the launch.
LaunchKeepsCache ==
  /\ pc' = Entry /\ vref' = 1
  /\ has_cdb' \in BOOLEAN /\ has_map' \in BOOLEAN
  /\ born' = disk /\ frame' = {} /\ viewed' = Empty
  /\ UNCHANGED <<cache, disk, saves>>

\* A client that launches again starts afresh.
Launch ==
  /\ pc' = Entry /\ vref' = 1
  /\ next_ref' = FirstRef /\ by_ref' = Empty /\ by_path' = Empty
  /\ has_cdb' \in BOOLEAN /\ has_map' \in BOOLEAN
  /\ born' = disk /\ frame' = {} /\ viewed' = Empty
  /\ UNCHANGED <<disk, saves>>

\* The program runs and stops elsewhere; the client may still be about to
\* fetch the text of the frame it shows.
Resume ==
  /\ pc' \in Addr
  /\ UNCHANGED <<symbols, vref, cache, files, frame, viewed>>

\* Somebody saves a file or removes it.
Save(p) ==
  /\ saves < MaxSaves
  /\ saves' = saves + 1
  /\ \E v \in {0, saves'} : disk' = [disk EXCEPT ![p] = v]
  /\ UNCHANGED <<pc, symbols, vref, cache, born, frame, viewed>>

-----------------------------------------------------------------------------
(* stackTrace *)

\* lookup_source: the file the CDB gives the address, else the MAP.
LookupSource(a) ==
  IF has_cdb /\ CdbLoc[a] # {} THEN CdbLoc[a]
  ELSE IF has_map THEN MapLoc[a] ELSE {}

\* A file that is gone is not resolved, is not found in the cache by the bare
\* name that is left, and cannot be opened: its reference is 0.
Readable(p) == disk[p] # 0

\* Mutant: the text is found by path and read again.
EnsureReadsAgain(p) ==
  /\ Readable(p)
  /\ by_ref' = Put(by_ref, next_ref, FileText(p, disk[p]))
  /\ by_path' = Put(by_path, p, next_ref)
  /\ next_ref' = next_ref + 1

\* ensure_source_reference for a file that can be read.
EnsureSourceReference(p) ==
  /\ Readable(p)
  /\ IF p \in DOMAIN by_path THEN UNCHANGED cache
     ELSE /\ by_ref' = Put(by_ref, next_ref, FileText(p, disk[p]))
          /\ by_path' = Put(by_path, p, next_ref)
          /\ next_ref' = next_ref + 1

\* Mutant: a file that cannot be read has the reference -1.
FileFrameMinusOne(p) ==
  /\ has_cdb /\ LookupSource(pc) = {p}
  /\ \/ /\ EnsureSourceReference(p)
        /\ frame' = {[ref |-> by_path'[p], path |-> {p}, at |-> pc]}
     \/ /\ ~Readable(p)
        /\ frame' = {[ref |-> -1, path |-> {p}, at |-> pc]}
        /\ UNCHANGED cache
  /\ UNCHANGED vref

\* A frame in a source file; without a reference the client opens the path.
FileFrame(p) ==
  /\ has_cdb /\ LookupSource(pc) = {p}
  /\ \/ /\ EnsureSourceReference(p)
        /\ frame' = {[ref |-> by_path'[p], path |-> {p}, at |-> pc]}
     \/ /\ ~Readable(p)
        /\ frame' = {[ref |-> 0, path |-> {p}, at |-> pc]}
        /\ UNCHANGED cache
  /\ UNCHANGED vref

\* Mutant: the reference stays the same from one listing to the next.
ListingFrameKeepsReference ==
  /\ ~has_cdb \/ LookupSource(pc) = {}
  /\ vref' = 2
  /\ frame' = {[ref |-> vref', path |-> {}, at |-> pc]}
  /\ UNCHANGED cache

\* A frame in a listing of its own.
ListingFrame ==
  /\ ~has_cdb \/ LookupSource(pc) = {}
  /\ vref' = vref + 1
  /\ frame' = {[ref |-> vref', path |-> {}, at |-> pc]}
  /\ UNCHANGED cache

StackTrace ==
  /\ vref < MaxRef
  /\ ListingFrame \/ \E p \in Path : FileFrame(p)
  /\ UNCHANGED <<pc, symbols, files, viewed>>

-----------------------------------------------------------------------------
(* source *)

\* What the handler answers for a reference other than 0.
Deliver(ref) == IF ref \in DOMAIN by_ref THEN by_ref[ref] ELSE Listing(pc)

\* The client fetches what it has no text for; the text is prompt when the
\* program counter is still the frame's.
Source ==
  /\ \E f \in frame :
       /\ f.ref > 0 /\ f.ref \notin DOMAIN viewed
       /\ viewed' = Put(viewed, f.ref,
                        [text |-> Deliver(f.ref), prompt |-> f.at = pc])
  /\ UNCHANGED <<pc, symbols, vref, cache, files, frame>>

Next == Launch \/ Resume \/ StackTrace \/ Source \/ \E p \in Path : Save(p)

Spec == Init /\ [][Next]_vars

-----------------------------------------------------------------------------
(* Properties. *)

Text  == [of : Partial(Path), n : Nat \cup Addr]
Frame == [ref : Nat, path : Partial(Path), at : Addr]

TypeOK ==
  /\ pc \in Addr /\ has_cdb \in BOOLEAN /\ has_map \in BOOLEAN
  /\ vref \in Nat /\ next_ref \in Nat
  /\ DOMAIN by_ref \subseteq Nat /\ \A r \in DOMAIN by_ref : by_ref[r] \in Text
  /\ DOMAIN by_path \subseteq Path /\ \A p \in DOMAIN by_path : by_path[p] \in Nat
  /\ disk \in [Path -> Nat] /\ saves \in Nat /\ born \in [Path -> Nat]
  /\ \A f \in frame : f \in Frame /\ frame = {f}
  /\ DOMAIN viewed \subseteq Nat
  /\ \A r \in DOMAIN viewed : viewed[r] \in [text : Text, prompt : BOOLEAN]

(***************************************************************************)
(* The two maps of the cache are inverse to each other: every file read    *)
(* has one reference, which names a text of that file, and the references  *)
(* handed out are those below the next one (ensure_source_reference).      *)
(***************************************************************************)
CacheInverse ==
  /\ next_ref >= FirstRef /\ DOMAIN by_ref = FirstRef .. (next_ref - 1)
  /\ \A p \in DOMAIN by_path :
       by_path[p] \in DOMAIN by_ref /\ by_ref[by_path[p]].of = {p}
  /\ \A r \in DOMAIN by_ref : \E p \in DOMAIN by_path : by_path[p] = r

(***************************************************************************)
(* A text in the cache was read since the last launch: a file saved before *)
(* the launch is not shown as it was before (clear_source_cache).          *)
(***************************************************************************)
CacheFresh ==
  \A p \in DOMAIN by_path : by_ref[by_path[p]].n >= born[p]

\* What makes it inductive: versions only grow, and 0 is no version.
VersionInv ==
  /\ CacheFresh
  /\ \A p \in Path : /\ disk[p] <= saves /\ born[p] <= saves
                     /\ disk[p] # 0 => disk[p] >= born[p]

(***************************************************************************)
(* As long as listings have not used up the references below FirstRef, a   *)
(* client that fetches each reference once shows the text of its frame: of *)
(* a file frame the text the server still has for that very file, whenever *)
(* it was fetched; of a listing frame the listing from the frame's address *)
(* on, if it was fetched before the program went on.                       *)
(***************************************************************************)
FileFrameShown(f) ==
  /\ f.ref \in DOMAIN by_ref /\ by_ref[f.ref].of = f.path
  /\ f.ref \in DOMAIN viewed => viewed[f.ref].text = by_ref[f.ref]

ListingFrameShown(f) ==
  f.ref \in DOMAIN viewed /\ viewed[f.ref].prompt
    => viewed[f.ref].text = Listing(f.at)

FramesShown ==
  vref < FirstRef =>
    \A f \in frame : /\ f.path # {} /\ f.ref # 0 => FileFrameShown(f)
                     /\ f.path = {} => ListingFrameShown(f)

(***************************************************************************)
(* What makes FramesShown inductive: a text the client keeps is that of a  *)
(* listing frame it has seen or of a file in the cache, so the next        *)
(* listing's reference is one it keeps no text for.                        *)
(***************************************************************************)
DeliveryInv ==
  /\ CacheInverse
  /\ vref < FirstRef =>
       /\ \A r \in DOMAIN viewed :
            r <= vref \/ (r \in DOMAIN by_ref /\ viewed[r].text = by_ref[r])
       /\ \A f \in frame :
            /\ f.path = {} => f.ref <= vref /\ ListingFrameShown(f)
            /\ f.path # {} /\ f.ref # 0 =>
                 f.ref \in DOMAIN by_ref /\ by_ref[f.ref].of = f.path

(***************************************************************************)
(* "Increment the sourceReference so VSCode re-fetches the content (which  *)
(* starts from the current PC)" (stack_trace.cpp): a listing frame shows   *)
(* the listing from its address on.  The code falsifies it: the listings'  *)
(* references run into those of the files.                                 *)
(***************************************************************************)
ListingsShown == \A f \in frame : f.path = {} => ListingFrameShown(f)

(***************************************************************************)
(* "Source code integration via CDB + MAP fallback" (README.md): a stop at *)
(* an address the MAP has a line for is shown in its source file.  The     *)
(* code falsifies it: without a CDB file stackTrace does not look.         *)
(***************************************************************************)
StopsShowSource ==
  \A f \in frame : f.path = {} /\ f.at = pc => LookupSource(pc) = {}
=============================================================================
