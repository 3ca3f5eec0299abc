------------------------ MODULE SourceDeliveryProofs ------------------------
(***************************************************************************)
(* Proofs about SourceDelivery, for every program, symbol file, first      *)
(* reference and number of files.                                          *)
(***************************************************************************)
EXTENDS SourceDelivery, TLAPS

\* The file of an address, in any symbols, is one source file or none.
LEMMA LookupType ==
  ASSUME NEW x \in Addr
  PROVE  LookupSource(x) \in Partial(Path)
BY DeliveryAssumption DEF LookupSource, Partial

\* The file and the listing a text can be.
LEMMA TextTypes ==
  /\ \A p \in Path, n \in Nat : FileText(p, n) \in Text
  /\ \A x \in Addr : Listing(x) \in Text
BY DEF FileText, Listing, Text, Partial

-----------------------------------------------------------------------------
(* Types. *)

\* Every step keeps the types.
LEMMA TypeStep == TypeOK /\ [Next]_vars => TypeOK'
<1> SUFFICES ASSUME TypeOK, [Next]_vars
             PROVE  TypeOK'
  OBVIOUS
<1> USE DEF TypeOK, symbols, cache, files
<1>1. CASE Launch
  BY <1>1, DeliveryAssumption DEF Launch, Empty, Frame
<1>2. CASE Resume
  BY <1>2 DEF Resume
<1>3. CASE StackTrace
  <2>1. UNCHANGED <<pc, symbols, files, viewed>>
    BY <1>3 DEF StackTrace
  <2>2. CASE ListingFrame
    <3>1. frame' = {[ref |-> vref + 1, path |-> {}, at |-> pc]} /\ vref' \in Nat
      BY <2>2 DEF ListingFrame
    <3>2. [ref |-> vref + 1, path |-> {}, at |-> pc] \in Frame
      BY DEF Frame, Partial
    <3> QED
      BY <2>1, <2>2, <3>1, <3>2 DEF ListingFrame
  <2>3. ASSUME NEW p \in Path, FileFrame(p)
        PROVE  TypeOK'
    <3>1. CASE Readable(p) /\ EnsureSourceReference(p)
      <4>1. CASE p \in DOMAIN by_path
        <5>1. UNCHANGED cache
          BY <3>1, <4>1 DEF EnsureSourceReference
        <5>2. frame' = {[ref |-> by_path[p], path |-> {p}, at |-> pc]}
          BY <2>3, <3>1, <5>1 DEF FileFrame
        <5>3. [ref |-> by_path[p], path |-> {p}, at |-> pc] \in Frame
          BY <4>1 DEF Frame, Partial
        <5> QED
          BY <2>1, <2>3, <5>1, <5>2, <5>3 DEF FileFrame
      <4>2. CASE p \notin DOMAIN by_path
        <5>1. /\ by_ref' = Put(by_ref, next_ref, FileText(p, disk[p]))
              /\ by_path' = Put(by_path, p, next_ref)
              /\ next_ref' = next_ref + 1
          BY <3>1, <4>2 DEF EnsureSourceReference
        <5>2. FileText(p, disk[p]) \in Text
          BY TextTypes
        <5>3. /\ DOMAIN by_ref' \subseteq Nat
              /\ \A r \in DOMAIN by_ref' : by_ref'[r] \in Text
          BY <5>1, <5>2 DEF Put
        <5>4. /\ DOMAIN by_path' \subseteq Path
              /\ \A z \in DOMAIN by_path' : by_path'[z] \in Nat
          BY <5>1 DEF Put
        <5>5. frame' = {[ref |-> next_ref, path |-> {p}, at |-> pc]}
          BY <2>3, <3>1, <5>1 DEF FileFrame, Put
        <5>6. [ref |-> next_ref, path |-> {p}, at |-> pc] \in Frame
          BY DEF Frame, Partial
        <5> QED
          BY <2>1, <2>3, <5>1, <5>3, <5>4, <5>5, <5>6 DEF FileFrame
      <4> QED
        BY <4>1, <4>2
    <3>2. CASE ~Readable(p)
      <4>1. frame' = {[ref |-> 0, path |-> {p}, at |-> pc]} /\ UNCHANGED <<cache, vref>>
        BY <2>3, <3>2 DEF FileFrame, EnsureSourceReference
      <4>2. [ref |-> 0, path |-> {p}, at |-> pc] \in Frame
        BY DEF Frame, Partial
      <4> QED
        BY <2>1, <4>1, <4>2
    <3> QED
      BY <2>3, <3>1, <3>2 DEF FileFrame
  <2> QED
    BY <1>3, <2>2, <2>3 DEF StackTrace
<1>4. CASE Source
  <2>1. UNCHANGED <<pc, symbols, vref, cache, files, frame>>
    BY <1>4 DEF Source
  <2>2. PICK f \in frame :
          viewed' = Put(viewed, f.ref, [text |-> Deliver(f.ref), prompt |-> f.at = pc])
    BY <1>4 DEF Source
  <2>3. Deliver(f.ref) \in Text
    BY TextTypes DEF Deliver
  <2>4. f.ref \in Nat
    BY DEF Frame
  <2>5. [text |-> Deliver(f.ref), prompt |-> f.at = pc] \in [text : Text, prompt : BOOLEAN]
    BY <2>3
  <2>6. /\ DOMAIN viewed' \subseteq Nat
        /\ \A r \in DOMAIN viewed' : viewed'[r] \in [text : Text, prompt : BOOLEAN]
    BY <2>2, <2>4, <2>5 DEF Put
  <2> QED
    BY <2>1, <2>6
<1>5. ASSUME NEW p \in Path, Save(p)
      PROVE  TypeOK'
  BY <1>5 DEF Save
<1>6. CASE UNCHANGED vars
  BY <1>6 DEF vars
<1> QED
  BY <1>1, <1>2, <1>3, <1>4, <1>5, <1>6 DEF Next

(***************************************************************************)
(* Every state of the source views is of its type, whatever the editor     *)
(* does to the files meanwhile.                                            *)
(***************************************************************************)
THEOREM DeliveryTypes == Spec => []TypeOK
<1>1. Init => TypeOK
  <2> SUFFICES ASSUME Init
               PROVE  TypeOK
    OBVIOUS
  <2>1. DOMAIN by_ref = {} /\ DOMAIN by_path = {} /\ DOMAIN viewed = {}
    BY DEF Init, Empty
  <2>2. disk \in [Path -> Nat] /\ born \in [Path -> Nat]
    BY DEF Init
  <2> QED
    BY <2>1, <2>2, DeliveryAssumption DEF Init, TypeOK
<1> QED
  BY <1>1, TypeStep, PTL DEF Spec

-----------------------------------------------------------------------------
(* The cache. *)

\* Reading a file, or finding it read, keeps the cache's maps inverse.
LEMMA EnsureKeepsInverse ==
  ASSUME TypeOK, CacheInverse, NEW p \in Path, EnsureSourceReference(p)
  PROVE  /\ CacheInverse'
         /\ p \in DOMAIN by_path'
         /\ \A r \in DOMAIN by_ref : r \in DOMAIN by_ref' /\ by_ref'[r] = by_ref[r]
<1> USE DEF TypeOK, CacheInverse
<1>1. CASE p \in DOMAIN by_path
  BY <1>1 DEF EnsureSourceReference, cache
<1>2. CASE p \notin DOMAIN by_path
  <2>1. /\ by_ref' = Put(by_ref, next_ref, FileText(p, disk[p]))
        /\ by_path' = Put(by_path, p, next_ref)
        /\ next_ref' = next_ref + 1
    BY <1>2 DEF EnsureSourceReference
  <2>2. /\ DOMAIN by_ref' = DOMAIN by_ref \cup {next_ref}
        /\ by_ref'[next_ref].of = {p}
        /\ \A r \in DOMAIN by_ref : by_ref'[r] = by_ref[r]
    <3>1. next_ref \notin DOMAIN by_ref
      OBVIOUS
    <3> QED
      BY <2>1, <3>1 DEF FileText, Put
  <2>3. /\ DOMAIN by_path' = DOMAIN by_path \cup {p}
        /\ by_path'[p] = next_ref
        /\ \A z \in DOMAIN by_path : by_path'[z] = by_path[z]
    BY <1>2, <2>1 DEF Put
  <2> QED
    BY <2>1, <2>2, <2>3, DeliveryAssumption
<1> QED
  BY <1>1, <1>2

(***************************************************************************)
(* A stack frame in a file whose text could be read has that file's        *)
(* reference, and the cache has the text.                                  *)
(***************************************************************************)
LEMMA FileFrameFacts ==
  ASSUME TypeOK, CacheInverse, NEW p \in Path, FileFrame(p)
  PROVE  /\ CacheInverse' /\ vref' = vref
         /\ \A r \in DOMAIN by_ref : r \in DOMAIN by_ref' /\ by_ref'[r] = by_ref[r]
         /\ \A f \in frame' : /\ f.path = {p}
                              /\ f.ref # 0 => /\ f.ref \in DOMAIN by_ref'
                                              /\ by_ref'[f.ref].of = f.path
<1>1. CASE Readable(p) /\ EnsureSourceReference(p)
  <2>1. /\ CacheInverse' /\ p \in DOMAIN by_path'
        /\ \A r \in DOMAIN by_ref : r \in DOMAIN by_ref' /\ by_ref'[r] = by_ref[r]
    BY <1>1, EnsureKeepsInverse
  <2>2. frame' = {[ref |-> by_path'[p], path |-> {p}, at |-> pc]} /\ vref' = vref
    BY <1>1 DEF FileFrame
  <2> QED
    BY <2>1, <2>2 DEF CacheInverse
<1>2. CASE ~Readable(p)
  <2>1. /\ frame' = {[ref |-> 0, path |-> {p}, at |-> pc]}
        /\ UNCHANGED <<cache, vref>>
    BY <1>2 DEF FileFrame, EnsureSourceReference
  <2> QED
    BY <2>1 DEF CacheInverse, cache
<1> QED
  BY <1>1, <1>2 DEF FileFrame

\* Every step keeps the invariant.
LEMMA DeliveryStep == TypeOK /\ DeliveryInv /\ [Next]_vars => DeliveryInv'
<1> SUFFICES ASSUME TypeOK, DeliveryInv, [Next]_vars
             PROVE  DeliveryInv'
  OBVIOUS
<1> USE DEF DeliveryInv, ListingFrameShown
<1>1. CASE Launch
  <2>1. DOMAIN viewed' = {} /\ frame' = {} /\ DOMAIN by_ref' = {} /\ DOMAIN by_path' = {}
    BY <1>1 DEF Launch, Empty
  <2>2. next_ref' = FirstRef
    BY <1>1 DEF Launch
  <2> QED
    BY <2>1, <2>2, DeliveryAssumption DEF CacheInverse
<1>2. CASE Resume
  BY <1>2 DEF Resume, CacheInverse, cache
<1>3. CASE StackTrace
  <2>1. UNCHANGED <<pc, viewed>>
    BY <1>3 DEF StackTrace
  <2>2. CASE ListingFrame
    <3>1. /\ vref' = vref + 1 /\ UNCHANGED cache
          /\ frame' = {[ref |-> vref + 1, path |-> {}, at |-> pc]}
      BY <2>2 DEF ListingFrame
    <3>2. CacheInverse'
      BY <3>1 DEF CacheInverse, cache
    <3>3. ASSUME vref' < FirstRef
          PROVE  vref + 1 \notin DOMAIN viewed
      BY <3>1, <3>3, DeliveryAssumption DEF CacheInverse, TypeOK
    <3> QED
      BY <2>1, <3>1, <3>2, <3>3, DeliveryAssumption DEF cache, TypeOK
  <2>3. ASSUME NEW p \in Path, FileFrame(p)
        PROVE  DeliveryInv'
    <3>1. /\ CacheInverse' /\ vref' = vref
          /\ \A r \in DOMAIN by_ref : r \in DOMAIN by_ref' /\ by_ref'[r] = by_ref[r]
          /\ \A f \in frame' : /\ f.path = {p}
                               /\ f.ref # 0 => /\ f.ref \in DOMAIN by_ref'
                                               /\ by_ref'[f.ref].of = f.path
      BY <2>3, FileFrameFacts
    <3>2. ASSUME vref < FirstRef, NEW r \in DOMAIN viewed
          PROVE  r <= vref \/ (r \in DOMAIN by_ref' /\ viewed[r].text = by_ref'[r])
      BY <3>1, <3>2
    <3>3. \A f \in frame' : f.path # {}
      BY <3>1
    <3> QED
      BY <2>1, <3>1, <3>2, <3>3
  <2> QED
    BY <1>3, <2>2, <2>3 DEF StackTrace
<1>4. CASE Source
  <2>1. UNCHANGED <<pc, vref, cache, frame>>
    BY <1>4 DEF Source
  <2>2. PICK g \in frame :
          /\ g.ref \notin DOMAIN viewed
          /\ viewed' = Put(viewed, g.ref, [text |-> Deliver(g.ref), prompt |-> g.at = pc])
    BY <1>4 DEF Source
  <2>3. CacheInverse'
    BY <2>1 DEF CacheInverse, cache
  <2> SUFFICES ASSUME vref < FirstRef
               PROVE  /\ \A r \in DOMAIN viewed' :
                           \/ r <= vref
                           \/ r \in DOMAIN by_ref /\ viewed'[r].text = by_ref[r]
                      /\ \A f \in frame : f.path = {} => ListingFrameShown(f)'
    BY <2>1, <2>3 DEF cache
  <2>4. frame = {g} /\ g \in Frame
    BY DEF TypeOK
  <2>5. CASE g.path = {}
    <3>1. g.ref <= vref /\ g.ref \notin DOMAIN by_ref
      BY <2>4, <2>5, DeliveryAssumption DEF CacheInverse, TypeOK, Frame
    <3>2. Deliver(g.ref) = Listing(pc)
      BY <3>1 DEF Deliver
    <3> QED
      BY <2>2, <2>4, <2>5, <3>1, <3>2 DEF Put
  <2>6. CASE g.path # {}
    <3>1. g.ref # 0
      BY <1>4, <2>4 DEF Source, Frame
    <3>2. g.ref \in DOMAIN by_ref /\ Deliver(g.ref) = by_ref[g.ref]
      BY <2>4, <2>6, <3>1 DEF Deliver
    <3> QED
      BY <2>2, <2>4, <2>6, <3>2 DEF Put
  <2> QED
    BY <2>5, <2>6
<1>5. ASSUME NEW p \in Path, Save(p)
      PROVE  DeliveryInv'
  BY <1>5 DEF Save, CacheInverse, cache
<1>6. CASE UNCHANGED vars
  BY <1>6 DEF vars, CacheInverse, cache
<1> QED
  BY <1>1, <1>2, <1>3, <1>4, <1>5, <1>6 DEF Next

\* The invariant holds of every session.
LEMMA DeliveryCorrect == Spec => []DeliveryInv
<1>1. Init => DeliveryInv
  <2> SUFFICES ASSUME Init
               PROVE  DeliveryInv
    OBVIOUS
  <2>1. DOMAIN by_ref = {} /\ DOMAIN by_path = {} /\ DOMAIN viewed = {} /\ frame = {}
    BY DEF Init, Empty
  <2> QED
    BY <2>1, DeliveryAssumption DEF Init, DeliveryInv, CacheInverse
<1> QED
  BY <1>1, DeliveryStep, DeliveryTypes, PTL DEF Spec

(***************************************************************************)
(* Every file read has one reference and every reference one file, in      *)
(* every session and for every first reference.                            *)
(***************************************************************************)
THEOREM CacheIsInverse == Spec => []CacheInverse
<1>1. DeliveryInv => CacheInverse
  BY DEF DeliveryInv
<1> QED
  BY <1>1, DeliveryCorrect, PTL

(***************************************************************************)
(* Until the listings have used up the references below FirstRef, every    *)
(* frame is shown with its own text.                                       *)
(***************************************************************************)
THEOREM FramesAreShown == Spec => []FramesShown
<1>1. TypeOK /\ DeliveryInv => FramesShown
  <2> SUFFICES ASSUME TypeOK, DeliveryInv, vref < FirstRef, NEW f \in frame
               PROVE  /\ f.path # {} /\ f.ref # 0 => FileFrameShown(f)
                      /\ f.path = {} => ListingFrameShown(f)
    BY DEF FramesShown
  <2>1. ASSUME f.path # {}, f.ref # 0
        PROVE  FileFrameShown(f)
    <3>1. f.ref \in DOMAIN by_ref /\ by_ref[f.ref].of = f.path
      BY <2>1 DEF DeliveryInv
    <3>2. ~(f.ref <= vref)
      BY <3>1, DeliveryAssumption DEF DeliveryInv, CacheInverse, TypeOK
    <3> QED
      BY <3>1, <3>2 DEF FileFrameShown, DeliveryInv
  <2> QED
    BY <2>1 DEF DeliveryInv
<1> QED
  BY <1>1, DeliveryCorrect, DeliveryTypes, PTL

-----------------------------------------------------------------------------
(* Freshness. *)

\* Reading a file, or finding it read, keeps the cache fresh.
LEMMA EnsureKeepsFresh ==
  ASSUME TypeOK, CacheInverse, VersionInv, UNCHANGED born,
         NEW p \in Path, EnsureSourceReference(p)
  PROVE  CacheFresh'
<1> USE DEF TypeOK, VersionInv, CacheFresh
<1>1. CASE p \in DOMAIN by_path
  BY <1>1 DEF EnsureSourceReference, cache
<1>2. CASE p \notin DOMAIN by_path
  <2>1. /\ by_ref' = Put(by_ref, next_ref, FileText(p, disk[p]))
        /\ by_path' = Put(by_path, p, next_ref)
    BY <1>2 DEF EnsureSourceReference
  <2>2. disk[p] >= born[p]
    BY DEF EnsureSourceReference, Readable
  <2>3. by_path'[p] = next_ref /\ by_ref'[next_ref].n = disk[p]
    BY <2>1 DEF Put, FileText
  <2>4. ASSUME NEW z \in DOMAIN by_path, z # p
        PROVE  by_path'[z] = by_path[z] /\ by_ref'[by_path[z]] = by_ref[by_path[z]]
    <3>1. by_path[z] \in DOMAIN by_ref /\ by_path[z] # next_ref
      BY <2>4 DEF CacheInverse
    <3> QED
      BY <2>1, <2>4, <3>1 DEF Put
  <2>5. DOMAIN by_path' = DOMAIN by_path \cup {p}
    BY <2>1 DEF Put
  <2> QED
    BY <2>2, <2>3, <2>4, <2>5
<1> QED
  BY <1>1, <1>2

\* Every step keeps versions and cache in step.
LEMMA VersionStep ==
  TypeOK /\ CacheInverse /\ VersionInv /\ [Next]_vars => VersionInv'
<1> SUFFICES ASSUME TypeOK, CacheInverse, VersionInv, [Next]_vars
             PROVE  VersionInv'
  OBVIOUS
<1> USE DEF VersionInv, CacheFresh
<1>1. CASE Launch
  <2>1. DOMAIN by_path' = {}
    BY <1>1 DEF Launch, Empty
  <2> QED
    BY <1>1, <2>1 DEF Launch, TypeOK
<1>2. CASE Resume \/ Source
  BY <1>2 DEF Resume, Source, cache, files
<1>3. CASE StackTrace
  <2>1. UNCHANGED files
    BY <1>3 DEF StackTrace
  <2>2. CacheFresh'
    BY <1>3, <2>1, EnsureKeepsFresh
       DEF StackTrace, ListingFrame, FileFrame, cache, files
  <2> QED
    BY <2>1, <2>2 DEF files
<1>4. ASSUME NEW p \in Path, Save(p)
      PROVE  VersionInv'
  <2>1. PICK v \in {0, saves + 1} : disk' = [disk EXCEPT ![p] = v]
    BY <1>4 DEF Save
  <2>2. saves' = saves + 1 /\ UNCHANGED <<cache, born>>
    BY <1>4 DEF Save
  <2> QED
    BY <2>1, <2>2 DEF TypeOK, cache
<1>5. CASE UNCHANGED vars
  BY <1>5 DEF vars, cache, files
<1> QED
  BY <1>1, <1>2, <1>3, <1>4, <1>5 DEF Next

(***************************************************************************)
(* No launch shows a file as it was before the launch.                     *)
(***************************************************************************)
THEOREM CacheIsFresh == Spec => []CacheFresh
<1>1. Init => VersionInv
  <2> SUFFICES ASSUME Init
               PROVE  VersionInv
    OBVIOUS
  <2>1. DOMAIN by_path = {}
    BY DEF Init, Empty
  <2> QED
    BY <2>1 DEF Init, VersionInv, CacheFresh
<1>2. VersionInv => CacheFresh
  BY DEF VersionInv
<1> QED
  BY <1>1, <1>2, VersionStep, DeliveryTypes, CacheIsInverse, PTL DEF Spec
=============================================================================
