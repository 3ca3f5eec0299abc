-------------------------- MODULE ConnectionProofs --------------------------
(***************************************************************************)
(* What Connection promises, for buffers of any size, any number of frames *)
(* and messages of any length, and any division of the stream by the       *)
(* socket.                                                                 *)
(***************************************************************************)
EXTENDS Connection, FiniteSetTheorems, SequenceTheorems, TLAPS

-----------------------------------------------------------------------------
(* Streams of bytes. *)

\* Of some numbers there is a least one.
LEMMA LeastOne ==
  ASSUME NEW K \in SUBSET (Nat \ {0}), K # {}
  PROVE  \E k \in K : \A j \in K : k <= j
<1> DEFINE R == StrictSubsetOrdering(Nat)
           T == {J \in FiniteSubsetsOf(Nat) : \E k \in K : J = 1 .. k}
<1>1. IsWellFoundedOn(R, FiniteSubsetsOf(Nat))
  BY FS_StrictSubsetOrderingWellFounded
<1>2. \A k \in K : 1 .. k \in T
  BY FS_Interval DEF FiniteSubsetsOf
<1>3. PICK J \in T : \A I \in T : ~ (<<I, J>> \in R)
  <2>1. T \subseteq FiniteSubsetsOf(Nat) /\ T # {}
    BY <1>2
  <2> HIDE DEF R, T
  <2> QED BY <1>1, <2>1, WFMin
<1>4. PICK k \in K : J = 1 .. k
  OBVIOUS
<1>5. ASSUME NEW j \in K PROVE k <= j
  <2>1. SUFFICES ASSUME j < k PROVE FALSE
    OBVIOUS
  <2>2. 1 .. j \in T /\ 1 .. k \in T
    BY <1>2
  <2>3. 1 .. j \subseteq 1 .. k /\ k \in 1 .. k /\ k \notin 1 .. j
    BY <2>1
  <2>4. <<1 .. j, 1 .. k>> \in R
    BY <2>2, <2>3 DEF StrictSubsetOrdering, FiniteSubsetsOf
  <2> QED BY <1>3, <1>4, <2>2, <2>4
<1> QED BY <1>5

LEMMA Regroup ==
  ASSUME NEW s \in Seq(Byte), NEW t \in Seq(Byte), NEW u \in Seq(Byte)
  PROVE  (s \o t) \o u = s \o (t \o u)
BY ConcatAssociative

\* From a byte on, the bytes of its message follow it, up to the last one.
LEMMA RunOfBytes ==
  ASSUME NEW sizes, NEW s \in Seq(Byte), Seamless(sizes, s),
         NEW n \in 1 .. Len(s), sizes[s[1].m] \in Nat,
         s[1].at + n - 1 <= sizes[s[1].m]
  PROVE  \A i \in 1 .. n : s[i] = [m |-> s[1].m, at |-> s[1].at + i - 1]
<1> DEFINE B(i) == [m |-> s[1].m, at |-> s[1].at + i - 1]
           K == {i \in 1 .. n : s[i] # B(i)}
<1>1. SUFFICES ASSUME K # {} PROVE FALSE
  OBVIOUS
<1>2. PICK k \in K : \A j \in K : k <= j
  <2>1. K \in SUBSET (Nat \ {0})
    OBVIOUS
  <2> HIDE DEF K
  <2> QED BY <1>1, <2>1, LeastOne
<1>3. s[1] \in Byte /\ s[1] = B(1)
  <2>1. s[1] \in Byte
    BY ElementOfSeq, 1 \in 1 .. Len(s)
  <2> QED BY <2>1 DEF Byte
<1>4. k \in Nat /\ k - 1 \in 1 .. n /\ k - 1 \in 1 .. Len(s) - 1 /\ k - 1 \notin K
  BY <1>2, <1>3
<1>5. s[k - 1] = B(k - 1)
  BY <1>4
<1>6. Follows(sizes, s[k - 1], s[(k - 1) + 1])
  BY <1>4 DEF Seamless
<1>7. s[1].m \in Nat /\ s[1].at \in Nat
  BY <1>3 DEF Byte
<1>8. s[k - 1].m = s[1].m /\ s[k - 1].at = s[1].at + k - 2
  BY <1>4, <1>5, <1>7
<1>9. s[k - 1].at < sizes[s[k - 1].m]
  BY <1>4, <1>7, <1>8
<1>10. s[k] = B(k)
  <2>1. s[(k - 1) + 1] = [m |-> s[1].m, at |-> (s[1].at + k - 2) + 1]
    BY <1>6, <1>8, <1>9 DEF Follows
  <2>2. k \in Nat
    BY <1>4
  <2> HIDE DEF K
  <2>3. (k - 1) + 1 = k /\ \A a \in Nat : (a + k - 2) + 1 = a + k - 1
    BY <2>2
  <2> QED BY <1>7, <2>1, <2>3
<1> QED BY <1>2, <1>10

\* The bytes of a message.
LEMMA BytesType ==
  ASSUME NEW n \in Nat \ {0}, NEW k \in Nat
  PROVE  /\ Bytes(n, k) \in Seq(Byte) /\ Len(Bytes(n, k)) = k
         /\ \A i \in 1 .. k : Bytes(n, k)[i] = [m |-> n, at |-> i]
<1>1. Bytes(n, k) \in [1 .. k -> Byte]
  BY DEF Bytes, Byte
<1> QED BY <1>1 DEF Bytes

LEMMA SeamlessBytes ==
  ASSUME NEW sizes, NEW n \in Nat \ {0}, NEW k \in Nat, sizes[n] = k
  PROVE  Seamless(sizes, Bytes(n, k))
<1> DEFINE b == Bytes(n, k)
<1> SUFFICES ASSUME NEW i \in 1 .. Len(b) - 1 PROVE Follows(sizes, b[i], b[i + 1])
  BY DEF Seamless
<1>1. Len(b) = k /\ \A j \in 1 .. k : b[j] = [m |-> n, at |-> j]
  BY BytesType
<1>2. i \in 1 .. k /\ i + 1 \in 1 .. k /\ i < k
  BY <1>1
<1> QED BY <1>1, <1>2 DEF Follows

\* A part of a stream without gaps has none.
LEMMA SeamlessPart ==
  ASSUME NEW sizes, NEW s \in Seq(Byte), Seamless(sizes, s),
         NEW i \in Nat \ {0}, NEW j \in Nat, j <= Len(s)
  PROVE  Seamless(sizes, SubSeq(s, i, j))
BY DEF Seamless

\* Two streams make one where the second begins with the byte after the first.
LEMMA SeamlessJoin ==
  ASSUME NEW sizes, NEW s \in Seq(Byte), NEW t \in Seq(Byte),
         Seamless(sizes, s), Seamless(sizes, t),
         s # << >> /\ t # << >> => Follows(sizes, s[Len(s)], t[1])
  PROVE  Seamless(sizes, s \o t)
<1> SUFFICES ASSUME NEW i \in 1 .. Len(s \o t) - 1
             PROVE  Follows(sizes, (s \o t)[i], (s \o t)[i + 1])
  BY DEF Seamless
<1>1. CASE i < Len(s)
  BY <1>1 DEF Seamless
<1>2. CASE i = Len(s)
  BY <1>2
<1>3. CASE i > Len(s)
  <2>1. i - Len(s) \in 1 .. Len(t) - 1 /\ (s \o t)[i] = t[i - Len(s)]
        /\ (s \o t)[i + 1] = t[(i - Len(s)) + 1]
    BY <1>3
  <2> QED BY <2>1 DEF Seamless
<1> QED BY <1>1, <1>2, <1>3

\* Only the sizes of the messages in a stream matter.
LEMMA SeamlessSizes ==
  ASSUME NEW sizes, NEW others, NEW s \in Seq(Byte), Seamless(sizes, s),
         \A i \in 1 .. Len(s) : others[s[i].m] = sizes[s[i].m]
  PROVE  Seamless(others, s)
BY DEF Seamless, Follows

\* The stream s, cut by sizes, ends with message n; others are the sizes once
\* message n + 1, of k bytes, is added.
Growing(sizes, others, s, n, k) ==
  /\ s \in Seq(Byte) /\ Seamless(sizes, s) /\ n \in Nat /\ k \in Nat \ {0}
  /\ others[n + 1] = k /\ \A i \in 1 .. Len(s) : others[s[i].m] = sizes[s[i].m]
  /\ s # << >> => others[n] \in Nat /\ s[Len(s)] = [m |-> n, at |-> others[n]]

\* What is then true of the stream all that has the bytes of message n + 1.
Grown(others, s, n, k, all) ==
  /\ all # << >> /\ Seamless(others, all) /\ Len(all) \in Nat
  /\ all[1] = IF s = << >> THEN [m |-> n + 1, at |-> 1] ELSE s[1]
  /\ all[Len(all)] = [m |-> n + 1, at |-> k]
  /\ \A i \in 1 .. Len(all) : IF i <= Len(s) THEN all[i] = s[i]
                              ELSE all[i].m = n + 1 /\ all[i].at \in 1 .. k

\* A stream that ends with message n goes on with message n + 1.
LEMMA StreamGrows ==
  ASSUME NEW sizes, NEW others, NEW s, NEW n, NEW k, Growing(sizes, others, s, n, k)
  PROVE  Grown(others, s, n, k, s \o Bytes(n + 1, k))
<1> DEFINE new == Bytes(n + 1, k)  all == s \o new
<1>0. /\ s \in Seq(Byte) /\ Seamless(sizes, s) /\ n \in Nat /\ k \in Nat \ {0}
      /\ others[n + 1] = k /\ \A i \in 1 .. Len(s) : others[s[i].m] = sizes[s[i].m]
      /\ s # << >> => others[n] \in Nat /\ s[Len(s)] = [m |-> n, at |-> others[n]]
  BY DEF Growing
<1>1. new \in Seq(Byte) /\ Len(new) = k /\ \A i \in 1 .. k : new[i] = [m |-> n + 1, at |-> i]
  <2>1. n + 1 \in Nat \ {0} /\ k \in Nat
    BY <1>0
  <2> QED BY <2>1, BytesType
<1>2. Seamless(others, s)
  BY <1>0, SeamlessSizes
<1>3. Seamless(others, new)
  BY <1>0, SeamlessBytes
<1> HIDE DEF new
<1>4. ASSUME s # << >> PROVE Follows(others, s[Len(s)], new[1])
  BY <1>0, <1>1, <1>4 DEF Follows
<1>5. Seamless(others, all)
  BY <1>0, <1>1, <1>2, <1>3, <1>4, SeamlessJoin
<1>6. all \in Seq(Byte) /\ Len(all) = Len(s) + k /\ Len(s) \in Nat
      /\ \A i \in 1 .. Len(s) + k : all[i] = IF i <= Len(s) THEN s[i] ELSE new[i - Len(s)]
  <2>1. all \in Seq(Byte) /\ Len(all) = Len(s) + Len(new)
        /\ \A i \in 1 .. Len(s) + Len(new) :
             all[i] = IF i <= Len(s) THEN s[i] ELSE new[i - Len(s)]
    BY <1>0, <1>1, ConcatProperties
  <2> QED BY <1>0, <1>1, <2>1
<1>7. all # << >>
  <2>1. Len(all) # 0
    BY <1>0, <1>6
  <2> QED BY <2>1, EmptySeq
<1>8. all[Len(all)] = [m |-> n + 1, at |-> k]
  BY <1>0, <1>1, <1>6
<1>9. all[1] = IF s = << >> THEN [m |-> n + 1, at |-> 1] ELSE s[1]
  <2>1. CASE s = << >>
    BY <1>0, <1>1, <1>6, <2>1
  <2>2. CASE s # << >>
    <3>1. 1 <= Len(s)
      BY <1>0, <2>2, EmptySeq
    <3> QED BY <1>0, <1>6, <2>2, <3>1
  <2> QED BY <2>1, <2>2
<1>10. ASSUME NEW i \in 1 .. Len(all)
       PROVE  IF i <= Len(s) THEN all[i] = s[i] ELSE all[i].m = n + 1 /\ all[i].at \in 1 .. k
  <2>1. CASE i <= Len(s)
    BY <1>0, <1>6, <2>1
  <2>2. CASE i > Len(s)
    <3>1. i - Len(s) \in 1 .. k /\ all[i] = new[i - Len(s)]
      BY <1>0, <1>6, <2>2
    <3> QED BY <1>0, <1>1, <1>6, <2>2, <3>1
  <2> QED BY <1>0, <1>6, <2>1, <2>2
<1> HIDE DEF all
<1> QED
  <2>1. Grown(others, s, n, k, all)
    BY <1>0, <1>5, <1>6, <1>7, <1>8, <1>9, <1>10 DEF Grown
  <2> QED BY <2>1 DEF all, new

-----------------------------------------------------------------------------
(* The reader's place in the stream. *)

\* What the reader has still to read.
Rest == inbuf \o net

LEMMA FrameType ==
  ASSUME NEW f \in Frames
  PROVE  /\ f.fields \in Seq({"length", "field"}) /\ f.length \in Nat \cup {NaN}
         /\ f.throws \in BOOLEAN
         /\ Size(f) \in Nat \ {0} /\ Len(f.fields) \in Nat /\ Size(f) > Len(f.fields)
         /\ f.length \in Nat => Size(f) = Len(f.fields) + 1 + f.length
BY ConnectionAssumption DEF Frame, Size, NaN

LEMMA RestType ==
  ASSUME TypeOK
  PROVE  /\ Rest \in Seq(Byte) /\ Len(Rest) = Len(inbuf) + Len(net)
         /\ inbuf # << >> => /\ Rest # << >> /\ Head(inbuf) = Rest[1]
                             /\ Tail(inbuf) \o net = SubSeq(Rest, 2, Len(Rest))
<1>1. inbuf \in Seq(Byte) /\ net \in Seq(Byte)
  BY DEF TypeOK
<1>2. Rest \in Seq(Byte) /\ Len(Rest) = Len(inbuf) + Len(net)
  BY <1>1 DEF Rest
<1>3. ASSUME inbuf # << >>
      PROVE  /\ Rest # << >> /\ Head(inbuf) = Rest[1]
             /\ Tail(inbuf) \o net = SubSeq(Rest, 2, Len(Rest))
  <2>1. Tail(inbuf) \in Seq(Byte) /\ Len(Tail(inbuf)) = Len(inbuf) - 1
        /\ \A i \in 1 .. Len(inbuf) - 1 : Tail(inbuf)[i] = inbuf[i + 1]
    BY <1>1, <1>3, HeadTailProperties
  <2>2. SubSeq(Rest, 2, Len(Rest)) \in Seq(Byte)
    BY <1>2
  <2>3. Tail(inbuf) \o net \in Seq(Byte)
    BY <1>1, <2>1
  <2>4. Len(Tail(inbuf) \o net) = Len(SubSeq(Rest, 2, Len(Rest)))
    BY <1>1, <1>2, <1>3, <2>1
  <2>5. ASSUME NEW i \in 1 .. Len(Tail(inbuf) \o net)
        PROVE  (Tail(inbuf) \o net)[i] = SubSeq(Rest, 2, Len(Rest))[i]
    BY <1>1, <1>2, <1>3, <2>1 DEF Rest
  <2>6. Tail(inbuf) \o net = SubSeq(Rest, 2, Len(Rest))
    BY <2>2, <2>3, <2>4, <2>5, SeqEqual
  <2>7. Rest # << >> /\ Head(inbuf) = Rest[1]
    BY <1>1, <1>2, <1>3 DEF Rest
  <2> QED BY <2>6, <2>7
<1> QED BY <1>2, <1>3

(***************************************************************************)
(* Once some bytes of one message are read, what is left begins with the   *)
(* message's next byte or, after its last, with the next message.          *)
(***************************************************************************)
After(n) == SubSeq(Rest, n + 1, Len(Rest))

LEMMA Consumed ==
  ASSUME TypeOK, Known(Rest), Seamless(FrameSizes, Rest), NEW n \in 1 .. Len(Rest),
         Rest[1].at + n - 1 <= Size(sent[Rest[1].m])
  PROVE  LET m == Rest[1].m at == Rest[1].at last == at + n - 1 IN
         /\ After(n) \in Seq(Byte) /\ Known(After(n)) /\ Seamless(FrameSizes, After(n))
         /\ m \in DOMAIN sent /\ at \in Nat /\ Size(sent[m]) \in Nat
         /\ \A i \in 1 .. n : Rest[i] = [m |-> m, at |-> at + i - 1]
         /\ After(n) = << >> => Rest[Len(Rest)] = [m |-> m, at |-> last]
         /\ After(n) # << >> =>
              /\ After(n)[Len(After(n))] = Rest[Len(Rest)]
              /\ After(n)[1] = IF last < Size(sent[m]) THEN [m |-> m, at |-> at + n]
                                                       ELSE [m |-> m + 1, at |-> 1]
<1> DEFINE m == Rest[1].m  at == Rest[1].at  last == at + n - 1  tail == After(n)
<1>1. Rest \in Seq(Byte) /\ Len(Rest) \in Nat /\ n \in Nat
  BY RestType
<1>2. tail \in Seq(Byte) /\ Len(tail) = Len(Rest) - n
      /\ \A i \in 1 .. Len(Rest) - n : tail[i] = Rest[n + i]
  BY <1>1 DEF After
<1>3. Known(tail)
  <2> HIDE DEF tail
  <2> SUFFICES ASSUME NEW i \in DOMAIN tail
               PROVE  /\ tail[i].m \in DOMAIN sent
                      /\ tail[i].at \in 1 .. Size(sent[tail[i].m])
    BY DEF Known
  <2>1. i \in 1 .. Len(Rest) - n /\ n + i \in DOMAIN Rest
    BY <1>1, <1>2
  <2> QED BY <1>2, <2>1 DEF Known
<1>4. Seamless(FrameSizes, tail)
  BY <1>1, SeamlessPart DEF After
<1>5. m \in DOMAIN sent /\ at \in Nat
  BY <1>1 DEF Known
<1>6. FrameSizes[m] = Size(sent[m]) /\ Size(sent[m]) \in Nat
  BY <1>5, FrameType DEF FrameSizes, TypeOK
<1>7. \A i \in 1 .. n : Rest[i] = [m |-> m, at |-> at + i - 1]
  BY <1>1, <1>6, RunOfBytes
<1>8. Rest[n] = [m |-> m, at |-> last]
  BY <1>7
<1> HIDE DEF m, at, last, tail
<1>9. ASSUME tail = << >> PROVE Rest[Len(Rest)] = [m |-> m, at |-> last]
  <2>1. Len(Rest) = n
    BY <1>1, <1>2, <1>9
  <2> QED BY <1>8, <2>1
<1>10. ASSUME tail # << >>
       PROVE  /\ tail[Len(tail)] = Rest[Len(Rest)]
              /\ tail[1] = IF last < Size(sent[m]) THEN [m |-> m, at |-> at + n]
                                                   ELSE [m |-> m + 1, at |-> 1]
  <2>1. Len(tail) \in Nat \ {0}
    BY <1>2, <1>10, EmptySeq
  <2>2. n \in 1 .. Len(Rest) - 1 /\ tail[1] = Rest[n + 1] /\ tail[Len(tail)] = Rest[Len(Rest)]
    <3>1. Len(Rest) - n \in Nat \ {0} /\ n + (Len(Rest) - n) = Len(Rest)
      BY <1>1, <1>2, <2>1
    <3>2. tail[1] = Rest[n + 1] /\ tail[Len(Rest) - n] = Rest[n + (Len(Rest) - n)]
      BY <1>2, <3>1
    <3> QED BY <1>1, <1>2, <3>1, <3>2
  <2>3. Follows(FrameSizes, Rest[n], Rest[n + 1])
    BY <2>2 DEF Seamless
  <2>4. last + 1 = at + n
    BY <1>1, <1>5 DEF last
  <2> QED BY <1>6, <1>8, <2>2, <2>3, <2>4 DEF Follows
<1> QED BY <1>2, <1>3, <1>4, <1>5, <1>6, <1>7, <1>9, <1>10 DEF m, at, last, tail

\* Reading some bytes of one message leaves the reader in step.
LEMMA ConsumedInStep ==
  ASSUME TypeOK, Known(Rest), InStep, main \notin Over, in_ok,
         NEW n \in 1 .. Len(Rest), Expected.at + n - 1 <= Size(sent[Expected.m]),
         Rest' = After(n), sent' = sent, closed' = closed,
         main' \notin Over =>
           Expected' = IF Expected.at + n - 1 < Size(sent[Expected.m])
                         THEN [m |-> Expected.m, at |-> Expected.at + n]
                         ELSE [m |-> Expected.m + 1, at |-> 1]
  PROVE  Known(Rest)' /\ InStep'
<1> DEFINE m == Expected.m  at == Expected.at  last == at + n - 1  tail == After(n)
<1>1. /\ Rest \in Seq(Byte) /\ Rest # << >> /\ Rest[1] = Expected
      /\ Seamless(FrameSizes, Rest)
      /\ ~closed => Rest[Len(Rest)] = [m |-> Len(sent), at |-> Size(sent[Len(sent)])]
  BY RestType DEF InStep, Rest
<1>2. /\ tail \in Seq(Byte) /\ Known(tail) /\ Seamless(FrameSizes, tail)
      /\ m \in DOMAIN sent /\ at \in Nat /\ Size(sent[m]) \in Nat
      /\ tail = << >> => Rest[Len(Rest)] = [m |-> m, at |-> last]
      /\ tail # << >> =>
           /\ tail[Len(tail)] = Rest[Len(Rest)]
           /\ tail[1] = IF last < Size(sent[m]) THEN [m |-> m, at |-> at + n]
                                                ELSE [m |-> m + 1, at |-> 1]
  BY <1>1, Consumed
<1>3. main' \notin Over =>
        Expected' = IF last < Size(sent[m]) THEN [m |-> m, at |-> at + n]
                                            ELSE [m |-> m + 1, at |-> 1]
  OBVIOUS
<1> HIDE DEF m, at, last, tail
<1>4. Rest' = tail /\ (inbuf \o net)' = tail
  BY DEF tail, Rest
<1>5. Known(Rest)'
  BY <1>2, <1>4 DEF Known
<1>6. ASSUME main' \notin Over, ~closed, tail = << >>
      PROVE  Expected' = [m |-> Len(sent) + 1, at |-> 1]
  <2>1. m = Len(sent) /\ last = Size(sent[m])
    BY <1>1, <1>2, <1>6
  <2> QED BY <1>2, <1>3, <1>6, <2>1
<1>7. FrameSizes' = FrameSizes
  BY DEF FrameSizes
<1>8. InStep'
  <2> SUFFICES ASSUME (main \notin Over /\ in_ok)'
               PROVE  /\ tail # << >> => tail[1] = Expected'
                      /\ Seamless(FrameSizes', tail)
                      /\ ~closed' /\ tail = << >> =>
                           Expected' = [m |-> Len(sent') + 1, at |-> 1]
                      /\ ~closed' /\ tail # << >> =>
                           tail[Len(tail)] = [m |-> Len(sent'), at |-> Size(sent'[Len(sent')])]
    BY <1>4 DEF InStep
  <2>1. tail # << >> => tail[1] = Expected'
    BY <1>2, <1>3
  <2>2. ~closed' /\ tail # << >> =>
           tail[Len(tail)] = [m |-> Len(sent'), at |-> Size(sent'[Len(sent')])]
    BY <1>1, <1>2
  <2> QED BY <1>2, <1>6, <1>7, <2>1, <2>2
<1> QED BY <1>5, <1>8

-----------------------------------------------------------------------------
(* Every step keeps the reader's invariant. *)

LEMMA InitReader == Init => ReaderInv
<1> SUFFICES ASSUME Init PROVE ReaderInv
  OBVIOUS
<1>1. inbuf \o net = << >> /\ Known(<< >>)
  BY DEF Init, Known
<1>2. Seamless(FrameSizes, << >>)
  BY DEF Seamless
<1>3. Expected = [m |-> 1, at |-> 1]
  BY DEF Init, Expected
<1> QED BY <1>1, <1>2, <1>3
        DEF Init, ReaderInv, InStep, HeaderInv, BodyInv, ServedInv, Over

LEMMA ClientSendReads ==
  ASSUME TypeOK, ReaderInv, NEW f \in Frames, ClientSend(f)
  PROVE  ReaderInv'
<1> DEFINE n == Len(sent)  new == Bytes(n + 1, Size(f))
<1>1. /\ n \in Nat /\ sent' = Append(sent, f) /\ Len(sent') = n + 1
      /\ \A m \in DOMAIN sent : m \in 1 .. n /\ m \in DOMAIN sent' /\ sent'[m] = sent[m]
      /\ sent'[n + 1] = f /\ n + 1 \in DOMAIN sent' /\ n + 1 \notin DOMAIN sent
  BY DEF TypeOK, ClientSend
<1>2. UNCHANGED <<closed, inbuf, in_ok, header, payload, want, main, served>>
  BY DEF ClientSend, reader
<1>3. Size(f) \in Nat \ {0} /\ new \in Seq(Byte) /\ Len(new) = Size(f)
      /\ \A i \in 1 .. Size(f) : new[i] = [m |-> n + 1, at |-> i]
  <2>1. Size(f) \in Nat \ {0} /\ n + 1 \in Nat \ {0}
    BY <1>1, FrameType
  <2> QED BY <2>1, BytesType
<1>4. Rest \in Seq(Byte) /\ Len(Rest) \in Nat
  BY RestType
<1>5. (inbuf \o net)' = Rest \o new
  <2>1. inbuf \in Seq(Byte) /\ net \in Seq(Byte) /\ inbuf' = inbuf /\ net' = net \o new
    BY <1>2 DEF TypeOK, ClientSend
  <2> HIDE DEF new
  <2>2. (inbuf \o net) \o new = inbuf \o (net \o new)
    BY <1>3, <2>1, ConcatAssociative
  <2> QED BY <2>1, <2>2 DEF Rest
<1> HIDE DEF n, new
<1>6. \A i \in DOMAIN Rest : /\ Rest[i].m \in DOMAIN sent
                             /\ Rest[i].at \in 1 .. Size(sent[Rest[i].m])
  BY DEF ReaderInv, Known, Rest
<1>7. ASSUME NEW i \in DOMAIN (Rest \o new)
      PROVE  LET t == (Rest \o new)[i] IN
             t.m \in DOMAIN sent' /\ t.at \in 1 .. Size(sent'[t.m])
  <2> DEFINE t == (Rest \o new)[i]
  <2>1. CASE i \in 1 .. Len(Rest)
    <3>1. i \in DOMAIN Rest /\ t = Rest[i]
      BY <1>3, <1>4, <2>1
    <3> QED BY <1>1, <1>6, <3>1
  <2>2. CASE i \notin 1 .. Len(Rest)
    <3>1. i - Len(Rest) \in 1 .. Size(f) /\ t = new[i - Len(Rest)]
      BY <1>3, <1>4, <2>2
    <3>2. t.m = n + 1 /\ t.at \in 1 .. Size(f)
      BY <1>3, <3>1
    <3> QED BY <1>1, <3>2
  <2> QED BY <2>1, <2>2
<1>8. Known(inbuf \o net)'
  BY <1>5, <1>7 DEF Known
<1>9. ~closed /\ in_ok /\ main \notin Over
  BY DEF ClientSend, ReaderInv, ServedInv
<1>10. /\ Seamless(FrameSizes, Rest)
       /\ Rest # << >> => Rest[1] = Expected
       /\ Rest = << >> => Expected = [m |-> n + 1, at |-> 1]
       /\ Rest # << >> => Rest[Len(Rest)] = [m |-> n, at |-> Size(sent[n])]
  BY <1>9 DEF ReaderInv, InStep, Rest, n
<1>11. Expected' = Expected
  <2>1. main = "body" => sent'[Len(served) + 1] = sent[Len(served) + 1]
    BY <1>1 DEF ReaderInv, BodyInv
  <2> QED BY <1>2, <2>1 DEF Expected
<1>12. Seamless(FrameSizes', Rest \o new)
  <2>1. \A m \in DOMAIN sent : FrameSizes'[m] = FrameSizes[m]
    BY <1>1 DEF FrameSizes
  <2>2. FrameSizes'[n + 1] = Size(f) /\ (n \in DOMAIN sent => FrameSizes'[n] = Size(sent[n]))
    BY <1>1 DEF FrameSizes
  <2>3. Seamless(FrameSizes', Rest)
    BY <1>4, <1>6, <1>10, <2>1, SeamlessSizes
  <2>4. Seamless(FrameSizes', new)
    BY <1>1, <1>3, <2>2, SeamlessBytes DEF new
  <2>5. ASSUME Rest # << >> PROVE Follows(FrameSizes', Rest[Len(Rest)], new[1])
    <3>1. Len(Rest) \in DOMAIN Rest /\ Rest[Len(Rest)] = [m |-> n, at |-> Size(sent[n])]
      BY <1>4, <1>10, <2>5, EmptySeq
    <3>2. n \in DOMAIN sent /\ Size(sent[n]) \in Nat
      BY <1>6, <3>1
    <3>3. new[1] = [m |-> n + 1, at |-> 1]
      BY <1>3
    <3> QED BY <2>2, <3>1, <3>2, <3>3 DEF Follows
  <2> QED BY <1>3, <1>4, <2>3, <2>4, <2>5, SeamlessJoin
<1>13. /\ (Rest \o new) # << >> /\ (Rest \o new)[1] = Expected
       /\ (Rest \o new)[Len(Rest \o new)] = [m |-> n + 1, at |-> Size(f)]
  <2>1. Len(Rest \o new) = Len(Rest) + Size(f) /\ (Rest \o new) # << >>
    <3>1. Len(Rest \o new) = Len(Rest) + Size(f)
      BY <1>3, <1>4, ConcatProperties
    <3>2. Len(Rest \o new) # 0
      BY <1>3, <1>4, <3>1
    <3> QED BY <3>1, <3>2, EmptySeq
  <2>2. (Rest \o new)[Len(Rest) + Size(f)] = [m |-> n + 1, at |-> Size(f)]
    BY <1>3, <1>4
  <2>3. CASE Rest = << >>
    BY <1>3, <1>4, <1>10, <2>1, <2>2, <2>3
  <2>4. CASE Rest # << >>
    BY <1>3, <1>4, <1>10, <2>1, <2>2, <2>4
  <2> QED BY <2>3, <2>4
<1>14. InStep'
  BY <1>1, <1>5, <1>11, <1>12, <1>13 DEF InStep
<1>15. HeaderInv' /\ BodyInv' /\ ServedInv'
  BY <1>1, <1>2, <1>9 DEF ReaderInv, HeaderInv, BodyInv, ServedInv
<1> QED BY <1>8, <1>14, <1>15 DEF ReaderInv

LEMMA ClientCloseReads ==
  ASSUME TypeOK, ReaderInv, ClientClose
  PROVE  ReaderInv'
<1>1. PICK k \in 0 .. Len(net) : net' = SubSeq(net, 1, k)
  BY DEF ClientClose
<1>2. UNCHANGED <<sent, inbuf, in_ok, header, payload, want, main, served>> /\ closed'
  BY DEF ClientClose, reader
<1>3. /\ Rest \in Seq(Byte) /\ inbuf \in Seq(Byte) /\ net \in Seq(Byte)
      /\ Len(inbuf) \in Nat /\ Len(net) \in Nat
  <2>1. inbuf \in Seq(Byte) /\ net \in Seq(Byte)
    BY DEF TypeOK
  <2> QED BY <2>1, RestType
<1> DEFINE n == Len(inbuf) + k  part == SubSeq(Rest, 1, n)
<1>4. n \in 0 .. Len(Rest) /\ part \in Seq(Byte) /\ Len(part) = n
      /\ \A i \in 1 .. n : part[i] = Rest[i]
  BY <1>1, <1>3, RestType
<1>5. (inbuf \o net)' = part
  <2>1. SubSeq(net, 1, k) \in Seq(Byte) /\ Len(SubSeq(net, 1, k)) = k
        /\ \A i \in 1 .. k : SubSeq(net, 1, k)[i] = net[i]
    BY <1>1, <1>3
  <2>2. inbuf \o SubSeq(net, 1, k) \in Seq(Byte) /\ Len(inbuf \o SubSeq(net, 1, k)) = n
    BY <1>3, <2>1
  <2>3. ASSUME NEW i \in 1 .. n PROVE (inbuf \o SubSeq(net, 1, k))[i] = part[i]
    BY <1>1, <1>3, <1>4, <2>1 DEF Rest
  <2>4. inbuf \o SubSeq(net, 1, k) = part
    BY <1>4, <2>2, <2>3, SeqEqual
  <2> QED BY <1>1, <1>2, <2>4
<1> HIDE DEF n, part
<1>6. Known(inbuf \o net)'
  <2>1. ASSUME NEW i \in DOMAIN part
        PROVE  i \in DOMAIN Rest /\ part[i] = Rest[i]
    BY <1>3, <1>4
  <2>2. \A i \in DOMAIN Rest : Rest[i].m \in DOMAIN sent /\ Rest[i].at \in 1 .. Size(sent[Rest[i].m])
    BY DEF ReaderInv, Known, Rest
  <2>3. \A i \in DOMAIN part : part[i].m \in DOMAIN sent /\ part[i].at \in 1 .. Size(sent[part[i].m])
    BY <2>1, <2>2
  <2> QED
    BY <1>2, <1>5, <2>3 DEF Known
<1>7. Expected' = Expected
  BY <1>2 DEF Expected
<1>8. ASSUME main \notin Over, in_ok
      PROVE  Seamless(FrameSizes', part) /\ (part # << >> => part[1] = Expected)
  <2>1. FrameSizes' = FrameSizes
    BY <1>2 DEF FrameSizes
  <2>2. Seamless(FrameSizes, Rest) /\ (Rest # << >> => Rest[1] = Expected)
    BY <1>8 DEF ReaderInv, InStep, Rest
  <2>3. Seamless(FrameSizes, part)
    BY <1>3, <1>4, <2>2, SeamlessPart DEF part
  <2>4. ASSUME part # << >> PROVE part[1] = Expected
    BY <1>3, <1>4, <2>2, <2>4, EmptySeq
  <2> QED BY <2>1, <2>3, <2>4
<1>9. InStep'
  BY <1>2, <1>5, <1>7, <1>8 DEF InStep
<1>10. HeaderInv' /\ BodyInv' /\ ServedInv'
  BY <1>2 DEF ReaderInv, HeaderInv, BodyInv, ServedInv
<1> QED BY <1>6, <1>9, <1>10 DEF ReaderInv

LEMMA RefillReads ==
  ASSUME TypeOK, ReaderInv, Refill
  PROVE  ReaderInv'
<1>1. PICK k \in 1 .. Least(BufferSize, Len(net)) :
        inbuf' = SubSeq(net, 1, k) /\ net' = SubSeq(net, k + 1, Len(net))
  BY DEF Refill
<1>2. UNCHANGED <<sent, closed, in_ok, header, payload, want, main, served>> /\ inbuf = << >>
  BY DEF Refill
<1>3. net \in Seq(Byte) /\ Len(net) \in Nat /\ k \in 1 .. Len(net)
  BY ConnectionAssumption, <1>1 DEF TypeOK, Least
<1>4. (inbuf \o net)' = inbuf \o net
  <2>1. SubSeq(net, 1, k) \o SubSeq(net, k + 1, Len(net)) = net
    BY <1>3, ConcatAdjacentSubSeq, SubSeqFull
  <2> QED BY <1>1, <1>2, <1>3, <2>1
<1>5. FrameSizes' = FrameSizes /\ Expected' = Expected
  BY <1>2 DEF FrameSizes, Expected
<1>6. Known(inbuf \o net)'
  BY <1>2, <1>4 DEF ReaderInv, Known
<1>7. InStep'
  BY <1>2, <1>4, <1>5 DEF ReaderInv, InStep
<1>8. HeaderInv' /\ BodyInv' /\ ServedInv'
  BY <1>2 DEF ReaderInv, HeaderInv, BodyInv, ServedInv
<1> QED BY <1>6, <1>7, <1>8 DEF ReaderInv

LEMMA EndOfInputReads ==
  ASSUME TypeOK, ReaderInv, EndOfInput \/ StreamFailed
  PROVE  ReaderInv'
<1>1. UNCHANGED <<sent, closed, net, inbuf, header, payload, want, served>>
  BY DEF EndOfInput, StreamFailed, input, reader
<1>2. Known(inbuf \o net)'
  BY <1>1 DEF ReaderInv, Known
<1>3. CASE main' = "ended" /\ in_ok' = in_ok /\ main = "header"
  BY <1>1, <1>2, <1>3 DEF ReaderInv, InStep, HeaderInv, BodyInv, ServedInv, Over
<1>4. CASE main = "body" /\ main' = "serve" /\ ~in_ok' /\ closed
  BY <1>1, <1>2, <1>4 DEF ReaderInv, InStep, HeaderInv, BodyInv, ServedInv, Over
<1> QED BY <1>3, <1>4 DEF EndOfInput, StreamFailed, reader

\* Where the reader is while it reads a header: the fields are those before it.
LEMMA HeaderPlace ==
  ASSUME TypeOK, ReaderInv, main = "header", in_ok, inbuf # << >>,
         NEW m, m = Len(served) + 1
  PROVE  /\ m \in DOMAIN sent /\ sent[m] \in Frames /\ Len(header) \in Nat
         /\ Head(inbuf) = [m |-> m, at |-> Len(header) + 1] /\ Expected = Head(inbuf)
         /\ 1 \in 1 .. Len(Rest) /\ Tail(inbuf) \o net = After(1)
         /\ Len(header) <= Len(sent[m].fields)
         /\ Kind(Head(inbuf)) = "blank" <=> Len(header) = Len(sent[m].fields)
         /\ \A i \in DOMAIN header :
              header[i] = [m |-> m, at |-> i] /\ Kind(header[i]) = sent[m].fields[i]
<1>1. /\ Rest \in Seq(Byte) /\ Rest # << >> /\ Head(inbuf) = Rest[1]
      /\ Tail(inbuf) \o net = After(1)
  BY RestType DEF After
<1>2. Len(Rest) \in Nat \ {0} /\ 1 \in 1 .. Len(Rest) /\ 1 \in DOMAIN Rest
  BY <1>1, EmptySeq
<1>3. Rest[1] = Expected /\ Rest[1].m \in DOMAIN sent /\ Len(header) \in Nat
  <2>1. Rest[1] = Expected
    BY <1>1 DEF ReaderInv, InStep, Rest, Over
  <2>2. Rest[1].m \in DOMAIN sent
    BY <1>2 DEF ReaderInv, Known, Rest
  <2>3. header \in Seq(Byte)
    BY DEF TypeOK
  <2> QED BY <2>1, <2>2, <2>3
<1>4. Expected = [m |-> m, at |-> Len(header) + 1]
  BY DEF Expected
<1>5. m \in DOMAIN sent /\ sent[m] \in Frames
  BY <1>3, <1>4 DEF TypeOK
<1>6. sent[m].fields \in Seq({"length", "field"}) /\ Len(sent[m].fields) \in Nat
  BY <1>5, FrameType
<1>7. Len(header) <= Len(sent[m].fields)
  BY <1>6 DEF TypeOK, ReaderInv, HeaderInv
<1>8. Kind(Head(inbuf)) = "blank" <=> Len(header) = Len(sent[m].fields)
  <2>1. Kind(Head(inbuf)) = IF Len(header) + 1 <= Len(sent[m].fields)
                              THEN sent[m].fields[Len(header) + 1]
                              ELSE IF Len(header) + 1 = Len(sent[m].fields) + 1
                                     THEN "blank" ELSE "body"
    BY <1>1, <1>3, <1>4 DEF Kind
  <2>2. ASSUME Len(header) < Len(sent[m].fields)
        PROVE  sent[m].fields[Len(header) + 1] # "blank"
    BY <1>3, <1>6, <2>2
  <2> QED BY <1>3, <1>6, <1>7, <2>1, <2>2
<1>9. ASSUME NEW i \in DOMAIN header
      PROVE  header[i] = [m |-> m, at |-> i] /\ Kind(header[i]) = sent[m].fields[i]
  <2>1. header[i] = [m |-> m, at |-> i] /\ i \in 1 .. Len(header)
    BY DEF ReaderInv, HeaderInv, TypeOK
  <2>2. i <= Len(sent[m].fields)
    BY <1>3, <1>6, <1>7, <2>1
  <2> QED BY <2>1, <2>2 DEF Kind
<1> QED BY <1>1, <1>2, <1>3, <1>4, <1>5, <1>7, <1>8, <1>9

LEMMA HeaderLineReads ==
  ASSUME TypeOK, ReaderInv, HeaderLine
  PROVE  ReaderInv'
<1> DEFINE m == Len(served) + 1
<1>1. /\ main = "header" /\ in_ok /\ inbuf # << >> /\ Kind(Head(inbuf)) # "blank"
      /\ header' = Append(header, Head(inbuf)) /\ inbuf' = Tail(inbuf)
      /\ UNCHANGED <<sent, closed, net, in_ok, payload, want, main, served>>
  BY DEF HeaderLine, Reading, input
<1>2. /\ m \in DOMAIN sent /\ sent[m] \in Frames /\ Len(header) \in Nat
      /\ Head(inbuf) = [m |-> m, at |-> Len(header) + 1] /\ Expected = Head(inbuf)
      /\ 1 \in 1 .. Len(Rest) /\ Tail(inbuf) \o net = After(1)
      /\ Len(header) <= Len(sent[m].fields) /\ Len(header) # Len(sent[m].fields)
      /\ \A i \in DOMAIN header : header[i] = [m |-> m, at |-> i]
  BY <1>1, HeaderPlace
<1>3. Len(sent[m].fields) \in Nat /\ Size(sent[m]) \in Nat
      /\ Size(sent[m]) > Len(sent[m].fields)
  BY <1>2, FrameType
<1>4. /\ Len(header') = Len(header) + 1 /\ DOMAIN header' = 1 .. Len(header) + 1
      /\ \A i \in DOMAIN header' : header'[i] = [m |-> m, at |-> i]
  <2>1. header \in Seq(Byte)
    BY DEF TypeOK
  <2>2. Len(header') = Len(header) + 1 /\ DOMAIN header' = 1 .. Len(header) + 1
    BY <1>1, <2>1
  <2>3. ASSUME NEW i \in DOMAIN header' PROVE header'[i] = [m |-> m, at |-> i]
    <3>1. CASE i = Len(header) + 1
      <4>1. Append(header, Head(inbuf))[Len(header) + 1] = Head(inbuf)
        BY <2>1, AppendProperties
      <4> QED BY <1>1, <1>2, <3>1, <4>1
    <3>2. CASE i # Len(header) + 1
      BY <1>1, <1>2, <2>1, <2>2, <3>2
    <3> QED BY <3>1, <3>2
  <2> QED BY <2>2, <2>3
<1>5. Rest' = After(1)
  BY <1>1, <1>2 DEF Rest
<1>6. Known(Rest)' /\ InStep'
  <2>1. Expected' = [m |-> m, at |-> Len(header) + 2]
    BY <1>1, <1>4 DEF Expected
  <2>2. Expected.m = m /\ Expected.at = Len(header) + 1
    BY <1>2
  <2>3. Expected.at + 1 - 1 < Size(sent[Expected.m]) /\ Expected.at + 1 = Len(header) + 2
    BY <1>2, <1>3, <2>2
  <2>4. Expected.at + 1 - 1 <= Size(sent[Expected.m])
    BY <1>2, <1>3, <2>2
  <2>5. Known(Rest) /\ InStep /\ main \notin Over
    BY <1>1 DEF ReaderInv, Rest, Over
  <2> QED BY <1>1, <1>2, <1>5, <2>1, <2>2, <2>3, <2>4, <2>5, ConsumedInStep
<1>7. HeaderInv'
  BY <1>1, <1>2, <1>3, <1>4 DEF HeaderInv, Over
<1>8. BodyInv' /\ ServedInv'
  BY <1>1 DEF ReaderInv, BodyInv, ServedInv
<1> QED BY <1>6, <1>7, <1>8 DEF ReaderInv, Rest

\* The length read at the end of a header is the frame's.
LEMMA HeaderLength ==
  ASSUME TypeOK, ReaderInv, main = "header", in_ok, inbuf # << >>,
         Kind(Head(inbuf)) = "blank", NEW m, m = Len(served) + 1
  PROVE  /\ LengthLines # {} => ContentLength = sent[m].length
         /\ LengthLines = {} => \A i \in DOMAIN sent[m].fields : sent[m].fields[i] # "length"
<1>1. /\ m \in DOMAIN sent /\ sent[m] \in Frames /\ Len(header) = Len(sent[m].fields)
      /\ \A i \in DOMAIN header : header[i].m = m /\ Kind(header[i]) = sent[m].fields[i]
  BY HeaderPlace
<1>2. DOMAIN header = 1 .. Len(header) /\ DOMAIN sent[m].fields = 1 .. Len(header)
  BY <1>1, FrameType DEF TypeOK
<1>3. ASSUME LengthLines # {} PROVE ContentLength = sent[m].length
  <2>1. LengthLines \in SUBSET (Nat \ {0})
    BY <1>2 DEF LengthLines
  <2>2. PICK k \in LengthLines : \A j \in LengthLines : k <= j
    BY <1>3, <2>1, LeastOne
  <2>3. (CHOOSE i \in LengthLines : \A j \in LengthLines : i <= j) \in LengthLines
    BY <2>2
  <2> QED BY <1>1, <2>3 DEF ContentLength, LengthLines
<1> QED BY <1>1, <1>2, <1>3 DEF LengthLines

LEMMA HeaderEndReads ==
  ASSUME TypeOK, ReaderInv, HeaderEnd
  PROVE  ReaderInv'
<1> DEFINE m == Len(served) + 1
<1>1. /\ main = "header" /\ in_ok /\ inbuf # << >> /\ Kind(Head(inbuf)) = "blank"
      /\ inbuf' = Tail(inbuf) /\ header' = << >> /\ payload' = << >>
      /\ UNCHANGED <<sent, closed, net, in_ok, served>>
  BY DEF HeaderEnd, Reading, input
<1>2. /\ m \in DOMAIN sent /\ sent[m] \in Frames /\ Len(header) \in Nat
      /\ Head(inbuf) = [m |-> m, at |-> Len(header) + 1] /\ Expected = Head(inbuf)
      /\ 1 \in 1 .. Len(Rest) /\ Tail(inbuf) \o net = After(1)
      /\ Len(header) = Len(sent[m].fields)
  BY <1>1, HeaderPlace
<1>3. /\ Len(sent[m].fields) \in Nat /\ Size(sent[m]) \in Nat
      /\ Size(sent[m]) > Len(sent[m].fields) /\ sent[m].length \in Nat \cup {NaN}
      /\ sent[m].length \in Nat => Size(sent[m]) = Len(sent[m].fields) + 1 + sent[m].length
  BY <1>2, FrameType
<1>4. \/ main' \in Over
      \/ /\ main' = "body" /\ want' = sent[m].length
         /\ sent[m].length \in Nat \ {0}
  BY <1>1, <1>3, HeaderLength DEF HeaderEnd, Over
<1>5. Rest' = After(1)
  BY <1>1, <1>2 DEF Rest
<1>6. Known(Rest)' /\ InStep'
  <2>1. Expected.m = m /\ Expected.at = Len(header) + 1
    BY <1>2
  <2>2. Expected.at + 1 - 1 <= Size(sent[Expected.m])
    BY <1>2, <1>3, <2>1
  <2>3. ASSUME main' \notin Over
        PROVE  Expected' = IF Expected.at + 1 - 1 < Size(sent[Expected.m])
                             THEN [m |-> Expected.m, at |-> Expected.at + 1]
                             ELSE [m |-> Expected.m + 1, at |-> 1]
    <3>1. Expected' = [m |-> m, at |-> Len(sent[m].fields) + 2]
      BY <1>1, <1>3, <1>4, <2>3 DEF Expected
    <3>2. Expected.at + 1 - 1 < Size(sent[Expected.m])
      BY <1>2, <1>3, <1>4, <2>1, <2>3
    <3> QED BY <1>2, <2>1, <3>1, <3>2
  <2>4. Known(Rest) /\ InStep /\ main \notin Over
    BY <1>1 DEF ReaderInv, Rest, Over
  <2> QED BY <1>1, <1>2, <1>5, <2>2, <2>3, <2>4, ConsumedInStep
<1>7. HeaderInv'
  BY <1>1, <1>4 DEF HeaderInv, Over
<1>8. BodyInv'
  BY <1>1, <1>2, <1>4 DEF BodyInv, Over
<1>9. ServedInv'
  BY <1>1, <1>4 DEF ReaderInv, ServedInv
<1> QED BY <1>6, <1>7, <1>8, <1>9 DEF ReaderInv, Rest

\* What is taken from the front of the buffer is taken from what is left.
LEMMA RestAfter ==
  ASSUME TypeOK, NEW n \in 1 .. Len(inbuf)
  PROVE  /\ SubSeq(inbuf, n + 1, Len(inbuf)) \o net = After(n)
         /\ \A i \in 1 .. n : SubSeq(inbuf, 1, n)[i] = Rest[i]
         /\ SubSeq(inbuf, 1, n) \in Seq(Byte) /\ Len(SubSeq(inbuf, 1, n)) = n
<1>1. /\ inbuf \in Seq(Byte) /\ net \in Seq(Byte) /\ Len(inbuf) \in Nat /\ Len(net) \in Nat
      /\ Rest \in Seq(Byte) /\ Len(Rest) = Len(inbuf) + Len(net)
  <2>1. inbuf \in Seq(Byte) /\ net \in Seq(Byte)
    BY DEF TypeOK
  <2> QED BY <2>1, RestType
<1> DEFINE left == SubSeq(inbuf, n + 1, Len(inbuf))
<1>2. left \in Seq(Byte) /\ Len(left) = Len(inbuf) - n
      /\ \A i \in 1 .. Len(inbuf) - n : left[i] = inbuf[n + i]
  BY <1>1
<1>3. After(n) \in Seq(Byte) /\ Len(After(n)) = Len(Rest) - n
      /\ \A i \in 1 .. Len(Rest) - n : After(n)[i] = Rest[n + i]
  BY <1>1 DEF After
<1> HIDE DEF left
<1>4. left \o net \in Seq(Byte) /\ Len(left \o net) = Len(Rest) - n
  <2>1. left \o net \in Seq(Byte) /\ Len(left \o net) = Len(left) + Len(net)
    BY <1>1, <1>2, ConcatProperties
  <2> QED BY <1>1, <1>2, <2>1
<1>5. ASSUME NEW i \in 1 .. Len(left \o net) PROVE (left \o net)[i] = After(n)[i]
  <2>1. CASE i <= Len(inbuf) - n
    <3>1. i \in 1 .. Len(left) /\ i \in 1 .. Len(Rest) - n /\ n + i \in 1 .. Len(inbuf)
      BY <1>1, <1>2, <1>4, <2>1
    <3>2. (left \o net)[i] = left[i]
      BY <1>1, <1>2, <3>1, ConcatProperties
    <3>3. Rest[n + i] = inbuf[n + i]
      BY <1>1, <3>1, ConcatProperties DEF Rest
    <3>4. left[i] = inbuf[n + i] /\ After(n)[i] = Rest[n + i]
      BY <1>2, <1>3, <3>1
    <3> QED BY <3>2, <3>3, <3>4
  <2>2. CASE i > Len(inbuf) - n
    <3> DEFINE b == i - (Len(inbuf) - n)
    <3>1. (left \o net)[i] = net[b]
      BY <1>1, <1>2, <1>4, <2>2
    <3>2. n + i - Len(inbuf) = b /\ n + i \in 1 .. Len(Rest) /\ n + i > Len(inbuf)
      BY <1>1, <1>4, <2>2
    <3>3. Rest[n + i] = net[b]
      BY <1>1, <3>2 DEF Rest
    <3>4. i \in 1 .. Len(Rest) - n
      BY <1>1, <1>4
    <3>5. After(n)[i] = Rest[n + i]
      BY <1>3, <3>4
    <3> QED BY <3>1, <3>3, <3>5
  <2> QED BY <1>1, <1>4, <2>1, <2>2
<1>6. left \o net = After(n)
  BY <1>3, <1>4, <1>5, SeqEqual
<1>7. SubSeq(inbuf, 1, n) \in Seq(Byte) /\ Len(SubSeq(inbuf, 1, n)) = n
      /\ \A i \in 1 .. n : SubSeq(inbuf, 1, n)[i] = inbuf[i]
  BY <1>1
<1> QED BY <1>1, <1>6, <1>7 DEF Rest, left

LEMMA ReadBodyReads ==
  ASSUME TypeOK, ReaderInv, ReadBody
  PROVE  ReaderInv' /\ Len(payload') <= want
<1> DEFINE m == Len(served) + 1  n == Least(want - Len(payload), Len(inbuf))
           front == SubSeq(inbuf, 1, n)  L == Len(sent[m].fields)
<1>1. /\ main = "body" /\ in_ok /\ inbuf # << >>
      /\ payload' = payload \o front /\ inbuf' = SubSeq(inbuf, n + 1, Len(inbuf))
      /\ main' = IF Len(payload') = want THEN "serve" ELSE "body"
      /\ UNCHANGED <<sent, closed, net, in_ok, header, want, served>>
  BY DEF ReadBody, Reading, input
<1>2. /\ m \in DOMAIN sent /\ want = sent[m].length /\ want > 0 /\ Len(payload) < want
      /\ \A i \in DOMAIN payload : payload[i] = [m |-> m, at |-> L + 1 + i]
      /\ header = << >>
  BY <1>1 DEF ReaderInv, BodyInv, HeaderInv, Over
<1>3. /\ sent[m] \in Frames /\ want \in Nat /\ payload \in Seq(Byte) /\ Len(payload) \in Nat
      /\ inbuf \in Seq(Byte) /\ Len(inbuf) \in Nat \ {0}
  BY <1>1, <1>2, EmptySeq DEF TypeOK
<1>4. L \in Nat /\ Size(sent[m]) = L + 1 + want
  BY <1>2, <1>3, FrameType
<1>5. n \in 1 .. Len(inbuf) /\ n <= want - Len(payload)
  BY <1>2, <1>3 DEF Least
<1>6. Len(Rest) \in Nat /\ Len(inbuf) <= Len(Rest) /\ n \in 1 .. Len(Rest)
  <2>1. Len(net) \in Nat
    BY DEF TypeOK
  <2> QED BY <1>3, <1>5, <2>1, RestType
<1>7. /\ inbuf' \o net = After(n) /\ \A i \in 1 .. n : front[i] = Rest[i]
      /\ front \in Seq(Byte) /\ Len(front) = n
  BY <1>1, <1>5, RestAfter
<1>8. Expected = [m |-> m, at |-> L + 2 + Len(payload)]
  BY <1>1 DEF Expected
<1>9. Rest # << >> /\ Rest[1] = Expected /\ Known(Rest) /\ Seamless(FrameSizes, Rest)
  <2>1. Rest # << >>
    BY <1>1, RestType
  <2> QED BY <1>1, <2>1 DEF ReaderInv, InStep, Rest, Over
<1> HIDE DEF n, front, L
<1>10. \A i \in 1 .. n : Rest[i] = [m |-> m, at |-> (L + 2 + Len(payload)) + i - 1]
  <2>1. Rest[1].m = m /\ Rest[1].at = L + 2 + Len(payload)
    BY <1>8, <1>9
  <2>2. Rest[1].at + n - 1 <= Size(sent[Rest[1].m])
    BY <1>3, <1>4, <1>5, <2>1
  <2> QED BY <1>6, <1>9, <2>1, <2>2, Consumed
<1>11. /\ Len(payload') = Len(payload) + n /\ payload' \in Seq(Byte) /\ n \in Nat
       /\ DOMAIN payload' = 1 .. Len(payload) + n
       /\ \A i \in 1 .. Len(payload) + n :
            payload'[i] = IF i <= Len(payload) THEN payload[i] ELSE front[i - Len(payload)]
  <2>1. payload \o front \in Seq(Byte) /\ Len(payload \o front) = Len(payload) + Len(front)
        /\ \A i \in 1 .. Len(payload) + Len(front) :
             (payload \o front)[i] = IF i <= Len(payload) THEN payload[i]
                                                          ELSE front[i - Len(payload)]
    BY <1>3, <1>7, ConcatProperties
  <2> QED BY <1>1, <1>5, <1>7, <2>1
<1>len. Len(payload') = Len(payload) + n /\ n \in Nat
  BY <1>11
<1>12. ASSUME NEW i \in DOMAIN payload' PROVE payload'[i] = [m |-> m, at |-> L + 1 + i]
  <2>1. CASE i <= Len(payload)
    <3>1. i \in DOMAIN payload /\ payload'[i] = payload[i]
      BY <1>3, <1>11, <2>1
    <3> QED BY <1>2, <3>1 DEF L
  <2>2. CASE i > Len(payload)
    <3>1. i - Len(payload) \in 1 .. n /\ payload'[i] = front[i - Len(payload)]
      BY <1>3, <1>11, <2>2
    <3>2. (L + 2 + Len(payload)) + (i - Len(payload)) - 1 = L + 1 + i
      BY <1>3, <1>4, <1>11, <2>2
    <3> QED BY <1>7, <1>10, <3>1, <3>2
  <2> QED BY <1>3, <1>11, <2>1, <2>2
<1>13. Known(Rest)' /\ InStep'
  <2>1. Expected.m = m /\ Expected.at = L + 2 + Len(payload)
    BY <1>8
  <2>2. Expected.at + n - 1 <= Size(sent[Expected.m])
    BY <1>3, <1>4, <1>5, <2>1
  <2>3. Expected.at + n - 1 < Size(sent[Expected.m]) <=> Len(payload') # want
    BY <1>3, <1>4, <1>5, <1>len, <2>1
  <2>4. CASE Len(payload') = want
    <3>1. Expected' = [m |-> m + 1, at |-> 1]
      BY <1>1, <2>4 DEF Expected
    <3>2. Expected' = IF Expected.at + n - 1 < Size(sent[Expected.m])
                        THEN [m |-> Expected.m, at |-> Expected.at + n]
                        ELSE [m |-> Expected.m + 1, at |-> 1]
      BY <2>1, <2>3, <2>4, <3>1
    <3>3. InStep /\ main \notin Over /\ Rest' = After(n)
      BY <1>1, <1>7 DEF ReaderInv, Rest, Over
    <3> QED BY <1>1, <1>6, <1>9, <2>2, <3>2, <3>3, ConsumedInStep
  <2>5. CASE Len(payload') # want
    <3>1. Expected' = [m |-> m, at |-> L + 2 + (Len(payload) + n)]
      BY <1>1, <1>11, <2>5 DEF Expected, L
    <3>2. L + 2 + (Len(payload) + n) = Expected.at + n
      BY <1>3, <1>4, <1>6, <2>1
    <3>3. Expected' = IF Expected.at + n - 1 < Size(sent[Expected.m])
                        THEN [m |-> Expected.m, at |-> Expected.at + n]
                        ELSE [m |-> Expected.m + 1, at |-> 1]
      BY <2>1, <2>3, <2>5, <3>1, <3>2
    <3>4. InStep /\ main \notin Over /\ Rest' = After(n)
      BY <1>1, <1>7 DEF ReaderInv, Rest, Over
    <3> QED BY <1>1, <1>6, <1>9, <2>2, <3>3, <3>4, ConsumedInStep
  <2> QED BY <2>4, <2>5
<1>14. HeaderInv'
  BY <1>1, <1>2 DEF HeaderInv
<1>15. BodyInv'
  <2>1. Len(payload') <= want /\ (Len(payload') < want <=> main' = "body")
    <3>1. Len(payload') \in Nat /\ Len(payload') <= want
      BY <1>3, <1>5, <1>len
    <3> QED BY <1>1, <1>3, <3>1
  <2>2. main' \in {"body", "serve"}
    BY <1>1
  <2> QED BY <1>1, <1>2, <1>12, <2>1, <2>2 DEF BodyInv, L
<1>16. ServedInv'
  BY <1>1 DEF ReaderInv, ServedInv
<1> QED BY <1>3, <1>5, <1>11, <1>13, <1>14, <1>15, <1>16 DEF ReaderInv, Rest

\* A body read whole parses as the request it is, one cut short as none.
LEMMA ParsedIs ==
  ASSUME TypeOK, ReaderInv, main = "serve"
  PROVE  /\ Len(served) + 1 \in DOMAIN sent
         /\ Parsed = IF in_ok THEN Len(served) + 1 ELSE Torn
<1> DEFINE m == Len(served) + 1  L == Len(sent[m].fields)
<1>1. /\ m \in DOMAIN sent /\ want = sent[m].length /\ want > 0
      /\ \A i \in DOMAIN payload : payload[i] = [m |-> m, at |-> L + 1 + i]
      /\ Len(payload) < want <=> ~in_ok
  BY DEF ReaderInv, BodyInv
<1>2. /\ payload \in Seq(Byte) /\ Len(payload) \in Nat /\ DOMAIN payload = 1 .. Len(payload)
      /\ Len(payload) <= want /\ want \in Nat
  BY DEF TypeOK
<1>3. ASSUME payload # << >>, NEW q \in DOMAIN sent, payload = Body(q)
      PROVE  q = m /\ Len(payload) = want
  <2>1. Len(payload) \in Nat \ {0} /\ 1 \in DOMAIN payload
    BY <1>2, <1>3, EmptySeq
  <2>2. payload[1].m = m
    BY <1>1, <2>1
  <2>3. payload[1].m = q
    BY <1>3, <2>1 DEF Body
  <2>4. DOMAIN Body(m) = 1 .. want
    BY <1>1 DEF Body
  <2>5. 1 .. Len(payload) = 1 .. want
    BY <1>2, <1>3, <2>2, <2>3, <2>4
  <2>6. want \in 1 .. Len(payload) /\ Len(payload) \in 1 .. want
    <3>1. want \in 1 .. want /\ Len(payload) \in 1 .. Len(payload)
      BY <1>1, <1>2, <2>1
    <3> QED BY <2>5, <3>1
  <2>7. Len(payload) = want
    <3>1. Len(payload) \in Nat /\ want \in Nat
      BY <1>2
    <3> QED BY <2>6, <3>1
  <2> QED BY <2>2, <2>3, <2>7
<1>4. CASE ~in_ok
  BY <1>1, <1>2, <1>3, <1>4 DEF Parsed
<1>5. CASE in_ok
  <2>1. Len(payload) = want /\ payload # << >>
    BY <1>1, <1>2, <1>5, EmptySeq
  <2>2. payload = Body(m)
    <3>1. payload = [i \in 1 .. Len(payload) |-> payload[i]]
      BY <1>2, LenProperties
    <3>2. [i \in 1 .. Len(payload) |-> payload[i]] =
            [i \in 1 .. sent[m].length |-> [m |-> m, at |-> Len(sent[m].fields) + 1 + i]]
      BY <1>1, <1>2, <2>1
    <3> QED BY <3>1, <3>2 DEF Body
  <2> QED BY <1>1, <1>3, <1>5, <2>1, <2>2 DEF Parsed
<1> QED BY <1>1, <1>4, <1>5

LEMMA HandleReads ==
  ASSUME TypeOK, ReaderInv, Handle
  PROVE  ReaderInv'
<1> DEFINE m == Len(served) + 1
<1>1. /\ main = "serve" /\ served' = Append(served, Parsed) /\ main' \in {"dead", "handle"}
      /\ UNCHANGED <<sent, closed, net, inbuf, in_ok, header, payload, want>>
  BY DEF Handle, input, reader
<1>2. m \in DOMAIN sent /\ Parsed = IF in_ok THEN m ELSE Torn
  BY <1>1, ParsedIs
<1>3. /\ served \in Seq(Nat) /\ Len(served) \in Nat /\ Len(served') = m
      /\ \A i \in DOMAIN served' : served'[i] = IF i = m THEN Parsed ELSE served[i]
      /\ DOMAIN served' = 1 .. m
  <2>1. served \in Seq(Nat) /\ Parsed \in Nat
    BY <1>2 DEF TypeOK, Torn
  <2> QED BY <1>1, <2>1, AppendProperties
<1>4. Known(inbuf \o net)'
  BY <1>1 DEF ReaderInv, Known
<1>5. InStep'
  <2>1. FrameSizes' = FrameSizes
    BY <1>1 DEF FrameSizes
  <2>2. main' \notin Over => Expected' = Expected
    BY <1>1, <1>3 DEF Expected, Over
  <2> QED BY <1>1, <2>1, <2>2 DEF ReaderInv, InStep, Over
<1>6. HeaderInv' /\ BodyInv'
  BY <1>1 DEF ReaderInv, HeaderInv, BodyInv, Over
<1>7. ServedInv'
  <2>1. m <= Len(sent)
    BY <1>2 DEF TypeOK
  <2>2. ASSUME NEW i \in DOMAIN served' PROVE served'[i] \in {i, Torn}
    BY <1>2, <1>3, <2>2 DEF ReaderInv, ServedInv
  <2>3. ASSUME NEW i \in DOMAIN served', served'[i] = Torn PROVE ~in_ok
    BY <1>1, <1>2, <1>3, <2>3 DEF ReaderInv, ServedInv, Torn
  <2> QED BY <1>1, <1>3, <2>1, <2>2, <2>3 DEF ReaderInv, ServedInv
<1> QED BY <1>4, <1>5, <1>6, <1>7 DEF ReaderInv

\* A writer leaves the reader where it was.
LEMMA WriterReads ==
  ASSUME TypeOK, ReaderInv, UNCHANGED <<input, reader, served>>,
         \/ main' \in {main, "dead"}
         \/ main = "handle" /\ main' = "answer"
         \/ main = "answer" /\ main' = "header"
  PROVE  ReaderInv'
<1>1. UNCHANGED <<sent, closed, net, inbuf, in_ok, header, payload, want, served>>
  BY DEF input, reader
<1>2. Known(inbuf \o net)' /\ FrameSizes' = FrameSizes
  BY <1>1 DEF ReaderInv, Known, FrameSizes
<1>3. CASE main' = main
  BY <1>1, <1>2, <1>3 DEF ReaderInv, InStep, Expected, HeaderInv, BodyInv, ServedInv
<1>4. CASE main' = "dead"
  BY <1>1, <1>2, <1>4 DEF ReaderInv, InStep, HeaderInv, BodyInv, ServedInv, Over
<1>5. CASE main = "handle" /\ main' = "answer"
  BY <1>1, <1>2, <1>5 DEF ReaderInv, InStep, Expected, HeaderInv, BodyInv, ServedInv, Over
<1>6. CASE main = "answer" /\ main' = "header"
  <2>1. header = << >> /\ Len(header) = 0 /\ DOMAIN header = {}
    BY <1>6 DEF ReaderInv, HeaderInv, Over
  <2>2. Expected' = Expected
    BY <1>1, <1>6, <2>1 DEF Expected
  <2> QED BY <1>1, <1>2, <1>6, <2>1, <2>2
          DEF ReaderInv, InStep, HeaderInv, BodyInv, ServedInv, Over
<1> QED BY <1>3, <1>4, <1>5, <1>6

-----------------------------------------------------------------------------
(* Types, and the writers' invariant. *)

LEMMA InitTyped == Init => TypeOK /\ WriterInv
<1> SUFFICES ASSUME Init PROVE TypeOK /\ WriterInv
  OBVIOUS
<1>1. \A S : << >> \in Seq(S) /\ Len(<< >>) = 0
  OBVIOUS
<1>2. todo \in [Writers -> Seq(Byte)] /\ \A w \in Writers : todo[w] = << >>
  BY <1>1 DEF Init
<1>3. TypeOK
  <2>1. /\ sent \in Seq(Frames) /\ net \in Seq(Byte) /\ inbuf \in Seq(Byte)
        /\ header \in Seq(Byte) /\ payload \in Seq(Byte) /\ served \in Seq(Nat)
        /\ said \in Seq([size : Sizes, to : Nat]) /\ outbuf \in Seq(Byte) /\ s2c \in Seq(Byte)
    BY <1>1 DEF Init
  <2>2. /\ closed \in BOOLEAN /\ in_ok \in BOOLEAN /\ out_ok \in BOOLEAN /\ raced \in BOOLEAN
        /\ want \in Nat /\ busy \subseteq Writers /\ main = "header"
    BY DEF Init
  <2>3. Len(inbuf) <= BufferSize /\ Len(payload) <= want /\ Len(outbuf) <= BufferSize + 1
    BY <1>1, ConnectionAssumption DEF Init
  <2> QED BY <1>2, <2>1, <2>2, <2>3 DEF TypeOK
<1>4. WriterInv
  BY <1>1, <1>2, ConnectionAssumption DEF Init, WriterInv, NothingHeldBack, Writers
<1> QED BY <1>3, <1>4

LEMMA ClientTyped ==
  ASSUME TypeOK, (\E f \in Frames : ClientSend(f)) \/ ClientClose
  PROVE  TypeOK'
<1>1. CASE \E f \in Frames : ClientSend(f)
  <2>1. PICK f \in Frames : ClientSend(f)
    BY <1>1
  <2>2. Bytes(Len(sent) + 1, Size(f)) \in Seq(Byte)
    <3>1. Size(f) \in Nat /\ Len(sent) + 1 \in Nat \ {0}
      BY FrameType DEF TypeOK
    <3> QED BY <3>1, BytesType
  <2>3. sent' \in Seq(Frames) /\ net' \in Seq(Byte)
    BY <2>1, <2>2 DEF TypeOK, ClientSend
  <2> QED BY <2>1, <2>3 DEF TypeOK, ClientSend, reader, output
<1>2. CASE ClientClose
  <2>1. net' \in Seq(Byte) /\ closed' \in BOOLEAN
    BY <1>2 DEF TypeOK, ClientClose
  <2> QED BY <1>2, <2>1 DEF TypeOK, ClientClose, reader, output
<1> QED BY <1>1, <1>2

LEMMA ReadTyped ==
  ASSUME TypeOK, ReaderInv, Read
  PROVE  TypeOK'
<1>1. CASE Refill
  <2>1. PICK k \in 1 .. Least(BufferSize, Len(net)) :
          inbuf' = SubSeq(net, 1, k) /\ net' = SubSeq(net, k + 1, Len(net))
    BY <1>1 DEF Refill
  <2>2. k \in 1 .. Len(net) /\ k <= BufferSize /\ net \in Seq(Byte)
    BY ConnectionAssumption, <2>1 DEF TypeOK, Least
  <2>3. inbuf' \in Seq(Byte) /\ Len(inbuf') <= BufferSize /\ net' \in Seq(Byte)
    BY ConnectionAssumption, <2>1, <2>2
  <2> QED BY <1>1, <2>3 DEF TypeOK, Refill, output
<1>2. CASE EndOfInput \/ StreamFailed
  BY <1>2 DEF TypeOK, EndOfInput, StreamFailed, input, reader, output, Over
<1>3. CASE HeaderLine
  <2>1. inbuf \in Seq(Byte) /\ inbuf # << >> /\ header \in Seq(Byte) /\ Len(inbuf) <= BufferSize
    BY <1>3 DEF TypeOK, HeaderLine
  <2>2. Head(inbuf) \in Byte /\ Tail(inbuf) \in Seq(Byte) /\ Len(Tail(inbuf)) = Len(inbuf) - 1
    BY <2>1, HeadTailProperties
  <2>3. header' \in Seq(Byte) /\ inbuf' \in Seq(Byte) /\ Len(inbuf') <= BufferSize
    BY <1>3, <2>1, <2>2, ConnectionAssumption DEF HeaderLine
  <2> QED BY <1>3, <2>3 DEF TypeOK, HeaderLine, input, output
<1>4. CASE HeaderEnd
  <2> DEFINE m == Len(served) + 1
  <2>1. inbuf \in Seq(Byte) /\ inbuf # << >> /\ Len(inbuf) <= BufferSize
    BY <1>4 DEF TypeOK, HeaderEnd
  <2>2. Tail(inbuf) \in Seq(Byte) /\ Len(Tail(inbuf)) = Len(inbuf) - 1
    BY <2>1, HeadTailProperties
  <2>3. inbuf' \in Seq(Byte) /\ Len(inbuf') <= BufferSize
    BY <1>4, <2>1, <2>2, ConnectionAssumption DEF HeaderEnd
  <2>4. sent[m] \in Frames /\ (LengthLines # {} => ContentLength = sent[m].length)
    BY <1>4, HeaderPlace, HeaderLength DEF HeaderEnd, Reading
  <2>5. LengthLines # {} => ContentLength \in Nat \cup {NaN}
    BY <2>4, FrameType
  <2>6. want' \in Nat /\ main' \in Over \cup {"body"}
    BY <1>4, <2>5 DEF HeaderEnd, Over
  <2>7. header' = << >> /\ payload' = << >>
    BY <1>4 DEF HeaderEnd
  <2>8. header' \in Seq(Byte) /\ payload' \in Seq(Byte) /\ Len(payload') <= want'
    BY <2>6, <2>7
  <2>9. UNCHANGED <<sent, closed, net, in_ok, served, output>>
    BY <1>4 DEF HeaderEnd, input
  <2> QED BY <2>3, <2>6, <2>8, <2>9 DEF TypeOK, output
<1>5. CASE ReadBody
  <2> DEFINE n == Least(want - Len(payload), Len(inbuf))
  <2>1. Len(payload') <= want
    BY <1>5, ReadBodyReads
  <2>2. n \in 1 .. Len(inbuf) /\ inbuf \in Seq(Byte) /\ payload \in Seq(Byte)
    <3>1. inbuf \in Seq(Byte) /\ payload \in Seq(Byte) /\ inbuf # << >> /\ want \in Nat
      BY <1>5 DEF TypeOK, ReadBody
    <3>2. Len(payload) < want /\ Len(inbuf) \in Nat \ {0}
      BY <1>5, <3>1, EmptySeq DEF ReaderInv, BodyInv, ReadBody, Reading
    <3> QED BY <3>1, <3>2 DEF Least
  <2>3. payload' = payload \o SubSeq(inbuf, 1, n) /\ inbuf' = SubSeq(inbuf, n + 1, Len(inbuf))
    BY <1>5 DEF ReadBody
  <2> HIDE DEF n
  <2>4. inbuf' \in Seq(Byte) /\ Len(inbuf') <= Len(inbuf) /\ payload' \in Seq(Byte)
    BY <2>2, <2>3
  <2>5. Len(inbuf) \in Nat /\ Len(inbuf') \in Nat /\ Len(inbuf) <= BufferSize
    BY <2>2, <2>4 DEF TypeOK
  <2>6. Len(inbuf') <= BufferSize
    BY <2>4, <2>5, ConnectionAssumption
  <2>7. UNCHANGED <<sent, closed, net, in_ok, header, want, served, output>>
        /\ main' \in {"serve", "body"}
    BY <1>5 DEF ReadBody, input
  <2> QED BY <2>1, <2>4, <2>6, <2>7 DEF TypeOK, output
<1> QED BY <1>1, <1>2, <1>3, <1>4, <1>5 DEF Read

LEMMA HandleTyped ==
  ASSUME TypeOK, ReaderInv, Handle
  PROVE  TypeOK'
<1>1. served' = Append(served, Parsed) /\ Parsed \in Nat /\ served \in Seq(Nat)
  BY ParsedIs DEF Handle, Torn, TypeOK
<1>2. served' \in Seq(Nat) /\ main' \in {"dead", "handle"}
  BY <1>1 DEF Handle
<1> QED BY <1>2 DEF TypeOK, Handle, input, reader, output, Over

\* Steps of the client and of the reader write nothing.
LEMMA OthersWrite ==
  ASSUME WriterInv, (\E f \in Frames : ClientSend(f)) \/ ClientClose \/ Read \/ Handle
  PROVE  WriterInv'
<1>1. UNCHANGED output /\ (main = "dead" => main' = "dead")
  BY DEF ClientSend, ClientClose, Read, Refill, EndOfInput, StreamFailed, HeaderLine,
         HeaderEnd, ReadBody, Reading, Handle
<1> QED BY <1>1 DEF WriterInv, NothingHeldBack, output

\* How a writing step leaves the rest.
WriterMoves ==
  /\ UNCHANGED <<input, reader, served>>
  /\ \/ main' \in {main, "dead"}
     \/ main = "handle" /\ main' = "answer"
     \/ main = "answer" /\ main' = "header"

\* A new message waits for its writer; what another has begun goes on.
LEMMA BeginWrites ==
  ASSUME TypeOK, WriterInv, NEW w \in Writers, NEW size \in Sizes, NEW to \in Nat,
         Begin(w, size, to), main' \in {main, "answer"}, main \notin Over
  PROVE  TypeOK' /\ WriterInv'
<1> DEFINE n == Len(said) + 1
<1>1. Bytes(n, size) \in Seq(Byte) /\ n \in Nat \ {0}
  <2>1. n \in Nat \ {0} /\ size \in Nat
    BY ConnectionAssumption DEF TypeOK
  <2> QED BY <2>1, BytesType
<1>2. /\ w \notin busy /\ busy' = busy \cup {w} /\ raced' = (raced \/ busy # {})
      /\ said' = Append(said, [size |-> size, to |-> to])
      /\ todo' = [todo EXCEPT ![w] = Bytes(n, size)]
      /\ UNCHANGED <<input, reader, served, outbuf, out_ok, s2c>>
  BY DEF Begin
<1>3. said' \in Seq([size : Sizes, to : Nat])
  BY <1>2 DEF TypeOK
<1>4. todo' \in [Writers -> Seq(Byte)] /\ busy' \subseteq Writers /\ raced' \in BOOLEAN
      /\ \A v \in Writers \ {w} : todo'[v] = todo[v]
  BY <1>1, <1>2 DEF TypeOK
<1>5. TypeOK'
  BY <1>2, <1>3, <1>4 DEF TypeOK, input, reader
<1>6. WriterInv'
  <2>1. ASSUME busy' = Writers PROVE raced'
    <3>1. "main" \in Writers /\ "event" \in Writers /\ "main" # "event"
      BY DEF Writers
    <3>2. busy # {}
      BY <1>2, <2>1, <3>1
    <3> QED BY <1>2, <3>2
  <2>2. \A v \in Writers \ busy' : todo'[v] = << >>
    BY <1>2, <1>4 DEF WriterInv
  <2>3. busy' # {}
    BY <1>2
  <2>4. main # "dead" /\ (out_ok => Len(outbuf) <= BufferSize)
    BY DEF WriterInv, Over
  <2> QED BY <1>2, <2>1, <2>2, <2>3, <2>4 DEF WriterInv, NothingHeldBack
<1> QED BY <1>5, <1>6

LEMMA SpeakWrites ==
  ASSUME TypeOK, WriterInv, (\E w \in Writers : Speak(w)) \/ Respond
  PROVE  TypeOK' /\ WriterInv' /\ WriterMoves
<1>1. ASSUME NEW w \in Writers, Speak(w) PROVE TypeOK' /\ WriterInv' /\ WriterMoves
  <2>1. PICK size \in Sizes : Begin(w, size, Unasked)
    BY <1>1 DEF Speak
  <2>2. main \notin Over /\ main' = main
    BY <1>1 DEF Speak
  <2> QED BY <2>1, <2>2, BeginWrites DEF Unasked, WriterMoves, Begin
<1>2. ASSUME Respond PROVE TypeOK' /\ WriterInv' /\ WriterMoves
  <2>1. PICK size \in Sizes : Begin("main", size, Len(served))
    BY <1>2 DEF Respond
  <2>2. main = "handle" /\ main' = "answer" /\ "main" \in Writers /\ Len(served) \in Nat
    BY <1>2 DEF Respond, Writers, TypeOK
  <2> QED BY <2>1, <2>2, BeginWrites DEF Over, WriterMoves, Begin
<1> QED BY <1>1, <1>2

\* A step that takes bytes to write from one thread's list.
LEMMA WriteWrites ==
  ASSUME TypeOK, WriterInv, NEW w \in Writers, Write(w)
  PROVE  TypeOK' /\ WriterInv' /\ WriterMoves
<1>1. /\ w \in busy /\ main \notin Over /\ UNCHANGED <<input, reader, served, said, raced>>
      /\ todo[w] \in Seq(Byte) /\ outbuf \in Seq(Byte) /\ s2c \in Seq(Byte)
      /\ busy \subseteq Writers /\ BufferSize \in Nat /\ Len(outbuf) \in Nat
      /\ (out_ok => Len(outbuf) <= BufferSize)
  <2>1. w \in busy /\ main \notin Over /\ UNCHANGED <<input, reader, served, said, raced>>
    BY DEF Write, Writing, Put, Overflow, Flush, GiveUp, Tear, Return
  <2>2. /\ todo[w] \in Seq(Byte) /\ outbuf \in Seq(Byte) /\ s2c \in Seq(Byte)
        /\ busy \subseteq Writers /\ BufferSize \in Nat
    BY ConnectionAssumption DEF TypeOK
  <2>3. out_ok => Len(outbuf) <= BufferSize
    BY <2>1 DEF WriterInv, Over
  <2> QED BY <2>1, <2>2, <2>3
<1>2. CASE Put(w)
  <2> DEFINE n == Least(BufferSize - Len(outbuf), Len(todo[w]))
  <2>1. /\ out_ok /\ todo[w] # << >> /\ Len(outbuf) < BufferSize
        /\ outbuf' = outbuf \o SubSeq(todo[w], 1, n)
        /\ todo' = [todo EXCEPT ![w] = SubSeq(@, n + 1, Len(@))]
        /\ UNCHANGED <<main, busy, out_ok, s2c>>
    BY <1>2 DEF Put
  <2>2. n \in 1 .. Len(todo[w]) /\ n <= BufferSize - Len(outbuf)
    BY <1>1, <2>1, EmptySeq DEF Least
  <2> HIDE DEF n
  <2>3. outbuf' \in Seq(Byte) /\ Len(outbuf') = Len(outbuf) + n
    BY <1>1, <2>1, <2>2
  <2>4. Len(outbuf') <= BufferSize
    BY <1>1, <2>2, <2>3
  <2>5. SubSeq(todo[w], n + 1, Len(todo[w])) \in Seq(Byte)
    BY <1>1, <2>2
  <2>6. todo' \in [Writers -> Seq(Byte)] /\ \A v \in Writers \ {w} : todo'[v] = todo[v]
    BY <2>1, <2>5 DEF TypeOK
  <2>7. TypeOK'
    <3>1. Len(outbuf') <= BufferSize + 1
      BY <1>1, <2>2, <2>3, <2>4
    <3> QED BY <1>1, <2>1, <2>3, <2>6, <3>1 DEF TypeOK, input, reader
  <2>8. WriterInv'
    BY <1>1, <2>1, <2>4, <2>6 DEF WriterInv, NothingHeldBack
  <2> QED BY <1>1, <2>1, <2>7, <2>8 DEF WriterMoves
<1>3. CASE Overflow(w)
  <2> DEFINE all == Append(outbuf, Head(todo[w]))
  <2>1. /\ out_ok /\ todo[w] # << >> /\ todo' = [todo EXCEPT ![w] = Tail(@)] /\ busy' = busy
        /\ \/ Deliver(all) /\ outbuf' = << >> /\ UNCHANGED <<out_ok, main>>
           \/ closed /\ out_ok' = FALSE /\ outbuf' = all /\ UNCHANGED <<s2c, main>>
           \/ main' = "dead" /\ outbuf' = all /\ UNCHANGED <<s2c, out_ok>>
    BY <1>3 DEF Overflow
  <2>2. Head(todo[w]) \in Byte /\ Tail(todo[w]) \in Seq(Byte)
    BY <1>1, <2>1, HeadTailProperties
  <2>3. all \in Seq(Byte) /\ Len(all) = Len(outbuf) + 1
    BY <1>1, <2>2
  <2>4. Len(all) <= BufferSize + 1
    BY <1>1, <2>1, <2>3
  <2>5. todo' \in [Writers -> Seq(Byte)] /\ \A v \in Writers \ {w} : todo'[v] = todo[v]
    BY <2>1, <2>2 DEF TypeOK
  <2> HIDE DEF all
  <2>6. outbuf' \in Seq(Byte) /\ Len(outbuf') <= BufferSize + 1 /\ s2c' \in Seq(Byte)
        /\ (outbuf' = << >> \/ main' = "dead" \/ ~out_ok') /\ out_ok' \in BOOLEAN
        /\ main' \in {main, "dead"}
    <3>1. CASE Deliver(all) /\ outbuf' = << >> /\ UNCHANGED <<out_ok, main>>
      <4>1. s2c' \in Seq(Byte)
        BY <1>1, <2>3, <3>1 DEF Deliver
      <4> QED BY <1>1, <3>1, <4>1 DEF TypeOK
    <3>2. CASE outbuf' = all /\ s2c' = s2c
      BY <1>1, <2>1, <2>3, <2>4, <3>2 DEF TypeOK
    <3> QED BY <2>1, <3>1, <3>2
  <2>7. TypeOK'
    BY <1>1, <2>1, <2>5, <2>6 DEF TypeOK, input, reader, Over
  <2>8. WriterInv'
    <3>1. main' # "dead" /\ out_ok' => outbuf' = << >> /\ Len(outbuf') <= BufferSize
      BY <1>1, <2>6
    <3>2. busy' # {}
      BY <1>1, <2>1
    <3> QED BY <1>1, <2>1, <2>5, <3>1, <3>2 DEF WriterInv, NothingHeldBack
  <2> QED BY <1>1, <2>6, <2>7, <2>8 DEF WriterMoves
<1>4. CASE Flush(w)
  <2>1. /\ out_ok /\ todo[w] = << >> /\ todo' = todo /\ busy' = busy \ {w}
        /\ \/ Deliver(outbuf) /\ outbuf' = << >> /\ out_ok' = out_ok
           \/ out_ok' = FALSE /\ UNCHANGED <<s2c, outbuf>>
        /\ main' \in {main, "header"} /\ (main' # main => main = "answer")
    BY <1>4 DEF Flush, Return
  <2>2. s2c' \in Seq(Byte) /\ outbuf' \in Seq(Byte) /\ Len(outbuf') <= BufferSize + 1
        /\ (out_ok' => outbuf' = << >>) /\ out_ok' \in BOOLEAN
    <3>1. CASE Deliver(outbuf) /\ outbuf' = << >> /\ out_ok' = out_ok
      <4>1. s2c' \in Seq(Byte)
        BY <1>1, <3>1 DEF Deliver
      <4> QED BY <1>1, <3>1, <4>1 DEF TypeOK
    <3>2. CASE out_ok' = FALSE /\ UNCHANGED <<s2c, outbuf>>
      BY <1>1, <3>2 DEF TypeOK
    <3> QED BY <2>1, <3>1, <3>2
  <2>3. TypeOK'
    BY <1>1, <2>1, <2>2 DEF TypeOK, input, reader
  <2>4. WriterInv'
    <3>1. out_ok' => Len(outbuf') <= BufferSize
      BY <1>1, <2>2
    <3>2. busy' # Writers
      BY <1>1, <2>1
    <3>3. \A v \in Writers \ busy' : todo'[v] = << >>
      BY <2>1 DEF WriterInv
    <3> QED BY <2>2, <3>1, <3>2, <3>3 DEF WriterInv, NothingHeldBack
  <2> QED BY <1>1, <2>1, <2>3, <2>4 DEF WriterMoves
<1>5. CASE GiveUp(w)
  <2>1. /\ ~out_ok /\ todo' = [todo EXCEPT ![w] = << >>] /\ busy' = busy \ {w}
        /\ UNCHANGED <<outbuf, out_ok, s2c>>
        /\ main' \in {main, "header"} /\ (main' # main => main = "answer")
    BY <1>5 DEF GiveUp, Return
  <2>2. << >> \in Seq(Byte)
    OBVIOUS
  <2>3. todo' \in [Writers -> Seq(Byte)] /\ \A v \in Writers \ busy' : todo'[v] = << >>
    BY <2>1, <2>2 DEF TypeOK, WriterInv
  <2>4. TypeOK'
    BY <1>1, <2>1, <2>3 DEF TypeOK, input, reader
  <2>5. WriterInv'
    <3>1. busy' # Writers
      BY <1>1, <2>1
    <3> QED BY <2>1, <2>3, <3>1 DEF WriterInv, NothingHeldBack
  <2> QED BY <1>1, <2>1, <2>4, <2>5 DEF WriterMoves
<1>6. CASE Tear(w)
  <2>1. /\ busy = Writers /\ out_ok /\ todo[w] # << >>
        /\ todo' = [todo EXCEPT ![w] = Tail(@)] /\ main' \in {main, "dead"}
        /\ UNCHANGED <<busy, outbuf, out_ok, s2c>>
    BY <1>6 DEF Tear
  <2>2. Tail(todo[w]) \in Seq(Byte)
    BY <1>1, <2>1, HeadTailProperties
  <2>3. todo' \in [Writers -> Seq(Byte)] /\ \A v \in Writers \ {w} : todo'[v] = todo[v]
    BY <2>1, <2>2 DEF TypeOK
  <2>4. TypeOK'
    BY <1>1, <2>1, <2>3 DEF TypeOK, input, reader, Over
  <2>5. WriterInv'
    BY <1>1, <2>1, <2>3 DEF WriterInv, NothingHeldBack
  <2> QED BY <1>1, <2>1, <2>4, <2>5 DEF WriterMoves
<1> QED BY <1>2, <1>3, <1>4, <1>5, <1>6 DEF Write

-----------------------------------------------------------------------------
(* The invariants of every behaviour. *)

Inv == TypeOK /\ ReaderInv /\ WriterInv

\* The writing steps of Next.
WriteStep == (\E w \in Writers : Speak(w)) \/ Respond \/ (\E w \in Writers : Write(w))

\* A step is one of the client, of the reader or of a writer, or stutters.
LEMMA StepKinds ==
  ASSUME [Next]_vars
  PROVE  \/ (\E f \in Frames : ClientSend(f)) \/ ClientClose \/ Read \/ Handle
         \/ WriteStep \/ UNCHANGED vars
BY DEF Next, Main, WriteStep, Gone, Writers

LEMMA InvStep ==
  ASSUME Inv, [Next]_vars
  PROVE  Inv' /\ (WriteStep => WriterMoves)
<1>1. TypeOK /\ ReaderInv /\ WriterInv
  BY DEF Inv
<1>2. CASE (\E f \in Frames : ClientSend(f)) \/ ClientClose
  <2>1. ReaderInv'
    BY <1>1, <1>2, ClientSendReads, ClientCloseReads
  <2>2. ~ WriteStep \/ WriterMoves
    BY <1>1, SpeakWrites, WriteWrites DEF WriteStep
  <2> QED BY <1>1, <1>2, <2>1, <2>2, ClientTyped, OthersWrite DEF Inv
<1>3. CASE Read
  <2>1. ReaderInv'
    BY <1>1, <1>3, RefillReads, EndOfInputReads, HeaderLineReads, HeaderEndReads, ReadBodyReads
       DEF Read
  <2>2. ~ WriteStep \/ WriterMoves
    BY <1>1, SpeakWrites, WriteWrites DEF WriteStep
  <2> QED BY <1>1, <1>3, <2>1, <2>2, ReadTyped, OthersWrite DEF Inv
<1>4. CASE Handle
  <2>1. ~ WriteStep \/ WriterMoves
    BY <1>1, SpeakWrites, WriteWrites DEF WriteStep
  <2> QED BY <1>1, <1>4, <2>1, HandleTyped, HandleReads, OthersWrite DEF Inv
<1>5. CASE WriteStep
  <2>1. TypeOK' /\ WriterInv' /\ WriterMoves
    BY <1>1, <1>5, SpeakWrites, WriteWrites DEF WriteStep
  <2>2. ReaderInv'
    BY <1>1, <2>1, WriterReads DEF WriterMoves
  <2> QED BY <2>1, <2>2 DEF Inv
<1>6. CASE UNCHANGED vars
  <2>1. UNCHANGED <<sent, closed, net, inbuf, in_ok, header, payload, want, main, served, said,
                    busy, todo, outbuf, out_ok, s2c, raced>>
    BY <1>6 DEF vars, input, reader, output
  <2>2. TypeOK'
    BY <1>1, <2>1 DEF TypeOK
  <2>3. WriterInv'
    BY <1>1, <2>1 DEF WriterInv, NothingHeldBack
  <2>4. ReaderInv'
    BY <1>1, <2>1, WriterReads DEF input, reader
  <2>5. ~ WriteStep \/ WriterMoves
    BY <1>1, SpeakWrites, WriteWrites DEF WriteStep
  <2> QED BY <2>2, <2>3, <2>4, <2>5 DEF Inv
<1> QED BY <1>2, <1>3, <1>4, <1>5, <1>6, StepKinds

THEOREM InvAlways == Spec => []Inv
<1>1. Init => Inv
  BY InitReader, InitTyped DEF Inv
<1>2. Inv /\ [Next]_vars => Inv'
  BY InvStep
<1> QED BY <1>1, <1>2, PTL DEF Spec

(***************************************************************************)
(* Every variable keeps its type, and no buffer grows past its end but by  *)
(* the one byte of overflow (socket_stream.cpp).                           *)
(***************************************************************************)
THEOREM TypeCorrect == Spec => []TypeOK
<1>1. Inv => TypeOK
  BY DEF Inv
<1> QED BY <1>1, InvAlways, PTL

(***************************************************************************)
(* The reader is always at the byte it expects, however the socket and the *)
(* buffer divide the stream (read_message, underflow).                     *)
(***************************************************************************)
THEOREM ReaderInStep == Spec => []InStep
<1>1. Inv => InStep
  BY DEF Inv, ReaderInv
<1> QED BY <1>1, InvAlways, PTL

(***************************************************************************)
(* No message is left in the output buffer when its writer is done         *)
(* (send_message, sync).                                                   *)
(***************************************************************************)
THEOREM HoldsNothingBack == Spec => []NothingHeldBack
<1>1. Inv => NothingHeldBack
  BY DEF Inv, WriterInv
<1> QED BY <1>1, InvAlways, PTL

(***************************************************************************)
(* The connection implements the stream of requests its users rely on:     *)
(* each is served once and in order, and none that was not sent but the    *)
(* one a client tore that hung up.                                         *)
(***************************************************************************)
THEOREM StreamImplemented == Spec => StreamSpec
<1> USE DEF Stream!Torn, Torn
<1>1. Init => Stream!Init
  BY DEF Init, Stream!Init
<1>2. Inv /\ [Next]_vars => [Stream!Next]_(Stream!vars)
  <2> SUFFICES ASSUME Inv, [Next]_vars PROVE [Stream!Next]_(Stream!vars)
    OBVIOUS
  <2>1. TypeOK /\ ReaderInv
    BY DEF Inv
  <2>2. CASE \E f \in Frames : ClientSend(f)
    <3>1. ~closed /\ UNCHANGED <<closed, served>> /\ Len(sent') = Len(sent) + 1
      BY <2>1, <2>2 DEF ClientSend, TypeOK
    <3> QED BY <3>1 DEF Stream!Next, Stream!Ask
  <2>3. CASE ClientClose
    BY <2>3 DEF ClientClose, Stream!Next, Stream!HangUp
  <2>4. CASE Handle
    <3>1. /\ main = "serve" /\ served' = Append(served, Parsed)
          /\ UNCHANGED <<sent, closed, in_ok>>
      BY <2>4 DEF Handle, input, reader
    <3>2. Len(served) + 1 \in DOMAIN sent /\ Parsed = IF in_ok THEN Len(served) + 1 ELSE Torn
      BY <2>1, <3>1, ParsedIs
    <3>3. Len(served) < Len(sent)
      BY <2>1, <3>2 DEF TypeOK
    <3>4. ~Stream!Cut /\ (~in_ok => closed)
      BY <2>1, <3>1 DEF ReaderInv, ServedInv, Stream!Cut
    <3>5. CASE in_ok
      BY <3>1, <3>2, <3>3, <3>4, <3>5 DEF Stream!Next, Stream!Serve
    <3>6. CASE ~in_ok
      BY <3>1, <3>2, <3>3, <3>4, <3>6 DEF Stream!Next, Stream!ServeTorn
    <3> QED BY <3>5, <3>6
  <2>5. CASE Read \/ WriteStep \/ UNCHANGED vars
    <3>1. UNCHANGED <<sent, closed, served>>
      BY <2>5, InvStep
         DEF Read, Refill, EndOfInput, StreamFailed, HeaderLine, HeaderEnd, ReadBody,
             WriterMoves, vars, input
    <3> QED BY <3>1 DEF Stream!vars
  <2> QED BY <2>2, <2>3, <2>4, <2>5, StepKinds
<1> QED BY <1>1, <1>2, InvAlways, PTL DEF Spec, StreamSpec, Stream!Spec

-----------------------------------------------------------------------------
(* Why a connection ends. *)

EndedForCause == main = "ended" =>
  closed \/ (Len(served) < Len(sent) /\ Unusable(sent[Len(served) + 1]))

DiedForCause == main = "dead" =>
  \/ Len(served) < Len(sent) /\ sent[Len(served) + 1].length = NaN
  \/ served # << >> /\ served[Len(served)] # Torn /\ sent[served[Len(served)]].throws
  \/ Len(outbuf) > BufferSize
  \/ raced

\* Once the connection is over, what it ended for stays.
LEMMA CausesStay ==
  ASSUME Inv, EndsForCause, main \in Over, [Next]_vars
  PROVE  EndsForCause'
<1>1. UNCHANGED <<sent, main, served, outbuf, raced>> /\ (closed => closed')
  <2>1. ~ (\E f \in Frames : ClientSend(f)) /\ ~ Handle
    BY DEF ClientSend, Handle, Over
  <2>2. ~ Read
    BY DEF Read, Refill, EndOfInput, StreamFailed, HeaderLine, HeaderEnd, ReadBody, Reading, Over
  <2>3. ~ WriteStep
    BY DEF WriteStep, Speak, Respond, Write, Writing, Put, Overflow, Flush, GiveUp, Tear, Over
  <2>4. CASE ClientClose
    BY <2>4 DEF ClientClose, output
  <2>5. CASE UNCHANGED vars
    BY <2>5 DEF vars, input, output
  <2> QED BY <2>1, <2>2, <2>3, <2>4, <2>5, StepKinds
<1> QED BY <1>1 DEF EndsForCause

LEMMA EndsReading ==
  ASSUME Inv, Read, main \notin Over
  PROVE  EndedForCause' /\ DiedForCause'
<1>1. TypeOK /\ ReaderInv
  BY DEF Inv
<1>2. UNCHANGED <<sent, closed, served>>
  BY DEF Read, Refill, EndOfInput, StreamFailed, HeaderLine, HeaderEnd, ReadBody, input
<1>3. CASE Refill \/ HeaderLine \/ ReadBody
  <2>1. main' \notin Over
    BY <1>3 DEF Refill, HeaderLine, ReadBody, Over
  <2> QED BY <2>1 DEF EndedForCause, DiedForCause, Over
<1>4. CASE EndOfInput \/ StreamFailed
  <2>1. closed /\ main' # "dead"
    BY <1>1, <1>4 DEF EndOfInput, StreamFailed, ReaderInv, ServedInv
  <2> QED BY <1>2, <2>1 DEF EndedForCause, DiedForCause
<1>5. CASE HeaderEnd
  <2> DEFINE m == Len(served) + 1
  <2>1. /\ main = "header" /\ in_ok /\ inbuf # << >> /\ Kind(Head(inbuf)) = "blank"
        /\ IF LengthLines = {} \/ ContentLength = 0 THEN main' = "ended"
           ELSE IF ContentLength = NaN THEN main' = "dead" ELSE main' = "body"
    BY <1>5 DEF HeaderEnd, Reading
  <2>2. /\ LengthLines # {} => ContentLength = sent[m].length
        /\ LengthLines = {} => \A i \in DOMAIN sent[m].fields : sent[m].fields[i] # "length"
    BY <1>1, <2>1, HeaderLength
  <2>3. Len(served) < Len(sent)
    <3>1. m \in DOMAIN sent
      BY <1>1, <2>1, HeaderPlace
    <3> QED BY <1>1, <3>1 DEF TypeOK
  <2>4. EndedForCause'
    <3>1. main' = "ended" => Unusable(sent[m])
      BY <2>1, <2>2 DEF Unusable
    <3> QED BY <1>2, <2>3, <3>1 DEF EndedForCause, Unusable
  <2>5. DiedForCause'
    BY <1>2, <2>1, <2>2, <2>3 DEF DiedForCause
  <2> QED BY <2>4, <2>5
<1> QED BY <1>3, <1>4, <1>5 DEF Read

LEMMA EndsHandling ==
  ASSUME Inv, Handle
  PROVE  EndedForCause' /\ DiedForCause'
<1>1. /\ served' = Append(served, Parsed) /\ sent' = sent /\ main' # "ended"
      /\ main' = "dead" => Parsed # Torn /\ sent[Parsed].throws
  BY DEF Handle, input
<1>2. served \in Seq(Nat) /\ Parsed \in Nat
  BY ParsedIs DEF Inv, TypeOK, Handle, Torn
<1>3. served' # << >> /\ served'[Len(served')] = Parsed
  BY <1>1, <1>2, AppendProperties
<1> QED BY <1>1, <1>3 DEF EndedForCause, DiedForCause

LEMMA EndsWriting ==
  ASSUME Inv, WriteStep, main \notin Over
  PROVE  EndedForCause' /\ DiedForCause'
<1>1. main' # "ended"
  BY DEF WriteStep, Speak, Respond, Write, Put, Overflow, Flush, GiveUp, Tear, Return, Over
<1>2. ASSUME main' = "dead" PROVE Len(outbuf') > BufferSize \/ raced'
  <2>1. PICK w \in Writers : Overflow(w) \/ Tear(w)
    BY <1>2 DEF WriteStep, Speak, Respond, Write, Put, Flush, GiveUp, Return, Over
  <2>2. CASE Overflow(w)
    <3>1. /\ outbuf' = Append(outbuf, Head(todo[w])) /\ Len(outbuf) >= BufferSize
          /\ outbuf \in Seq(Byte) /\ BufferSize \in Nat
      BY <1>2, <2>2, ConnectionAssumption DEF Overflow, Inv, TypeOK, Over
    <3>2. Len(outbuf') = Len(outbuf) + 1
      BY <3>1
    <3> QED BY <3>1, <3>2
  <2>3. CASE Tear(w)
    BY <2>3 DEF Tear, Inv, WriterInv
  <2> QED BY <2>1, <2>2, <2>3
<1> QED BY <1>1, <1>2 DEF EndedForCause, DiedForCause

(***************************************************************************)
(* A connection ends, and the process dies, for the reasons listed and no  *)
(* other (dap::run, read_message, overflow).                               *)
(***************************************************************************)
THEOREM EndsOnlyForCause == Spec => []EndsForCause
<1>1. EndsForCause <=> EndedForCause /\ DiedForCause
  BY DEF EndsForCause, EndedForCause, DiedForCause
<1>2. Init => EndsForCause
  BY DEF Init, EndsForCause
<1>3. Inv /\ EndsForCause /\ [Next]_vars => EndsForCause'
  <2> SUFFICES ASSUME Inv, EndsForCause, [Next]_vars, main \notin Over PROVE EndsForCause'
    BY CausesStay
  <2>1. CASE (\E f \in Frames : ClientSend(f)) \/ ClientClose \/ UNCHANGED vars
    <3>1. main' = main
      BY <2>1 DEF ClientSend, ClientClose, vars
    <3> QED BY <3>1 DEF EndsForCause, Over
  <2>2. CASE Read \/ Handle \/ WriteStep
    <3>1. EndedForCause' /\ DiedForCause'
      BY <2>2, EndsReading, EndsHandling, EndsWriting
    <3>2. EndsForCause' <=> EndedForCause' /\ DiedForCause'
      BY <1>1, PTL
    <3> QED BY <3>1, <3>2
  <2> QED BY <2>1, <2>2, StepKinds
<1> QED BY <1>2, <1>3, InvAlways, PTL DEF Spec

-----------------------------------------------------------------------------
(* What the client is sent. *)

\* All that was said: what is sent, what is in the buffer, what is to be written.
All == s2c \o outbuf \o Left

Told(s) == \A i \in 1 .. Len(s) : s[i].m \in DOMAIN said

SentInv ==
  /\ Seamless(SaidSizes, s2c) /\ Told(s2c)
  /\ s2c # << >> => s2c[1] = [m |-> 1, at |-> 1]

AllInv ==
  /\ Seamless(SaidSizes, All) /\ Told(All)
  /\ All = << >> => said = << >>
  /\ All # << >> => /\ All[1] = [m |-> 1, at |-> 1]
                    /\ All[Len(All)] = [m |-> Len(said), at |-> said[Len(said)].size]

OutInv == ~raced => SentInv /\ (out_ok /\ main # "dead" => AllInv)

LEMMA LeftType ==
  ASSUME TypeOK
  PROVE  /\ Left \in Seq(Byte) /\ s2c \in Seq(Byte) /\ outbuf \in Seq(Byte)
         /\ s2c \o outbuf \in Seq(Byte) /\ All \in Seq(Byte)
<1>1. Left \in Seq(Byte) /\ s2c \in Seq(Byte) /\ outbuf \in Seq(Byte)
  BY DEF TypeOK, Left, Writers
<1>2. s2c \o outbuf \in Seq(Byte)
  BY <1>1
<1> QED BY <1>1, <1>2 DEF All

\* A step that neither says anything nor sends what was not said.
LEMMA OutKept ==
  ASSUME TypeOK, OutInv, UNCHANGED <<said, raced>>, main = "dead" => main' = "dead",
         \/ UNCHANGED <<s2c, outbuf, out_ok>> /\ Left' = Left
         \/ s2c' = s2c /\ ~ (out_ok' /\ main' # "dead")
         \/ /\ ~raced => out_ok /\ main # "dead" /\ All' = All
            /\ ~raced => \E x \in Seq(Byte) : s2c' \in Seq(Byte) /\ All = s2c' \o x
  PROVE  OutInv'
<1> SUFFICES ASSUME ~raced PROVE SentInv' /\ ((out_ok /\ main # "dead")' => AllInv')
  BY DEF OutInv
<1>1. SentInv /\ (out_ok /\ main # "dead" => AllInv) /\ SaidSizes' = SaidSizes
  BY DEF OutInv, SaidSizes
<1>2. CASE UNCHANGED <<s2c, outbuf, out_ok>> /\ Left' = Left
  <2>1. All' = All
    BY <1>2 DEF All
  <2> QED BY <1>1, <1>2, <2>1 DEF SentInv, AllInv, Told
<1>3. CASE s2c' = s2c /\ ~ (out_ok' /\ main' # "dead")
  BY <1>1, <1>3 DEF SentInv, Told
<1>4. CASE /\ ~raced => out_ok /\ main # "dead" /\ All' = All
           /\ ~raced => \E x \in Seq(Byte) : s2c' \in Seq(Byte) /\ All = s2c' \o x
  <2>1. AllInv /\ All' = All
    BY <1>1, <1>4
  <2>2. AllInv'
    BY <1>1, <2>1 DEF AllInv, Told
  <2>3. PICK x \in Seq(Byte) : s2c' \in Seq(Byte) /\ All = s2c' \o x
    BY <1>4
  <2>4. /\ Len(All) = Len(s2c') + Len(x) /\ Len(s2c') \in Nat /\ Len(x) \in Nat
        /\ All \in Seq(Byte) /\ \A i \in 1 .. Len(s2c') : All[i] = s2c'[i]
    BY <2>3, LeftType, ConcatProperties
  <2>5. Seamless(SaidSizes, s2c')
    <3> SUFFICES ASSUME NEW i \in 1 .. Len(s2c') - 1
                 PROVE  Follows(SaidSizes, s2c'[i], s2c'[i + 1])
      BY DEF Seamless
    <3>1. i \in 1 .. Len(All) - 1 /\ All[i] = s2c'[i] /\ All[i + 1] = s2c'[i + 1]
      BY <2>4
    <3> QED BY <2>1, <3>1 DEF AllInv, Seamless
  <2>6. Told(s2c)'
    BY <2>1, <2>4 DEF AllInv, Told
  <2>7. ASSUME s2c' # << >> PROVE s2c'[1] = [m |-> 1, at |-> 1]
    <3>1. Len(s2c') \in Nat \ {0}
      BY <2>3, <2>7, EmptySeq
    <3>2. Len(All) # 0 /\ All[1] = s2c'[1]
      BY <2>4, <3>1
    <3>3. All # << >>
      BY <3>2, EmptySeq
    <3> QED BY <2>1, <3>2, <3>3 DEF AllInv
  <2> QED BY <1>1, <2>2, <2>5, <2>6, <2>7 DEF SentInv
<1> QED BY <1>2, <1>3, <1>4

\* A message begun comes after all others.
LEMMA BeginOut ==
  ASSUME Inv, OutInv, NEW w \in Writers, NEW size \in Sizes, NEW to \in Nat,
         Begin(w, size, to), main \notin Over, main' # "dead"
  PROVE  OutInv'
<1> DEFINE n == Len(said)
<1>1. /\ TypeOK /\ WriterInv /\ s2c \in Seq(Byte) /\ n \in Nat /\ size \in Nat \ {0}
      /\ DOMAIN said = 1 .. n
  BY LeftType, ConnectionAssumption DEF Inv, TypeOK
<1>2. /\ busy' = busy \cup {w} /\ raced' = (raced \/ busy # {})
      /\ said' = Append(said, [size |-> size, to |-> to])
      /\ todo' = [todo EXCEPT ![w] = Bytes(n + 1, size)]
      /\ UNCHANGED <<outbuf, out_ok, s2c>>
  BY DEF Begin
<1>3. SUFFICES ASSUME ~raced, busy = {} PROVE SentInv' /\ (out_ok => AllInv')
  BY <1>2 DEF OutInv
<1>4. /\ Len(said') = n + 1 /\ DOMAIN said' = 1 .. n + 1 /\ said'[n + 1].size = size
      /\ \A k \in 1 .. n : said'[k] = said[k] /\ said[k].size \in Nat
  <2>1. said \in Seq([size : Sizes, to : Nat])
    BY <1>1 DEF TypeOK
  <2>2. \A k \in 1 .. n : said[k].size \in Nat
    <3>1. \A k \in 1 .. n : said[k] \in [size : Sizes, to : Nat]
      BY <2>1, ElementOfSeq
    <3> QED BY <3>1, ConnectionAssumption
  <2> QED BY <1>1, <1>2, <2>1, <2>2, AppendProperties
<1>5. /\ SaidSizes'[n + 1] = size
      /\ \A k \in DOMAIN said : SaidSizes'[k] = SaidSizes[k] /\ SaidSizes'[k] = said[k].size
  BY <1>1, <1>4 DEF SaidSizes
<1>6. SentInv
  BY <1>3 DEF OutInv
<1>7. SentInv'
  <2>1. Seamless(SaidSizes', s2c)
    BY <1>1, <1>5, <1>6, SeamlessSizes DEF SentInv, Told
  <2> QED BY <1>1, <1>2, <1>4, <1>6, <2>1 DEF SentInv, Told
<1>8. ASSUME out_ok PROVE AllInv'
  <2>1. outbuf = << >> /\ Left = << >> /\ AllInv
    BY <1>1, <1>3, <1>8 DEF OutInv, Over, WriterInv, NothingHeldBack, Left
  <2>2. All = s2c
    BY <1>1, <2>1, ConcatEmptySeq DEF All
  <2>3. All' = s2c \o Bytes(n + 1, size)
    <3>1. Left' = Bytes(n + 1, size)
      <4>1. todo'[w] = Bytes(n + 1, size)
        BY <1>1, <1>2 DEF TypeOK
      <4>2. busy' = {w} /\ w \in {"main", "event"}
        BY <1>2, <1>3 DEF Writers
      <4> QED BY <4>1, <4>2 DEF Left
    <3>2. s2c \o << >> = s2c
      BY <1>1, ConcatEmptySeq
    <3> QED BY <1>2, <2>1, <3>1, <3>2 DEF All
  <2>4. s2c # << >> => /\ s2c[Len(s2c)] = [m |-> n, at |-> said[n].size]
                       /\ n \in DOMAIN said
    <3>1. ASSUME s2c # << >> PROVE n \in DOMAIN said /\ s2c[Len(s2c)].m = n
      <4>1. s2c[Len(s2c)] = [m |-> n, at |-> said[n].size] /\ Len(s2c) \in 1 .. Len(s2c)
        BY <1>1, <2>1, <2>2, <3>1, EmptySeq DEF AllInv
      <4> QED BY <1>6, <4>1 DEF SentInv, Told
    <3> QED BY <2>1, <2>2, <3>1 DEF AllInv
  <2>5. s2c # << >> => SaidSizes'[n] = said[n].size /\ SaidSizes'[n] \in Nat
    BY <1>1, <1>4, <1>5, <2>4
  <2>6. \A i \in 1 .. Len(s2c) : SaidSizes'[s2c[i].m] = SaidSizes[s2c[i].m]
    BY <1>5, <1>6 DEF SentInv, Told
  <2> DEFINE all == s2c \o Bytes(n + 1, size)
  <2>7. /\ all # << >> /\ Seamless(SaidSizes', all) /\ Len(all) \in Nat
        /\ all[1] = IF s2c = << >> THEN [m |-> n + 1, at |-> 1] ELSE s2c[1]
        /\ all[Len(all)] = [m |-> n + 1, at |-> size]
        /\ \A i \in 1 .. Len(all) : IF i <= Len(s2c) THEN all[i] = s2c[i]
                                    ELSE all[i].m = n + 1 /\ all[i].at \in 1 .. size
    <3>1. Seamless(SaidSizes, s2c)
      BY <1>6 DEF SentInv
    <3>2. s2c # << >> => /\ SaidSizes'[n] \in Nat
                         /\ s2c[Len(s2c)] = [m |-> n, at |-> SaidSizes'[n]]
      BY <2>4, <2>5
    <3>3. PICK sizes, others : sizes = SaidSizes /\ others = SaidSizes'
      OBVIOUS
    <3> HIDE DEF n
    <3>4. Growing(sizes, others, s2c, n, size)
      BY <1>1, <1>5, <2>6, <3>1, <3>2, <3>3 DEF Growing
    <3>5. Grown(others, s2c, n, size, all)
      BY <3>4, StreamGrows
    <3> HIDE DEF all
    <3> QED BY <3>3, <3>5 DEF Grown
  <2> HIDE DEF all
  <2>8. all[1] = [m |-> 1, at |-> 1]
    <3>1. s2c = << >> => n = 0
      BY <2>1, <2>2 DEF AllInv
    <3> QED BY <1>6, <2>7, <3>1 DEF SentInv
  <2>9. \A i \in 1 .. Len(all) : all[i].m \in DOMAIN said'
    <3>1. \A i \in 1 .. Len(s2c) : s2c[i].m \in DOMAIN said'
      BY <1>1, <1>4, <1>6 DEF SentInv, Told
    <3> QED BY <1>1, <1>4, <2>7, <3>1
  <2>10. All' = all
    BY <2>3 DEF all
  <2> QED BY <1>4, <2>7, <2>8, <2>9, <2>10 DEF AllInv, Told
<1> QED BY <1>7, <1>8

\* While no two threads write, the one that does takes from what is left.
LEMMA LeftOfWriter ==
  ASSUME TypeOK, WriterInv, NEW w \in busy, ~raced
  PROVE  busy = {w} /\ Left = todo[w] /\ busy \ {w} = {}
<1>1. busy \subseteq {"main", "event"} /\ busy # {"main", "event"}
  BY DEF TypeOK, WriterInv, Writers
<1>2. busy = {w}
  BY <1>1
<1> QED BY <1>1, <1>2 DEF Left

LEMMA WriteOut ==
  ASSUME Inv, OutInv, NEW w \in Writers, Write(w)
  PROVE  OutInv'
<1>1. /\ TypeOK /\ WriterInv /\ w \in busy /\ main \notin Over /\ main # "dead"
      /\ UNCHANGED <<said, raced>>
  BY DEF Inv, Write, Writing, Put, Overflow, Flush, GiveUp, Tear, Return, Over
<1>2. /\ s2c \in Seq(Byte) /\ outbuf \in Seq(Byte) /\ s2c \o outbuf \in Seq(Byte)
      /\ todo \in [Writers -> Seq(Byte)] /\ todo[w] \in Seq(Byte)
  BY <1>1, LeftType DEF TypeOK
<1>3. ~raced => /\ Left = todo[w] /\ All = (s2c \o outbuf) \o todo[w]
                /\ (busy' = busy => Left' = todo'[w]) /\ (busy' = busy \ {w} => Left' = << >>)
  <2>1. ASSUME ~raced, busy' = busy PROVE Left' = todo'[w]
    <3>1. busy' = {w} /\ w \in {"main", "event"}
      BY <1>1, <2>1, LeftOfWriter DEF Writers
    <3> QED BY <3>1 DEF Left
  <2>2. ASSUME ~raced, busy' = busy \ {w} PROVE Left' = << >>
    <3>1. busy' = {}
      BY <1>1, <2>2, LeftOfWriter
    <3> QED BY <3>1 DEF Left
  <2> QED BY <1>1, <2>1, <2>2, LeftOfWriter DEF All
<1>4. CASE Put(w)
  <2> DEFINE n == Least(BufferSize - Len(outbuf), Len(todo[w]))
             front == SubSeq(todo[w], 1, n)  back == SubSeq(todo[w], n + 1, Len(todo[w]))
  <2>1. /\ out_ok /\ outbuf' = outbuf \o front /\ todo' = [todo EXCEPT ![w] = back]
        /\ UNCHANGED <<main, busy, out_ok, s2c>> /\ todo[w] # << >> /\ Len(outbuf) < BufferSize
    BY <1>4 DEF Put
  <2>2. n \in 1 .. Len(todo[w])
    BY <1>2, <2>1, EmptySeq, ConnectionAssumption DEF Least
  <2> HIDE DEF n
  <2>3. front \in Seq(Byte) /\ back \in Seq(Byte) /\ front \o back = todo[w]
    BY <1>2, <2>2, ConcatAdjacentSubSeq, SubSeqFull
  <2>4. todo'[w] = back
    BY <1>2, <2>1
  <2> HIDE DEF front, back
  <2>5. ASSUME ~raced PROVE All' = All
    <3>1. All' = (s2c \o (outbuf \o front)) \o back
      BY <1>3, <2>1, <2>4, <2>5 DEF All
    <3>2. outbuf \o front \in Seq(Byte)
      BY <1>2, <2>3
    <3>3. s2c \o (outbuf \o front) = (s2c \o outbuf) \o front
      BY <1>2, <2>3, Regroup, Zenon
    <3>4. ((s2c \o outbuf) \o front) \o back = (s2c \o outbuf) \o (front \o back)
      BY <1>2, <2>3, Regroup, Zenon
    <3> QED BY <1>3, <2>3, <2>5, <3>1, <3>3, <3>4
  <2>6. ASSUME ~raced PROVE \E x \in Seq(Byte) : s2c' \in Seq(Byte) /\ All = s2c' \o x
    <3>1. outbuf \o todo[w] \in Seq(Byte)
      BY <1>2
    <3>2. (s2c \o outbuf) \o todo[w] = s2c \o (outbuf \o todo[w])
      BY <1>2, Regroup, Zenon
    <3> QED BY <1>2, <1>3, <2>1, <2>6, <3>1, <3>2
  <2> QED BY <1>1, <2>1, <2>5, <2>6, OutKept
<1>5. CASE Overflow(w)
  <2> DEFINE all == Append(outbuf, Head(todo[w]))  x == Tail(todo[w])
  <2>1. /\ out_ok /\ todo[w] # << >> /\ todo' = [todo EXCEPT ![w] = x] /\ busy' = busy
        /\ \/ Deliver(all) /\ outbuf' = << >> /\ UNCHANGED <<out_ok, main>>
           \/ ~ (out_ok' /\ main' # "dead") /\ s2c' = s2c
    BY <1>5 DEF Overflow
  <2>2. CASE ~ (out_ok' /\ main' # "dead") /\ s2c' = s2c
    BY <1>1, <2>2, OutKept
  <2>3. CASE Deliver(all) /\ outbuf' = << >> /\ UNCHANGED <<out_ok, main>>
    <3>1. /\ Head(todo[w]) \in Byte /\ x \in Seq(Byte) /\ <<Head(todo[w])>> \in Seq(Byte)
          /\ all = outbuf \o <<Head(todo[w])>> /\ todo[w] = <<Head(todo[w])>> \o x
      <4>1. Head(todo[w]) \in Byte /\ x \in Seq(Byte)
        BY <1>2, <2>1, HeadTailProperties
      <4>2. all = outbuf \o <<Head(todo[w])>>
        BY <1>2, <4>1, AppendIsConcat
      <4>3. todo[w] = <<Head(todo[w])>> \o x
        <5>1. Len(todo[w]) \in Nat \ {0} /\ 1 \in 1 .. Len(todo[w])
              /\ Len(todo[w]) \in 1 .. Len(todo[w])
          BY <1>2, <2>1, EmptySeq
        <5>2. SubSeq(todo[w], 1, Len(todo[w])) =
                <<todo[w][1]>> \o SubSeq(todo[w], 1 + 1, Len(todo[w]))
          BY <1>2, <5>1, SubSeqRecursiveFirst
        <5>3. x = SubSeq(todo[w], 2, Len(todo[w])) /\ Head(todo[w]) = todo[w][1]
          BY <1>2, <2>1, TailIsSubSeq
        <5> QED BY <1>2, <5>2, <5>3, SubSeqFull
      <4> QED BY <4>1, <4>2, <4>3
    <3>2. all \in Seq(Byte) /\ s2c \o all \in Seq(Byte) /\ todo'[w] = x
      BY <1>2, <2>1, <3>1
    <3> HIDE DEF all, x
    <3>3. ASSUME ~raced PROVE All' = All /\ All = s2c' \o x /\ s2c' = s2c \o all
      <4>1. s2c' = s2c \o all /\ Left' = x
        BY <1>3, <2>1, <2>3, <3>2, <3>3 DEF Deliver
      <4>2. All' = (s2c \o all) \o x
        BY <2>3, <3>2, <4>1, ConcatEmptySeq DEF All
      <4>3. s2c \o (outbuf \o <<Head(todo[w])>>) = (s2c \o outbuf) \o <<Head(todo[w])>>
        BY <1>2, <3>1, Regroup, Zenon
      <4>4. ((s2c \o outbuf) \o <<Head(todo[w])>>) \o x =
              (s2c \o outbuf) \o (<<Head(todo[w])>> \o x)
        BY <1>2, <3>1, Regroup, Zenon
      <4> QED BY <1>3, <3>1, <3>3, <4>1, <4>2, <4>3, <4>4
    <3> QED BY <1>1, <2>1, <2>3, <3>1, <3>2, <3>3, OutKept
  <2> QED BY <2>1, <2>2, <2>3
<1>6. CASE Flush(w)
  <2>1. /\ out_ok /\ todo[w] = << >> /\ busy' = busy \ {w} /\ main' # "dead"
        /\ \/ Deliver(outbuf) /\ outbuf' = << >> /\ out_ok' = out_ok
           \/ ~out_ok' /\ s2c' = s2c
    BY <1>1, <1>6 DEF Flush, Return
  <2>2. CASE ~out_ok' /\ s2c' = s2c
    BY <1>1, <2>2, OutKept
  <2>3. CASE Deliver(outbuf) /\ outbuf' = << >> /\ out_ok' = out_ok
    <3>1. ASSUME ~raced PROVE All' = All /\ All = s2c' \o << >> /\ s2c' = s2c \o outbuf
      <4>1. s2c' = s2c \o outbuf /\ Left' = << >>
        BY <1>3, <2>1, <2>3, <3>1 DEF Deliver
      <4>2. All' = s2c \o outbuf /\ All = s2c \o outbuf
        BY <1>2, <1>3, <2>1, <2>3, <3>1, <4>1, ConcatEmptySeq DEF All
      <4> QED BY <1>2, <4>1, <4>2, ConcatEmptySeq
    <3>2. << >> \in Seq(Byte)
      OBVIOUS
    <3> QED BY <1>1, <1>2, <2>1, <2>3, <3>1, <3>2, OutKept
  <2> QED BY <2>1, <2>2, <2>3
<1>7. CASE GiveUp(w)
  <2>1. ~out_ok' /\ s2c' = s2c
    BY <1>7 DEF GiveUp
  <2> QED BY <1>1, <2>1, OutKept
<1>8. CASE Tear(w)
  <2>1. raced'
    BY <1>1, <1>8 DEF Tear, WriterInv
  <2> QED BY <2>1 DEF OutInv
<1> QED BY <1>4, <1>5, <1>6, <1>7, <1>8 DEF Write

(***************************************************************************)
(* Unless two threads wrote at once, the client gets the server's messages *)
(* whole and in order, whatever their length and the size of the buffer    *)
(* (send_message, overflow, sync).                                         *)
(***************************************************************************)
THEOREM FramesWhole == Spec => []WholeFrames
<1>1. Init => OutInv
  <2> SUFFICES ASSUME Init PROVE OutInv
    OBVIOUS
  <2>1. s2c = << >> /\ All = << >> /\ said = << >> /\ Len(<< >>) = 0
    BY DEF Init, All, Left
  <2>2. Seamless(SaidSizes, << >>) /\ Told(<< >>)
    BY DEF Seamless, Told
  <2> QED BY <2>1, <2>2 DEF OutInv, SentInv, AllInv
<1>2. Inv /\ OutInv /\ [Next]_vars => OutInv'
  <2> SUFFICES ASSUME Inv, OutInv, [Next]_vars PROVE OutInv'
    OBVIOUS
  <2>1. TypeOK
    BY DEF Inv
  <2>2. CASE (\E f \in Frames : ClientSend(f)) \/ ClientClose \/ Read \/ Handle \/ UNCHANGED vars
    <3>1. UNCHANGED output /\ (main = "dead" => main' = "dead")
      BY <2>2 DEF ClientSend, ClientClose, Read, Refill, EndOfInput, StreamFailed, HeaderLine,
                  HeaderEnd, ReadBody, Reading, Handle, vars
    <3>2. UNCHANGED <<said, raced, s2c, outbuf, out_ok>> /\ Left' = Left
      BY <3>1 DEF output, Left
    <3> QED BY <2>1, <3>1, <3>2, OutKept
  <2>3. CASE WriteStep
    <3>1. ASSUME NEW w \in Writers, Speak(w) PROVE OutInv'
      <4>1. PICK size \in Sizes : Begin(w, size, Unasked)
        BY <3>1 DEF Speak
      <4>2. main \notin Over /\ main' # "dead" /\ Unasked \in Nat
        BY <3>1 DEF Speak, Over, Unasked
      <4> QED BY <4>1, <4>2, BeginOut
    <3>2. ASSUME Respond PROVE OutInv'
      <4>1. PICK size \in Sizes : Begin("main", size, Len(served))
        BY <3>2 DEF Respond
      <4>2. /\ main \notin Over /\ main' # "dead" /\ Len(served) \in Nat
            /\ "main" \in Writers
        BY <2>1, <3>2 DEF Respond, Over, Writers, TypeOK
      <4> QED BY <4>1, <4>2, BeginOut
    <3> QED BY <2>3, <3>1, <3>2, WriteOut DEF WriteStep
  <2> QED BY <2>2, <2>3, StepKinds
<1>3. Inv /\ OutInv => WholeFrames
  BY DEF OutInv, SentInv, AllInv, WholeFrames, All
<1> QED BY <1>1, <1>2, <1>3, InvAlways, PTL DEF Spec
-----------------------------------------------------------------------------
(* The answers follow the requests. *)

\* A step that writes no message and is not a handler's own.
LEMMA AnswersKept ==
  ASSUME AnswersFollow, UNCHANGED <<said, served>>,
         main' = "handle" => main = "handle",
         main' \notin {"handle", "dead"} => main \notin {"handle", "dead"}
  PROVE  AnswersFollow'
BY DEF AnswersFollow, Answering

\* An event, or the answer to the request in hand, is the last message said.
LEMMA AnswersGrow ==
  ASSUME TypeOK, AnswersFollow, NEW w, NEW size \in Sizes, NEW to \in Nat,
         Begin(w, size, to),
         \/ to = Unasked /\ main' = main
         \/ to = Len(served) /\ main = "handle" /\ main' = "answer"
  PROVE  AnswersFollow'
<1>1. /\ said \in Seq([size : Sizes, to : Nat]) /\ [size |-> size, to |-> to] \in [size : Sizes, to : Nat]
      /\ said' = Append(said, [size |-> size, to |-> to]) /\ served' = served
      /\ Len(served) \in Nat
  BY DEF TypeOK, Begin
<1> DEFINE last == Len(said) + 1
<1>2. /\ Len(said) \in Nat /\ DOMAIN said = 1 .. Len(said) /\ DOMAIN said' = 1 .. last
      /\ \A k \in DOMAIN said : said'[k] = said[k] /\ said[k].to \in Nat
      /\ said'[last].to = to
  <2>1. /\ Len(said) \in Nat /\ DOMAIN said = 1 .. Len(said) /\ DOMAIN said' = 1 .. last
        /\ \A k \in DOMAIN said : said'[k] = said[k]
        /\ said'[last] = [size |-> size, to |-> to]
    BY <1>1
  <2>2. ASSUME NEW k \in DOMAIN said PROVE said[k] \in [size : Sizes, to : Nat]
    <3>1. k \in 1 .. Len(said)
      BY <2>1
    <3> QED BY <1>1, <3>1, ElementOfSeq
  <2>3. \A k \in DOMAIN said : said[k].to \in Nat
    BY <2>2
  <2> QED BY <2>1, <2>3
<1>3. \A k \in DOMAIN said' : k = last \/ k \in DOMAIN said
  BY <1>2
<1>4. \A k \in DOMAIN said' : said'[k].to <= Len(served')
  BY <1>1, <1>2, <1>3 DEF AnswersFollow, Unasked
<1>5. ASSUME NEW j \in DOMAIN said', NEW k \in DOMAIN said', j < k,
             Answering(j)', Answering(k)'
      PROVE  said'[j].to < said'[k].to
  <2>1. j \in DOMAIN said /\ said[j].to = said'[j].to
    BY <1>2, <1>3, <1>5
  <2>2. CASE k \in DOMAIN said
    BY <1>2, <1>5, <2>1, <2>2 DEF AnswersFollow, Answering
  <2>3. CASE k = last
    <3>1. said'[k].to = to /\ said'[k].to # Unasked /\ said'[j].to # Unasked
      BY <1>2, <1>5, <2>3 DEF Answering
    <3>2. to = Len(served) /\ main = "handle" /\ Answering(j)
      BY <2>1, <3>1 DEF Answering
    <3>3. said[j].to < Len(served)
      BY <2>1, <3>2 DEF AnswersFollow
    <3> QED BY <2>1, <3>1, <3>2, <3>3
  <2> QED BY <1>3, <2>2, <2>3
<1>6. ASSUME NEW n \in 1 .. Len(served'), n < Len(served') \/ main' \notin {"handle", "dead"}
      PROVE  \E k \in DOMAIN said' : said'[k].to = n
  <2>1. CASE n < Len(served) \/ main \notin {"handle", "dead"}
    <3>1. PICK k \in DOMAIN said : said[k].to = n
      BY <1>1, <1>6, <2>1 DEF AnswersFollow
    <3>2. k \in DOMAIN said' /\ said'[k].to = n
      BY <1>2, <3>1
    <3> QED BY <3>2
  <2>2. CASE ~ (n < Len(served)) /\ main \in {"handle", "dead"}
    <3>1. to = Len(served) /\ n = Len(served)
      BY <1>1, <1>6, <2>2
    <3>2. last \in DOMAIN said'
      BY <1>2
    <3> QED BY <1>2, <3>1, <3>2
  <2> QED BY <2>1, <2>2
<1>7. main' = "handle" =>
        \A k \in DOMAIN said' : Answering(k)' => said'[k].to < Len(served')
  BY <1>1, <1>2, <1>3 DEF AnswersFollow, Answering
<1> QED BY <1>4, <1>5, <1>6, <1>7 DEF AnswersFollow

(***************************************************************************)
(* The answers in the server's messages are to the requests served, each   *)
(* once and in order, whatever events come between them, for messages of   *)
(* any size and any number of them (dap::run, handle_message, the event    *)
(* sender of main.cpp).  With FramesWhole, so the client reads them.       *)
(***************************************************************************)
THEOREM AnswersInOrder == Spec => []AnswersFollow
<1>1. Init => AnswersFollow
  BY DEF Init, AnswersFollow
<1>2. Inv /\ AnswersFollow /\ [Next]_vars => AnswersFollow'
  <2> SUFFICES ASSUME Inv, AnswersFollow, [Next]_vars PROVE AnswersFollow'
    OBVIOUS
  <2>1. TypeOK /\ ReaderInv
    BY DEF Inv
  <2>2. CASE (\E f \in Frames : ClientSend(f)) \/ ClientClose \/ Read \/ UNCHANGED vars
    <3>1. UNCHANGED <<said, served>>
      BY <2>2 DEF ClientSend, ClientClose, Read, Refill, EndOfInput, StreamFailed, HeaderLine,
                  HeaderEnd, ReadBody, output, vars
    <3>2. /\ main' = "handle" => main = "handle"
          /\ main' \notin {"handle", "dead"} => main \notin {"handle", "dead"}
      BY <2>2 DEF ClientSend, ClientClose, Read, Refill, EndOfInput, StreamFailed, HeaderLine,
                  HeaderEnd, ReadBody, Reading, vars
    <3> QED BY <3>1, <3>2, AnswersKept
  <2>3. CASE Handle
    <3>1. /\ main = "serve" /\ served' = Append(served, Parsed) /\ said' = said
          /\ main' \in {"handle", "dead"}
      BY <2>3 DEF Handle, output
    <3>2. served \in Seq(Nat) /\ Parsed \in Nat /\ said \in Seq([size : Sizes, to : Nat])
      BY <2>1, <3>1, ParsedIs DEF TypeOK, Torn
    <3>3. Len(served) \in Nat /\ Len(served') = Len(served) + 1
      BY <3>1, <3>2
    <3>4. \A k \in DOMAIN said : said[k].to \in Nat /\ said[k].to <= Len(served)
      <4>1. ASSUME NEW k \in DOMAIN said PROVE said[k] \in [size : Sizes, to : Nat]
        <5>1. k \in 1 .. Len(said)
          BY <3>2
        <5> QED BY <3>2, <5>1, ElementOfSeq
      <4>2. \A k \in DOMAIN said : said[k].to \in Nat
        BY <4>1
      <4> QED BY <4>2 DEF AnswersFollow
    <3>5. ASSUME NEW n \in 1 .. Len(served'), n < Len(served')
          PROVE  \E k \in DOMAIN said : said[k].to = n
      <4>1. n \in 1 .. Len(served)
        BY <3>3, <3>5
      <4> QED BY <3>1, <4>1 DEF AnswersFollow
    <3>6. \A j, k \in DOMAIN said' :
            j < k /\ Answering(j)' /\ Answering(k)' => said'[j].to < said'[k].to
      BY <3>1 DEF AnswersFollow, Answering
    <3> QED BY <3>1, <3>3, <3>4, <3>5, <3>6 DEF AnswersFollow
  <2>4. ASSUME NEW w \in Writers, Speak(w) PROVE AnswersFollow'
    <3>1. PICK size \in Sizes : Begin(w, size, Unasked)
      BY <2>4 DEF Speak
    <3> QED BY <2>1, <2>4, <3>1, AnswersGrow DEF Speak, Unasked
  <2>5. CASE Respond
    <3>1. PICK size \in Sizes : Begin("main", size, Len(served))
      BY <2>5 DEF Respond
    <3> QED BY <2>1, <2>5, <3>1, AnswersGrow DEF Respond, TypeOK
  <2>6. ASSUME NEW w \in Writers, Write(w) PROVE AnswersFollow'
    <3>1. UNCHANGED <<said, served>> /\ main \notin Over
      BY <2>6 DEF Write, Writing, Put, Overflow, Flush, GiveUp, Tear, Return
    <3>2. main' \in {main, "dead"} \/ (main = "answer" /\ main' = "header")
      BY <2>6 DEF Write, Put, Overflow, Flush, GiveUp, Tear, Return
    <3> QED BY <3>1, <3>2, AnswersKept DEF Over
  <2> QED BY <2>2, <2>3, <2>4, <2>5, <2>6, StepKinds DEF WriteStep
<1> QED BY <1>1, <1>2, InvAlways, PTL DEF Spec
-----------------------------------------------------------------------------
(* No step of the server is idle. *)

LEMMA ReadWorkType ==
  ASSUME TypeOK
  PROVE  Len(net) \in Nat /\ Len(inbuf) \in Nat /\ Stage \in 0 .. 5
BY DEF TypeOK, Stage

LEMMA ReadWorkTypeNext ==
  ASSUME TypeOK'
  PROVE  Len(net)' \in Nat /\ Len(inbuf)' \in Nat /\ Stage' \in 0 .. 5
BY DEF TypeOK, Stage

LEMMA WriteWorkType ==
  ASSUME TypeOK
  PROVE  \A w \in Writers : /\ todo[w] \in Seq(Byte) /\ Len(todo[w]) \in Nat
                            /\ WorkOf(w) \in Nat
<1>1. SUFFICES ASSUME NEW w \in Writers
               PROVE  todo[w] \in Seq(Byte) /\ Len(todo[w]) \in Nat /\ WorkOf(w) \in Nat
  OBVIOUS
<1>2. todo[w] \in Seq(Byte)
  BY DEF TypeOK
<1>3. Len(todo[w]) \in Nat
  BY <1>2
<1>4. CASE w \in busy
  <2>1. WorkOf(w) = Len(todo[w]) + 1
    BY <1>4 DEF WorkOf
  <2> QED BY <1>2, <1>3, <2>1
<1>5. CASE w \notin busy
  <2>1. WorkOf(w) = Len(todo[w]) + 0
    BY <1>5 DEF WorkOf
  <2> QED BY <1>2, <1>3, <2>1
<1> QED BY <1>4, <1>5

LEMMA WriteWorkTypeNext ==
  ASSUME TypeOK'
  PROVE  \A w \in Writers : WorkOf(w)' \in Nat
<1>1. SUFFICES ASSUME NEW w \in Writers PROVE WorkOf(w)' \in Nat
  OBVIOUS
<1>2. todo'[w] \in Seq(Byte)
  BY DEF TypeOK
<1>3. Len(todo'[w]) \in Nat
  BY <1>2
<1>4. CASE w \in busy'
  <2>1. WorkOf(w)' = Len(todo'[w]) + 1
    BY <1>4 DEF WorkOf
  <2> QED BY <1>3, <2>1
<1>5. CASE w \notin busy'
  <2>1. WorkOf(w)' = Len(todo'[w]) + 0
    BY <1>5 DEF WorkOf
  <2> QED BY <1>3, <2>1
<1> QED BY <1>4, <1>5

\* The reader takes a step on: the bytes it has before it go down, or its stage.
LEMMA ReadAdvances ==
  ASSUME TypeOK, TypeOK', ReaderInv, Read
  PROVE  ReadWork' < ReadWork
<1>1. /\ Len(net) \in Nat /\ Len(inbuf) \in Nat /\ Stage \in 0 .. 5
      /\ Len(net)' \in Nat /\ Len(inbuf)' \in Nat /\ Stage' \in 0 .. 5
      /\ net \in Seq(Byte) /\ inbuf \in Seq(Byte)
  BY ReadWorkType, ReadWorkTypeNext DEF TypeOK
<1>2. CASE Refill
  <2>1. PICK k \in 1 .. Least(BufferSize, Len(net)) :
          inbuf' = SubSeq(net, 1, k) /\ net' = SubSeq(net, k + 1, Len(net))
    BY <1>2 DEF Refill
  <2>2. k \in 1 .. Len(net)
    BY <1>1, <2>1, ConnectionAssumption DEF Least
  <2>3. Len(inbuf)' = k /\ Len(net)' = Len(net) - k
    BY <1>1, <2>1, <2>2
  <2>4. Len(inbuf) = 0 /\ Stage' = Stage
    BY <1>2 DEF Refill, Stage
  <2> QED BY <1>1, <2>2, <2>3, <2>4 DEF ReadWork
<1>3. CASE EndOfInput \/ StreamFailed
  <2>1. UNCHANGED <<net, inbuf>>
    BY <1>3 DEF EndOfInput, StreamFailed, input, reader
  <2>2. Stage' < Stage
    BY <1>3 DEF EndOfInput, StreamFailed, Stage
  <2> QED BY <1>1, <2>1, <2>2 DEF ReadWork
<1>4. CASE HeaderLine \/ HeaderEnd
  <2>1. inbuf # << >> /\ inbuf' = Tail(inbuf) /\ net' = net /\ main = "header"
    BY <1>4 DEF HeaderLine, HeaderEnd, input
  <2>2. Len(inbuf)' = Len(inbuf) - 1 /\ Len(net)' = Len(net) /\ Stage = 1
    BY <1>1, <2>1 DEF Stage
  <2> QED BY <1>1, <2>2 DEF ReadWork
<1>5. CASE ReadBody
  <2> DEFINE n == Least(want - Len(payload), Len(inbuf))
  <2>1. /\ main = "body" /\ inbuf # << >> /\ net' = net /\ main' \in {"serve", "body"}
        /\ inbuf' = SubSeq(inbuf, n + 1, Len(inbuf))
    BY <1>5 DEF ReadBody, input
  <2>2. want \in Nat /\ Len(payload) \in Nat /\ Len(payload) < want
    BY <2>1 DEF TypeOK, ReaderInv, BodyInv
  <2>3. n \in 1 .. Len(inbuf)
    BY <1>1, <2>1, <2>2, EmptySeq DEF Least
  <2> HIDE DEF n
  <2>4. Len(inbuf)' = Len(inbuf) - n /\ Len(net)' = Len(net) /\ Stage' <= Stage
    BY <1>1, <2>1, <2>3 DEF Stage
  <2> QED BY <1>1, <2>3, <2>4 DEF ReadWork
<1> QED BY <1>2, <1>3, <1>4, <1>5 DEF Read

\* A step that leaves the input alone is as far on as its stage says.
LEMMA StageTells ==
  ASSUME TypeOK, TypeOK', UNCHANGED <<net, inbuf>>
  PROVE  /\ Stage' < Stage => ReadWork' < ReadWork
         /\ Stage' = Stage => ReadWork' = ReadWork
         /\ Stage' <= Stage => ~ (ReadWork' > ReadWork)
BY ReadWorkType, ReadWorkTypeNext DEF ReadWork

LEMMA TurnAdvances ==
  ASSUME TypeOK, TypeOK', Handle \/ Respond
  PROVE  ReadWork' < ReadWork
<1>1. UNCHANGED <<net, inbuf>>
  BY DEF Handle, Respond, Begin, input, reader
<1>2. Stage' < Stage
  BY DEF Handle, Respond, Stage
<1> QED BY <1>1, <1>2, StageTells

\* A writer has less to write, or has written its message.
LEMMA WriteAdvances ==
  ASSUME TypeOK, TypeOK', WriterInv, NEW w \in Writers, Write(w)
  PROVE  /\ ReadWork' < ReadWork \/ ReadWork' = ReadWork
         /\ WriteWork' < WriteWork
<1>1. /\ w \in busy /\ main \notin Over /\ UNCHANGED <<net, inbuf>>
      /\ main' \in {main, "dead"} \/ (main = "answer" /\ main' = "header")
  BY DEF Write, Writing, Put, Overflow, Flush, GiveUp, Tear, Return, input, reader
<1>2. ReadWork' < ReadWork \/ ReadWork' = ReadWork
  <2>1. Stage' < Stage \/ Stage' = Stage
    <3>1. CASE main' = main
      BY <3>1 DEF Stage
    <3>2. CASE main' = "dead"
      BY <1>1, <3>2 DEF Stage, Over, TypeOK
    <3>3. CASE main = "answer" /\ main' = "header"
      BY <3>3 DEF Stage
    <3> QED BY <1>1, <3>1, <3>2, <3>3
  <2> QED BY <1>1, <2>1, StageTells
<1>3. /\ \A v \in Writers : todo[v] \in Seq(Byte) /\ Len(todo[v]) \in Nat /\ WorkOf(v) \in Nat
      /\ BufferSize \in Nat /\ Len(outbuf) \in Nat
  <2>1. BufferSize \in Nat /\ outbuf \in Seq(Byte)
    BY ConnectionAssumption DEF TypeOK
  <2>2. Len(outbuf) \in Nat
    BY <2>1
  <2> QED BY <2>1, <2>2, WriteWorkType
<1>4. \A v \in Writers \ {w} : todo'[v] = todo[v] /\ (v \in busy' <=> v \in busy)
  BY DEF Write, Put, Overflow, Flush, GiveUp, Tear, Return, TypeOK
<1>5. \/ w \in busy' /\ Len(todo'[w]) \in Nat /\ Len(todo'[w]) < Len(todo[w])
      \/ w \notin busy' /\ Len(todo'[w]) \in Nat /\ Len(todo'[w]) <= Len(todo[w])
  <2>1. CASE Put(w)
    <3> DEFINE n == Least(BufferSize - Len(outbuf), Len(todo[w]))
    <3>1. /\ todo[w] # << >> /\ Len(outbuf) < BufferSize /\ busy' = busy
          /\ todo'[w] = SubSeq(todo[w], n + 1, Len(todo[w]))
      BY <2>1 DEF Put, TypeOK
    <3>2. n \in 1 .. Len(todo[w])
      BY <1>3, <3>1, EmptySeq DEF Least
    <3> HIDE DEF n
    <3>3. Len(todo'[w]) = Len(todo[w]) - n
      BY <1>3, <3>1, <3>2
    <3> QED BY <1>1, <1>3, <3>1, <3>2, <3>3
  <2>2. CASE Overflow(w) \/ Tear(w)
    <3>1. todo[w] # << >> /\ todo'[w] = Tail(todo[w]) /\ busy' = busy
      BY <2>2 DEF Overflow, Tear, TypeOK
    <3>2. Len(todo'[w]) = Len(todo[w]) - 1 /\ Len(todo[w]) # 0
      BY <1>3, <3>1, EmptySeq
    <3> QED BY <1>1, <1>3, <3>1, <3>2
  <2>3. CASE Flush(w) \/ GiveUp(w)
    <3>1. todo'[w] \in {todo[w], << >>} /\ w \notin busy' /\ Len(<< >>) = 0
      BY <2>3 DEF Flush, GiveUp, Return, TypeOK
    <3> QED BY <1>3, <3>1
  <2> QED BY <2>1, <2>2, <2>3 DEF Write
<1>6. WorkOf(w)' < WorkOf(w) /\ WorkOf(w)' \in Nat
  <2>1. WorkOf(w) = Len(todo[w]) + 1 /\ Len(todo[w]) \in Nat
    BY <1>1, <1>3 DEF WorkOf
  <2>2. CASE w \in busy'
    <3>1. WorkOf(w)' = Len(todo'[w]) + 1
      BY <2>2 DEF WorkOf
    <3> QED BY <1>5, <2>1, <2>2, <3>1
  <2>3. CASE w \notin busy'
    <3>1. WorkOf(w)' = Len(todo'[w]) + 0
      BY <2>3 DEF WorkOf
    <3> QED BY <1>5, <2>1, <2>3, <3>1
  <2> QED BY <2>2, <2>3
<1>7. \A v \in Writers \ {w} : WorkOf(v)' = WorkOf(v)
  BY <1>4 DEF WorkOf
<1>8. WriteWork' < WriteWork
  BY <1>3, <1>6, <1>7 DEF WriteWork, Writers
<1> QED BY <1>2, <1>8

\* The client's other steps and the events give the reader nothing.
LEMMA NoMoreToRead ==
  ASSUME TypeOK, TypeOK',
         ClientClose \/ (\E w \in Writers : Speak(w)) \/ UNCHANGED vars
  PROVE  ~ (ReadWork' > ReadWork)
<1>1. CASE ClientClose
  <2>1. PICK k \in 0 .. Len(net) : net' = SubSeq(net, 1, k)
    BY <1>1 DEF ClientClose
  <2>2. net \in Seq(Byte) /\ Len(net) \in Nat
    BY DEF TypeOK
  <2>3. Len(net)' <= Len(net)
    BY <2>1, <2>2
  <2>4. inbuf' = inbuf /\ Stage' = Stage
    BY <1>1 DEF ClientClose, reader, Stage
  <2> QED BY <2>3, <2>4, ReadWorkType, ReadWorkTypeNext DEF ReadWork
<1>2. CASE (\E w \in Writers : Speak(w)) \/ UNCHANGED vars
  <2>1. UNCHANGED <<net, inbuf, main>>
    BY <1>2 DEF Speak, Begin, input, reader, vars
  <2>2. Stage' = Stage
    BY <2>1 DEF Stage
  <2>3. Stage' <= Stage
    BY <2>2, ReadWorkType
  <2> QED BY <2>1, <2>3, StageTells
<1> QED BY <1>1, <1>2

\* Only a message begun gives a writer more to write.
LEMMA NoMoreToWrite ==
  ASSUME UNCHANGED <<busy, todo>>, TypeOK
  PROVE  ~ (WriteWork' > WriteWork)
<1>1. WriteWork' = WriteWork
  BY DEF WriteWork, WorkOf
<1>2. WriteWork \in Nat
  BY WriteWorkType DEF WriteWork, Writers
<1> QED BY <1>1, <1>2

LEMMA AdvanceStep ==
  ASSUME Inv, Inv', [Next]_vars
  PROVE  /\ Main \/ Write("event") =>
              ReadWork' < ReadWork \/ (ReadWork' = ReadWork /\ WriteWork' < WriteWork)
         /\ ReadWork' > ReadWork => \E f \in Frames : ClientSend(f)
         /\ WriteWork' > WriteWork => Respond \/ \E w \in Writers : Speak(w)
<1>1. TypeOK /\ TypeOK' /\ ReaderInv /\ WriterInv
  BY DEF Inv
<1>2. /\ ReadWork \in Int /\ ReadWork' \in Int /\ WriteWork \in Int
      /\ \A w \in Writers : Write(w) => WriteWork' < WriteWork /\ ~ (WriteWork' > WriteWork)
  <2>1. ReadWork \in Int /\ ReadWork' \in Int
    BY <1>1, ReadWorkType, ReadWorkTypeNext DEF ReadWork
  <2>2. WriteWork \in Int
    BY <1>1, WriteWorkType DEF WriteWork, Writers
  <2>3. WriteWork' \in Int
    BY <1>1, WriteWorkTypeNext DEF WriteWork, Writers
  <2> QED BY <1>1, <2>1, <2>2, <2>3, WriteAdvances
<1>3. Read \/ Handle \/ Respond => ReadWork' < ReadWork
  BY <1>1, ReadAdvances, TurnAdvances
<1>4. \A w \in Writers : Write(w) =>
        ReadWork' < ReadWork \/ (ReadWork' = ReadWork /\ WriteWork' < WriteWork)
  BY <1>1, WriteAdvances
<1>5. Main \/ Write("event") =>
        ReadWork' < ReadWork \/ (ReadWork' = ReadWork /\ WriteWork' < WriteWork)
  BY <1>3, <1>4 DEF Main, Writers
<1>6. ReadWork' > ReadWork => \E f \in Frames : ClientSend(f)
  <2>1. Read \/ Handle \/ Respond \/ (\E w \in Writers : Write(w)) => ~ (ReadWork' > ReadWork)
    BY <1>2, <1>3, <1>4
  <2>2. ClientClose \/ (\E w \in Writers : Speak(w)) \/ UNCHANGED vars => ~ (ReadWork' > ReadWork)
    BY <1>1, NoMoreToRead
  <2> QED BY <2>1, <2>2, StepKinds DEF WriteStep
<1>7. WriteWork' > WriteWork => Respond \/ \E w \in Writers : Speak(w)
  <2>1. CASE (\E f \in Frames : ClientSend(f)) \/ ClientClose \/ Read \/ Handle \/ UNCHANGED vars
    <3>1. UNCHANGED <<busy, todo>>
      BY <2>1 DEF ClientSend, ClientClose, Read, Refill, EndOfInput, StreamFailed, HeaderLine,
                  HeaderEnd, ReadBody, Handle, output, vars
    <3> QED BY <1>1, <3>1, NoMoreToWrite
  <2>2. CASE WriteStep
    BY <1>2, <2>2 DEF WriteStep
  <2> QED BY <2>1, <2>2, StepKinds
<1> QED BY <1>5, <1>6, <1>7

(***************************************************************************)
(* No step of the server is idle, whatever the sizes of the messages and   *)
(* of the buffers: the loops of read_message, send_message, underflow and  *)
(* overflow take the reader or a writer on at every turn, and without more *)
(* frames and events they end, with no appeal to fairness.                 *)
(***************************************************************************)
THEOREM ConnectionAdvances == Spec => Advances
<1>1. Inv /\ Inv' /\ [Next]_vars =>
        [/\ Main \/ Write("event") =>
              ReadWork' < ReadWork \/ (ReadWork' = ReadWork /\ WriteWork' < WriteWork)
         /\ ReadWork' > ReadWork => \E f \in Frames : ClientSend(f)
         /\ WriteWork' > WriteWork => Respond \/ \E w \in Writers : Speak(w)]_vars
  BY AdvanceStep
<1> QED BY <1>1, InvAlways, PTL DEF Spec, Advances

=============================================================================
