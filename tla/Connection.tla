----------------------------- MODULE Connection -----------------------------
(***************************************************************************)
(* One connection, byte by byte: the buffer of socket_stream.cpp between   *)
(* the socket and the streams, read_message and send_message of            *)
(* lib/dap/dap.cpp, the loop of dap::run, and the event sender of main.cpp *)
(* that a detached thread calls while the main thread may be answering.    *)
(*                                                                         *)
(* A frame is a few header lines, a blank line and a body; a header line   *)
(* counts as one byte here, since the reader takes its bytes one by one.   *)
(* A byte is named by the message it belongs to and its place in it, so    *)
(* the model can tell a byte lost, repeated or read as part of another     *)
(* message.  A thread that outlives its connection is the business of      *)
(* RunControl.                                                             *)
(***************************************************************************)
EXTENDS Integers, Sequences

CONSTANTS
  BufferSize,  \* buffer_size, of the input and of the output buffer
  Frames,      \* the frames a client may send
  Sizes,       \* the sizes a message of the server may have
  MaxFrames,   \* bound on the frames sent
  MaxEvents    \* bound on the events sent

\* length is what Content-Length says: NaN when stoi or std::string throws.
NaN   == -1
Frame == [fields : Seq({"length", "field"}), length : Nat \cup {NaN},
          throws : BOOLEAN]   \* its handler lets an exception out

ASSUME ConnectionAssumption ==
  /\ BufferSize \in Nat \ {0} /\ Frames \subseteq Frame
  /\ Sizes \subseteq Nat \ {0} /\ MaxFrames \in Nat /\ MaxEvents \in Nat

VARIABLES
  sent,        \* the frames the client has sent
  closed,      \* the client has closed its end
  net,         \* bytes sent and not read from the socket
  inbuf,       \* in_buffer_ from gptr to egptr
  in_ok,       \* the state of the input stream
  main,        \* what the main thread is doing, "ended" or "dead" at last
  header, payload, want,   \* locals of read_message
  served,      \* what handle_message was given: a request's number, or Torn
  said,        \* the messages the server has begun to write: size, and answer to
  busy, todo,  \* the threads that are writing, and what they have left
  outbuf,      \* out_buffer_ from pbase to pptr
  out_ok,      \* the state of the output stream
  s2c,         \* bytes written to the socket, recorded until raced
  raced        \* two threads have been writing at once

input  == <<sent, closed, net>>
reader == <<inbuf, in_ok, header, payload, want>>
output == <<said, busy, todo, outbuf, out_ok, s2c, raced>>
vars   == <<input, reader, main, served, output>>

Torn    == 0   \* served: no request of the client
Unasked == 0   \* said: no answer to a request, but an event
Over    == {"ended", "dead"}
Writers == {"main", "event"}

Least(i, j) == IF i <= j THEN i ELSE j

\* The bytes of frame m, and what the byte t is.
Body(m)  == [i \in 1 .. sent[m].length |-> [m |-> m, at |-> Len(sent[m].fields) + 1 + i]]
Size(f)  == Len(f.fields) + 1 + (IF f.length = NaN THEN 0 ELSE f.length)
Bytes(n, k) == [i \in 1 .. k |-> [m |-> n, at |-> i]]
Kind(t)  == LET fields == sent[t.m].fields IN
            IF t.at <= Len(fields) THEN fields[t.at]
            ELSE IF t.at = Len(fields) + 1 THEN "blank" ELSE "body"

-----------------------------------------------------------------------------
Init ==
  /\ sent = << >> /\ closed = FALSE /\ net = << >>
  /\ inbuf = << >> /\ in_ok = TRUE /\ header = << >> /\ payload = << >> /\ want = 0
  /\ main = "header" /\ served = << >>
  /\ said = << >> /\ busy = {} /\ todo = [w \in Writers |-> << >>]
  /\ outbuf = << >> /\ out_ok = TRUE /\ s2c = << >> /\ raced = FALSE

(* The client. *)
ClientSend(f) ==
  /\ ~closed /\ main \notin Over /\ Len(sent) < MaxFrames
  /\ sent' = Append(sent, f)
  /\ net' = net \o Bytes(Len(sent) + 1, Size(f))
  /\ UNCHANGED <<closed, reader, main, served, output>>

\* What is still under way may be lost from some byte on.
ClientClose ==
  /\ ~closed /\ closed' = TRUE
  /\ \E k \in 0 .. Len(net) : net' = SubSeq(net, 1, k)
  /\ UNCHANGED <<sent, reader, main, served, output>>

-----------------------------------------------------------------------------
(* The reader: underflow, read_message and run. *)

Reading == main \in {"header", "body"} /\ in_ok

\* One read of the socket returns as many bytes as have arrived, at least one.
Refill ==
  /\ Reading /\ inbuf = << >>
  /\ \E k \in 1 .. Least(BufferSize, Len(net)) :
       inbuf' = SubSeq(net, 1, k) /\ net' = SubSeq(net, k + 1, Len(net))
  /\ UNCHANGED <<sent, closed, in_ok, header, payload, want, main, served, output>>

\* Mutant: a read that would block counts as the end of the input.
EndOfInputAtOnce ==
  /\ Reading /\ inbuf = << >> /\ net = << >>
  /\ \/ main = "header" /\ main' = "ended" /\ in_ok' = in_ok
     \/ main = "body" /\ main' = "serve" /\ in_ok' = FALSE
  /\ UNCHANGED <<input, inbuf, header, payload, want, served, output>>

\* A header ends the connection; a body stays padded with zero bytes.
EndOfInput ==
  /\ Reading /\ inbuf = << >> /\ net = << >> /\ closed
  /\ \/ main = "header" /\ main' = "ended" /\ in_ok' = in_ok
     \/ main = "body" /\ main' = "serve" /\ in_ok' = FALSE
  /\ UNCHANGED <<input, inbuf, header, payload, want, served, output>>

\* The stream that has failed is not read again: an empty message ends run.
StreamFailed ==
  /\ main = "header" /\ ~in_ok
  /\ main' = "ended"
  /\ UNCHANGED <<input, reader, served, output>>

HeaderLine ==
  /\ main = "header" /\ Reading /\ inbuf # << >> /\ Kind(Head(inbuf)) # "blank"
  /\ header' = Append(header, Head(inbuf)) /\ inbuf' = Tail(inbuf)
  /\ UNCHANGED <<input, in_ok, payload, want, main, served, output>>

\* The length the header gives: that of its first "Content-Length:".
LengthLines == {i \in DOMAIN header : Kind(header[i]) = "length"}
ContentLength ==
  sent[header[CHOOSE i \in LengthLines : \A j \in LengthLines : i <= j].m].length

\* Without a length, or with length 0, the message is empty and run returns;
\* with no number, or a negative one, an exception leaves main.
HeaderEnd ==
  /\ main = "header" /\ Reading /\ inbuf # << >> /\ Kind(Head(inbuf)) = "blank"
  /\ inbuf' = Tail(inbuf) /\ header' = << >> /\ payload' = << >>
  /\ IF LengthLines = {} \/ ContentLength = 0 THEN main' = "ended" /\ want' = 0
     ELSE IF ContentLength = NaN THEN main' = "dead" /\ want' = 0
     ELSE main' = "body" /\ want' = ContentLength
  /\ UNCHANGED <<input, in_ok, served, output>>

\* Mutant: one read of the buffer is taken for the whole body.
ReadBodyOnce ==
  /\ main = "body" /\ Reading /\ inbuf # << >>
  /\ LET n == Least(want - Len(payload), Len(inbuf)) IN
     /\ payload' = payload \o SubSeq(inbuf, 1, n)
     /\ inbuf' = SubSeq(inbuf, n + 1, Len(inbuf))
  /\ main' = "serve"
  /\ UNCHANGED <<input, in_ok, header, want, served, output>>

\* Mutant: all that is in the buffer is taken.
ReadBodyAll ==
  /\ main = "body" /\ Reading /\ inbuf # << >>
  /\ payload' = payload \o inbuf /\ inbuf' = << >>
  /\ main' = IF Len(payload') >= want THEN "serve" ELSE "body"
  /\ UNCHANGED <<input, in_ok, header, want, served, output>>

\* in.read copies what is in the buffer and fills it again until it has all.
ReadBody ==
  /\ main = "body" /\ Reading /\ inbuf # << >>
  /\ LET n == Least(want - Len(payload), Len(inbuf)) IN
     /\ payload' = payload \o SubSeq(inbuf, 1, n)
     /\ inbuf' = SubSeq(inbuf, n + 1, Len(inbuf))
  /\ main' = IF Len(payload') = want THEN "serve" ELSE "body"
  /\ UNCHANGED <<input, in_ok, header, want, served, output>>

\* The request a payload is: a body with bytes missing does not parse.
Parsed == IF payload # << >> /\ \E m \in DOMAIN sent : payload = Body(m)
            THEN CHOOSE m \in DOMAIN sent : payload = Body(m) ELSE Torn

\* handle_message: a payload that does not parse is answered all the same.
Handle ==
  /\ main = "serve"
  /\ served' = Append(served, Parsed)
  /\ main' = IF Parsed # Torn /\ sent[Parsed].throws THEN "dead" ELSE "handle"
  /\ UNCHANGED <<input, reader, output>>

-----------------------------------------------------------------------------
(* The writers: send_message, the event sender, overflow and sync. *)

Begin(w, size, to) ==
  /\ w \notin busy /\ busy' = busy \cup {w}
  /\ said' = Append(said, [size |-> size, to |-> to])
  /\ todo' = [todo EXCEPT ![w] = Bytes(Len(said) + 1, size)]
  /\ raced' = (raced \/ busy # {})
  /\ UNCHANGED <<input, reader, served, outbuf, out_ok, s2c>>

\* A thread, or a handler before it answers, sends an event.
Speak(w) ==
  /\ main \notin Over /\ (w = "main" => main = "handle")
  /\ Len(SelectSeq(said, LAMBDA s : s.to = Unasked)) < MaxEvents
  /\ \E size \in Sizes : Begin(w, size, Unasked)
  /\ main' = main

Respond ==
  /\ main = "handle" /\ main' = "answer"
  /\ \E size \in Sizes : Begin("main", size, Len(served))

Writing(w) == w \in busy /\ main \notin Over

\* All bytes given are sent.
Deliver(bytes) == s2c' = IF raced THEN s2c ELSE s2c \o bytes

\* What fits into the buffer is copied at once.
Put(w) ==
  /\ Writing(w) /\ out_ok /\ todo[w] # << >> /\ Len(outbuf) < BufferSize
  /\ LET n == Least(BufferSize - Len(outbuf), Len(todo[w])) IN
     /\ outbuf' = outbuf \o SubSeq(todo[w], 1, n)
     /\ todo' = [todo EXCEPT ![w] = SubSeq(@, n + 1, Len(@))]
  /\ UNCHANGED <<input, reader, main, served, said, busy, out_ok, s2c, raced>>

\* Mutant: overflow empties the buffer and forgets the character.
OverflowForgets(w) ==
  /\ Writing(w) /\ out_ok /\ todo[w] # << >> /\ Len(outbuf) >= BufferSize
  /\ todo' = [todo EXCEPT ![w] = Tail(@)]
  /\ Deliver(outbuf) /\ outbuf' = << >>
  /\ UNCHANGED <<input, reader, main, served, said, busy, out_ok, raced>>

\* The buffer is full: the character is stored past its end, then all is sent.
\* Whatever lies there may survive that or not; a closed socket may refuse.
Overflow(w) ==
  /\ Writing(w) /\ out_ok /\ todo[w] # << >> /\ Len(outbuf) >= BufferSize
  /\ todo' = [todo EXCEPT ![w] = Tail(@)]
  /\ LET all == Append(outbuf, Head(todo[w])) IN
     \/ Deliver(all) /\ outbuf' = << >> /\ UNCHANGED <<out_ok, main>>
     \/ closed /\ out_ok' = FALSE /\ outbuf' = all /\ UNCHANGED <<s2c, main>>
     \/ main' = "dead" /\ outbuf' = all /\ UNCHANGED <<s2c, out_ok>>
  /\ UNCHANGED <<input, reader, served, said, busy, raced>>

Return(w) ==
  /\ busy' = busy \ {w}
  /\ main' = IF w = "main" /\ main = "answer" THEN "header" ELSE main
  /\ UNCHANGED <<input, reader, served, said, raced>>

\* Mutant: the message stays in the buffer.
FlushNever(w) ==
  /\ Writing(w) /\ out_ok /\ todo[w] = << >>
  /\ Return(w)
  /\ UNCHANGED <<todo, outbuf, out_ok, s2c>>

\* The flush at the end of a message.
Flush(w) ==
  /\ Writing(w) /\ out_ok /\ todo[w] = << >>
  /\ \/ Deliver(outbuf) /\ outbuf' = << >> /\ out_ok' = out_ok
     \/ closed /\ outbuf # << >> /\ out_ok' = FALSE /\ UNCHANGED <<s2c, outbuf>>
  /\ Return(w) /\ todo' = todo

\* On a stream that has failed, what is left to write goes nowhere.
GiveUp(w) ==
  /\ Writing(w) /\ ~out_ok
  /\ todo' = [todo EXCEPT ![w] = << >>]
  /\ Return(w)
  /\ UNCHANGED <<outbuf, out_ok, s2c>>

\* Both threads move the buffer's pointers at once: what one has copied the
\* other overwrites, or a copy runs out of bounds.
Tear(w) ==
  /\ busy = Writers /\ Writing(w) /\ out_ok /\ todo[w] # << >>
  /\ todo' = [todo EXCEPT ![w] = Tail(@)] /\ main' \in {main, "dead"}
  /\ UNCHANGED <<input, reader, served, said, busy, outbuf, out_ok, s2c, raced>>

Write(w) == Put(w) \/ Overflow(w) \/ Flush(w) \/ GiveUp(w) \/ Tear(w)

Read == \/ Refill \/ EndOfInput \/ StreamFailed
        \/ HeaderLine \/ HeaderEnd \/ ReadBody

\* The connection is over: nothing happens any more.
Gone == main \in Over /\ UNCHANGED vars

Main == Read \/ Handle \/ Respond \/ Write("main")

Next ==
  \/ \E f \in Frames : ClientSend(f)
  \/ ClientClose
  \/ \E w \in Writers : Speak(w)
  \/ Main \/ Write("event")
  \/ Gone

Spec == Init /\ [][Next]_vars

\* Both threads run; the client owes the server nothing.
FairSpec == Spec /\ WF_vars(Main) /\ WF_vars(Write("event"))

-----------------------------------------------------------------------------
(* Properties. *)

Byte == [m : Nat \ {0}, at : Nat \ {0}]

TypeOK ==
  /\ sent \in Seq(Frames) /\ closed \in BOOLEAN /\ net \in Seq(Byte)
  /\ inbuf \in Seq(Byte) /\ Len(inbuf) <= BufferSize
  /\ in_ok \in BOOLEAN /\ header \in Seq(Byte) /\ payload \in Seq(Byte)
  /\ want \in Nat /\ Len(payload) <= want
  /\ main \in Over \cup {"header", "body", "serve", "handle", "answer"}
  /\ served \in Seq(Nat)
  /\ said \in Seq([size : Sizes, to : Nat])
  /\ busy \subseteq Writers /\ todo \in [Writers -> Seq(Byte)]
  /\ outbuf \in Seq(Byte) /\ Len(outbuf) <= BufferSize + 1
  /\ out_ok \in BOOLEAN /\ s2c \in Seq(Byte) /\ raced \in BOOLEAN

\* In a stream of messages of these sizes, the byte u comes after the byte t.
Follows(sizes, t, u) ==
  IF t.at < sizes[t.m] THEN u = [m |-> t.m, at |-> t.at + 1]
                       ELSE u = [m |-> t.m + 1, at |-> 1]

Seamless(sizes, s) == \A i \in 1 .. Len(s) - 1 : Follows(sizes, s[i], s[i + 1])

FrameSizes == [m \in DOMAIN sent |-> Size(sent[m])]
SaidSizes  == [k \in DOMAIN said |-> said[k].size]

(***************************************************************************)
(* The next byte the reader expects: the header's or the body's next one,  *)
(* or, between messages, the first of the next.                            *)
(***************************************************************************)
Expected ==
  LET m == Len(served) + 1 IN
  CASE main = "header" -> [m |-> m, at |-> Len(header) + 1]
    [] main = "body"   -> [m |-> m, at |-> Len(sent[m].fields) + 2 + Len(payload)]
    [] main = "serve"  -> [m |-> m + 1, at |-> 1]
    [] OTHER           -> [m |-> m, at |-> 1]

(***************************************************************************)
(* The reader never loses its place: what is in the buffer and on the way  *)
(* is the client's stream from the very byte the reader expects, without a *)
(* gap and, while the client is there, up to the last byte it sent, at     *)
(* whatever byte the socket, the buffer and the bodies divide it.          *)
(***************************************************************************)
InStep ==
  LET rest == inbuf \o net IN
  main \notin Over /\ in_ok =>
    /\ rest # << >> => rest[1] = Expected
    /\ Seamless(FrameSizes, rest)
    /\ ~closed /\ rest = << >> => Expected = [m |-> Len(sent) + 1, at |-> 1]
    /\ ~closed /\ rest # << >> =>
         rest[Len(rest)] = [m |-> Len(sent), at |-> Size(sent[Len(sent)])]

(***************************************************************************)
(* Unless two threads wrote at once, what the client gets is the server's  *)
(* messages whole, one after the other, through any number of overflows of *)
(* a buffer smaller than they are; once a write has failed nothing follows *)
(* what was sent.                                                          *)
(***************************************************************************)
Left == IF "main" \in busy THEN todo["main"]
        ELSE IF "event" \in busy THEN todo["event"] ELSE << >>

WholeFrames ==
  LET all == s2c \o outbuf \o Left IN
  ~raced =>
    /\ Seamless(SaidSizes, s2c) /\ (s2c # << >> => s2c[1] = [m |-> 1, at |-> 1])
    /\ out_ok /\ main # "dead" =>
         /\ Seamless(SaidSizes, all)
         /\ all = << >> => said = << >>
         /\ all # << >> => /\ all[1] = [m |-> 1, at |-> 1]
                           /\ all[Len(all)] =
                                [m |-> Len(said), at |-> said[Len(said)].size]

(***************************************************************************)
(* No message waits in the buffer for the next one: once its writer has    *)
(* gone the client has it, so a client that sends nothing until it has its *)
(* answer is not left waiting.                                             *)
(***************************************************************************)
NothingHeldBack == busy = {} /\ out_ok => outbuf = << >>

(***************************************************************************)
(* A connection ends, and a process dies, for no other reason than these:  *)
(* the client has closed or sent a frame without a length the reader can   *)
(* use; a length or a handler threw; a message passed the end of the       *)
(* buffer; two threads wrote at once.                                      *)
(***************************************************************************)
Unusable(f) == f.length = 0 \/ \A i \in DOMAIN f.fields : f.fields[i] # "length"

EndsForCause ==
  /\ main = "ended" =>
       \/ closed
       \/ Len(served) < Len(sent) /\ Unusable(sent[Len(served) + 1])
  /\ main = "dead" =>
       \/ Len(served) < Len(sent) /\ sent[Len(served) + 1].length = NaN
       \/ served # << >> /\ served[Len(served)] # Torn /\ sent[served[Len(served)]].throws
       \/ Len(outbuf) > BufferSize
       \/ raced

(***************************************************************************)
(* The connection as its users see it (RequestStream): requests are served *)
(* once each and in order, and a torn one only when the client has closed. *)
(***************************************************************************)
Stream == INSTANCE RequestStream
            WITH asked <- Len(sent), open <- ~closed, served <- served
StreamSpec == Stream!Spec

(***************************************************************************)
(* The answers the server writes are to the requests served, each once and *)
(* in their order, whatever events other threads write between them: all   *)
(* are answered but, at most, the one whose handler is running or threw.   *)
(***************************************************************************)
Answering(k) == said[k].to # Unasked

AnswersFollow ==
  /\ \A k \in DOMAIN said : said[k].to <= Len(served)
  /\ \A j, k \in DOMAIN said :
       j < k /\ Answering(j) /\ Answering(k) => said[j].to < said[k].to
  /\ \A n \in 1 .. Len(served) :
       n < Len(served) \/ main \notin {"handle", "dead"} =>
         \E k \in DOMAIN said : said[k].to = n
  /\ main = "handle" =>
       \A k \in DOMAIN said : Answering(k) => said[k].to < Len(served)

\* How much the reader has before it, and the writers: bytes on the way count
\* twice, since the buffer passes them on, and a byte may be a whole request.
Stage == CASE main = "body"   -> 5
           [] main = "serve"  -> 4
           [] main = "handle" -> 3
           [] main = "answer" -> 2
           [] main = "header" -> 1
           [] OTHER           -> 0
ReadWork  == 5 * (2 * Len(net) + Len(inbuf)) + Stage
WorkOf(w) == Len(todo[w]) + (IF w \in busy THEN 1 ELSE 0)
WriteWork == WorkOf("main") + WorkOf("event")

(***************************************************************************)
(* No step of the server is idle: each takes the reader a step on through  *)
(* what the client sent, or else a writer through its message, and neither *)
(* gets more to do but from the client's next frame, the next event and    *)
(* the next answer.  The loops that read and write a message end, however  *)
(* the socket and the buffers divide it.                                   *)
(***************************************************************************)
Advances ==
  [][/\ Main \/ Write("event") =>
          ReadWork' < ReadWork \/ (ReadWork' = ReadWork /\ WriteWork' < WriteWork)
     /\ ReadWork' > ReadWork => \E f \in Frames : ClientSend(f)
     /\ WriteWork' > WriteWork => Respond \/ \E w \in Writers : Speak(w)]_vars

(***************************************************************************)
(* Every frame sent is answered, byte by byte through both buffers, unless *)
(* the client closes or the connection ends first.                         *)
(***************************************************************************)
Answered(n) ==
  \E k \in DOMAIN said :
    /\ said[k].to = n
    /\ \E i \in DOMAIN s2c : s2c[i] = [m |-> k, at |-> said[k].size]

FramesAnswered ==
  \A n \in 1 .. MaxFrames :
    Len(sent) >= n ~> Answered(n) \/ closed \/ main \in Over \/ raced

(***************************************************************************)
(* The invariants behind these: where the reader is and what it has read   *)
(* so far, what was served, and what the writers have still to send.       *)
(***************************************************************************)
Known(s) == \A i \in DOMAIN s : /\ s[i].m \in DOMAIN sent
                                /\ s[i].at \in 1 .. Size(sent[s[i].m])

HeaderInv ==
  LET m == Len(served) + 1 IN
  /\ main = "header" =>
       /\ \A i \in DOMAIN header : header[i] = [m |-> m, at |-> i]
       /\ header # << >> => m \in DOMAIN sent /\ Len(header) <= Len(sent[m].fields)
  /\ main \notin Over \cup {"header"} => header = << >>

BodyInv ==
  LET m == Len(served) + 1 IN
  /\ main \in {"body", "serve"} =>
       /\ m \in DOMAIN sent /\ want = sent[m].length /\ want > 0
       /\ \A i \in DOMAIN payload :
            payload[i] = [m |-> m, at |-> Len(sent[m].fields) + 1 + i]
       /\ Len(payload) < want <=> main = "body" \/ ~in_ok
  /\ main = "body" => in_ok

ServedInv ==
  /\ \A i \in DOMAIN served : served[i] \in {i, Torn}
  /\ Len(served) <= Len(sent)
  /\ ~in_ok => closed
  /\ (\E i \in DOMAIN served : served[i] = Torn) => ~in_ok /\ main \notin {"body", "serve"}

ReaderInv == Known(inbuf \o net) /\ InStep /\ HeaderInv /\ BodyInv /\ ServedInv

WriterInv ==
  /\ main # "dead" /\ out_ok => Len(outbuf) <= BufferSize
  /\ busy = Writers => raced
  /\ \A w \in Writers \ busy : todo[w] = << >>
  /\ NothingHeldBack
=============================================================================
