----------------------- MODULE RunControlSafetyProofs -----------------------
(***************************************************************************)
(* What TLAPS proves of RunControl for a patient client, one that resumes  *)
(* only a stopped program and closes only with every response and the stop *)
(* it waits for, whichever of launch and configurationDone it sends first: *)
(* it has one stop at a time under way, the one it waits for, the program  *)
(* is halted whenever it was told so, and no thread outlives its session.  *)
(***************************************************************************)
EXTENDS RunControlProofs

-----------------------------------------------------------------------------
(* One stop at a time, for a patient client. *)

\* The requests after one was sent, read off the requests before.
LEMMA SendCases ==
  ASSUME TypeOK, NEW cmd, NEW arg, [cmd |-> cmd, arg |-> arg] \in Request,
         Send(cmd, arg)
  PROVE  /\ \A i \in 1..Len(c2s') :
              \/ i \in 1..Len(c2s) /\ c2s'[i] = c2s[i]
              \/ i = Len(c2s) + 1 /\ c2s'[i].cmd = cmd
         /\ \A i \in 1..Len(c2s) :
              i \in 1..Len(c2s') /\ c2s'[i] = c2s[i] /\ i < Len(c2s) + 1
         /\ Len(c2s) + 1 \in 1..Len(c2s') /\ c2s'[Len(c2s) + 1].cmd = cmd
BY SendAdds

\* A request that makes no event, sent.
LEMMA SendQuietStep ==
  ASSUME TypeOK, PatientInv, Habits \subseteq {"configFirst"}, Ready,
         NEW cmd, NEW arg, [cmd |-> cmd, arg |-> arg] \in Request, Send(cmd, arg),
         cmd \notin EventCmds, cmd = "launch" => "launch" \notin asked,
         waits' = waits, told' = told
  PROVE  PatientInv'
<1> USE DEF PatientInv
<1>1. /\ conn = "open" /\ conn' = conn /\ s2c' = s2c /\ mpc' = mpc /\ req' = req
      /\ timer' = timer /\ event_seq' = event_seq /\ mseq' = mseq
      /\ heardSeq' = heardSeq /\ asked' = asked \cup ({cmd} \cap Once)
      /\ launched' = launched
  BY DEF Send, locals, session
<1>2. "initialize" \in asked
  BY DEF Ready, Answered
<1>3. NothingLeftBehind'
  BY <1>1 DEF NothingLeftBehind
<1>4. ServesWaiting'
  BY <1>1, SendCases DEF ServesWaiting, InRequest, InMain, InThread, InEvent,
     StopAnswersRequest
<1>5. AtMostOneStop'
  BY <1>1, SendCases DEF AtMostOneStop, InRequest, InMain, InThread, InEvent
<1>6. RequestOrder'
  BY <1>1, <1>2 DEF RequestOrder, EventCmds
<1>7. LaunchFirst'
  <2>1. NothingRan => NothingRan'
    BY <1>1 DEF NothingRan, InThread, InEvent
  <2>2. cmd = "launch" =>
          NothingRan /\ \A i \in 1..Len(c2s) : c2s[i].cmd # "launch"
    BY <1>1 DEF LaunchFirst
  <2>3. \A i, j \in 1..Len(c2s') :
          c2s'[i].cmd = "launch" /\ c2s'[j].cmd = "launch" => i = j
    BY <2>2, SendCases DEF LaunchFirst
  <2>4. \A i \in 1..Len(c2s') :
          c2s'[i].cmd = "launch" => "launch" \in asked' /\ NothingRan
    BY <1>1, <2>2, SendCases DEF LaunchFirst, Once
  <2>5. conn' = "open" /\ "launch" \notin asked' => NothingRan
    BY <1>1 DEF LaunchFirst
  <2> QED
    BY <2>1, <2>3, <2>4, <2>5 DEF LaunchFirst
<1>8. CounterHeld'
  BY <1>1 DEF CounterHeld, EventSeqsIncrease, InEvent
<1> QED
  BY <1>3, <1>4, <1>5, <1>6, <1>7, <1>8

\* A request that makes an event, sent by a client that waits for none.
LEMMA SendEventStep ==
  ASSUME TypeOK, PatientInv, Habits \subseteq {"configFirst"},
         NEW cmd \in EventCmds, [cmd |-> cmd, arg |-> {}] \in Request, Send(cmd, {}),
         waits = "none", waits' = cmd, ~told',
         \/ cmd = "initialize" /\ asked = {}
         \/ cmd = "configurationDone" /\ Ready
         \/ cmd \in Resumes /\ Ready /\ told
  PROVE  PatientInv'
<1> USE DEF PatientInv
<1>1. /\ conn = "open" /\ conn' = conn /\ s2c' = s2c /\ mpc' = mpc /\ req' = req
      /\ timer' = timer /\ event_seq' = event_seq /\ mseq' = mseq
      /\ heardSeq' = heardSeq /\ asked' = asked \cup ({cmd} \cap Once)
      /\ launched' = launched
  BY DEF Send, locals, session
<1>2. /\ ~InMain /\ \A t \in Timer : ~InThread(t)
      /\ \A i \in 1..Len(s2c) : ~InEvent(i)
      /\ \A i \in 1..Len(c2s) : ~InRequest(i)
  <2>1. "none" \notin EventCmds
    BY DEF EventCmds, Resumes
  <2>2. InMain => req.cmd \in EventCmds
    BY DEF ServesWaiting, InMain, EventCmds, Resumes
  <2> QED
    BY <2>1, <2>2 DEF ServesWaiting, StopAnswersRequest, InRequest
<1>3. NothingLeftBehind'
  BY <1>1 DEF NothingLeftBehind
<1>4. ServesWaiting'
  BY <1>1, <1>2, SendCases DEF ServesWaiting, InRequest, InMain, InThread, InEvent,
     StopAnswersRequest
<1>5. AtMostOneStop'
  <2>1. \A i \in 1..Len(c2s') : c2s'[i].cmd \in EventCmds => i = Len(c2s) + 1
    BY <1>2, SendCases DEF InRequest
  <2> QED
    BY <1>1, <1>2, <2>1 DEF AtMostOneStop, InRequest, InMain, InThread, InEvent
<1>6. RequestOrder'
  BY <1>1 DEF RequestOrder, EventCmds, Resumes, Once, Ready, Answered
<1>7. LaunchFirst'
  <2>1. NothingRan => NothingRan'
    BY <1>1 DEF NothingRan, InThread, InEvent, EventCmds, Resumes
  <2>2. cmd # "launch"
    BY DEF EventCmds, Resumes
  <2>3. \A i, j \in 1..Len(c2s') :
          c2s'[i].cmd = "launch" /\ c2s'[j].cmd = "launch" => i = j
    BY <2>2, SendCases DEF LaunchFirst
  <2>4. \A i \in 1..Len(c2s') :
          c2s'[i].cmd = "launch" => "launch" \in asked' /\ NothingRan
    BY <1>1, <2>2, SendCases DEF LaunchFirst
  <2>5. conn' = "open" /\ "launch" \notin asked' => NothingRan
    BY <1>1 DEF LaunchFirst
  <2> QED
    BY <2>1, <2>3, <2>4, <2>5 DEF LaunchFirst
<1>8. CounterHeld'
  BY <1>1 DEF CounterHeld, EventSeqsIncrease, InEvent
<1> QED
  BY <1>3, <1>4, <1>5, <1>6, <1>7, <1>8

\* The messages left when the client has read one.
LEMMA HearShifts ==
  ASSUME TypeOK, ClientHear
  PROVE  /\ Len(s2c) \in Nat /\ Len(s2c') = Len(s2c) - 1 /\ 1 \in 1..Len(s2c)
         /\ \A i \in 1..Len(s2c') :
              i + 1 \in 1..Len(s2c) /\ s2c'[i] = s2c[i + 1] /\ i + 1 # 1
         /\ Head(s2c) = s2c[1] /\ s2c[1] \in Message
BY TailFacts DEF TypeOK, ChannelTypes, ClientHear

\* The client reads a message.
LEMMA HearStep ==
  ASSUME TypeOK, PatientInv, Habits \subseteq {"configFirst"}, ClientHear
  PROVE  PatientInv'
<1> USE DEF PatientInv
<1>1. /\ conn = "open" /\ conn' = conn /\ c2s' = c2s /\ mpc' = mpc /\ req' = req
      /\ timer' = timer /\ event_seq' = event_seq /\ mseq' = mseq /\ asked' = asked
      /\ launched' = launched
  BY DEF ClientHear, locals, session
<1>2. CASE s2c[1].kind = "event"
  <2>1. /\ heardSeq' = s2c[1].seq /\ waits' = "none"
        /\ told' = (told \/ s2c[1].what # "initialized")
    BY <1>2, HearShifts DEF ClientHear
  <2>2. /\ ~InMain /\ \A t \in Timer : ~InThread(t)
        /\ \A i \in 1..Len(s2c') : ~InEvent(i)'
        /\ \A i \in 1..Len(c2s) : ~InRequest(i)
    BY <1>2, HearShifts DEF AtMostOneStop, InEvent
  <2>3. /\ waits # "none" /\ s2c[1].what = EventOf(waits)
        /\ heardSeq < s2c[1].seq /\ s2c[1].seq < event_seq
    BY <1>1, <1>2, HearShifts DEF ServesWaiting, StopAnswersRequest, InEvent,
       CounterHeld, EventSeqsIncrease
  <2>4. NothingLeftBehind'
    BY <1>1 DEF NothingLeftBehind, InThread
  <2>5. ServesWaiting'
    BY <1>1, <2>2 DEF ServesWaiting, StopAnswersRequest, InMain, InThread, InRequest
  <2>6. AtMostOneStop'
    BY <1>1, <2>2 DEF AtMostOneStop, InMain, InThread, InRequest
  <2>7. RequestOrder'
    BY <1>1, <2>1, <2>3 DEF RequestOrder, EventOf
  <2>8. LaunchFirst'
    <3>1. ASSUME NothingRan
          PROVE  NothingRan'
      <4>1. s2c[1].what = "initialized"
        BY <1>2, <3>1, HearShifts DEF NothingRan, InEvent
      <4> QED
        BY <1>1, <2>1, <2>2, <3>1, <4>1 DEF NothingRan, InThread, Resumes
    <3> QED
      BY <1>1, <3>1 DEF LaunchFirst
  <2>9. CounterHeld'
    BY <1>1, <2>1, <2>2, <2>3 DEF CounterHeld, EventSeqsIncrease, InMain, InThread
  <2> QED
    BY <2>4, <2>5, <2>6, <2>7, <2>8, <2>9
<1>3. CASE s2c[1].kind # "event"
  <2>1. UNCHANGED <<heardSeq, waits, told>>
    BY <1>3, HearShifts DEF ClientHear
  <2>2. \A i \in 1..Len(s2c') : i + 1 \in 1..Len(s2c) /\ s2c'[i] = s2c[i + 1]
    BY HearShifts
  <2>3. NothingLeftBehind'
    BY <1>1 DEF NothingLeftBehind
  <2>4. ServesWaiting'
    BY <1>1, <2>1, <2>2 DEF ServesWaiting, StopAnswersRequest, InMain, InThread,
       InRequest, InEvent
  <2>5. AtMostOneStop'
    <3>1. \A i, j \in 1..Len(s2c') : InEvent(i)' /\ InEvent(j)' => i = j
      BY <2>2, HearShifts DEF AtMostOneStop, InEvent
    <3>2. \A i \in 1..Len(s2c') : InEvent(i)' => \E k \in 1..Len(s2c) : InEvent(k)
      BY <2>2 DEF InEvent
    <3> QED
      BY <1>1, <3>1, <3>2 DEF AtMostOneStop, InMain, InThread, InRequest
  <2>6. RequestOrder' /\ LaunchFirst'
    <3>1. NothingRan => NothingRan'
      BY <1>1, <2>1, <2>2 DEF NothingRan, InThread, InEvent
    <3> QED
      BY <1>1, <2>1, <3>1 DEF RequestOrder, LaunchFirst
  <2>7. CounterHeld'
    BY <1>1, <2>1, <2>2 DEF CounterHeld, EventSeqsIncrease, InEvent
  <2> QED
    BY <2>3, <2>4, <2>5, <2>6, <2>7
<1> QED
  BY <1>2, <1>3

\* When the client waits for nothing more there is nothing left in the server: a
\* thread would owe it a stop, a request read or unread would owe it a response.
LEMMA SettledQuiet ==
  ASSUME TypeOK, PatientInv, OrderInv, conn = "open", Settled
  PROVE  Quiet
<1>1. \A t \in Timer : timer[t].st = "free"
  BY DEF Settled, PatientInv, ServesWaiting, InThread
<1>2. Len(c2s) = 0 /\ Serving = 0
  <2>1. Cardinality(Answers(s2c)) \in Nat
    BY AnswersCount DEF TypeOK, ChannelTypes
  <2>2. 0 = Cardinality(Answers(s2c)) + Serving + Len(c2s)
    BY DEF Settled, OrderInv, ResponsesInOrder
  <2>3. Serving \in {0, 1} /\ Len(c2s) \in Nat
    BY DEF Serving, TypeOK, ChannelTypes
  <2> QED
    BY <2>1, <2>2, <2>3
<1>3. mpc = "read"
  BY <1>2 DEF Serving, OrderInv
<1> QED
  BY <1>1, <1>2, <1>3 DEF Quiet, TypeOK, ChannelTypes

\* A patient client closes, and a new connection is made, with nothing under way.
LEMMA SessionEndsStep ==
  ASSUME TypeOK, PatientInv, OrderInv, Habits \subseteq {"configFirst"},
         ClientClose \/ Accept \/ EndSession
  PROVE  PatientInv'
<1>1. CASE ClientClose
  <2>0. Quiet
    BY <1>1, SettledQuiet DEF ClientClose
  <2>1. /\ c2s' = <<>> /\ s2c' = <<>> /\ mpc = "read" /\ mpc' = mpc /\ timer' = timer
        /\ conn = "open" /\ conn' = "closed" /\ asked' = {} /\ waits' = "none"
        /\ ~told' /\ heardSeq' = 0 /\ \A t \in Timer : timer[t].st = "free"
    BY <1>1, <2>0 DEF ClientClose, Quiet
  <2> QED
    BY <2>1 DEF PatientInv, NothingLeftBehind, ServesWaiting, StopAnswersRequest,
       AtMostOneStop, RequestOrder, LaunchFirst, CounterHeld, EventSeqsIncrease,
       InRequest, InMain, InThread, InEvent
<1>2. CASE Accept
  <2>1. /\ c2s' = <<>> /\ s2c' = <<>> /\ mpc' = "read" /\ timer' = timer
        /\ conn' = "open" /\ asked' = {} /\ waits' = "none" /\ event_seq' = 1
        /\ ~told' /\ heardSeq' = 0 /\ \A t \in Timer : timer[t].st = "free"
        /\ ~launched'
    BY <1>2 DEF Accept, NewSession, client, PatientInv, NothingLeftBehind, InThread
  <2> QED
    BY <2>1 DEF PatientInv, NothingLeftBehind, ServesWaiting, StopAnswersRequest,
       AtMostOneStop, RequestOrder, LaunchFirst, CounterHeld, EventSeqsIncrease,
       NothingRan, Resumes,
       InRequest, InMain, InThread, InEvent
<1>3. CASE EndSession
  <2>1. /\ c2s' = <<>> /\ s2c' = <<>> /\ mpc' = "accept" /\ conn' = "none"
        /\ asked' = {} /\ waits' = "none" /\ ~told' /\ heardSeq' = 0
        /\ \A t \in Timer : timer[t].st = "free" /\ timer'[t] = timer[t]
    BY <1>3 DEF EndSession, NewSession, client, PatientInv, NothingLeftBehind, InThread
  <2> QED
    BY <2>1 DEF PatientInv, NothingLeftBehind, ServesWaiting, StopAnswersRequest,
       AtMostOneStop, RequestOrder, LaunchFirst, CounterHeld, EventSeqsIncrease,
       InRequest, InMain, InThread, InEvent
<1> QED
  BY <1>1, <1>2, <1>3

\* While a request is taken, the session is open and the client owes nothing new.
LEMMA TakeFacts ==
  ASSUME TypeOK, PatientInv, NEW cmds, Take(cmds)
  PROVE  /\ conn = "open" /\ conn' = conn /\ asked' = asked /\ waits' = waits
         /\ told' = told /\ heardSeq' = heardSeq /\ s2c' = s2c
         /\ event_seq' = event_seq /\ mseq' = mseq /\ mpc = "read" /\ ~InMain
         /\ \A i \in 1..Len(c2s') :
              i + 1 \in 1..Len(c2s) /\ c2s'[i] = c2s[i + 1] /\ i + 1 # 1
         /\ Len(c2s') = Len(c2s) - 1 /\ Len(c2s) \in Nat
<1>1. conn # "none" /\ c2s # <<>> /\ conn \in {"none", "open", "closed"}
  BY DEF Take, PatientInv, NothingLeftBehind, TypeOK, ChannelTypes
<1>2. conn = "open"
  BY <1>1 DEF PatientInv, NothingLeftBehind
<1> QED
  BY <1>2, TakeShifts DEF Take, client, InMain

\* Taking a request, whatever is done with it, keeps what holds of the rest.
LEMMA TakeKeeps ==
  ASSUME TypeOK, PatientInv, Habits \subseteq {"configFirst"}, NEW cmds, Take(cmds),
         NothingRan => NothingRan' \/ cmds = {"launch"}
  PROVE  /\ RequestOrder' /\ LaunchFirst'
         /\ \A i \in 1..Len(c2s') : InRequest(i)' => c2s'[i].cmd = waits'
         /\ \A i, j \in 1..Len(c2s') : InRequest(i)' /\ InRequest(j)' => i = j
<1>1. RequestOrder'
  BY TakeFacts DEF PatientInv, RequestOrder
<1>2. \A i \in 1..Len(c2s') : InRequest(i)' => c2s'[i].cmd = waits'
  BY TakeFacts DEF PatientInv, ServesWaiting, InRequest
<1>3. \A i, j \in 1..Len(c2s') : InRequest(i)' /\ InRequest(j)' => i = j
  BY TakeFacts DEF PatientInv, AtMostOneStop, InRequest
<1>4. LaunchFirst'
  <2>1. ASSUME NEW i \in 1..Len(c2s'), NEW j \in 1..Len(c2s'),
               c2s'[i].cmd = "launch", c2s'[j].cmd = "launch"
        PROVE  i = j
    <3>1. /\ i + 1 \in 1..Len(c2s) /\ c2s[i + 1].cmd = "launch"
          /\ j + 1 \in 1..Len(c2s) /\ c2s[j + 1].cmd = "launch"
      BY <2>1, TakeFacts
    <3>2. i + 1 = j + 1
      BY <3>1 DEF PatientInv, LaunchFirst
    <3> QED
      BY <3>2, TakeFacts
  <2>2. CASE NothingRan => NothingRan'
    BY <2>1, <2>2, TakeFacts DEF PatientInv, LaunchFirst
  <2>3. CASE cmds = {"launch"}
    <3>1. 1 \in 1..Len(c2s) /\ c2s[1].cmd = "launch"
      BY <2>3, TakeShifts
    <3>2. \A i \in 1..Len(c2s') : c2s'[i].cmd # "launch"
      BY <3>1, TakeFacts DEF PatientInv, LaunchFirst
    <3> QED
      BY <3>1, <3>2, TakeFacts DEF PatientInv, LaunchFirst
  <2> QED
    BY <2>2, <2>3
<1> QED
  BY <1>1, <1>2, <1>3, <1>4

\* A request taken starts nothing in a session whose launch is still to come.
LEMMA TakeRunsNothing ==
  ASSUME TypeOK, PatientInv, NEW cmds, Take(cmds), NothingRan,
         timer' = timer, launched' = launched \/ ~launched'
  PROVE  NothingRan'
BY TakeFacts DEF NothingRan, InThread, InEvent

\* A request that makes no event is served.
LEMMA TakeQuietStep ==
  ASSUME TypeOK, PatientInv, Habits \subseteq {"configFirst"}, NEW cmds, Take(cmds),
         mpc' = "reply", timer' = timer,
         launched' = launched \/ ~launched' \/ cmds = {"launch"}
  PROVE  PatientInv'
<1>1. NothingRan => NothingRan' \/ cmds = {"launch"}
  BY TakeRunsNothing
<1>2. NothingLeftBehind'
  BY TakeFacts DEF PatientInv, NothingLeftBehind
<1>3. ServesWaiting'
  BY <1>1, TakeFacts, TakeKeeps DEF PatientInv, ServesWaiting, InMain, InThread, InEvent,
     StopAnswersRequest
<1>4. AtMostOneStop'
  <2>1. \A i \in 1..Len(c2s') : InRequest(i)' => \E k \in 1..Len(c2s) : InRequest(k)
    BY TakeFacts DEF InRequest
  <2> QED
    BY <1>1, <2>1, TakeFacts, TakeKeeps DEF PatientInv, AtMostOneStop, InMain, InThread,
       InEvent
<1>5. CounterHeld'
  BY TakeFacts DEF PatientInv, CounterHeld, EventSeqsIncrease, InEvent
<1> QED
  BY <1>1, <1>2, <1>3, <1>4, <1>5, TakeKeeps DEF PatientInv

\* A request whose event the handler makes, or a thread it starts, is served.
LEMMA TakeEventStep ==
  ASSUME TypeOK, PatientInv, Habits \subseteq {"configFirst"}, NEW cmds, Take(cmds),
         cmds \subseteq EventCmds, launched' = launched,
         \/ /\ timer' = timer
            /\ \/ mpc' = "run" /\ cmds = {"continue"}
               \/ mpc' = "step" /\ cmds = {"next"}
               \/ mpc' = "load" /\ cmds \subseteq {"initialize", "stepIn", "stepOut"}
         \/ /\ StartThread("entry") /\ launched
            /\ mpc' = "reply" /\ cmds = {"configurationDone"}
  PROVE  PatientInv'
<1>1. /\ \A t \in Timer : ~InThread(t)
      /\ \A i \in 1..Len(s2c) : ~InEvent(i)
      /\ \A i \in 1..Len(c2s') : ~InRequest(i)'
      /\ req'.cmd = waits /\ req'.cmd \in cmds
  BY TakeFacts, TakeShifts DEF PatientInv, AtMostOneStop, ServesWaiting, InRequest
<1>2. \A i \in 1..Len(s2c') : ~InEvent(i)'
  BY <1>1, TakeFacts DEF InEvent
<1>3. NothingRan => NothingRan'
  BY TakeRunsNothing DEF NothingRan
<1>4. CASE timer' = timer /\ mpc' \in {"run", "step", "load"}
  <2>1. NothingLeftBehind'
    BY <1>4, TakeFacts DEF PatientInv, NothingLeftBehind
  <2>2. ServesWaiting'
    BY <1>1, <1>2, <1>4, TakeFacts DEF ServesWaiting, InThread, StopAnswersRequest
  <2>3. AtMostOneStop'
    BY <1>1, <1>2, <1>4 DEF AtMostOneStop, InThread
  <2>4. CounterHeld'
    BY <1>2, <1>4, TakeFacts DEF PatientInv, CounterHeld, EventSeqsIncrease
  <2> QED
    BY <1>3, <2>1, <2>2, <2>3, <2>4, TakeKeeps DEF PatientInv
<1>5. CASE StartThread("entry") /\ mpc' = "reply" /\ cmds = {"configurationDone"}
  <2>1. PICK t \in Timer : timer' = [timer EXCEPT ![t] = Sleeping("entry")]
    BY <1>5 DEF StartThread
  <2>2. \A u \in Timer : timer'[u] = IF u = t THEN Sleeping("entry") ELSE timer[u]
    BY <2>1 DEF TypeOK
  <2>3. NothingLeftBehind'
    BY <1>5, <2>2, TakeFacts DEF PatientInv, NothingLeftBehind, Sleeping
  <2>4. ServesWaiting'
    BY <1>1, <1>2, <1>5, <2>2, TakeFacts DEF ServesWaiting, InThread, InMain,
       StopAnswersRequest, Sleeping, EventOf
  <2>5. AtMostOneStop'
    BY <1>1, <1>2, <1>5, <2>2 DEF AtMostOneStop, InThread, InMain
  <2>6. CounterHeld'
    BY <1>2, <1>5, <2>2, TakeFacts DEF PatientInv, CounterHeld, EventSeqsIncrease,
       Sleeping
  <2> QED
    BY <1>3, <2>3, <2>4, <2>5, <2>6, TakeKeeps DEF PatientInv
<1> QED
  BY <1>4, <1>5

\* A step inside a handler that touches neither events nor threads.
LEMMA InsideStep ==
  ASSUME TypeOK, PatientInv,
         UNCHANGED <<conn, client, c2s, s2c, launched, event_seq, mpc, req, mseq, timer>>
  PROVE  PatientInv'
BY DEF PatientInv, NothingLeftBehind, ServesWaiting, StopAnswersRequest,
   AtMostOneStop, RequestOrder, LaunchFirst, NothingRan, CounterHeld, EventSeqsIncrease,
   InRequest, InMain, InThread, InEvent, client

\* continue or next returns and, unless it used up its budget, starts a thread.
LEMMA ReturnStep ==
  ASSUME TypeOK, PatientInv, Habits \subseteq {"configFirst"}, ContinueReturn \/ NextReturn
  PROVE  PatientInv'
<1>1. /\ mpc' = "reply" /\ mpc \in {"run", "step"}
      /\ UNCHANGED <<conn, client, c2s, s2c, event_seq, req, mseq>>
      /\ \/ timer' = timer
         \/ StartThread("breakpoint") /\ mpc = "run"
         \/ StartThread("step") /\ mpc = "step"
  BY DEF ContinueReturn, NextReturn, Inside
<1>2. /\ conn = "open" /\ InMain
      /\ \A t \in Timer : ~InThread(t)
      /\ \A i \in 1..Len(s2c) : ~InEvent(i)
      /\ \A i \in 1..Len(c2s) : ~InRequest(i)
      /\ waits = IF mpc = "run" THEN "continue" ELSE "next"
  BY <1>1 DEF PatientInv, NothingLeftBehind, AtMostOneStop, ServesWaiting, InMain,
     TypeOK, ChannelTypes
<1>3. RequestOrder' /\ LaunchFirst'
  <2>1. ~NothingRan
    BY <1>1, <1>2 DEF NothingRan, Resumes
  <2> QED
    BY <1>1, <1>2, <2>1 DEF PatientInv, RequestOrder, LaunchFirst, client
<1>4. CASE timer' = timer
  BY <1>1, <1>2, <1>3, <1>4 DEF PatientInv, NothingLeftBehind, ServesWaiting,
     StopAnswersRequest, AtMostOneStop, CounterHeld, EventSeqsIncrease,
     InRequest, InMain, InThread, InEvent, client
<1>5. ASSUME NEW why \in {"breakpoint", "step"}, StartThread(why),
             why = EventOf(waits)
      PROVE  PatientInv'
  <2>1. PICK t \in Timer : timer' = [timer EXCEPT ![t] = Sleeping(why)]
    BY <1>5 DEF StartThread
  <2>2. \A u \in Timer : timer'[u] = IF u = t THEN Sleeping(why) ELSE timer[u]
    BY <2>1 DEF TypeOK
  <2>3. NothingLeftBehind'
    BY <1>1, <1>2, <2>2 DEF PatientInv, NothingLeftBehind, Sleeping, client
  <2>4. ServesWaiting'
    BY <1>1, <1>2, <1>5, <2>2 DEF ServesWaiting, InThread, InMain, InRequest, InEvent,
       StopAnswersRequest, Sleeping, client
  <2>5. AtMostOneStop'
    BY <1>1, <1>2, <2>2 DEF AtMostOneStop, InThread, InMain, InRequest, InEvent
  <2>6. CounterHeld'
    BY <1>1, <1>2, <2>2 DEF PatientInv, CounterHeld, EventSeqsIncrease, InEvent,
       Sleeping, client
  <2> QED
    BY <1>3, <2>3, <2>4, <2>5, <2>6 DEF PatientInv
<1>6. EventOf("continue") = "breakpoint" /\ EventOf("next") = "step"
  BY DEF EventOf
<1> QED
  BY <1>1, <1>2, <1>4, <1>5, <1>6

\* The handler's own event: counted, then sent.
LEMMA MainEventStep ==
  ASSUME TypeOK, PatientInv, Habits \subseteq {"configFirst"}, MainLoad \/ MainStore \/ MainEmit
  PROVE  PatientInv'
<1>1. /\ mpc \in {"load", "store", "emit"} /\ timer' = timer
      /\ UNCHANGED <<conn, client, c2s, req, launched>>
  BY DEF MainLoad, MainStore, MainEmit, Inside, session
<1>2. /\ conn = "open" /\ req.cmd = waits
      /\ \A t \in Timer : ~InThread(t)
      /\ \A i \in 1..Len(s2c) : ~InEvent(i)
      /\ \A i \in 1..Len(c2s) : ~InRequest(i)
  BY <1>1 DEF PatientInv, NothingLeftBehind, AtMostOneStop, ServesWaiting, InMain,
     TypeOK, ChannelTypes
<1>3. RequestOrder'
  BY <1>1 DEF PatientInv, RequestOrder, client
<1>4. CASE MainLoad \/ MainStore
  <2>1. s2c' = s2c /\ mpc' \in {"store", "emit"}
    BY <1>4 DEF MainLoad, MainStore
  <2>2. NothingLeftBehind' /\ ServesWaiting' /\ AtMostOneStop'
    BY <1>1, <1>2, <2>1 DEF PatientInv, NothingLeftBehind, ServesWaiting,
       StopAnswersRequest, AtMostOneStop, InRequest, InMain, InThread, InEvent, client
  <2>3. CounterHeld'
    <3>1. heardSeq' = heardSeq /\ heardSeq < event_seq /\ conn' = conn
      BY <1>1, <1>2 DEF PatientInv, CounterHeld, client
    <3>2. CASE MainLoad
      BY <1>1, <1>2, <2>1, <3>1, <3>2 DEF CounterHeld, EventSeqsIncrease, InEvent,
         InThread, MainLoad
    <3>3. CASE MainStore
      <4>1. mpc' = "emit" /\ event_seq' = mseq + 1 /\ mseq' = mseq /\ mseq = event_seq
        BY <3>3 DEF MainStore, PatientInv, CounterHeld, Inside
      <4>2. heardSeq \in Nat /\ mseq \in Nat
        BY DEF TypeOK, MainTypes, ClientTypes
      <4> QED
        BY <1>1, <1>2, <2>1, <3>1, <4>1, <4>2 DEF CounterHeld, EventSeqsIncrease,
           InEvent, InThread
    <3> QED
      BY <1>4, <3>2, <3>3
  <2>4. LaunchFirst'
    <3>1. NothingRan => NothingRan'
      BY <1>1, <1>2, <2>1 DEF NothingRan, InThread, InEvent, client
    <3> QED
      BY <1>1, <3>1 DEF PatientInv, LaunchFirst, client
  <2> QED
    BY <1>3, <2>2, <2>3, <2>4 DEF PatientInv
<1>5. CASE MainEmit
  <2>1. /\ Emit(Event(EventOf(waits), mseq, FALSE)) /\ mpc' = "reply"
        /\ event_seq' = event_seq /\ mseq + 1 = event_seq /\ heardSeq < mseq
        /\ mpc = "emit"
    BY <1>2, <1>5 DEF MainEmit, PatientInv, CounterHeld, Inside
  <2>2. Event(EventOf(waits), mseq, FALSE) \in Message
    BY EventType DEF TypeOK, MainTypes
  <2>3. /\ \A i \in 1..Len(s2c') : InEvent(i)' => i = Len(s2c) + 1
        /\ s2c'[Len(s2c) + 1] = Event(EventOf(waits), mseq, FALSE)
    <3>1. /\ Len(s2c) \in Nat /\ Len(s2c') = Len(s2c) + 1
          /\ \A i \in 1..Len(s2c) : s2c'[i] = s2c[i]
          /\ s2c'[Len(s2c) + 1] = Event(EventOf(waits), mseq, FALSE)
      BY <1>2, <2>1, <2>2, EmitAdds
    <3>2. ASSUME NEW i \in 1..Len(s2c'), i # Len(s2c) + 1
          PROVE  ~InEvent(i)'
      BY <1>2, <3>1, <3>2 DEF InEvent
    <3> QED
      BY <3>1, <3>2
  <2>4. waits # "none"
    BY <1>1, <1>2 DEF PatientInv, ServesWaiting
  <2>5. NothingLeftBehind' /\ ServesWaiting'
    BY <1>1, <1>2, <2>1, <2>3, <2>4 DEF PatientInv, NothingLeftBehind, ServesWaiting,
       StopAnswersRequest, InRequest, InMain, InThread, client, Event
  <2>6. AtMostOneStop'
    BY <1>1, <1>2, <2>1, <2>3 DEF AtMostOneStop, InRequest, InMain, InThread
  <2>7. CounterHeld'
    BY <1>1, <1>2, <2>1, <2>3 DEF PatientInv, CounterHeld, EventSeqsIncrease, InThread,
       client, Event, TypeOK, MainTypes
  <2>8. LaunchFirst'
    <3>1. NothingRan => waits = "initialize"
      BY <1>1, <1>2 DEF PatientInv, ServesWaiting, NothingRan, Resumes
    <3>2. NothingRan => NothingRan'
      BY <1>1, <1>2, <2>3, <3>1 DEF NothingRan, InThread, Event, EventOf, client
    <3> QED
      BY <1>1, <3>2 DEF PatientInv, LaunchFirst, client
  <2> QED
    BY <1>3, <2>5, <2>6, <2>7, <2>8 DEF PatientInv
<1> QED
  BY <1>4, <1>5

\* A response is sent.
LEMMA ReplyStep ==
  ASSUME TypeOK, PatientInv, Habits \subseteq {"configFirst"}, MainReply
  PROVE  PatientInv'
<1>1. /\ mpc = "reply" /\ mpc' = "read" /\ timer' = timer /\ mseq' = mseq
      /\ UNCHANGED <<conn, client, c2s, launched, event_seq>>
      /\ Emit(Response(req.cmd))
  BY DEF MainReply, Inside, session
<1>2. conn = "open"
  BY <1>1 DEF PatientInv, NothingLeftBehind, TypeOK, ChannelTypes
<1>3. Response(req.cmd) \in Message
  BY DEF TypeOK, MainTypes, Request, Response, Message, Commands, Once, Resumes, Events
<1>4. \A i \in 1..Len(s2c') : InEvent(i)' =>
        i \in 1..Len(s2c) /\ InEvent(i) /\ s2c'[i] = s2c[i]
  BY <1>1, <1>2, <1>3, EmitAdds DEF InEvent, Response
<1>5. NothingLeftBehind' /\ RequestOrder'
  BY <1>1, <1>2 DEF PatientInv, NothingLeftBehind, RequestOrder, client
<1>6. ServesWaiting'
  BY <1>1, <1>4 DEF PatientInv, ServesWaiting, StopAnswersRequest, InRequest, InMain,
     InThread, client
<1>7. AtMostOneStop'
  BY <1>1, <1>4 DEF PatientInv, AtMostOneStop, InRequest, InMain, InThread
<1>8. CounterHeld'
  BY <1>1, <1>4 DEF PatientInv, CounterHeld, EventSeqsIncrease, client
<1>9. LaunchFirst'
  <2>1. NothingRan => NothingRan'
    BY <1>1, <1>4 DEF NothingRan, InThread, client
  <2> QED
    BY <1>1, <2>1 DEF PatientInv, LaunchFirst, client
<1> QED
  BY <1>5, <1>6, <1>7, <1>8, <1>9 DEF PatientInv

\* A detached thread counts and sends its event.
LEMMA TimerInvStep ==
  ASSUME TypeOK, PatientInv, Habits \subseteq {"configFirst"}, NEW t \in Timer, TimerStep(t)
  PROVE  PatientInv'
<1>1. /\ InThread(t) /\ UNCHANGED <<conn, client, c2s, mpc, req, mseq>>
      /\ timer[t].life = "own"
  BY DEF TimerStep, TimerLoad, TimerStore, TimerSend, InThread, PatientInv,
     NothingLeftBehind
<1>2. /\ conn = "open" /\ ~InMain
      /\ \A u \in Timer : InThread(u) => u = t
      /\ \A i \in 1..Len(s2c) : ~InEvent(i)
      /\ \A i \in 1..Len(c2s) : ~InRequest(i)
      /\ waits # "none" /\ timer[t].why = EventOf(waits)
  BY <1>1 DEF PatientInv, NothingLeftBehind, AtMostOneStop, ServesWaiting
<1>3. RequestOrder' /\ LaunchFirst'
  <2>1. ~NothingRan
    BY <1>1 DEF NothingRan
  <2> QED
    BY <1>1, <1>2, <2>1 DEF PatientInv, RequestOrder, LaunchFirst, client
<1>4. timer \in [Timer -> Thread] /\ heardSeq \in Nat /\ heardSeq < event_seq
  BY <1>2 DEF TypeOK, ClientTypes, PatientInv, CounterHeld
<1>5. CASE TimerLoad(t) \/ TimerStore(t)
  <2>1. /\ s2c' = s2c /\ \A u \in Timer : u # t => timer'[u] = timer[u]
        /\ timer'[t].life = timer[t].life /\ timer'[t].why = timer[t].why
    BY <1>4, <1>5 DEF TimerLoad, TimerStore, Thread
  <2>2. NothingLeftBehind' /\ ServesWaiting' /\ AtMostOneStop'
    BY <1>1, <1>2, <2>1 DEF PatientInv, NothingLeftBehind, ServesWaiting,
       StopAnswersRequest, AtMostOneStop, InRequest, InMain, InThread, InEvent, client
  <2>3. /\ heardSeq' < event_seq'
        /\ timer'[t].st = "loaded" => timer'[t].seq = event_seq'
        /\ timer'[t].st = "stored" =>
             timer'[t].seq + 1 = event_seq' /\ heardSeq' < timer'[t].seq
    <3>1. CASE TimerLoad(t)
      BY <1>1, <1>4, <3>1 DEF TimerLoad, Thread, client
    <3>2. CASE TimerStore(t)
      <4>1. timer[t].st = "loaded" /\ timer[t].seq = event_seq
        BY <3>2 DEF TimerStore, PatientInv, CounterHeld
      <4>2. timer'[t].seq = timer[t].seq /\ event_seq' = timer[t].seq + 1
            /\ timer'[t].st = "stored" /\ timer[t].seq \in Nat
        BY <1>4, <3>2 DEF TimerStore, Thread
      <4> QED
        BY <1>1, <1>4, <4>1, <4>2 DEF client
    <3> QED
      BY <1>5, <3>1, <3>2
  <2>4. CounterHeld'
    BY <1>1, <1>2, <2>1, <2>3 DEF CounterHeld, EventSeqsIncrease, InMain, InThread,
       InEvent, client
  <2> QED
    BY <1>3, <2>2, <2>4 DEF PatientInv
<1>6. CASE TimerSend(t)
  <2>1. /\ Emit(Event(EventOf(waits), timer[t].seq, FALSE))
        /\ \A u \in Timer : timer'[u] = IF u = t THEN Free ELSE timer[u]
        /\ event_seq' = event_seq /\ timer[t].st = "stored"
    BY <1>1, <1>2, <1>4, <1>6 DEF TimerSend
  <2>2. timer[t].seq + 1 = event_seq /\ heardSeq < timer[t].seq
        /\ timer[t].seq \in Nat
    BY <1>4, <2>1 DEF PatientInv, CounterHeld, Thread
  <2>3. Event(EventOf(waits), timer[t].seq, FALSE) \in Message
    BY <2>2, EventType
  <2>4. /\ \A i \in 1..Len(s2c') : InEvent(i)' => i = Len(s2c) + 1
        /\ s2c'[Len(s2c) + 1] = Event(EventOf(waits), timer[t].seq, FALSE)
    <3>1. /\ Len(s2c) \in Nat /\ Len(s2c') = Len(s2c) + 1
          /\ \A i \in 1..Len(s2c) : s2c'[i] = s2c[i]
          /\ s2c'[Len(s2c) + 1] = Event(EventOf(waits), timer[t].seq, FALSE)
      BY <1>2, <2>1, <2>3, EmitAdds
    <3>2. ASSUME NEW i \in 1..Len(s2c'), i # Len(s2c) + 1
          PROVE  ~InEvent(i)'
      BY <1>2, <3>1, <3>2 DEF InEvent
    <3> QED
      BY <3>1, <3>2
  <2>5. \A u \in Timer : ~InThread(u)'
    BY <1>2, <2>1 DEF InThread, Free
  <2>6. NothingLeftBehind'
    BY <1>1, <1>2, <2>1 DEF PatientInv, NothingLeftBehind, client, Free
  <2>7. ServesWaiting'
    BY <1>1, <1>2, <2>4, <2>5 DEF PatientInv, ServesWaiting, StopAnswersRequest,
       InRequest, InMain, client, Event
  <2>8. AtMostOneStop'
    BY <1>1, <1>2, <2>4, <2>5 DEF AtMostOneStop, InRequest, InMain
  <2>9. CounterHeld'
    BY <1>1, <1>2, <1>4, <2>1, <2>2, <2>4, <2>5 DEF CounterHeld, EventSeqsIncrease,
       InMain, InThread, client, Event
  <2> QED
    BY <1>3, <2>6, <2>7, <2>8, <2>9 DEF PatientInv
<1> QED
  BY <1>5, <1>6 DEF TimerStep

\* The invariant of a patient client's session is inductive.
LEMMA PatientStep ==
  Habits \subseteq {"configFirst"} /\ TypeOK /\ OrderInv /\ PatientInv /\ [Next]_vars
    => PatientInv'
<1> SUFFICES ASSUME Habits \subseteq {"configFirst"}, TypeOK, OrderInv, PatientInv, [Next]_vars
             PROVE  PatientInv'
  OBVIOUS
<1>1. CASE ClientInitialize
  <2>1. asked = {} /\ ~told /\ waits = "none"
    BY <1>1 DEF ClientInitialize, PatientInv, RequestOrder
  <2> QED
    BY <1>1, <2>1, SendEventStep DEF ClientInitialize, Request, Once, EventCmds
<1>2. CASE ClientLaunch
  <2>1. PICK arg \in LaunchArgs : Send("launch", arg)
    BY <1>2 DEF ClientLaunch
  <2> QED
    BY <1>2, <2>1, SendQuietStep DEF ClientLaunch, Request, EventCmds, Resumes
<1>3. CASE ClientConfigurationDone
  <2>1. ~told
    BY <1>3 DEF ClientConfigurationDone, PatientInv, RequestOrder
  <2> QED
    BY <1>3, <2>1, SendEventStep DEF ClientConfigurationDone, Request, Once, EventCmds
<1>4. CASE ClientResume
  <2>1. PICK cmd \in Resumes : Send(cmd, {}) /\ waits' = cmd
    BY <1>4 DEF ClientResume
  <2>2. told /\ waits = "none" /\ Ready /\ ~told'
    BY <1>4 DEF ClientResume
  <2> QED
    BY <2>1, <2>2, SendEventStep DEF Request, EventCmds
<1>5. CASE ClientSetBreakpoints
  <2>1. PICK lines \in SUBSET Line : Send("setBreakpoints", lines)
    BY <1>5 DEF ClientSetBreakpoints
  <2> QED
    BY <1>5, <2>1, SendQuietStep DEF ClientSetBreakpoints, Request, EventCmds, Resumes
<1>6. CASE ClientSetInstructionBreakpoints
  <2>1. PICK addrs \in SUBSET InstrBreakable :
          Send("setInstructionBreakpoints", addrs)
    BY <1>6 DEF ClientSetInstructionBreakpoints
  <2> QED
    BY <1>6, <2>1, SendQuietStep DEF ClientSetInstructionBreakpoints, Request,
       EventCmds, Resumes
<1>7. CASE ClientQuery
  BY <1>7, SendQuietStep DEF ClientQuery, Request, EventCmds, Resumes
<1>8. CASE ClientDisconnect
  BY <1>8, SendQuietStep DEF ClientDisconnect, Request, Once, EventCmds, Resumes
<1>9. CASE ClientHear
  BY <1>9, HearStep
<1>10. CASE ClientClose \/ Accept \/ EndSession
  BY <1>10, SessionEndsStep
<1>11. CASE \/ LaunchRequest \/ SetBreakpointsRequest \/ QueryRequest
            \/ SetInstructionBreakpointsRequest \/ DisconnectRequest
  BY <1>11, TakeQuietStep DEF LaunchRequest, SetBreakpointsRequest, QueryRequest,
     SetInstructionBreakpointsRequest, DisconnectRequest, session
<1>12. CASE ConfigurationDoneRequest
  BY <1>12, TakeQuietStep, TakeEventStep DEF ConfigurationDoneRequest, EventCmds
<1>13. CASE InitializeRequest
  BY <1>13, TakeEventStep DEF InitializeRequest, session, EventCmds
<1>14. CASE StepRequest
  BY <1>14, TakeEventStep DEF StepRequest, EventCmds, Resumes
<1>15. CASE ContinueRequest
  BY <1>15, TakeEventStep DEF ContinueRequest, session, EventCmds, Resumes
<1>16. CASE NextRequest
  BY <1>16, TakeEventStep DEF NextRequest, session, EventCmds, Resumes
<1>17. CASE ContinueStep \/ NextStep
  BY <1>17, InsideStep DEF ContinueStep, NextStep, Inside
<1>18. CASE ContinueReturn \/ NextReturn
  BY <1>18, ReturnStep
<1>19. CASE MainLoad \/ MainStore \/ MainEmit
  BY <1>19, MainEventStep
<1>20. CASE MainReply
  BY <1>20, ReplyStep
<1>21. ASSUME NEW t \in Timer, TimerStep(t)
       PROVE  PatientInv'
  BY <1>21, TimerInvStep
<1>22. ASSUME NEW t \in Timer
       PROVE  ~Orphan(t)
  BY DEF Orphan, OrphanCrash, OrphanVanish, OrphanAdopted, PatientInv,
     NothingLeftBehind
<1>23. CASE UNCHANGED vars
  BY <1>23, InsideStep DEF vars, session
<1> QED
  BY <1>1, <1>2, <1>3, <1>4, <1>5, <1>6, <1>7, <1>8, <1>9, <1>10, <1>11, <1>12,
     <1>13, <1>14, <1>15, <1>16, <1>17, <1>18, <1>19, <1>20, <1>21, <1>22, <1>23
     DEF Next, Client, Main

\* What the invariant is for.
LEMMA PatientInvImplies ==
  ASSUME TypeOK, PatientInv
  PROVE  AtMostOneStop /\ StoppedMeansHalted /\ StopAnswersRequest /\ EventSeqsIncrease
<1>1. StoppedMeansHalted
  <2> SUFFICES ASSUME conn = "open", told, waits = "none"
               PROVE  /\ mpc \notin {"run", "step"}
                      /\ \A i \in 1..Len(c2s) : c2s[i].cmd \notin Resumes \cup {"launch"}
    BY DEF StoppedMeansHalted
  <2>1. mpc \notin {"run", "step"}
    BY DEF PatientInv, ServesWaiting, InMain
  <2>2. \A i \in 1..Len(c2s) : c2s[i].cmd \notin Resumes
    BY DEF PatientInv, ServesWaiting, InRequest, EventCmds, Resumes
  <2> QED
    BY <2>1, <2>2 DEF PatientInv, LaunchFirst, NothingRan
<1> QED
  BY <1>1 DEF PatientInv, ServesWaiting, CounterHeld

(***************************************************************************)
(* The inductive invariant of the stop protocol holds of every session of  *)
(* a patient client, for every program, budget and number of threads.      *)
(***************************************************************************)
THEOREM PatientCorrect ==
  ASSUME Habits \subseteq {"configFirst"}
  PROVE  Spec => []PatientInv
<1>1. Init => PatientInv
  BY DEF Init, PatientInv, NothingLeftBehind, ServesWaiting, StopAnswersRequest,
     AtMostOneStop, RequestOrder, LaunchFirst, CounterHeld, EventSeqsIncrease,
     InRequest, InMain, InThread, InEvent, Free
<1>2. TypeOK /\ OrderInv /\ PatientInv /\ [Next]_vars => PatientInv'
  BY PatientStep
<1> QED
  BY <1>1, <1>2, TypeCorrect, OrderCorrect, PTL DEF Spec

(***************************************************************************)
(* However long the handlers and the detached threads take, a client that  *)
(* resumes only a stopped program has one stop under way, never two.       *)
(***************************************************************************)
THEOREM OneStopAtATime ==
  ASSUME Habits \subseteq {"configFirst"}
  PROVE  Spec => []AtMostOneStop
<1>1. PatientInv => AtMostOneStop
  BY DEF PatientInv
<1> QED
  BY <1>1, PatientCorrect, PTL

(***************************************************************************)
(* A program the client was told is stopped is halted, and no request that *)
(* would move its program counter is in the socket or being served.        *)
(***************************************************************************)
THEOREM StoppedIsHalted ==
  ASSUME Habits \subseteq {"configFirst"}
  PROVE  Spec => []StoppedMeansHalted
<1>1. TypeOK /\ PatientInv => StoppedMeansHalted
  BY PatientInvImplies
<1> QED
  BY <1>1, PatientCorrect, TypeCorrect, PTL

(***************************************************************************)
(* A client that has its responses and the stop it waits for leaves nobody *)
(* behind when it closes: no detached thread sleeps on or is about to      *)
(* send, for every program, symbols, budget and number of threads.         *)
(***************************************************************************)
THEOREM NobodyLeftBehind ==
  ASSUME Habits \subseteq {"configFirst"}
  PROVE  Spec => []SettledIsQuiet
<1>1. TypeOK /\ PatientInv /\ OrderInv => SettledIsQuiet
  BY SettledQuiet DEF SettledIsQuiet
<1> QED
  BY <1>1, PatientCorrect, OrderCorrect, TypeCorrect, PTL

(***************************************************************************)
(* Every event in the socket is the one the client is waiting for.         *)
(***************************************************************************)
THEOREM StopsAnswerRequests ==
  ASSUME Habits \subseteq {"configFirst"}
  PROVE  Spec => []StopAnswersRequest
<1>1. TypeOK /\ PatientInv => StopAnswersRequest
  BY PatientInvImplies
<1> QED
  BY <1>1, PatientCorrect, TypeCorrect, PTL

(***************************************************************************)
(* The unsynchronised event counter still numbers the events in order.     *)
(***************************************************************************)
THEOREM EventsNumbered ==
  ASSUME Habits \subseteq {"configFirst"}
  PROVE  Spec => []EventSeqsIncrease
<1>1. TypeOK /\ PatientInv => EventSeqsIncrease
  BY PatientInvImplies
<1> QED
  BY <1>1, PatientCorrect, TypeCorrect, PTL

(***************************************************************************)
(* One detached thread is all a patient client's session ever has: each of *)
(* the handlers that start one finds none running.  So the bound Timer,    *)
(* which the code does not have, takes no behaviour away, and what is      *)
(* proved of a patient client holds with any number of threads allowed.    *)
(***************************************************************************)
THEOREM OneThreadSuffices ==
  ASSUME Habits \subseteq {"configFirst"}, Timer # {}
  PROVE  Spec => []ThreadToSpare
<1>1. TypeOK /\ PatientInv => ThreadToSpare
  <2> SUFFICES ASSUME TypeOK, PatientInv, StartsThread
               PROVE  \A t \in Timer : ~InThread(t)
    BY DEF ThreadToSpare, InThread
  <2>1. CASE mpc \in {"run", "step"}
    BY <2>1 DEF PatientInv, AtMostOneStop, InMain
  <2>2. CASE mpc = "read" /\ c2s # <<>> /\ Head(c2s).cmd = "configurationDone"
    <3>1. 1 \in 1..Len(c2s) /\ c2s[1] = Head(c2s)
      BY <2>2, TailFacts DEF TypeOK, ChannelTypes
    <3>2. InRequest(1)
      BY <2>2, <3>1 DEF InRequest, EventCmds
    <3> QED
      BY <3>1, <3>2 DEF PatientInv, AtMostOneStop
  <2> QED
    BY <2>1, <2>2 DEF StartsThread
<1> QED
  BY <1>1, PatientCorrect, TypeCorrect, PTL

-----------------------------------------------------------------------------
(* A session keeps the promise of StopProtocol. *)

\* Each step of a session is a step of StopProtocol, or none.
LEMMA RefinementStep ==
  Habits \subseteq {"configFirst"} /\ TypeOK /\ TypeOK' /\ PatientInv /\ PatientInv' /\ [Next]_vars
    => [Abstract!Next]_<<PhaseOf, pc>>
<1> SUFFICES ASSUME Habits \subseteq {"configFirst"}, TypeOK, TypeOK', PatientInv, PatientInv', [Next]_vars
             PROVE  [Abstract!Next]_<<PhaseOf, pc>>
  OBVIOUS
<1> USE DEF Abstract!Next, PhaseOf
<1>1. pc \in Addr /\ pc' \in Addr
  BY DEF TypeOK, SessionTypes
<1>2. CASE \/ ClientLaunch \/ ClientSetBreakpoints \/ ClientQuery
           \/ ClientSetInstructionBreakpoints \/ ClientDisconnect
  <2>1. ASSUME NEW cmd, NEW arg, Send(cmd, arg), UNCHANGED <<waits, told>>
        PROVE  UNCHANGED <<conn, told, waits, pc>>
    BY <2>1 DEF Send, session
  <2>2. UNCHANGED <<conn, told, waits, pc>>
    BY <1>2, <2>1 DEF ClientLaunch, ClientSetBreakpoints, ClientQuery,
       ClientDisconnect, ClientSetInstructionBreakpoints
  <2> QED
    BY <2>2
<1>3. CASE ClientInitialize
  <2>1. waits = "none" /\ ~told
    BY <1>3 DEF ClientInitialize, PatientInv, RequestOrder
  <2> QED
    BY <1>3, <2>1 DEF ClientInitialize, Send, session, Resumes
<1>4. CASE ClientConfigurationDone
  BY <1>4 DEF ClientConfigurationDone, PatientInv, RequestOrder, Send, session, Resumes
<1>5. CASE ClientResume
  <2>1. Abstract!Resume
    BY <1>5 DEF Abstract!Resume, ClientResume, Send, session
  <2> QED
    BY <2>1
<1>6. CASE ClientHear
  <2>1. conn = "open" /\ conn' = conn /\ pc' = pc
    BY <1>6 DEF ClientHear, session
  <2>2. CASE s2c[1].kind = "event"
    <3>1. /\ waits' = "none" /\ told' = (told \/ s2c[1].what # "initialized")
          /\ waits # "none" /\ s2c[1].what = EventOf(waits) /\ ~told
      BY <1>6, <2>2, HearShifts DEF ClientHear, PatientInv, RequestOrder,
         ServesWaiting, StopAnswersRequest, InEvent
    <3>2. CASE s2c[1].what = "initialized"
      <4>1. waits \notin Resumes
        BY <3>1, <3>2 DEF EventOf, Resumes
      <4> QED
        BY <2>1, <3>1, <3>2, <4>1 DEF Resumes
    <3>3. CASE s2c[1].what # "initialized"
      <4>1. Abstract!Stop
        BY <2>1, <3>1, <3>3 DEF Abstract!Stop
      <4> QED
        BY <4>1
    <3> QED
      BY <3>2, <3>3
  <2>3. CASE s2c[1].kind # "event"
    BY <1>6, <2>1, <2>3, HearShifts DEF ClientHear
  <2> QED
    BY <2>2, <2>3
<1>7. CASE ClientClose
  <2>1. Abstract!Leave
    BY <1>7 DEF Abstract!Leave, ClientClose, session
  <2> QED
    BY <2>1
<1>8. CASE Accept \/ EndSession
  <2>1. conn # "open" /\ told' = told /\ waits' = waits /\ ~told /\ waits = "none"
    BY <1>8 DEF Accept, EndSession, client, PatientInv, NothingLeftBehind
  <2>2. Abstract!Load
    BY <1>1, <2>1 DEF Abstract!Load, Resumes
  <2> QED
    BY <2>2
<1>9. CASE LaunchRequest
  <2>1. conn = "open" /\ conn' = conn /\ told' = told /\ waits' = waits
    BY <1>9, TakeFacts DEF LaunchRequest
  <2>2. ~told /\ waits \notin Resumes
    BY <1>9, TakeShifts DEF LaunchRequest, PatientInv, LaunchFirst, NothingRan
  <2>3. Abstract!Load
    BY <1>1, <2>1, <2>2 DEF Abstract!Load
  <2> QED
    BY <2>3
<1>10. CASE StepRequest
  <2>1. conn = "open" /\ conn' = conn /\ told' = told /\ waits' = waits
    BY <1>10, TakeFacts DEF StepRequest
  <2>2. waits \in Resumes
    BY <1>10, TakeShifts DEF StepRequest, PatientInv, ServesWaiting, InRequest,
       EventCmds, Resumes
  <2>3. Abstract!Run
    BY <1>1, <2>1, <2>2 DEF Abstract!Run, PatientInv, RequestOrder, Resumes
  <2> QED
    BY <2>3
<1>11. CASE ContinueStep \/ NextStep
  <2>1. mpc \in {"run", "step"} /\ conn' = conn /\ told' = told /\ waits' = waits
    BY <1>11 DEF ContinueStep, NextStep, Inside, client
  <2>2. conn = "open" /\ waits \in Resumes
    BY <2>1 DEF PatientInv, NothingLeftBehind, ServesWaiting, InMain, Resumes,
       TypeOK, ChannelTypes
  <2>3. Abstract!Run
    BY <1>1, <2>1, <2>2 DEF Abstract!Run, PatientInv, RequestOrder, Resumes
  <2> QED
    BY <2>3
<1>12. CASE \/ InitializeRequest \/ ConfigurationDoneRequest
            \/ SetBreakpointsRequest \/ SetInstructionBreakpointsRequest
            \/ QueryRequest \/ DisconnectRequest \/ ContinueRequest \/ NextRequest
  BY <1>12 DEF InitializeRequest, ConfigurationDoneRequest, SetBreakpointsRequest,
     SetInstructionBreakpointsRequest, QueryRequest, DisconnectRequest,
     ContinueRequest, NextRequest, Take, client, session
<1>13. CASE \/ ContinueReturn \/ NextReturn
            \/ MainLoad \/ MainStore \/ MainEmit \/ MainReply
  <2>1. UNCHANGED <<conn, client, session>>
    BY <1>13 DEF ContinueReturn, NextReturn, MainLoad, MainStore, MainEmit,
       MainReply, Inside
  <2>2. UNCHANGED <<conn, told, waits, pc>>
    BY <2>1 DEF client, session
  <2> QED
    BY <2>2
<1>14. ASSUME NEW t \in Timer, TimerStep(t)
       PROVE  UNCHANGED <<PhaseOf, pc>>
  BY <1>14 DEF TimerStep, TimerLoad, TimerStore, TimerSend, client, session
<1>15. ASSUME NEW t \in Timer
       PROVE  ~Orphan(t)
  BY DEF Orphan, OrphanCrash, OrphanVanish, OrphanAdopted, PatientInv,
     NothingLeftBehind
<1>16. CASE UNCHANGED vars
  BY <1>16 DEF vars, client, session
<1> QED
  BY <1>2, <1>3, <1>4, <1>5, <1>6, <1>7, <1>8, <1>9, <1>10, <1>11, <1>12, <1>13,
     <1>14, <1>15, <1>16 DEF Next, Client, Main

(***************************************************************************)
(* The sessions of a patient client implement StopProtocol: the program    *)
(* counter moves only while the client has not been told that the program  *)
(* is stopped.                                                             *)
(***************************************************************************)
THEOREM SessionsImplementStopProtocol ==
  ASSUME Habits \subseteq {"configFirst"}
  PROVE  Spec => StopSpec
<1>1. Init => Abstract!Init
  BY ProgramAssumption DEF Init, Abstract!Init, PhaseOf
<1>2. TypeOK /\ TypeOK' /\ PatientInv /\ PatientInv' /\ [Next]_vars
        => [Abstract!Next]_(Abstract!vars)
  BY RefinementStep DEF Abstract!vars
<1> QED
  BY <1>1, <1>2, PatientCorrect, TypeCorrect, PTL DEF Spec, StopSpec, Abstract!Spec
=============================================================================
