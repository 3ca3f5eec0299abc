-------------------------- MODULE RunControlProofs --------------------------
(***************************************************************************)
(* What TLAPS proves of RunControl for every client, with any habits, and  *)
(* every program, symbol table, step budget, number of threads and bound.  *)
(***************************************************************************)
EXTENDS RunControlInv, FiniteSetTheorems, TLAPS

\* What taking the first element off a sequence leaves.
LEMMA TailFacts ==
  ASSUME NEW S, NEW s \in Seq(S), s # <<>>
  PROVE  /\ Head(s) = s[1] /\ Head(s) \in S
         /\ Tail(s) \in Seq(S) /\ Len(Tail(s)) = Len(s) - 1
         /\ Len(s) \in Nat /\ Len(s) > 0
         /\ \A i \in 1..Len(Tail(s)) : Tail(s)[i] = s[i + 1]
OBVIOUS

\* The constants every session starts with.
LEMMA Starts ==
  /\ \A S : <<>> \in Seq(S)
  /\ 0 \in 0..StepLimit /\ Served \in Request /\ {} \in SUBSET Line
<1>1. \A S : <<>> \in Seq(S)
  OBVIOUS
<1>2. 0 \in 0..StepLimit
  BY BoundAssumption
<1>3. Served \in Request
  BY DEF Served, Request
<1> QED
  BY <1>1, <1>2, <1>3

\* What a sequence with one more element at its end is.
LEMMA AppendFacts ==
  ASSUME NEW S, NEW s \in Seq(S), NEW x \in S
  PROVE  /\ Append(s, x) \in Seq(S) /\ Len(Append(s, x)) = Len(s) + 1
         /\ Len(s) \in Nat
         /\ \A i \in 1..Len(s) : Append(s, x)[i] = s[i]
         /\ Append(s, x)[Len(s) + 1] = x
OBVIOUS

-----------------------------------------------------------------------------
(* Type correctness. *)

\* A request taken off the socket is a request, and so is what is left.
LEMMA TakeType ==
  ASSUME TypeOK, NEW cmds, Take(cmds)
  PROVE  /\ req' \in Request /\ c2s' \in Seq(Request)
         /\ Head(c2s) \in Request /\ Head(c2s).cmd \in cmds
         /\ s2c' \in Seq(Message) /\ event_seq' \in Nat /\ mseq' \in Nat
BY TailFacts DEF TypeOK, ClientTypes, ChannelTypes, SessionTypes, MainTypes, Take

\* A started thread is a thread.
LEMMA StartThreadType ==
  ASSUME TypeOK, NEW why \in {"entry", "breakpoint", "step"}, StartThread(why)
  PROVE  timer' \in [Timer -> Thread]
<1>1. Sleeping(why) \in Thread
  BY DEF Sleeping, Thread
<1> QED
  BY <1>1 DEF TypeOK, ClientTypes, ChannelTypes, SessionTypes, MainTypes, StartThread

\* Whatever is sent to the client, the channel stays a channel.
LEMMA EmitType ==
  ASSUME TypeOK, NEW m \in Message, Emit(m)
  PROVE  s2c' \in Seq(Message)
BY AppendFacts DEF TypeOK, ClientTypes, ChannelTypes, SessionTypes, MainTypes, Emit

\* Sending keeps the types of the client's own variables.
LEMMA SendType ==
  ASSUME TypeOK, NEW cmd, NEW arg, [cmd |-> cmd, arg |-> arg] \in Request,
         cmd \in Commands, Send(cmd, arg)
  PROVE  /\ c2s' \in Seq(Request) /\ ledger' \in Seq(Commands)
         /\ asked' \subseteq Once
BY AppendFacts DEF TypeOK, ClientTypes, ChannelTypes, SessionTypes, MainTypes, Send

\* The addresses of some lines are addresses.
LEMMA ResolveType ==
  ASSUME NEW lines \in SUBSET Line
  PROVE  Resolve(lines) \subseteq Addr
BY SymbolAssumption DEF Resolve, Partial

\* A line looked up is a line, or none.
LEMMA LookupType ==
  ASSUME NEW a \in Addr
  PROVE  LookupSource(a) \in SUBSET Line
BY SymbolAssumption DEF LookupSource, Partial

\* The arguments of the two breakpoint requests are lines and addresses.
LEMMA RequestArgs ==
  ASSUME NEW r \in Request
  PROVE  /\ r.cmd = "setBreakpoints" => r.arg \in SUBSET Line
         /\ r.cmd = "setInstructionBreakpoints" => r.arg \in SUBSET InstrBreakable
BY DEF Request, Once, Resumes

\* The event of a request is one a message can carry.
LEMMA EventType ==
  ASSUME NEW c, NEW n \in Nat, NEW b \in BOOLEAN
  PROVE  Event(EventOf(c), n, b) \in Message
<1>1. EventOf(c) \in Events
  BY DEF EventOf, Events
<1> QED
  BY <1>1 DEF Event, Message

\* The type invariant is inductive.
LEMMA TypeStep == TypeOK /\ [Next]_vars => TypeOK'
<1> SUFFICES ASSUME TypeOK, [Next]_vars
             PROVE  TypeOK'
  OBVIOUS
<1> USE DEF TypeOK
<1>1. CASE ClientInitialize
  <2>1. ClientTypes' /\ ChannelTypes'
    BY <1>1, SendType DEF ClientInitialize, Send, ClientTypes, ChannelTypes, Request,
       Commands, Once, Resumes, EventCmds
  <2>2. SessionTypes' /\ MainTypes' /\ timer' = timer
    BY <1>1 DEF ClientInitialize, Send, SessionTypes, MainTypes, session, locals
  <2> QED
    BY <2>1, <2>2
<1>2. CASE ClientLaunch
  <2>1. PICK arg \in LaunchArgs : Send("launch", arg)
    BY <1>2 DEF ClientLaunch
  <2>2. ClientTypes' /\ ChannelTypes'
    BY <1>2, <2>1, SendType DEF ClientLaunch, Send, ClientTypes, ChannelTypes, Request,
       Commands, Once, Resumes, EventCmds
  <2>3. SessionTypes' /\ MainTypes' /\ timer' = timer
    BY <1>2, <2>1 DEF ClientLaunch, Send, SessionTypes, MainTypes, session, locals
  <2> QED
    BY <2>2, <2>3
<1>3. CASE ClientConfigurationDone
  <2>1. ClientTypes' /\ ChannelTypes'
    BY <1>3, SendType DEF ClientConfigurationDone, Send, ClientTypes, ChannelTypes, Request,
       Commands, Once, Resumes, EventCmds
  <2>2. SessionTypes' /\ MainTypes' /\ timer' = timer
    BY <1>3 DEF ClientConfigurationDone, Send, SessionTypes, MainTypes, session, locals
  <2> QED
    BY <2>1, <2>2
<1>4. CASE ClientResume
  <2>1. PICK cmd \in Resumes : Send(cmd, {}) /\ waits' = cmd
    BY <1>4 DEF ClientResume
  <2>2. ClientTypes' /\ ChannelTypes'
    BY <1>4, <2>1, SendType DEF ClientResume, Send, ClientTypes, ChannelTypes, Request,
       Commands, Once, Resumes, EventCmds
  <2>3. SessionTypes' /\ MainTypes' /\ timer' = timer
    BY <1>4, <2>1 DEF ClientResume, Send, SessionTypes, MainTypes, session, locals
  <2> QED
    BY <2>2, <2>3
<1>5. CASE ClientSetBreakpoints
  <2>1. PICK lines \in SUBSET Line : Send("setBreakpoints", lines)
    BY <1>5 DEF ClientSetBreakpoints
  <2>2. ClientTypes' /\ ChannelTypes'
    BY <1>5, <2>1, SendType DEF ClientSetBreakpoints, Send, ClientTypes, ChannelTypes, Request,
       Commands, Once, Resumes, EventCmds
  <2>3. SessionTypes' /\ MainTypes' /\ timer' = timer
    BY <1>5, <2>1 DEF ClientSetBreakpoints, Send, SessionTypes, MainTypes, session, locals
  <2> QED
    BY <2>2, <2>3
<1>6. CASE ClientSetInstructionBreakpoints
  <2>1. PICK addrs \in SUBSET InstrBreakable :
          Send("setInstructionBreakpoints", addrs)
    BY <1>6 DEF ClientSetInstructionBreakpoints
  <2>2. ClientTypes' /\ ChannelTypes'
    BY <1>6, <2>1, SendType DEF ClientSetInstructionBreakpoints, Send, ClientTypes, ChannelTypes, Request,
       Commands, Once, Resumes, EventCmds
  <2>3. SessionTypes' /\ MainTypes' /\ timer' = timer
    BY <1>6, <2>1 DEF ClientSetInstructionBreakpoints, Send, SessionTypes, MainTypes, session, locals
  <2> QED
    BY <2>2, <2>3
<1>7. CASE ClientQuery
  <2>1. ClientTypes' /\ ChannelTypes'
    BY <1>7, SendType DEF ClientQuery, Send, ClientTypes, ChannelTypes, Request,
       Commands, Once, Resumes, EventCmds
  <2>2. SessionTypes' /\ MainTypes' /\ timer' = timer
    BY <1>7 DEF ClientQuery, Send, SessionTypes, MainTypes, session, locals
  <2> QED
    BY <2>1, <2>2
<1>8. CASE ClientDisconnect
  <2>1. ClientTypes' /\ ChannelTypes'
    BY <1>8, SendType DEF ClientDisconnect, Send, ClientTypes, ChannelTypes, Request,
       Commands, Once, Resumes, EventCmds
  <2>2. SessionTypes' /\ MainTypes' /\ timer' = timer
    BY <1>8 DEF ClientDisconnect, Send, SessionTypes, MainTypes, session, locals
  <2> QED
    BY <2>1, <2>2
<1>9. CASE ClientHear
  <2>1. s2c' \in Seq(Message) /\ Head(s2c) \in Message
    BY <1>9, TailFacts DEF ClientHear, ChannelTypes
  <2>2. Head(s2c).seq \in Nat
    BY <2>1 DEF Message
  <2>3. ledger' \in {ledger, Tail(ledger)} /\ (ledger = <<>> => ledger' = ledger)
    BY <1>9 DEF ClientHear
  <2>4. ledger' \in Seq(Commands)
    BY <2>3, TailFacts DEF ClientTypes
  <2>5. ClientTypes' /\ ChannelTypes'
    BY <1>9, <2>1, <2>2, <2>4 DEF ClientHear, ClientTypes, ChannelTypes
  <2>6. SessionTypes' /\ MainTypes' /\ timer' = timer
    BY <1>9 DEF ClientHear, SessionTypes, MainTypes, session, locals
  <2> QED
    BY <2>5, <2>6
<1>10. CASE ClientClose
  <2>1. ClientTypes' /\ ChannelTypes'
    BY <1>10, Starts DEF ClientClose, ClientTypes, ChannelTypes
  <2>2. SessionTypes' /\ MainTypes' /\ timer' = timer
    BY <1>10 DEF ClientClose, SessionTypes, MainTypes, session, locals
  <2> QED
    BY <2>1, <2>2
<1>11. CASE Accept
  <2>1. ClientTypes' /\ ChannelTypes' /\ timer' = timer
    BY <1>11 DEF Accept, ClientTypes, ChannelTypes, client
  <2>2. SessionTypes'
    BY <1>11, ProgramAssumption DEF Accept, NewSession, SessionTypes
  <2>3. MainTypes'
    BY <1>11, Starts DEF Accept, NewSession, MainTypes
  <2> QED
    BY <2>1, <2>2, <2>3
<1>12. CASE InitializeRequest
  <2>1. PICK cmds : Take(cmds)
    BY <1>12 DEF InitializeRequest
  <2>2. ClientTypes' /\ ChannelTypes' /\ event_seq' = event_seq
    BY <2>1, TakeType DEF Take, ClientTypes, ChannelTypes, client
  <2>3. SessionTypes'
    BY <1>12, <2>2 DEF InitializeRequest, SessionTypes, session
  <2>4. MainTypes'
    BY <1>12, <2>1, TakeType DEF InitializeRequest, MainTypes, locals
  <2>5. timer' \in [Timer -> Thread]
    BY <1>12, StartThreadType DEF InitializeRequest
  <2> QED
    BY <2>2, <2>3, <2>4, <2>5
<1>13. CASE LaunchRequest
  <2>1. PICK cmds : Take(cmds)
    BY <1>13 DEF LaunchRequest
  <2>2. ClientTypes' /\ ChannelTypes' /\ event_seq' = event_seq
    BY <2>1, TakeType DEF Take, ClientTypes, ChannelTypes, client
  <2>3. SessionTypes'
    BY <1>13, <2>2, ResolveType, ProgramAssumption DEF LaunchRequest, SessionTypes, session
  <2>4. MainTypes'
    BY <1>13, <2>1, TakeType DEF LaunchRequest, MainTypes, locals
  <2>5. timer' \in [Timer -> Thread]
    BY <1>13, StartThreadType DEF LaunchRequest
  <2> QED
    BY <2>2, <2>3, <2>4, <2>5
<1>14. CASE ConfigurationDoneRequest
  <2>1. PICK cmds : Take(cmds)
    BY <1>14 DEF ConfigurationDoneRequest
  <2>2. ClientTypes' /\ ChannelTypes' /\ event_seq' = event_seq
    BY <2>1, TakeType DEF Take, ClientTypes, ChannelTypes, client
  <2>3. SessionTypes'
    BY <1>14, <2>2 DEF ConfigurationDoneRequest, SessionTypes, session
  <2>4. MainTypes'
    BY <1>14, <2>1, TakeType DEF ConfigurationDoneRequest, MainTypes, locals
  <2>5. timer' \in [Timer -> Thread]
    BY <1>14, StartThreadType DEF ConfigurationDoneRequest
  <2> QED
    BY <2>2, <2>3, <2>4, <2>5
<1>15. CASE SetBreakpointsRequest
  <2>1. PICK cmds : Take(cmds)
    BY <1>15 DEF SetBreakpointsRequest
  <2>2. ClientTypes' /\ ChannelTypes' /\ event_seq' = event_seq
    BY <2>1, TakeType DEF Take, ClientTypes, ChannelTypes, client
  <2>3. SessionTypes'
    BY <1>15, <2>2, TakeType, RequestArgs, ResolveType
       DEF SetBreakpointsRequest, SessionTypes
  <2>4. MainTypes'
    BY <1>15, <2>1, TakeType DEF SetBreakpointsRequest, MainTypes, locals
  <2>5. timer' \in [Timer -> Thread]
    BY <1>15, StartThreadType DEF SetBreakpointsRequest
  <2> QED
    BY <2>2, <2>3, <2>4, <2>5
<1>16. CASE SetInstructionBreakpointsRequest
  <2>1. PICK cmds : Take(cmds)
    BY <1>16 DEF SetInstructionBreakpointsRequest
  <2>2. ClientTypes' /\ ChannelTypes' /\ event_seq' = event_seq
    BY <2>1, TakeType DEF Take, ClientTypes, ChannelTypes, client
  <2>3. SessionTypes'
    BY <1>16, <2>2, TakeType, RequestArgs, SymbolAssumption
       DEF SetInstructionBreakpointsRequest, SessionTypes
  <2>4. MainTypes'
    BY <1>16, <2>1, TakeType DEF SetInstructionBreakpointsRequest, MainTypes, locals
  <2>5. timer' \in [Timer -> Thread]
    BY <1>16, StartThreadType DEF SetInstructionBreakpointsRequest
  <2> QED
    BY <2>2, <2>3, <2>4, <2>5
<1>17. CASE QueryRequest
  <2>1. PICK cmds : Take(cmds)
    BY <1>17 DEF QueryRequest
  <2>2. ClientTypes' /\ ChannelTypes' /\ event_seq' = event_seq
    BY <2>1, TakeType DEF Take, ClientTypes, ChannelTypes, client
  <2>3. SessionTypes'
    BY <1>17, <2>2 DEF QueryRequest, SessionTypes, session
  <2>4. MainTypes'
    BY <1>17, <2>1, TakeType DEF QueryRequest, MainTypes, locals
  <2>5. timer' \in [Timer -> Thread]
    BY <1>17, StartThreadType DEF QueryRequest
  <2> QED
    BY <2>2, <2>3, <2>4, <2>5
<1>18. CASE DisconnectRequest
  <2>1. PICK cmds : Take(cmds)
    BY <1>18 DEF DisconnectRequest
  <2>2. ClientTypes' /\ ChannelTypes' /\ event_seq' = event_seq
    BY <2>1, TakeType DEF Take, ClientTypes, ChannelTypes, client
  <2>3. SessionTypes'
    BY <1>18, <2>2 DEF DisconnectRequest, SessionTypes, session
  <2>4. MainTypes'
    BY <1>18, <2>1, TakeType DEF DisconnectRequest, MainTypes, locals
  <2>5. timer' \in [Timer -> Thread]
    BY <1>18, StartThreadType DEF DisconnectRequest
  <2> QED
    BY <2>2, <2>3, <2>4, <2>5
<1>19. CASE StepRequest
  <2>1. PICK cmds : Take(cmds)
    BY <1>19 DEF StepRequest
  <2>2. ClientTypes' /\ ChannelTypes' /\ event_seq' = event_seq
    BY <2>1, TakeType DEF Take, ClientTypes, ChannelTypes, client
  <2>3. SessionTypes'
    BY <1>19, <2>2, ProgramAssumption DEF StepRequest, SessionTypes, session
  <2>4. MainTypes'
    BY <1>19, <2>1, TakeType DEF StepRequest, MainTypes, locals
  <2>5. timer' \in [Timer -> Thread]
    BY <1>19, StartThreadType DEF StepRequest
  <2> QED
    BY <2>2, <2>3, <2>4, <2>5
<1>20. CASE ContinueRequest
  <2>1. PICK cmds : Take(cmds)
    BY <1>20 DEF ContinueRequest
  <2>2. ClientTypes' /\ ChannelTypes' /\ event_seq' = event_seq
    BY <2>1, TakeType DEF Take, ClientTypes, ChannelTypes, client
  <2>3. SessionTypes'
    BY <1>20, <2>2 DEF ContinueRequest, SessionTypes, session
  <2>4. MainTypes'
    BY <1>20, <2>1, TakeType, Starts DEF ContinueRequest, MainTypes
  <2>5. timer' \in [Timer -> Thread]
    BY <1>20, StartThreadType DEF ContinueRequest
  <2> QED
    BY <2>2, <2>3, <2>4, <2>5
<1>21. CASE NextRequest
  <2>1. PICK cmds : Take(cmds)
    BY <1>21 DEF NextRequest
  <2>2. ClientTypes' /\ ChannelTypes' /\ event_seq' = event_seq
    BY <2>1, TakeType DEF Take, ClientTypes, ChannelTypes, client
  <2>3. SessionTypes'
    BY <1>21, <2>2 DEF NextRequest, SessionTypes, session
  <2>4. MainTypes'
    BY <1>21, <2>1, TakeType, Starts, LookupType DEF NextRequest, MainTypes, SessionTypes
  <2>5. timer' \in [Timer -> Thread]
    BY <1>21, StartThreadType DEF NextRequest
  <2> QED
    BY <2>2, <2>3, <2>4, <2>5
<1>22. CASE ContinueStep
  <2>2. ClientTypes' /\ ChannelTypes'
    BY <1>22 DEF ContinueStep, Inside, ClientTypes, ChannelTypes, client
  <2>3. SessionTypes'
    BY <1>22, ProgramAssumption DEF ContinueStep, SessionTypes, session
  <2>4. MainTypes'
    BY <1>22, BoundAssumption DEF ContinueStep, Inside, Continuing, MainTypes, locals
  <2>5. timer' \in [Timer -> Thread]
    BY <1>22, StartThreadType DEF ContinueStep
  <2> QED
    BY <2>2, <2>3, <2>4, <2>5
<1>23. CASE ContinueReturn
  <2>2. ClientTypes' /\ ChannelTypes'
    BY <1>23 DEF ContinueReturn, Inside, ClientTypes, ChannelTypes, client
  <2>3. SessionTypes'
    BY <1>23 DEF ContinueReturn, SessionTypes, session
  <2>4. MainTypes'
    BY <1>23 DEF ContinueReturn, Inside, MainTypes, locals
  <2>5. timer' \in [Timer -> Thread]
    BY <1>23, StartThreadType DEF ContinueReturn
  <2> QED
    BY <2>2, <2>3, <2>4, <2>5
<1>24. CASE NextStep
  <2>2. ClientTypes' /\ ChannelTypes'
    BY <1>24 DEF NextStep, Inside, ClientTypes, ChannelTypes, client
  <2>3. SessionTypes'
    BY <1>24, ProgramAssumption DEF NextStep, SessionTypes, session
  <2>4. MainTypes'
    BY <1>24, BoundAssumption DEF NextStep, Inside, Stepping, MainTypes, locals
  <2>5. timer' \in [Timer -> Thread]
    BY <1>24, StartThreadType DEF NextStep
  <2> QED
    BY <2>2, <2>3, <2>4, <2>5
<1>25. CASE NextReturn
  <2>2. ClientTypes' /\ ChannelTypes'
    BY <1>25 DEF NextReturn, Inside, ClientTypes, ChannelTypes, client
  <2>3. SessionTypes'
    BY <1>25 DEF NextReturn, SessionTypes, session
  <2>4. MainTypes'
    BY <1>25 DEF NextReturn, Inside, MainTypes, locals
  <2>5. timer' \in [Timer -> Thread]
    BY <1>25, StartThreadType DEF NextReturn
  <2> QED
    BY <2>2, <2>3, <2>4, <2>5
<1>26. CASE MainLoad
  <2>2. ClientTypes' /\ ChannelTypes'
    BY <1>26 DEF MainLoad, Inside, ClientTypes, ChannelTypes, client
  <2>3. SessionTypes'
    BY <1>26 DEF MainLoad, SessionTypes, session
  <2>4. MainTypes'
    BY <1>26 DEF MainLoad, Inside, MainTypes, locals, SessionTypes
  <2>5. timer' \in [Timer -> Thread]
    BY <1>26, StartThreadType DEF MainLoad
  <2> QED
    BY <2>2, <2>3, <2>4, <2>5
<1>27. CASE MainStore
  <2>2. ClientTypes' /\ ChannelTypes'
    BY <1>27 DEF MainStore, Inside, ClientTypes, ChannelTypes, client
  <2>3. SessionTypes'
    BY <1>27 DEF MainStore, SessionTypes, session, MainTypes
  <2>4. MainTypes'
    BY <1>27 DEF MainStore, Inside, MainTypes, locals
  <2>5. timer' \in [Timer -> Thread]
    BY <1>27, StartThreadType DEF MainStore
  <2> QED
    BY <2>2, <2>3, <2>4, <2>5
<1>28. CASE MainEmit
  <2>1. Event(EventOf(req.cmd), mseq, FALSE) \in Message
    BY EventType DEF MainTypes
  <2>2. ClientTypes' /\ ChannelTypes'
    BY <1>28, <2>1, EmitType DEF MainEmit, Inside, ClientTypes, ChannelTypes, client
  <2>3. SessionTypes'
    BY <1>28 DEF MainEmit, SessionTypes, session
  <2>4. MainTypes'
    BY <1>28 DEF MainEmit, Inside, MainTypes, locals
  <2>5. timer' \in [Timer -> Thread]
    BY <1>28, StartThreadType DEF MainEmit
  <2> QED
    BY <2>2, <2>3, <2>4, <2>5
<1>29. CASE MainReply
  <2>1. Response(req.cmd) \in Message
    BY DEF MainTypes, Request, Response, Message, Commands, Once, Resumes, Events
  <2>2. ClientTypes' /\ ChannelTypes'
    BY <1>29, <2>1, EmitType DEF MainReply, Inside, ClientTypes, ChannelTypes, client
  <2>3. SessionTypes'
    BY <1>29 DEF MainReply, SessionTypes, session
  <2>4. MainTypes'
    BY <1>29 DEF MainReply, Inside, Served, Request, MainTypes, locals
  <2>5. timer' \in [Timer -> Thread]
    BY <1>29, StartThreadType DEF MainReply
  <2> QED
    BY <2>2, <2>3, <2>4, <2>5
<1>30. CASE EndSession
  <2>1. ClientTypes' /\ ChannelTypes'
    BY <1>30 DEF EndSession, ClientTypes, ChannelTypes, client
  <2>2. SessionTypes'
    BY <1>30, ProgramAssumption DEF EndSession, NewSession, SessionTypes
  <2>3. MainTypes'
    BY <1>30, Starts DEF EndSession, NewSession, MainTypes
  <2>4. timer' \in [Timer -> Thread]
    BY <1>30 DEF EndSession, Thread
  <2> QED
    BY <2>1, <2>2, <2>3, <2>4
<1>31. ASSUME NEW t \in Timer, TimerStep(t)
       PROVE  TypeOK'
  <2>1. CASE TimerLoad(t)
    <3>1. timer' \in [Timer -> Thread]
      BY <2>1 DEF TimerLoad, Thread, SessionTypes
    <3>2. ClientTypes' /\ ChannelTypes' /\ SessionTypes' /\ MainTypes'
      BY <2>1 DEF TimerLoad, ClientTypes, ChannelTypes, SessionTypes, MainTypes,
         client, session, locals
    <3> QED
      BY <3>1, <3>2
  <2>2. CASE TimerStore(t)
    <3>1. timer' \in [Timer -> Thread] /\ timer[t].seq + 1 \in Nat
      BY <2>2 DEF TimerStore, Thread
    <3>2. ClientTypes' /\ ChannelTypes' /\ SessionTypes' /\ MainTypes'
      BY <2>2, <3>1 DEF TimerStore, ClientTypes, ChannelTypes, SessionTypes,
         MainTypes, client, session, locals
    <3> QED
      BY <3>1, <3>2
  <2>3. CASE TimerSend(t)
    <3>1. Event(timer[t].why, timer[t].seq, timer[t].life = "stray") \in Message
      BY DEF Event, Thread, Message, Events
    <3>2. timer' \in [Timer -> Thread]
      BY <2>3 DEF TimerSend, Thread, Free
    <3>3. s2c' \in Seq(Message)
      BY <2>3, <3>1, EmitType DEF TimerSend
    <3>4. ClientTypes' /\ ChannelTypes' /\ SessionTypes' /\ MainTypes'
      BY <2>3, <3>3 DEF TimerSend, ClientTypes, ChannelTypes, SessionTypes,
         MainTypes, client, session, locals
    <3> QED
      BY <3>2, <3>4
  <2> QED
    BY <1>31, <2>1, <2>2, <2>3 DEF TimerStep
<1>32. ASSUME NEW t \in Timer, Orphan(t)
       PROVE  TypeOK'
  <2>1. CASE OrphanCrash(t)
    <3>1. ClientTypes' /\ ChannelTypes'
      BY <2>1, Starts DEF OrphanCrash, ClientTypes, ChannelTypes
    <3>2. SessionTypes'
      BY <2>1, ProgramAssumption DEF OrphanCrash, NewSession, SessionTypes
    <3>3. MainTypes'
      BY <2>1, Starts DEF OrphanCrash, NewSession, MainTypes
    <3>4. timer' \in [Timer -> Thread]
      BY <2>1 DEF OrphanCrash, Thread, Free
    <3> QED
      BY <3>1, <3>2, <3>3, <3>4
  <2>2. CASE OrphanVanish(t) \/ OrphanAdopted(t)
    <3>1. timer' \in [Timer -> Thread]
      BY <2>2 DEF OrphanVanish, OrphanAdopted, Thread, Free
    <3>2. ClientTypes' /\ ChannelTypes' /\ SessionTypes' /\ MainTypes'
      BY <2>2 DEF OrphanVanish, OrphanAdopted, ClientTypes, ChannelTypes,
         SessionTypes, MainTypes, client, session, locals
    <3> QED
      BY <3>1, <3>2
  <2> QED
    BY <1>32, <2>1, <2>2 DEF Orphan
<1>33. CASE UNCHANGED vars
  BY <1>33 DEF vars, ClientTypes, ChannelTypes, SessionTypes, MainTypes, client,
     session, locals
<1> QED
  BY <1>1, <1>2, <1>3, <1>4, <1>5, <1>6, <1>7, <1>8, <1>9, <1>10, <1>11, <1>12, <1>13, <1>14, <1>15, <1>16, <1>17, <1>18, <1>19, <1>20, <1>21, <1>22, <1>23, <1>24, <1>25, <1>26, <1>27, <1>28, <1>29, <1>30, <1>31, <1>32, <1>33
     DEF Next, Client, Main

\* Every variable keeps its type, whatever the client does.
THEOREM TypeCorrect == Spec => []TypeOK
<1>1. Init => TypeOK
  <2> SUFFICES ASSUME Init PROVE TypeOK
    OBVIOUS
  <2>1. ClientTypes /\ ChannelTypes
    BY Starts DEF Init, ClientTypes, ChannelTypes
  <2>2. SessionTypes
    BY ProgramAssumption DEF Init, SessionTypes
  <2>3. MainTypes
    BY Starts DEF Init, MainTypes
  <2>4. timer \in [Timer -> Thread]
    BY DEF Init, Free, Thread
  <2> QED
    BY <2>1, <2>2, <2>3, <2>4 DEF TypeOK
<1> QED
  BY <1>1, TypeStep, PTL DEF Spec

-----------------------------------------------------------------------------
(* What sending, taking and emitting do to the channels. *)

\* Sending adds one request behind the others.
LEMMA SendAdds ==
  ASSUME TypeOK, NEW cmd, NEW arg, [cmd |-> cmd, arg |-> arg] \in Request,
         Send(cmd, arg)
  PROVE  /\ Len(c2s) \in Nat /\ Len(c2s') = Len(c2s) + 1
         /\ \A i \in 1..Len(c2s) : c2s'[i] = c2s[i]
         /\ c2s'[Len(c2s) + 1].cmd = cmd
BY AppendFacts DEF TypeOK, ChannelTypes, Send

\* Taking a request moves the others one place forward.
LEMMA TakeShifts ==
  ASSUME TypeOK, NEW cmds, Take(cmds)
  PROVE  /\ Len(c2s) \in Nat /\ Len(c2s') = Len(c2s) - 1 /\ 1 \in 1..Len(c2s)
         /\ \A i \in 1..Len(c2s') : i + 1 \in 1..Len(c2s) /\ c2s'[i] = c2s[i + 1]
         /\ req' = c2s[1] /\ Head(c2s) = c2s[1] /\ c2s[1].cmd \in cmds
         /\ c2s[1] \in Request
BY TailFacts DEF TypeOK, ChannelTypes, Take

\* In an open connection a message sent is added behind the others.
LEMMA EmitAdds ==
  ASSUME TypeOK, NEW m \in Message, Emit(m), conn = "open"
  PROVE  /\ Len(s2c) \in Nat /\ Len(s2c') = Len(s2c) + 1
         /\ \A i \in 1..Len(s2c) : s2c'[i] = s2c[i]
         /\ s2c'[Len(s2c) + 1] = m
BY AppendFacts DEF TypeOK, ChannelTypes, Emit

-----------------------------------------------------------------------------
(* The breakpoints follow the symbols. *)

\* A client's message other than launch adds no launch.
LEMMA SendKeepsSymbolInv ==
  ASSUME TypeOK, SymbolInv, NEW cmd, NEW arg, [cmd |-> cmd, arg |-> arg] \in Request,
         Send(cmd, arg), cmd = "launch" => "launch" \notin asked
  PROVE  SymbolInv'
<1>1. /\ conn = "open" /\ conn' = conn /\ asked' = asked \cup ({cmd} \cap Once)
      /\ loaded' = loaded /\ srcbps' = srcbps /\ bps' = bps
  BY DEF Send, session
<1>2. \A i \in 1..Len(c2s') : \/ i \in 1..Len(c2s) /\ c2s'[i] = c2s[i]
                              \/ i = Len(c2s) + 1 /\ c2s'[i].cmd = cmd
  BY SendAdds
<1>3. OneLaunch'
  BY <1>1, <1>2 DEF SymbolInv, OneLaunch, Once
<1> QED
  BY <1>1, <1>3 DEF SymbolInv, BreakpointsFollowSymbols, Resolve

\* A request other than launch and setBreakpoints leaves the symbols alone.
LEMMA TakeKeepsOneLaunch ==
  ASSUME TypeOK, OneLaunch, NEW cmds, Take(cmds),
         loaded' = loaded \/ cmds = {"launch"}
  PROVE  OneLaunch'
<1>1. conn' = conn /\ asked' = asked
  BY DEF Take, client
<1>2. /\ \A i \in 1..Len(c2s') : i + 1 \in 1..Len(c2s) /\ c2s'[i] = c2s[i + 1]
      /\ Len(c2s) \in Nat /\ Len(c2s') = Len(c2s) - 1
  BY TakeShifts
<1>3. conn # "none" /\ 1 \in 1..Len(c2s) /\ c2s[1].cmd \in cmds
  BY TakeShifts DEF OneLaunch, Take
<1>4. CASE loaded' = loaded
  <2>1. \A i, j \in 1..Len(c2s') :
          c2s'[i].cmd = "launch" /\ c2s'[j].cmd = "launch" => i = j
    BY <1>2 DEF OneLaunch
  <2>2. \A i \in 1..Len(c2s') : c2s'[i].cmd = "launch" => ~loaded'
    BY <1>2, <1>4 DEF OneLaunch
  <2>3. conn' = "open" /\ "launch" \notin asked' =>
          ~loaded' /\ \A i \in 1..Len(c2s') : c2s'[i].cmd # "launch"
    BY <1>1, <1>2, <1>4 DEF OneLaunch
  <2> QED
    BY <1>1, <1>3, <2>1, <2>2, <2>3 DEF OneLaunch
<1>5. CASE cmds = {"launch"}
  <2>1. c2s[1].cmd = "launch"
    BY <1>3, <1>5
  <2>2. ASSUME NEW i \in 1..Len(c2s')
        PROVE  c2s'[i].cmd # "launch"
    <3>1. i + 1 \in 1..Len(c2s) /\ i + 1 # 1 /\ c2s'[i] = c2s[i + 1]
      BY <1>2
    <3> QED
      BY <1>3, <2>1, <3>1 DEF OneLaunch
  <2>3. ~(conn = "open" /\ "launch" \notin asked)
    BY <1>3, <2>1 DEF OneLaunch
  <2> QED
    BY <1>1, <1>3, <2>2, <2>3 DEF OneLaunch
<1> QED
  BY <1>4, <1>5

\* A step that touches neither symbols, requests nor connection.
LEMMA SymbolInvFrame ==
  ASSUME SymbolInv,
         UNCHANGED <<conn, asked, c2s, loaded, srcbps, bps>>
  PROVE  SymbolInv'
BY DEF SymbolInv, OneLaunch, BreakpointsFollowSymbols, Resolve

\* The invariant of the symbols is inductive.
LEMMA SymbolStep == TypeOK /\ SymbolInv /\ [Next]_vars => SymbolInv'
<1> SUFFICES ASSUME TypeOK, SymbolInv, [Next]_vars
             PROVE  SymbolInv'
  OBVIOUS
<1>1. CASE ClientInitialize
  BY <1>1, SendKeepsSymbolInv DEF ClientInitialize, Request, Once
<1>2. CASE ClientConfigurationDone
  BY <1>2, SendKeepsSymbolInv DEF ClientConfigurationDone, Request, Once
<1>3. CASE ClientQuery
  BY <1>3, SendKeepsSymbolInv DEF ClientQuery, Request, Once
<1>4. CASE ClientDisconnect
  BY <1>4, SendKeepsSymbolInv DEF ClientDisconnect, Request, Once
<1>5. CASE ClientLaunch
  <2>1. PICK arg \in LaunchArgs : Send("launch", arg)
    BY <1>5 DEF ClientLaunch
  <2> QED
    BY <1>5, <2>1, SendKeepsSymbolInv DEF ClientLaunch, Request
<1>6. CASE ClientResume
  <2>1. PICK cmd \in Resumes : Send(cmd, {})
    BY <1>6 DEF ClientResume
  <2> QED
    BY <1>6, <2>1, SendKeepsSymbolInv DEF ClientResume, Request, Resumes
<1>7. CASE ClientSetBreakpoints
  <2>1. PICK lines \in SUBSET Line : Send("setBreakpoints", lines)
    BY <1>7 DEF ClientSetBreakpoints
  <2> QED
    BY <1>7, <2>1, SendKeepsSymbolInv DEF ClientSetBreakpoints, Request
<1>8. CASE ClientSetInstructionBreakpoints
  <2>1. PICK addrs \in SUBSET InstrBreakable :
          Send("setInstructionBreakpoints", addrs)
    BY <1>8 DEF ClientSetInstructionBreakpoints
  <2> QED
    BY <1>8, <2>1, SendKeepsSymbolInv DEF ClientSetInstructionBreakpoints, Request
<1>9. CASE ClientHear
  BY <1>9, SymbolInvFrame DEF ClientHear, session
<1>10. CASE ClientClose
  BY <1>10 DEF ClientClose, SymbolInv, OneLaunch, BreakpointsFollowSymbols, Resolve,
     session
<1>11. CASE Accept
  <2>1. c2s' = <<>> /\ conn' = "open" /\ ~loaded' /\ bps' = {}
    BY <1>11 DEF Accept, NewSession, SymbolInv, OneLaunch
  <2> QED
    BY <2>1 DEF SymbolInv, OneLaunch, BreakpointsFollowSymbols
<1>12. CASE LaunchRequest
  <2>1. /\ Take({"launch"}) /\ c2s[1].cmd = "launch"
        /\ c2s[1].arg \in LaunchArgs \cup {{}}
    BY <1>12, TakeShifts DEF LaunchRequest, Request, Once, Resumes
  <2>2. OneLaunch'
    BY <2>1, TakeKeepsOneLaunch DEF SymbolInv
  <2>3. ~loaded /\ bps = {}
    BY <2>1, TakeShifts DEF SymbolInv, OneLaunch, BreakpointsFollowSymbols
  <2>4. /\ loaded' = ("symbols" \in c2s[1].arg) /\ srcbps' = srcbps
        /\ bps' = IF "program" \notin c2s[1].arg THEN bps
                  ELSE IF "symbols" \in c2s[1].arg THEN Resolve(srcbps) ELSE {}
    BY <1>12, <2>1, TakeShifts DEF LaunchRequest
  <2>5. "symbols" \in c2s[1].arg => "program" \in c2s[1].arg
    BY <2>1, LaunchAssumption
  <2>6. BreakpointsFollowSymbols'
    BY <2>3, <2>4, <2>5 DEF BreakpointsFollowSymbols, Resolve
  <2> QED
    BY <2>2, <2>6 DEF SymbolInv
<1>13. CASE SetBreakpointsRequest
  <2>1. Take({"setBreakpoints"}) /\ loaded' = loaded
        /\ bps' = IF loaded THEN Resolve(srcbps') ELSE {}
    BY <1>13 DEF SetBreakpointsRequest
  <2>2. OneLaunch'
    BY <2>1, TakeKeepsOneLaunch DEF SymbolInv
  <2> QED
    BY <2>1, <2>2 DEF SymbolInv, BreakpointsFollowSymbols, Resolve
<1>14. CASE InitializeRequest
  <2>1. PICK cmds : Take(cmds)
    BY <1>14 DEF InitializeRequest
  <2>2. loaded' = loaded /\ srcbps' = srcbps /\ bps' = bps
    BY <1>14 DEF InitializeRequest, session
  <2>3. OneLaunch'
    BY <2>1, <2>2, TakeKeepsOneLaunch DEF SymbolInv
  <2> QED
    BY <2>2, <2>3 DEF SymbolInv, BreakpointsFollowSymbols, Resolve
<1>15. CASE ConfigurationDoneRequest
  <2>1. PICK cmds : Take(cmds)
    BY <1>15 DEF ConfigurationDoneRequest
  <2>2. loaded' = loaded /\ srcbps' = srcbps /\ bps' = bps
    BY <1>15 DEF ConfigurationDoneRequest, session
  <2>3. OneLaunch'
    BY <2>1, <2>2, TakeKeepsOneLaunch DEF SymbolInv
  <2> QED
    BY <2>2, <2>3 DEF SymbolInv, BreakpointsFollowSymbols, Resolve
<1>16. CASE SetInstructionBreakpointsRequest
  <2>1. PICK cmds : Take(cmds)
    BY <1>16 DEF SetInstructionBreakpointsRequest
  <2>2. loaded' = loaded /\ srcbps' = srcbps /\ bps' = bps
    BY <1>16 DEF SetInstructionBreakpointsRequest, session
  <2>3. OneLaunch'
    BY <2>1, <2>2, TakeKeepsOneLaunch DEF SymbolInv
  <2> QED
    BY <2>2, <2>3 DEF SymbolInv, BreakpointsFollowSymbols, Resolve
<1>17. CASE QueryRequest
  <2>1. PICK cmds : Take(cmds)
    BY <1>17 DEF QueryRequest
  <2>2. loaded' = loaded /\ srcbps' = srcbps /\ bps' = bps
    BY <1>17 DEF QueryRequest, session
  <2>3. OneLaunch'
    BY <2>1, <2>2, TakeKeepsOneLaunch DEF SymbolInv
  <2> QED
    BY <2>2, <2>3 DEF SymbolInv, BreakpointsFollowSymbols, Resolve
<1>18. CASE DisconnectRequest
  <2>1. PICK cmds : Take(cmds)
    BY <1>18 DEF DisconnectRequest
  <2>2. loaded' = loaded /\ srcbps' = srcbps /\ bps' = bps
    BY <1>18 DEF DisconnectRequest, session
  <2>3. OneLaunch'
    BY <2>1, <2>2, TakeKeepsOneLaunch DEF SymbolInv
  <2> QED
    BY <2>2, <2>3 DEF SymbolInv, BreakpointsFollowSymbols, Resolve
<1>19. CASE StepRequest
  <2>1. PICK cmds : Take(cmds)
    BY <1>19 DEF StepRequest
  <2>2. loaded' = loaded /\ srcbps' = srcbps /\ bps' = bps
    BY <1>19 DEF StepRequest, session
  <2>3. OneLaunch'
    BY <2>1, <2>2, TakeKeepsOneLaunch DEF SymbolInv
  <2> QED
    BY <2>2, <2>3 DEF SymbolInv, BreakpointsFollowSymbols, Resolve
<1>20. CASE ContinueRequest
  <2>1. PICK cmds : Take(cmds)
    BY <1>20 DEF ContinueRequest
  <2>2. loaded' = loaded /\ srcbps' = srcbps /\ bps' = bps
    BY <1>20 DEF ContinueRequest, session
  <2>3. OneLaunch'
    BY <2>1, <2>2, TakeKeepsOneLaunch DEF SymbolInv
  <2> QED
    BY <2>2, <2>3 DEF SymbolInv, BreakpointsFollowSymbols, Resolve
<1>21. CASE NextRequest
  <2>1. PICK cmds : Take(cmds)
    BY <1>21 DEF NextRequest
  <2>2. loaded' = loaded /\ srcbps' = srcbps /\ bps' = bps
    BY <1>21 DEF NextRequest, session
  <2>3. OneLaunch'
    BY <2>1, <2>2, TakeKeepsOneLaunch DEF SymbolInv
  <2> QED
    BY <2>2, <2>3 DEF SymbolInv, BreakpointsFollowSymbols, Resolve
<1>22. CASE \/ ContinueStep \/ ContinueReturn \/ NextStep \/ NextReturn
            \/ MainLoad \/ MainStore \/ MainEmit \/ MainReply
  BY <1>22, SymbolInvFrame DEF ContinueStep, ContinueReturn, NextStep, NextReturn,
     MainLoad, MainStore, MainEmit, MainReply, Inside, client, session
<1>23. CASE EndSession
  <2>1. c2s' = <<>> /\ conn' = "none" /\ ~loaded' /\ bps' = {}
    BY <1>23 DEF EndSession, NewSession
  <2> QED
    BY <2>1 DEF SymbolInv, OneLaunch, BreakpointsFollowSymbols
<1>24. ASSUME NEW t \in Timer, TimerStep(t) \/ OrphanVanish(t) \/ OrphanAdopted(t)
       PROVE  SymbolInv'
  BY <1>24, SymbolInvFrame DEF TimerStep, TimerLoad, TimerStore, TimerSend,
     OrphanVanish, OrphanAdopted, client, session
<1>25. ASSUME NEW t \in Timer, OrphanCrash(t)
       PROVE  SymbolInv'
  <2>1. c2s' = <<>> /\ conn' = "none" /\ ~loaded' /\ bps' = {}
    BY <1>25 DEF OrphanCrash, NewSession
  <2> QED
    BY <2>1 DEF SymbolInv, OneLaunch, BreakpointsFollowSymbols
<1>26. CASE UNCHANGED vars
  BY <1>26, SymbolInvFrame DEF vars, client, session
<1> QED
  BY <1>1, <1>2, <1>3, <1>4, <1>5, <1>6, <1>7, <1>8, <1>9, <1>10, <1>11, <1>12, <1>13, <1>14, <1>15, <1>16, <1>17, <1>18, <1>19, <1>20, <1>21, <1>22, <1>23, <1>24, <1>25, <1>26
     DEF Next, Client, Main, Orphan, TimerStep

(***************************************************************************)
(* For every client, symbol table and order of launch and setBreakpoints:  *)
(* continue compares the program counter with the addresses the loaded     *)
(* symbols give the lines asked for last.                                  *)
(***************************************************************************)
THEOREM BreakpointsCorrect == Spec => []BreakpointsFollowSymbols
<1>1. Init => SymbolInv
  BY DEF Init, SymbolInv, OneLaunch, BreakpointsFollowSymbols
<1>2. SymbolInv => BreakpointsFollowSymbols
  BY DEF SymbolInv
<1> QED
  BY <1>1, <1>2, SymbolStep, TypeCorrect, PTL DEF Spec

\* The loop of continue looks at every address it reaches.
LEMMA StopFlagStep == TypeOK /\ StopFlag /\ [Next]_vars => StopFlag'
<1> SUFFICES ASSUME TypeOK, StopFlag, [Next]_vars
             PROVE  StopFlag'
  OBVIOUS
<1>1. CASE Client
  BY <1>1 DEF Client, ClientInitialize, ClientLaunch, ClientConfigurationDone,
     ClientResume, ClientSetBreakpoints, ClientSetInstructionBreakpoints,
     ClientQuery, ClientDisconnect, ClientHear, ClientClose, Send, session, locals,
     StopFlag
<1>2. CASE \/ InitializeRequest \/ LaunchRequest \/ ConfigurationDoneRequest
           \/ SetBreakpointsRequest \/ SetInstructionBreakpointsRequest
           \/ QueryRequest \/ DisconnectRequest \/ StepRequest \/ NextRequest
  BY <1>2 DEF InitializeRequest, LaunchRequest, ConfigurationDoneRequest,
     SetBreakpointsRequest, SetInstructionBreakpointsRequest, QueryRequest,
     DisconnectRequest, StepRequest, NextRequest, StopFlag
<1>3. CASE ContinueRequest
  BY <1>3 DEF ContinueRequest, StopFlag
<1>4. CASE ContinueStep
  BY <1>4 DEF ContinueStep, StopFlag
<1>5. CASE \/ Accept \/ EndSession \/ ContinueReturn \/ NextStep \/ NextReturn
           \/ MainLoad \/ MainStore \/ MainEmit \/ MainReply
  BY <1>5 DEF Accept, EndSession, ContinueReturn, NextStep, NextReturn, MainLoad,
     MainStore, MainEmit, MainReply, Inside, StopFlag
<1>6. ASSUME NEW t \in Timer, TimerStep(t) \/ Orphan(t)
      PROVE  StopFlag'
  BY <1>6 DEF TimerStep, TimerLoad, TimerStore, TimerSend, Orphan, OrphanCrash,
     OrphanVanish, OrphanAdopted, session, locals, StopFlag
<1>7. CASE UNCHANGED vars
  BY <1>7 DEF vars, session, locals, StopFlag
<1> QED
  BY <1>1, <1>2, <1>3, <1>4, <1>5, <1>6, <1>7 DEF Next, Main

(***************************************************************************)
(* For every client, with every habit, program and symbol table: continue  *)
(* does not run on past an instruction breakpoint, nor past an address the *)
(* symbols give a line the client asked for.                               *)
(***************************************************************************)
THEOREM ContinueStopsAtBreakpoints == Spec => []ContinueHonoursBreakpoints
<1>1. Init => StopFlag
  BY DEF Init, StopFlag
<1>2. TypeOK /\ StopFlag /\ BreakpointsFollowSymbols => ContinueHonoursBreakpoints
  BY DEF StopFlag, BreakpointsFollowSymbols, ContinueHonoursBreakpoints, Continuing
<1> QED
  BY <1>1, <1>2, StopFlagStep, BreakpointsCorrect, TypeCorrect, PTL DEF Spec

-----------------------------------------------------------------------------
(* Responses in the order of the requests. *)

\* A finite set of places moved one forward has as many elements.
LEMMA ShiftedCount ==
  ASSUME NEW S \in SUBSET (Nat \ {0}), IsFiniteSet(S)
  PROVE  LET T == {i \in Nat : i + 1 \in S}
         IN  IsFiniteSet(T) /\ Cardinality(T) = Cardinality(S)
<1> DEFINE T == {i \in Nat : i + 1 \in S}
           f == [j \in S |-> j - 1]
<1>1. f \in [S -> T]
  OBVIOUS
<1>2. \A a, b \in S : f[a] = f[b] => a = b
  OBVIOUS
<1>3. \A i \in T : i + 1 \in S /\ f[i + 1] = i
  OBVIOUS
<1>4. f \in Bijection(S, T)
  BY <1>1, <1>2, <1>3 DEF Bijection, Injection, Surjection, IsInjective
<1> QED
  BY <1>4, FS_Bijection DEF ExistsBijection

\* The answers in a channel are finitely many, and fewer are before each.
LEMMA AnswersCount ==
  ASSUME NEW s \in Seq(Message)
  PROVE  /\ IsFiniteSet(Answers(s)) /\ Cardinality(Answers(s)) \in Nat
         /\ \A i : /\ IsFiniteSet({j \in Answers(s) : j < i})
                   /\ AnswersBefore(s, i) \in Nat
         /\ \A i \in Answers(s) : AnswersBefore(s, i) < Cardinality(Answers(s))
<1>1. IsFiniteSet(Answers(s)) /\ Cardinality(Answers(s)) \in Nat
  <2>1. IsFiniteSet(1..Len(s))
    BY FS_Interval
  <2>2. Answers(s) \in SUBSET (1..Len(s))
    BY DEF Answers
  <2> QED
    BY <2>1, <2>2, FS_Subset, FS_CardinalityType
<1>2. ASSUME NEW i
      PROVE  /\ IsFiniteSet({j \in Answers(s) : j < i})
             /\ AnswersBefore(s, i) \in Nat
             /\ i \in Answers(s) => AnswersBefore(s, i) < Cardinality(Answers(s))
  <2>1. {j \in Answers(s) : j < i} \in SUBSET Answers(s)
    OBVIOUS
  <2>2. /\ IsFiniteSet({j \in Answers(s) : j < i})
        /\ AnswersBefore(s, i) \in Nat
        /\ AnswersBefore(s, i) <= Cardinality(Answers(s))
    BY <1>1, <2>1, FS_Subset, FS_CardinalityType DEF AnswersBefore
  <2>3. ASSUME i \in Answers(s)
        PROVE  AnswersBefore(s, i) < Cardinality(Answers(s))
    <3>1. i \notin {j \in Answers(s) : j < i}
      BY <2>3 DEF Answers
    <3>2. {j \in Answers(s) : j < i} # Answers(s)
      BY <2>3, <3>1
    <3>3. AnswersBefore(s, i) # Cardinality(Answers(s))
      BY <1>1, <2>1, <3>2, FS_Subset DEF AnswersBefore
    <3> QED
      BY <1>1, <2>2, <3>3
  <2> QED
    BY <2>2, <2>3
<1> QED
  BY <1>1, <1>2

\* An event added to a channel changes no count of answers.
LEMMA EventUncounted ==
  ASSUME NEW s \in Seq(Message), NEW m \in Message, m.kind # "response"
  PROVE  /\ Answers(Append(s, m)) = Answers(s)
         /\ \A i : AnswersBefore(Append(s, m), i) = AnswersBefore(s, i)
<1>1. Answers(Append(s, m)) = Answers(s)
  BY AppendFacts DEF Answers
<1> QED
  BY <1>1 DEF AnswersBefore

\* A response added to a channel comes after all others.
LEMMA ResponseCounted ==
  ASSUME NEW s \in Seq(Message), NEW m \in Message, m.kind = "response"
  PROVE  /\ Answers(Append(s, m)) = Answers(s) \cup {Len(s) + 1}
         /\ Cardinality(Answers(Append(s, m))) = Cardinality(Answers(s)) + 1
         /\ \A i \in Answers(s) :
              AnswersBefore(Append(s, m), i) = AnswersBefore(s, i)
         /\ AnswersBefore(Append(s, m), Len(s) + 1) = Cardinality(Answers(s))
<1>1. Answers(Append(s, m)) = Answers(s) \cup {Len(s) + 1}
  BY AppendFacts DEF Answers
<1>2. \A i \in Answers(s) : i \in Nat /\ i < Len(s) + 1 /\ i # Len(s) + 1
  BY DEF Answers
<1>3. Cardinality(Answers(Append(s, m))) = Cardinality(Answers(s)) + 1
  <2>1. Len(s) + 1 \notin Answers(s)
    BY <1>2
  <2> QED
    BY <1>1, <2>1, AnswersCount, FS_AddElement
<1>4. ASSUME NEW i \in Answers(s)
      PROVE  AnswersBefore(Append(s, m), i) = AnswersBefore(s, i)
  <2>1. ~(Len(s) + 1 < i)
    BY <1>2
  <2>2. {j \in Answers(Append(s, m)) : j < i} = {j \in Answers(s) : j < i}
    BY <1>1, <2>1
  <2> QED
    BY <2>2 DEF AnswersBefore
<1>5. AnswersBefore(Append(s, m), Len(s) + 1) = Cardinality(Answers(s))
  <2>1. ~(Len(s) + 1 < Len(s) + 1)
    OBVIOUS
  <2>2. {j \in Answers(Append(s, m)) : j < Len(s) + 1} = Answers(s)
    BY <1>1, <1>2, <2>1
  <2> QED
    BY <2>2 DEF AnswersBefore
<1> QED
  BY <1>1, <1>3, <1>4, <1>5

\* The first message read, the answers of the rest move one place forward, and
\* are one fewer if it was one.
LEMMA AnswersShift ==
  ASSUME NEW s \in Seq(Message), s # <<>>
  PROVE  LET first == IF Head(s).kind = "response" THEN 1 ELSE 0
         IN  /\ Cardinality(Answers(Tail(s))) = Cardinality(Answers(s)) - first
             /\ \A i \in Answers(Tail(s)) :
                  /\ i + 1 \in Answers(s) /\ Tail(s)[i] = s[i + 1]
                  /\ AnswersBefore(Tail(s), i) = AnswersBefore(s, i + 1) - first
<1> DEFINE first == IF Head(s).kind = "response" THEN 1 ELSE 0
           Later(S) == {i \in Nat : i + 1 \in S}
<1>1. \A i \in Answers(Tail(s)) : i + 1 \in Answers(s) /\ Tail(s)[i] = s[i + 1]
  BY TailFacts DEF Answers
<1>2. /\ 1 \in Answers(s) <=> Head(s).kind = "response"
      /\ Answers(s) \in SUBSET (Nat \ {0})
  BY TailFacts DEF Answers
<1>3. Answers(Tail(s)) = Later(Answers(s) \ {1})
  <2>1. ASSUME NEW i \in Nat, i + 1 \in Answers(s), i # 0
        PROVE  i \in Answers(Tail(s))
    BY <2>1, TailFacts DEF Answers
  <2>2. \A i \in Answers(Tail(s)) : i \in Nat /\ i # 0 /\ i + 1 # 1
    BY DEF Answers
  <2> QED
    BY <1>1, <2>1, <2>2
<1>4. ASSUME NEW S \in SUBSET Answers(s), 1 \in Answers(s) => 1 \in S
      PROVE  Cardinality(Later(S \ {1})) = Cardinality(S) - first
  <2>1. IsFiniteSet(S)
    BY AnswersCount, FS_Subset
  <2>2. /\ IsFiniteSet(S \ {1})
        /\ Cardinality(S \ {1}) = IF 1 \in S THEN Cardinality(S) - 1 ELSE Cardinality(S)
    BY <2>1, FS_RemoveElement
  <2>3. S \ {1} \in SUBSET (Nat \ {0})
    BY <1>2
  <2>4. Cardinality(Later(S \ {1})) = Cardinality(S \ {1})
    BY <2>2, <2>3, ShiftedCount
  <2>5. Cardinality(S) \in Nat
    BY <2>1, FS_CardinalityType
  <2> HIDE DEF Later
  <2> QED
    BY <1>2, <1>4, <2>2, <2>4, <2>5
<1>5. Cardinality(Answers(Tail(s))) = Cardinality(Answers(s)) - first
  BY <1>3, <1>4
<1>6. ASSUME NEW i \in Answers(Tail(s))
      PROVE  AnswersBefore(Tail(s), i) = AnswersBefore(s, i + 1) - first
  <2> DEFINE S == {j \in Answers(s) : j < i + 1}
  <2>1. i \in Nat /\ i # 0
    BY DEF Answers
  <2>2. S \in SUBSET Answers(s) /\ (1 \in Answers(s) => 1 \in S)
    BY <2>1
  <2>3. {j \in Answers(Tail(s)) : j < i} = Later(S \ {1})
    BY <1>3, <2>1
  <2>4. Cardinality(Later(S \ {1})) = Cardinality(S) - first
    BY <1>4, <2>2
  <2> QED
    BY <2>3, <2>4 DEF AnswersBefore
<1> QED
  BY <1>1, <1>5, <1>6

\* A request sent is the last of those the client has no response for.
LEMMA SendOrders ==
  ASSUME TypeOK, OrderInv, NEW cmd \in Commands, NEW arg,
         [cmd |-> cmd, arg |-> arg] \in Request, Send(cmd, arg)
  PROVE  OrderInv'
<1> DEFINE n == Cardinality(Answers(s2c))
<1>1. conn = "open" /\ UNCHANGED <<conn, s2c, mpc, req>>
  BY DEF Send
<1>2. /\ ledger' = Append(ledger, cmd) /\ ledger \in Seq(Commands)
      /\ Len(ledger') = Len(ledger) + 1 /\ Len(ledger) \in Nat
      /\ \A i \in 1..Len(ledger) : ledger'[i] = ledger[i]
      /\ ledger'[Len(ledger) + 1] = cmd
  BY AppendFacts DEF Send, TypeOK, ClientTypes
<1>3. /\ n \in Nat /\ Serving \in {0, 1}
      /\ \A i \in Answers(s2c) :
           AnswersBefore(s2c, i) \in Nat /\ AnswersBefore(s2c, i) < n
  BY AnswersCount DEF TypeOK, ChannelTypes, Serving
<1> HIDE DEF n
<1>4. /\ Len(ledger) = n + Serving + Len(c2s) /\ Len(c2s) \in Nat
      /\ Len(c2s') = Len(c2s) + 1
      /\ \A i \in 1..Len(c2s) : c2s'[i] = c2s[i]
      /\ c2s'[Len(c2s) + 1].cmd = cmd
  BY <1>1, SendAdds DEF OrderInv, ResponsesInOrder, n
<1>5. Len(ledger') = n + Serving + Len(c2s')
  BY <1>2, <1>3, <1>4
<1>6. ASSUME NEW i \in Answers(s2c)
      PROVE  s2c[i].what = ledger'[AnswersBefore(s2c, i) + 1]
  <2>1. AnswersBefore(s2c, i) + 1 \in 1..Len(ledger)
    BY <1>3, <1>4
  <2> QED
    BY <1>1, <1>2, <2>1 DEF OrderInv, ResponsesInOrder
<1>7. Serving = 1 => req.cmd = ledger'[n + 1]
  <2>1. Serving = 1 => n + 1 \in 1..Len(ledger)
    BY <1>3, <1>4
  <2> QED
    BY <1>1, <1>2, <2>1 DEF OrderInv, ResponsesInOrder, n
<1>8. ASSUME NEW i \in 1..Len(c2s')
      PROVE  c2s'[i].cmd = ledger'[n + Serving + i]
  <2>1. CASE i \in 1..Len(c2s)
    <3>1. n + Serving + i \in 1..Len(ledger)
      BY <1>3, <1>4, <2>1
    <3>2. c2s[i].cmd = ledger[n + Serving + i]
      BY <1>1, <2>1 DEF OrderInv, ResponsesInOrder, n
    <3> QED
      BY <1>2, <1>4, <2>1, <3>1, <3>2
  <2>2. CASE i = Len(c2s) + 1
    <3>1. n \in Nat /\ Serving \in Nat
      BY <1>3
    <3>2. n + Serving + i = Len(ledger) + 1
      BY <1>4, <2>2, <3>1
    <3> QED
      BY <1>2, <1>4, <2>2, <3>2
  <2> QED
    BY <1>4, <2>1, <2>2
<1>9. Serving' = Serving
  BY <1>1 DEF Serving
<1> QED
  BY <1>1, <1>5, <1>6, <1>7, <1>8, <1>9 DEF OrderInv, ResponsesInOrder, n

\* A request taken is the next to be answered.
LEMMA TakeOrders ==
  ASSUME TypeOK, OrderInv, NEW cmds, Take(cmds),
         mpc' \in {"run", "step", "load", "reply"}
  PROVE  OrderInv'
<1> DEFINE n == Cardinality(Answers(s2c))
<1>1. UNCHANGED <<conn, s2c, ledger>> /\ mpc = "read" /\ conn # "none"
  BY DEF Take, client, OrderInv
<1>2. Serving = 0 /\ Serving' = 1
  BY <1>1 DEF Serving
<1>3. /\ Len(c2s) \in Nat /\ Len(c2s') = Len(c2s) - 1 /\ 1 \in 1..Len(c2s)
      /\ \A i \in 1..Len(c2s') : i + 1 \in 1..Len(c2s) /\ c2s'[i] = c2s[i + 1]
      /\ req' = c2s[1]
  BY TakeShifts
<1>4. n \in Nat
  BY AnswersCount DEF TypeOK, ChannelTypes
<1> HIDE DEF n
<1>5. ASSUME conn = "open"
      PROVE  /\ Len(ledger) = n + 1 + Len(c2s')
             /\ req'.cmd = ledger[n + 1]
             /\ \A i \in 1..Len(c2s') : c2s'[i].cmd = ledger[n + 1 + i]
  <2>1. /\ Len(ledger) = n + 0 + Len(c2s)
        /\ \A i \in 1..Len(c2s) : c2s[i].cmd = ledger[n + 0 + i]
    BY <1>2, <1>5 DEF OrderInv, ResponsesInOrder, n
  <2>2. n + 0 + 1 = n + 1 /\ \A i \in 1..Len(c2s') : n + 0 + (i + 1) = n + 1 + i
    BY <1>4
  <2> QED
    BY <1>3, <1>4, <2>1, <2>2
<1>6. ResponsesInOrder'
  BY <1>1, <1>2, <1>5 DEF OrderInv, ResponsesInOrder, n
<1> QED
  BY <1>1, <1>6 DEF OrderInv

\* An event sent comes between the responses.
LEMMA EventOrders ==
  ASSUME TypeOK, OrderInv, NEW m \in Message, m.kind # "response", Emit(m),
         UNCHANGED <<conn, ledger, c2s, req>>,
         mpc' = mpc \/ (mpc = "emit" /\ mpc' = "reply")
  PROVE  OrderInv'
<1>1. Serving' = Serving
  BY DEF Serving
<1>2. s2c \in Seq(Message)
  BY DEF TypeOK, ChannelTypes
<1>3. CASE conn = "open"
  <2>1. s2c' = Append(s2c, m)
    BY <1>3 DEF Emit
  <2>2. /\ Answers(s2c') = Answers(s2c)
        /\ \A i : AnswersBefore(s2c', i) = AnswersBefore(s2c, i)
    BY <1>2, <2>1, EventUncounted
  <2>3. \A i \in Answers(s2c) : s2c'[i] = s2c[i]
    BY <1>2, <2>1, AppendFacts DEF Answers
  <2> QED
    BY <1>1, <1>3, <2>2, <2>3 DEF OrderInv, ResponsesInOrder
<1>4. CASE conn # "open"
  BY <1>4 DEF Emit, OrderInv, ResponsesInOrder
<1> QED
  BY <1>3, <1>4

\* The response sent is that to the request served, and comes last.
LEMMA ReplyOrders ==
  ASSUME TypeOK, OrderInv, MainReply
  PROVE  OrderInv'
<1> DEFINE n == Cardinality(Answers(s2c))
<1>1. /\ UNCHANGED <<conn, ledger, c2s>> /\ mpc = "reply" /\ mpc' = "read"
      /\ Emit(Response(req.cmd))
  BY DEF MainReply, Inside, client
<1>2. Serving = 1 /\ Serving' = 0
  BY <1>1 DEF Serving
<1>3. /\ s2c \in Seq(Message) /\ Response(req.cmd) \in Message
      /\ Response(req.cmd).kind = "response" /\ Response(req.cmd).what = req.cmd
  BY DEF TypeOK, ChannelTypes, MainTypes, Request, Response, Message, Commands, Once,
     Resumes
<1>4. n \in Nat /\ Len(c2s) \in Nat
  BY AnswersCount DEF TypeOK, ChannelTypes
<1>5. CASE conn = "open"
  <2>1. s2c' = Append(s2c, Response(req.cmd))
    BY <1>1, <1>5 DEF Emit
  <2>2. /\ Answers(s2c') = Answers(s2c) \cup {Len(s2c) + 1}
        /\ Cardinality(Answers(s2c')) = n + 1
        /\ \A i \in Answers(s2c) : AnswersBefore(s2c', i) = AnswersBefore(s2c, i)
        /\ AnswersBefore(s2c', Len(s2c) + 1) = n
    BY <1>3, <2>1, ResponseCounted
  <2>3. /\ \A i \in Answers(s2c) : s2c'[i] = s2c[i]
        /\ s2c'[Len(s2c) + 1] = Response(req.cmd)
    BY <1>3, <2>1, AppendFacts DEF Answers
  <2>4. /\ Len(ledger) = n + 1 + Len(c2s)
        /\ \A i \in Answers(s2c) : s2c[i].what = ledger[AnswersBefore(s2c, i) + 1]
        /\ req.cmd = ledger[n + 1]
        /\ \A i \in 1..Len(c2s) : c2s[i].cmd = ledger[n + 1 + i]
    BY <1>2, <1>5 DEF OrderInv, ResponsesInOrder
  <2> HIDE DEF n
  <2>5. \A i \in Answers(s2c') : s2c'[i].what = ledger[AnswersBefore(s2c', i) + 1]
    BY <1>3, <2>2, <2>3, <2>4
  <2>6. \A i \in 1..Len(c2s) : n + 1 + 0 + i = n + 1 + i /\ n + 1 + 0 = n + 1
    BY <1>4
  <2>7. \A i \in 1..Len(c2s) : c2s[i].cmd = ledger[n + 1 + 0 + i]
    BY <2>4, <2>6
  <2>8. Len(ledger) = n + 1 + 0 + Len(c2s)
    BY <1>4, <2>4
  <2>9. /\ Len(ledger') = Cardinality(Answers(s2c')) + Serving' + Len(c2s')
        /\ \A i \in 1..Len(c2s') :
             c2s'[i].cmd = ledger'[Cardinality(Answers(s2c')) + Serving' + i]
    BY <1>1, <1>2, <2>2, <2>7, <2>8
  <2>10. ResponsesInOrder'
    BY <1>1, <1>2, <2>5, <2>9 DEF ResponsesInOrder
  <2> QED
    BY <1>1, <1>5, <2>10 DEF OrderInv
<1>6. CASE conn # "open"
  BY <1>1, <1>6 DEF Emit, OrderInv, ResponsesInOrder
<1> QED
  BY <1>5, <1>6

\* The client hears the answer to its oldest request.
LEMMA HearOrders ==
  ASSUME TypeOK, OrderInv, ClientHear
  PROVE  OrderInv'
<1> DEFINE n == Cardinality(Answers(s2c))
           first == IF Head(s2c).kind = "response" THEN 1 ELSE 0
<1>1. /\ UNCHANGED <<conn, c2s, mpc, req>> /\ conn = "open" /\ s2c # <<>>
      /\ s2c' = Tail(s2c)
      /\ Head(s2c).kind = "event" => ledger' = ledger
      /\ Head(s2c).kind = "response" =>
           ledger' = IF ledger = <<>> THEN ledger ELSE Tail(ledger)
  BY DEF ClientHear
<1>2. /\ s2c \in Seq(Message) /\ ledger \in Seq(Commands) /\ Len(c2s) \in Nat
      /\ Serving \in {0, 1} /\ Serving' = Serving
  BY <1>1 DEF TypeOK, ChannelTypes, ClientTypes, Serving
<1>3. /\ Cardinality(Answers(s2c')) = n - first
      /\ \A i \in Answers(s2c') :
           /\ i + 1 \in Answers(s2c) /\ s2c'[i] = s2c[i + 1]
           /\ AnswersBefore(s2c', i) = AnswersBefore(s2c, i + 1) - first
  BY <1>1, <1>2, AnswersShift
<1>4. /\ n \in Nat /\ Cardinality(Answers(s2c')) \in Nat /\ s2c' \in Seq(Message)
      /\ \A i \in Answers(s2c') : AnswersBefore(s2c', i) \in Nat
      /\ \A i \in Answers(s2c) : AnswersBefore(s2c, i) \in Nat
      /\ \A i \in Answers(s2c') : AnswersBefore(s2c', i) < Cardinality(Answers(s2c'))
  <2>1. s2c' \in Seq(Message)
    BY <1>1, <1>2, TailFacts
  <2> QED
    BY <1>2, <2>1, AnswersCount
<1>5. Head(s2c).kind \in {"event", "response"}
  <2>1. Head(s2c) \in Message
    BY <1>1, <1>2, TailFacts
  <2> QED
    BY <2>1 DEF Message
<1> HIDE DEF n
<1>6. /\ Len(ledger) = n + Serving + Len(c2s)
      /\ \A i \in Answers(s2c) : s2c[i].what = ledger[AnswersBefore(s2c, i) + 1]
      /\ Serving = 1 => req.cmd = ledger[n + 1]
      /\ \A i \in 1..Len(c2s) : c2s[i].cmd = ledger[n + Serving + i]
  BY <1>1 DEF OrderInv, ResponsesInOrder, n
<1>7. CASE Head(s2c).kind = "event"
  <2>1. first = 0 /\ ledger' = ledger
    BY <1>1, <1>7
  <2>2. Cardinality(Answers(s2c')) = n
    BY <1>3, <1>4, <2>1
  <2>3. \A i \in Answers(s2c') : s2c'[i].what = ledger'[AnswersBefore(s2c', i) + 1]
    BY <1>3, <1>4, <1>6, <2>1
  <2> QED
    BY <1>1, <1>2, <1>6, <2>1, <2>2, <2>3 DEF OrderInv, ResponsesInOrder
<1>8. CASE Head(s2c).kind = "response"
  <2>1. first = 1 /\ n - 1 \in Nat
    BY <1>3, <1>4, <1>8
  <2> HIDE DEF first
  <2>2. ledger # <<>>
    <3>1. Len(ledger) # 0
      BY <1>2, <1>4, <1>6, <2>1
    <3> QED
      BY <3>1
  <2>3. /\ ledger' = Tail(ledger) /\ Len(ledger') = Len(ledger) - 1
        /\ \A i \in 1..Len(ledger') : ledger'[i] = ledger[i + 1]
    <3>1. ledger' = Tail(ledger)
      BY <1>1, <1>8, <2>2
    <3>2. ledger \in Seq(Commands)
      BY <1>2
    <3> QED
      BY <2>2, <3>1, <3>2, TailFacts
  <2>4. Cardinality(Answers(s2c')) = n - 1
    BY <1>3, <2>1
  <2>5. Len(ledger') = (n - 1) + Serving + Len(c2s)
    BY <1>2, <1>4, <1>6, <2>3
  <2>6. ASSUME NEW i \in Answers(s2c')
        PROVE  s2c'[i].what = ledger'[AnswersBefore(s2c', i) + 1]
    <3>1. /\ AnswersBefore(s2c', i) + 1 \in 1..Len(ledger')
          /\ (AnswersBefore(s2c', i) + 1) + 1 = AnswersBefore(s2c, i + 1) + 1
      BY <1>2, <1>3, <1>4, <2>1, <2>4, <2>5
    <3> QED
      BY <1>3, <1>6, <2>3, <3>1
  <2>7. Serving = 1 => req.cmd = ledger'[(n - 1) + 1]
    <3>1. Serving = 1 => /\ (n - 1) + 1 \in 1..Len(ledger')
                         /\ ((n - 1) + 1) + 1 = n + 1
      BY <1>2, <1>4, <2>1, <2>5
    <3> QED
      BY <1>6, <2>3, <3>1
  <2>8. ASSUME NEW i \in 1..Len(c2s)
        PROVE  c2s[i].cmd = ledger'[(n - 1) + Serving + i]
    <3>1. /\ (n - 1) + Serving + i \in 1..Len(ledger')
          /\ ((n - 1) + Serving + i) + 1 = n + Serving + i
      BY <1>2, <1>4, <2>1, <2>5
    <3> QED
      BY <1>6, <2>3, <3>1
  <2>9. ResponsesInOrder'
    BY <1>1, <1>2, <2>4, <2>5, <2>6, <2>7, <2>8 DEF ResponsesInOrder
  <2> QED
    BY <1>1, <2>9 DEF OrderInv
<1> QED
  BY <1>5, <1>7, <1>8

\* A step inside the server that sends nothing keeps the order.
LEMMA OrderFrame ==
  ASSUME OrderInv, UNCHANGED <<conn, ledger, c2s, s2c, req>>,
         \/ mpc' = mpc
         \/ /\ mpc \in {"run", "step", "load", "store"}
            /\ mpc' \in {"run", "step", "load", "store", "emit", "reply"}
  PROVE  OrderInv'
<1>1. Serving' = Serving
  BY DEF Serving
<1> QED
  BY <1>1 DEF OrderInv, ResponsesInOrder

\* A session starts without answers.
LEMMA NoAnswers == Answers(<<>>) = {} /\ Cardinality(Answers(<<>>)) = 0
<1>1. Answers(<<>>) = {}
  BY DEF Answers
<1> QED
  BY <1>1, FS_EmptySet

\* The invariant of the responses is inductive, for every client.
LEMMA OrderStep == TypeOK /\ OrderInv /\ [Next]_vars => OrderInv'
<1> SUFFICES ASSUME TypeOK, OrderInv, [Next]_vars
             PROVE  OrderInv'
  OBVIOUS
<1>1. CASE ClientInitialize
  BY <1>1, SendOrders DEF ClientInitialize, Request, Once, Commands
<1>2. CASE ClientConfigurationDone
  BY <1>2, SendOrders DEF ClientConfigurationDone, Request, Once, Commands
<1>3. CASE ClientQuery
  BY <1>3, SendOrders DEF ClientQuery, Request, Commands
<1>4. CASE ClientDisconnect
  BY <1>4, SendOrders DEF ClientDisconnect, Request, Once, Commands
<1>5. CASE ClientLaunch
  <2>1. PICK arg \in LaunchArgs : Send("launch", arg)
    BY <1>5 DEF ClientLaunch
  <2> QED
    BY <2>1, SendOrders DEF Request, Once, Commands
<1>6. CASE ClientResume
  <2>1. PICK cmd \in Resumes : Send(cmd, {})
    BY <1>6 DEF ClientResume
  <2> QED
    BY <2>1, SendOrders DEF Request, Commands
<1>7. CASE ClientSetBreakpoints
  <2>1. PICK lines \in SUBSET Line : Send("setBreakpoints", lines)
    BY <1>7 DEF ClientSetBreakpoints
  <2> QED
    BY <2>1, SendOrders DEF Request, Commands
<1>8. CASE ClientSetInstructionBreakpoints
  <2>1. PICK addrs \in SUBSET InstrBreakable :
          Send("setInstructionBreakpoints", addrs)
    BY <1>8 DEF ClientSetInstructionBreakpoints
  <2> QED
    BY <2>1, SendOrders DEF Request, Commands
<1>9. CASE ClientHear
  BY <1>9, HearOrders
<1>10. CASE ClientClose
  BY <1>10 DEF ClientClose, OrderInv, ResponsesInOrder
<1>11. CASE Accept
  <2>1. /\ ledger' = <<>> /\ s2c' = <<>> /\ c2s' = <<>> /\ mpc' = "read"
        /\ conn' = "open"
    BY <1>11 DEF Accept, OrderInv, client
  <2>2. ResponsesInOrder'
    BY <2>1, NoAnswers DEF ResponsesInOrder, Serving
  <2> QED
    BY <2>1, <2>2 DEF OrderInv
<1>12. CASE \/ InitializeRequest \/ LaunchRequest \/ ConfigurationDoneRequest
            \/ SetBreakpointsRequest \/ SetInstructionBreakpointsRequest
            \/ QueryRequest \/ DisconnectRequest \/ StepRequest
            \/ ContinueRequest \/ NextRequest
  <2>1. mpc' \in {"run", "step", "load", "reply"} /\ \E cmds : Take(cmds)
    BY <1>12 DEF InitializeRequest, LaunchRequest, ConfigurationDoneRequest,
       SetBreakpointsRequest, SetInstructionBreakpointsRequest, QueryRequest,
       DisconnectRequest, StepRequest, ContinueRequest, NextRequest
  <2> QED
    BY <2>1, TakeOrders
<1>13. CASE \/ ContinueStep \/ ContinueReturn \/ NextStep \/ NextReturn
            \/ MainLoad \/ MainStore
  BY <1>13, OrderFrame DEF ContinueStep, ContinueReturn, NextStep, NextReturn,
     MainLoad, MainStore, Inside, client
<1>14. CASE MainEmit
  <2>1. Event(EventOf(req.cmd), mseq, FALSE) \in Message
    BY EventType DEF TypeOK, MainTypes
  <2>2. /\ UNCHANGED <<conn, ledger, c2s, req>> /\ mpc = "emit" /\ mpc' = "reply"
        /\ Emit(Event(EventOf(req.cmd), mseq, FALSE))
    BY <1>14 DEF MainEmit, Inside, client
  <2> QED
    BY <2>1, <2>2, EventOrders DEF Event
<1>15. CASE MainReply
  BY <1>15, ReplyOrders
<1>16. CASE EndSession
  <2>1. /\ conn' = "none" /\ mpc' = "accept" /\ c2s' = <<>>
        /\ ledger' = <<>> /\ s2c' = <<>>
    BY <1>16 DEF EndSession, OrderInv, client
  <2> QED
    BY <2>1 DEF OrderInv, ResponsesInOrder
<1>17. ASSUME NEW t \in Timer, TimerStep(t)
       PROVE  OrderInv'
  <2>1. CASE TimerLoad(t) \/ TimerStore(t)
    BY <2>1, OrderFrame DEF TimerLoad, TimerStore, client
  <2>2. CASE TimerSend(t)
    <3>1. PICK m \in Message : m.kind # "response" /\ Emit(m)
      BY <2>2 DEF TimerSend, TypeOK, Event, Thread, Message, Events
    <3>2. UNCHANGED <<conn, ledger, c2s, req>> /\ mpc' = mpc
      BY <2>2 DEF TimerSend, client
    <3> QED
      BY <3>1, <3>2, EventOrders
  <2> QED
    BY <1>17, <2>1, <2>2 DEF TimerStep
<1>18. ASSUME NEW t \in Timer, Orphan(t)
       PROVE  OrderInv'
  <2>1. CASE OrphanVanish(t) \/ OrphanAdopted(t)
    BY <2>1, OrderFrame DEF OrphanVanish, OrphanAdopted, client
  <2>2. CASE OrphanCrash(t)
    BY <2>2 DEF OrphanCrash, OrderInv, ResponsesInOrder
  <2> QED
    BY <1>18, <2>1, <2>2 DEF Orphan
<1>19. CASE UNCHANGED vars
  BY <1>19, OrderFrame DEF vars, client
<1> QED
  BY <1>1, <1>2, <1>3, <1>4, <1>5, <1>6, <1>7, <1>8, <1>9, <1>10, <1>11, <1>12,
     <1>13, <1>14, <1>15, <1>16, <1>17, <1>18, <1>19 DEF Next, Client, Main

\* The invariant behind the order of the responses holds for every client.
LEMMA OrderCorrect == Spec => []OrderInv
<1>1. Init => OrderInv
  BY DEF Init, OrderInv, ResponsesInOrder
<1> QED
  BY <1>1, OrderStep, TypeCorrect, PTL DEF Spec

\* For every client, and whatever threads and handlers send between them, there is
\* one response to each request and they come in the order of the requests.
THEOREM ResponsesOrdered == Spec => []ResponsesInOrder
<1>1. OrderInv => ResponsesInOrder
  BY DEF OrderInv
<1> QED
  BY <1>1, OrderCorrect, PTL

-----------------------------------------------------------------------------
(* The work of the main thread runs out. *)

\* One request more, or one less, and what it weighs.
LEMMA OneMore ==
  ASSUME NEW n \in Nat, NEW w \in Nat
  PROVE  (n + 1) * w = n * w + w /\ n * w \in Nat
OBVIOUS

\* There is never less than no work left.
LEMMA WorkType ==
  ASSUME TypeOK
  PROVE  /\ StepLimit \in Nat \ {0} /\ StepsLeft \in Nat
         /\ Len(c2s) \in Nat /\ Len(c2s) * (StepLimit + 4) \in Nat
<1>1. StepLimit \in Nat \ {0} /\ Len(c2s) \in Nat
  BY BoundAssumption DEF TypeOK, ChannelTypes
<1>2. StepsLeft \in Nat
  BY <1>1 DEF StepsLeft, TypeOK, MainTypes
<1>3. Len(c2s) * (StepLimit + 4) \in Nat
  BY <1>1, OneMore
<1> QED
  BY <1>1, <1>2, <1>3

\* So there is after a step.
LEMMA WorkTypeNext ==
  ASSUME TypeOK'
  PROVE  /\ StepsLeft' \in Nat
         /\ Len(c2s') \in Nat /\ Len(c2s') * (StepLimit + 4) \in Nat
<1>1. StepLimit \in Nat \ {0} /\ Len(c2s') \in Nat
  BY BoundAssumption DEF TypeOK, ChannelTypes
<1>2. StepsLeft' \in Nat
  BY <1>1 DEF StepsLeft, TypeOK, MainTypes
<1>3. Len(c2s') * (StepLimit + 4) \in Nat
  BY <1>1, OneMore
<1> QED
  BY <1>1, <1>2, <1>3

\* A request taken leaves less to do, whichever it is.
LEMMA TakeWorks ==
  ASSUME TypeOK, TypeOK', NEW cmds, Take(cmds),
         \/ mpc' \in {"load", "reply"}
         \/ mpc' \in {"run", "step"} /\ steps' = 0
  PROVE  Work' \in 0..(Work - 1)
<1> DEFINE w == StepLimit + 4
<1>1. Len(c2s') \in Nat /\ Len(c2s) = Len(c2s') + 1
  BY TakeShifts
<1>2. w \in Nat /\ StepLimit \in Nat \ {0}
  BY WorkType
<1>3. StepsLeft = 1
  BY DEF Take, StepsLeft
<1>4. StepsLeft' \in 0..w
  BY <1>2 DEF StepsLeft
<1>5. Work = Len(c2s) * w + StepsLeft /\ Work' = Len(c2s') * w + StepsLeft'
  BY DEF Work
<1> HIDE DEF w
<1>6. Len(c2s) * w = Len(c2s') * w + w /\ Len(c2s') * w \in Nat
  BY <1>1, <1>2, OneMore
<1> QED
  BY <1>2, <1>3, <1>4, <1>5, <1>6

\* A step of the main thread that takes no request leaves less to do as well.
LEMMA InsideWorks ==
  ASSUME TypeOK, TypeOK', Len(c2s') = Len(c2s), StepsLeft' < StepsLeft
  PROVE  Work' \in 0..(Work - 1)
<1>1. /\ StepsLeft \in Nat /\ StepsLeft' \in Nat
      /\ Len(c2s) * (StepLimit + 4) \in Nat
  BY WorkType, WorkTypeNext
<1>2. /\ Work = Len(c2s) * (StepLimit + 4) + StepsLeft
      /\ Work' = Len(c2s) * (StepLimit + 4) + StepsLeft'
  BY DEF Work
<1> QED
  BY <1>1, <1>2

\* Every step of the main thread leaves less to do.
LEMMA MainWorks == TypeOK /\ TypeOK' /\ Main => Work' \in 0..(Work - 1)
<1> SUFFICES ASSUME TypeOK, TypeOK', Main
             PROVE  Work' \in 0..(Work - 1)
  OBVIOUS
<1>1. CASE \/ InitializeRequest \/ LaunchRequest \/ ConfigurationDoneRequest
           \/ SetBreakpointsRequest \/ SetInstructionBreakpointsRequest
           \/ QueryRequest \/ DisconnectRequest \/ StepRequest
           \/ ContinueRequest \/ NextRequest
  <2>1. /\ \/ mpc' \in {"load", "reply"}
           \/ mpc' \in {"run", "step"} /\ steps' = 0
        /\ \E cmds : Take(cmds)
    BY <1>1 DEF InitializeRequest, LaunchRequest, ConfigurationDoneRequest,
       SetBreakpointsRequest, SetInstructionBreakpointsRequest, QueryRequest,
       DisconnectRequest, StepRequest, ContinueRequest, NextRequest
  <2> QED
    BY <2>1, TakeWorks
<1>2. CASE \/ ContinueStep \/ ContinueReturn \/ NextStep \/ NextReturn
           \/ MainLoad \/ MainStore \/ MainEmit \/ MainReply \/ EndSession
  <2>1. StepLimit \in Nat /\ steps \in 0..StepLimit /\ steps' \in 0..StepLimit
    BY BoundAssumption DEF TypeOK, MainTypes
  <2>2. CASE ContinueStep \/ NextStep
    <3>1. c2s' = c2s /\ mpc' = mpc /\ mpc \in {"run", "step"} /\ steps' = steps + 1
      BY <2>2 DEF ContinueStep, NextStep, Inside
    <3>2. StepsLeft' < StepsLeft
      BY <2>1, <3>1 DEF StepsLeft
    <3> QED
      BY <3>1, <3>2, InsideWorks
  <2>3. CASE ContinueReturn \/ NextReturn
    <3>1. c2s' = c2s /\ mpc \in {"run", "step"} /\ mpc' = "reply"
      BY <2>3 DEF ContinueReturn, NextReturn, Inside
    <3>2. StepsLeft' < StepsLeft
      BY <2>1, <3>1 DEF StepsLeft
    <3> QED
      BY <3>1, <3>2, InsideWorks
  <2>4. CASE MainLoad \/ MainStore \/ MainEmit \/ MainReply \/ EndSession
    <3>1. /\ c2s' = c2s
          /\ <<mpc, mpc'>> \in {<<"load", "store">>, <<"store", "emit">>,
                             <<"emit", "reply">>, <<"reply", "read">>,
                             <<"read", "accept">>}
      BY <2>4 DEF MainLoad, MainStore, MainEmit, MainReply, EndSession, Inside
    <3>2. StepsLeft' < StepsLeft
      BY <3>1 DEF StepsLeft
    <3> QED
      BY <3>1, <3>2, InsideWorks
  <2> QED
    BY <1>2, <2>2, <2>3, <2>4
<1> QED
  BY <1>1, <1>2 DEF Main

\* What no step of the server's threads or the client's reading touches.
LEMMA WorkFrame ==
  ASSUME UNCHANGED <<c2s, mpc, steps>>
  PROVE  Work' = Work
BY DEF Work, StepsLeft

\* No other step makes more of it, but the client's requests and connections.
LEMMA TimersAddNoWork ==
  ASSUME TypeOK, TypeOK', NEW t \in Timer, TimerStep(t) \/ Orphan(t)
  PROVE  Work' <= Work
<1>1. Work \in Nat
  BY WorkType DEF Work
<1>2. CASE TimerStep(t) \/ OrphanVanish(t) \/ OrphanAdopted(t)
  <2>1. UNCHANGED <<c2s, mpc, steps>>
    BY <1>2 DEF TimerStep, TimerLoad, TimerStore, TimerSend, OrphanVanish,
       OrphanAdopted, locals
  <2> QED
    BY <1>1, <2>1, WorkFrame
<1>3. CASE OrphanCrash(t)
  <2>1. c2s' = <<>> /\ mpc' = "crashed"
    BY <1>3 DEF OrphanCrash
  <2>2. Len(c2s') = 0 /\ StepsLeft' = 0
    BY <2>1 DEF StepsLeft
  <2>3. 0 * (StepLimit + 4) = 0
    BY WorkType
  <2>4. Work' = 0
    BY <2>2, <2>3 DEF Work
  <2> QED
    BY <1>1, <2>4
<1> QED
  BY <1>2, <1>3 DEF Orphan

(***************************************************************************)
(* For every client, program and step budget: every step of the main       *)
(* thread leaves less work, and only a client that sends or connects makes *)
(* more.  It is what of "every request is answered" is no matter of        *)
(* fairness: no handler loops for ever.                                    *)
(***************************************************************************)
THEOREM WorkIsFinite == Spec => WorkRunsOut
<1>1. TypeOK /\ TypeOK' /\ [Next]_vars =>
        [/\ Main => Work' \in 0..(Work - 1)
         /\ Work' > Work => Client \/ Accept]_vars
  <2> SUFFICES ASSUME TypeOK, TypeOK', Next
               PROVE  /\ Main => Work' \in 0..(Work - 1)
                      /\ Work' > Work => Client \/ Accept
    OBVIOUS
  <2>1. Work \in Nat /\ Work' \in Int
    BY WorkType, WorkTypeNext DEF Work
  <2>2. CASE Client \/ Accept
    BY <2>2, MainWorks
  <2>3. CASE Main
    <3>1. Work' \in 0..(Work - 1)
      BY <2>3, MainWorks
    <3>2. ~(Work' > Work)
      BY <2>1, <3>1
    <3> QED
      BY <3>1, <3>2
  <2>4. ASSUME NEW t \in Timer, TimerStep(t) \/ Orphan(t)
        PROVE  /\ Main => Work' \in 0..(Work - 1)
               /\ Work' > Work => Client \/ Accept
    <3>1. ~(Work' > Work)
      BY <2>1, <2>4, TimersAddNoWork
    <3> QED
      BY <3>1, MainWorks
  <2> QED
    BY <2>2, <2>3, <2>4 DEF Next
<1> QED
  BY <1>1, TypeStep, TypeCorrect, PTL DEF Spec, WorkRunsOut
=============================================================================
