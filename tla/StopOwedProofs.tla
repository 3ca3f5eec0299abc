--------------------------- MODULE StopOwedProofs ---------------------------
(***************************************************************************)
(* No stop is lost, for a patient client: as long as it waits for an event *)
(* the event is under way, in a request, a handler, a thread or the        *)
(* socket, unless continue has used its budget up.  The proof follows the  *)
(* launch through the socket: what the handlers test, launched and         *)
(* pending_entry_stop, is set by then.                                     *)
(***************************************************************************)
EXTENDS RunControlSafetyProofs

-----------------------------------------------------------------------------
(* What the requests in the socket rest on. *)

\* A request sent by a patient client finds the program as it needs it.
LEMMA SendStands ==
  ASSUME TypeOK, PatientInv, QueueAsked, LaunchStands,
         NEW cmd, NEW arg, [cmd |-> cmd, arg |-> arg] \in Request, Send(cmd, arg),
         cmd = "configurationDone" =>
           cmd \notin asked /\ ("launch" \in asked \/ "configFirst" \in Habits),
         cmd \in Resumes => told
  PROVE  QueueAsked' /\ LaunchStands'
<1>1. /\ conn = "open" /\ conn' = conn /\ mpc' = mpc /\ "disconnect" \notin asked
      /\ launched' = launched /\ pending' = pending
      /\ asked' = asked \cup ({cmd} \cap Once)
  BY DEF Send, session
<1>2. /\ \A i \in 1..Len(c2s') : \/ i \in 1..Len(c2s) /\ c2s'[i] = c2s[i]
                                 \/ i = Len(c2s) + 1 /\ c2s'[i].cmd = cmd
      /\ \A i \in 1..Len(c2s) : /\ i \in 1..Len(c2s') /\ c2s'[i] = c2s[i]
                                /\ i < Len(c2s) + 1
      /\ Len(c2s) + 1 \in 1..Len(c2s') /\ c2s'[Len(c2s) + 1].cmd = cmd
      /\ Len(c2s') = Len(c2s) + 1
  BY SendCases, SendAdds
<1>3. LaunchWaits => LaunchWaits'
  BY <1>2 DEF LaunchWaits
<1>4. cmd = "launch" => LaunchWaits'
  BY <1>2 DEF LaunchWaits
<1>5. QueueAsked'
  <2>1. \A i \in 1..Len(c2s) : c2s[i].cmd # "disconnect"
    BY <1>1 DEF QueueAsked, Once
  <2> QED
    BY <1>1, <1>2, <2>1 DEF QueueAsked
<1>6. cmd \in Resumes => launched
  <2>1. told => "launch" \in asked /\ ~LaunchWaits
    BY <1>1 DEF PatientInv, LaunchFirst, NothingRan, LaunchWaits
  <2> QED
    BY <1>1, <2>1 DEF LaunchStands
<1>7. cmd = "configurationDone" =>
        /\ launched => pending
        /\ \/ launched \/ "configFirst" \in Habits
           \/ \E j \in 1..Len(c2s) : c2s[j].cmd = "launch"
  <2>1. launched => "launch" \in asked /\ ~LaunchWaits
    BY <1>1 DEF PatientInv, LaunchFirst, NothingRan, LaunchWaits
  <2> QED
    BY <1>1, <2>1 DEF LaunchStands, LaunchWaits
<1>8. conn' = "open" /\ "launch" \in asked' /\ "disconnect" \notin asked' =>
        /\ launched' \/ LaunchWaits'
        /\ "configurationDone" \notin asked' => pending' \/ LaunchWaits'
  BY <1>1, <1>3, <1>4 DEF LaunchStands
<1>9. ASSUME NEW i \in 1..Len(c2s'), c2s'[i].cmd = "configurationDone"
      PROVE  /\ launched' => pending'
             /\ \/ launched' \/ "configFirst" \in Habits
                \/ \E j \in 1..Len(c2s') : j < i /\ c2s'[j].cmd = "launch"
  <2>1. CASE i \in 1..Len(c2s) /\ c2s'[i] = c2s[i]
    BY <1>1, <1>2, <1>9, <2>1 DEF LaunchStands
  <2>2. CASE i = Len(c2s) + 1 /\ c2s'[i].cmd = cmd
    BY <1>1, <1>2, <1>7, <1>9, <2>2
  <2> QED
    BY <1>2, <2>1, <2>2
<1>10. \A i \in 1..Len(c2s') : c2s'[i].cmd \in Resumes => launched'
  BY <1>1, <1>2, <1>6 DEF LaunchStands
<1>11. mpc' = "run" => launched'
  BY <1>1 DEF LaunchStands
<1> QED
  BY <1>5, <1>8, <1>9, <1>10, <1>11 DEF LaunchStands

\* A request taken is one sent before, and those behind it move up.
LEMMA TakeQueue ==
  ASSUME TypeOK, QueueAsked, NEW cmds, Take(cmds)
  PROVE  /\ QueueAsked' /\ mpc = "read"
         /\ UNCHANGED <<conn, client>>
         /\ Len(c2s') \in Nat
         /\ \A i \in 1..Len(c2s') : i + 1 \in 1..Len(c2s) /\ c2s'[i] = c2s[i + 1]
         /\ \A i \in 1..Len(c2s) : i = 1 \/ (i - 1 \in 1..Len(c2s')
                                             /\ c2s'[i - 1] = c2s[i])
         /\ 1 \in 1..Len(c2s) /\ c2s[1].cmd \in cmds /\ req' = c2s[1]
<1>1. /\ Len(c2s) \in Nat /\ Len(c2s') = Len(c2s) - 1 /\ 1 \in 1..Len(c2s)
      /\ \A i \in 1..Len(c2s') : i + 1 \in 1..Len(c2s) /\ c2s'[i] = c2s[i + 1]
      /\ c2s[1].cmd \in cmds /\ req' = c2s[1]
  BY TakeShifts
<1>2. UNCHANGED <<conn, client>> /\ asked' = asked /\ mpc = "read"
  BY DEF Take, client
<1>3. ASSUME NEW i \in 1..Len(c2s'), c2s'[i].cmd = "disconnect"
      PROVE  i = Len(c2s')
  BY <1>1, <1>3 DEF QueueAsked
<1>4. QueueAsked'
  BY <1>1, <1>2, <1>3 DEF QueueAsked
<1>5. ASSUME NEW i \in 1..Len(c2s), i # 1
      PROVE  i - 1 \in 1..Len(c2s') /\ c2s'[i - 1] = c2s[i]
  BY <1>1, <1>5
<1> QED
  BY <1>1, <1>2, <1>4, <1>5

\* A request that leaves the flags of launch alone, taken.
LEMMA TakeStands ==
  ASSUME TypeOK, QueueAsked, LaunchStands, NEW cmds, Take(cmds),
         "launch" \notin cmds, launched' = launched, pending' = pending,
         mpc' = "run" => cmds \subseteq Resumes
  PROVE  QueueAsked' /\ LaunchStands'
<1>1. /\ QueueAsked' /\ conn' = conn /\ asked' = asked
      /\ \A i \in 1..Len(c2s') : i + 1 \in 1..Len(c2s) /\ c2s'[i] = c2s[i + 1]
      /\ \A i \in 1..Len(c2s) : i = 1 \/ (i - 1 \in 1..Len(c2s')
                                          /\ c2s'[i - 1] = c2s[i])
      /\ 1 \in 1..Len(c2s) /\ c2s[1].cmd \in cmds
  BY TakeQueue DEF client
<1>2. LaunchWaits => LaunchWaits'
  BY <1>1 DEF LaunchWaits
<1>3. conn' = "open" /\ "launch" \in asked' /\ "disconnect" \notin asked' =>
        /\ launched' \/ LaunchWaits'
        /\ "configurationDone" \notin asked' => pending' \/ LaunchWaits'
  BY <1>1, <1>2 DEF LaunchStands
<1>4. ASSUME NEW i \in 1..Len(c2s'), c2s'[i].cmd = "configurationDone",
             ~launched', "configFirst" \notin Habits
      PROVE  \E j \in 1..Len(c2s') : j < i /\ c2s'[j].cmd = "launch"
  <2>1. PICK j \in 1..Len(c2s) : j < i + 1 /\ c2s[j].cmd = "launch"
    BY <1>1, <1>4 DEF LaunchStands
  <2>2. j # 1 /\ j - 1 \in 1..Len(c2s') /\ c2s'[j - 1] = c2s[j] /\ j - 1 < i
    BY <1>1, <2>1
  <2> QED
    BY <2>1, <2>2
<1>5. \A i \in 1..Len(c2s') : c2s'[i].cmd = "configurationDone" =>
        (launched' => pending')
  BY <1>1 DEF LaunchStands
<1>6. \A i \in 1..Len(c2s') : c2s'[i].cmd \in Resumes => launched'
  BY <1>1 DEF LaunchStands
<1>7. mpc' = "run" => launched'
  BY <1>1 DEF LaunchStands
<1> QED
  BY <1>1, <1>3, <1>4, <1>5, <1>6, <1>7 DEF LaunchStands

\* A step that touches neither the requests nor the flags of launch.
LEMMA StandsFrame ==
  ASSUME QueueAsked, LaunchStands,
         UNCHANGED <<conn, asked, c2s, launched, pending>>,
         mpc' = "run" => mpc = "run"
  PROVE  QueueAsked' /\ LaunchStands'
BY DEF QueueAsked, LaunchStands, LaunchWaits

\* The launch serves every request behind it.
LEMMA LaunchGivesStands ==
  ASSUME TypeOK, QueueAsked, LaunchStands, LaunchRequest
  PROVE  QueueAsked' /\ LaunchStands'
<1>1. Take({"launch"}) /\ launched' /\ pending'
  BY DEF LaunchRequest
<1>2. QueueAsked'
  BY <1>1, TakeQueue
<1> QED
  BY <1>1, <1>2 DEF LaunchStands

\* configurationDone finds the program launched and its entry stop to come, or,
\* from a client that configures first, not launched.
LEMMA ConfigurationStands ==
  ASSUME TypeOK, PatientInv, QueueAsked, LaunchStands, ConfigurationDoneRequest
  PROVE  /\ launched => pending
         /\ launched \/ "configFirst" \in Habits
         /\ QueueAsked' /\ LaunchStands'
<1>1. /\ Take({"configurationDone"}) /\ launched' = launched
      /\ mpc' = "reply"
  BY DEF ConfigurationDoneRequest
<1>2. /\ QueueAsked' /\ conn' = conn /\ asked' = asked
      /\ \A i \in 1..Len(c2s') : i + 1 \in 1..Len(c2s) /\ c2s'[i] = c2s[i + 1]
      /\ \A i \in 1..Len(c2s) : i = 1 \/ (i - 1 \in 1..Len(c2s')
                                          /\ c2s'[i - 1] = c2s[i])
      /\ 1 \in 1..Len(c2s) /\ c2s[1].cmd = "configurationDone"
  BY <1>1, TakeQueue DEF client
<1>3. (launched => pending) /\ (launched \/ "configFirst" \in Habits)
  <2>1. \A j \in 1..Len(c2s) : ~(j < 1)
    BY <1>1, TakeQueue
  <2> QED
    BY <1>2, <2>1 DEF LaunchStands
<1>4. "configurationDone" \in asked'
  BY <1>2 DEF QueueAsked, Once
<1>5. \A i \in 1..Len(c2s') : c2s'[i].cmd # "configurationDone"
  <2> SUFFICES ASSUME NEW i \in 1..Len(c2s'), c2s'[i].cmd = "configurationDone"
               PROVE  FALSE
    OBVIOUS
  <2>1. InRequest(1) /\ InRequest(i + 1) /\ i + 1 \in 1..Len(c2s)
    BY <1>2 DEF InRequest, EventCmds
  <2>2. i + 1 = 1
    BY <1>2, <2>1 DEF PatientInv, AtMostOneStop
  <2> QED
    BY <2>2
<1>6. LaunchWaits => LaunchWaits'
  BY <1>2 DEF LaunchWaits
<1>7. conn' = "open" /\ "launch" \in asked' /\ "disconnect" \notin asked' =>
        launched' \/ LaunchWaits'
  BY <1>1, <1>2, <1>6 DEF LaunchStands
<1>8. /\ \A i \in 1..Len(c2s') : c2s'[i].cmd \in Resumes => launched'
      /\ mpc' = "run" => launched'
  BY <1>1, <1>2 DEF LaunchStands
<1> QED
  BY <1>2, <1>3, <1>4, <1>5, <1>7, <1>8 DEF LaunchStands

\* Nothing is behind a disconnect.
LEMMA DisconnectStands ==
  ASSUME TypeOK, QueueAsked, LaunchStands, DisconnectRequest
  PROVE  QueueAsked' /\ LaunchStands'
<1>1. Take({"disconnect"}) /\ mpc' = "reply"
  BY DEF DisconnectRequest
<1>2. /\ QueueAsked' /\ asked' = asked
      /\ 1 \in 1..Len(c2s) /\ c2s[1].cmd = "disconnect"
      /\ Len(c2s') = Len(c2s) - 1
  BY <1>1, TakeQueue, TakeShifts DEF client
<1>3. Len(c2s') = 0 /\ "disconnect" \in asked'
  BY <1>2 DEF QueueAsked, Once
<1>4. LaunchStands'
  BY <1>1, <1>3 DEF LaunchStands
<1> QED
  BY <1>2, <1>4

\* Every step leaves the requests in the socket what they rest on.
LEMMA StandsStep ==
  Habits \subseteq {"configFirst"} /\ TypeOK /\ OrderInv /\ PatientInv /\ QueueAsked
    /\ LaunchStands /\ [Next]_vars => QueueAsked' /\ LaunchStands'
<1> SUFFICES ASSUME Habits \subseteq {"configFirst"}, TypeOK, OrderInv, PatientInv,
                    QueueAsked, LaunchStands, [Next]_vars
             PROVE  QueueAsked' /\ LaunchStands'
  OBVIOUS
<1>1. CASE ClientInitialize
  BY <1>1, SendStands DEF ClientInitialize, Request, Once, Resumes
<1>2. CASE ClientLaunch
  <2>1. PICK arg \in LaunchArgs : Send("launch", arg)
    BY <1>2 DEF ClientLaunch
  <2> QED
    BY <2>1, SendStands DEF Request, Resumes
<1>3. CASE ClientConfigurationDone
  BY <1>3, SendStands DEF ClientConfigurationDone, Request, Once, Resumes
<1>4. CASE ClientResume
  <2>1. PICK cmd \in Resumes : Send(cmd, {})
    BY <1>4 DEF ClientResume
  <2>2. told
    BY <1>4 DEF ClientResume
  <2>3. [cmd |-> cmd, arg |-> {}] \in Request /\ cmd # "configurationDone"
    BY DEF Request, Resumes
  <2> QED
    BY <2>1, <2>2, <2>3, SendStands
<1>5. CASE ClientSetBreakpoints
  <2>1. PICK lines \in SUBSET Line : Send("setBreakpoints", lines)
    BY <1>5 DEF ClientSetBreakpoints
  <2> QED
    BY <2>1, SendStands DEF Request, Resumes
<1>6. CASE ClientSetInstructionBreakpoints
  <2>1. PICK addrs \in SUBSET InstrBreakable :
          Send("setInstructionBreakpoints", addrs)
    BY <1>6 DEF ClientSetInstructionBreakpoints
  <2> QED
    BY <2>1, SendStands DEF Request, Resumes
<1>7. CASE ClientQuery
  BY <1>7, SendStands DEF ClientQuery, Request, Resumes
<1>8. CASE ClientDisconnect
  BY <1>8, SendStands DEF ClientDisconnect, Request, Once, Resumes
<1>9. CASE ClientHear
  BY <1>9, StandsFrame DEF ClientHear, session
<1>10. CASE ClientClose \/ Accept \/ EndSession
  <2>0. ClientClose => Quiet
    BY SettledQuiet DEF ClientClose
  <2>1. mpc' # "run" /\ (conn' = "open" => asked' = {})
    BY <1>10, <2>0 DEF ClientClose, Accept, EndSession, Quiet, client, PatientInv,
       NothingLeftBehind
  <2>2. Len(c2s') = 0
    BY <1>10, <2>0 DEF ClientClose, Accept, EndSession, Quiet, PatientInv,
       NothingLeftBehind
  <2> QED
    BY <2>1, <2>2 DEF QueueAsked, LaunchStands
<1>11. CASE LaunchRequest
  BY <1>11, LaunchGivesStands
<1>12. CASE ConfigurationDoneRequest
  BY <1>12, ConfigurationStands
<1>13. CASE DisconnectRequest
  BY <1>13, DisconnectStands
<1>14. CASE \/ InitializeRequest \/ SetBreakpointsRequest
            \/ SetInstructionBreakpointsRequest \/ QueryRequest \/ StepRequest
            \/ NextRequest
  <2>1. /\ launched' = launched /\ pending' = pending /\ mpc' # "run"
        /\ \E cmds : "launch" \notin cmds /\ Take(cmds)
    BY <1>14 DEF InitializeRequest, SetBreakpointsRequest, QueryRequest,
       SetInstructionBreakpointsRequest, StepRequest, NextRequest, session
  <2> QED
    BY <2>1, TakeStands
<1>15. CASE ContinueRequest
  BY <1>15, TakeStands DEF ContinueRequest, session, Resumes
<1>16. CASE \/ ContinueStep \/ NextStep \/ ContinueReturn \/ NextReturn
            \/ MainLoad \/ MainStore \/ MainEmit \/ MainReply
  BY <1>16, StandsFrame DEF ContinueStep, NextStep, ContinueReturn, NextReturn,
     MainLoad, MainStore, MainEmit, MainReply, Inside, client, session
<1>17. ASSUME NEW t \in Timer, TimerStep(t)
       PROVE  QueueAsked' /\ LaunchStands'
  BY <1>17, StandsFrame DEF TimerStep, TimerLoad, TimerStore, TimerSend, client,
     session
<1>18. ASSUME NEW t \in Timer
       PROVE  ~Orphan(t)
  BY DEF Orphan, OrphanCrash, OrphanVanish, OrphanAdopted, PatientInv,
     NothingLeftBehind
<1>19. CASE UNCHANGED vars
  BY <1>19, StandsFrame DEF vars, client, session
<1> QED
  BY <1>1, <1>2, <1>3, <1>4, <1>5, <1>6, <1>7, <1>8, <1>9, <1>10, <1>11, <1>12,
     <1>13, <1>14, <1>15, <1>16, <1>17, <1>18, <1>19 DEF Next, Client, Main

-----------------------------------------------------------------------------
(* The event waited for is under way. *)

\* An event just sent is on its way.
LEMMA EmitFlies ==
  ASSUME TypeOK, conn = "open", NEW m \in Message, m.kind = "event", Emit(m)
  PROVE  InFlight'
BY EmitAdds DEF InFlight, InEvent

\* A thread just started is about to send its event.
LEMMA StartFlies ==
  ASSUME TypeOK, NEW why, StartThread(why)
  PROVE  InFlight'
BY DEF StartThread, Sleeping, InFlight, InThread, TypeOK

\* What is in flight stays so when nothing of it is taken away.
LEMMA FliesOn ==
  ASSUME InFlight, mpc \in {"run", "step", "load", "store", "emit"} => mpc' = mpc,
         timer' = timer,
         \A i \in 1..Len(c2s) : InRequest(i) =>
           \E j \in 1..Len(c2s') : c2s'[j] = c2s[i],
         \A i \in 1..Len(s2c) : InEvent(i) =>
           \E j \in 1..Len(s2c') : s2c'[j] = s2c[i]
  PROVE  InFlight'
<1>1. CASE \E i \in 1..Len(c2s) : InRequest(i)
  BY <1>1 DEF InFlight, InRequest
<1>2. CASE InMain
  BY <1>2 DEF InFlight, InMain
<1>3. CASE \E t \in Timer : InThread(t)
  BY <1>3 DEF InFlight, InThread
<1>4. CASE \E i \in 1..Len(s2c) : InEvent(i)
  BY <1>4 DEF InFlight, InEvent
<1> QED
  BY <1>1, <1>2, <1>3, <1>4 DEF InFlight

\* A request that makes no event, sent: what was under way still is.
LEMMA SendQuietOwes ==
  ASSUME TypeOK, StopOwed, NEW cmd, NEW arg, [cmd |-> cmd, arg |-> arg] \in Request,
         Send(cmd, arg), waits' = waits
  PROVE  StopOwed'
<1>1. /\ conn = "open" /\ s2c' = s2c /\ mpc' = mpc /\ timer' = timer
      /\ stopped' = stopped /\ steps' = steps
      /\ launched' = launched /\ pending' = pending
  BY DEF Send, locals, session
<1>2. InFlight => InFlight'
  BY <1>1, SendCases, FliesOn
<1> QED
  BY <1>1, <1>2 DEF StopOwed, EntryStopLost

\* A request that makes an event, sent.
LEMMA SendEventOwes ==
  ASSUME TypeOK, NEW cmd \in EventCmds, [cmd |-> cmd, arg |-> {}] \in Request,
         Send(cmd, {})
  PROVE  StopOwed'
<1>1. InFlight'
  BY SendCases DEF InFlight, InRequest
<1> QED
  BY <1>1 DEF StopOwed

\* A request that makes no event, taken.
LEMMA TakeQuietOwes ==
  ASSUME TypeOK, QueueAsked, StopOwed, NEW cmds, Take(cmds),
         cmds \cap EventCmds = {}, UNCHANGED <<timer, locals>>,
         (launched => pending) => (launched' => pending')
  PROVE  StopOwed'
<1>1. /\ mpc = "read" /\ conn' = conn /\ waits' = waits /\ s2c' = s2c
      /\ timer' = timer /\ stopped' = stopped /\ steps' = steps
  BY TakeQueue DEF Take, client, locals
<1>2. \A i \in 1..Len(c2s) : InRequest(i) =>
        \E j \in 1..Len(c2s') : c2s'[j] = c2s[i]
  BY TakeQueue DEF InRequest
<1>3. InFlight => InFlight'
  BY <1>1, <1>2, FliesOn
<1> QED
  BY <1>1, <1>3 DEF StopOwed, EntryStopLost

\* Hearing a response takes no event away; hearing an event ends the wait.
LEMMA HearOwes ==
  ASSUME TypeOK, StopOwed, ClientHear
  PROVE  StopOwed'
<1>1. /\ conn = "open" /\ mpc' = mpc /\ timer' = timer /\ c2s' = c2s
      /\ stopped' = stopped /\ steps' = steps
      /\ launched' = launched /\ pending' = pending
  BY DEF ClientHear, locals, session
<1>2. /\ Len(s2c) \in Nat /\ Len(s2c') = Len(s2c) - 1 /\ Head(s2c) = s2c[1]
      /\ \A i \in 1..Len(s2c') : s2c'[i] = s2c[i + 1]
  BY TailFacts DEF ClientHear, TypeOK, ChannelTypes
<1>3. CASE Head(s2c).kind = "event"
  BY <1>3 DEF ClientHear, StopOwed, EntryStopLost
<1>4. CASE Head(s2c).kind = "response"
  <2>1. waits' = waits
    BY <1>4 DEF ClientHear
  <2>2. ASSUME NEW i \in 1..Len(s2c), InEvent(i)
        PROVE  \E j \in 1..Len(s2c') : s2c'[j] = s2c[i]
    <3>1. i # 1
      BY <1>2, <1>4, <2>2 DEF InEvent
    <3>2. i - 1 \in 1..Len(s2c') /\ s2c'[i - 1] = s2c[i]
      BY <1>2, <3>1
    <3> QED
      BY <3>2
  <2>3. InFlight => InFlight'
    BY <1>1, <2>2, FliesOn
  <2> QED
    BY <1>1, <2>1, <2>3 DEF StopOwed, EntryStopLost
<1> QED
  BY <1>3, <1>4 DEF ClientHear

\* continue starts the thread of its stop, or has used its budget up.
LEMMA ContinueReturnOwes ==
  ASSUME TypeOK, PatientInv, LaunchStands, ContinueReturn
  PROVE  StopOwed'
<1>1. CASE stopped /\ StartThread("breakpoint")
  BY <1>1, StartFlies DEF StopOwed
<1>2. CASE ~stopped
  <2>1. launched /\ waits = "continue"
    BY DEF ContinueReturn, Inside, LaunchStands, PatientInv, ServesWaiting, InMain
  <2>2. steps = StepLimit
    BY <1>2, <2>1, BoundAssumption DEF ContinueReturn, Continuing, TypeOK, MainTypes
  <2> QED
    BY <1>2, <2>1, <2>2 DEF ContinueReturn, Inside, client, locals, StopOwed, EntryStopLost
<1> QED
  BY <1>1, <1>2 DEF ContinueReturn

\* A handler's own event follows the counter; its response displaces nothing.
LEMMA MainOwes ==
  ASSUME TypeOK, PatientInv, StopOwed, MainLoad \/ MainStore \/ MainEmit \/ MainReply
  PROVE  StopOwed'
<1>1. CASE MainLoad \/ MainStore
  <2>1. InFlight'
    BY <1>1 DEF MainLoad, MainStore, InFlight, InMain
  <2> QED
    BY <2>1 DEF StopOwed
<1>2. CASE MainEmit
  <2>1. /\ conn = "open" /\ mseq \in Nat
        /\ Emit(Event(EventOf(req.cmd), mseq, FALSE))
    BY <1>2 DEF MainEmit, Inside, PatientInv, NothingLeftBehind, TypeOK, MainTypes,
       ChannelTypes
  <2>2. Event(EventOf(req.cmd), mseq, FALSE) \in Message
    BY <2>1, EventType
  <2>3. Event(EventOf(req.cmd), mseq, FALSE).kind = "event"
    BY DEF Event
  <2>4. InFlight'
    BY <2>1, <2>2, <2>3, EmitFlies
  <2> QED
    BY <2>4 DEF StopOwed
<1>3. CASE MainReply
  <2>1. /\ conn = "open" /\ mpc = "reply" /\ Emit(Response(req.cmd))
        /\ UNCHANGED <<timer, c2s, conn, waits, steps, stopped>>
        /\ launched' = launched /\ pending' = pending
    BY <1>3 DEF MainReply, Inside, PatientInv, NothingLeftBehind, TypeOK,
       ChannelTypes, client, locals, session
  <2>2. Response(req.cmd) \in Message
    BY DEF TypeOK, MainTypes, Request, Response, Message, Commands, Once, Resumes,
       Events
  <2>3. \A i \in 1..Len(s2c) : i \in 1..Len(s2c') /\ s2c'[i] = s2c[i]
    BY <2>1, <2>2, EmitAdds
  <2>4. InFlight => InFlight'
    BY <2>1, <2>3, FliesOn
  <2> QED
    BY <2>1, <2>4 DEF StopOwed, EntryStopLost
<1> QED
  BY <1>1, <1>2, <1>3

\* A thread that counts is still under way; what it sends is.
LEMMA TimerOwes ==
  ASSUME TypeOK, PatientInv, NEW t \in Timer, TimerStep(t)
  PROVE  StopOwed'
<1>1. conn = "open" /\ timer \in [Timer -> Thread]
  BY DEF TimerStep, TimerLoad, TimerStore, TimerSend, InThread, PatientInv,
     NothingLeftBehind, TypeOK, ChannelTypes
<1>2. CASE TimerLoad(t) \/ TimerStore(t)
  <2>1. timer'[t].st # "free"
    BY <1>1, <1>2 DEF TimerLoad, TimerStore, Thread
  <2>2. InFlight'
    BY <2>1 DEF InFlight, InThread
  <2> QED
    BY <2>2 DEF StopOwed
<1>3. CASE TimerSend(t)
  <2> DEFINE stop == Event(timer[t].why, timer[t].seq, timer[t].life = "stray")
  <2>1. Emit(stop)
    BY <1>3 DEF TimerSend
  <2>2. /\ timer[t].why \in {"entry", "breakpoint", "step"}
        /\ timer[t].seq \in Nat
    BY <1>1 DEF Thread
  <2>3. stop \in Message /\ stop.kind = "event"
    BY <2>2 DEF Event, Message, Events
  <2> HIDE DEF stop
  <2>4. InFlight'
    BY <1>1, <2>1, <2>3, EmitFlies
  <2> QED
    BY <2>4 DEF StopOwed
<1> QED
  BY <1>2, <1>3 DEF TimerStep

\* What a patient client waits for stays under way.
LEMMA OwedStep ==
  Habits \subseteq {"configFirst"} /\ TypeOK /\ PatientInv /\ QueueAsked /\ LaunchStands /\ StopOwed
    /\ [Next]_vars => StopOwed'
<1> SUFFICES ASSUME Habits \subseteq {"configFirst"}, TypeOK, PatientInv, QueueAsked, LaunchStands,
                    StopOwed, [Next]_vars
             PROVE  StopOwed'
  OBVIOUS
<1>1. CASE ClientInitialize
  BY <1>1, SendEventOwes DEF ClientInitialize, Request, Once, EventCmds
<1>2. CASE ClientConfigurationDone
  BY <1>2, SendEventOwes DEF ClientConfigurationDone, Request, Once, EventCmds
<1>3. CASE ClientResume
  <2>1. PICK cmd \in Resumes : Send(cmd, {})
    BY <1>3 DEF ClientResume
  <2>2. [cmd |-> cmd, arg |-> {}] \in Request /\ cmd \in EventCmds
    BY DEF Request, EventCmds
  <2> QED
    BY <2>1, <2>2, SendEventOwes
<1>4. CASE ClientLaunch
  <2>1. PICK arg \in LaunchArgs : Send("launch", arg)
    BY <1>4 DEF ClientLaunch
  <2> QED
    BY <1>4, <2>1, SendQuietOwes DEF ClientLaunch, Request
<1>5. CASE ClientSetBreakpoints
  <2>1. PICK lines \in SUBSET Line : Send("setBreakpoints", lines)
    BY <1>5 DEF ClientSetBreakpoints
  <2> QED
    BY <1>5, <2>1, SendQuietOwes DEF ClientSetBreakpoints, Request
<1>6. CASE ClientSetInstructionBreakpoints
  <2>1. PICK addrs \in SUBSET InstrBreakable :
          Send("setInstructionBreakpoints", addrs)
    BY <1>6 DEF ClientSetInstructionBreakpoints
  <2> QED
    BY <1>6, <2>1, SendQuietOwes DEF ClientSetInstructionBreakpoints, Request
<1>7. CASE ClientQuery
  BY <1>7, SendQuietOwes DEF ClientQuery, Request
<1>8. CASE ClientDisconnect
  BY <1>8, SendQuietOwes DEF ClientDisconnect, Request, Once
<1>9. CASE ClientHear
  BY <1>9, HearOwes
<1>10. CASE ClientClose \/ Accept \/ EndSession
  BY <1>10 DEF ClientClose, Accept, EndSession, client, PatientInv,
     NothingLeftBehind, StopOwed, EntryStopLost
<1>11. CASE \/ LaunchRequest \/ SetBreakpointsRequest \/ DisconnectRequest
            \/ SetInstructionBreakpointsRequest \/ QueryRequest
  <2>1. /\ UNCHANGED <<timer, locals>>
        /\ (launched => pending) => (launched' => pending')
        /\ \E cmds : cmds \cap EventCmds = {} /\ Take(cmds)
    BY <1>11 DEF LaunchRequest, SetBreakpointsRequest, DisconnectRequest,
       SetInstructionBreakpointsRequest, QueryRequest, EventCmds, Resumes, session
  <2> QED
    BY <2>1, TakeQuietOwes
<1>12. CASE ConfigurationDoneRequest
  <2>1. CASE launched
    BY <1>12, <2>1, ConfigurationStands, StartFlies DEF ConfigurationDoneRequest, StopOwed
  <2>2. CASE ~launched
    <3>1. /\ "configFirst" \in Habits /\ ~launched' /\ waits' = waits
      BY <1>12, <2>2, ConfigurationStands DEF ConfigurationDoneRequest, Take, client
    <3>2. waits = "configurationDone"
      BY <1>12, TakeShifts DEF ConfigurationDoneRequest, PatientInv, ServesWaiting,
         InRequest, EventCmds
    <3> QED
      BY <3>1, <3>2 DEF StopOwed, EntryStopLost
  <2> QED
    BY <2>1, <2>2
<1>13. CASE \/ InitializeRequest \/ StepRequest \/ ContinueRequest \/ NextRequest
            \/ ContinueStep \/ NextStep
  <2>1. InFlight'
    BY <1>13 DEF InitializeRequest, StepRequest, ContinueRequest, NextRequest,
       ContinueStep, NextStep, Inside, InFlight, InMain
  <2> QED
    BY <2>1 DEF StopOwed
<1>14. CASE ContinueReturn
  BY <1>14, ContinueReturnOwes
<1>15. CASE NextReturn
  BY <1>15, StartFlies DEF NextReturn, StopOwed
<1>16. CASE MainLoad \/ MainStore \/ MainEmit \/ MainReply
  BY <1>16, MainOwes
<1>17. ASSUME NEW t \in Timer, TimerStep(t)
       PROVE  StopOwed'
  BY <1>17, TimerOwes
<1>18. ASSUME NEW t \in Timer
       PROVE  ~Orphan(t)
  BY DEF Orphan, OrphanCrash, OrphanVanish, OrphanAdopted, PatientInv,
     NothingLeftBehind
<1>19. CASE UNCHANGED vars
  BY <1>19 DEF vars, client, locals, session, StopOwed, EntryStopLost, InFlight,
     InRequest, InMain, InThread, InEvent
<1> QED
  BY <1>1, <1>2, <1>3, <1>4, <1>5, <1>6, <1>7, <1>8, <1>9, <1>10, <1>11, <1>12,
     <1>13, <1>14, <1>15, <1>16, <1>17, <1>18, <1>19 DEF Next, Client, Main

(***************************************************************************)
(* A patient client that waits for an event is owed it: the event is under *)
(* way, or it was continue's and its budget ended first.  For every        *)
(* program, symbols, budget and number of detached threads.                *)
(***************************************************************************)
THEOREM NoStopIsLost ==
  ASSUME Habits \subseteq {"configFirst"}
  PROVE  Spec => []StopOwed
<1>1. Init => OwedInv
  BY DEF Init, OwedInv, QueueAsked, LaunchStands, StopOwed
<1>2. TypeOK /\ OrderInv /\ PatientInv /\ OwedInv /\ [Next]_vars => OwedInv'
  BY StandsStep, OwedStep DEF OwedInv
<1>3. OwedInv => StopOwed
  BY DEF OwedInv
<1> QED
  BY <1>1, <1>2, <1>3, PatientCorrect, OrderCorrect, TypeCorrect, PTL DEF Spec
=============================================================================
