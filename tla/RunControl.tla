----------------------------- MODULE RunControl -----------------------------
(***************************************************************************)
(* Run control of one mudap process: the accept loop (main.cpp), the       *)
(* dispatcher that serves one request after the other (lib/dap/dap.cpp),   *)
(* the request handlers that load, run and step the program, and the       *)
(* detached threads that send a "stopped" event some milliseconds after    *)
(* the handler that started them has returned.  The client is modelled by  *)
(* what it may send; two FIFO channels stand for the two directions of the *)
(* socket.  Every write of a message to the socket is one step here.       *)
(***************************************************************************)
EXTENDS Integers, Sequences, FiniteSets

CONSTANTS
  Addr,           \* addresses the program counter can hold
  Reset,          \* the program counter of a freshly constructed CPU
  Entry,          \* the entry point launch finds in its arguments or program
  Succ,           \* Succ[a]: where one instruction at a may lead (z80ex_step)
  Line,           \* lines of the debugged source file
  LineAddr,       \* LineAddr[l]: {a}, the address the symbols give l, or {}
  Loc,            \* Loc[a]: {l}, the line the symbols give a, or {}
  InstrBreakable, \* addresses the client may set instruction breakpoints at
  StepLimit,      \* the instructions continue and next execute at most
  Timer,          \* bound: the detached threads that exist at a time
  Backlog,        \* bound: requests a client leaves unanswered, messages unread
  MaxEvents,      \* bound on event_seq_: no resume is sent, and no thread of an
                  \* earlier session interferes, once it is reached
  LaunchArgs,     \* what launch may find: a program, and symbols with it
  Habits          \* what the client does beyond a patient one, see below

(***************************************************************************)
(* A client without habits launches before configurationDone, resumes only *)
(* a program it was told is stopped, and closes only when it has all it    *)
(* asked for: a response to each request and the stop it waits for.        *)
(***************************************************************************)
AllHabits == {"overlaps", "closesEarly", "configFirst"}

Partial(S) == {{}} \cup {{x} : x \in S}

ASSUME ProgramAssumption ==
  /\ Reset \in Addr /\ Entry \in Addr
  /\ Succ \in [Addr -> SUBSET Addr] /\ \A a \in Addr : Succ[a] # {}
ASSUME SymbolAssumption ==
  /\ LineAddr \in [Line -> Partial(Addr)]
  /\ Loc \in [Addr -> Partial(Line)]
  /\ InstrBreakable \subseteq Addr
ASSUME LaunchAssumption == LaunchArgs \subseteq {{}, {"program"}, {"program", "symbols"}}
ASSUME BoundAssumption ==
  /\ StepLimit \in Nat \ {0} /\ Backlog \in Nat /\ MaxEvents \in Nat
  /\ Habits \subseteq AllHabits

VARIABLES
  conn,       \* the connection: "none", "open", "closed" by the client
  asked,      \* of the requests sent at most once, those the client has sent
  ledger,     \* the commands the client has no response for yet, oldest first
  waits,      \* the request whose event the client is waiting for, or "none"
  told,       \* the last word the client had is that the program is stopped
  heardSeq,   \* the sequence number of the last event it heard
  c2s, s2c,   \* the two directions of the socket
  launched, pending, event_seq, srcbps, bps, ibps, \* the fields of class dbg
  loaded,     \* class dbg holds the symbols of a CDB or a MAP file
  pc,         \* the program counter of the emulated CPU
  mpc,        \* what the server's main thread is doing
  req,        \* the request it is serving
  steps, from, stopped, \* locals of continue and next
  mseq,       \* the main thread's register in event_seq_++
  timer       \* the detached threads

client  == <<asked, ledger, waits, told, heardSeq>>
session == <<launched, pending, srcbps, bps, ibps, loaded, pc>>
locals  == <<steps, from, stopped>>
vars    == <<conn, client, c2s, s2c, session, event_seq,
             mpc, req, locals, mseq, timer>>

-----------------------------------------------------------------------------
Once    == {"initialize", "launch", "configurationDone", "disconnect"}
Resumes == {"continue", "next", "stepIn", "stepOut"}
\* The requests that make the server send an event.
EventCmds == {"initialize", "configurationDone"} \cup Resumes
\* "query" stands for every request that only reads the state kept here.
Commands  == Once \cup Resumes
               \cup {"setBreakpoints", "setInstructionBreakpoints", "query"}

Request ==
  [cmd : Once \cup Resumes \cup {"query"}, arg : {{}}]
    \cup [cmd : {"launch"}, arg : LaunchArgs]
    \cup [cmd : {"setBreakpoints"}, arg : SUBSET Line]
    \cup [cmd : {"setInstructionBreakpoints"}, arg : SUBSET InstrBreakable]

\* The main thread's request when it serves none.
Served == [cmd |-> "query", arg |-> {}]

\* The event a request is answered with, by the reason its "stopped" gives.
EventOf(c) == CASE c = "initialize"        -> "initialized"
                [] c = "configurationDone" -> "entry"
                [] c = "continue"          -> "breakpoint"
                [] OTHER                   -> "step"

Events  == {"initialized", "entry", "breakpoint", "step"}
Event(e, n, s)  == [kind |-> "event", what |-> e, seq |-> n, stray |-> s]
Response(c)     == [kind |-> "response", what |-> c, seq |-> 0, stray |-> FALSE]
Message == [kind : {"event", "response"}, what : Events \cup Commands,
            seq : Nat, stray : BOOLEAN]

Free   == [st |-> "free", why |-> "entry", seq |-> 0, life |-> "own"]
Sleeping(why) == [st |-> "sleeping", why |-> why, seq |-> 0, life |-> "own"]
Thread == [st   : {"free", "sleeping", "loaded", "stored"},
           why  : {"entry", "breakpoint", "step"},
           seq  : Nat,
           life : {"own", "orphan", "stray"}]

Init ==
  /\ conn = "none" /\ asked = {} /\ ledger = <<>> /\ waits = "none"
  /\ told = FALSE /\ heardSeq = 0 /\ c2s = <<>> /\ s2c = <<>>
  /\ launched = FALSE /\ pending = FALSE /\ event_seq = 1
  /\ srcbps = {} /\ bps = {} /\ ibps = {} /\ loaded = FALSE /\ pc = Reset
  /\ mpc = "accept" /\ req = Served
  /\ steps = 0 /\ from = {} /\ stopped = FALSE /\ mseq = 0
  /\ timer = [t \in Timer |-> Free]

-----------------------------------------------------------------------------
(* The client. *)

Answered == {c \in asked : \A i \in 1..Len(ledger) : ledger[i] # c}
Ready    == "initialize" \in Answered

Send(cmd, arg) ==
  /\ conn = "open" /\ "disconnect" \notin asked 
  /\ Len(ledger) < Backlog /\ Len(s2c) <= Backlog
  /\ c2s' = Append(c2s, [cmd |-> cmd, arg |-> arg])
  /\ ledger' = Append(ledger, cmd)
  /\ asked' = asked \cup ({cmd} \cap Once)
  /\ UNCHANGED <<conn, heardSeq, s2c, session, event_seq,
                 mpc, req, locals, mseq, timer>>

ClientInitialize ==
  /\ "initialize" \notin asked
  /\ Send("initialize", {})
  /\ waits' = "initialize" /\ UNCHANGED told

ClientLaunch ==
  /\ Ready /\ "launch" \notin asked
  /\ \E arg \in LaunchArgs : Send("launch", arg)
  /\ UNCHANGED <<waits, told>>

ClientConfigurationDone ==
  /\ Ready /\ "configurationDone" \notin asked /\ waits = "none"
  /\ "launch" \in asked \/ "configFirst" \in Habits
  /\ Send("configurationDone", {})
  /\ waits' = "configurationDone" /\ UNCHANGED told

ClientResume ==
  /\ Ready /\ event_seq < MaxEvents
  /\ (told /\ waits = "none") \/ "overlaps" \in Habits
  /\ \E cmd \in Resumes : Send(cmd, {}) /\ waits' = cmd
  /\ told' = FALSE

ClientSetBreakpoints ==
  /\ Ready
  /\ \E lines \in SUBSET Line : Send("setBreakpoints", lines)
  /\ UNCHANGED <<waits, told>>

ClientSetInstructionBreakpoints ==
  /\ Ready
  /\ \E addrs \in SUBSET InstrBreakable :
       Send("setInstructionBreakpoints", addrs)
  /\ UNCHANGED <<waits, told>>

ClientQuery == Ready /\ Send("query", {}) /\ UNCHANGED <<waits, told>>

ClientDisconnect ==
  Ready /\ Send("disconnect", {}) /\ UNCHANGED <<waits, told>>

\* The client reads one message: an event ends the wait for it.
ClientHear ==
  /\ conn = "open" /\ s2c # <<>>
  /\ s2c' = Tail(s2c)
  /\ LET m == Head(s2c) IN
       \/ /\ m.kind = "event"
          /\ heardSeq' = m.seq /\ waits' = "none"
          /\ told' = (told \/ m.what # "initialized")
          /\ UNCHANGED ledger
       \/ /\ m.kind = "response"
          /\ ledger' = IF ledger = <<>> THEN ledger ELSE Tail(ledger)
          /\ UNCHANGED <<heardSeq, waits, told>>
  /\ UNCHANGED <<conn, asked, c2s, session, event_seq,
                 mpc, req, locals, mseq, timer>>

\* The client has a response to all it sent and waits for no stop: all it can
\* know of the server when it closes.
Settled == ledger = <<>> /\ waits = "none"

ClientClose ==
  /\ conn = "open" /\ (Settled \/ "closesEarly" \in Habits)
  /\ conn' = "closed"
  /\ asked' = {} /\ ledger' = <<>> /\ waits' = "none" /\ told' = FALSE
  /\ heardSeq' = 0 /\ s2c' = <<>>
  /\ UNCHANGED <<c2s, session, event_seq, mpc, req, locals, mseq, timer>>

Client == \/ ClientInitialize \/ ClientLaunch \/ ClientConfigurationDone
          \/ ClientResume \/ ClientSetBreakpoints
          \/ ClientSetInstructionBreakpoints \/ ClientQuery
          \/ ClientDisconnect \/ ClientHear \/ ClientClose

-----------------------------------------------------------------------------
(* The server's main thread. *)

\* The symbols' addresses of a set of lines.
Resolve(lines) == UNION {LineAddr[l] : l \in lines}

\* lookup_source: the line of an address, when symbols are loaded.
LookupSource(a) == IF loaded THEN Loc[a] ELSE {}

Emit(m) == s2c' = IF conn = "open" THEN Append(s2c, m) ELSE s2c

\* Mutant: of two requests that have arrived the newer is served first.
TakeNewest(cmds) ==
  LET newest == c2s[Len(c2s)] IN
    /\ mpc = "read" /\ c2s # <<>> /\ newest.cmd \in cmds
    /\ req' = newest /\ c2s' = SubSeq(c2s, 1, Len(c2s) - 1)
    /\ UNCHANGED <<conn, client, s2c, event_seq, mseq>>

\* One iteration of dap::run takes a request off the socket.
Take(cmds) ==
  /\ mpc = "read" /\ c2s # <<>> /\ Head(c2s).cmd \in cmds
  /\ req' = Head(c2s) /\ c2s' = Tail(c2s)
  /\ UNCHANGED <<conn, client, s2c, event_seq, mseq>>

\* std::thread(...).detach(): the thread sleeps before it sends its event.
StartThread(why) ==
  \E t \in Timer :
    /\ timer[t].st = "free"
    /\ timer' = [timer EXCEPT ![t] = Sleeping(why)]

\* The fields of the dbg object the next connection constructs on the stack.
\* Between two sessions there is none, and nothing reads them.
NewSession ==
  /\ launched' = FALSE /\ pending' = FALSE /\ event_seq' = 1
  /\ srcbps' = {} /\ bps' = {} /\ ibps' = {} /\ loaded' = FALSE /\ pc' = Reset
  /\ steps' = 0 /\ from' = {} /\ stopped' = FALSE /\ mseq' = 0

Accept ==
  /\ conn = "none" /\ mpc = "accept"
  /\ conn' = "open" /\ mpc' = "read"
  /\ NewSession
  /\ UNCHANGED <<client, c2s, s2c, req, timer>>

InitializeRequest ==
  /\ Take({"initialize"})
  /\ mpc' = "load"
  /\ UNCHANGED <<session, locals, timer>>

\* Mutant: the entry stop is sent without waiting for configurationDone.
LaunchStopsAtOnce ==
  /\ Take({"launch"})
  /\ loaded' = ("symbols" \in Head(c2s).arg)
  /\ bps' = IF loaded' THEN Resolve(srcbps) ELSE {}
  /\ pc' = Entry /\ launched' = TRUE /\ pending' = TRUE
  /\ mpc' = "reply" /\ StartThread("entry")
  /\ UNCHANGED <<srcbps, ibps, locals>>

\* Mutant: the breakpoints set before the symbols were known stay unresolved.
LaunchForgetsBreakpoints ==
  /\ Take({"launch"})
  /\ loaded' = ("symbols" \in Head(c2s).arg)
  /\ pc' = Entry /\ launched' = TRUE /\ pending' = TRUE
  /\ mpc' = "reply"
  /\ UNCHANGED <<srcbps, bps, ibps, locals, timer>>

LaunchRequest ==
  /\ Take({"launch"})
  /\ LET arg == Head(c2s).arg IN
       /\ loaded' = ("symbols" \in arg)
       /\ bps' = IF "program" \notin arg THEN bps
                 ELSE IF "symbols" \in arg THEN Resolve(srcbps) ELSE {}
  /\ pc' = Entry /\ launched' = TRUE /\ pending' = TRUE
  /\ mpc' = "reply"
  /\ UNCHANGED <<srcbps, ibps, locals, timer>>

\* Mutant: the flag is cleared before it is tested.
ConfigurationDoneForgets ==
  /\ Take({"configurationDone"})
  /\ pending' = FALSE /\ mpc' = "reply"
  /\ UNCHANGED <<launched, srcbps, bps, ibps, loaded, pc, locals, timer>>

ConfigurationDoneRequest ==
  /\ Take({"configurationDone"})
  /\ \/ /\ launched /\ pending
        /\ pending' = FALSE /\ StartThread("entry")
     \/ /\ ~(launched /\ pending)
        /\ UNCHANGED <<pending, timer>>
  /\ mpc' = "reply"
  /\ UNCHANGED <<launched, srcbps, bps, ibps, loaded, pc, locals>>

\* Mutant: the addresses are not rebuilt.
SetBreakpointsOnlyStores ==
  /\ Take({"setBreakpoints"})
  /\ srcbps' = Head(c2s).arg /\ mpc' = "reply"
  /\ UNCHANGED <<launched, pending, bps, ibps, loaded, pc, locals, timer>>

SetBreakpointsRequest ==
  /\ Take({"setBreakpoints"})
  /\ srcbps' = Head(c2s).arg
  /\ bps' = IF loaded THEN Resolve(srcbps') ELSE {}
  /\ mpc' = "reply"
  /\ UNCHANGED <<launched, pending, ibps, loaded, pc, locals, timer>>

SetInstructionBreakpointsRequest ==
  /\ Take({"setInstructionBreakpoints"})
  /\ ibps' = Head(c2s).arg
  /\ mpc' = "reply"
  /\ UNCHANGED <<launched, pending, srcbps, bps, loaded, pc, locals, timer>>

QueryRequest ==
  /\ Take({"query"})
  /\ mpc' = "reply"
  /\ UNCHANGED <<session, locals, timer>>

\* Mutant: disconnect resets the CPU.
DisconnectResets ==
  /\ Take({"disconnect"})
  /\ launched' = FALSE /\ pc' = Reset /\ mpc' = "reply"
  /\ UNCHANGED <<pending, srcbps, bps, ibps, loaded, locals, timer>>

DisconnectRequest ==
  /\ Take({"disconnect"})
  /\ launched' = FALSE
  /\ mpc' = "reply"
  /\ UNCHANGED <<pending, srcbps, bps, ibps, loaded, pc, locals, timer>>

\* stepIn and stepOut: one instruction, and the event before the response.
StepRequest ==
  /\ Take({"stepIn", "stepOut"})
  /\ pc' \in Succ[pc]
  /\ mpc' = "load"
  /\ UNCHANGED <<launched, pending, srcbps, bps, ibps, loaded, locals, timer>>

\* Every step of the main thread that touches no channel but the answer's.
Inside(here) == mpc = here /\ UNCHANGED <<conn, client, c2s>>

ContinueRequest ==
  /\ Take({"continue"})
  /\ mpc' = "run" /\ steps' = 0 /\ stopped' = FALSE
  /\ UNCHANGED <<session, from, timer>>

\* Mutant: one iteration too many.
ContinuingOnceMore == steps <= StepLimit /\ ~stopped /\ (launched \/ steps = 0)

\* The loop of continue goes on.
Continuing == steps < StepLimit /\ ~stopped /\ (launched \/ steps = 0)

\* Mutant: the loop does not count.
ContinueUncounted ==
  /\ Inside("run") /\ Continuing
  /\ pc' \in Succ[pc]
  /\ stopped' = (launched /\ pc' \in bps \cup ibps)
  /\ UNCHANGED <<req, s2c, launched, pending, srcbps, bps, ibps, loaded,
                 event_seq, mpc, steps, from, mseq, timer>>

ContinueStep ==
  /\ Inside("run") /\ Continuing
  /\ pc' \in Succ[pc]
  /\ stopped' = (launched /\ pc' \in bps \cup ibps)
  /\ steps' = steps + 1
  /\ UNCHANGED <<req, s2c, launched, pending, srcbps, bps, ibps, loaded, event_seq,
                 mpc, from, mseq, timer>>

ContinueReturn ==
  /\ Inside("run") /\ ~Continuing
  /\ \/ stopped /\ StartThread("breakpoint")
     \/ ~stopped /\ UNCHANGED timer
  /\ mpc' = "reply"
  /\ UNCHANGED <<req, s2c, session, event_seq, locals, mseq>>

\* Mutant: the thread is started before the loop has run.
NextStopsEarly ==
  /\ Take({"next"}) /\ StartThread("step")
  /\ mpc' = "step" /\ steps' = 0 /\ from' = LookupSource(pc)
  /\ UNCHANGED <<session, stopped>>

NextRequest ==
  /\ Take({"next"})
  /\ mpc' = "step" /\ steps' = 0 /\ from' = LookupSource(pc)
  /\ UNCHANGED <<session, stopped, timer>>

\* The loop of next goes on; without a line to leave there is one step.
Stepping == \/ steps = 0
            \/ /\ from # {} /\ steps < StepLimit
               /\ LookupSource(pc) \in {from, {}}

NextStep ==
  /\ Inside("step") /\ Stepping
  /\ pc' \in Succ[pc]
  /\ steps' = steps + 1
  /\ UNCHANGED <<req, s2c, launched, pending, srcbps, bps, ibps, loaded, event_seq,
                 mpc, from, stopped, mseq, timer>>

\* Mutant: the reason of continue, copied.
NextSaysBreakpoint ==
  /\ Inside("step") /\ ~Stepping
  /\ StartThread("breakpoint")
  /\ mpc' = "reply" /\ from' = {}
  /\ UNCHANGED <<req, s2c, session, event_seq, steps, stopped, mseq>>

\* Mutant: like continue, a step that uses up its budget reports nothing.
NextGivesUp ==
  /\ Inside("step") /\ ~Stepping
  /\ IF steps < StepLimit THEN StartThread("step") ELSE UNCHANGED timer
  /\ mpc' = "reply" /\ from' = {}
  /\ UNCHANGED <<req, s2c, session, event_seq, steps, stopped, mseq>>

NextReturn ==
  /\ Inside("step") /\ ~Stepping
  /\ StartThread("step")
  /\ mpc' = "reply" /\ from' = {}
  /\ UNCHANGED <<req, s2c, session, event_seq, steps, stopped, mseq>>

\* An event sent by a handler itself: next_event_seq() is a load and a store.
MainLoad ==
  /\ Inside("load")
  /\ mseq' = event_seq /\ mpc' = "store"
  /\ UNCHANGED <<req, s2c, session, event_seq, locals, timer>>

MainStore ==
  /\ Inside("store")
  /\ event_seq' = mseq + 1 /\ mpc' = "emit"
  /\ UNCHANGED <<req, s2c, session, locals, mseq, timer>>

MainEmit ==
  /\ Inside("emit")
  /\ Emit(Event(EventOf(req.cmd), mseq, FALSE))
  /\ mpc' = "reply" /\ mseq' = 0
  /\ UNCHANGED <<req, session, event_seq, locals, timer>>

MainReply ==
  /\ Inside("reply")
  /\ Emit(Response(req.cmd))
  /\ mpc' = "read" /\ req' = Served
  /\ UNCHANGED <<session, event_seq, locals, mseq, timer>>

\* End of file: run returns, dap and dbg are destroyed, their threads are not.
EndSession ==
  /\ conn = "closed" /\ mpc = "read" /\ c2s = <<>>
  /\ conn' = "none" /\ mpc' = "accept"
  /\ timer' = [t \in Timer |-> IF timer[t].st = "free" THEN timer[t]
                               ELSE [timer[t] EXCEPT !.life = "orphan"]]
  /\ NewSession
  /\ UNCHANGED <<client, c2s, s2c, req>>

Main == \/ InitializeRequest \/ LaunchRequest \/ ConfigurationDoneRequest
        \/ SetBreakpointsRequest \/ SetInstructionBreakpointsRequest
        \/ QueryRequest \/ DisconnectRequest \/ StepRequest
        \/ ContinueRequest \/ ContinueStep \/ ContinueReturn
        \/ NextRequest \/ NextStep \/ NextReturn
        \/ MainLoad \/ MainStore \/ MainEmit \/ MainReply \/ EndSession

-----------------------------------------------------------------------------
(* The detached threads. *)

TimerLoad(t) ==
  /\ timer[t].st = "sleeping" /\ timer[t].life # "orphan" /\ mpc # "crashed"
  /\ timer' = [timer EXCEPT ![t].st = "loaded", ![t].seq = event_seq]
  /\ UNCHANGED <<conn, client, c2s, s2c, session, event_seq,
                 mpc, req, locals, mseq>>

\* Mutant: the counter is read and not incremented.
TimerKeepsCounter(t) ==
  /\ timer[t].st = "loaded" /\ timer[t].life # "orphan" /\ mpc # "crashed"
  /\ timer' = [timer EXCEPT ![t].st = "stored"]
  /\ UNCHANGED <<conn, client, c2s, s2c, session, event_seq,
                 mpc, req, locals, mseq>>

TimerStore(t) ==
  /\ timer[t].st = "loaded" /\ timer[t].life # "orphan" /\ mpc # "crashed"
  /\ event_seq' = timer[t].seq + 1
  /\ timer' = [timer EXCEPT ![t].st = "stored"]
  /\ UNCHANGED <<conn, client, c2s, s2c, session, mpc, req, locals, mseq>>

TimerSend(t) ==
  /\ timer[t].st = "stored" /\ timer[t].life # "orphan" /\ mpc # "crashed"
  /\ Emit(Event(timer[t].why, timer[t].seq, timer[t].life = "stray"))
  /\ timer' = [timer EXCEPT ![t] = Free]
  /\ UNCHANGED <<conn, client, c2s, session, event_seq, mpc, req, locals, mseq>>

TimerStep(t) == TimerLoad(t) \/ TimerStore(t) \/ TimerSend(t)

(***************************************************************************)
(* A thread that outlives its session holds a dangling reference to the    *)
(* dbg object that was on main's stack.  What its next access does is      *)
(* undefined: the process dies, the access hits memory nobody looks at, or *)
(* it finds the dbg object of the next session at the same stack address.  *)
(***************************************************************************)
OrphanCrash(t) ==
  /\ timer[t].life = "orphan" /\ mpc # "crashed"
  /\ mpc' = "crashed" /\ conn' = "none"
  /\ asked' = {} /\ ledger' = <<>> /\ waits' = "none" /\ told' = FALSE
  /\ heardSeq' = 0 /\ c2s' = <<>> /\ s2c' = <<>>
  /\ timer' = [u \in Timer |-> Free] /\ req' = Served
  /\ NewSession

OrphanVanish(t) ==
  /\ timer[t].life = "orphan" /\ mpc # "crashed"
  /\ timer' = [timer EXCEPT ![t] = Free]
  /\ UNCHANGED <<conn, client, c2s, s2c, session, event_seq,
                 mpc, req, locals, mseq>>

OrphanAdopted(t) ==
  /\ timer[t].life = "orphan" /\ mpc \notin {"accept", "crashed"}
  /\ timer[t].seq < MaxEvents
  /\ timer' = [timer EXCEPT ![t].life = "stray"]
  /\ UNCHANGED <<conn, client, c2s, s2c, session, event_seq,
                 mpc, req, locals, mseq>>

Orphan(t) == OrphanCrash(t) \/ OrphanVanish(t) \/ OrphanAdopted(t)

-----------------------------------------------------------------------------
Next == Client \/ Accept \/ Main \/ \E t \in Timer : TimerStep(t) \/ Orphan(t)

Spec == Init /\ [][Next]_vars

(***************************************************************************)
(* The operating system runs every thread that can run, and the client     *)
(* reads its socket.  Nothing makes the client send, close or connect.     *)
(***************************************************************************)
Fairness == /\ WF_vars(Main) /\ WF_vars(ClientHear)
            /\ \A t \in Timer : WF_vars(TimerStep(t))

FairSpec == Spec /\ Fairness

-----------------------------------------------------------------------------
(* Properties. *)

ClientTypes ==
  /\ asked \subseteq Once /\ ledger \in Seq(Commands)
  /\ waits \in EventCmds \cup {"none"} /\ told \in BOOLEAN /\ heardSeq \in Nat
ChannelTypes ==
  /\ conn \in {"none", "open", "closed"}
  /\ c2s \in Seq(Request) /\ s2c \in Seq(Message)
SessionTypes ==
  /\ launched \in BOOLEAN /\ pending \in BOOLEAN /\ event_seq \in Nat
  /\ srcbps \subseteq Line /\ bps \subseteq Addr /\ ibps \subseteq Addr
  /\ loaded \in BOOLEAN /\ pc \in Addr
MainTypes ==
  /\ mpc \in {"accept", "read", "run", "step", "load", "store", "emit",
              "reply", "crashed"}
  /\ req \in Request
  /\ steps \in 0..StepLimit /\ from \in SUBSET Line /\ stopped \in BOOLEAN
  /\ mseq \in Nat

TypeOK == /\ ClientTypes /\ ChannelTypes /\ SessionTypes /\ MainTypes
          /\ timer \in [Timer -> Thread]

\* The places a stop (or the initialized event) the client waits for can be:
\* in a request not served yet, in the handler, in a thread, in an event.
InRequest(i) == c2s[i].cmd \in EventCmds
InMain       == mpc \in {"run", "step", "load", "store", "emit"}
InThread(t)  == timer[t].st # "free"
InEvent(i)   == s2c[i].kind = "event"

InFlight == \/ \E i \in 1..Len(c2s) : InRequest(i)
            \/ InMain
            \/ \E t \in Timer : InThread(t)
            \/ \E i \in 1..Len(s2c) : InEvent(i)

(***************************************************************************)
(* A client that resumes only what it was told is stopped never has two    *)
(* stops under way, whatever the handlers, the detached threads and the    *)
(* socket do in between (configuration_done.cpp, continue.cpp, next.cpp,   *)
(* step_in.cpp, step_out.cpp): each resume makes at most one event.        *)
(***************************************************************************)
AtMostOneStop ==
  /\ \A i, j \in 1..Len(c2s) : InRequest(i) /\ InRequest(j) => i = j
  /\ \A t, u \in Timer : InThread(t) /\ InThread(u) => t = u
  /\ \A i, j \in 1..Len(s2c) : InEvent(i) /\ InEvent(j) => i = j
  /\ \A i \in 1..Len(c2s) : InRequest(i) =>
       /\ ~InMain
       /\ \A t \in Timer : ~InThread(t)
       /\ \A j \in 1..Len(s2c) : ~InEvent(j)
  /\ InMain => /\ \A t \in Timer : ~InThread(t)
               /\ \A j \in 1..Len(s2c) : ~InEvent(j)
  /\ \A t \in Timer, j \in 1..Len(s2c) : ~(InThread(t) /\ InEvent(j))

(***************************************************************************)
(* A program the client was told is stopped is not running and nothing is  *)
(* on its way that would run it: no request that moves the program counter *)
(* waits in the socket or is being served.                                 *)
(***************************************************************************)
StoppedMeansHalted ==
  conn = "open" /\ told /\ waits = "none" =>
    /\ mpc \notin {"run", "step"}
    /\ \A i \in 1..Len(c2s) : c2s[i].cmd \notin Resumes \cup {"launch"}

\* The entry stop waits for a configurationDone that may have come already, before
\* the launch: when nothing is under way any more it has, and the stop is lost.
EntryStopLost == /\ "configFirst" \in Habits /\ waits = "configurationDone"
                 /\ launched => pending

(***************************************************************************)
(* The client is owed the event it waits for as long as it waits, and      *)
(* loses it in two cases only: continue executed StepLimit instructions    *)
(* (100000 in continue.cpp) without reaching a breakpoint and returned; or *)
(* the client sent configurationDone before launch, whose entry stop then  *)
(* stays pending (configuration_done.cpp, launch.cpp).                     *)
(***************************************************************************)
StopOwed ==
  conn = "open" /\ waits # "none" =>
    \/ InFlight
    \/ waits = "continue" /\ ~stopped /\ steps = StepLimit
    \/ EntryStopLost

\* Nothing is left in the server that could still want the connection.
Quiet == c2s = <<>> /\ mpc = "read" /\ \A t \in Timer : timer[t].st = "free"

(***************************************************************************)
(* A detached thread holds a reference to the dbg object on main's stack   *)
(* (configuration_done.cpp, continue.cpp, next.cpp) and nobody joins it.   *)
(* When a patient client has its responses and the stop it waits for, no   *)
(* thread is left, nothing is unread and nothing is served: it can close   *)
(* then, going by what it heard, and no thread outlives the session.       *)
(***************************************************************************)
SettledIsQuiet == conn = "open" /\ Settled => Quiet

(***************************************************************************)
(* The stop a client hears is the answer to what it asked last: its reason *)
(* is the one that request's handler gives, and it is not a stop an        *)
(* earlier session's thread is late with.                                  *)
(***************************************************************************)
StopAnswersRequest ==
  \A i \in 1..Len(s2c) :
    InEvent(i) => /\ waits # "none" /\ s2c[i].what = EventOf(waits)
                  /\ ~s2c[i].stray

(***************************************************************************)
(* Events reach the client with increasing sequence numbers, although the  *)
(* counter next_event_seq() increments is neither atomic nor locked and is *)
(* used by the main thread and by every detached thread.                   *)
(***************************************************************************)
EventSeqsIncrease ==
  conn = "open" =>
    \A i \in 1..Len(s2c) :
      InEvent(i) => heardSeq < s2c[i].seq /\ s2c[i].seq < event_seq

(***************************************************************************)
(* Whatever the order of launch and setBreakpoints, the addresses continue *)
(* compares with are the ones the loaded symbols give the lines the client *)
(* asked for last (rebuild_source_breakpoint_addresses): a breakpoint set  *)
(* before the symbols are known is resolved when they are.                 *)
(***************************************************************************)
BreakpointsFollowSymbols ==
  bps = IF loaded THEN Resolve(srcbps) ELSE {}

(***************************************************************************)
(* continue never runs on past an address with a breakpoint: reaching one  *)
(* in a launched program ends the loop, at the first iteration or the last.*)
(***************************************************************************)
ContinueHonoursBreakpoints ==
  /\ mpc = "run" /\ steps > 0 /\ launched
  /\ pc \in ibps \/ (loaded /\ pc \in Resolve(srcbps))
  => ~Continuing /\ stopped

(***************************************************************************)
(* "Set instruction breakpoints. Break on address." (include/dap/dap.h):   *)
(* next does not execute on past an address with an instruction            *)
(* breakpoint.  The code does: the loop of next.cpp looks at source        *)
(* locations only.                                                         *)
(***************************************************************************)
NextHonoursBreakpoints ==
  mpc = "step" /\ steps > 0 /\ pc \in ibps => ~Stepping

(***************************************************************************)
(* A program continue answered for is running or its stop is on the way,   *)
(* as "allThreadsContinued": true says.  The code falsifies it: past its   *)
(* budget continue returns and nothing executes the program any more.      *)
(***************************************************************************)
ContinueEndsInStop ==
  conn = "open" /\ waits = "continue" => InFlight

\* The places of the responses in a channel, and how many are before a place.
Answers(s)          == {i \in 1..Len(s) : s[i].kind = "response"}
AnswersBefore(s, i) == Cardinality({j \in Answers(s) : j < i})

\* The requests in service: the main thread has taken one or none.
Serving == IF mpc \in {"accept", "read", "crashed"} THEN 0 ELSE 1

(***************************************************************************)
(* Responses come in the order of the requests, one for each: what the     *)
(* client has no response for yet is, in order, what is on its way back,   *)
(* what is being served and what is still in the socket.  This holds for   *)
(* every client, and with events of any number between the responses.      *)
(***************************************************************************)
ResponsesInOrder ==
  conn = "open" =>
    LET n == Cardinality(Answers(s2c)) IN
      /\ Len(ledger) = n + Serving + Len(c2s)
      /\ \A i \in Answers(s2c) :
           s2c[i].what = ledger[AnswersBefore(s2c, i) + 1]
      /\ Serving = 1 => req.cmd = ledger[n + 1]
      /\ \A i \in 1..Len(c2s) : c2s[i].cmd = ledger[n + Serving + i]

\* How many steps the main thread has left, at most: for the request it serves,
\* and for one it has still to take.
StepsLeft == CASE mpc \in {"run", "step"} -> (StepLimit - steps) + 3
               [] mpc = "load"  -> 5
               [] mpc = "store" -> 4
               [] mpc = "emit"  -> 3
               [] mpc = "reply" -> 2
               [] mpc = "read"  -> 1
               [] OTHER         -> 0
Work == Len(c2s) * (StepLimit + 4) + StepsLeft

(***************************************************************************)
(* Whatever program it executes, the main thread works off what the client *)
(* has sent: every step of it, in a loop of continue and next too, leaves  *)
(* less to do, and only the client makes more of it, by sending or by      *)
(* connecting.  A request is answered, or the process gone, after as many  *)
(* steps as there is work.                                                 *)
(***************************************************************************)
WorkRunsOut ==
  [][/\ Main => Work' \in 0..(Work - 1)
     /\ Work' > Work => Client \/ Accept]_vars

(***************************************************************************)
(* A session keeps the promise of StopProtocol: after a stop is reported   *)
(* the program counter stays until the client resumes.                     *)
(***************************************************************************)
PhaseOf == IF conn # "open" THEN "idle"
           ELSE IF told THEN "stopped"
           ELSE IF waits \in Resumes THEN "running" ELSE "idle"

Abstract == INSTANCE StopProtocol WITH phase <- PhaseOf, where <- pc

StopSpec == Abstract!Spec

(***************************************************************************)
(* Every step the client asks for and the stop at the entry point are      *)
(* eventually reported, unless the client leaves, or configured before it  *)
(* launched and nothing is under way any more.  continue is not in the     *)
(* list: it may use up its budget.                                         *)
(***************************************************************************)
StepsEndInStops ==
  (conn = "open" /\ waits \in EventCmds \ {"continue"})
    ~> (waits = "none" \/ conn # "open" \/ (EntryStopLost /\ ~InFlight))

(***************************************************************************)
(* initialize, launch, configurationDone and disconnect are answered: no   *)
(* handler served before them loops for ever, even over a program that     *)
(* does, because the loops of continue and next are bounded.               *)
(***************************************************************************)
RequestsAnswered ==
  (conn = "open" /\ asked # Answered) ~> (asked = Answered \/ conn # "open")
=============================================================================
