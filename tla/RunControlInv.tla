--------------------------- MODULE RunControlInv ----------------------------
(***************************************************************************)
(* The inductive invariant of a session with a patient client, in named    *)
(* parts.  AtMostOneStop is true but does not say why it stays true: the   *)
(* client asks for a stop only when it waits for none, so the invariant    *)
(* has to tie what it waits for to wherever that stop is at the moment.    *)
(***************************************************************************)
EXTENDS RunControl

\* Outside an open connection nothing is left of a session.
NothingLeftBehind ==
  /\ mpc # "crashed" /\ (conn = "none" <=> mpc = "accept")
  /\ \A t \in Timer : timer[t].life = "own"
  /\ conn # "open" =>
       /\ c2s = <<>> /\ s2c = <<>> /\ mpc \in {"accept", "read"}
       /\ waits = "none" /\ ~told /\ heardSeq = 0 /\ asked = {}
       /\ \A t \in Timer : ~InThread(t)

\* The stop under way is the one the client waits for.
ServesWaiting ==
  /\ \A i \in 1..Len(c2s) : InRequest(i) => c2s[i].cmd = waits
  /\ InMain => req.cmd = waits
  /\ mpc = "run" => req.cmd = "continue"
  /\ mpc = "step" => req.cmd = "next"
  /\ mpc \in {"load", "store", "emit"} =>
       req.cmd \in {"initialize", "stepIn", "stepOut"}
  /\ \A t \in Timer : InThread(t) =>
       /\ waits \in {"configurationDone", "continue", "next"}
       /\ timer[t].why = EventOf(waits)
  /\ StopAnswersRequest

\* The order in which a patient client makes itself known.
RequestOrder ==
  /\ told => waits = "none"
  /\ asked # {} => "initialize" \in asked
  /\ asked = {} => waits = "none"
  /\ "configurationDone" \notin asked => ~told /\ waits \in {"none", "initialize"}

\* Nothing has run yet, or is about to: no stop but that of initialize is made.
NothingRan ==
  /\ ~launched /\ ~told /\ waits \notin Resumes
  /\ \A t \in Timer : ~InThread(t)
  /\ \A i \in 1..Len(s2c) : InEvent(i) => s2c[i].what = "initialized"

\* Before its one launch is served, a session stops nothing and resumes nothing.
LaunchFirst ==
  /\ conn = "open" /\ "launch" \notin asked => NothingRan
  /\ \A i \in 1..Len(c2s) :
       c2s[i].cmd = "launch" => "launch" \in asked /\ NothingRan
  /\ \A i, j \in 1..Len(c2s) :
       c2s[i].cmd = "launch" /\ c2s[j].cmd = "launch" => i = j

\* Whoever is between the load and the store of event_seq_++ is alone there.
CounterHeld ==
  /\ conn = "open" => heardSeq < event_seq
  /\ mpc = "store" => mseq = event_seq
  /\ mpc = "emit" => mseq + 1 = event_seq /\ heardSeq < mseq
  /\ \A t \in Timer :
       /\ timer[t].st = "loaded" => timer[t].seq = event_seq
       /\ timer[t].st = "stored" =>
            timer[t].seq + 1 = event_seq /\ heardSeq < timer[t].seq
  /\ EventSeqsIncrease

(***************************************************************************)
(* Everything that keeps one stop at a time under way in a patient         *)
(* client's session: the conjunction TLC checks and TLAPS proves           *)
(* inductive.                                                              *)
(***************************************************************************)
PatientInv == /\ NothingLeftBehind /\ ServesWaiting /\ AtMostOneStop
              /\ RequestOrder /\ LaunchFirst /\ CounterHeld

(***************************************************************************)
(* What a patient client's stops rest on besides: the program is launched  *)
(* when continue looks at its breakpoints, and has its entry stop still to *)
(* come when configurationDone asks for it.                                *)
(***************************************************************************)
LaunchWaits == \E i \in 1..Len(c2s) : c2s[i].cmd = "launch"

QueueAsked ==
  \A i \in 1..Len(c2s) :
    /\ c2s[i].cmd \in Once => c2s[i].cmd \in asked
    /\ c2s[i].cmd = "disconnect" => i = Len(c2s)

LaunchStands ==
  /\ conn = "open" /\ "launch" \in asked /\ "disconnect" \notin asked =>
       /\ launched \/ LaunchWaits
       /\ "configurationDone" \notin asked => pending \/ LaunchWaits
  /\ \A i \in 1..Len(c2s) : c2s[i].cmd = "configurationDone" =>
       /\ launched => pending
       /\ \/ launched \/ "configFirst" \in Habits
          \/ \E j \in 1..Len(c2s) : j < i /\ c2s[j].cmd = "launch"
  /\ \A i \in 1..Len(c2s) : c2s[i].cmd \in Resumes => launched
  /\ mpc = "run" => launched

OwedInv == QueueAsked /\ LaunchStands /\ StopOwed

(***************************************************************************)
(* The invariant behind BreakpointsFollowSymbols, for every client: before *)
(* the one launch of a session no symbols are loaded, so a launch without  *)
(* a program, which leaves the addresses alone, has none to leave.         *)
(***************************************************************************)
OneLaunch ==
  /\ conn = "none" => c2s = <<>> /\ ~loaded
  /\ conn = "open" /\ "launch" \notin asked =>
       ~loaded /\ \A i \in 1..Len(c2s) : c2s[i].cmd # "launch"
  /\ \A i \in 1..Len(c2s) : c2s[i].cmd = "launch" => ~loaded
  /\ \A i, j \in 1..Len(c2s) :
       c2s[i].cmd = "launch" /\ c2s[j].cmd = "launch" => i = j

SymbolInv == OneLaunch /\ BreakpointsFollowSymbols

(***************************************************************************)
(* The invariant behind ResponsesInOrder, for every client: a session      *)
(* starts and a closed one goes on with nothing between the client and     *)
(* its answers, whatever is left for the server to read.                   *)
(***************************************************************************)
OrderInv ==
  /\ conn = "none" <=> mpc \in {"accept", "crashed"}
  /\ conn = "none" => c2s = <<>>
  /\ conn # "open" => ledger = <<>> /\ s2c = <<>>
  /\ ResponsesInOrder

\* The flag the loop of continue ends by is that of the address reached.
StopFlag ==
  mpc = "run" /\ steps > 0 /\ launched /\ pc \in bps \cup ibps => stopped

\* A handler may start its detached thread: no bound of the model is in its way.
StartsThread ==
  \/ mpc \in {"run", "step"}
  \/ mpc = "read" /\ c2s # <<>> /\ Head(c2s).cmd = "configurationDone"
ThreadToSpare == StartsThread => \E t \in Timer : timer[t].st = "free"
=============================================================================
