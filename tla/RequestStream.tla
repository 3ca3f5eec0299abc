--------------------------- MODULE RequestStream ---------------------------
(***************************************************************************)
(* What a connection promises the program behind it, with nothing of bytes *)
(* and buffers: the requests a client sends are served one by one, each    *)
(* once and in the order they were sent, and only a client that hangs up   *)
(* can make the program serve something no one sent, once and last.        *)
(***************************************************************************)
EXTENDS Naturals, Sequences

VARIABLES asked,    \* how many requests the client has sent
          open,     \* the client has not hung up
          served    \* the numbers of the requests served, 0 for a torn one

vars == <<asked, open, served>>

Torn == 0
Cut  == \E i \in DOMAIN served : served[i] = Torn

TypeOK == asked \in Nat /\ open \in BOOLEAN /\ served \in Seq(Nat)

Init == asked = 0 /\ open = TRUE /\ served = << >>

Ask == open /\ asked' = asked + 1 /\ UNCHANGED <<open, served>>

\* The next request is served.
Serve ==
  /\ ~Cut /\ Len(served) < asked
  /\ served' = Append(served, Len(served) + 1)
  /\ UNCHANGED <<asked, open>>

\* The next request did not arrive whole.
ServeTorn ==
  /\ ~open /\ ~Cut /\ Len(served) < asked
  /\ served' = Append(served, Torn)
  /\ UNCHANGED <<asked, open>>

HangUp == open /\ open' = FALSE /\ UNCHANGED <<asked, served>>

Next == Ask \/ Serve \/ ServeTorn \/ HangUp

Spec == Init /\ [][Next]_vars
=============================================================================
