---------------------------- MODULE StopProtocol ----------------------------
(***************************************************************************)
(* What a debugging session promises its client, with nothing of how the   *)
(* server does it: the program moves only while the client believes it is  *)
(* not stopped, and a program reported as stopped stays where it is until  *)
(* the client itself resumes it.                                           *)
(***************************************************************************)

CONSTANT Addr           \* the addresses a program counter can hold

VARIABLES phase,        \* what the client knows: nothing yet, running, stopped
          where         \* the program counter

vars == <<phase, where>>

Phase == {"idle", "running", "stopped"}

TypeOK == phase \in Phase /\ where \in Addr

Init == phase = "idle" /\ where \in Addr

\* A program is loaded, or a new session starts, before anything was reported.
Load == phase = "idle" /\ phase' = phase /\ where' \in Addr

\* The client asks a stopped program to go on.
Resume == phase = "stopped" /\ phase' = "running" /\ where' = where

\* The program executes.
Run == phase = "running" /\ phase' = phase /\ where' \in Addr

\* The client is told that the program is stopped.
Stop == phase # "stopped" /\ phase' = "stopped" /\ where' = where

\* The session ends.
Leave == phase' = "idle" /\ where' = where

Next == Load \/ Resume \/ Run \/ Stop \/ Leave

Spec == Init /\ [][Next]_vars
=============================================================================
