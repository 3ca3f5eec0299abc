-------------------------- MODULE MCSourceDelivery --------------------------
(***************************************************************************)
(* Three addresses: one in each file of the CDB, and one the CDB does not  *)
(* know; the MAP knows the first and the last.                             *)
(***************************************************************************)
EXTENDS SourceDelivery, TLC

CONSTANTS a, b, c, p, q

MCCdbLoc == [x \in Addr |-> CASE x = a -> {p} [] x = b -> {q} [] OTHER -> {}]
MCMapLoc == [x \in Addr |-> CASE x = a -> {p} [] x = c -> {q} [] OTHER -> {}]
=============================================================================
