----------------------------- MODULE MCDispatch -----------------------------
(* Instances of Dispatch for TLC: one payload that batches messages to two  *)
(* phone numbers and names one of them first.                               *)
EXTENDS Dispatch

CONSTANTS p1, p2, u1, u2

MCFirst == [p \in Payloads |-> p1]
MCMessages == [p \in Payloads |-> {<<p1, u1>>, <<p2, u2>>}]
=============================================================================
