----------------------------- MODULE ByteQueue -----------------------------
(***************************************************************************)
(* What a byte buffer promises to those who fill and drain it: the bytes   *)
(* come out in the order in which they went in, each of them once.  `data' *)
(* holds the bytes that the last call has moved.                           *)
(***************************************************************************)
EXTENDS Sequences

VARIABLES queue, data

vars == <<queue, data>>

Init == queue = <<>> /\ data = <<>>

Put == queue' = queue \o data'

Take == queue = data' \o queue'

Next == Put \/ Take

Spec == Init /\ [][Next]_vars
=============================================================================
