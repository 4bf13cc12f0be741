------------------------------ MODULE MCServer ------------------------------
(* A server without threads and one with two, and an int that one id exceeds. *)
EXTENDS Server

MCThreadCounts == {0, 2}
MCFds == {5, 6}
=============================================================================
