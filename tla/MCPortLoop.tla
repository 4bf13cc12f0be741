----------------------------- MODULE MCPortLoop -----------------------------
(* Two functors that can be told apart, handed over three times in all.     *)
EXTENDS PortLoop
CONSTANTS f1, f2
MCTask == {f1, f2}
=============================================================================
