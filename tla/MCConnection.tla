---------------------------- MODULE MCConnection ----------------------------
(* Instances of Connection for TLC.                                          *)
EXTENDS Connection

\* A callback that waits for more input, one that answers, one that answers and
\* closes (a short connection), one that only closes.
Answering == {<<>>, <<"SendInLoop">>, <<"SendInLoop", "ShutdownInLoop">>, <<"ShutdownInLoop">>}
\* One that also releases the connection by itself.
Releasing == Answering \cup {<<"Release">>}
\* What the public functions of Connection hand over to its loop.
AllRequests == {"SendInLoop", "ShutdownInLoop", "ReleaseInLoop"}
=============================================================================
