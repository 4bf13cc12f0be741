---------------------------- MODULE MCEventLoop -----------------------------
(* Instances of EventLoop for TLC: two foreign threads, two channels besides *)
(* the eventfd's, two functors.                                              *)
EXTENDS EventLoop

CONSTANTS t1, t2, f1, f2, c1, c2

MCThreads == {t1, t2}
MCTask == {f1, f2}
MCChannels == {c1, c2}
=============================================================================
