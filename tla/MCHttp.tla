------------------------------- MODULE MCHttp -------------------------------
(* Every stream of up to five pieces out of five, and longer ones with      *)
(* bodies, pipelined requests, requests behind an error and bad lengths.   *)
EXTENDS Http

MCPieces == {"get", "keep", "len1", "x", NewLine}

Get == <<"get", NewLine>>
Keep == <<"keep", NewLine>>
Blank == <<NewLine>>

MCStreams ==
    UNION {[1..n -> MCPieces] : n \in 1..5} \union
    { Get \o Keep \o Blank \o Get \o Keep \o Blank \o Get \o Blank,
      Get \o <<"len2", NewLine>> \o Keep \o Blank \o <<"x", NewLine>> \o Get \o Blank,
      Get \o <<"len1", NewLine, "len2", NewLine>> \o Keep \o Blank \o <<"get">> \o Get \o Blank,
      Get \o Blank \o <<"lost", NewLine>> \o Blank \o Get \o Keep \o Blank,
      <<"lost", NewLine>> \o Keep \o <<"len0", NewLine>> \o Keep \o Blank \o <<"x", NewLine>>,
      Get \o <<"lenX", NewLine>> \o Blank \o Get,
      Get \o Keep \o <<"lenM", NewLine>> \o Blank \o Get \o Blank,
      Get \o Keep \o <<"x", NewLine>> \o Get \o Blank \o Get,
      Get \o <<"keep", "x", NewLine>> \o Keep \o Blank \o <<"x", "x", "x", "x">> \o Get,
      Get \o <<"x", "len1", NewLine>> \o Keep \o Blank \o <<"get", "lost", NewLine>> \o Blank }
=============================================================================
