------------------------------ MODULE HttpText ------------------------------
(***************************************************************************)
(* Texts of HTTP requests.  A stream is a sequence of pieces of text, each *)
(* a word below, and a line is what ends in a newline.  A piece counts as  *)
(* one byte; TCP may cut a stream between any two pieces, and hence inside *)
(* a line.                                                                 *)
(*   "get"    GET /hello HTTP/1.1     (a route is set for it)              *)
(*   "lost"   GET /lost HTTP/1.1      (no route)                           *)
(*   "keep"   Connection: keep-alive                                       *)
(*   "len0" "len1" "len2"   Content-Length: 0, 1, 2                        *)
(*   "lenX"   Content-Length: x                                            *)
(*   "lenM"   Content-Length: -1                                           *)
(*   "x"      text without a colon                                         *)
(***************************************************************************)
EXTENDS Integers, Sequences

CONSTANTS MaxLine,  \* MAX_LINE (8192)
          SizeMax   \* the largest size_t

NewLine == "nl"
RequestTexts == {"get", "lost"}

\* What becomes of the number as a size_t; -1 stands for stol throwing.
Length == [len0 |-> 0, len1 |-> 1, len2 |-> 2, lenM |-> SizeMax, lenX |-> -1]

HeaderTexts == {"keep"} \union DOMAIN Length
Pieces == RequestTexts \union HeaderTexts \union {"x", NewLine}

\* The regular expression asks for a method in front and a version at the end
\* and lets the path contain anything but a question mark.
IsRequestLine(text) ==
    text # <<>> /\ text[1] \in RequestTexts /\ text[Len(text)] \in RequestTexts

\* What routing makes of the path: only the plain path has a route.
Status(text) == IF text = <<"get">> THEN 200 ELSE 404

\* A header line contains ": ".
IsHeader(text) == \E i \in DOMAIN text : text[i] \in HeaderTexts

\* What the first piece names: the rest of the line changes the value of
\* Connection, and is skipped by stol.
IsLength(text) == text # <<>> /\ text[1] \in DOMAIN Length
IsConnection(text) == text # <<>> /\ text[1] = "keep"
IsKeepAlive(text) == text = <<"keep">>
=============================================================================
