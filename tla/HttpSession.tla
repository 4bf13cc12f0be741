----------------------------- MODULE HttpSession -----------------------------
(***************************************************************************)
(* What the HTTP server promises to a client: it answers the requests of   *)
(* the stream one by one and in order, and what counts as a request        *)
(* depends on the stream alone, never on the pieces in which TCP delivers  *)
(* it.  Message looks at all unanswered bytes at once.                     *)
(***************************************************************************)
EXTENDS HttpText, FiniteSetsExt

VARIABLES pending,   \* the bytes received and not yet answered
          answers    \* the answers given

vars == <<pending, answers>>

\* The lines of s start at the front and behind every newline.
LineStarts(s) == {1} \union {i + 1 : i \in {j \in DOMAIN s : s[j] = NewLine}}
LineEnds(s, i) == {j \in i .. Len(s) : s[j] = NewLine}
TextAt(s, i) == SubSeq(s, i, Min(LineEnds(s, i)) - 1)

\* What a parser of the whole thinks of the line that starts at i.
Verdict(s, i) ==
    IF LineEnds(s, i) = {}
    THEN IF Len(s) - i + 1 > MaxLine THEN "toolong" ELSE "wait"
    ELSE LET text == TextAt(s, i)
         IN  IF Len(text) + 1 > MaxLine THEN "toolong"
             ELSE IF i > 1 /\ text = <<>> THEN "blank"
             ELSE IF (IF i = 1 THEN IsRequestLine(text) ELSE IsHeader(text))
                  THEN "good" ELSE "bad"

\* The header lines in front of the line that starts at i: the first
\* Content-Length and the first Connection count.
FirstHeader(s, i, Is(_)) ==
    LET found == {j \in LineStarts(s) : 1 < j /\ j < i /\ Is(TextAt(s, j))}
    IN  IF found = {} THEN <<>> ELSE TextAt(s, Min(found))

BodyLength(s, i) ==
    LET text == FirstHeader(s, i, IsLength)
    IN  IF text = <<>> THEN 0 ELSE Length[text[1]]

\* The message at the front of s: its size and answer if it is complete.
Message(s) ==
    LET stop == Min({i \in LineStarts(s) : Verdict(s, i) # "good"})
        body == BodyLength(s, stop)
        size == stop + body
        verdict == Verdict(s, stop)
    IN  CASE verdict = "wait"    -> [kind |-> "wait"]
          [] verdict = "bad"     -> [kind |-> "error", status |-> 400]
          [] verdict = "toolong" -> [kind |-> "error", status |-> 414]
          [] verdict = "blank" /\ body < 0 -> [kind |-> "stop"]
          [] verdict = "blank" /\ body >= 0 /\ size > Len(s) -> [kind |-> "wait"]
          [] verdict = "blank" /\ body >= 0 /\ size <= Len(s) ->
                [kind   |-> "request",
                 size   |-> size,
                 answer |-> [status |-> Status(TextAt(s, 1)),
                             body   |-> SubSeq(s, stop + 1, size),
                             last   |-> ~IsKeepAlive(FirstHeader(s, stop, IsConnection))]]

Init == pending = <<>> /\ answers = <<>>

\* More bytes arrive.
Receive ==
    /\ Len(pending') > Len(pending)
    /\ SubSeq(pending', 1, Len(pending)) = pending
    /\ UNCHANGED answers

\* The first message is answered.
Answer ==
    LET m == Message(pending)
    IN  /\ m.kind = "request"
        /\ answers' = Append(answers, m.answer)
        /\ pending' = SubSeq(pending, m.size + 1, Len(pending))

\* A malformed message is answered with an error, and everything received is
\* thrown away.
Refuse ==
    LET m == Message(pending)
    IN  /\ m.kind = "error"
        /\ answers' = Append(answers, [status |-> m.status, body |-> <<>>, last |-> TRUE])
        /\ pending' = <<>>

Next == Receive \/ Answer \/ Refuse

Spec == Init /\ [][Next]_vars
=============================================================================
