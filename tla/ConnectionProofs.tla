-------------------------- MODULE ConnectionProofs --------------------------
(***************************************************************************)
(* Proofs about Connection, for every user of the library: callbacks and   *)
(* other threads that do what they like, however often, and a peer that    *)
(* sends, closes and breaks the connection when it likes.                  *)
(***************************************************************************)
EXTENDS Connection, SequenceTheorems, TLAPS

-----------------------------------------------------------------------------
(***************************************************************************)
(* Sequences.                                                              *)
(***************************************************************************)

\* What occurs in a sequence is its head or occurs behind it.
LEMMA RangeHeadTail ==
  ASSUME NEW S, NEW s \in Seq(S), s # <<>>
  PROVE  /\ Head(s) \in S /\ Tail(s) \in Seq(S)
         /\ Range(s) = {Head(s)} \cup Range(Tail(s))
<1>1. /\ Head(s) \in S /\ Tail(s) \in Seq(S)
      /\ Len(Tail(s)) = Len(s) - 1 /\ Len(s) \in Nat \ {0}
      /\ \A i \in 1 .. Len(Tail(s)) : Tail(s)[i] = s[i + 1]
      /\ Head(s) = s[1]
  BY HeadTailProperties, EmptySeq
<1>2. /\ Range(s) = {s[i] : i \in 1 .. Len(s)}
      /\ Range(Tail(s)) = {Tail(s)[i] : i \in 1 .. Len(Tail(s))}
  BY <1>1, RangeEquality
<1>3. ASSUME NEW x \in Range(s) PROVE x \in {Head(s)} \cup Range(Tail(s))
  <2>1. PICK i \in 1 .. Len(s) : x = s[i]
    BY <1>2
  <2>2. CASE i = 1
    BY <1>1, <2>1, <2>2
  <2>3. CASE i # 1
    <3>1. i - 1 \in 1 .. Len(Tail(s)) /\ Tail(s)[i - 1] = s[i]
      BY <1>1, <2>3
    <3> QED
      BY <1>2, <2>1, <3>1
  <2> QED
    BY <2>2, <2>3
<1>4. ASSUME NEW x \in {Head(s)} \cup Range(Tail(s)) PROVE x \in Range(s)
  <2>1. CASE x = Head(s)
    <3>1. 1 \in 1 .. Len(s)
      BY <1>1
    <3> QED
      BY <1>1, <1>2, <2>1, <3>1
  <2>2. CASE x \in Range(Tail(s))
    <3>1. PICK i \in 1 .. Len(Tail(s)) : x = Tail(s)[i]
      BY <1>2, <2>2
    <3>2. i + 1 \in 1 .. Len(s) /\ s[i + 1] = x
      BY <1>1, <3>1
    <3> QED
      BY <1>2, <3>2
  <2> QED
    BY <2>1, <2>2
<1> QED
  BY <1>1, <1>3, <1>4

\* What occurs in a short list.
LEMMA RangeSmall ==
  /\ Range(<<>>) = {}
  /\ \A x : Range(<<x>>) = {x}
  /\ \A x, y : Range(<<x, y>>) = {x, y}
<1>1. Range(<<>>) = {}
  BY DEF Range
<1>2. ASSUME NEW x PROVE Range(<<x>>) = {x}
  BY DEF Range
<1>3. ASSUME NEW x, NEW y PROVE Range(<<x, y>>) = {x, y}
  BY DEF Range
<1> QED
  BY <1>1, <1>2, <1>3

\* What occurs in a sequence after something has been queued at its end.
LEMMA RangeAppend ==
  ASSUME NEW S, NEW s \in Seq(S), NEW x \in S
  PROVE  Append(s, x) \in Seq(S) /\ Range(Append(s, x)) = Range(s) \cup {x}
<1>1. <<x>> \in Seq(S) /\ Range(<<x>>) = {x}
  BY RangeSmall
<1>2. Append(s, x) = s \o <<x>>
  BY AppendIsConcat
<1>3. s \o <<x>> \in Seq(S)
  BY <1>1, ConcatProperties
<1>4. Range(s \o <<x>>) = Range(s) \cup Range(<<x>>)
  BY <1>1, RangeConcatenation
<1> QED
  BY <1>1, <1>2, <1>3, <1>4, Zenon

-----------------------------------------------------------------------------
(***************************************************************************)
(* What is called where.                                                   *)
(***************************************************************************)

Handlers == {"HandleRead", "HandleWrite", "HandleClose"}

\* What is queued in the loop.
Queued == {"EstablishedInLoop", "EnableInactiveReleaseInLoop", "SendInLoop",
           "ShutdownInLoop", "ReleaseInLoop"}

\* Functions that nothing is to run behind.
Final == {"HandleWrite", "HandleClose", "ReleaseInLoop", "ServerClosed"}

-----------------------------------------------------------------------------
(***************************************************************************)
(* The inductive invariant.                                                *)
(***************************************************************************)

FinalIsLast(c) == \A i \in 1 .. Len(c) : c[i] \in Final => i = Len(c)

\* Where in its turn the loop runs which functions.
StackInv ==
  /\ turn.phase = "poll" => calls = <<>>
  /\ turn.phase # "dispatch" => turn.ready = {} /\ Range(calls) \cap Handlers = {}
  /\ turn.phase = "dispatch" => Range(calls) \cap {"ReleaseInLoop", "ServerClosed"} = {}
  /\ FinalIsLast(calls)
  /\ Range(tasks) \subseteq Queued
  /\ Range(turn.batch) \subseteq Queued

\* The writable event is asked for just as long as there is output.
WriteInv == "OUT" \in conn.events <=> conn.out > 0

\* A released connection is known to neither poller nor dispatcher, and only a late
\* Shutdown takes its status away again.
ReleaseInv ==
  /\ ~conn.open => Closed \/ hist.late
  /\ Closed => /\ ~conn.monitored
               /\ "conn" \notin turn.ready
               /\ Range(calls) \cap (Handlers \cup {"Message"}) = {}

ReleasePending == "ReleaseInLoop" \in Range(calls) \cup Range(tasks) \cup Range(turn.batch)

\* What is promised is in the buffer or with the kernel; a connection is released, or
\* will be, only for a reason to drop output or when it has all been handed over.
FlushInv ==
  /\ hist.shut => sock.delivered + conn.out >= hist.promised
  /\ conn.statu = "DISCONNECTING" => hist.shut \/ "ShutdownTail" \in Range(calls)
  /\ Closed \/ ReleasePending => hist.hard \/ (hist.shut /\ sock.delivered >= hist.promised)

IInv == TypeOK /\ StackInv /\ WriteInv /\ ReleaseInv /\ FlushInv

-----------------------------------------------------------------------------
(***************************************************************************)
(* The stack of the loop thread.                                           *)
(***************************************************************************)

\* What a function may call before it returns, as far as it stays on the stack.
Pushed(f) ==
  CASE f = "EstablishedInLoop" -> {"ConnectedCallback"}
    [] f = "ShutdownInLoop" -> {"Message", "ShutdownTail"}
    [] f = "ReleaseInLoop" -> {"ServerClosed"}
    [] f = "HandleRead" -> {"Message", "ShutdownInLoop"}
    [] f \in {"HandleWrite", "HandleClose"} -> {"Message", "Release"}
    [] f = "Message" -> {"SendInLoop", "ShutdownInLoop", "Release"}
    [] OTHER -> {}

\* The lists that handlers push: the message callback, if there is input, and
\* perhaps a function behind it.
LEMMA Pushes ==
  /\ MessageIfInput \in Seq(Functions) /\ Range(MessageIfInput) \subseteq {"Message"}
  /\ \A f \in Functions : /\ <<f>> \in Seq(Functions)
                          /\ MessageIfInput \o <<f>> \in Seq(Functions)
                          /\ Range(MessageIfInput \o <<f>>) \subseteq {"Message", f}
                          /\ f \in Range(MessageIfInput \o <<f>>)
<1>1. MessageIfInput \in Seq(Functions) /\ Range(MessageIfInput) \subseteq {"Message"}
  <2>1. CASE conn.in > 0
    <3>1. MessageIfInput = <<"Message">> /\ Range(<<"Message">>) = {"Message"}
      BY <2>1, RangeSmall DEF MessageIfInput
    <3> QED
      BY <3>1 DEF Functions
  <2>2. CASE ~(conn.in > 0)
    <3>1. MessageIfInput = <<>> /\ Range(<<>>) = {}
      BY <2>2, RangeSmall DEF MessageIfInput
    <3> QED
      BY <3>1
  <2> QED
    BY <2>1, <2>2
<1>2. ASSUME NEW f \in Functions
      PROVE  /\ <<f>> \in Seq(Functions)
             /\ MessageIfInput \o <<f>> \in Seq(Functions)
             /\ Range(MessageIfInput \o <<f>>) \subseteq {"Message", f}
             /\ f \in Range(MessageIfInput \o <<f>>)
  <2>1. <<f>> \in Seq(Functions) /\ Range(<<f>>) = {f}
    BY RangeSmall
  <2>2. MessageIfInput \o <<f>> \in Seq(Functions)
    BY <1>1, <2>1, ConcatProperties
  <2>3. MessageIfInput \in Seq(Functions) /\ <<f>> \in Seq(Functions)
    BY <1>1, <2>1
  <2>4. Range(MessageIfInput \o <<f>>) = Range(MessageIfInput) \cup Range(<<f>>)
    BY <2>3, RangeConcatenation
  <2> QED
    BY <1>1, <2>1, <2>2, <2>4
<1> QED
  BY <1>1, <1>2

\* A function returns, after it has called those of s.
LEMMA Returns ==
  ASSUME NEW c \in Seq(Functions), c # <<>>, NEW s \in Seq(Functions)
  PROVE  /\ Head(c) \in Functions
         /\ s \o Tail(c) \in Seq(Functions)
         /\ Range(s \o Tail(c)) = Range(s) \cup Range(Tail(c))
         /\ Range(c) = {Head(c)} \cup Range(Tail(c))
<1>1. Tail(c) \in Seq(Functions)
  BY RangeHeadTail
<1>2. s \o Tail(c) \in Seq(Functions)
  BY <1>1, ConcatProperties
<1>3. Range(s \o Tail(c)) = Range(s) \cup Range(Tail(c))
  BY <1>1, RangeConcatenation
<1> QED
  BY <1>2, <1>3, RangeHeadTail

\* A short list, one without final functions, and two lists one behind the other.
LEMMA FinalConcat ==
  ASSUME NEW s \in Seq(Functions)
  PROVE  /\ Len(s) <= 1 => FinalIsLast(s)
         /\ Range(s) \cap Final = {} => FinalIsLast(s)
         /\ \A t \in Seq(Functions) :
              FinalIsLast(s) /\ FinalIsLast(t) /\ (Range(s) \cap Final = {} \/ t = <<>>)
                => FinalIsLast(s \o t)
<1>1. Len(s) \in Nat
  BY LenProperties
<1>2. \A i \in 1 .. Len(s) : s[i] \in Range(s)
  BY RangeEquality
<1>3. Len(s) <= 1 => FinalIsLast(s)
  BY <1>1 DEF FinalIsLast
<1>4. Range(s) \cap Final = {} => FinalIsLast(s)
  BY <1>2 DEF FinalIsLast
<1>5. ASSUME NEW t \in Seq(Functions), FinalIsLast(s), FinalIsLast(t),
             Range(s) \cap Final = {} \/ t = <<>>
      PROVE  FinalIsLast(s \o t)
  <2>1. CASE t = <<>>
    BY <1>5, <2>1, ConcatEmptySeq
  <2>2. CASE Range(s) \cap Final = {}
    <3>1. Len(t) \in Nat /\ Len(s \o t) = Len(s) + Len(t)
      BY ConcatProperties, LenProperties
    <3>2. \A i \in 1 .. Len(s) + Len(t) : (s \o t)[i] = IF i <= Len(s) THEN s[i] ELSE t[i - Len(s)]
      BY ConcatProperties
    <3>3. SUFFICES ASSUME NEW i \in 1 .. Len(s \o t), (s \o t)[i] \in Final
                   PROVE  i = Len(s \o t)
      BY DEF FinalIsLast
    <3>4. CASE i <= Len(s)
      <4>1. i \in 1 .. Len(s) /\ s[i] \in Final
        BY <1>1, <3>1, <3>2, <3>3, <3>4
      <4> QED
        BY <1>2, <2>2, <4>1
    <3>5. CASE i > Len(s)
      <4>1. i - Len(s) \in 1 .. Len(t) /\ t[i - Len(s)] \in Final
        BY <1>1, <3>1, <3>2, <3>3, <3>5
      <4>2. i - Len(s) = Len(t)
        BY <1>5, <4>1 DEF FinalIsLast
      <4> QED
        BY <1>1, <3>1, <4>2
    <3> QED
      BY <1>1, <3>1, <3>4, <3>5
  <2> QED
    BY <1>5, <2>1, <2>2
<1> QED
  BY <1>3, <1>4, <1>5

\* Nothing is behind a final function, and what is behind another one keeps this.
LEMMA FinalTail ==
  ASSUME NEW c \in Seq(Functions), c # <<>>, FinalIsLast(c)
  PROVE  /\ Head(c) \in Final => Tail(c) = <<>>
         /\ Tail(c) \in Seq(Functions) /\ FinalIsLast(Tail(c))
<1>1. /\ Tail(c) \in Seq(Functions)
      /\ Len(c) \in Nat \ {0} /\ Len(Tail(c)) = Len(c) - 1
  BY HeadTailProperties, EmptySeq
<1>2. /\ \A i \in 1 .. Len(Tail(c)) : Tail(c)[i] = c[i + 1]
      /\ Head(c) = c[1]
  BY HeadTailProperties, EmptySeq
<1>3. ASSUME Head(c) \in Final PROVE Tail(c) = <<>>
  <2>1. 1 \in 1 .. Len(c) /\ c[1] \in Final
    BY <1>1, <1>2, <1>3
  <2>2. 1 = Len(c)
    BY <2>1 DEF FinalIsLast
  <2>3. Len(Tail(c)) = 1 - 1
    BY <1>1, <2>2
  <2>4. Len(Tail(c)) = 0
    BY <2>3
  <2> QED
    BY <1>1, <2>4, EmptySeq
<1>4. ASSUME NEW i \in 1 .. Len(Tail(c)), Tail(c)[i] \in Final
      PROVE  i = Len(Tail(c))
  <2>1. i + 1 \in 1 .. Len(c) /\ c[i + 1] \in Final
    BY <1>1, <1>2, <1>4
  <2>2. i + 1 = Len(c)
    BY <2>1 DEF FinalIsLast
  <2>3. \A m, n \in Int : i + 1 = m /\ n = m - 1 => i = n
    OBVIOUS
  <2>4. Len(c) \in Int /\ Len(Tail(c)) \in Int
    BY <1>1
  <2> QED
    BY <1>1, <2>2, <2>3, <2>4
<1> QED
  BY <1>1, <1>3, <1>4 DEF FinalIsLast

\* The head of the stack has returned, or called functions in its place.
Returned ==
  /\ calls' \in Seq(Functions)
  /\ FinalIsLast(calls')
  /\ Range(calls') \subseteq Pushed(Head(calls)) \cup Range(Tail(calls))
  /\ Range(Tail(calls)) \subseteq Range(calls')

\* What a function of Connection does outside the connection.
Effect ==
  /\ Running /\ calls # <<>>
  /\ turn' = turn
  /\ tasks' = tasks \/ tasks' = Append(tasks, "ReleaseInLoop")
  /\ calls' = calls \/ Returned

\* A function returns with s in its place: only ReleaseInLoop calls a final one.
LEMMA ReturnsWith ==
  ASSUME calls \in Seq(Functions), FinalIsLast(calls), calls # <<>>,
         NEW s \in Seq(Functions), Range(s) \subseteq Pushed(Head(calls)), Calls(s),
         Head(calls) = "ReleaseInLoop" => s = <<"ServerClosed">>
  PROVE  Returned
<1>1. /\ Head(calls) \in Final => Tail(calls) = <<>>
      /\ Tail(calls) \in Seq(Functions) /\ FinalIsLast(Tail(calls))
  BY FinalTail
<1>2. FinalIsLast(s) /\ (Range(s) \cap Final = {} \/ Tail(calls) = <<>>)
  <2>1. CASE Head(calls) = "ReleaseInLoop"
    <3>1. Len(s) <= 1
      BY <2>1
    <3>2. FinalIsLast(s)
      BY <3>1, FinalConcat
    <3> QED
      BY <1>1, <2>1, <3>2 DEF Final
  <2>2. CASE Head(calls) # "ReleaseInLoop"
    <3>1. Pushed(Head(calls)) \cap Final = {}
      BY <2>2 DEF Pushed, Final
    <3> QED
      BY <3>1, FinalConcat
  <2> QED
    BY <2>1, <2>2
<1>3. FinalIsLast(s \o Tail(calls))
  BY <1>1, <1>2, FinalConcat
<1>4. /\ s \o Tail(calls) \in Seq(Functions)
      /\ Range(s \o Tail(calls)) = Range(s) \cup Range(Tail(calls))
  BY Returns
<1> QED
  BY <1>3, <1>4 DEF Calls, Returned

\* Every function of Connection keeps to it.
LEMMA StepEffect ==
  ASSUME ConnectionAssumption, calls \in Seq(Functions), FinalIsLast(calls), ConnectionStep
  PROVE  Effect
<1>1. ASSUME NEW f \in Functions, Calling(f), Calls(<<>>), f # "ReleaseInLoop"
      PROVE  Returned
  <2>1. <<>> \in Seq(Functions) /\ Range(<<>>) = {}
    BY RangeSmall
  <2> QED
    BY <1>1, <2>1, ReturnsWith DEF Calling
<1>2. ASSUME NEW f \in Functions, Calling(f), NEW g \in Functions, Calls(<<g>>), g \in Pushed(f),
             f = "ReleaseInLoop" => g = "ServerClosed"
      PROVE  Returned
  <2>1. <<g>> \in Seq(Functions) /\ Range(<<g>>) = {g}
    BY RangeSmall
  <2> QED
    BY <1>2, <2>1, ReturnsWith DEF Calling
<1>3. ASSUME NEW f \in Functions, Calling(f), NEW g \in Functions,
             Calls(MessageIfInput \o <<g>>), {"Message", g} \subseteq Pushed(f),
             f # "ReleaseInLoop"
      PROVE  Returned
  <2>1. /\ MessageIfInput \o <<g>> \in Seq(Functions)
        /\ Range(MessageIfInput \o <<g>>) \subseteq {"Message", g}
    BY Pushes
  <2>2. Range(MessageIfInput \o <<g>>) \subseteq Pushed(Head(calls))
    BY <1>3, <2>1 DEF Calling
  <2>3. calls # <<>> /\ Head(calls) # "ReleaseInLoop"
    BY <1>3 DEF Calling
  <2> QED
    BY <1>3, <2>1, <2>2, <2>3, ReturnsWith
<1>4. CASE EstablishedInLoop
  <2>1. CASE conn.statu = "CONNECTING"
    <3>1. Returned
      BY <1>2, <1>4, <2>1 DEF EstablishedInLoop, Functions, Pushed
    <3> QED
      BY <1>4, <3>1 DEF EstablishedInLoop, Effect, Calling
  <2>2. CASE conn.statu # "CONNECTING"
    BY <1>4, <2>2 DEF EstablishedInLoop, Effect, Calling
  <2> QED
    BY <2>1, <2>2
<1>5. CASE ConnectedCallback
  <2>1. Returned
    BY <1>1, <1>5 DEF ConnectedCallback, Functions
  <2> QED
    BY <1>5, <2>1 DEF ConnectedCallback, Effect, Calling
<1>6. CASE EnableInactiveReleaseInLoop
  <2>1. Returned
    BY <1>1, <1>6 DEF EnableInactiveReleaseInLoop, Functions
  <2> QED
    BY <1>6, <2>1 DEF EnableInactiveReleaseInLoop, Effect, Calling
<1>7. CASE SendInLoop
  <2>1. Returned
    BY <1>1, <1>7 DEF SendInLoop, Functions
  <2> QED
    BY <1>7, <2>1 DEF SendInLoop, Effect, Calling
<1>8. CASE ShutdownInLoop
  <2>1. Returned
    BY <1>3, <1>8 DEF ShutdownInLoop, Functions, Pushed
  <2> QED
    BY <1>8, <2>1 DEF ShutdownInLoop, Effect, Calling
<1>9. CASE ShutdownTail
  <2>1. Returned
    BY <1>1, <1>9 DEF ShutdownTail, Functions
  <2> QED
    BY <1>9, <2>1 DEF ShutdownTail, Effect, Calling, QueueIf, Queue
<1>10. CASE Release
  <2>1. Returned
    BY <1>1, <1>10 DEF Release, Functions
  <2> QED
    BY <1>10, <2>1 DEF Release, Effect, Calling, Queue
<1>11. CASE ReleaseInLoop
  <2>1. Returned
    BY <1>2, <1>11 DEF ReleaseInLoop, Functions, Pushed
  <2> QED
    BY <1>11, <2>1 DEF ReleaseInLoop, Effect, Calling
<1>12. CASE ServerClosed
  <2>1. Returned
    BY <1>1, <1>12 DEF ServerClosed, Functions
  <2> QED
    BY <1>12, <2>1 DEF ServerClosed, Effect, Calling
<1>13. CASE HandleRead
  <2>1. \/ Calls(<<"Message">>)
        \/ Calls(MessageIfInput)
        \/ Calls(<<"ShutdownInLoop">>)
    BY <1>13 DEF HandleRead
  <2>2. Calling("HandleRead") /\ calls # <<>> /\ Head(calls) # "ReleaseInLoop"
    BY <1>13 DEF HandleRead, Calling
  <2>3. Pushed(Head(calls)) = {"Message", "ShutdownInLoop"}
    BY <2>2 DEF Pushed, Calling
  <2>4. ASSUME Calls(<<"Message">>) PROVE Returned
    <3>1. "Message" \in Pushed("HandleRead")
      BY <2>2, <2>3 DEF Calling
    <3> QED
      BY <1>2, <2>2, <2>4, <3>1 DEF Functions
  <2>5. ASSUME Calls(MessageIfInput) PROVE Returned
    <3>1. MessageIfInput \in Seq(Functions) /\ Range(MessageIfInput) \subseteq Pushed(Head(calls))
      BY <2>3, Pushes
    <3> QED
      BY <2>2, <2>5, <3>1, ReturnsWith
  <2>6. ASSUME Calls(<<"ShutdownInLoop">>) PROVE Returned
    <3>1. "ShutdownInLoop" \in Pushed("HandleRead")
      BY <2>2, <2>3 DEF Calling
    <3> QED
      BY <1>2, <2>2, <2>6, <3>1 DEF Functions
  <2>7. Returned
    BY <2>1, <2>4, <2>5, <2>6
  <2> QED
    BY <1>13, <2>7 DEF HandleRead, Effect, Calling
<1>14. CASE \E n \in 0 .. conn.out : HandleWrite(n)
  <2>1. PICK n \in 0 .. conn.out : HandleWrite(n)
    BY <1>14
  <2>2. Returned
    BY <1>1, <2>1 DEF HandleWrite, Functions
  <2> QED
    BY <2>1, <2>2 DEF HandleWrite, Effect, Calling, QueueIf, Queue
<1>15. CASE HandleWriteFails
  <2>1. Returned
    BY <1>3, <1>15 DEF HandleWriteFails, Functions, Pushed
  <2> QED
    BY <1>15, <2>1 DEF HandleWriteFails, Effect, Calling
<1>16. CASE HandleClose
  <2>1. Returned
    BY <1>3, <1>16 DEF HandleClose, Functions, Pushed
  <2> QED
    BY <1>16, <2>1 DEF HandleClose, Effect, Calling
<1>17. CASE Message
  <2>1. PICK ops \in UserOps : Calls(ops)
    BY <1>17 DEF Message
  <2>2. Calling("Message") /\ Head(calls) = "Message" /\ calls # <<>>
    BY <1>17 DEF Message, Calling
  <2>3. ops \in Seq({"SendInLoop", "ShutdownInLoop", "Release"})
    BY DEF ConnectionAssumption
  <2>4. Range(ops) \subseteq {"SendInLoop", "ShutdownInLoop", "Release"}
    BY <2>3, RangeOfSeq
  <2>5. ops \in Seq(Functions)
    BY <2>3 DEF Functions
  <2>6. Pushed("Message") = {"SendInLoop", "ShutdownInLoop", "Release"}
    BY DEF Pushed
  <2>7. Returned
    BY <2>1, <2>2, <2>4, <2>5, <2>6, ReturnsWith
  <2> QED
    BY <1>17, <2>7 DEF Message, Effect, Calling
<1> QED
  BY <1>4, <1>5, <1>6, <1>7, <1>8, <1>9, <1>10, <1>11, <1>12, <1>13, <1>14, <1>15, <1>16, <1>17
     DEF ConnectionStep

-----------------------------------------------------------------------------
(***************************************************************************)
(* Type correctness.                                                       *)
(***************************************************************************)

\* The sequences of the loop thread stay lists of functions.
LEMMA StepSequences ==
  ASSUME ConnectionAssumption, TypeOK, FinalIsLast(calls), ConnectionStep
  PROVE  calls' \in Seq(Functions) /\ tasks' \in Seq(Functions) /\ turn' = turn
<1>1. Effect
  BY StepEffect DEF TypeOK
<1>2. Append(tasks, "ReleaseInLoop") \in Seq(Functions)
  BY RangeAppend DEF TypeOK, Functions
<1> QED
  BY <1>1, <1>2 DEF Effect, Returned, TypeOK

\* Types, for the steps of the functions of Connection.
LEMMA TypeConnectionStep ==
  ASSUME ConnectionAssumption, TypeOK, FinalIsLast(calls), ConnectionStep
  PROVE  TypeOK'
<1> USE DEF TypeOK
<1>1. calls' \in Seq(Functions) /\ tasks' \in Seq(Functions) /\ turn' \in Turns
  BY StepSequences
<1>2. CASE EstablishedInLoop
  <2>1. conn' \in Connections /\ conn'.in = conn.in
    <3>1. conn.events \cup {"IN"} \in SUBSET {"IN", "OUT"} /\ "CONNECTED" \in Status
      BY DEF Connections, Status
    <3>2. \/ conn' = conn
          \/ conn' = [conn EXCEPT !.statu = "CONNECTED", !.events = @ \cup {"IN"}, !.monitored = TRUE]
      BY <1>2 DEF EstablishedInLoop
    <3> QED
      BY <3>1, <3>2 DEF Connections
  <2>2. thread' \in Threads
    BY <1>2 DEF EstablishedInLoop, Threads
  <2> QED
    BY <1>1, <1>2, <2>1, <2>2 DEF EstablishedInLoop
<1>3. CASE ConnectedCallback
  <2>1. PICK held \in {FALSE, MaxForeign > 0} : owner' = [owner EXCEPT !.held = held]
    BY <1>3 DEF ConnectedCallback
  <2>2. held \in BOOLEAN
    <3>1. (MaxForeign > 0) \in BOOLEAN
      OBVIOUS
    <3> QED
      BY <3>1
  <2>3. owner' \in Owners
    BY <2>1, <2>2 DEF Owners
  <2> QED
    BY <1>1, <1>3, <2>3 DEF ConnectedCallback
<1>4. CASE EnableInactiveReleaseInLoop
  <2>1. conn' \in Connections /\ conn'.in = conn.in
    BY <1>4 DEF EnableInactiveReleaseInLoop, Connections
  <2> QED
    BY <1>1, <1>4, <2>1 DEF EnableInactiveReleaseInLoop
<1>5. CASE SendInLoop
  <2>1. conn.out + 1 \in Nat /\ conn.events \cup {"OUT"} \in SUBSET {"IN", "OUT"}
    BY DEF Connections
  <2>2. CASE conn.statu = "DISCONNECTED"
    BY <1>1, <1>5, <2>2 DEF SendInLoop
  <2>3. CASE conn.statu # "DISCONNECTED"
    <3>1. conn' = EnableWrite([conn EXCEPT !.out = @ + 1])
      BY <1>5, <2>3 DEF SendInLoop
    <3>2. [conn EXCEPT !.out = @ + 1] \in Connections /\ [conn EXCEPT !.out = @ + 1].in = conn.in
      BY <2>1 DEF Connections
    <3>3. conn' \in Connections /\ conn'.in = conn.in
      BY <3>1, <3>2 DEF EnableWrite, Connections
    <3> QED
      BY <1>1, <1>5, <3>3 DEF SendInLoop
  <2> QED
    BY <2>2, <2>3
<1>6. CASE ShutdownInLoop
  <2>1. conn' \in Connections /\ conn'.in = conn.in
    BY <1>6 DEF ShutdownInLoop, Connections, Status
  <2>2. hist' \in Histories
    BY <1>6 DEF ShutdownInLoop, Histories
  <2> QED
    BY <1>1, <1>6, <2>1, <2>2 DEF ShutdownInLoop
<1>7. CASE ShutdownTail
  <2>1. conn' \in Connections /\ conn'.in = conn.in
    BY <1>7 DEF ShutdownTail, EnableWrite, Connections
  <2>2. sock.delivered + conn.out \in Nat
    BY DEF Sockets, Connections
  <2>3. hist' \in Histories
    BY <1>7, <2>2 DEF ShutdownTail, Histories
  <2> QED
    BY <1>1, <1>7, <2>1, <2>3 DEF ShutdownTail
<1>8. CASE Release
  <2>1. hist' \in Histories
    BY <1>8 DEF Release, Histories
  <2> QED
    BY <1>1, <1>8, <2>1 DEF Release
<1>9. CASE ReleaseInLoop
  <2>1. conn' \in Connections /\ conn'.in = conn.in
    BY <1>9 DEF ReleaseInLoop, Removed, Connections, Status
  <2>2. hist' \in Histories
    BY <1>9 DEF ReleaseInLoop, Histories
  <2> QED
    BY <1>1, <1>9, <2>1, <2>2 DEF ReleaseInLoop
<1>10. CASE ServerClosed
  <2>1. owner.removals + 1 \in Nat
    BY DEF Owners
  <2>2. owner' \in Owners
    BY <1>10, <2>1 DEF ServerClosed, Owners
  <2> QED
    BY <1>1, <1>10, <2>2 DEF ServerClosed
<1>11. CASE HandleRead
  <2>1. ASSUME NEW n \in 1 .. sock.rcv, sock' = [sock EXCEPT !.rcv = @ - n],
               conn' = [conn EXCEPT !.in = @ + n]
        PROVE  /\ conn' \in Connections /\ sock' \in Sockets
               /\ sock'.rcv + conn'.in <= sock'.arrived
    <3>1. /\ sock.rcv - n \in 0 .. MaxRecv /\ conn.in + n \in 0 .. MaxRecv
          /\ (sock.rcv - n) + (conn.in + n) <= sock.arrived
      BY <2>1 DEF ConnectionAssumption, Connections, Sockets
    <3>2. conn' \in Connections /\ conn'.in = conn.in + n
      BY <2>1, <3>1 DEF Connections
    <3>3. sock' \in Sockets /\ sock'.rcv = sock.rcv - n /\ sock'.arrived = sock.arrived
      BY <2>1, <3>1 DEF Sockets
    <3> QED
      BY <3>1, <3>2, <3>3
  <2>2. thread' \in Threads
    BY <1>11 DEF HandleRead, Threads
  <2> QED
    BY <1>1, <1>11, <2>1, <2>2 DEF HandleRead
<1>12. CASE \E n \in 0 .. conn.out : HandleWrite(n)
  <2>1. PICK n \in 0 .. conn.out : HandleWrite(n)
    BY <1>12
  <2>2. conn' \in Connections /\ conn'.in = conn.in
    <3>1. conn.out - n \in Nat /\ conn.events \ {"OUT"} \in SUBSET {"IN", "OUT"}
      BY DEF Connections
    <3>2. conn' = Sent(conn, n)
      BY <2>1 DEF HandleWrite
    <3>3. CASE n = conn.out
      <4>1. conn' = [conn EXCEPT !.out = @ - n, !.events = @ \ {"OUT"}, !.monitored = TRUE]
        BY <3>2, <3>3 DEF Sent, Connections
      <4> QED
        BY <3>1, <4>1 DEF Connections
    <3>4. CASE n # conn.out
      <4>1. conn' = [conn EXCEPT !.out = @ - n]
        BY <3>2, <3>4 DEF Sent, Connections
      <4> QED
        BY <3>1, <4>1 DEF Connections
    <3> QED
      BY <3>3, <3>4
  <2>3. sock' \in Sockets /\ sock'.rcv = sock.rcv /\ sock'.arrived = sock.arrived
    <3>1. sock.delivered + n \in Nat
      BY DEF Sockets, Connections
    <3>2. sock' = [sock EXCEPT !.delivered = @ + n]
      BY <2>1 DEF HandleWrite
    <3> QED
      BY <3>1, <3>2 DEF Sockets
  <2>4. thread' \in Threads
    BY <2>1 DEF HandleWrite, Threads
  <2> QED
    BY <1>1, <2>1, <2>2, <2>3, <2>4 DEF HandleWrite
<1>13. CASE HandleWriteFails
  <2>1. thread' \in Threads
    BY <1>13 DEF HandleWriteFails, Threads
  <2> QED
    BY <1>1, <1>13, <2>1 DEF HandleWriteFails
<1>14. CASE HandleClose
  BY <1>1, <1>14 DEF HandleClose
<1>15. CASE Message
  <2>1. PICK n \in 0 .. conn.in : conn' = [conn EXCEPT !.in = @ - n]
    BY <1>15 DEF Message
  <2>2. conn.in - n \in 0 .. MaxRecv /\ sock.rcv + (conn.in - n) <= sock.arrived
    BY DEF ConnectionAssumption, Connections, Sockets
  <2>3. conn' \in Connections /\ conn'.in = conn.in - n
    BY <2>1, <2>2 DEF Connections
  <2> QED
    BY <1>1, <1>15, <2>2, <2>3 DEF Message
<1> QED
  BY <1>2, <1>3, <1>4, <1>5, <1>6, <1>7, <1>8, <1>9, <1>10, <1>11, <1>12, <1>13, <1>14, <1>15
     DEF ConnectionStep

\* What HandleEvent calls.
LEMMA EventEffect ==
  ASSUME HandleEvent
  PROVE  calls' \in Seq(Functions) /\ Range(calls') \subseteq Handlers /\ FinalIsLast(calls')
<1> DEFINE read == IF "IN" \in turn.revents THEN <<"HandleRead">> ELSE <<>>
           other == IF "OUT" \in turn.revents THEN <<"HandleWrite">>
                    ELSE IF "HUP" \in turn.revents THEN <<"HandleClose">> ELSE <<>>
<1>1. /\ read \in Seq(Functions) /\ other \in Seq(Functions)
      /\ Range(read) \subseteq {"HandleRead"} /\ Range(other) \subseteq {"HandleWrite", "HandleClose"}
      /\ Len(other) <= 1
  <2>1. /\ Range(<<>>) = {} /\ Range(<<"HandleRead">>) = {"HandleRead"}
        /\ Range(<<"HandleWrite">>) = {"HandleWrite"} /\ Range(<<"HandleClose">>) = {"HandleClose"}
    BY RangeSmall
  <2>2. /\ <<>> \in Seq(Functions) /\ <<"HandleRead">> \in Seq(Functions)
        /\ <<"HandleWrite">> \in Seq(Functions) /\ <<"HandleClose">> \in Seq(Functions)
    BY DEF Functions
  <2>3. Len(<<>>) <= 1 /\ Len(<<"HandleWrite">>) <= 1 /\ Len(<<"HandleClose">>) <= 1
    OBVIOUS
  <2>4. read \in Seq(Functions) /\ Range(read) \subseteq {"HandleRead"}
    BY <2>1, <2>2
  <2>5. other \in {<<>>, <<"HandleWrite">>, <<"HandleClose">>}
    OBVIOUS
  <2> HIDE DEF read, other
  <2> QED
    BY <2>1, <2>2, <2>3, <2>4, <2>5
<1>2. calls' = read \o other
  BY DEF HandleEvent
<1> HIDE DEF read, other
<1>3. read \o other \in Seq(Functions) /\ Range(read \o other) = Range(read) \cup Range(other)
  BY <1>1, ConcatProperties, RangeConcatenation
<1>4. Range(read) \cap Final = {} /\ FinalIsLast(read) /\ FinalIsLast(other)
  BY <1>1, FinalConcat DEF Final
<1>5. FinalIsLast(read \o other)
  BY <1>1, <1>4, FinalConcat
<1> QED
  BY <1>1, <1>2, <1>3, <1>5 DEF Handlers

\* What NewConnection calls or queues.
LEMMA Accepted ==
  ASSUME NEW s \in {<<>>, EnableFirst, <<"EstablishedInLoop">>, EnableFirst \o <<"EstablishedInLoop">>}
  PROVE  /\ s \in Seq(Functions)
         /\ Range(s) \subseteq {"EnableInactiveReleaseInLoop", "EstablishedInLoop"}
         /\ FinalIsLast(s)
<1>1. /\ Range(<<>>) = {} /\ Range(<<"EstablishedInLoop">>) = {"EstablishedInLoop"}
      /\ Range(<<"EnableInactiveReleaseInLoop">>) = {"EnableInactiveReleaseInLoop"}
  BY RangeSmall
<1>2. <<>> \in Seq(Functions) /\ <<"EstablishedInLoop">> \in Seq(Functions)
  BY DEF Functions
<1>3. EnableFirst \in Seq(Functions) /\ Range(EnableFirst) \subseteq {"EnableInactiveReleaseInLoop"}
  BY <1>1 DEF EnableFirst, Functions
<1>4. /\ EnableFirst \o <<"EstablishedInLoop">> \in Seq(Functions)
      /\ Range(EnableFirst \o <<"EstablishedInLoop">>) = Range(EnableFirst) \cup Range(<<"EstablishedInLoop">>)
  BY <1>2, <1>3, ConcatProperties, RangeConcatenation
<1>5. s \in Seq(Functions) /\ Range(s) \subseteq {"EnableInactiveReleaseInLoop", "EstablishedInLoop"}
  BY <1>1, <1>2, <1>3, <1>4
<1>6. Range(s) \cap Final = {}
  BY <1>5 DEF Final
<1> QED
  BY <1>5, <1>6, FinalConcat

\* NewConnection, seen from the loop of the connection.
LEMMA AcceptEffect ==
  ASSUME Accept, tasks \in Seq(Functions)
  PROVE  /\ calls' \in {calls, EnableFirst \o <<"EstablishedInLoop">>}
         /\ tasks' \in Seq(Functions)
         /\ Range(tasks') \subseteq Range(tasks) \cup {"EnableInactiveReleaseInLoop", "EstablishedInLoop"}
         /\ UNCHANGED <<conn, turn, thread, sock, hist>>
<1>1. CASE NewConnectionInline
  BY <1>1 DEF NewConnectionInline
<1>2. ASSUME NEW from, NEW to, NEW queued \in {EnableFirst, <<"EstablishedInLoop">>, <<>>},
             NewConnection(from, to, queued)
      PROVE  /\ calls' = calls
             /\ tasks' \in Seq(Functions)
             /\ Range(tasks') \subseteq Range(tasks) \cup {"EnableInactiveReleaseInLoop", "EstablishedInLoop"}
             /\ UNCHANGED <<conn, turn, thread, sock, hist>>
  <2>1. /\ queued \in Seq(Functions)
        /\ Range(queued) \subseteq {"EnableInactiveReleaseInLoop", "EstablishedInLoop"}
    BY Accepted
  <2>2. tasks \o queued \in Seq(Functions) /\ Range(tasks \o queued) = Range(tasks) \cup Range(queued)
    BY <2>1, ConcatProperties, RangeConcatenation
  <2>3. tasks' = tasks \o queued
    BY <1>2 DEF NewConnection
  <2> QED
    BY <1>2, <2>1, <2>2, <2>3 DEF NewConnection
<1> QED
  BY <1>1, <1>2 DEF Accept

\* Types, for the steps of the loop, of the server, of other threads and of the peer.
LEMMA TypeOtherStep ==
  ASSUME ConnectionAssumption, TypeOK, Next, ~ConnectionStep
  PROVE  TypeOK'
<1> USE DEF TypeOK
<1>0. ASSUME NEW f \in Functions, Queue(f) PROVE tasks' \in Seq(Functions)
  BY <1>0, RangeAppend DEF Queue
<1>1. CASE HandleEvent
  <2>1. turn' \in Turns
    BY <1>1 DEF HandleEvent, Turns
  <2> QED
    BY <1>1, <2>1, EventEffect DEF HandleEvent
<1>2. CASE OnTime
  <2>1. turn' \in Turns
    BY <1>2 DEF OnTime, Turns
  <2>2. conn' \in Connections /\ conn'.in = conn.in
    BY <1>2 DEF OnTime, Connections
  <2>3. hist' \in Histories
    BY <1>2 DEF OnTime, Histories
  <2>4. tasks' \in Seq(Functions)
    BY <1>0, <1>2 DEF OnTime, QueueIf, Functions
  <2> QED
    BY <1>2, <2>1, <2>2, <2>3, <2>4 DEF OnTime
<1>3. CASE RunAllTask
  <2>1. turn' \in Turns
    BY <1>3 DEF RunAllTask, Turns
  <2>2. tasks' \in Seq(Functions)
    BY <1>3 DEF RunAllTask
  <2> QED
    BY <1>3, <2>1, <2>2 DEF RunAllTask
<1>4. CASE RunTask
  <2>1. turn.batch \in Seq(Functions) /\ turn.batch # <<>>
    BY <1>4 DEF RunTask, Turns
  <2>2. Head(turn.batch) \in Functions /\ Tail(turn.batch) \in Seq(Functions)
    BY <2>1, HeadTailProperties
  <2>3. turn' \in Turns
    BY <1>4, <2>2 DEF RunTask, Turns
  <2>4. thread' \in Threads
    BY <1>4 DEF RunTask, Threads
  <2>5. <<Head(turn.batch)>> \in Seq(Functions)
    BY <2>2
  <2>6. calls' \in Seq(Functions)
    BY <1>4, <2>5 DEF RunTask
  <2> QED
    BY <1>4, <2>3, <2>4, <2>6 DEF RunTask
<1>5. CASE EndTurn
  <2>1. turn' \in Turns
    BY <1>5 DEF EndTurn, Turns
  <2> QED
    BY <1>5, <2>1 DEF EndTurn
<1>6. CASE \E room \in BOOLEAN, timerfd \in BOOLEAN : Poll(room, timerfd)
  <2>1. PICK room \in BOOLEAN, timerfd \in BOOLEAN : Poll(room, timerfd)
    BY <1>6
  <2>2. Reported(room) \in SUBSET {"IN", "OUT", "HUP"}
    BY DEF Reported, Connections
  <2>3. turn' \in Turns
    BY <2>1, <2>2 DEF Poll, Turns
  <2> QED
    BY <2>1, <2>3 DEF Poll
<1>7. CASE OtherHandler
  <2>1. thread' \in Threads
    BY <1>7 DEF OtherHandler, Threads
  <2> QED
    BY <1>7, <2>1 DEF OtherHandler
<1>8. CASE Accept
  <2>1. \E to \in {"enabled", "established", "done"}, owned \in BOOLEAN :
          owner' = [owner EXCEPT !.accepting = to, !.owned = owned]
    BY <1>8 DEF Accept, NewConnectionInline, NewConnection
  <2>2. owner' \in Owners
    BY <2>1 DEF Owners
  <2> QED
    BY <1>8, <2>2, AcceptEffect, Accepted
<1>9. CASE RemoveConnectionInLoop
  <2>1. owner.removals - 1 \in Nat
    BY <1>9 DEF RemoveConnectionInLoop, Owners
  <2>2. owner' \in Owners
    BY <1>9, <2>1 DEF RemoveConnectionInLoop, Owners
  <2> QED
    BY <1>9, <2>2 DEF RemoveConnectionInLoop
<1>10. CASE \E f \in ForeignOps : Foreign(f)
  <2>1. PICK f \in ForeignOps : Foreign(f)
    BY <1>10
  <2>2. f \in Functions
    BY DEF ConnectionAssumption, Functions
  <2>3. owner.foreign + 1 \in 0 .. MaxForeign
    BY <2>1 DEF Foreign, Owners, ConnectionAssumption
  <2>4. owner' \in Owners
    BY <2>1, <2>3 DEF Foreign, Owners
  <2>5. hist' \in Histories
    BY <2>1 DEF Foreign, Histories
  <2>6. tasks' \in Seq(Functions)
    BY <1>0, <2>1, <2>2 DEF Foreign
  <2> QED
    BY <2>1, <2>4, <2>5, <2>6 DEF Foreign
<1>11. CASE DropConnection
  <2>1. owner' \in Owners
    BY <1>11 DEF DropConnection, Owners
  <2> QED
    BY <1>11, <2>1 DEF DropConnection
<1>12. CASE PeerSends
  <2>1. /\ sock.arrived + 1 \in 0 .. MaxRecv /\ sock.rcv + 1 \in 0 .. MaxRecv
        /\ (sock.rcv + 1) + conn.in <= sock.arrived + 1
    BY <1>12 DEF PeerSends, Sockets, Connections, ConnectionAssumption
  <2>2. sock' \in Sockets /\ sock'.rcv = sock.rcv + 1 /\ sock'.arrived = sock.arrived + 1
    BY <1>12, <2>1 DEF PeerSends, Sockets
  <2> QED
    BY <1>12, <2>1, <2>2 DEF PeerSends
<1>13. CASE \E end \in {"eof", "reset"} : PeerEnds(end)
  <2>1. PICK end \in {"eof", "reset"} : PeerEnds(end)
    BY <1>13
  <2>2. sock' \in Sockets /\ sock'.rcv = sock.rcv /\ sock'.arrived = sock.arrived
    BY <2>1 DEF PeerEnds, Sockets
  <2> QED
    BY <2>1, <2>2 DEF PeerEnds
<1> QED
  BY <1>1, <1>2, <1>3, <1>4, <1>5, <1>6, <1>7, <1>8, <1>9, <1>10, <1>11, <1>12, <1>13
     DEF Next, LoopStep

-----------------------------------------------------------------------------
(***************************************************************************)
(* The stack and the turn.                                                 *)
(***************************************************************************)

\* What a step of a function finds on the stack, and leaves there and in the pool.
LEMMA StepStack ==
  ASSUME ConnectionAssumption, TypeOK, StackInv, ConnectionStep
  PROVE  /\ Effect
         /\ Head(calls) \in Functions
         /\ Range(calls) = {Head(calls)} \cup Range(Tail(calls))
         /\ Head(calls) \in Final => Range(Tail(calls)) = {}
         /\ Range(tasks') = Range(tasks) \/ Range(tasks') = Range(tasks) \cup {"ReleaseInLoop"}
<1>1. calls \in Seq(Functions) /\ tasks \in Seq(Functions) /\ FinalIsLast(calls)
  BY DEF TypeOK, StackInv
<1>2. Effect
  BY <1>1, StepEffect
<1>3. calls # <<>>
  BY <1>2 DEF Effect
<1>4. Head(calls) \in Functions /\ Range(calls) = {Head(calls)} \cup Range(Tail(calls))
  BY <1>1, <1>3, RangeHeadTail
<1>5. Head(calls) \in Final => Range(Tail(calls)) = {}
  BY <1>1, <1>3, FinalTail, RangeSmall
<1>6. Range(Append(tasks, "ReleaseInLoop")) = Range(tasks) \cup {"ReleaseInLoop"}
  BY <1>1, RangeAppend DEF Functions
<1> QED
  BY <1>2, <1>4, <1>5, <1>6 DEF Effect

\* The stack, for the steps of the functions of Connection.
LEMMA StackConnectionStep ==
  ASSUME ConnectionAssumption, TypeOK, StackInv, ConnectionStep
  PROVE  StackInv'
<1>1. /\ Effect
      /\ Range(calls) = {Head(calls)} \cup Range(Tail(calls))
      /\ Range(tasks') = Range(tasks) \/ Range(tasks') = Range(tasks) \cup {"ReleaseInLoop"}
  BY StepStack
<1>2. turn' = turn /\ turn.phase # "poll"
  BY <1>1 DEF Effect, StackInv
<1>3. FinalIsLast(calls')
  BY <1>1 DEF Effect, Returned, StackInv
<1>4. Range(calls') \subseteq Range(calls) \cup Pushed(Head(calls))
  BY <1>1 DEF Effect, Returned
<1>5. Pushed(Head(calls)) \cap Handlers = {}
  BY DEF Pushed, Handlers
<1>6. Head(calls) # "ReleaseInLoop" => Pushed(Head(calls)) \cap {"ReleaseInLoop", "ServerClosed"} = {}
  BY DEF Pushed
<1>7. Range(tasks') \subseteq Queued
  BY <1>1 DEF StackInv, Queued
<1>8. turn.phase # "dispatch" => turn'.ready = {} /\ Range(calls') \cap Handlers = {}
  BY <1>2, <1>4, <1>5 DEF StackInv
<1>9. turn.phase = "dispatch" => Range(calls') \cap {"ReleaseInLoop", "ServerClosed"} = {}
  <2>1. SUFFICES ASSUME turn.phase = "dispatch"
                 PROVE  Range(calls') \cap {"ReleaseInLoop", "ServerClosed"} = {}
    OBVIOUS
  <2>2. Range(calls) \cap {"ReleaseInLoop", "ServerClosed"} = {}
    BY <2>1 DEF StackInv
  <2>3. Head(calls) # "ReleaseInLoop"
    BY <1>1, <2>2
  <2> QED
    BY <1>4, <1>6, <2>2, <2>3
<1> QED
  BY <1>2, <1>3, <1>7, <1>8, <1>9 DEF StackInv

\* The stack, for all other steps.
LEMMA StackOtherStep ==
  ASSUME ConnectionAssumption, TypeOK, StackInv, Next, ~ConnectionStep
  PROVE  StackInv'
<1> USE DEF StackInv
<1>0. /\ Range(<<>>) = {} /\ FinalIsLast(<<>>)
      /\ \A f \in Queued : FinalIsLast(<<f>>) /\ Range(<<f>>) = {f}
      /\ tasks \in Seq(Functions) /\ calls \in Seq(Functions) /\ turn.batch \in Seq(Functions)
  <2>1. <<>> \in Seq(Functions) /\ Len(<<>>) <= 1
    OBVIOUS
  <2>2. ASSUME NEW f \in Queued PROVE FinalIsLast(<<f>>)
    <3>1. <<f>> \in Seq(Functions) /\ Len(<<f>>) <= 1
      BY DEF Queued, Functions
    <3> QED
      BY <3>1, FinalConcat
  <2> QED
    BY <2>1, <2>2, FinalConcat, RangeSmall DEF TypeOK, Turns
<1>1. ASSUME NEW f \in Queued, Queue(f) PROVE Range(tasks') \subseteq Queued
  <2>1. f \in Functions
    BY DEF Queued, Functions
  <2>2. Range(tasks') = Range(tasks) \cup {f}
    BY <1>0, <1>1, <2>1, RangeAppend DEF Queue
  <2> QED
    BY <2>2
<1>2. CASE HandleEvent
  <2>1. turn'.phase = "dispatch" /\ turn'.batch = turn.batch /\ tasks' = tasks
    BY <1>2 DEF HandleEvent, Idle, TypeOK, Turns
  <2> QED
    BY <1>2, <2>1, EventEffect DEF Handlers
<1>3. CASE OnTime
  <2>1. turn'.phase = "dispatch" /\ turn'.batch = turn.batch /\ calls' = calls
    BY <1>3 DEF OnTime, Idle, TypeOK, Turns
  <2>2. Range(tasks') \subseteq Queued
    BY <1>1, <1>3 DEF OnTime, QueueIf, Queued
  <2> QED
    BY <1>3, <2>1, <2>2 DEF OnTime, Idle
<1>4. CASE RunAllTask
  <2>1. /\ turn'.phase = "run" /\ turn'.batch = tasks /\ turn'.ready = {}
        /\ tasks' = <<>> /\ calls' = <<>> /\ calls = <<>>
    BY <1>4 DEF RunAllTask, Idle, TypeOK, Turns
  <2> QED
    BY <1>0, <2>1
<1>5. CASE RunTask
  <2>1. /\ turn'.phase = "run" /\ turn'.batch = Tail(turn.batch) /\ turn'.ready = turn.ready
        /\ turn.phase = "run" /\ turn.batch # <<>> /\ calls = <<>> /\ tasks' = tasks
        /\ calls' = <<Head(turn.batch)>> \/ calls' = calls
    BY <1>5 DEF RunTask, Idle, TypeOK, Turns
  <2>2. /\ Range(turn.batch) = {Head(turn.batch)} \cup Range(Tail(turn.batch))
    BY <1>0, <2>1, RangeHeadTail
  <2>3. Head(turn.batch) \in Queued /\ Range(turn'.batch) \subseteq Queued
    BY <2>1, <2>2
  <2>4. FinalIsLast(calls') /\ Range(calls') \cap Handlers = {}
    BY <1>0, <2>1, <2>3 DEF Handlers, Queued
  <2> QED
    BY <2>1, <2>3, <2>4
<1>6. CASE EndTurn
  <2>1. /\ turn'.phase = "poll" /\ turn'.batch = turn.batch /\ turn'.ready = turn.ready
        /\ turn.phase = "run" /\ calls' = calls /\ calls = <<>> /\ tasks' = tasks
    BY <1>6 DEF EndTurn, Idle, TypeOK, Turns
  <2> QED
    BY <2>1
<1>7. CASE \E room \in BOOLEAN, timerfd \in BOOLEAN : Poll(room, timerfd)
  <2>1. /\ turn'.phase = "dispatch" /\ turn'.batch = turn.batch
        /\ calls = <<>> /\ calls' = calls /\ tasks' = tasks
    BY <1>7 DEF Poll, Idle, TypeOK, Turns
  <2> QED
    BY <1>0, <2>1
<1>8. CASE Accept
  <2>1. /\ Range(tasks') \subseteq Range(tasks) \cup {"EnableInactiveReleaseInLoop", "EstablishedInLoop"}
        /\ calls' \in {calls, EnableFirst \o <<"EstablishedInLoop">>}
        /\ turn' = turn
    BY <1>0, <1>8, AcceptEffect
  <2>2. calls' # calls => turn.phase = "dispatch"
    BY <1>8 DEF Accept, NewConnectionInline, NewConnection, Idle
  <2>3. calls' # calls => /\ FinalIsLast(calls')
                          /\ Range(calls') \cap {"ReleaseInLoop", "ServerClosed"} = {}
    BY <2>1, Accepted
  <2> QED
    BY <2>1, <2>2, <2>3 DEF Queued
<1>9. CASE \E f \in ForeignOps : Foreign(f)
  <2>1. PICK f \in ForeignOps : Foreign(f)
    BY <1>9
  <2>2. f \in Queued
    BY DEF ConnectionAssumption, Queued
  <2>3. Range(tasks') \subseteq Queued
    BY <1>1, <2>1, <2>2 DEF Foreign
  <2> QED
    BY <2>1, <2>3 DEF Foreign
<1>10. CASE \/ OtherHandler \/ RemoveConnectionInLoop \/ DropConnection \/ PeerSends
            \/ \E end \in {"eof", "reset"} : PeerEnds(end)
  BY <1>10 DEF OtherHandler, RemoveConnectionInLoop, DropConnection, PeerSends, PeerEnds
<1> QED
  BY <1>2, <1>3, <1>4, <1>5, <1>6, <1>7, <1>8, <1>9, <1>10 DEF Next, LoopStep

-----------------------------------------------------------------------------
(***************************************************************************)
(* Output and the writable event; what a released connection is unknown to.*)
(***************************************************************************)

\* The writable event follows the output.
LEMMA WriteStep ==
  ASSUME TypeOK, WriteInv, Next
  PROVE  WriteInv'
<1> USE DEF WriteInv
<1>0. conn \in Connections
  BY DEF TypeOK
<1>1. CASE conn'.events = conn.events /\ conn'.out = conn.out
  BY <1>1
<1>2. CASE EstablishedInLoop
  <2>1. CASE conn.statu = "CONNECTING"
    <3>1. conn'.events = conn.events \cup {"IN"} /\ conn'.out = conn.out
      BY <1>0, <1>2, <2>1 DEF EstablishedInLoop, Connections
    <3> QED
      BY <3>1
  <2>2. CASE conn.statu # "CONNECTING"
    BY <1>2, <2>2 DEF EstablishedInLoop
  <2> QED
    BY <2>1, <2>2
<1>3. CASE SendInLoop
  <2>1. CASE conn.statu = "DISCONNECTED"
    BY <1>3, <2>1 DEF SendInLoop
  <2>2. CASE conn.statu # "DISCONNECTED"
    <3>1. conn.out + 1 > 0
      BY <1>0 DEF Connections
    <3>2. conn'.out = conn.out + 1 /\ conn'.events = conn.events \cup {"OUT"}
      BY <1>0, <1>3, <2>2 DEF SendInLoop, EnableWrite, Connections
    <3> QED
      BY <3>1, <3>2
  <2> QED
    BY <2>1, <2>2
<1>4. CASE ShutdownTail
  BY <1>0, <1>4 DEF ShutdownTail, EnableWrite, Connections
<1>5. CASE \E n \in 0 .. conn.out : HandleWrite(n)
  <2>1. PICK n \in 0 .. conn.out : HandleWrite(n)
    BY <1>5
  <2>2. /\ conn'.out = conn.out - n
        /\ conn'.events = IF n = conn.out THEN conn.events \ {"OUT"} ELSE conn.events
    BY <1>0, <2>1 DEF HandleWrite, Sent, Connections
  <2>3. n # conn.out => (conn.out - n > 0 <=> conn.out > 0)
    BY <1>0 DEF Connections
  <2>4. n = conn.out => ~(conn.out - n > 0)
    BY <1>0 DEF Connections
  <2> QED
    BY <2>2, <2>3, <2>4
<1>6. CASE \/ EnableInactiveReleaseInLoop \/ ShutdownInLoop \/ ReleaseInLoop \/ HandleRead
           \/ Message \/ OnTime
  <2>1. conn'.events = conn.events /\ conn'.out = conn.out
    BY <1>0, <1>6 DEF EnableInactiveReleaseInLoop, ShutdownInLoop, ReleaseInLoop, Removed,
       HandleRead, Message, OnTime, Connections
  <2> QED
    BY <1>1, <2>1
<1>7. CASE UNCHANGED conn
  BY <1>1, <1>7
<1> QED
  BY <1>2, <1>3, <1>4, <1>5, <1>6, <1>7
     DEF Next, LoopStep, ConnectionStep, ConnectedCallback, Release, ServerClosed, HandleWriteFails,
         HandleClose, HandleEvent, RunAllTask, RunTask, EndTurn, Poll, OtherHandler, Accept,
         NewConnectionInline, NewConnection, RemoveConnectionInLoop, Foreign, DropConnection,
         PeerSends, PeerEnds

\* Released connections, for the steps of the functions of Connection.
LEMMA ReleaseConnectionStep ==
  ASSUME ConnectionAssumption, TypeOK, StackInv, WriteInv, ReleaseInv, ConnectionStep
  PROVE  ReleaseInv'
<1>0. conn \in Connections /\ turn \in Turns /\ hist \in Histories
  BY DEF TypeOK
<1>1. /\ calls # <<>> /\ turn' = turn
      /\ Range(calls') \subseteq Range(calls) \cup Pushed(Head(calls))
      /\ Head(calls) \in Range(calls)
      /\ Head(calls) \in Final => Range(Tail(calls)) = {}
      /\ \/ calls' = calls
         \/ Range(calls') \subseteq Pushed(Head(calls)) \cup Range(Tail(calls))
  BY StepStack DEF Effect, Returned
<1>2. ASSUME conn'.statu = conn.statu, conn'.monitored = conn.monitored, conn'.open = conn.open,
             hist'.late = hist.late, Pushed(Head(calls)) \cap {"Message"} # {} => ~Closed
      PROVE  ReleaseInv'
  <2>1. Pushed(Head(calls)) \cap Handlers = {}
    BY DEF Pushed, Handlers
  <2> QED
    BY <1>1, <1>2, <2>1 DEF ReleaseInv, Closed
<1>3. ASSUME NEW f \in Handlers \cup {"Message"}, Head(calls) = f PROVE ~Closed
  BY <1>1, <1>3 DEF ReleaseInv
<1>4. CASE EstablishedInLoop
  <2>1. CASE conn.statu = "CONNECTING"
    <3>1. conn'.statu = "CONNECTED" /\ conn'.open = conn.open /\ hist' = hist
      BY <1>0, <1>4, <2>1 DEF EstablishedInLoop, Connections
    <3> QED
      BY <2>1, <3>1 DEF ReleaseInv, Closed
  <2>2. CASE conn.statu # "CONNECTING"
    <3>1. conn' = conn /\ hist' = hist /\ calls' = calls
      BY <1>4, <2>2 DEF EstablishedInLoop
    <3> QED
      BY <1>1, <3>1 DEF ReleaseInv, Closed
  <2> QED
    BY <2>1, <2>2
<1>5. CASE ConnectedCallback
  <2>1. Pushed(Head(calls)) = {}
    BY <1>5 DEF ConnectedCallback, Calling, Pushed
  <2> QED
    BY <1>2, <1>5, <2>1 DEF ConnectedCallback
<1>6. CASE EnableInactiveReleaseInLoop
  <2>1. Pushed(Head(calls)) = {}
    BY <1>6 DEF EnableInactiveReleaseInLoop, Calling, Pushed
  <2>2. conn'.statu = conn.statu /\ conn'.monitored = conn.monitored /\ conn'.open = conn.open
    BY <1>0, <1>6 DEF EnableInactiveReleaseInLoop, Connections
  <2> QED
    BY <1>2, <1>6, <2>1, <2>2 DEF EnableInactiveReleaseInLoop
<1>7. CASE SendInLoop
  <2>1. Pushed(Head(calls)) = {}
    BY <1>7 DEF SendInLoop, Calling, Pushed
  <2>2. conn'.statu = conn.statu /\ conn'.open = conn.open
    BY <1>0, <1>7 DEF SendInLoop, EnableWrite, Connections
  <2>3. Closed => conn' = conn
    BY <1>7 DEF SendInLoop, Closed
  <2> QED
    BY <1>1, <1>7, <2>1, <2>2, <2>3 DEF SendInLoop, ReleaseInv, Closed
<1>8. CASE ShutdownInLoop
  <2>1. conn'.statu = "DISCONNECTING" /\ conn'.open = conn.open
    BY <1>0, <1>8 DEF ShutdownInLoop, Connections
  <2>2. hist'.late = (hist.late \/ Closed)
    BY <1>0, <1>8 DEF ShutdownInLoop, Closed, Histories
  <2> QED
    BY <2>1, <2>2 DEF ReleaseInv, Closed
<1>9. CASE ShutdownTail
  <2>1. Pushed(Head(calls)) = {}
    BY <1>9 DEF ShutdownTail, Calling, Pushed
  <2>2. CASE conn.out > 0
    <3>1. conn' = EnableWrite(conn) /\ "OUT" \in conn.events
      BY <1>9, <2>2 DEF ShutdownTail, WriteInv
    <3>2. conn'.statu = conn.statu /\ conn'.monitored = conn.monitored /\ conn'.open = conn.open
      BY <1>0, <3>1 DEF EnableWrite, Connections
    <3>3. hist'.late = hist.late
      BY <1>0, <1>9 DEF ShutdownTail, Histories
    <3> QED
      BY <1>2, <2>1, <3>2, <3>3
  <2>3. CASE ~(conn.out > 0)
    <3>1. conn' = conn /\ hist'.late = hist.late
      BY <1>0, <1>9, <2>3 DEF ShutdownTail, Histories
    <3> QED
      BY <1>2, <2>1, <3>1
  <2> QED
    BY <2>2, <2>3
<1>10. CASE Release
  <2>1. Pushed(Head(calls)) = {}
    BY <1>10 DEF Release, Calling, Pushed
  <2>2. conn' = conn /\ hist'.late = hist.late
    BY <1>0, <1>10 DEF Release, Histories
  <2> QED
    BY <1>2, <2>1, <2>2
<1>11. CASE ReleaseInLoop
  <2>1. conn'.statu = "DISCONNECTED" /\ ~conn'.monitored
    BY <1>0, <1>11 DEF ReleaseInLoop, Removed, Connections
  <2>2. Head(calls) = "ReleaseInLoop" /\ turn.ready = {}
    BY <1>1, <1>11 DEF ReleaseInLoop, Calling, StackInv
  <2>3. Range(calls') \subseteq {"ServerClosed"} \/ Range(calls') \subseteq {"ReleaseInLoop"}
    <3>1. Pushed(Head(calls)) = {"ServerClosed"} /\ Range(Tail(calls)) = {}
      BY <1>1, <2>2 DEF Pushed, Final
    <3>2. Range(calls) = {Head(calls)} \cup Range(Tail(calls))
      BY StepStack
    <3> QED
      BY <1>1, <2>2, <3>1, <3>2
  <2> QED
    BY <1>1, <2>1, <2>2, <2>3 DEF ReleaseInv, Closed, Handlers
<1>12. CASE ServerClosed
  <2>1. Pushed(Head(calls)) = {}
    BY <1>12 DEF ServerClosed, Calling, Pushed
  <2> QED
    BY <1>2, <1>12, <2>1 DEF ServerClosed
<1>13. CASE HandleRead
  <2>1. ~Closed
    BY <1>3, <1>13 DEF HandleRead, Calling, Handlers
  <2>2. conn'.statu = conn.statu /\ conn'.monitored = conn.monitored /\ conn'.open = conn.open
    BY <1>0, <1>13 DEF HandleRead, Connections
  <2> QED
    BY <1>2, <1>13, <2>1, <2>2 DEF HandleRead
<1>14. CASE \E n \in 0 .. conn.out : HandleWrite(n)
  <2>1. PICK n \in 0 .. conn.out : HandleWrite(n)
    BY <1>14
  <2>2. ~Closed
    BY <1>3, <2>1 DEF HandleWrite, Calling, Handlers
  <2>3. conn'.statu = conn.statu /\ conn'.open = conn.open
    BY <1>0, <2>1 DEF HandleWrite, Sent, Connections
  <2> QED
    BY <2>1, <2>2, <2>3 DEF HandleWrite, ReleaseInv, Closed
<1>15. CASE HandleWriteFails
  <2>1. ~Closed
    BY <1>3, <1>15 DEF HandleWriteFails, Calling, Handlers
  <2> QED
    BY <1>2, <1>15, <2>1 DEF HandleWriteFails
<1>16. CASE HandleClose
  <2>1. ~Closed
    BY <1>3, <1>16 DEF HandleClose, Calling, Handlers
  <2> QED
    BY <1>2, <1>16, <2>1 DEF HandleClose
<1>17. CASE Message
  <2>1. ~Closed
    BY <1>3, <1>17 DEF Message, Calling
  <2>2. conn'.statu = conn.statu /\ conn'.monitored = conn.monitored /\ conn'.open = conn.open
    BY <1>0, <1>17 DEF Message, Connections
  <2> QED
    BY <1>2, <1>17, <2>1, <2>2 DEF Message
<1> QED
  BY <1>4, <1>5, <1>6, <1>7, <1>8, <1>9, <1>10, <1>11, <1>12, <1>13, <1>14, <1>15, <1>16, <1>17
     DEF ConnectionStep

\* Released connections, for all other steps: poller and dispatcher do not know them.
LEMMA ReleaseOtherStep ==
  ASSUME ConnectionAssumption, TypeOK, StackInv, ReleaseInv, Next, ~ConnectionStep
  PROVE  ReleaseInv'
<1> USE DEF ReleaseInv, Closed
<1>0. conn \in Connections /\ turn \in Turns /\ hist \in Histories /\ tasks \in Seq(Functions)
  BY DEF TypeOK
<1>1. ASSUME conn'.statu = conn.statu, conn'.monitored = conn.monitored, conn'.open = conn.open,
             hist'.late = hist.late, Closed => "conn" \notin turn'.ready,
             Closed => Range(calls') \cap (Handlers \cup {"Message"}) = {}
      PROVE  ReleaseInv'
  BY <1>1
<1>2. CASE HandleEvent
  <2>1. "conn" \in turn.ready
    BY <1>2 DEF HandleEvent
  <2> QED
    BY <1>1, <1>2, <2>1 DEF HandleEvent
<1>3. CASE OnTime
  <2>1. turn'.ready = turn.ready \ {"timer"} /\ hist'.late = hist.late
    BY <1>0, <1>3 DEF OnTime, Turns, Histories
  <2>2. conn'.statu = conn.statu /\ conn'.monitored = conn.monitored /\ conn'.open = conn.open
    BY <1>0, <1>3 DEF OnTime, Connections
  <2> QED
    BY <1>1, <1>3, <2>1, <2>2 DEF OnTime
<1>4. CASE RunAllTask
  <2>1. turn'.ready = turn.ready
    BY <1>0, <1>4 DEF RunAllTask, Turns
  <2> QED
    BY <1>1, <1>4, <2>1 DEF RunAllTask
<1>5. CASE RunTask
  <2>1. turn'.ready = turn.ready /\ (calls' = <<Head(turn.batch)>> \/ calls' = calls)
    BY <1>0, <1>5 DEF RunTask, Turns
  <2>2. Head(turn.batch) \in Queued
    <3>1. turn.batch \in Seq(Functions) /\ turn.batch # <<>>
      BY <1>0, <1>5 DEF RunTask, Turns
    <3>2. Head(turn.batch) \in Range(turn.batch)
      BY <3>1, RangeHeadTail
    <3> QED
      BY <3>2 DEF StackInv
  <2>3. Closed => Range(calls') \cap (Handlers \cup {"Message"}) = {}
    BY <2>1, <2>2, RangeSmall DEF Queued, Handlers
  <2> QED
    BY <1>1, <1>5, <2>1, <2>3 DEF RunTask
<1>6. CASE EndTurn
  <2>1. turn'.ready = turn.ready
    BY <1>0, <1>6 DEF EndTurn, Turns
  <2> QED
    BY <1>1, <1>6, <2>1 DEF EndTurn
<1>7. CASE \E room \in BOOLEAN, timerfd \in BOOLEAN : Poll(room, timerfd)
  <2>1. PICK room \in BOOLEAN, timerfd \in BOOLEAN : Poll(room, timerfd)
    BY <1>7
  <2>2. ~conn.monitored => "conn" \notin turn'.ready
    BY <1>0, <2>1 DEF Poll, Turns
  <2> QED
    BY <1>1, <2>1, <2>2 DEF Poll
<1>8. CASE Accept
  <2>1. /\ calls' \in {calls, EnableFirst \o <<"EstablishedInLoop">>}
        /\ conn' = conn /\ turn' = turn /\ hist' = hist
    BY <1>0, <1>8, AcceptEffect
  <2>2. Closed => Range(calls') \cap (Handlers \cup {"Message"}) = {}
    BY <2>1, Accepted DEF Handlers
  <2> QED
    BY <1>1, <2>1, <2>2
<1>9. CASE \E f \in ForeignOps : Foreign(f)
  <2>1. hist'.late = hist.late
    BY <1>0, <1>9 DEF Foreign, Histories
  <2> QED
    BY <1>1, <1>9, <2>1 DEF Foreign
<1>10. CASE \/ OtherHandler \/ RemoveConnectionInLoop \/ DropConnection \/ PeerSends
            \/ \E end \in {"eof", "reset"} : PeerEnds(end)
  BY <1>1, <1>10 DEF OtherHandler, RemoveConnectionInLoop, DropConnection, PeerSends, PeerEnds
<1> QED
  BY <1>2, <1>3, <1>4, <1>5, <1>6, <1>7, <1>8, <1>9, <1>10 DEF Next, LoopStep

-----------------------------------------------------------------------------
(***************************************************************************)
(* Graceful shutdown.                                                      *)
(***************************************************************************)

\* The promise of Shutdown, for the steps of the functions of Connection.
LEMMA FlushConnectionStep ==
  ASSUME ConnectionAssumption, TypeOK, StackInv, FlushInv, ConnectionStep
  PROVE  FlushInv'
<1>0. /\ conn \in Connections /\ sock \in Sockets /\ hist \in Histories
      /\ calls \in Seq(Functions) /\ tasks \in Seq(Functions)
      /\ conn.out \in Nat /\ sock.delivered \in Nat /\ hist.promised \in Nat
  BY DEF TypeOK, Connections, Sockets, Histories
<1>1. /\ calls # <<>> /\ turn' = turn
      /\ Range(calls) = {Head(calls)} \cup Range(Tail(calls))
      /\ Range(calls') \subseteq Range(calls) \cup Pushed(Head(calls))
      /\ Head(calls) # "ShutdownTail" /\ "ShutdownTail" \in Range(calls) => "ShutdownTail" \in Range(calls')
      /\ Head(calls) \in Final => Range(calls) = {Head(calls)}
  <2>1. /\ Effect /\ Range(calls) = {Head(calls)} \cup Range(Tail(calls))
        /\ Head(calls) \in Final => Range(Tail(calls)) = {}
    BY StepStack
  <2> QED
    BY <2>1 DEF Effect, Returned
<1>2. "ReleaseInLoop" \notin Pushed(Head(calls))
  BY DEF Pushed
<1>3. ASSUME tasks' = tasks PROVE ReleasePending' => ReleasePending
  BY <1>1, <1>2, <1>3 DEF ReleasePending
<1>4. ASSUME conn'.out \in Nat, conn'.out >= conn.out, sock'.delivered = sock.delivered,
             hist'.shut = hist.shut, hist'.hard = hist.hard, hist'.promised = hist.promised,
             tasks' = tasks, Head(calls) # "ShutdownTail",
             conn'.statu = "DISCONNECTED" => Closed \/ ReleasePending,
             conn'.statu = "DISCONNECTING"
               => conn.statu = "DISCONNECTING" \/ "ShutdownTail" \in Range(calls')
      PROVE  FlushInv'
  <2>1. sock.delivered + conn.out >= hist.promised => sock.delivered + conn'.out >= hist.promised
    BY <1>0, <1>4
  <2>2. hist'.shut => sock'.delivered + conn'.out >= hist'.promised
    BY <1>4, <2>1 DEF FlushInv
  <2>3. conn'.statu = "DISCONNECTING" => hist'.shut \/ "ShutdownTail" \in Range(calls')
    BY <1>1, <1>4 DEF FlushInv
  <2>4. Closed' \/ ReleasePending' => hist'.hard \/ (hist'.shut /\ sock'.delivered >= hist'.promised)
    BY <1>3, <1>4 DEF FlushInv, Closed
  <2> QED
    BY <2>2, <2>3, <2>4 DEF FlushInv
<1>5. CASE EstablishedInLoop
  <2>1. CASE conn.statu = "CONNECTING"
    <3>1. conn'.out = conn.out /\ conn'.statu = "CONNECTED"
      BY <1>0, <1>5, <2>1 DEF EstablishedInLoop, Connections
    <3>2. Head(calls) # "ShutdownTail" /\ tasks' = tasks /\ hist' = hist /\ sock' = sock
      BY <1>5 DEF EstablishedInLoop, Calling
    <3> QED
      BY <1>0, <1>4, <3>1, <3>2
  <2>2. CASE conn.statu # "CONNECTING"
    <3>1. conn' = conn /\ Head(calls) # "ShutdownTail" /\ tasks' = tasks /\ hist' = hist /\ sock' = sock
      BY <1>5, <2>2 DEF EstablishedInLoop, Calling
    <3> QED
      BY <1>0, <1>4, <3>1 DEF Closed
  <2> QED
    BY <2>1, <2>2
<1>6. CASE \/ ConnectedCallback \/ ServerClosed \/ HandleWriteFails \/ HandleClose
  <2>1. conn' = conn /\ Head(calls) # "ShutdownTail" /\ tasks' = tasks /\ hist' = hist /\ sock' = sock
    BY <1>6 DEF ConnectedCallback, ServerClosed, HandleWriteFails, HandleClose, Calling
  <2> QED
    BY <1>0, <1>4, <2>1 DEF Closed
<1>7. CASE \/ EnableInactiveReleaseInLoop \/ HandleRead \/ Message
  <2>1. conn'.out = conn.out /\ conn'.statu = conn.statu
    BY <1>0, <1>7 DEF EnableInactiveReleaseInLoop, HandleRead, Message, Connections
  <2>2. sock'.delivered = sock.delivered
    BY <1>0, <1>7 DEF EnableInactiveReleaseInLoop, HandleRead, Message, Sockets
  <2>3. Head(calls) # "ShutdownTail" /\ tasks' = tasks /\ hist' = hist
    BY <1>7 DEF EnableInactiveReleaseInLoop, HandleRead, Message, Calling
  <2> QED
    BY <1>0, <1>4, <2>1, <2>2, <2>3 DEF Closed
<1>8. CASE SendInLoop
  <2>1. conn.out + 1 \in Nat /\ conn.out + 1 >= conn.out /\ conn.out >= conn.out
    BY <1>0
  <2>2. conn'.statu = conn.statu /\ conn'.out \in {conn.out, conn.out + 1}
    BY <1>0, <1>8 DEF SendInLoop, EnableWrite, Connections
  <2>3. Head(calls) # "ShutdownTail" /\ tasks' = tasks /\ hist' = hist /\ sock' = sock
    BY <1>8 DEF SendInLoop, Calling
  <2> QED
    BY <1>0, <1>4, <2>1, <2>2, <2>3 DEF Closed
<1>9. CASE ShutdownInLoop
  <2>1. conn'.out = conn.out /\ conn'.statu = "DISCONNECTING"
    BY <1>0, <1>9 DEF ShutdownInLoop, Connections
  <2>2. hist'.shut = hist.shut /\ hist'.hard = hist.hard /\ hist'.promised = hist.promised
    BY <1>0, <1>9 DEF ShutdownInLoop, Histories
  <2>3. Head(calls) # "ShutdownTail" /\ tasks' = tasks /\ sock' = sock
    BY <1>9 DEF ShutdownInLoop, Calling
  <2>4. "ShutdownTail" \in Range(calls')
    <3> DEFINE s == MessageIfInput \o <<"ShutdownTail">>
    <3>1. s \in Seq(Functions) /\ "ShutdownTail" \in Range(s)
      BY Pushes DEF Functions
    <3>2. calls' = s \o Tail(calls)
      BY <1>9 DEF ShutdownInLoop, Calls
    <3> HIDE DEF s
    <3>3. Range(s \o Tail(calls)) = Range(s) \cup Range(Tail(calls))
      BY <1>0, <1>1, <3>1, Returns
    <3> QED
      BY <3>1, <3>2, <3>3
  <2> QED
    BY <1>0, <1>4, <2>1, <2>2, <2>3, <2>4
<1>10. CASE ReleaseInLoop
  <2>1. conn'.out = conn.out /\ conn'.statu = "DISCONNECTED"
    BY <1>0, <1>10 DEF ReleaseInLoop, Removed, Connections
  <2>2. hist'.shut = hist.shut /\ hist'.hard = hist.hard /\ hist'.promised = hist.promised
    BY <1>0, <1>10 DEF ReleaseInLoop, Histories
  <2>3. Head(calls) = "ReleaseInLoop" /\ tasks' = tasks /\ sock' = sock
    BY <1>10 DEF ReleaseInLoop, Calling
  <2>4. ReleasePending
    BY <1>1, <2>3 DEF ReleasePending
  <2> QED
    BY <1>0, <1>4, <2>1, <2>2, <2>3, <2>4
<1>11. CASE Release
  <2>1. /\ hist'.hard /\ hist'.shut = hist.shut /\ hist'.promised = hist.promised
        /\ conn' = conn /\ sock' = sock /\ Head(calls) # "ShutdownTail"
    BY <1>0, <1>11 DEF Release, Calling, Histories
  <2> QED
    BY <1>1, <2>1 DEF FlushInv
<1>12. CASE ShutdownTail
  <2>1. conn'.out = conn.out /\ conn'.statu = conn.statu
    BY <1>0, <1>12 DEF ShutdownTail, EnableWrite, Connections
  <2>2. /\ hist'.shut /\ hist'.hard = hist.hard /\ sock' = sock
        /\ hist'.promised = IF hist.shut THEN hist.promised ELSE sock.delivered + conn.out
    BY <1>0, <1>12 DEF ShutdownTail, Histories
  <2>3. sock'.delivered + conn'.out >= hist'.promised
    BY <1>0, <2>1, <2>2 DEF FlushInv
  <2>4. CASE conn.out = 0
    <3>1. sock'.delivered >= hist'.promised
      BY <1>0, <2>1, <2>2, <2>3, <2>4
    <3> QED
      BY <2>2, <2>3, <3>1 DEF FlushInv
  <2>5. CASE conn.out # 0
    <3>1. tasks' = tasks
      BY <1>12, <2>5 DEF ShutdownTail, QueueIf
    <3>2. Closed' \/ ReleasePending' => Closed \/ ReleasePending
      BY <1>3, <2>1, <3>1 DEF Closed
    <3> QED
      BY <2>2, <2>3, <3>2 DEF FlushInv
  <2> QED
    BY <2>4, <2>5
<1>13. CASE \E n \in 0 .. conn.out : HandleWrite(n)
  <2>1. PICK n \in 0 .. conn.out : HandleWrite(n)
    BY <1>13
  <2>2. conn'.out = conn.out - n /\ conn'.statu = conn.statu
    BY <1>0, <2>1 DEF HandleWrite, Sent, Connections
  <2>3. sock'.delivered = sock.delivered + n /\ hist' = hist
    BY <1>0, <2>1 DEF HandleWrite, Sockets
  <2>4. sock'.delivered + conn'.out = sock.delivered + conn.out /\ sock'.delivered >= sock.delivered
    BY <1>0, <2>2, <2>3
  <2>5. Head(calls) = "HandleWrite" /\ "ShutdownTail" \notin Range(calls)
    BY <1>1, <2>1 DEF HandleWrite, Calling, Final
  <2>6. conn.statu = "DISCONNECTING" => hist.shut
    BY <2>5 DEF FlushInv
  <2>7. hist.shut => sock'.delivered + conn'.out >= hist.promised
    BY <2>4 DEF FlushInv
  <2>8. sock.delivered >= hist.promised => sock'.delivered >= hist.promised
    BY <1>0, <2>3, <2>4
  <2>9. CASE n = conn.out /\ conn.statu = "DISCONNECTING"
    <3>1. conn'.out = 0
      BY <1>0, <2>2, <2>9
    <3>2. sock'.delivered \in Nat
      BY <1>0, <2>3
    <3>3. sock'.delivered >= hist.promised
      BY <1>0, <2>6, <2>7, <2>9, <3>1, <3>2
    <3> QED
      BY <2>3, <2>6, <2>7, <2>9, <3>3 DEF FlushInv
  <2>10. CASE ~(n = conn.out /\ conn.statu = "DISCONNECTING")
    <3>1. tasks' = tasks
      BY <2>1, <2>10 DEF HandleWrite, QueueIf
    <3>2. Closed' \/ ReleasePending' => Closed \/ ReleasePending
      BY <1>3, <2>2, <3>1 DEF Closed
    <3> QED
      BY <2>2, <2>3, <2>6, <2>7, <2>8, <3>2 DEF FlushInv
  <2> QED
    BY <2>9, <2>10
<1> QED
  BY <1>5, <1>6, <1>7, <1>8, <1>9, <1>10, <1>11, <1>12, <1>13 DEF ConnectionStep

\* The promise of Shutdown, for all other steps.
LEMMA FlushOtherStep ==
  ASSUME ConnectionAssumption, TypeOK, StackInv, FlushInv, Next, ~ConnectionStep
  PROVE  FlushInv'
<1>0. /\ conn \in Connections /\ sock \in Sockets /\ hist \in Histories /\ turn \in Turns
      /\ turn.batch \in Seq(Functions) /\ tasks \in Seq(Functions) /\ Range(<<>>) = {}
  BY RangeSmall DEF TypeOK, Turns
<1>1. ASSUME conn'.out = conn.out, conn'.statu = conn.statu, sock'.delivered = sock.delivered,
             hist'.shut = hist.shut, hist'.promised = hist.promised, hist.hard => hist'.hard,
             "ShutdownTail" \in Range(calls) => "ShutdownTail" \in Range(calls'),
             ReleasePending' => ReleasePending \/ hist'.hard
      PROVE  FlushInv'
  BY <1>1 DEF FlushInv, Closed
<1>2. CASE HandleEvent
  <2>1. turn'.batch = turn.batch
    BY <1>0, <1>2 DEF HandleEvent, Turns
  <2>2. ReleasePending' => ReleasePending
    BY <1>2, <2>1, EventEffect DEF HandleEvent, ReleasePending, Handlers
  <2> QED
    BY <1>0, <1>1, <1>2, <2>2 DEF HandleEvent, Idle
<1>3. CASE OnTime
  <2>1. conn'.out = conn.out /\ conn'.statu = conn.statu /\ turn'.batch = turn.batch
    BY <1>0, <1>3 DEF OnTime, Connections, Turns
  <2>2. /\ hist'.shut = hist.shut /\ hist'.promised = hist.promised
        /\ hist'.hard = (hist.hard \/ conn.timer = "armed")
    BY <1>0, <1>3 DEF OnTime, Histories
  <2>3. ReleasePending' => ReleasePending \/ hist'.hard
    BY <1>3, <2>1, <2>2 DEF OnTime, QueueIf, ReleasePending
  <2> QED
    BY <1>1, <1>3, <2>1, <2>2, <2>3 DEF OnTime
<1>4. CASE RunAllTask
  <2>1. turn'.batch = tasks /\ tasks' = <<>>
    BY <1>0, <1>4 DEF RunAllTask, Turns
  <2>2. ReleasePending' => ReleasePending
    BY <1>0, <1>4, <2>1 DEF RunAllTask, ReleasePending
  <2> QED
    BY <1>1, <1>4, <2>2 DEF RunAllTask
<1>5. CASE RunTask
  <2>1. /\ turn'.batch = Tail(turn.batch) /\ (calls' = <<Head(turn.batch)>> \/ calls' = calls)
        /\ turn.batch # <<>> /\ calls = <<>>
    BY <1>0, <1>5 DEF RunTask, Turns, Idle
  <2>2. /\ Range(turn.batch) = {Head(turn.batch)} \cup Range(Tail(turn.batch))
        /\ Range(<<Head(turn.batch)>>) = {Head(turn.batch)}
    BY <1>0, <2>1, RangeHeadTail, RangeSmall
  <2>3. ReleasePending' => ReleasePending
    BY <1>5, <2>1, <2>2 DEF RunTask, ReleasePending
  <2> QED
    BY <1>0, <1>1, <1>5, <2>1, <2>3 DEF RunTask
<1>6. CASE EndTurn \/ \E room \in BOOLEAN, timerfd \in BOOLEAN : Poll(room, timerfd)
  <2>1. turn'.batch = turn.batch
    BY <1>0, <1>6 DEF EndTurn, Poll, Turns
  <2>2. UNCHANGED <<conn, calls, tasks, sock, hist>>
    BY <1>6 DEF EndTurn, Poll
  <2>3. ReleasePending' => ReleasePending
    BY <2>1, <2>2 DEF ReleasePending
  <2> QED
    BY <1>1, <2>2, <2>3
<1>7. CASE Accept
  <2>1. /\ calls' \in {calls, EnableFirst \o <<"EstablishedInLoop">>}
        /\ Range(tasks') \subseteq Range(tasks) \cup {"EnableInactiveReleaseInLoop", "EstablishedInLoop"}
        /\ UNCHANGED <<conn, turn, sock, hist>>
    BY <1>0, <1>7, AcceptEffect
  <2>2. Range(calls') \subseteq Range(calls) \cup {"EnableInactiveReleaseInLoop", "EstablishedInLoop"}
    BY <2>1, Accepted
  <2>3. ReleasePending' => ReleasePending
    BY <2>1, <2>2 DEF ReleasePending
  <2>4. calls' = calls \/ calls = <<>>
    BY <1>7 DEF Accept, NewConnectionInline, NewConnection, Idle
  <2> QED
    BY <1>0, <1>1, <2>1, <2>3, <2>4
<1>8. CASE \E f \in ForeignOps : Foreign(f)
  <2>1. PICK f \in ForeignOps : Foreign(f)
    BY <1>8
  <2>2. /\ hist'.shut = hist.shut /\ hist'.promised = hist.promised
        /\ hist'.hard = (hist.hard \/ f = "ReleaseInLoop")
    BY <1>0, <2>1 DEF Foreign, Histories
  <2>3. Range(tasks') = Range(tasks) \cup {f}
    <3>1. f \in Functions
      BY DEF ConnectionAssumption, Functions
    <3> QED
      BY <1>0, <2>1, <3>1, RangeAppend DEF Foreign, Queue
  <2>4. ReleasePending' => ReleasePending \/ hist'.hard
    BY <2>1, <2>2, <2>3 DEF Foreign, ReleasePending
  <2> QED
    BY <1>1, <2>1, <2>2, <2>4 DEF Foreign
<1>9. CASE OtherHandler \/ RemoveConnectionInLoop \/ DropConnection
  <2>1. UNCHANGED <<conn, turn, calls, tasks, sock, hist>>
    BY <1>9 DEF OtherHandler, RemoveConnectionInLoop, DropConnection
  <2> QED
    BY <1>1, <2>1 DEF ReleasePending
<1>10. CASE PeerSends \/ \E end \in {"eof", "reset"} : PeerEnds(end)
  <2>1. UNCHANGED <<conn, turn, calls, tasks, hist>> /\ sock'.delivered = sock.delivered
    BY <1>0, <1>10 DEF PeerSends, PeerEnds, Sockets
  <2> QED
    BY <1>1, <2>1 DEF ReleasePending
<1> QED
  BY <1>2, <1>3, <1>4, <1>5, <1>6, <1>7, <1>8, <1>9, <1>10 DEF Next, LoopStep

-----------------------------------------------------------------------------
(***************************************************************************)
(* The theorems.                                                           *)
(***************************************************************************)

\* A connection that has just been accepted.
LEMMA IInvInit ==
  ASSUME ConnectionAssumption, Init
  PROVE  IInv
<1> USE DEF Init
<1>1. Range(<<>>) = {} /\ FinalIsLast(<<>>)
  <2>1. <<>> \in Seq(Functions) /\ Len(<<>>) <= 1
    OBVIOUS
  <2> QED
    BY <2>1, FinalConcat, RangeSmall
<1>2. TypeOK
  <2>1. conn \in Connections
    BY DEF Connections, Status, ConnectionAssumption
  <2>2. turn \in Turns /\ calls \in Seq(Functions) /\ tasks \in Seq(Functions)
    BY DEF Turns
  <2>3. thread \in Threads
    BY DEF Threads
  <2>4. owner \in Owners
    <3>1. PICK same \in SameLoop :
            owner = [same |-> same, accepting |-> "accepted", owned |-> FALSE,
                     removals |-> 0, held |-> FALSE, foreign |-> 0]
      OBVIOUS
    <3>2. 0 \in 0 .. MaxForeign
      BY DEF ConnectionAssumption
    <3> HIDE DEF Init
    <3> QED
      BY <3>1, <3>2 DEF Owners
  <2>5. sock \in Sockets /\ hist \in Histories
    BY DEF Sockets, Histories, ConnectionAssumption
  <2> QED
    BY <2>1, <2>2, <2>3, <2>4, <2>5 DEF TypeOK
<1>3. StackInv
  BY <1>1 DEF StackInv
<1>4. WriteInv /\ ReleaseInv
  BY <1>1 DEF WriteInv, ReleaseInv, Closed
<1>5. FlushInv
  BY <1>1 DEF FlushInv, ReleasePending, Closed
<1> QED
  BY <1>2, <1>3, <1>4, <1>5 DEF IInv

\* Every step keeps the invariant.
LEMMA IInvNext ==
  ASSUME ConnectionAssumption, IInv, [Next]_vars
  PROVE  IInv'
<1> USE DEF IInv
<1>1. CASE ConnectionStep
  <2>1. TypeOK'
    BY <1>1, TypeConnectionStep DEF StackInv
  <2>2. WriteInv'
    BY <1>1, WriteStep DEF Next, LoopStep
  <2> QED
    BY <1>1, <2>1, <2>2, StackConnectionStep, ReleaseConnectionStep, FlushConnectionStep
<1>2. CASE Next /\ ~ConnectionStep
  BY <1>2, TypeOtherStep, StackOtherStep, WriteStep, ReleaseOtherStep, FlushOtherStep
<1>3. CASE UNCHANGED vars
  BY <1>3 DEF vars, TypeOK, StackInv, WriteInv, ReleaseInv, FlushInv, Closed, ReleasePending
<1> QED
  BY <1>1, <1>2, <1>3

\* The invariant holds in every state of every connection.
THEOREM Invariance == Safety => []IInv
<1>1. Init => IInv
  BY IInvInit, ConnectionAssumption
<1>2. IInv /\ [Next]_vars => IInv'
  BY IInvNext, ConnectionAssumption
<1> QED
  BY <1>1, <1>2, PTL DEF Safety

\* Types, and no input is counted that has not arrived: HandleRead moves the
\* units from the socket to the buffer, and the message callback takes them.
THEOREM Types == Safety => []TypeOK
<1>1. IInv => TypeOK
  BY DEF IInv
<1> QED
  BY <1>1, Invariance, PTL

\* SendInLoop, ShutdownInLoop and HandleWrite keep the writable event in step
\* with the output buffer.
THEOREM WriteEvents == Safety => []WriteEventMatches
<1>1. IInv => WriteEventMatches
  BY DEF IInv, WriteInv, WriteEventMatches
<1> QED
  BY <1>1, Invariance, PTL

\* ReleaseInLoop takes the channel out of the poller before it closes the
\* descriptor, and nothing puts it back, except after a late Shutdown.
THEOREM ChannelsOpen == Safety => []NoStaleChannel
<1>1. IInv => NoStaleChannel
  BY DEF IInv, ReleaseInv, NoStaleChannel
<1> QED
  BY <1>1, Invariance, PTL

\* Because Release only queues ReleaseInLoop, it finds no handler and no message
\* callback on the stack, and none is called afterwards as long as no Shutdown runs
\* on the released connection (926-928).
THEOREM QuietAfterRelease == Safety => []NoCallbackAfterRelease
<1>1. IInv => NoCallbackAfterRelease
  BY DEF IInv, ReleaseInv, NoCallbackAfterRelease, Handlers
<1> QED
  BY <1>1, Invariance, PTL

\* ShutdownInLoop and HandleWrite release a closing connection only when its
\* output is with the kernel.
THEOREM GracefulShutdown == Safety => []ShutdownFlushes
<1>1. IInv => ShutdownFlushes
  BY DEF IInv, FlushInv, ShutdownFlushes
<1> QED
  BY <1>1, Invariance, PTL
=============================================================================
