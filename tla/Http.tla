-------------------------------- MODULE Http --------------------------------
(***************************************************************************)
(* HttpContext and HttpServer of source/http.hpp over one connection.  The *)
(* parser keeps its stage between reads; OnMessage answers every request   *)
(* it finds in the input buffer.  Shutdown is called in the connection's   *)
(* own loop and so runs inline: ShutdownInLoop calls OnMessage again if    *)
(* there is input left.  `calls' is the stack of the functions that are    *)
(* under way, the innermost first.                                         *)
(*                                                                         *)
(* Of the connection (source/server.hpp) the model keeps what OnMessage    *)
(* can tell: its status, the answers in its output buffer and its release. *)
(***************************************************************************)
EXTENDS HttpText, SequencesExt

CONSTANT Streams   \* what clients send

ASSUME HttpAssumption == MaxLine \in Nat /\ SizeMax \in Nat /\ Streams \subseteq Seq(Pieces)

VARIABLES
  stream,    \* what the server has yet to read of the client's stream
  inbuf,     \* _in_buffer
  context,   \* the HttpContext
  taken,     \* history: the bytes of the current request that were consumed
  calls,
  statu,     \* _statu of the connection
  outbuf,    \* answers in _out_buffer that are not sent
  releasing, \* ReleaseInLoop is in the task pool
  answers,   \* history: the answers given
  nesting,   \* history: the input left at each Shutdown that has not returned
  aborted    \* an exception nobody catches has ended the program

vars == <<stream, inbuf, context, taken, calls, statu, outbuf, releasing, answers, nesting, aborted>>

-----------------------------------------------------------------------------
(* HttpContext.                                                            *)

\* HttpRequest keeps of its headers what the server looks at.
NewRequest == [target |-> <<>>, connection |-> <<>>, length |-> <<>>, body |-> <<>>]

NewContext == [recv |-> "LINE", resp |-> 200, request |-> NewRequest]

Top == IF calls = <<>> THEN "none" ELSE Head(calls)

\* GetLineAndPop and MoveReadOffset: n bytes leave the buffer.
Pop(n) ==
    /\ inbuf' = SubSeq(inbuf, n + 1, Len(inbuf))
    /\ taken' = taken \o SubSeq(inbuf, 1, n)

Failed(status) == [context EXCEPT !.recv = "ERROR", !.resp = status]

\* The size of the first line with its newline, 0 if there is none.
LineSize == SelectInSeq(inbuf, LAMBDA piece : piece = NewLine)

FirstLine == SubSeq(inbuf, 1, LineSize - 1)

\* What both stages do with the first line: the parse of it counts if it is
\* complete and not too long.
Line(parsed) ==
    /\ Pop(LineSize)
    /\ context' = IF LineSize = 0
                  THEN IF Len(inbuf) > MaxLine THEN Failed(414) ELSE context
                  ELSE IF LineSize > MaxLine THEN Failed(414)
                  ELSE parsed

ParseHttpLine(text) ==
    IF IsRequestLine(text)
    THEN [context EXCEPT !.recv = "HEAD", !.request.target = text]
    ELSE Failed(400)

RecvHttpLine ==
    /\ Top = "RecvHttpLine"
    /\ Line(ParseHttpLine(FirstLine))
    /\ calls' = Tail(calls)
    /\ UNCHANGED <<stream, statu, outbuf, releasing, answers, nesting, aborted>>

\* A faulty variant: the last header with a key counts.
SetHeader_Last(request, text) ==
    [request EXCEPT
       !.connection = IF IsConnection(text) THEN text ELSE @,
       !.length     = IF IsLength(text) THEN text ELSE @]

\* SetHeader inserts: the first of several headers with one key stays.
SetHeader(request, text) ==
    [request EXCEPT
       !.connection = IF @ = <<>> /\ IsConnection(text) THEN text ELSE @,
       !.length     = IF @ = <<>> /\ IsLength(text) THEN text ELSE @]

ParseHttpHead(text) ==
    IF text = <<>> THEN [context EXCEPT !.recv = "BODY"]
    ELSE IF IsHeader(text) THEN [context EXCEPT !.request = SetHeader(@, text)]
    ELSE Failed(400)

\* A faulty variant: the loop does not stop at an incomplete line.
RecvHttpHead_Spin ==
    /\ Top = "RecvHttpHead"
    /\ IF context.recv = "HEAD" THEN Line(ParseHttpHead(FirstLine)) ELSE UNCHANGED <<inbuf, taken, context>>
    /\ calls' = IF context'.recv = "HEAD" THEN calls ELSE Tail(calls)
    /\ UNCHANGED <<stream, statu, outbuf, releasing, answers, nesting, aborted>>

\* One turn of the loop over the header lines: it goes on while a line is
\* found and neither the blank line nor an error ends it.
RecvHttpHead ==
    /\ Top = "RecvHttpHead"
    /\ \/ /\ context.recv = "HEAD"
          /\ Line(ParseHttpHead(FirstLine))
          /\ calls' = IF LineSize > 0 /\ context'.recv = "HEAD" THEN calls ELSE Tail(calls)
       \/ /\ context.recv # "HEAD"
          /\ calls' = Tail(calls)
          /\ UNCHANGED <<inbuf, taken, context>>
    /\ UNCHANGED <<stream, statu, outbuf, releasing, answers, nesting, aborted>>

ContentLength == IF context.request.length = <<>> THEN 0 ELSE Length[context.request.length[1]]

\* Body bytes are taken as they come; stol throws if there is no number, out
\* of OnMessage and out of the thread.
RecvHttpBody ==
    /\ Top = "RecvHttpBody"
    /\ aborted' = (context.recv = "BODY" /\ ContentLength < 0)
    /\ IF context.recv = "BODY" /\ ~aborted'
       THEN LET need == ContentLength - Len(context.request.body)
                n == IF need < Len(inbuf) THEN need ELSE Len(inbuf)
            IN  /\ Pop(n)
                /\ context' = [context EXCEPT
                                 !.request.body = @ \o SubSeq(inbuf, 1, n),
                                 !.recv = IF n = need THEN "OVER" ELSE "BODY"]
       ELSE UNCHANGED <<inbuf, taken, context>>
    /\ calls' = Tail(calls)
    /\ UNCHANGED <<stream, statu, outbuf, releasing, answers, nesting>>

-----------------------------------------------------------------------------
(* HttpServer.                                                             *)

\* The cases fall through from the stage of the context on.
RecvHttpRequest ==
    CASE context.recv = "LINE" -> <<"RecvHttpLine", "RecvHttpHead", "RecvHttpBody">>
      [] context.recv = "HEAD" -> <<"RecvHttpHead", "RecvHttpBody">>
      [] context.recv = "BODY" -> <<"RecvHttpBody">>

\* The head of the loop of OnMessage.
OnMessage ==
    /\ Top = "OnMessage"
    /\ calls' = (IF inbuf = <<>> THEN <<>> ELSE RecvHttpRequest \o <<"Handle">>) \o Tail(calls)
    /\ UNCHANGED <<stream, inbuf, context, taken, statu, outbuf, releasing, answers, nesting, aborted>>

Close == ~IsKeepAlive(context.request.connection)

\* Route, with Dispatcher: a handler, which here answers with the body of the
\* request, or 404.  rsp.Close() finds the header that WriteReponse has set.
Answer ==
    [status |-> Status(context.request.target), body |-> context.request.body, last |-> Close]

\* ErrorHandler.
ErrorAnswer == [status |-> context.resp, body |-> <<>>, last |-> TRUE]

\* WriteReponse and Send, which runs inline.
WriteReponse(answer) ==
    /\ answers' = Append(answers, answer)
    /\ outbuf' = IF statu = "DISCONNECTED" THEN outbuf ELSE outbuf + 1

\* The request is incomplete: OnMessage returns.
HandleIncomplete ==
    /\ Top = "Handle" /\ ~aborted
    /\ context.resp < 400 /\ context.recv # "OVER"
    /\ calls' = Tail(calls)
    /\ UNCHANGED <<stream, inbuf, context, taken, statu, outbuf, releasing, answers, nesting, aborted>>

\* A faulty variant: the rest of the buffer is kept.
HandleError_Keep ==
    /\ Top = "Handle" /\ ~aborted
    /\ context.resp >= 400
    /\ WriteReponse(ErrorAnswer)
    /\ context' = NewContext /\ taken' = <<>> /\ UNCHANGED inbuf
    /\ calls' = <<"Shutdown">> \o Tail(calls)
    /\ UNCHANGED <<stream, statu, releasing, nesting, aborted>>

\* 930-939: everything received is dropped.
HandleError ==
    /\ Top = "Handle" /\ ~aborted
    /\ context.resp >= 400
    /\ WriteReponse(ErrorAnswer)
    /\ context' = NewContext /\ taken' = <<>> /\ inbuf' = <<>>
    /\ calls' = <<"Shutdown">> \o Tail(calls)
    /\ UNCHANGED <<stream, statu, releasing, nesting, aborted>>

\* A faulty variant: one request per call.
HandleRequest_Once ==
    /\ Top = "Handle" /\ ~aborted
    /\ context.resp < 400 /\ context.recv = "OVER"
    /\ WriteReponse(Answer)
    /\ context' = NewContext /\ taken' = <<>>
    /\ calls' = (IF Close THEN <<"Shutdown">> ELSE <<>>) \o Tail(calls)
    /\ UNCHANGED <<stream, inbuf, statu, releasing, nesting, aborted>>

\* 945-953: the request is answered and the loop goes on, whether the
\* connection is a short one or not.
HandleRequest ==
    /\ Top = "Handle" /\ ~aborted
    /\ context.resp < 400 /\ context.recv = "OVER"
    /\ WriteReponse(Answer)
    /\ context' = NewContext /\ taken' = <<>>
    /\ calls' = (IF Close THEN <<"Shutdown", "OnMessage">> ELSE <<"OnMessage">>) \o Tail(calls)
    /\ UNCHANGED <<stream, inbuf, statu, releasing, nesting, aborted>>

-----------------------------------------------------------------------------
(* The connection.                                                         *)

\* ShutdownInLoop up to the message callback, and behind it.
Shutdown ==
    /\ Top = "Shutdown"
    /\ statu' = "DISCONNECTING"
    /\ nesting' = <<Len(inbuf)>> \o nesting
    /\ calls' = (IF inbuf # <<>> THEN <<"OnMessage", "Flush">> ELSE <<"Flush">>)
                \o Tail(calls)
    /\ UNCHANGED <<stream, inbuf, context, taken, outbuf, releasing, answers, aborted>>

Flush ==
    /\ Top = "Flush"
    /\ releasing' = (releasing \/ outbuf = 0)
    /\ nesting' = Tail(nesting)
    /\ calls' = Tail(calls)
    /\ UNCHANGED <<stream, inbuf, context, taken, statu, outbuf, answers, aborted>>

\* Nothing else runs while a handler is under way.
Idle == calls = <<>> /\ ~aborted /\ statu # "DISCONNECTED"

HandleRead ==
    /\ Idle
    /\ \E n \in 1 .. Len(stream) :
          /\ inbuf' = inbuf \o SubSeq(stream, 1, n)
          /\ stream' = SubSeq(stream, n + 1, Len(stream))
    /\ calls' = <<"OnMessage">>
    /\ UNCHANGED <<context, taken, statu, outbuf, releasing, answers, nesting, aborted>>

\* A faulty variant: the status is not looked at when the output has gone.
HandleWrite_NoRelease ==
    /\ Idle
    /\ \E n \in 1 .. outbuf : outbuf' = outbuf - n
    /\ UNCHANGED <<stream, inbuf, context, taken, calls, statu, releasing, answers, nesting, aborted>>

HandleWrite ==
    /\ Idle
    /\ \E n \in 1 .. outbuf :
          /\ outbuf' = outbuf - n
          /\ releasing' = (releasing \/ (n = outbuf /\ statu = "DISCONNECTING"))
    /\ UNCHANGED <<stream, inbuf, context, taken, calls, statu, answers, nesting, aborted>>

\* recv reports the end of the stream or an error: the connection is shut down
\* from the server's side, every time as long as it is there.
HandleReadEnd ==
    /\ Idle
    /\ stream' = <<>>
    /\ calls' = <<"Shutdown">>
    /\ UNCHANGED <<inbuf, context, taken, statu, outbuf, releasing, answers, nesting, aborted>>

\* The connection is broken (hang-up, error, or a send that fails): the rest of the
\* input is offered once more, also when the read callback of the same event has
\* asked for the release already.
HandleClose ==
    /\ Idle
    /\ stream' = <<>>
    /\ calls' = IF inbuf # <<>> THEN <<"OnMessage">> ELSE <<>>
    /\ releasing' = TRUE
    /\ UNCHANGED <<inbuf, context, taken, statu, outbuf, answers, nesting, aborted>>

ReleaseInLoop ==
    /\ Idle /\ releasing
    /\ statu' = "DISCONNECTED"
    /\ UNCHANGED <<stream, inbuf, context, taken, calls, outbuf, releasing, answers, nesting, aborted>>

Init ==
    /\ stream \in Streams
    /\ inbuf = <<>> /\ context = NewContext /\ taken = <<>> /\ calls = <<>>
    /\ statu = "CONNECTED" /\ outbuf = 0 /\ releasing = FALSE
    /\ answers = <<>> /\ nesting = <<>> /\ aborted = FALSE

Handling ==
    \/ OnMessage \/ RecvHttpLine \/ RecvHttpHead \/ RecvHttpBody
    \/ HandleIncomplete \/ HandleError \/ HandleRequest
    \/ Shutdown \/ Flush

Next == Handling \/ HandleRead \/ HandleReadEnd \/ HandleWrite \/ HandleClose \/ ReleaseInLoop

\* A handler runs on, the peer reads, and the task pool is run.
Fairness == WF_vars(Handling) /\ SF_vars(HandleWrite) /\ SF_vars(ReleaseInLoop)

Spec == Init /\ [][Next]_vars /\ Fairness

-----------------------------------------------------------------------------
(* Properties.                                                             *)

\* The stages of the parser and the loop of OnMessage find the same requests
\* and give the same answers, in the same order, as a parser that sees all
\* unanswered bytes together: where TCP cuts the stream makes no difference.
Session == INSTANCE HttpSession WITH pending <- taken \o inbuf

ImplementsSession == Session!Spec

\* When OnMessage has returned, no complete message is left in the buffer
\* (918): the client need not send more to get its answer.
NothingLeftBehind ==
    calls = <<>> => Session!Message(taken \o inbuf).kind = "wait"

\* Shutdown and OnMessage call each other (928) as often as there are short
\* requests in the buffer and no oftener: each inner call has less input.
NestingShrinks ==
    \A i, j \in DOMAIN nesting : i < j => nesting[i] < nesting[j]

\* Every call of a handler comes to an end.
OnMessageReturns == calls # <<>> ~> (calls = <<>> \/ aborted)

\* After an answer that ends the connection (937, 953) it is released, whatever the
\* client still has in flight.
LastAnswerReleases ==
    (\E i \in DOMAIN answers : answers[i].last) ~> (statu = "DISCONNECTED" \/ aborted)

\* The comment at 951 says: by the kind of the connection it is decided whether
\* to close it or to go on.  The code goes on in both cases.
NothingAfterLast == \A i \in DOMAIN answers : answers[i].last => i = Len(answers)
=============================================================================
