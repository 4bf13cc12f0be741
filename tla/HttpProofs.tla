----------------------------- MODULE HttpProofs -----------------------------
(***************************************************************************)
(* Proofs about Http, for any streams of requests and any length of lines. *)
(***************************************************************************)
EXTENDS Http, SequenceTheorems, WellFoundedInduction, FiniteSetTheorems, TLAPS

USE HttpAssumption

-----------------------------------------------------------------------------
(***************************************************************************)
(* Sequences and numbers.                                                  *)
(***************************************************************************)

\* Two sequences one behind the other.
LEMMA IsConcat ==
  ASSUME NEW S, NEW s \in Seq(S), NEW s1 \in Seq(S), NEW s2 \in Seq(S),
         Len(s) = Len(s1) + Len(s2),
         \A i \in 1 .. Len(s1) : s[i] = s1[i],
         \A i \in 1 .. Len(s2) : s[Len(s1) + i] = s2[i]
  PROVE  s = s1 \o s2
<1>1. Len(s1) \in Nat /\ Len(s2) \in Nat
  BY LenProperties
<1>2. /\ s1 \o s2 \in Seq(S)
      /\ Len(s1 \o s2) = Len(s)
      /\ \A i \in 1 .. Len(s) : (s1 \o s2)[i] = IF i <= Len(s1) THEN s1[i] ELSE s2[i - Len(s1)]
  BY ConcatProperties
<1>3. \A i \in 1 .. Len(s) : s[i] = (s1 \o s2)[i]
  <2> TAKE i \in 1 .. Len(s)
  <2>1. CASE i <= Len(s1)
    BY <1>1, <1>2, <2>1
  <2>2. CASE i > Len(s1)
    <3>1. i - Len(s1) \in 1 .. Len(s2) /\ Len(s1) + (i - Len(s1)) = i
      BY <1>1, <2>2
    <3>2. s[Len(s1) + (i - Len(s1))] = s2[i - Len(s1)]
      BY <3>1
    <3> QED
      BY <1>1, <1>2, <2>2, <3>1, <3>2
  <2> QED
    BY <1>1, <2>1, <2>2
<1> QED
  BY <1>2, <1>3, SeqEqual

\* The rest of a sequence from some place on grows with it.
LEMMA SubSeqConcat ==
  ASSUME NEW S, NEW s \in Seq(S), NEW t \in Seq(S), NEW m \in 0 .. Len(s)
  PROVE  SubSeq(s, m + 1, Len(s)) \o t = SubSeq(s \o t, m + 1, Len(s \o t))
<1> DEFINE w == s \o t
<1>1. w \in Seq(S) /\ Len(w) = Len(s) + Len(t) /\ Len(s) \in Nat /\ Len(t) \in Nat
  BY ConcatProperties, LenProperties
<1>2. SubSeq(w, m + 1, Len(s)) = SubSeq(s, m + 1, Len(s))
  <2>1. CASE m = Len(s)
    <3>1. m + 1 \in Int /\ Len(s) \in Int /\ Len(s) < m + 1
      BY <1>1, <2>1
    <3> QED
      BY <3>1, SubSeqEmpty
  <2>2. CASE m # Len(s)
    <3>1. m + 1 \in 1 .. Len(s) /\ Len(s) \in 1 .. Len(s)
      BY <1>1, <2>2
    <3> QED
      BY <3>1, SubSeqOfConcat1
  <2> QED
    BY <2>1, <2>2
<1>3. SubSeq(w, Len(s) + 1, Len(w)) = t
  <2>1. CASE Len(t) = 0
    <3>1. Len(s) + 1 \in Int /\ Len(w) \in Int /\ Len(w) < Len(s) + 1
      BY <1>1, <2>1
    <3>2. SubSeq(w, Len(s) + 1, Len(w)) = <<>>
      BY <3>1, SubSeqEmpty
    <3> QED
      BY <2>1, <3>2, EmptySeq
  <2>2. CASE Len(t) # 0
    <3>1. /\ Len(s) + 1 \in Len(s) + 1 .. Len(s) + Len(t) /\ Len(w) \in Len(s) + 1 .. Len(s) + Len(t)
          /\ (Len(s) + 1) - Len(s) = 1 /\ Len(w) - Len(s) = Len(t)
      BY <1>1, <2>2
    <3>2. SubSeq(w, Len(s) + 1, Len(w)) = SubSeq(t, (Len(s) + 1) - Len(s), Len(w) - Len(s))
      BY <3>1, SubSeqOfConcat2
    <3> QED
      BY <3>1, <3>2, SubSeqFull
  <2> QED
    BY <2>1, <2>2
<1> HIDE DEF w
<1>4. SubSeq(w, m + 1, Len(s)) \o SubSeq(w, Len(s) + 1, Len(w)) = SubSeq(w, m + 1, Len(w))
  <2>1. /\ m + 1 \in 1 .. Len(w) + 1 /\ Len(s) \in (m + 1) - 1 .. Len(w)
        /\ Len(w) \in Len(s) .. Len(w)
    BY <1>1
  <2> QED
    BY <1>1, <2>1, ConcatAdjacentSubSeq
<1> QED
  BY <1>2, <1>3, <1>4 DEF w

\* A set of numbers that is not empty has a smallest one.
LEMMA SmallestExists ==
  ASSUME NEW S \in SUBSET Nat, S # {}
  PROVE  \E x \in S : \A y \in S : x <= y
<1>1. PICK x \in S : \A y \in S : ~(<<y, x>> \in OpToRel(<, Nat))
  BY NatLessThanWellFounded, WFMin
<1>2. ASSUME NEW y \in S PROVE x <= y
  <2>1. <<y, x>> \in Nat \X Nat /\ <<y, x>>[1] = y /\ <<y, x>>[2] = x
    OBVIOUS
  <2>2. ~(y < x)
    BY <1>1, <2>1 DEF OpToRel
  <2> QED
    BY <2>2
<1> QED
  BY <1>1, <1>2

-----------------------------------------------------------------------------
(***************************************************************************)
(* The stack of functions.                                                 *)
(***************************************************************************)

Names == {"OnMessage", "RecvHttpLine", "RecvHttpHead", "RecvHttpBody", "Handle", "Shutdown", "Flush"}

\* What calls what: OnMessage is called by ShutdownInLoop, whose rest is Flush, or by the
\* loop; the stages of the parser follow one another.
Callers == { <<"RecvHttpLine", "RecvHttpHead">>, <<"RecvHttpHead", "RecvHttpBody">>,
             <<"RecvHttpBody", "Handle">>, <<"Handle", "Flush">>, <<"OnMessage", "Flush">>,
             <<"Shutdown", "OnMessage">>, <<"Shutdown", "Flush">>,
             <<"Flush", "OnMessage">>, <<"Flush", "Flush">> }

\* Where the calls to Flush stand, counted from the bottom of the stack.
Flushes(s) == {Len(s) - i : i \in {j \in 1 .. Len(s) : s[j] = "Flush"}}

\* A stack with n calls of Shutdown that have not returned.
Stack(s, n) ==
    /\ s \in Seq(Names)
    /\ \A i \in 1 .. Len(s) - 1 : <<s[i], s[i + 1]>> \in Callers
    /\ s # <<>> => s[Len(s)] \notin {"RecvHttpLine", "RecvHttpHead", "RecvHttpBody"}
    /\ IsFiniteSet(Flushes(s)) /\ Cardinality(Flushes(s)) = n

-----------------------------------------------------------------------------
(***************************************************************************)
(* The inductive invariants.                                               *)
(***************************************************************************)

Requests == [target : Seq(Pieces), connection : Seq(Pieces), length : Seq(Pieces), body : Seq(Pieces)]

Contexts == [recv : {"LINE", "HEAD", "BODY", "OVER", "ERROR"}, resp : {200, 400, 414}, request : Requests]

\* What a context may be, whatever the parser makes of it.
Sound(c) ==
    /\ c \in Contexts
    /\ c.recv = "ERROR" <=> c.resp # 200
    /\ c.request.length = <<>> \/ IsLength(c.request.length)

Types ==
    /\ stream \in Seq(Pieces) /\ inbuf \in Seq(Pieces) /\ taken \in Seq(Pieces)
    /\ Sound(context)
    /\ nesting \in Seq(Nat)
    /\ aborted \in BOOLEAN

\* Body bytes that are still to come.
Missing == ContentLength - Len(context.request.body)

\* How far the parser is at each of its functions; between them a body is incomplete.
StageInv ==
    /\ Top = "RecvHttpLine" => context.recv = "LINE"
    /\ Top = "RecvHttpHead" => context.recv \in {"LINE", "HEAD", "ERROR"}
    /\ Top = "RecvHttpBody" => context.recv # "OVER"
    /\ Top \in {"none", "OnMessage", "Shutdown", "Flush"} => context.recv \in {"LINE", "HEAD", "BODY"}
    /\ aborted => Top = "Handle"
    /\ context.recv \in {"LINE", "HEAD"} => context.request.body = <<>>
    /\ context.recv = "BODY" => context.request.body = <<>> \/ Missing > 0
    /\ context.recv = "BODY" /\ Top # "RecvHttpBody" /\ ~aborted => Missing > 0

\* An inner call of Shutdown is made with less input than the outer one: before a call
\* has taken any byte, no request is complete.
NestingInv ==
    /\ Stack(calls, Len(nesting))
    /\ NestingShrinks
    /\ nesting # <<>> =>
          /\ Len(inbuf) <= nesting[1]
          /\ Top = "Shutdown" => Len(inbuf) < nesting[1]
          /\ Top \in {"RecvHttpLine", "RecvHttpHead", "RecvHttpBody", "Handle"} => nesting[1] > 0
          /\ Len(inbuf) = nesting[1] =>
                /\ context.recv # "OVER"
                /\ context.recv = "BODY" => Missing > 0

\* The bytes that are not answered.
All == taken \o inbuf

\* What the lines of s before the one at i have said is what the request r keeps.
Heads(s, r, i) ==
    /\ i \in Session!LineStarts(s)
    /\ \A j \in Session!LineStarts(s) : j < i => Session!Verdict(s, j) = "good"
    /\ i > 1 => r.target = Session!TextAt(s, 1)
    /\ r.connection = Session!FirstHeader(s, i, IsConnection)
    /\ r.length = Session!FirstHeader(s, i, IsLength)

\* The blank line is the last but the body.
Blank == Len(taken) - Len(context.request.body)

\* What the parser knows is what a parser of the whole thinks of the same bytes.
ParseInv ==
    /\ context.recv = "LINE" => taken = <<>> /\ context = NewContext
    /\ context.recv = "HEAD" => taken # <<>> /\ Heads(All, context.request, Len(taken) + 1)
    /\ context.recv \in {"BODY", "OVER"} =>
          /\ Blank \in 2 .. Len(taken) /\ Heads(All, context.request, Blank) /\ Session!Verdict(All, Blank) = "blank"
          /\ context.request.body = SubSeq(taken, Blank + 1, Len(taken))
    /\ context.recv = "OVER" => Missing = 0
    /\ context.recv = "ERROR" => Session!Message(All) = [kind |-> "error", status |-> context.resp]

Waiting == Session!Message(All).kind = "wait"

\* Where nothing more can be done, nothing is left.
WaitInv ==
    /\ Top \in {"none", "Flush"} => Waiting
    /\ Top \in {"OnMessage", "Shutdown"} /\ inbuf = <<>> => Waiting
    /\ Top \in {"RecvHttpHead", "RecvHttpBody", "Handle"} /\ context.recv = "LINE" =>
          LineSize = 0 /\ Len(inbuf) <= MaxLine
    /\ Top \in {"RecvHttpBody", "Handle"} /\ context.recv = "HEAD" =>
          LineSize = 0 /\ Len(inbuf) <= MaxLine
    /\ Top = "Handle" /\ context.recv = "BODY" /\ ~aborted => inbuf = <<>>

IInv == Types /\ StageInv /\ NestingInv /\ ParseInv /\ WaitInv

-----------------------------------------------------------------------------
(* What is pushed and popped. *)

\* One more at the front.
LEMMA PushIndex ==
  ASSUME NEW S, NEW s \in Seq(S), NEW f \in S
  PROVE  /\ <<f>> \o s \in Seq(S) /\ Len(s) \in Nat /\ Len(<<f>> \o s) = Len(s) + 1
         /\ (<<f>> \o s)[1] = f
         /\ \A i \in 1 .. Len(s) : (<<f>> \o s)[i + 1] = s[i]
<1> DEFINE t == <<f>> \o s
           n == Len(s)
<1>1. <<f>> \in Seq(S) /\ Len(<<f>>) = 1 /\ <<f>>[1] = f
  OBVIOUS
<1>2. /\ t \in Seq(S) /\ Len(t) = 1 + n
      /\ \A i \in 1 .. 1 + n : t[i] = IF i <= 1 THEN <<f>>[i] ELSE s[i - 1]
  BY <1>1, ConcatProperties
<1>3. n \in Nat
  BY LenProperties
<1> HIDE DEF t, n
<1>4. t[1] = f
  <2>1. 1 \in 1 .. 1 + n
    BY <1>3
  <2> QED
    BY <1>1, <1>2, <2>1
<1>5. ASSUME NEW i \in 1 .. n PROVE t[i + 1] = s[i]
  <2>1. i + 1 \in 1 .. 1 + n /\ ~(i + 1 <= 1) /\ (i + 1) - 1 = i
    BY <1>3
  <2>2. t[i + 1] = s[(i + 1) - 1]
    BY <1>2, <2>1
  <2> QED
    BY <2>1, <2>2
<1> QED
  BY <1>2, <1>3, <1>4, <1>5 DEF t, n

\* The depth of a call does not change with what is called above it.
LEMMA FlushesPush ==
  ASSUME NEW s \in Seq(Names), NEW f \in Names
  PROVE  /\ Flushes(<<f>> \o s) = IF f = "Flush" THEN Flushes(s) \cup {Len(s)} ELSE Flushes(s)
         /\ Len(s) \notin Flushes(s)
<1> DEFINE t == <<f>> \o s
           n == Len(s)
<1>1. /\ n \in Nat /\ Len(t) = n + 1 /\ t[1] = f
      /\ \A i \in 1 .. n : t[i + 1] = s[i]
  BY PushIndex
<1> HIDE DEF t, n
<1>2. ASSUME NEW x \in Flushes(s)
      PROVE  x \in Flushes(t) /\ x < n
  <2>1. PICK j \in 1 .. n : s[j] = "Flush" /\ x = n - j
    BY DEF Flushes, n
  <2>2. j + 1 \in 1 .. Len(t) /\ t[j + 1] = "Flush" /\ x = Len(t) - (j + 1)
    BY <1>1, <2>1
  <2> QED
    BY <1>1, <2>1, <2>2 DEF Flushes
<1>3. ASSUME NEW x \in Flushes(t)
      PROVE  x \in Flushes(s) \/ (f = "Flush" /\ x = n)
  <2>1. PICK j \in 1 .. n + 1 : t[j] = "Flush" /\ x = n + 1 - j
    BY <1>1 DEF Flushes
  <2>2. CASE j = 1
    BY <1>1, <2>1, <2>2
  <2>3. CASE j # 1
    <3>1. j - 1 \in 1 .. n /\ t[(j - 1) + 1] = s[j - 1] /\ (j - 1) + 1 = j
      BY <1>1, <2>3
    <3>2. s[j - 1] = "Flush" /\ x = n - (j - 1)
      BY <1>1, <2>1, <3>1
    <3> QED
      BY <3>1, <3>2 DEF Flushes, n
  <2> QED
    BY <2>2, <2>3
<1>4. f = "Flush" => n \in Flushes(t)
  <2>0. n \in Nat
    BY <1>1
  <2>1. 1 \in 1 .. n + 1 /\ n = (n + 1) - 1
    BY <2>0
  <2>2. 1 \in 1 .. Len(t) /\ n = Len(t) - 1
    BY <1>1, <2>1
  <2> QED
    BY <1>1, <2>2 DEF Flushes
<1>5. n \notin Flushes(s)
  BY <1>1, <1>2
<1>6. Flushes(t) = IF f = "Flush" THEN Flushes(s) \cup {n} ELSE Flushes(s)
  BY <1>2, <1>3, <1>4
<1> QED
  BY <1>5, <1>6 DEF t, n

\* A function is called.
LEMMA PushStack ==
  ASSUME NEW n \in Nat, NEW s, Stack(s, n), NEW f \in Names,
         s # <<>> => <<f, Head(s)>> \in Callers,
         s = <<>> => f \notin {"RecvHttpLine", "RecvHttpHead", "RecvHttpBody"}
  PROVE  Stack(<<f>> \o s, IF f = "Flush" THEN n + 1 ELSE n)
<1> DEFINE t == <<f>> \o s
           m == Len(s)
<1>1. /\ s \in Seq(Names)
      /\ \A i \in 1 .. Len(s) - 1 : <<s[i], s[i + 1]>> \in Callers
      /\ s # <<>> => s[Len(s)] \notin {"RecvHttpLine", "RecvHttpHead", "RecvHttpBody"}
      /\ IsFiniteSet(Flushes(s)) /\ Cardinality(Flushes(s)) = n
  BY DEF Stack
<1>2. /\ m \in Nat /\ Len(t) = m + 1 /\ t[1] = f /\ t \in Seq(Names)
      /\ \A i \in 1 .. m : t[i + 1] = s[i]
      /\ m # 0 => s # <<>> /\ Head(s) = s[1]
      /\ m = 0 => s = <<>>
  <2>1. /\ m # 0 => s # <<>> /\ Head(s) = s[1]
        /\ m = 0 => s = <<>>
    BY <1>1, LenProperties, EmptySeq
  <2> QED
    BY <1>1, <2>1, PushIndex
<1> HIDE DEF t
<1>3. ASSUME NEW i \in 1 .. Len(t) - 1 PROVE <<t[i], t[i + 1]>> \in Callers
  <2>1. CASE i = 1
    <3>1. 1 \in 1 .. m /\ t[1 + 1] = s[1] /\ m # 0
      BY <1>2, <2>1
    <3>2. <<f, s[1]>> \in Callers
      BY <1>2, <3>1
    <3> QED
      BY <1>2, <2>1, <3>1, <3>2
  <2>2. CASE i # 1
    <3>1. i - 1 \in 1 .. m - 1 /\ i \in 1 .. m /\ i - 1 \in 1 .. m /\ (i - 1) + 1 = i
      BY <1>2, <2>2
    <3>2. t[(i - 1) + 1] = s[i - 1] /\ t[i + 1] = s[i]
      BY <1>2, <3>1
    <3>3. <<s[i - 1], s[(i - 1) + 1]>> \in Callers
      BY <1>1, <3>1
    <3> QED
      BY <3>1, <3>2, <3>3
  <2> QED
    BY <2>1, <2>2
<1>4. t[Len(t)] \notin {"RecvHttpLine", "RecvHttpHead", "RecvHttpBody"}
  <2>1. CASE m = 0
    BY <1>2, <2>1
  <2>2. CASE m # 0
    <3>1. m \in 1 .. m
      BY <1>2, <2>2
    <3>2. t[m + 1] = s[m] /\ s # <<>>
      BY <1>2, <2>2, <3>1
    <3> QED
      BY <1>1, <1>2, <3>2
  <2> QED
    BY <2>1, <2>2
<1>5. /\ IsFiniteSet(Flushes(t))
      /\ Cardinality(Flushes(t)) = IF f = "Flush" THEN n + 1 ELSE n
  <2>1. /\ Flushes(t) = IF f = "Flush" THEN Flushes(s) \cup {Len(s)} ELSE Flushes(s)
        /\ Len(s) \notin Flushes(s)
    BY <1>1, FlushesPush DEF t
  <2>2. CASE f = "Flush"
    <3> DEFINE F == Flushes(s)
               x == Len(s)
    <3>1. Flushes(t) = F \cup {x} /\ x \notin F /\ IsFiniteSet(F) /\ Cardinality(F) = n
      BY <1>1, <2>1, <2>2
    <3> HIDE DEF F, x, t
    <3>2. IsFiniteSet(F \cup {x}) /\ Cardinality(F \cup {x}) = n + 1
      BY <3>1, FS_AddElement
    <3> QED
      BY <2>2, <3>1, <3>2
  <2>3. CASE f # "Flush"
    BY <1>1, <2>1, <2>3
  <2> QED
    BY <2>2, <2>3
<1> QED
  BY <1>2, <1>3, <1>4, <1>5 DEF Stack, t

\* A sequence is its head and what is behind it.
LEMMA HeadAndTail ==
  ASSUME NEW S, NEW s \in Seq(S), s # <<>>
  PROVE  s = <<Head(s)>> \o Tail(s)
<1> DEFINE h == Head(s)
           t == Tail(s)
<1>1. /\ h \in S /\ t \in Seq(S) /\ Len(t) = Len(s) - 1 /\ Len(s) \in Nat \ {0}
      /\ \A i \in 1 .. Len(t) : t[i] = s[i + 1]
  BY HeadTailProperties, EmptySeq, LenProperties
<1>2. h = s[1]
  OBVIOUS
<1> HIDE DEF h, t
<1>3. <<h>> \in Seq(S) /\ Len(<<h>>) = 1 /\ <<h>>[1] = h
  BY <1>1
<1>4. Len(s) = Len(<<h>>) + Len(t)
  BY <1>1, <1>3
<1>5. \A i \in 1 .. Len(<<h>>) : s[i] = <<h>>[i]
  BY <1>2, <1>3
<1>6. ASSUME NEW i \in 1 .. Len(t) PROVE s[Len(<<h>>) + i] = t[i]
  <2>1. Len(<<h>>) + i = i + 1
    BY <1>1, <1>3
  <2> QED
    BY <1>1, <2>1
<1>7. s = <<h>> \o t
  BY <1>1, <1>3, <1>4, <1>5, <1>6, IsConcat
<1> QED
  BY <1>7 DEF h, t

\* A function returns.
LEMMA PopStack ==
  ASSUME NEW n \in Nat, NEW s, Stack(s, n), s # <<>>
  PROVE  /\ Head(s) \in Names /\ Tail(s) \in Seq(Names)
         /\ Head(s) = "Flush" => n > 0
         /\ Stack(Tail(s), IF Head(s) = "Flush" THEN n - 1 ELSE n)
         /\ Tail(s) # <<>> => <<Head(s), Head(Tail(s))>> \in Callers
         /\ Tail(s) = <<>> => Head(s) \notin {"RecvHttpLine", "RecvHttpHead", "RecvHttpBody"}
<1> DEFINE t == Tail(s)
           f == Head(s)
<1>1. /\ s \in Seq(Names)
      /\ \A i \in 1 .. Len(s) - 1 : <<s[i], s[i + 1]>> \in Callers
      /\ s[Len(s)] \notin {"RecvHttpLine", "RecvHttpHead", "RecvHttpBody"}
      /\ IsFiniteSet(Flushes(s)) /\ Cardinality(Flushes(s)) = n
  BY DEF Stack
<1>2. /\ f \in Names /\ t \in Seq(Names) /\ Len(t) = Len(s) - 1 /\ Len(s) \in Nat \ {0}
      /\ f = s[1]
      /\ \A i \in 1 .. Len(t) : t[i] = s[i + 1]
      /\ t # <<>> => Len(t) # 0 /\ Head(t) = t[1]
      /\ t = <<>> => Len(t) = 0
  <2>1. /\ f \in Names /\ t \in Seq(Names) /\ Len(t) = Len(s) - 1
        /\ \A i \in 1 .. Len(t) : t[i] = s[i + 1]
    BY <1>1, HeadTailProperties
  <2>2. Len(s) \in Nat \ {0} /\ f = s[1]
    BY <1>1, EmptySeq, LenProperties
  <2> HIDE DEF t, f
  <2>3. /\ t # <<>> => Len(t) # 0 /\ Head(t) = t[1]
        /\ t = <<>> => Len(t) = 0
    BY <2>1, EmptySeq
  <2> QED
    BY <2>1, <2>2, <2>3
<1>3. s = <<f>> \o t
  BY <1>1, HeadAndTail
<1> HIDE DEF t, f
<1>4. /\ Flushes(s) = IF f = "Flush" THEN Flushes(t) \cup {Len(t)} ELSE Flushes(t)
      /\ Len(t) \notin Flushes(t)
  BY <1>2, <1>3, FlushesPush
<1>5. /\ f = "Flush" => n > 0
      /\ IsFiniteSet(Flushes(t))
      /\ Cardinality(Flushes(t)) = IF f = "Flush" THEN n - 1 ELSE n
  <2>1. CASE f = "Flush"
    <3>1. IsFiniteSet(Flushes(t))
      BY <1>1, <1>4, FS_Subset
    <3>2. Cardinality(Flushes(t)) \in Nat
      BY <3>1, FS_CardinalityType
    <3>3. Cardinality(Flushes(s)) = Cardinality(Flushes(t)) + 1
      BY <1>4, <2>1, <3>1, FS_AddElement
    <3> QED
      BY <1>1, <2>1, <3>1, <3>2, <3>3
  <2>2. CASE f # "Flush"
    BY <1>1, <1>4, <2>2
  <2> QED
    BY <2>1, <2>2
<1>6. ASSUME NEW i \in 1 .. Len(t) - 1 PROVE <<t[i], t[i + 1]>> \in Callers
  <2>1. /\ i \in 1 .. Len(t) /\ i + 1 \in 1 .. Len(t) /\ i + 1 \in 1 .. Len(s) - 1
    BY <1>2
  <2>2. t[i] = s[i + 1] /\ t[i + 1] = s[(i + 1) + 1]
    BY <1>2, <2>1
  <2> QED
    BY <1>1, <2>1, <2>2
<1>7. ASSUME t # <<>>
      PROVE  <<f, Head(t)>> \in Callers /\ t[Len(t)] = s[Len(s)]
  <2>1. Len(t) \in 1 .. Len(t) /\ 1 \in 1 .. Len(t) /\ 1 \in 1 .. Len(s) - 1 /\ Len(t) + 1 = Len(s)
    BY <1>2, <1>7
  <2>2. t[1] = s[1 + 1] /\ t[Len(t)] = s[Len(t) + 1]
    BY <1>2, <2>1
  <2>3. <<s[1], s[1 + 1]>> \in Callers
    BY <1>1, <2>1
  <2> QED
    BY <1>2, <1>7, <2>1, <2>2, <2>3
<1>8. t = <<>> => f \notin {"RecvHttpLine", "RecvHttpHead", "RecvHttpBody"}
  <2>1. t = <<>> => Len(s) = 1
    BY <1>2
  <2> QED
    BY <1>1, <1>2, <2>1
<1>9. Stack(t, IF f = "Flush" THEN n - 1 ELSE n)
  BY <1>1, <1>2, <1>5, <1>6, <1>7 DEF Stack
<1> QED
  BY <1>2, <1>5, <1>7, <1>8, <1>9 DEF t, f

-----------------------------------------------------------------------------
(***************************************************************************)
(* Bytes.                                                                  *)
(***************************************************************************)

\* What Min returns.
LEMMA MinProperties ==
  ASSUME NEW S \in SUBSET Nat, S # {}
  PROVE  Min(S) \in S /\ \A y \in S : Min(S) <= y
  BY SmallestExists DEF Min

\* Nothing is smaller.
LEMMA MinIs ==
  ASSUME NEW S \in SUBSET Nat, NEW x \in S, \A y \in S : x <= y
  PROVE  Min(S) = x
<1>1. Min(S) \in S /\ Min(S) <= x
  BY MinProperties
<1>2. x <= Min(S) /\ x \in Nat /\ Min(S) \in Nat
  BY <1>1
<1> QED
  BY <1>1, <1>2

\* What GetLine finds.
LEMMA LineSizeProperties ==
  ASSUME inbuf \in Seq(Pieces)
  PROVE  /\ LineSize \in 0 .. Len(inbuf)
         /\ LineSize # 0 => inbuf[LineSize] = NewLine /\ \A i \in 1 .. LineSize - 1 : inbuf[i] # NewLine
         /\ LineSize = 0 => \A i \in 1 .. Len(inbuf) : inbuf[i] # NewLine
<1> DEFINE I == {i \in 1 .. Len(inbuf) : inbuf[i] = NewLine}
<1>1. LineSize = IF I # {} THEN Min(I) ELSE 0
  BY DEF LineSize, SelectInSeq
<1>2. I \in SUBSET Nat /\ Len(inbuf) \in Nat
  BY LenProperties
<1>3. CASE I = {}
  BY <1>1, <1>2, <1>3
<1>4. CASE I # {}
  <2>1. LineSize \in I /\ \A y \in I : LineSize <= y
    BY <1>1, <1>2, <1>4, MinProperties
  <2>2. ASSUME NEW i \in 1 .. LineSize - 1 PROVE inbuf[i] # NewLine
    <3>1. i \in 1 .. Len(inbuf) /\ ~(LineSize <= i)
      BY <1>2, <2>1
    <3> QED
      BY <2>1, <3>1
  <2> QED
    BY <1>2, <2>1, <2>2
<1> QED
  BY <1>3, <1>4

\* Bytes that are read and bytes that are still in the stream.
LEMMA SubSeqPieces ==
  ASSUME NEW s \in Seq(Pieces), NEW n \in 0 .. Len(s)
  PROVE  /\ Len(s) \in Nat
         /\ SubSeq(s, 1, n) \in Seq(Pieces) /\ Len(SubSeq(s, 1, n)) = n
         /\ SubSeq(s, n + 1, Len(s)) \in Seq(Pieces) /\ Len(SubSeq(s, n + 1, Len(s))) = Len(s) - n
         /\ \A i \in 1 .. n : SubSeq(s, 1, n)[i] = s[i]
         /\ SubSeq(s, 1, n) \o SubSeq(s, n + 1, Len(s)) = s
<1> DEFINE a == SubSeq(s, 1, n)
           b == SubSeq(s, n + 1, Len(s))
<1>1. Len(s) \in Nat
  BY LenProperties
<1>2. \A i \in 1 .. Len(s) : s[i] \in Pieces
  BY ElementOfSeq
<1>3. a \in Seq(Pieces) /\ Len(a) = n /\ \A i \in 1 .. n : a[i] = s[i]
  <2>1. \A i \in 1 .. n : s[i] \in Pieces
    BY <1>1, <1>2
  <2>2. /\ a \in Seq(Pieces) /\ Len(a) = IF 1 <= n THEN n - 1 + 1 ELSE 0
        /\ \A i \in 1 .. n - 1 + 1 : a[i] = s[1 + i - 1]
    BY <1>1, <2>1, SubSeqProperties
  <2>3. \A i \in 1 .. n : i \in 1 .. n - 1 + 1 /\ 1 + i - 1 = i
    BY <1>1
  <2> QED
    BY <1>1, <2>2, <2>3
<1>4. b \in Seq(Pieces) /\ Len(b) = Len(s) - n
  <2>1. \A i \in n + 1 .. Len(s) : s[i] \in Pieces
    BY <1>1, <1>2
  <2>2. b \in Seq(Pieces) /\ Len(b) = IF n + 1 <= Len(s) THEN Len(s) - (n + 1) + 1 ELSE 0
    BY <1>1, <2>1, SubSeqProperties
  <2> QED
    BY <1>1, <2>2
<1>5. a \o b = s
  <2>1. /\ 1 \in 1 .. Len(s) + 1 /\ n \in 1 - 1 .. Len(s) /\ Len(s) \in n .. Len(s)
    BY <1>1
  <2>2. a \o b = SubSeq(s, 1, Len(s))
    BY <2>1, ConcatAdjacentSubSeq
  <2> QED
    BY <2>2, SubSeqFull
<1> QED
  BY <1>1, <1>3, <1>4, <1>5

\* Joining texts is associative.
LEMMA ConcatPieces ==
  ASSUME NEW s \in Seq(Pieces), NEW t \in Seq(Pieces), NEW u \in Seq(Pieces)
  PROVE  (s \o t) \o u = s \o (t \o u)
  BY ConcatAssociative

\* Bytes go from the buffer to what is consumed, and all of them stay in order.
LEMMA PopProperties ==
  ASSUME inbuf \in Seq(Pieces), taken \in Seq(Pieces), NEW n \in 0 .. Len(inbuf), Pop(n)
  PROVE  /\ inbuf' \in Seq(Pieces) /\ Len(inbuf') = Len(inbuf) - n
         /\ taken' \in Seq(Pieces) /\ Len(taken') = Len(taken) + n
         /\ All' = All
         /\ SubSeq(inbuf, 1, n) \in Seq(Pieces) /\ Len(SubSeq(inbuf, 1, n)) = n
<1> DEFINE a == SubSeq(inbuf, 1, n)
           b == SubSeq(inbuf, n + 1, Len(inbuf))
<1>1. inbuf' = b /\ taken' = taken \o a
  BY DEF Pop
<1>2. /\ a \in Seq(Pieces) /\ Len(a) = n
      /\ b \in Seq(Pieces) /\ Len(b) = Len(inbuf) - n
      /\ a \o b = inbuf
  BY SubSeqPieces
<1> HIDE DEF a, b
<1>3. taken' \o inbuf' = taken \o inbuf
  <2>0. a \in Seq(Pieces) /\ b \in Seq(Pieces)
    BY <1>2
  <2>1. (taken \o a) \o b = taken \o (a \o b)
    BY <2>0, ConcatPieces
  <2>2. taken' \o inbuf' = (taken \o a) \o b /\ taken \o (a \o b) = taken \o inbuf
    BY <1>1, <1>2, Zenon
  <2> QED
    BY <2>1, <2>2, Zenon
<1>4. taken' \in Seq(Pieces) /\ Len(taken') = Len(taken) + n
  BY <1>1, <1>2, ConcatProperties
<1> QED
  BY <1>1, <1>2, <1>3, <1>4 DEF a, All

-----------------------------------------------------------------------------
(***************************************************************************)
(* Calls and returns.                                                      *)
(***************************************************************************)

Stages == {"RecvHttpLine", "RecvHttpHead", "RecvHttpBody"}

\* A list of functions on a stack is one function after the other on the stack.
LEMMA ListOnStack ==
  ASSUME NEW t \in Seq(Names), NEW a \in Names, NEW b \in Names
  PROVE  /\ <<a, b>> \o t = <<a>> \o (<<b>> \o t)
         /\ <<>> \o t = t
         /\ \A s \in Seq(Names) : (<<a>> \o s) \o t = <<a>> \o (s \o t)
<1>1. <<a>> \in Seq(Names) /\ <<b>> \in Seq(Names)
  OBVIOUS
<1>2. <<a, b>> = <<a>> \o <<b>>
  <2>1. <<a, b>> \in Seq(Names) /\ Len(<<a, b>>) = 2 /\ Len(<<a>>) = 1 /\ Len(<<b>>) = 1
    OBVIOUS
  <2>2. \A i \in 1 .. Len(<<a>>) : <<a, b>>[i] = <<a>>[i]
    BY <2>1
  <2>3. \A i \in 1 .. Len(<<b>>) : <<a, b>>[Len(<<a>>) + i] = <<b>>[i]
    BY <2>1
  <2> QED
    BY <1>1, <2>1, <2>2, <2>3, IsConcat
<1>3. (<<a>> \o <<b>>) \o t = <<a>> \o (<<b>> \o t)
  BY <1>1, ConcatAssociative
<1>4. <<>> \o t = t
  BY ConcatEmptySeq
<1>5. \A s \in Seq(Names) : (<<a>> \o s) \o t = <<a>> \o (s \o t)
  BY <1>1, ConcatAssociative
<1> QED
  BY <1>2, <1>3, <1>4, <1>5

\* The function that is called is on top of the stack.
LEMMA Called ==
  ASSUME NEW n \in Nat, NEW s, Stack(s, n), NEW f \in Names,
         s # <<>> => <<f, Head(s)>> \in Callers, s = <<>> => f \notin Stages
  PROVE  /\ Stack(<<f>> \o s, IF f = "Flush" THEN n + 1 ELSE n)
         /\ <<f>> \o s # <<>> /\ Head(<<f>> \o s) = f
<1>1. s \in Seq(Names)
  BY DEF Stack
<1>2. Stack(<<f>> \o s, IF f = "Flush" THEN n + 1 ELSE n)
  BY PushStack DEF Stages
<1>3. <<f>> \o s \in Seq(Names) /\ Len(<<f>> \o s) = Len(s) + 1 /\ Len(s) \in Nat
      /\ (<<f>> \o s)[1] = f
  BY <1>1, PushIndex
<1>4. <<f>> \o s # <<>>
  BY <1>3, EmptySeq
<1> QED
  BY <1>2, <1>3, <1>4

\* When a function returns, the rest of its caller is next.
LEMMA Returned ==
  ASSUME NEW n \in Nat, Stack(calls, n), Top # "none", calls' = Tail(calls)
  PROVE  /\ calls # <<>> /\ Top \in Names
         /\ Top = "Flush" => n > 0
         /\ Stack(calls', IF Top = "Flush" THEN n - 1 ELSE n)
         /\ Top = "RecvHttpLine" => Top' = "RecvHttpHead"
         /\ Top = "RecvHttpHead" => Top' = "RecvHttpBody"
         /\ Top = "RecvHttpBody" => Top' = "Handle"
         /\ Top \in {"Handle", "OnMessage"} => Top' \in {"none", "Flush"}
         /\ Top \in {"Shutdown", "Flush"} => Top' \in {"none", "OnMessage", "Flush"}
<1>1. calls # <<>> /\ Top = Head(calls)
  BY DEF Top
<1>2. /\ Head(calls) \in Names /\ Tail(calls) \in Seq(Names)
      /\ Head(calls) = "Flush" => n > 0
      /\ Stack(Tail(calls), IF Head(calls) = "Flush" THEN n - 1 ELSE n)
      /\ Tail(calls) # <<>> => <<Head(calls), Head(Tail(calls))>> \in Callers
      /\ Tail(calls) = <<>> => Head(calls) \notin Stages
  BY <1>1, PopStack DEF Stages
<1>3. Top' = IF Tail(calls) = <<>> THEN "none" ELSE Head(Tail(calls))
  BY DEF Top
<1>4. CASE Tail(calls) = <<>>
  BY <1>1, <1>2, <1>3, <1>4 DEF Stages
<1>5. CASE Tail(calls) # <<>>
  <2>1. <<Top, Top'>> \in Callers
    BY <1>1, <1>2, <1>3, <1>5
  <2> QED
    BY <1>1, <1>2, <2>1 DEF Callers
<1> QED
  BY <1>4, <1>5

\* What is under a function that is under way.
LEMMA Under ==
  ASSUME NEW n \in Nat, Stack(calls, n), Top \in {"OnMessage", "Handle", "Shutdown"}
  PROVE  /\ Stack(Tail(calls), n) /\ Tail(calls) \in Seq(Names)
         /\ Tail(calls) # <<>> => Head(Tail(calls)) \in {"OnMessage", "Flush"}
         /\ Tail(calls) # <<>> /\ Top # "Shutdown" => Head(Tail(calls)) = "Flush"
<1>1. calls # <<>> /\ Top = Head(calls) /\ Top # "Flush"
  BY DEF Top
<1>2. /\ Tail(calls) \in Seq(Names) /\ Stack(Tail(calls), n)
      /\ Tail(calls) # <<>> => <<Top, Head(Tail(calls))>> \in Callers
  BY <1>1, PopStack
<1> QED
  BY <1>2 DEF Callers

\* OnMessage parses what there is, from the stage it is in on.
LEMMA OnMessageCalls ==
  ASSUME NEW n \in Nat, Stack(calls, n), OnMessage, context.recv \in {"LINE", "HEAD", "BODY"}
  PROVE  /\ Stack(calls', n)
         /\ inbuf = <<>> => Top' \in {"none", "Flush"}
         /\ inbuf # <<>> => Top' = CASE context.recv = "LINE" -> "RecvHttpLine"
                                     [] context.recv = "HEAD" -> "RecvHttpHead"
                                     [] context.recv = "BODY" -> "RecvHttpBody"
<1> DEFINE t == Tail(calls)
<1>0. Top = "OnMessage"
  BY DEF OnMessage
<1>1. /\ Stack(t, n) /\ t \in Seq(Names)
      /\ t # <<>> => Head(t) = "Flush"
  BY <1>0, Under
<1>2. CASE inbuf = <<>>
  <2>1. calls' = <<>> \o t
    BY <1>2 DEF OnMessage
  <2>2. calls' = Tail(calls)
    BY <1>1, <2>1, ListOnStack
  <2> QED
    BY <1>0, <1>2, <2>2, Returned
<1>3. CASE inbuf # <<>>
  <2> HIDE DEF t
  <2>1. calls' = (RecvHttpRequest \o <<"Handle">>) \o t
    BY <1>3 DEF OnMessage, t
  <2> DEFINE s1 == <<"Handle">> \o t
             s2 == <<"RecvHttpBody">> \o s1
             s3 == <<"RecvHttpHead">> \o s2
             s4 == <<"RecvHttpLine">> \o s3
  <2>2. Stack(s1, n) /\ s1 # <<>> /\ Head(s1) = "Handle"
    <3>1. t # <<>> => <<"Handle", Head(t)>> \in Callers
      BY <1>1 DEF Callers
    <3>2. "Handle" \in Names /\ "Handle" \notin Stages
      BY DEF Names, Stages
    <3> QED
      BY <1>1, <3>1, <3>2, Called
  <2> HIDE DEF s1
  <2>3. Stack(s2, n) /\ s2 # <<>> /\ Head(s2) = "RecvHttpBody"
    <3>1. <<"RecvHttpBody", Head(s1)>> \in Callers /\ "RecvHttpBody" \in Names
      BY <2>2 DEF Callers, Names
    <3> QED
      BY <2>2, <3>1, Called
  <2> HIDE DEF s2
  <2>4. Stack(s3, n) /\ s3 # <<>> /\ Head(s3) = "RecvHttpHead"
    <3>1. <<"RecvHttpHead", Head(s2)>> \in Callers /\ "RecvHttpHead" \in Names
      BY <2>3 DEF Callers, Names
    <3> QED
      BY <2>3, <3>1, Called
  <2> HIDE DEF s3
  <2>5. Stack(s4, n) /\ s4 # <<>> /\ Head(s4) = "RecvHttpLine"
    <3>1. <<"RecvHttpLine", Head(s3)>> \in Callers /\ "RecvHttpLine" \in Names
      BY <2>4 DEF Callers, Names
    <3> QED
      BY <2>4, <3>1, Called
  <2> HIDE DEF s4
  <2>6. /\ t \in Seq(Names) /\ s1 \in Seq(Names) /\ s2 \in Seq(Names)
        /\ {"RecvHttpLine", "RecvHttpHead", "RecvHttpBody", "Handle"} \subseteq Names
        /\ \A f \in Names : <<f>> \in Seq(Names) /\ (\A g \in Names : <<f, g>> \in Seq(Names))
    BY <1>1, <2>2, <2>3 DEF Names, Stack
  <2>7. (<<"RecvHttpBody">> \o <<"Handle">>) \o t = s2
    BY <2>6, ConcatAssociative DEF s2, s1
  <2>8. (<<"RecvHttpHead", "RecvHttpBody">> \o <<"Handle">>) \o t = s3
    <3>1. <<"RecvHttpHead", "RecvHttpBody">> \o <<"Handle">> =
             <<"RecvHttpHead">> \o (<<"RecvHttpBody">> \o <<"Handle">>)
      BY <2>6, ListOnStack
    <3>2. (<<"RecvHttpHead">> \o (<<"RecvHttpBody">> \o <<"Handle">>)) \o t =
             <<"RecvHttpHead">> \o ((<<"RecvHttpBody">> \o <<"Handle">>) \o t)
      BY <2>6, ConcatAssociative, ConcatProperties
    <3> QED
      BY <2>7, <3>1, <3>2 DEF s3
  <2>9. (<<"RecvHttpLine", "RecvHttpHead", "RecvHttpBody">> \o <<"Handle">>) \o t = s4
    <3>1. <<"RecvHttpLine", "RecvHttpHead", "RecvHttpBody">> =
             <<"RecvHttpLine">> \o <<"RecvHttpHead", "RecvHttpBody">>
      OBVIOUS
    <3>2. (<<"RecvHttpLine">> \o <<"RecvHttpHead", "RecvHttpBody">>) \o <<"Handle">> =
             <<"RecvHttpLine">> \o (<<"RecvHttpHead", "RecvHttpBody">> \o <<"Handle">>)
      BY <2>6, ConcatAssociative
    <3>3. (<<"RecvHttpLine">> \o (<<"RecvHttpHead", "RecvHttpBody">> \o <<"Handle">>)) \o t =
             <<"RecvHttpLine">> \o ((<<"RecvHttpHead", "RecvHttpBody">> \o <<"Handle">>) \o t)
      BY <2>6, ConcatAssociative, ConcatProperties
    <3> QED
      BY <2>8, <3>1, <3>2, <3>3 DEF s4
  <2>10. calls' = CASE context.recv = "LINE" -> s4
                    [] context.recv = "HEAD" -> s3
                    [] context.recv = "BODY" -> s2
    BY <2>1, <2>7, <2>8, <2>9 DEF RecvHttpRequest
  <2>11. Top' = IF calls' = <<>> THEN "none" ELSE Head(calls')
    BY DEF Top
  <2> QED
    BY <1>3, <2>3, <2>4, <2>5, <2>10, <2>11
<1> QED
  BY <1>2, <1>3

\* What is answered may shut the connection down, and OnMessage looks for more.
LEMMA HandleCalls ==
  ASSUME NEW n \in Nat, Stack(calls, n), HandleError \/ HandleRequest
  PROVE  /\ Stack(calls', n)
         /\ Top' = IF HandleError \/ Close THEN "Shutdown" ELSE "OnMessage"
<1> DEFINE t == Tail(calls)
           s == <<"OnMessage">> \o t
<1>0. Top = "Handle"
  BY DEF HandleError, HandleRequest
<1>1. /\ Stack(t, n) /\ t \in Seq(Names)
      /\ t # <<>> => Head(t) = "Flush"
  BY <1>0, Under
<1> HIDE DEF t
<1>2. "OnMessage" \in Names \ Stages /\ "Shutdown" \in Names \ Stages
  BY DEF Names, Stages
<1>3. Stack(s, n) /\ s # <<>> /\ Head(s) = "OnMessage"
  <2>1. t # <<>> => <<"OnMessage", Head(t)>> \in Callers
    BY <1>1 DEF Callers
  <2> QED
    BY <1>1, <1>2, <2>1, Called
<1> HIDE DEF s
<1>4. /\ Stack(<<"Shutdown">> \o t, n) /\ <<"Shutdown">> \o t # <<>>
      /\ Head(<<"Shutdown">> \o t) = "Shutdown"
  <2>1. t # <<>> => <<"Shutdown", Head(t)>> \in Callers
    BY <1>1 DEF Callers
  <2> QED
    BY <1>1, <1>2, <2>1, Called
<1>5. /\ Stack(<<"Shutdown">> \o s, n) /\ <<"Shutdown">> \o s # <<>>
      /\ Head(<<"Shutdown">> \o s) = "Shutdown"
  <2>1. <<"Shutdown", Head(s)>> \in Callers
    BY <1>3 DEF Callers
  <2> QED
    BY <1>2, <1>3, <2>1, Called
<1>6. <<"Shutdown", "OnMessage">> \o t = <<"Shutdown">> \o s
  BY <1>1, <1>2, ListOnStack DEF s
<1>7. Top' = IF calls' = <<>> THEN "none" ELSE Head(calls')
  BY DEF Top
<1>8. CASE HandleError
  <2>1. calls' = <<"Shutdown">> \o t
    BY <1>8 DEF HandleError, t
  <2> QED
    BY <1>4, <1>7, <1>8, <2>1
<1>9. CASE HandleRequest /\ ~HandleError
  <2>1. calls' = (IF Close THEN <<"Shutdown", "OnMessage">> ELSE <<"OnMessage">>) \o t
    BY <1>9 DEF HandleRequest, t
  <2>2. calls' = IF Close THEN <<"Shutdown">> \o s ELSE s
    BY <1>6, <2>1 DEF s
  <2> QED
    BY <1>3, <1>5, <1>7, <1>9, <2>2
<1> QED
  BY <1>8, <1>9

\* Shutdown calls OnMessage if there is input, and goes on with Flush.
LEMMA ShutdownCalls ==
  ASSUME NEW n \in Nat, Stack(calls, n), Shutdown
  PROVE  /\ Stack(calls', n + 1)
         /\ Top' = IF inbuf # <<>> THEN "OnMessage" ELSE "Flush"
<1> DEFINE t == Tail(calls)
           s == <<"Flush">> \o t
<1>0. Top = "Shutdown"
  BY DEF Shutdown
<1>1. /\ Stack(t, n) /\ t \in Seq(Names)
      /\ t # <<>> => Head(t) \in {"OnMessage", "Flush"}
  BY <1>0, Under
<1>2. calls' = (IF inbuf # <<>> THEN <<"OnMessage", "Flush">> ELSE <<"Flush">>) \o t
  BY DEF Shutdown
<1> HIDE DEF t
<1>3. "OnMessage" \in Names \ Stages /\ "Flush" \in Names \ Stages
  BY DEF Names, Stages
<1>4. Stack(s, n + 1) /\ s # <<>> /\ Head(s) = "Flush"
  <2>1. t # <<>> => <<"Flush", Head(t)>> \in Callers
    BY <1>1 DEF Callers
  <2> QED
    BY <1>1, <1>3, <2>1, Called
<1> HIDE DEF s
<1>5. /\ Stack(<<"OnMessage">> \o s, n + 1) /\ <<"OnMessage">> \o s # <<>>
      /\ Head(<<"OnMessage">> \o s) = "OnMessage"
  <2>1. <<"OnMessage", Head(s)>> \in Callers /\ n + 1 \in Nat
    BY <1>4 DEF Callers
  <2> QED
    BY <1>3, <1>4, <2>1, Called
<1>6. <<"OnMessage", "Flush">> \o t = <<"OnMessage">> \o s
  BY <1>1, <1>3, ListOnStack DEF s
<1>7. calls' = IF inbuf # <<>> THEN <<"OnMessage">> \o s ELSE s
  BY <1>2, <1>6 DEF s
<1>8. Top' = IF calls' = <<>> THEN "none" ELSE Head(calls')
  BY DEF Top
<1> QED
  BY <1>4, <1>5, <1>7, <1>8

\* Handlers of the connection begin on an empty stack.
LEMMA FirstCall ==
  ASSUME NEW n \in Nat, Stack(calls, n), calls = <<>>, calls' \in {<<"OnMessage">>, <<"Shutdown">>, <<>>}
  PROVE  /\ n = 0 /\ Stack(calls', n)
         /\ Top' = IF calls' = <<>> THEN "none" ELSE calls'[1]
<1>1. n = 0
  <2>1. Flushes(<<>>) = {}
    BY DEF Flushes
  <2> QED
    BY <2>1, FS_EmptySet DEF Stack
<1>2. ASSUME NEW f \in {"OnMessage", "Shutdown"}
      PROVE  Stack(<<f>>, n)
  <2>1. f \in Names \ Stages /\ <<f>> \in Seq(Names)
    BY DEF Names, Stages
  <2>2. Stack(<<f>> \o <<>>, n)
    BY <2>1, Called
  <2>3. <<f>> \o <<>> = <<f>>
    BY <2>1, ConcatEmptySeq
  <2> QED
    BY <2>2, <2>3
<1>3. Top' = IF calls' = <<>> THEN "none" ELSE Head(calls')
  BY DEF Top
<1> QED
  BY <1>1, <1>2, <1>3

-----------------------------------------------------------------------------
(***************************************************************************)
(* Types, stages and nesting.                                              *)
(***************************************************************************)

CoreInv == Types /\ StageInv /\ NestingInv

\* Content-Length is a number, or none.
LEMMA ContentLengthType ==
  ASSUME Sound(context)
  PROVE  ContentLength \in Int /\ Missing \in Int /\ Len(context.request.body) \in Nat
<1>1. context.request.body \in Seq(Pieces)
  BY DEF Sound, Contexts, Requests
<1>2. Len(context.request.body) \in Nat
  BY <1>1, LenProperties
<1>3. ContentLength \in Int
  <2>1. CASE context.request.length = <<>>
    BY <2>1 DEF ContentLength
  <2>2. CASE context.request.length # <<>>
    <3>1. context.request.length[1] \in DOMAIN Length
      BY <2>2 DEF Sound, IsLength
    <3>2. \A x \in DOMAIN Length : Length[x] \in Int
      BY DEF Length
    <3> QED
      BY <2>2, <3>1, <3>2 DEF ContentLength
  <2> QED
    BY <2>1, <2>2
<1> QED
  BY <1>2, <1>3 DEF Missing

\* Contexts the parser makes.
LEMMA NewContexts ==
  ASSUME Sound(context), NEW text \in Seq(Pieces)
  PROVE  /\ Sound(NewContext) /\ NewContext.recv = "LINE" /\ NewContext.request.body = <<>>
         /\ NewContext.resp = 200
         /\ \A r \in {400, 414} : /\ Sound(Failed(r)) /\ Failed(r).recv = "ERROR" /\ Failed(r).resp = r
                                  /\ Failed(r).request = context.request
         /\ Sound(ParseHttpLine(text)) \/ context.recv # "LINE"
         /\ context.recv = "LINE" => ParseHttpLine(text).recv \in {"HEAD", "ERROR"}
         /\ ParseHttpLine(text).request.body = context.request.body
         /\ Sound(ParseHttpHead(text)) \/ context.recv # "HEAD"
         /\ context.recv = "HEAD" => ParseHttpHead(text).recv \in {"HEAD", "BODY", "ERROR"}
         /\ ParseHttpHead(text).request.body = context.request.body
<1>1. /\ context \in Contexts /\ context.request \in Requests
      /\ context.recv = "ERROR" <=> context.resp # 200
      /\ context.request.length = <<>> \/ IsLength(context.request.length)
  BY DEF Sound, Contexts
<1>2. Sound(NewContext) /\ NewContext.recv = "LINE" /\ NewContext.request.body = <<>> /\ NewContext.resp = 200
  BY DEF Sound, NewContext, NewRequest, Contexts, Requests
<1>3. ASSUME NEW r \in {400, 414}
      PROVE  /\ Sound(Failed(r)) /\ Failed(r).recv = "ERROR" /\ Failed(r).resp = r
             /\ Failed(r).request = context.request
  <2> DEFINE c == [context EXCEPT !.recv = "ERROR", !.resp = r]
  <2>1. c.recv = "ERROR" /\ c.resp = r /\ c.request = context.request
    BY <1>1 DEF Contexts
  <2>2. c \in Contexts
    <3> DEFINE d == [context EXCEPT !.recv = "ERROR"]
    <3>1. context \in Contexts
      BY <1>1
    <3>2. d \in Contexts
      BY <3>1 DEF Contexts
    <3>3. c = [d EXCEPT !.resp = r]
      OBVIOUS
    <3> HIDE DEF d, c
    <3> QED
      BY <3>2, <3>3 DEF Contexts
  <2> QED
    BY <1>1, <2>1, <2>2 DEF Sound, Failed
<1>4. /\ context.recv = "LINE" => Sound(ParseHttpLine(text))
      /\ context.recv = "LINE" => ParseHttpLine(text).recv \in {"HEAD", "ERROR"}
      /\ ParseHttpLine(text).request.body = context.request.body
  <2>1. CASE IsRequestLine(text)
    <3> DEFINE c == [context EXCEPT !.recv = "HEAD", !.request.target = text]
    <3>1. ParseHttpLine(text) = c
      BY <2>1 DEF ParseHttpLine
    <3>2. c.request \in Requests /\ c.request.length = context.request.length
          /\ c.request.body = context.request.body
      BY <1>1 DEF Requests, Contexts
    <3>3. c.recv = "HEAD" /\ c.resp = context.resp /\ c \in Contexts
      BY <1>1, <3>2 DEF Contexts
    <3> QED
      BY <1>1, <3>1, <3>2, <3>3 DEF Sound
  <2>2. CASE ~IsRequestLine(text)
    BY <1>3, <2>2 DEF ParseHttpLine
  <2> QED
    BY <2>1, <2>2
<1>5. /\ context.recv = "HEAD" => Sound(ParseHttpHead(text))
      /\ context.recv = "HEAD" => ParseHttpHead(text).recv \in {"HEAD", "BODY", "ERROR"}
      /\ ParseHttpHead(text).request.body = context.request.body
  <2>1. CASE text = <<>>
    <3> DEFINE c == [context EXCEPT !.recv = "BODY"]
    <3>1. ParseHttpHead(text) = c
      BY <2>1 DEF ParseHttpHead
    <3>2. c.recv = "BODY" /\ c.resp = context.resp /\ c.request = context.request /\ c \in Contexts
      BY <1>1 DEF Contexts
    <3> QED
      BY <1>1, <3>1, <3>2 DEF Sound
  <2>2. CASE text # <<>> /\ IsHeader(text)
    <3> DEFINE q == SetHeader(context.request, text)
               c == [context EXCEPT !.request = q]
    <3>1. ParseHttpHead(text) = c
      BY <2>2 DEF ParseHttpHead
    <3>2. /\ q \in Requests /\ q.body = context.request.body
          /\ q.length = <<>> \/ IsLength(q.length)
      <4>1. q \in Requests
        BY <1>1 DEF SetHeader, Requests
      <4>2. q.body = context.request.body
        BY <1>1 DEF SetHeader, Requests
      <4>3. q.length \in {context.request.length, text} /\ (q.length = context.request.length \/ IsLength(text))
        BY <1>1 DEF SetHeader, Requests
      <4> QED
        BY <1>1, <4>1, <4>2, <4>3
    <3> HIDE DEF q
    <3>3. c.recv = context.recv /\ c.resp = context.resp /\ c.request = q /\ c \in Contexts
      BY <1>1, <3>2 DEF Contexts
    <3> QED
      BY <1>1, <3>1, <3>2, <3>3 DEF Sound
  <2>3. CASE text # <<>> /\ ~IsHeader(text)
    BY <1>3, <2>3 DEF ParseHttpHead
  <2> QED
    BY <2>1, <2>2, <2>3
<1> QED
  BY <1>2, <1>3, <1>4, <1>5

\* What a stage that looks at a line does: it makes progress if there is a line.
LEMMA LineStep ==
  ASSUME Types, NEW parsed, Line(parsed)
  PROVE  /\ LineSize \in 0 .. Len(inbuf) /\ Pop(LineSize) /\ Len(inbuf) \in Nat
         /\ FirstLine \in Seq(Pieces)
         /\ inbuf' \in Seq(Pieces) /\ Len(inbuf') = Len(inbuf) - LineSize
         /\ taken' \in Seq(Pieces) /\ Len(taken') = Len(taken) + LineSize
         /\ All' = All
         /\ LineSize = 0 => context' \in {context, Failed(414)}
         /\ context' \in {context, Failed(414), parsed}
<1>1. LineSize \in 0 .. Len(inbuf) /\ Len(inbuf) \in Nat
  BY LineSizeProperties, LenProperties DEF Types
<1>2. Pop(LineSize)
  BY DEF Line
<1>3. FirstLine \in Seq(Pieces)
  <2>1. \A i \in 1 .. LineSize - 1 : inbuf[i] \in Pieces
    BY <1>1, ElementOfSeq DEF Types
  <2>2. LineSize - 1 \in Int
    BY <1>1
  <2> QED
    BY <2>1, <2>2, SubSeqProperties DEF FirstLine
<1>4. /\ inbuf' \in Seq(Pieces) /\ Len(inbuf') = Len(inbuf) - LineSize
      /\ taken' \in Seq(Pieces) /\ Len(taken') = Len(taken) + LineSize
      /\ All' = All
  BY <1>1, <1>2, PopProperties DEF Types
<1>5. /\ LineSize = 0 => context' \in {context, Failed(414)}
      /\ context' \in {context, Failed(414), parsed}
  BY DEF Line
<1> QED
  BY <1>1, <1>2, <1>3, <1>4, <1>5

\* A step that begins and ends no call of Shutdown.
LEMMA NestingSame ==
  ASSUME Types, NestingInv, nesting' = nesting, Stack(calls', Len(nesting)),
         Len(inbuf) \in Nat, Len(inbuf') \in Nat,
         nesting # <<>> =>
            /\ Len(inbuf') <= Len(inbuf)
            /\ Top' = "Shutdown" => Len(inbuf') < nesting[1]
            /\ Top' \in {"RecvHttpLine", "RecvHttpHead", "RecvHttpBody", "Handle"} => nesting[1] > 0
            /\ Len(inbuf') = nesting[1] =>
                  /\ context'.recv # "OVER"
                  /\ context'.recv = "BODY" => Missing' > 0
  PROVE  NestingInv'
<1>1. NestingShrinks'
  BY DEF NestingInv, NestingShrinks
<1>2. nesting # <<>> => Len(inbuf') <= nesting[1]
  <2> HAVE nesting # <<>>
  <2>1. nesting[1] \in Nat
    <3>1. nesting \in Seq(Nat) /\ Len(nesting) \in Nat \ {0}
      BY EmptySeq, LenProperties DEF Types
    <3>2. 1 \in 1 .. Len(nesting)
      BY <3>1
    <3> QED
      BY <3>1, <3>2, ElementOfSeq
  <2> QED
    BY <2>1 DEF NestingInv
<1> QED
  BY <1>1, <1>2 DEF NestingInv

\* What is known of a stack.
LEMMA NestingFacts ==
  ASSUME Types, NestingInv
  PROVE  /\ Len(nesting) \in Nat /\ Stack(calls, Len(nesting)) /\ Len(inbuf) \in Nat
         /\ nesting # <<>> => Len(nesting) > 0 /\ nesting[1] \in Nat /\ Len(inbuf) <= nesting[1]
         /\ nesting = <<>> <=> Len(nesting) = 0
<1>1. nesting \in Seq(Nat) /\ Len(nesting) \in Nat /\ Len(inbuf) \in Nat
  BY LenProperties DEF Types
<1>2. nesting = <<>> <=> Len(nesting) = 0
  BY <1>1, EmptySeq
<1>3. ASSUME nesting # <<>> PROVE nesting[1] \in Nat
  <2>1. 1 \in 1 .. Len(nesting)
    BY <1>1, <1>2, <1>3
  <2> QED
    BY <1>1, <2>1, ElementOfSeq
<1> QED
  BY <1>1, <1>2, <1>3 DEF NestingInv

\* The parser's functions. A line or a part of the body is taken, or the stage is as it was.
LEMMA CoreLine ==
  ASSUME CoreInv, RecvHttpLine
  PROVE  CoreInv'
<1>1. /\ Types /\ StageInv /\ NestingInv /\ Top = "RecvHttpLine" /\ context.recv = "LINE" /\ ~aborted
      /\ Sound(context) /\ context.request.body = <<>>
  BY DEF CoreInv, StageInv, RecvHttpLine, Types
<1>2. /\ calls' = Tail(calls) /\ Line(ParseHttpLine(FirstLine))
      /\ UNCHANGED <<stream, nesting, aborted>>
  BY DEF RecvHttpLine
<1>3. /\ LineSize \in 0 .. Len(inbuf) /\ Len(inbuf) \in Nat /\ FirstLine \in Seq(Pieces)
      /\ inbuf' \in Seq(Pieces) /\ Len(inbuf') = Len(inbuf) - LineSize
      /\ taken' \in Seq(Pieces)
      /\ LineSize = 0 => context' \in {context, Failed(414)}
      /\ context' \in {context, Failed(414), ParseHttpLine(FirstLine)}
  BY <1>1, <1>2, LineStep
<1>4. /\ Sound(Failed(414)) /\ Failed(414).recv = "ERROR" /\ Failed(414).request = context.request
      /\ Sound(ParseHttpLine(FirstLine))
      /\ ParseHttpLine(FirstLine).recv \in {"HEAD", "ERROR"}
      /\ ParseHttpLine(FirstLine).request.body = context.request.body
  BY <1>1, <1>3, NewContexts
<1>5. /\ Sound(context') /\ context'.recv \in {"LINE", "HEAD", "ERROR"}
      /\ context'.request.body = <<>>
  BY <1>1, <1>3, <1>4
<1>6. Len(nesting) \in Nat /\ Stack(calls, Len(nesting))
  BY <1>1, NestingFacts
<1>7. Top' = "RecvHttpHead" /\ Stack(calls', Len(nesting))
  BY <1>1, <1>2, <1>6, Returned
<1>8. Types'
  BY <1>1, <1>2, <1>3, <1>5 DEF Types
<1>9. StageInv'
  BY <1>1, <1>2, <1>5, <1>7 DEF StageInv
<1>10. NestingInv'
  <2>1. nesting # <<>> => nesting[1] > 0
    BY <1>1 DEF NestingInv
  <2>2. Len(inbuf') \in Nat /\ Len(inbuf') <= Len(inbuf)
    BY <1>3
  <2> QED
    BY <1>1, <1>2, <1>3, <1>5, <1>7, <2>1, <2>2, NestingSame
<1> QED
  BY <1>8, <1>9, <1>10 DEF CoreInv

\* A header line is taken, or the loop over them ends.
LEMMA CoreHead ==
  ASSUME CoreInv, RecvHttpHead
  PROVE  CoreInv'
<1>1. /\ Types /\ StageInv /\ NestingInv /\ Top = "RecvHttpHead" /\ ~aborted
      /\ context.recv \in {"LINE", "HEAD", "ERROR"}
      /\ context.recv # "ERROR" => context.request.body = <<>>
      /\ Sound(context) /\ inbuf \in Seq(Pieces) /\ taken \in Seq(Pieces)
  BY DEF CoreInv, StageInv, RecvHttpHead, Types
<1>2. UNCHANGED <<stream, nesting, aborted>>
  BY DEF RecvHttpHead
<1>3. /\ Len(nesting) \in Nat /\ Stack(calls, Len(nesting)) /\ Len(inbuf) \in Nat
      /\ calls # Tail(calls)
  <2>1. /\ Len(nesting) \in Nat /\ Stack(calls, Len(nesting)) /\ Len(inbuf) \in Nat
    BY <1>1, NestingFacts
  <2>2. calls \in Seq(Names) /\ calls # <<>>
    BY <1>1, <2>1 DEF Stack, Top
  <2>3. Len(Tail(calls)) = Len(calls) - 1 /\ Len(calls) \in Nat
    BY <2>2, HeadTailProperties, LenProperties
  <2>4. calls # Tail(calls)
    BY <2>3
  <2> QED
    BY <2>1, <2>4
<1>4. /\ calls' = calls \/ calls' = Tail(calls)
      /\ calls' = calls => context'.recv = "HEAD"
      /\ inbuf' \in Seq(Pieces) /\ Len(inbuf') \in Nat /\ Len(inbuf') <= Len(inbuf)
      /\ taken' \in Seq(Pieces)
      /\ Sound(context') /\ context'.recv \in {"LINE", "HEAD", "BODY", "ERROR"}
      /\ context'.recv # "ERROR" => context'.request.body = <<>>
      /\ context'.recv = "BODY" => calls' = Tail(calls) /\ Len(inbuf') < Len(inbuf)
  <2>1. CASE context.recv = "HEAD"
    <3>1. /\ Line(ParseHttpHead(FirstLine))
          /\ calls' = IF LineSize > 0 /\ context'.recv = "HEAD" THEN calls ELSE Tail(calls)
      BY <2>1 DEF RecvHttpHead
    <3>2. /\ LineSize \in 0 .. Len(inbuf) /\ FirstLine \in Seq(Pieces)
          /\ inbuf' \in Seq(Pieces) /\ Len(inbuf') = Len(inbuf) - LineSize
          /\ taken' \in Seq(Pieces)
          /\ LineSize = 0 => context' \in {context, Failed(414)}
          /\ context' \in {context, Failed(414), ParseHttpHead(FirstLine)}
      BY <1>1, <3>1, LineStep
    <3>3. /\ Sound(Failed(414)) /\ Failed(414).recv = "ERROR" /\ Failed(414).request = context.request
          /\ Sound(ParseHttpHead(FirstLine))
          /\ ParseHttpHead(FirstLine).recv \in {"HEAD", "BODY", "ERROR"}
          /\ ParseHttpHead(FirstLine).request.body = context.request.body
      BY <1>1, <2>1, <3>2, NewContexts
    <3>4. Len(inbuf') \in Nat /\ Len(inbuf') <= Len(inbuf) /\ (LineSize # 0 => Len(inbuf') < Len(inbuf))
      BY <1>3, <3>2
    <3>5. /\ Sound(context') /\ context'.recv \in {"HEAD", "BODY", "ERROR"}
          /\ context'.request.body = <<>>
          /\ context'.recv = "BODY" => LineSize # 0
      BY <1>1, <2>1, <3>2, <3>3
    <3> QED
      BY <1>3, <3>1, <3>2, <3>4, <3>5
  <2>2. CASE context.recv # "HEAD"
    BY <1>1, <1>3, <2>2 DEF RecvHttpHead
  <2> QED
    BY <2>1, <2>2
<1>5. /\ Stack(calls', Len(nesting))
      /\ calls' = calls => Top' = "RecvHttpHead"
      /\ calls' = Tail(calls) => Top' = "RecvHttpBody"
  <2>1. CASE calls' = calls
    <3>1. Top' = "RecvHttpHead"
      BY <1>1, <2>1 DEF Top
    <3> QED
      BY <1>3, <2>1, <3>1
  <2>2. CASE calls' = Tail(calls) /\ calls' # calls
    BY <1>1, <1>3, <2>2, Returned
  <2> QED
    BY <1>4, <2>1, <2>2
<1>6. Types'
  BY <1>1, <1>2, <1>4 DEF Types
<1>7. StageInv'
  BY <1>1, <1>2, <1>4, <1>5 DEF StageInv
<1>8. NestingInv'
  <2>1. nesting # <<>> => nesting[1] \in Nat /\ nesting[1] > 0 /\ Len(inbuf) <= nesting[1]
    BY <1>1, NestingFacts DEF NestingInv
  <2>2. Top' \in {"RecvHttpHead", "RecvHttpBody"}
    BY <1>4, <1>5
  <2>3. nesting # <<>> /\ Len(inbuf') = nesting[1] => context'.recv \notin {"OVER", "BODY"}
    BY <1>3, <1>4, <2>1
  <2> QED
    BY <1>1, <1>2, <1>3, <1>4, <1>5, <2>1, <2>2, <2>3, NestingSame
<1> QED
  BY <1>6, <1>7, <1>8 DEF CoreInv

\* Body bytes are taken up to the length of the body, or all there are.
LEMMA BodyStep ==
  ASSUME Types, StageInv, RecvHttpBody, context.recv = "BODY", ~aborted'
  PROVE  \E n \in 0 .. Len(inbuf) :
            /\ n <= Missing /\ (n = Missing \/ n = Len(inbuf))
            /\ Pop(n) /\ All' = All
            /\ inbuf' \in Seq(Pieces) /\ Len(inbuf') = Len(inbuf) - n
            /\ taken' \in Seq(Pieces) /\ Len(taken') = Len(taken) + n
            /\ context' \in Contexts
            /\ context'.recv = IF n = Missing THEN "OVER" ELSE "BODY"
            /\ context'.resp = context.resp
            /\ context'.request.body = context.request.body \o SubSeq(inbuf, 1, n)
            /\ context'.request.target = context.request.target
            /\ context'.request.connection = context.request.connection
            /\ context'.request.length = context.request.length
            /\ Len(context'.request.body) = Len(context.request.body) + n
            /\ Missing' = Missing - n
<1>1. /\ Sound(context) /\ inbuf \in Seq(Pieces) /\ taken \in Seq(Pieces)
      /\ context \in Contexts /\ context.request \in Requests
      /\ context.request.body \in Seq(Pieces)
  BY DEF Types, Sound, Contexts, Requests
<1>2. /\ ContentLength \in Int /\ Missing \in Int /\ Len(context.request.body) \in Nat
      /\ Len(inbuf) \in Nat
  BY <1>1, ContentLengthType, LenProperties
<1> DEFINE n == IF Missing < Len(inbuf) THEN Missing ELSE Len(inbuf)
           part == SubSeq(inbuf, 1, n)
<1>3. Missing >= 0
  <2>1. ~(ContentLength < 0)
    BY DEF RecvHttpBody
  <2>2. ContentLength >= 0
    BY <1>2, <2>1
  <2>3. context.request.body = <<>> => Len(context.request.body) = 0
    OBVIOUS
  <2>4. context.request.body = <<>> \/ Missing > 0
    BY DEF StageInv
  <2> QED
    BY <1>2, <2>2, <2>3, <2>4 DEF Missing
<1>4. n \in 0 .. Len(inbuf) /\ n <= Missing /\ (n = Missing \/ n = Len(inbuf))
  BY <1>2, <1>3
<1>5. /\ Pop(n)
      /\ context' = [context EXCEPT !.request.body = @ \o part,
                                    !.recv = IF n = Missing THEN "OVER" ELSE "BODY"]
  BY DEF RecvHttpBody, Missing
<1> HIDE DEF n
<1>6. /\ inbuf' \in Seq(Pieces) /\ Len(inbuf') = Len(inbuf) - n
      /\ taken' \in Seq(Pieces) /\ Len(taken') = Len(taken) + n
      /\ All' = All
      /\ part \in Seq(Pieces) /\ Len(part) = n
  BY <1>1, <1>4, <1>5, PopProperties
<1> HIDE DEF part
<1> DEFINE q == [context.request EXCEPT !.body = @ \o part]
<1>7. /\ q \in Requests /\ q.body = context.request.body \o part
      /\ q.length = context.request.length /\ q.target = context.request.target
      /\ q.connection = context.request.connection
  <2>1. context.request.body \o part \in Seq(Pieces)
    BY <1>1, <1>6, ConcatProperties
  <2> QED
    BY <1>1, <2>1 DEF Requests
<1>8. context' = [context EXCEPT !.request = q, !.recv = IF n = Missing THEN "OVER" ELSE "BODY"]
  BY <1>1, <1>5 DEF Contexts, Requests
<1> HIDE DEF q
<1> DEFINE stage == IF n = Missing THEN "OVER" ELSE "BODY"
<1>9. /\ context'.request = q /\ context'.recv = stage
      /\ context'.resp = context.resp /\ context' \in Contexts
  <2>1. stage \in {"OVER", "BODY"}
    OBVIOUS
  <2> HIDE DEF stage
  <2>2. context'.request = q /\ context'.recv = stage /\ context'.resp = context.resp
    BY <1>1, <1>8 DEF Contexts, stage
  <2>3. context' = [recv |-> stage, resp |-> context.resp, request |-> q]
    BY <1>1, <1>8 DEF Contexts, stage
  <2>4. context' \in Contexts
    BY <1>1, <1>7, <2>1, <2>3 DEF Contexts
  <2> QED
    BY <2>2, <2>4
<1>10. Len(context'.request.body) = Len(context.request.body) + n
  <2>1. context'.request.body = context.request.body \o part
    BY <1>7, <1>9
  <2>0. context.request.body \in Seq(Pieces) /\ part \in Seq(Pieces)
    BY <1>1, <1>6
  <2>2. Len(context.request.body \o part) = Len(context.request.body) + Len(part)
    BY <2>0, ConcatProperties
  <2> QED
    BY <1>6, <2>1, <2>2
<1>11. Missing' = Missing - n
  <2>1. ContentLength' = ContentLength
    BY <1>7, <1>9 DEF ContentLength
  <2> QED
    BY <1>2, <1>4, <1>10, <2>1 DEF Missing
<1>12. context'.request.body = context.request.body \o SubSeq(inbuf, 1, n)
  BY <1>7, <1>9 DEF part
<1> QED
  BY <1>4, <1>5, <1>6, <1>7, <1>9, <1>10, <1>11, <1>12

\* The body never gets longer than it is to be.
LEMMA CoreBody ==
  ASSUME CoreInv, RecvHttpBody
  PROVE  CoreInv'
<1>1. /\ Types /\ StageInv /\ NestingInv /\ Top = "RecvHttpBody" /\ ~aborted
      /\ context.recv \in {"LINE", "HEAD", "BODY", "ERROR"}
      /\ context.recv \in {"LINE", "HEAD"} => context.request.body = <<>>
      /\ Sound(context)
  <2>1. Types /\ StageInv /\ NestingInv /\ Top = "RecvHttpBody"
    BY DEF CoreInv, RecvHttpBody
  <2>2. Sound(context)
    BY <2>1 DEF Types
  <2>3. context.recv \in {"LINE", "HEAD", "BODY", "ERROR"} /\ ~aborted
    BY <2>1, <2>2 DEF StageInv, Sound, Contexts
  <2> QED
    BY <2>1, <2>2, <2>3 DEF StageInv
<1>2. /\ UNCHANGED <<stream, nesting>> /\ calls' = Tail(calls)
      /\ aborted' = (context.recv = "BODY" /\ ContentLength < 0)
  BY DEF RecvHttpBody
<1>3. Len(nesting) \in Nat /\ Stack(calls, Len(nesting)) /\ Len(inbuf) \in Nat
  BY <1>1, NestingFacts
<1>4. Top' = "Handle" /\ Stack(calls', Len(nesting))
  BY <1>1, <1>2, <1>3, Returned
<1>5. Missing \in Int
  BY <1>1, ContentLengthType
<1>6. nesting # <<>> => /\ nesting[1] \in Nat /\ nesting[1] > 0 /\ Len(inbuf) <= nesting[1]
                        /\ Len(inbuf) = nesting[1] /\ context.recv = "BODY" => Missing > 0
  BY <1>1, NestingFacts DEF NestingInv
<1>7. CASE context.recv = "BODY" /\ ~aborted'
  <2>1. PICK n \in 0 .. Len(inbuf) :
            /\ n <= Missing
            /\ inbuf' \in Seq(Pieces) /\ Len(inbuf') = Len(inbuf) - n
            /\ taken' \in Seq(Pieces)
            /\ context' \in Contexts
            /\ context'.recv = IF n = Missing THEN "OVER" ELSE "BODY"
            /\ context'.resp = context.resp
            /\ context'.request.length = context.request.length
            /\ Missing' = Missing - n
    BY <1>1, <1>7, BodyStep
  <2>2. context'.recv = "BODY" => Missing' > 0
    BY <1>5, <2>1
  <2>3. Types'
    BY <1>1, <1>2, <1>7, <2>1 DEF Types, Sound
  <2>4. StageInv'
    BY <1>2, <1>4, <1>7, <2>1, <2>2 DEF StageInv
  <2>5. NestingInv'
    <3>1. Len(inbuf') \in Nat /\ Len(inbuf') <= Len(inbuf)
      BY <1>3, <2>1
    <3>2. ASSUME nesting # <<>>, Len(inbuf') = nesting[1] PROVE context'.recv # "OVER"
      <4>1. Len(inbuf) = nesting[1] /\ n = 0
        BY <1>3, <1>6, <2>1, <3>2
      <4> QED
        BY <1>6, <1>7, <2>1, <3>2, <4>1
    <3> QED
      BY <1>1, <1>2, <1>3, <1>4, <1>6, <2>2, <3>1, <3>2, NestingSame
  <2> QED
    BY <2>3, <2>4, <2>5 DEF CoreInv
<1>8. CASE ~(context.recv = "BODY" /\ ~aborted')
  <2>1. UNCHANGED <<inbuf, taken, context>>
    BY <1>8 DEF RecvHttpBody
  <2>2. Types'
    BY <1>1, <1>2, <2>1 DEF Types
  <2>3. Missing' = Missing
    BY <2>1 DEF Missing, ContentLength
  <2>4. StageInv'
    BY <1>1, <1>2, <1>4, <1>8, <2>1, <2>3 DEF StageInv
  <2>5. NestingInv'
    BY <1>1, <1>2, <1>3, <1>4, <1>6, <2>1, <2>3, NestingSame
  <2> QED
    BY <2>2, <2>4, <2>5 DEF CoreInv
<1> QED
  BY <1>7, <1>8

\* OnMessage has no stage to call without input, so a stage that runs inside a Shutdown
\* runs inside one that found input.
LEMMA CoreOnMessage ==
  ASSUME CoreInv, OnMessage
  PROVE  CoreInv'
<1>1. /\ Types /\ StageInv /\ NestingInv /\ Top = "OnMessage"
      /\ context.recv \in {"LINE", "HEAD", "BODY"} /\ ~aborted
  BY DEF CoreInv, StageInv, OnMessage
<1>2. UNCHANGED <<stream, inbuf, context, taken, nesting, aborted>>
  BY DEF OnMessage
<1>3. Len(nesting) \in Nat /\ Stack(calls, Len(nesting)) /\ Len(inbuf) \in Nat
  BY <1>1, NestingFacts
<1>4. /\ Stack(calls', Len(nesting))
      /\ inbuf = <<>> => Top' \in {"none", "Flush"}
      /\ inbuf # <<>> => Top' = CASE context.recv = "LINE" -> "RecvHttpLine"
                                  [] context.recv = "HEAD" -> "RecvHttpHead"
                                  [] context.recv = "BODY" -> "RecvHttpBody"
  BY <1>1, <1>3, OnMessageCalls
<1>5. Missing' = Missing
  BY <1>2 DEF Missing, ContentLength
<1>6. Types'
  BY <1>1, <1>2 DEF Types
<1>7. StageInv'
  BY <1>1, <1>2, <1>4, <1>5 DEF StageInv
<1>8. NestingInv'
  <2>1. nesting # <<>> => nesting[1] \in Nat /\ Len(inbuf) <= nesting[1]
    BY <1>1, NestingFacts
  <2>2. inbuf # <<>> => Len(inbuf) > 0
    BY <1>1, <1>3, EmptySeq DEF Types
  <2>3. nesting # <<>> =>
           /\ Len(inbuf') <= Len(inbuf)
           /\ Top' = "Shutdown" => Len(inbuf') < nesting[1]
           /\ Top' \in {"RecvHttpLine", "RecvHttpHead", "RecvHttpBody", "Handle"} => nesting[1] > 0
           /\ Len(inbuf') = nesting[1] =>
                 /\ context'.recv # "OVER"
                 /\ context'.recv = "BODY" => Missing' > 0
    BY <1>1, <1>2, <1>3, <1>4, <1>5, <2>1, <2>2 DEF NestingInv
  <2> QED
    BY <1>1, <1>2, <1>3, <1>4, <2>3, NestingSame
<1> QED
  BY <1>6, <1>7, <1>8 DEF CoreInv

\* OnMessage returns with the request it has begun.
LEMMA CoreIncomplete ==
  ASSUME CoreInv, HandleIncomplete
  PROVE  CoreInv'
<1>1. /\ Types /\ StageInv /\ NestingInv /\ Top = "Handle" /\ ~aborted
      /\ context.resp < 400 /\ context.recv # "OVER"
  BY DEF CoreInv, HandleIncomplete
<1>2. UNCHANGED <<stream, inbuf, context, taken, nesting, aborted>> /\ calls' = Tail(calls)
  BY DEF HandleIncomplete
<1>3. Len(nesting) \in Nat /\ Stack(calls, Len(nesting)) /\ Len(inbuf) \in Nat
  BY <1>1, NestingFacts
<1>4. Top' \in {"none", "Flush"} /\ Stack(calls', Len(nesting))
  BY <1>1, <1>2, <1>3, Returned
<1>5. Missing' = Missing
  BY <1>2 DEF Missing, ContentLength
<1>6. context.recv \in {"LINE", "HEAD", "BODY"}
  BY <1>1 DEF Types, Sound, Contexts
<1>7. Types'
  BY <1>1, <1>2 DEF Types
<1>8. StageInv'
  BY <1>1, <1>2, <1>4, <1>5, <1>6 DEF StageInv
<1>9. NestingInv'
  <2>1. nesting # <<>> =>
           /\ Len(inbuf') <= Len(inbuf)
           /\ Top' = "Shutdown" => Len(inbuf') < nesting[1]
           /\ Top' \in {"RecvHttpLine", "RecvHttpHead", "RecvHttpBody", "Handle"} => nesting[1] > 0
           /\ Len(inbuf') = nesting[1] =>
                 /\ context'.recv # "OVER"
                 /\ context'.recv = "BODY" => Missing' > 0
    BY <1>1, <1>2, <1>3, <1>4, <1>5 DEF NestingInv
  <2> QED
    BY <1>1, <1>2, <1>3, <1>4, <2>1, NestingSame
<1> QED
  BY <1>7, <1>8, <1>9 DEF CoreInv

\* A request is answered after bytes of it have been taken.
LEMMA CoreHandle ==
  ASSUME CoreInv, HandleError \/ HandleRequest
  PROVE  CoreInv'
<1>1. /\ Types /\ StageInv /\ NestingInv /\ Top = "Handle" /\ ~aborted
  BY DEF CoreInv, HandleError, HandleRequest
<1>2. /\ UNCHANGED <<stream, nesting, aborted>>
      /\ context' = NewContext /\ taken' = <<>>
      /\ inbuf' = <<>> \/ (inbuf' = inbuf /\ context.recv = "OVER")
  BY DEF HandleError, HandleRequest
<1>3. Len(nesting) \in Nat /\ Stack(calls, Len(nesting)) /\ Len(inbuf) \in Nat
  BY <1>1, NestingFacts
<1>4. Top' \in {"Shutdown", "OnMessage"} /\ Stack(calls', Len(nesting))
  BY <1>3, HandleCalls
<1>5. Sound(NewContext) /\ NewContext.recv = "LINE" /\ NewContext.request.body = <<>>
  <2>1. Sound(context) /\ <<>> \in Seq(Pieces)
    BY <1>1 DEF Types
  <2> QED
    BY <2>1, NewContexts
<1>6. Types'
  <2>1. inbuf' \in Seq(Pieces) /\ taken' \in Seq(Pieces) /\ stream' \in Seq(Pieces)
    BY <1>1, <1>2, EmptySeq DEF Types
  <2>2. Sound(context')
    BY <1>2, <1>5
  <2>3. nesting' \in Seq(Nat) /\ aborted' \in BOOLEAN
    BY <1>1, <1>2 DEF Types
  <2> QED
    BY <2>1, <2>2, <2>3 DEF Types
<1>7. StageInv'
  BY <1>1, <1>2, <1>4, <1>5 DEF StageInv
<1>8. NestingInv'
  <2>1. nesting # <<>> => nesting[1] \in Nat /\ nesting[1] > 0 /\ Len(inbuf) <= nesting[1]
                          /\ (context.recv = "OVER" => Len(inbuf) # nesting[1])
    BY <1>1, NestingFacts DEF NestingInv
  <2>2. /\ Len(inbuf') \in Nat /\ Len(inbuf') <= Len(inbuf)
        /\ Len(inbuf') = 0 \/ (Len(inbuf') = Len(inbuf) /\ context.recv = "OVER")
    BY <1>2, <1>3
  <2>3. nesting # <<>> =>
           /\ Len(inbuf') <= Len(inbuf)
           /\ Top' = "Shutdown" => Len(inbuf') < nesting[1]
           /\ Top' \in {"RecvHttpLine", "RecvHttpHead", "RecvHttpBody", "Handle"} => nesting[1] > 0
           /\ Len(inbuf') = nesting[1] =>
                 /\ context'.recv # "OVER"
                 /\ context'.recv = "BODY" => Missing' > 0
    BY <1>2, <1>3, <1>5, <2>1, <2>2
  <2> QED
    BY <1>1, <1>2, <1>3, <1>4, <2>2, <2>3, NestingSame
<1> QED
  BY <1>6, <1>7, <1>8 DEF CoreInv

\* An inner Shutdown has less input than the one it is in.
LEMMA CoreShutdown ==
  ASSUME CoreInv, Shutdown
  PROVE  CoreInv'
<1>1. /\ Types /\ StageInv /\ NestingInv /\ Top = "Shutdown" /\ ~aborted
      /\ context.recv \in {"LINE", "HEAD", "BODY"}
  BY DEF CoreInv, Shutdown, StageInv
<1>2. /\ UNCHANGED <<stream, inbuf, context, taken, aborted>>
      /\ nesting' = <<Len(inbuf)>> \o nesting
  BY DEF Shutdown
<1>3. /\ Len(nesting) \in Nat /\ Stack(calls, Len(nesting)) /\ Len(inbuf) \in Nat
      /\ nesting \in Seq(Nat) /\ (nesting = <<>> <=> Len(nesting) = 0)
      /\ nesting # <<>> => nesting[1] \in Nat
  BY <1>1, NestingFacts DEF Types
<1>4. Top' \in {"OnMessage", "Flush"} /\ Stack(calls', Len(nesting) + 1)
  BY <1>3, ShutdownCalls
<1>5. /\ nesting' \in Seq(Nat) /\ Len(nesting') = Len(nesting) + 1 /\ nesting'[1] = Len(inbuf)
      /\ \A i \in 1 .. Len(nesting) : nesting'[i + 1] = nesting[i]
  BY <1>2, <1>3, PushIndex
<1>6. Missing' = Missing
  BY <1>2 DEF Missing, ContentLength
<1>7. Types'
  BY <1>1, <1>2, <1>5 DEF Types
<1>8. StageInv'
  BY <1>1, <1>2, <1>4, <1>6 DEF StageInv
<1>9. NestingShrinks'
  <2> SUFFICES ASSUME NEW i \in 1 .. Len(nesting'), NEW j \in 1 .. Len(nesting'), i < j
               PROVE  nesting'[i] < nesting'[j]
    BY <1>5 DEF NestingShrinks
  <2>0. \A k \in 1 .. Len(nesting) : nesting[k] \in Nat
    BY <1>3, ElementOfSeq
  <2>1. \A k, l \in 1 .. Len(nesting) : k < l => nesting[k] < nesting[l]
    BY <1>1, <1>3 DEF NestingInv, NestingShrinks
  <2>2. nesting # <<>> => Len(inbuf) < nesting[1]
    BY <1>1 DEF NestingInv
  <2>3. j - 1 \in 1 .. Len(nesting) /\ nesting'[j] = nesting[j - 1] /\ nesting # <<>> /\ 1 \in 1 .. Len(nesting)
    <3>1. j - 1 \in 1 .. Len(nesting) /\ (j - 1) + 1 = j
      BY <1>3, <1>5
    <3>2. 1 \in 1 .. Len(nesting) /\ Len(nesting) # 0
      BY <1>3, <3>1
    <3> QED
      BY <1>3, <1>5, <3>1, <3>2
  <2>4. CASE i = 1
    <3>1. Len(inbuf) < nesting[1] /\ nesting[1] <= nesting[j - 1]
      <4>1. j - 1 = 1 \/ 1 < j - 1
        BY <2>3
      <4> QED
        BY <2>0, <2>1, <2>2, <2>3, <4>1
    <3> QED
      BY <1>3, <1>5, <2>0, <2>3, <2>4, <3>1
  <2>5. CASE i # 1
    <3>1. i - 1 \in 1 .. Len(nesting) /\ (i - 1) + 1 = i /\ i - 1 < j - 1
      BY <1>3, <1>5, <2>5
    <3>2. nesting'[i] = nesting[i - 1]
      BY <1>5, <3>1
    <3> QED
      BY <2>1, <2>3, <3>1, <3>2
  <2> QED
    BY <2>4, <2>5
<1>10. NestingInv'
  <2>1. Stack(calls', Len(nesting'))
    BY <1>4, <1>5
  <2>2. /\ Len(inbuf') <= nesting'[1]
        /\ Top' = "Shutdown" => Len(inbuf') < nesting'[1]
        /\ Top' \in {"RecvHttpLine", "RecvHttpHead", "RecvHttpBody", "Handle"} => nesting'[1] > 0
        /\ context'.recv # "OVER"
        /\ context'.recv = "BODY" => Missing' > 0
    BY <1>1, <1>2, <1>3, <1>4, <1>5, <1>6 DEF StageInv
  <2> QED
    BY <1>9, <2>1, <2>2 DEF NestingInv
<1> QED
  BY <1>7, <1>8, <1>10 DEF CoreInv

\* When Shutdown returns, the outer one has more input than is left.
LEMMA CoreFlush ==
  ASSUME CoreInv, Flush
  PROVE  CoreInv'
<1>1. /\ Types /\ StageInv /\ NestingInv /\ Top = "Flush" /\ ~aborted
      /\ context.recv \in {"LINE", "HEAD", "BODY"}
  BY DEF CoreInv, Flush, StageInv
<1>2. /\ UNCHANGED <<stream, inbuf, context, taken, aborted>>
      /\ nesting' = Tail(nesting) /\ calls' = Tail(calls)
  BY DEF Flush
<1>3. /\ Len(nesting) \in Nat /\ Stack(calls, Len(nesting)) /\ Len(inbuf) \in Nat
      /\ nesting \in Seq(Nat) /\ (nesting = <<>> <=> Len(nesting) = 0)
      /\ nesting # <<>> => nesting[1] \in Nat /\ Len(inbuf) <= nesting[1]
  BY <1>1, NestingFacts DEF Types
<1>4. /\ Len(nesting) > 0 /\ Top' \in {"none", "OnMessage", "Flush"}
      /\ Stack(calls', Len(nesting) - 1)
  BY <1>1, <1>2, <1>3, Returned
<1>5. /\ nesting' \in Seq(Nat) /\ Len(nesting') = Len(nesting) - 1
      /\ \A i \in 1 .. Len(nesting') : nesting'[i] = nesting[i + 1]
  BY <1>2, <1>3, <1>4, HeadTailProperties
<1>6. Missing' = Missing
  BY <1>2 DEF Missing, ContentLength
<1>7. Types'
  BY <1>1, <1>2, <1>5 DEF Types
<1>8. StageInv'
  BY <1>1, <1>2, <1>4, <1>6 DEF StageInv
<1>9. \A k, l \in 1 .. Len(nesting) : k < l => nesting[k] < nesting[l]
  BY <1>1, <1>3 DEF NestingInv, NestingShrinks
<1>10. NestingShrinks'
  <2> SUFFICES ASSUME NEW i \in 1 .. Len(nesting'), NEW j \in 1 .. Len(nesting'), i < j
               PROVE  nesting'[i] < nesting'[j]
    BY <1>5 DEF NestingShrinks
  <2>1. i + 1 \in 1 .. Len(nesting) /\ j + 1 \in 1 .. Len(nesting) /\ i + 1 < j + 1
    BY <1>3, <1>5
  <2>2. nesting[i + 1] < nesting[j + 1]
    BY <1>9, <2>1
  <2> QED
    BY <1>5, <2>2
<1>11. ASSUME nesting' # <<>> PROVE Len(inbuf') < nesting'[1]
  <2>1. Len(nesting') # 0
    BY <1>5, <1>11, EmptySeq
  <2>2. 1 \in 1 .. Len(nesting') /\ 1 \in 1 .. Len(nesting) /\ 1 + 1 \in 1 .. Len(nesting)
    BY <1>3, <1>4, <1>5, <2>1
  <2>3. nesting'[1] = nesting[1 + 1] /\ nesting[1] < nesting[1 + 1]
    BY <1>5, <1>9, <2>2
  <2>4. nesting[1 + 1] \in Nat /\ nesting # <<>>
    BY <1>3, <1>4, <2>2, ElementOfSeq
  <2>5. nesting[1] \in Nat /\ Len(inbuf) <= nesting[1] /\ Len(inbuf') = Len(inbuf)
    BY <1>2, <1>3, <2>4
  <2>6. Len(inbuf) < nesting[1 + 1]
    BY <1>3, <2>3, <2>4, <2>5
  <2> QED
    BY <2>3, <2>5, <2>6
<1>12. NestingInv'
  <2>1. nesting' # <<>> => nesting'[1] \in Nat /\ Len(inbuf') \in Nat
    BY <1>2, <1>3, <1>5, EmptySeq, ElementOfSeq
  <2>2. Stack(calls', Len(nesting'))
    BY <1>4, <1>5
  <2> QED
    BY <1>4, <1>10, <1>11, <2>1, <2>2 DEF NestingInv
<1> QED
  BY <1>7, <1>8, <1>12 DEF CoreInv

\* A handler of the connection begins where no call is under way, and none has been nested.
LEMMA CoreConnection ==
  ASSUME CoreInv, HandleRead \/ HandleReadEnd \/ HandleClose
  PROVE  CoreInv'
<1>1. /\ Types /\ StageInv /\ NestingInv /\ calls = <<>> /\ Top = "none" /\ ~aborted
      /\ context.recv \in {"LINE", "HEAD", "BODY"}
  <2>1. Types /\ StageInv /\ NestingInv /\ calls = <<>> /\ ~aborted
    BY DEF CoreInv, HandleRead, HandleReadEnd, HandleClose, Idle
  <2>2. Top = "none"
    BY <2>1 DEF Top
  <2> QED
    BY <2>1, <2>2 DEF StageInv
<1>2. /\ UNCHANGED <<context, taken, nesting, aborted>>
      /\ calls' \in {<<"OnMessage">>, <<"Shutdown">>, <<>>}
  BY DEF HandleRead, HandleReadEnd, HandleClose
<1>3. Len(nesting) \in Nat /\ Stack(calls, Len(nesting)) /\ (nesting = <<>> <=> Len(nesting) = 0)
  BY <1>1, NestingFacts
<1>4. /\ nesting = <<>> /\ Stack(calls', Len(nesting))
      /\ Top' \in {"OnMessage", "Shutdown", "none"}
  <2>1. /\ Len(nesting) = 0 /\ Stack(calls', Len(nesting))
        /\ Top' = IF calls' = <<>> THEN "none" ELSE calls'[1]
    BY <1>1, <1>2, <1>3, FirstCall
  <2> QED
    BY <1>2, <1>3, <2>1
<1>5. inbuf' \in Seq(Pieces) /\ stream' \in Seq(Pieces)
  <2>1. CASE HandleRead
    <3>1. PICK n \in 1 .. Len(stream) :
             /\ inbuf' = inbuf \o SubSeq(stream, 1, n)
             /\ stream' = SubSeq(stream, n + 1, Len(stream))
      BY <2>1 DEF HandleRead
    <3>2. n \in 0 .. Len(stream) /\ stream \in Seq(Pieces) /\ inbuf \in Seq(Pieces)
      BY <1>1, LenProperties DEF Types
    <3>3. SubSeq(stream, 1, n) \in Seq(Pieces) /\ stream' \in Seq(Pieces)
      BY <3>1, <3>2, SubSeqPieces
    <3> QED
      BY <3>1, <3>2, <3>3, ConcatProperties
  <2>2. CASE HandleReadEnd \/ HandleClose
    BY <1>1, <2>2, EmptySeq DEF HandleReadEnd, HandleClose, Types
  <2> QED
    BY <2>1, <2>2
<1>6. Missing' = Missing
  BY <1>2 DEF Missing, ContentLength
<1>7. Types'
  BY <1>1, <1>2, <1>5 DEF Types
<1>8. StageInv'
  BY <1>1, <1>2, <1>4, <1>6 DEF StageInv
<1>9. NestingInv'
  BY <1>1, <1>2, <1>4 DEF NestingInv, NestingShrinks
<1> QED
  BY <1>7, <1>8, <1>9 DEF CoreInv

\* What the parser and the stack are made of stays.
LEMMA CoreSame ==
  ASSUME CoreInv, UNCHANGED <<stream, inbuf, context, taken, calls, nesting, aborted>>
  PROVE  CoreInv'
<1>1. Missing' = Missing /\ Top' = Top
  BY DEF Missing, ContentLength, Top
<1> QED
  BY <1>1 DEF CoreInv, Types, StageInv, NestingInv, NestingShrinks

\* The invariant at the start.
LEMMA CoreInit == Init => CoreInv
<1> HAVE Init
<1>1. /\ stream \in Streams /\ inbuf = <<>> /\ context = NewContext /\ taken = <<>> /\ calls = <<>>
      /\ nesting = <<>> /\ aborted = FALSE
  BY DEF Init
<1>2. Sound(NewContext) /\ NewContext.recv = "LINE" /\ NewContext.request.body = <<>>
  BY DEF Sound, NewContext, NewRequest, Contexts, Requests
<1>3. Types
  <2>1. <<>> \in Seq(Pieces) /\ <<>> \in Seq(Nat) /\ FALSE \in BOOLEAN
    BY EmptySeq
  <2>2. stream \in Seq(Pieces) /\ Sound(context)
    BY <1>1, <1>2, HttpAssumption
  <2> QED
    BY <1>1, <2>1, <2>2 DEF Types
<1>4. StageInv
  BY <1>1, <1>2 DEF StageInv, Top
<1>5. Stack(<<>>, 0)
  <2>1. Flushes(<<>>) = {}
    BY DEF Flushes
  <2> QED
    BY <2>1, FS_EmptySet DEF Stack
<1>6. NestingInv
  BY <1>1, <1>5 DEF NestingInv, NestingShrinks
<1> QED
  BY <1>3, <1>4, <1>6 DEF CoreInv

\* Every step keeps the types, the stages and the order of the calls.
LEMMA CoreStep == CoreInv /\ [Next]_vars => CoreInv'
<1> SUFFICES ASSUME CoreInv, [Next]_vars PROVE CoreInv'
  OBVIOUS
<1>1. CASE OnMessage
  BY <1>1, CoreOnMessage
<1>2. CASE RecvHttpLine
  BY <1>2, CoreLine
<1>3. CASE RecvHttpHead
  BY <1>3, CoreHead
<1>4. CASE RecvHttpBody
  BY <1>4, CoreBody
<1>5. CASE HandleIncomplete
  BY <1>5, CoreIncomplete
<1>6. CASE HandleError \/ HandleRequest
  BY <1>6, CoreHandle
<1>7. CASE Shutdown
  BY <1>7, CoreShutdown
<1>8. CASE Flush
  BY <1>8, CoreFlush
<1>9. CASE HandleRead \/ HandleReadEnd \/ HandleClose
  BY <1>9, CoreConnection
<1>10. CASE HandleWrite \/ ReleaseInLoop \/ UNCHANGED vars
  <2>1. UNCHANGED <<stream, inbuf, context, taken, calls, nesting, aborted>>
    BY <1>10 DEF HandleWrite, ReleaseInLoop, vars
  <2> QED
    BY <2>1, CoreSame
<1> QED
  BY <1>1, <1>2, <1>3, <1>4, <1>5, <1>6, <1>7, <1>8, <1>9, <1>10 DEF Next, Handling

\* The types, the stages of the parser and the stack of calls fit together in every state
\* the loop of OnMessage can reach.
THEOREM CoreHolds == Spec => []CoreInv
  BY CoreInit, CoreStep, PTL DEF Spec

\* OnMessage and Shutdown (918, 928) call each other with less input every time, whatever
\* the client sends: the depth of the stack is bounded by what is in the buffer.
THEOREM NestingAlwaysShrinks == Spec => []NestingShrinks
<1>1. CoreInv => NestingShrinks
  BY DEF CoreInv, NestingInv
<1> QED
  BY <1>1, CoreHolds, PTL

-----------------------------------------------------------------------------
(***************************************************************************)
(* Lines, as a parser of the whole sees them.                              *)
(***************************************************************************)

\* Where lines start.
LEMMA Starts ==
  ASSUME NEW s \in Seq(Pieces)
  PROVE  /\ Len(s) \in Nat
         /\ 1 \in Session!LineStarts(s)
         /\ Session!LineStarts(s) \subseteq 1 .. Len(s) + 1
         /\ \A i \in 2 .. Len(s) + 1 : i \in Session!LineStarts(s) <=> s[i - 1] = NewLine
<1>1. Len(s) \in Nat /\ DOMAIN s = 1 .. Len(s)
  BY LenProperties
<1>2. Session!LineStarts(s) = {1} \cup {i + 1 : i \in {j \in 1 .. Len(s) : s[j] = NewLine}}
  BY <1>1 DEF Session!LineStarts, Session!NewLine, NewLine
<1>3. ASSUME NEW i \in 2 .. Len(s) + 1
      PROVE  i \in Session!LineStarts(s) <=> s[i - 1] = NewLine
  <2>1. i - 1 \in 1 .. Len(s) /\ i = (i - 1) + 1 /\ i # 1
    BY <1>1
  <2>2. \A j \in 1 .. Len(s) : j + 1 = i => j = i - 1
    BY <1>1
  <2> QED
    BY <1>2, <2>1, <2>2
<1>4. Session!LineStarts(s) \subseteq 1 .. Len(s) + 1
  BY <1>1, <1>2
<1> QED
  BY <1>1, <1>2, <1>3, <1>4

\* The line from i to its newline at e.
LEMMA LineAt ==
  ASSUME NEW s \in Seq(Pieces), NEW i \in 1 .. Len(s), NEW e \in i .. Len(s),
         s[e] = NewLine, \A k \in i .. e - 1 : s[k] # NewLine
  PROVE  /\ Session!LineEnds(s, i) # {}
         /\ Session!TextAt(s, i) = SubSeq(s, i, e - 1)
         /\ SubSeq(s, i, e - 1) \in Seq(Pieces) /\ Len(SubSeq(s, i, e - 1)) = e - i
         /\ e + 1 \in Session!LineStarts(s)
         /\ \A j \in Session!LineStarts(s) : j <= i \/ j >= e + 1
<1> DEFINE E == {j \in i .. Len(s) : s[j] = NewLine}
<1>1. Len(s) \in Nat /\ i \in Nat /\ e \in Nat
  BY LenProperties
<1>2. Session!LineEnds(s, i) = E
  BY DEF Session!LineEnds, Session!NewLine, NewLine
<1>3. E \in SUBSET Nat /\ e \in E
  BY <1>1
<1>4. ASSUME NEW y \in E PROVE e <= y
  <2>1. y \in i .. Len(s) /\ s[y] = NewLine
    OBVIOUS
  <2>2. y < e => y \in i .. e - 1
    BY <1>1, <2>1
  <2> QED
    BY <1>1, <2>1, <2>2
<1> HIDE DEF E
<1>5. Session!Min(E) = e
  <2>1. Min(E) = e
    BY <1>3, <1>4, MinIs
  <2> QED
    BY <2>1 DEF Session!Min, Min
<1>6. Session!TextAt(s, i) = SubSeq(s, i, e - 1)
  BY <1>2, <1>5 DEF Session!TextAt
<1>7. SubSeq(s, i, e - 1) \in Seq(Pieces) /\ Len(SubSeq(s, i, e - 1)) = e - i
  <2>1. \A k \in i .. e - 1 : s[k] \in Pieces
    BY <1>1, ElementOfSeq
  <2>2. /\ SubSeq(s, i, e - 1) \in Seq(Pieces)
        /\ Len(SubSeq(s, i, e - 1)) = IF i <= e - 1 THEN (e - 1) - i + 1 ELSE 0
    BY <1>1, <2>1, SubSeqProperties
  <2> QED
    BY <1>1, <2>2
<1>8. e + 1 \in Session!LineStarts(s)
  <2>1. e + 1 \in 2 .. Len(s) + 1 /\ (e + 1) - 1 = e
    BY <1>1
  <2> QED
    BY <2>1, Starts
<1>9. ASSUME NEW j \in Session!LineStarts(s), ~(j <= i \/ j >= e + 1)
      PROVE  FALSE
  <2>1. j \in 1 .. Len(s) + 1
    BY Starts
  <2>2. j \in 2 .. Len(s) + 1 /\ j - 1 \in i .. e - 1
    BY <1>1, <1>9, <2>1
  <2>3. s[j - 1] = NewLine
    BY <2>2, Starts
  <2> QED
    BY <2>2, <2>3
<1> QED
  BY <1>2, <1>3, <1>6, <1>7, <1>8, <1>9

\* The two parsers read the same words.
LEMMA SameWords ==
  /\ \A text : Session!IsRequestLine(text) <=> IsRequestLine(text)
  /\ \A text : Session!IsHeader(text) <=> IsHeader(text)
  /\ \A text : Session!Status(text) = Status(text)
  /\ \A text : Session!IsKeepAlive(text) <=> IsKeepAlive(text)
  /\ \A text : Session!IsLength(text) <=> IsLength(text)
  /\ Session!Length = Length
<1>1. /\ Session!RequestTexts = RequestTexts /\ Session!Length = Length
      /\ Session!HeaderTexts = HeaderTexts
  BY DEF Session!RequestTexts, RequestTexts, Session!Length, Length, Session!HeaderTexts, HeaderTexts
<1>2. \A text : Session!IsRequestLine(text) <=> IsRequestLine(text)
  BY <1>1 DEF Session!IsRequestLine, IsRequestLine
<1>3. \A text : Session!IsHeader(text) <=> IsHeader(text)
  BY <1>1 DEF Session!IsHeader, IsHeader
<1>4. \A text : Session!Status(text) = Status(text)
  BY DEF Session!Status, Status
<1>5. \A text : Session!IsKeepAlive(text) <=> IsKeepAlive(text)
  BY DEF Session!IsKeepAlive, IsKeepAlive
<1>6. \A text : Session!IsLength(text) <=> IsLength(text)
  BY <1>1 DEF Session!IsLength, IsLength
<1> QED
  BY <1>1, <1>2, <1>3, <1>4, <1>5, <1>6

\* What is thought of a line: of a complete one by its text, of another one by its length.
LEMMA Verdicts ==
  ASSUME NEW s, NEW i
  PROVE  /\ Session!LineEnds(s, i) = {} =>
              Session!Verdict(s, i) = IF Len(s) - i + 1 > MaxLine THEN "toolong" ELSE "wait"
         /\ Session!LineEnds(s, i) # {} =>
              Session!Verdict(s, i) =
                 IF Len(Session!TextAt(s, i)) + 1 > MaxLine THEN "toolong"
                 ELSE IF i > 1 /\ Session!TextAt(s, i) = <<>> THEN "blank"
                 ELSE IF (IF i = 1 THEN IsRequestLine(Session!TextAt(s, i)) ELSE IsHeader(Session!TextAt(s, i)))
                      THEN "good" ELSE "bad"
<1>1. Session!LineEnds(s, i) = {} =>
         Session!Verdict(s, i) = IF Len(s) - i + 1 > MaxLine THEN "toolong" ELSE "wait"
  BY DEF Session!Verdict
<1>2. Session!LineEnds(s, i) # {} =>
         Session!Verdict(s, i) =
            IF Len(Session!TextAt(s, i)) + 1 > MaxLine THEN "toolong"
            ELSE IF i > 1 /\ Session!TextAt(s, i) = <<>> THEN "blank"
            ELSE IF (IF i = 1 THEN IsRequestLine(Session!TextAt(s, i)) ELSE IsHeader(Session!TextAt(s, i)))
                 THEN "good" ELSE "bad"
  BY SameWords DEF Session!Verdict
<1> QED
  BY <1>1, <1>2

\* A line has a first end, if it has one.
LEMMA FirstEnd ==
  ASSUME NEW s \in Seq(Pieces), NEW i \in Nat, i >= 1, Session!LineEnds(s, i) # {}
  PROVE  /\ i \in 1 .. Len(s)
         /\ \E e \in i .. Len(s) : s[e] = NewLine /\ \A k \in i .. e - 1 : s[k] # NewLine
<1> DEFINE E == {j \in i .. Len(s) : s[j] = NewLine}
<1>1. Len(s) \in Nat
  BY LenProperties
<1>2. E \in SUBSET Nat /\ E # {}
  BY <1>1 DEF Session!LineEnds, Session!NewLine, NewLine
<1>3. PICK e \in E : \A y \in E : e <= y
  BY <1>2, SmallestExists
<1>4. e \in i .. Len(s) /\ s[e] = NewLine /\ e \in Nat
  BY <1>2, <1>3
<1>5. ASSUME NEW k \in i .. e - 1 PROVE s[k] # NewLine
  <2>1. k \in i .. Len(s) /\ ~(e <= k)
    BY <1>1, <1>4
  <2> QED
    BY <1>3, <2>1
<1>6. i \in 1 .. Len(s)
  BY <1>1, <1>4
<1> QED
  BY <1>4, <1>5, <1>6

\* A line that has another one behind it is complete.
LEMMA EarlierLine ==
  ASSUME NEW s \in Seq(Pieces), NEW i \in Session!LineStarts(s), NEW j \in Session!LineStarts(s), j < i
  PROVE  Session!LineEnds(s, j) # {}
<1>1. Len(s) \in Nat /\ i \in 1 .. Len(s) + 1 /\ j \in 1 .. Len(s) + 1
  BY Starts
<1>2. i \in 2 .. Len(s) + 1 /\ i - 1 \in j .. Len(s)
  BY <1>1
<1>3. s[i - 1] = NewLine
  BY <1>2, Starts
<1> QED
  BY <1>2, <1>3 DEF Session!LineEnds, Session!NewLine, NewLine

\* What comes behind changes nothing about the complete lines.
LEMMA GrownLine ==
  ASSUME NEW s \in Seq(Pieces), NEW t \in Seq(Pieces), Len(s) <= Len(t),
         \A k \in 1 .. Len(s) : t[k] = s[k],
         NEW i \in 1 .. Len(s) + 1
  PROVE  /\ i \in Session!LineStarts(t) <=> i \in Session!LineStarts(s)
         /\ Session!LineEnds(s, i) # {} =>
               /\ Session!LineEnds(t, i) # {}
               /\ Session!TextAt(t, i) = Session!TextAt(s, i)
               /\ Session!Verdict(t, i) = Session!Verdict(s, i)
<1>1. Len(s) \in Nat /\ Len(t) \in Nat
  BY LenProperties
<1>2. i \in Session!LineStarts(t) <=> i \in Session!LineStarts(s)
  <2>1. CASE i = 1
    BY <2>1, Starts
  <2>2. CASE i # 1
    <3>1. i \in 2 .. Len(s) + 1 /\ i \in 2 .. Len(t) + 1 /\ i - 1 \in 1 .. Len(s)
      BY <1>1, <2>2
    <3>2. /\ i \in Session!LineStarts(s) <=> s[i - 1] = NewLine
          /\ i \in Session!LineStarts(t) <=> t[i - 1] = NewLine
      BY <3>1, Starts
    <3> QED
      BY <3>1, <3>2
  <2> QED
    BY <2>1, <2>2
<1>3. ASSUME Session!LineEnds(s, i) # {}
      PROVE  /\ Session!LineEnds(t, i) # {}
             /\ Session!TextAt(t, i) = Session!TextAt(s, i)
             /\ Session!Verdict(t, i) = Session!Verdict(s, i)
  <2>1. i \in Nat /\ i >= 1
    BY <1>1
  <2>2. /\ i \in 1 .. Len(s)
        /\ \E e \in i .. Len(s) : s[e] = NewLine /\ \A k \in i .. e - 1 : s[k] # NewLine
    BY <1>3, <2>1, FirstEnd
  <2>3. PICK e \in i .. Len(s) : s[e] = NewLine /\ \A k \in i .. e - 1 : s[k] # NewLine
    BY <2>2
  <2>4. /\ i \in 1 .. Len(t) /\ e \in i .. Len(t) /\ t[e] = NewLine
        /\ \A k \in i .. e - 1 : k \in 1 .. Len(s) /\ t[k] = s[k]
    BY <1>1, <2>2, <2>3
  <2>5. \A k \in i .. e - 1 : t[k] # NewLine
    BY <2>3, <2>4
  <2>6. Session!TextAt(s, i) = SubSeq(s, i, e - 1)
    BY <2>2, <2>3, LineAt
  <2>7. Session!LineEnds(t, i) # {} /\ Session!TextAt(t, i) = SubSeq(t, i, e - 1)
    BY <2>4, <2>5, LineAt
  <2>8. SubSeq(t, i, e - 1) = SubSeq(s, i, e - 1)
    BY <1>1, <2>3, <2>4
  <2>9. Session!TextAt(t, i) = Session!TextAt(s, i)
    BY <2>6, <2>7, <2>8
  <2> DEFINE V(text) == IF Len(text) + 1 > MaxLine THEN "toolong"
                        ELSE IF i > 1 /\ text = <<>> THEN "blank"
                        ELSE IF (IF i = 1 THEN IsRequestLine(text) ELSE IsHeader(text))
                             THEN "good" ELSE "bad"
  <2>10. Session!Verdict(s, i) = V(Session!TextAt(s, i))
    BY <1>3, Verdicts
  <2>11. Session!Verdict(t, i) = V(Session!TextAt(t, i))
    BY <2>7, Verdicts
  <2> QED
    BY <2>7, <2>9, <2>10, <2>11
<1> QED
  BY <1>2, <1>3

-----------------------------------------------------------------------------
(***************************************************************************)
(* What the header lines have said.                                        *)
(***************************************************************************)

\* The header lines in front of the line at i that name Connection, and Content-Length.
ConnectionLines(s, i) == {j \in Session!LineStarts(s) : 1 < j /\ j < i /\ IsConnection(Session!TextAt(s, j))}
LengthLines(s, i) == {j \in Session!LineStarts(s) : 1 < j /\ j < i /\ IsLength(Session!TextAt(s, j))}

\* The first of some lines.
First(s, F) == IF F = {} THEN <<>> ELSE Session!TextAt(s, Min(F))

\* The header that counts is the first one.
LEMMA FirstHeaders ==
  ASSUME NEW s, NEW i
  PROVE  /\ Session!FirstHeader(s, i, IsConnection) = First(s, ConnectionLines(s, i))
         /\ Session!FirstHeader(s, i, IsLength) = First(s, LengthLines(s, i))
<1>1. \A S : Session!Min(S) = Min(S)
  BY DEF Session!Min, Min
<1>2. Session!FirstHeader(s, i, IsConnection) = First(s, ConnectionLines(s, i))
  BY <1>1 DEF Session!FirstHeader, First, ConnectionLines
<1>3. Session!FirstHeader(s, i, IsLength) = First(s, LengthLines(s, i))
  BY <1>1 DEF Session!FirstHeader, First, LengthLines
<1> QED
  BY <1>2, <1>3

\* One more line behind those that were seen counts if it is the first with its key.
LEMMA FirstNext ==
  ASSUME NEW s, NEW i \in Nat, NEW F \in SUBSET Nat, NEW found \in BOOLEAN,
         \A y \in F : y < i /\ Session!TextAt(s, y) # <<>>
  PROVE  First(s, F \cup (IF found THEN {i} ELSE {})) =
            IF First(s, F) = <<>> /\ found THEN Session!TextAt(s, i) ELSE First(s, F)
<1>1. CASE F = {}
  <2>1. Min({i}) = i
    BY MinIs
  <2> QED
    BY <1>1, <2>1 DEF First
<1>2. CASE F # {}
  <2>1. Min(F) \in F /\ \A y \in F : Min(F) <= y
    BY <1>2, MinProperties
  <2>2. First(s, F) # <<>>
    BY <1>2, <2>1 DEF First
  <2> DEFINE G == F \cup (IF found THEN {i} ELSE {})
  <2>3. G \in SUBSET Nat /\ Min(F) \in G /\ G # {} /\ \A y \in G : Min(F) <= y
    <3>1. Min(F) \in Nat /\ Min(F) < i
      BY <2>1
    <3>2. \A y \in G : y \in F \/ y = i
      OBVIOUS
    <3>3. G \in SUBSET Nat /\ Min(F) \in G
      BY <2>1
    <3> HIDE DEF G
    <3>4. ASSUME NEW y \in G PROVE Min(F) <= y
      <4>1. CASE y \in F
        BY <2>1, <4>1
      <4>2. CASE y = i
        BY <3>1, <4>2
      <4> QED
        BY <3>2, <4>1, <4>2
    <3> QED
      BY <3>3, <3>4
  <2> HIDE DEF G
  <2>4. Min(G) = Min(F)
    BY <2>3, MinIs
  <2>5. First(s, G) = First(s, F)
    BY <1>2, <2>3, <2>4 DEF First
  <2> QED
    BY <2>2, <2>5 DEF G
<1> QED
  BY <1>1, <1>2

\* The next line start is behind a good line: what was said is what is kept.
LEMMA HeadsNext ==
  ASSUME NEW s \in Seq(Pieces), NEW r \in Requests, NEW i, Heads(s, r, i), i > 1,
         Session!Verdict(s, i) = "good",
         NEW n \in Session!LineStarts(s), n > i,
         \A j \in Session!LineStarts(s) : j <= i \/ j >= n
  PROVE  Heads(s, SetHeader(r, Session!TextAt(s, i)), n)
<1> DEFINE L == Session!LineStarts(s)
           text == Session!TextAt(s, i)
           q == SetHeader(r, text)
           C == ConnectionLines(s, i)
           D == LengthLines(s, i)
<1>1. L \in SUBSET Nat /\ i \in L /\ i \in Nat /\ n \in Nat
  BY Starts DEF Heads
<1>2. /\ \A j \in L : j < i => Session!Verdict(s, j) = "good"
      /\ r.target = Session!TextAt(s, 1)
      /\ r.connection = First(s, C) /\ r.length = First(s, D)
  BY <1>1, FirstHeaders DEF Heads
<1>3. /\ q.target = r.target
      /\ q.connection = IF r.connection = <<>> /\ IsConnection(text) THEN text ELSE r.connection
      /\ q.length = IF r.length = <<>> /\ IsLength(text) THEN text ELSE r.length
  BY DEF SetHeader, Requests
<1> HIDE DEF text, q
<1>4. \A j \in L : j < n <=> (j < i \/ j = i)
  BY <1>1
<1>5. \A j \in L : j < n => Session!Verdict(s, j) = "good"
  BY <1>1, <1>2, <1>4
<1>6. /\ ConnectionLines(s, n) = C \cup (IF IsConnection(text) THEN {i} ELSE {})
      /\ LengthLines(s, n) = D \cup (IF IsLength(text) THEN {i} ELSE {})
  BY <1>1, <1>4 DEF ConnectionLines, LengthLines, text
<1>7. /\ C \in SUBSET Nat /\ \A y \in C : y < i /\ Session!TextAt(s, y) # <<>>
      /\ D \in SUBSET Nat /\ \A y \in D : y < i /\ Session!TextAt(s, y) # <<>>
  BY <1>1 DEF ConnectionLines, LengthLines, IsConnection, IsLength
<1>8. IsConnection(text) \in BOOLEAN /\ IsLength(text) \in BOOLEAN
  BY DEF IsConnection, IsLength
<1> HIDE DEF C, D
<1>9. First(s, ConnectionLines(s, n)) =
         IF First(s, C) = <<>> /\ IsConnection(text) THEN text ELSE First(s, C)
  BY <1>1, <1>6, <1>7, <1>8, FirstNext DEF text
<1>10. First(s, LengthLines(s, n)) =
         IF First(s, D) = <<>> /\ IsLength(text) THEN text ELSE First(s, D)
  BY <1>1, <1>6, <1>7, <1>8, FirstNext DEF text
<1>11. Heads(s, q, n)
  BY <1>2, <1>3, <1>5, <1>9, <1>10, FirstHeaders DEF Heads
<1> QED
  BY <1>11 DEF q, text

\* Behind the request line no header has been seen.
LEMMA HeadsFirst ==
  ASSUME NEW s \in Seq(Pieces), NEW r,
         r.target = Session!TextAt(s, 1), r.connection = <<>>, r.length = <<>>,
         Session!Verdict(s, 1) = "good",
         NEW n \in Session!LineStarts(s), n > 1,
         \A j \in Session!LineStarts(s) : j <= 1 \/ j >= n
  PROVE  Heads(s, r, n)
<1>1. Session!LineStarts(s) \subseteq Nat \ {0} /\ n \in Nat
  BY Starts
<1>2. \A j \in Session!LineStarts(s) : j < n => j = 1
  BY <1>1
<1>3. ConnectionLines(s, n) = {} /\ LengthLines(s, n) = {}
  BY <1>1, <1>2 DEF ConnectionLines, LengthLines
<1> QED
  BY <1>2, <1>3, FirstHeaders DEF Heads, First

\* What comes behind changes nothing about what the lines before have said.
LEMMA GrownHeads ==
  ASSUME NEW s \in Seq(Pieces), NEW t \in Seq(Pieces), Len(s) <= Len(t),
         \A k \in 1 .. Len(s) : t[k] = s[k],
         NEW r, NEW i, Heads(s, r, i)
  PROVE  Heads(t, r, i)
<1>1. /\ Len(s) \in Nat /\ i \in 1 .. Len(s) + 1 /\ i \in Session!LineStarts(s)
      /\ 1 \in Session!LineStarts(s)
  BY Starts DEF Heads
<1>2. i \in Session!LineStarts(t)
  BY <1>1, GrownLine
<1>3. ASSUME NEW j \in 1 .. Len(s) + 1, j < i
      PROVE  /\ j \in Session!LineStarts(t) <=> j \in Session!LineStarts(s)
             /\ j \in Session!LineStarts(s) => /\ Session!TextAt(t, j) = Session!TextAt(s, j)
                                               /\ Session!Verdict(t, j) = Session!Verdict(s, j)
  <2>1. j \in Session!LineStarts(t) <=> j \in Session!LineStarts(s)
    BY GrownLine
  <2>2. ASSUME j \in Session!LineStarts(s)
        PROVE  /\ Session!TextAt(t, j) = Session!TextAt(s, j)
               /\ Session!Verdict(t, j) = Session!Verdict(s, j)
    <3>1. Session!LineEnds(s, j) # {}
      BY <1>1, <1>3, <2>2, EarlierLine
    <3> QED
      BY <3>1, GrownLine
  <2> QED
    BY <2>1, <2>2
<1>4. \A j \in Session!LineStarts(t) : j < i => j \in 1 .. Len(s) + 1
  <2>1. Session!LineStarts(t) \subseteq Nat \ {0}
    BY Starts
  <2> QED
    BY <1>1, <2>1
<1>5. Session!LineStarts(s) \subseteq 1 .. Len(s) + 1
  BY Starts
<1>6. \A j \in Session!LineStarts(t) : j < i => Session!Verdict(t, j) = "good"
  BY <1>3, <1>4 DEF Heads
<1>7. i > 1 => r.target = Session!TextAt(t, 1)
  <2>1. 1 \in 1 .. Len(s) + 1
    BY <1>1
  <2> QED
    BY <1>1, <1>3, <2>1 DEF Heads
<1>8. /\ ConnectionLines(t, i) = ConnectionLines(s, i)
      /\ LengthLines(t, i) = LengthLines(s, i)
  <2>1. ConnectionLines(t, i) = ConnectionLines(s, i)
    BY <1>3, <1>4, <1>5 DEF ConnectionLines
  <2>2. LengthLines(t, i) = LengthLines(s, i)
    BY <1>3, <1>4, <1>5 DEF LengthLines
  <2> QED
    BY <2>1, <2>2
<1>9. ASSUME NEW F \in SUBSET Session!LineStarts(s), \A y \in F : y < i
      PROVE  First(t, F) = First(s, F)
  <2>1. CASE F = {}
    BY <2>1 DEF First
  <2>2. CASE F # {}
    <3>1. F \in SUBSET Nat
      BY <1>5
    <3>2. Min(F) \in F
      BY <2>2, <3>1, MinProperties
    <3>3. Session!TextAt(t, Min(F)) = Session!TextAt(s, Min(F))
      BY <1>3, <1>5, <1>9, <3>2
    <3> QED
      BY <2>2, <3>3 DEF First
  <2> QED
    BY <2>1, <2>2
<1>10. /\ First(t, ConnectionLines(t, i)) = First(s, ConnectionLines(s, i))
       /\ First(t, LengthLines(t, i)) = First(s, LengthLines(s, i))
  <2>1. /\ ConnectionLines(s, i) \in SUBSET Session!LineStarts(s) /\ \A y \in ConnectionLines(s, i) : y < i
        /\ LengthLines(s, i) \in SUBSET Session!LineStarts(s) /\ \A y \in LengthLines(s, i) : y < i
    BY DEF ConnectionLines, LengthLines
  <2> QED
    BY <1>8, <1>9, <2>1
<1>11. /\ r.connection = First(t, ConnectionLines(t, i))
       /\ r.length = First(t, LengthLines(t, i))
  BY <1>10, FirstHeaders DEF Heads
<1> QED
  BY <1>2, <1>6, <1>7, <1>11, FirstHeaders DEF Heads

-----------------------------------------------------------------------------
(***************************************************************************)
(* The message at the front.                                               *)
(***************************************************************************)

\* The length of the body that a request announces.
Announced(r) == IF r.length = <<>> THEN 0 ELSE Length[r.length[1]]

\* The first line that is not good decides what the message is.
LEMMA MessageAt ==
  ASSUME NEW s \in Seq(Pieces), NEW r, NEW i, Heads(s, r, i), Session!Verdict(s, i) # "good",
         r.length = <<>> \/ IsLength(r.length)
  PROVE  /\ Session!Verdict(s, i) = "wait" => Session!Message(s).kind = "wait"
         /\ Session!Verdict(s, i) = "bad" => Session!Message(s) = [kind |-> "error", status |-> 400]
         /\ Session!Verdict(s, i) = "toolong" => Session!Message(s) = [kind |-> "error", status |-> 414]
         /\ Session!Verdict(s, i) = "blank" /\ i + Announced(r) > Len(s) /\ Announced(r) >= 0 =>
              Session!Message(s).kind = "wait"
         /\ Session!Verdict(s, i) = "blank" /\ i + Announced(r) <= Len(s) /\ Announced(r) >= 0 =>
              Session!Message(s) =
                [kind   |-> "request",
                 size   |-> i + Announced(r),
                 answer |-> [status |-> Status(Session!TextAt(s, 1)),
                             body   |-> SubSeq(s, i + 1, i + Announced(r)),
                             last   |-> ~IsKeepAlive(r.connection)]]
<1> DEFINE I == {j \in Session!LineStarts(s) : Session!Verdict(s, j) # "good"}
           b == Announced(r)
           v == Session!Verdict(s, i)
<1>1. I \in SUBSET Nat /\ i \in I /\ \A j \in I : i <= j
  <2>1. Session!LineStarts(s) \subseteq Nat /\ i \in Session!LineStarts(s)
    BY Starts DEF Heads
  <2>2. ASSUME NEW j \in I PROVE i <= j
    <3>1. ~(j < i) /\ j \in Nat /\ i \in Nat
      BY <2>1 DEF Heads
    <3> QED
      BY <3>1
  <2> QED
    BY <2>1, <2>2
<1>2. Session!Min(I) = i
  <2> HIDE DEF I
  <2>1. Min(I) = i
    BY <1>1, MinIs
  <2> QED
    BY <2>1 DEF Session!Min, Min
<1>3. Session!BodyLength(s, i) = b
  <2>1. Session!FirstHeader(s, i, Session!IsLength) = r.length
    <3>1. Session!FirstHeader(s, i, Session!IsLength) = Session!FirstHeader(s, i, IsLength)
      BY SameWords DEF Session!FirstHeader
    <3> QED
      BY <3>1 DEF Heads
  <2> QED
    BY <2>1, SameWords DEF Session!BodyLength, Announced
<1>4. b \in Int
  <2>1. \A x \in DOMAIN Length : Length[x] \in Int
    BY DEF Length
  <2> QED
    BY <2>1 DEF Announced, IsLength
<1>5. Session!FirstHeader(s, i, Session!IsConnection) = r.connection
  <2>1. Session!FirstHeader(s, i, Session!IsConnection) = Session!FirstHeader(s, i, IsConnection)
    BY DEF Session!FirstHeader, Session!IsConnection, IsConnection
  <2> QED
    BY <2>1 DEF Heads
<1> HIDE DEF b, v
<1>6. Session!Message(s) =
        CASE v = "wait"    -> [kind |-> "wait"]
          [] v = "bad"     -> [kind |-> "error", status |-> 400]
          [] v = "toolong" -> [kind |-> "error", status |-> 414]
          [] v = "blank" /\ b < 0 -> [kind |-> "stop"]
          [] v = "blank" /\ b >= 0 /\ i + b > Len(s) -> [kind |-> "wait"]
          [] v = "blank" /\ b >= 0 /\ i + b <= Len(s) ->
                [kind   |-> "request",
                 size   |-> i + b,
                 answer |-> [status |-> Status(Session!TextAt(s, 1)),
                             body   |-> SubSeq(s, i + 1, i + b),
                             last   |-> ~IsKeepAlive(r.connection)]]
  BY <1>2, <1>3, <1>5, SameWords DEF Session!Message, v
<1>7. Len(s) \in Nat /\ i \in Nat
  BY <1>1, LenProperties
<1>8. v = "wait" => Session!Message(s).kind = "wait"
  BY <1>6
<1>9. v = "bad" => Session!Message(s) = [kind |-> "error", status |-> 400]
  BY <1>6
<1>10. v = "toolong" => Session!Message(s) = [kind |-> "error", status |-> 414]
  BY <1>6
<1>11. v = "blank" /\ i + b > Len(s) /\ b >= 0 => Session!Message(s).kind = "wait"
  <2>1. b >= 0 => ~(b < 0)
    BY <1>4
  <2>2. i + b > Len(s) => ~(i + b <= Len(s))
    BY <1>4, <1>7
  <2> QED
    BY <1>6, <2>1, <2>2
<1>12. v = "blank" /\ i + b <= Len(s) /\ b >= 0 =>
         Session!Message(s) =
                [kind   |-> "request",
                 size   |-> i + b,
                 answer |-> [status |-> Status(Session!TextAt(s, 1)),
                             body   |-> SubSeq(s, i + 1, i + b),
                             last   |-> ~IsKeepAlive(r.connection)]]
  <2>1. b >= 0 => ~(b < 0)
    BY <1>4
  <2>2. i + b <= Len(s) => ~(i + b > Len(s))
    BY <1>4, <1>7
  <2> QED
    BY <1>6, <2>1, <2>2
<1> QED
  BY <1>8, <1>9, <1>10, <1>11, <1>12 DEF b, v

\* A line that is waited for at the end makes the message wait.
LEMMA MessageWaits ==
  ASSUME NEW s \in Seq(Pieces), NEW r, NEW i, Heads(s, r, i), Session!Verdict(s, i) = "wait",
         r.length = <<>> \/ IsLength(r.length)
  PROVE  Session!Message(s).kind = "wait"
<1>1. Session!Verdict(s, i) # "good"
  OBVIOUS
<1> QED
  BY <1>1, MessageAt

-----------------------------------------------------------------------------
(***************************************************************************)
(* The parser of the pieces knows what the parser of the whole does.       *)
(***************************************************************************)

\* The first line of the buffer, seen as a part of all the bytes.
LEMMA TopLine ==
  ASSUME inbuf \in Seq(Pieces), taken \in Seq(Pieces), NEW p, p = Len(taken) + 1
  PROVE  /\ All \in Seq(Pieces) /\ Len(All) = Len(taken) + Len(inbuf) /\ p \in Nat /\ p >= 1
         /\ LineSize = 0 => Session!LineEnds(All, p) = {} /\ Len(All) - p + 1 = Len(inbuf)
         /\ LineSize # 0 => /\ Session!LineEnds(All, p) # {}
                            /\ Session!TextAt(All, p) = FirstLine
                            /\ Len(FirstLine) + 1 = LineSize
                            /\ p + LineSize \in Session!LineStarts(All)
                            /\ \A j \in Session!LineStarts(All) : j <= p \/ j >= p + LineSize
<1>1. /\ All \in Seq(Pieces) /\ Len(All) = Len(taken) + Len(inbuf)
      /\ \A i \in 1 .. Len(taken) + Len(inbuf) :
            All[i] = IF i <= Len(taken) THEN taken[i] ELSE inbuf[i - Len(taken)]
  BY ConcatProperties DEF All
<1>2. /\ Len(taken) \in Nat /\ Len(inbuf) \in Nat /\ p \in Nat /\ p >= 1
  BY LenProperties
<1>3. /\ LineSize \in 0 .. Len(inbuf)
      /\ LineSize # 0 => inbuf[LineSize] = NewLine /\ \A i \in 1 .. LineSize - 1 : inbuf[i] # NewLine
      /\ LineSize = 0 => \A i \in 1 .. Len(inbuf) : inbuf[i] # NewLine
  BY LineSizeProperties
<1>4. \A i \in 1 .. Len(inbuf) : All[Len(taken) + i] = inbuf[i]
  <2> TAKE i \in 1 .. Len(inbuf)
  <2>1. /\ Len(taken) + i \in 1 .. Len(taken) + Len(inbuf) /\ ~(Len(taken) + i <= Len(taken))
        /\ (Len(taken) + i) - Len(taken) = i
    BY <1>2
  <2> QED
    BY <1>1, <2>1
<1>5. CASE LineSize = 0
  <2>1. Len(All) - p + 1 = Len(inbuf)
    BY <1>1, <1>2
  <2>2. ASSUME NEW j \in p .. Len(All) PROVE All[j] # NewLine
    <3>1. j - Len(taken) \in 1 .. Len(inbuf) /\ Len(taken) + (j - Len(taken)) = j
      BY <1>1, <1>2
    <3>2. All[Len(taken) + (j - Len(taken))] = inbuf[j - Len(taken)]
      BY <1>4, <3>1
    <3> QED
      BY <1>3, <1>5, <3>1, <3>2
  <2>3. Session!LineEnds(All, p) = {}
    BY <2>2 DEF Session!LineEnds, Session!NewLine, NewLine
  <2> QED
    BY <1>1, <1>2, <1>5, <2>1, <2>3
<1>6. CASE LineSize # 0
  <2> DEFINE e == Len(taken) + LineSize
             n == Len(taken)
             z == LineSize
  <2>1. z \in 1 .. Len(inbuf)
    BY <1>2, <1>3, <1>6
  <2> HIDE DEF z, n
  <2>2. p \in 1 .. Len(All) /\ n + z \in p .. Len(All) /\ All[n + z] = NewLine
        /\ (n + z) + 1 = p + z /\ (n + z) - p = z - 1 /\ n + z - 1 = n + (z - 1)
    BY <1>1, <1>2, <1>3, <1>4, <1>6, <2>1 DEF n, z
  <2>3. ASSUME NEW k \in p .. n + z - 1 PROVE All[k] # NewLine
    <3>1. k - n \in 1 .. Len(inbuf) /\ n + (k - n) = k /\ k - n \in 1 .. z - 1
      BY <1>2, <2>1 DEF n
    <3>2. All[n + (k - n)] = inbuf[k - n]
      BY <1>4, <3>1 DEF n
    <3> QED
      BY <1>3, <1>6, <3>1, <3>2 DEF z
  <2>4. /\ Session!LineEnds(All, p) # {}
        /\ Session!TextAt(All, p) = SubSeq(All, p, (n + z) - 1)
        /\ Len(SubSeq(All, p, (n + z) - 1)) = (n + z) - p
        /\ (n + z) + 1 \in Session!LineStarts(All)
        /\ \A j \in Session!LineStarts(All) : j <= p \/ j >= (n + z) + 1
    <3>1. PICK m \in p .. Len(All) : m = n + z
      BY <2>2
    <3>2. p \in 1 .. Len(All) /\ All[m] = NewLine
      BY <2>2, <3>1
    <3>4. p .. m - 1 = p .. n + z - 1
      <4>1. n \in Nat /\ z \in Nat
        BY <1>2, <2>1 DEF n
      <4> QED
        BY <3>1, <4>1
    <3>5. \A k \in p .. m - 1 : All[k] # NewLine
      BY <2>3, <3>4
    <3>6. All \in Seq(Pieces)
      BY <1>1
    <3>3. /\ Session!LineEnds(All, p) # {}
          /\ Session!TextAt(All, p) = SubSeq(All, p, m - 1)
          /\ Len(SubSeq(All, p, m - 1)) = m - p
          /\ m + 1 \in Session!LineStarts(All)
          /\ \A j \in Session!LineStarts(All) : j <= p \/ j >= m + 1
      BY <3>2, <3>5, <3>6, LineAt
    <3> QED
      BY <3>1, <3>3
  <2>5. SubSeq(All, p, (n + z) - 1) = SubSeq(inbuf, 1, z - 1)
    <3> DEFINE u == SubSeq(All, p, (n + z) - 1)
               w == SubSeq(inbuf, 1, z - 1)
    <3>1. \A k \in p .. (n + z) - 1 : All[k] \in Pieces
      <4>1. \A k \in p .. (n + z) - 1 : k \in 1 .. Len(All)
        BY <1>2, <2>2
      <4> QED
        BY <1>1, <4>1, ElementOfSeq
    <3>2. \A k \in 1 .. z - 1 : inbuf[k] \in Pieces
      <4>1. \A k \in 1 .. z - 1 : k \in 1 .. Len(inbuf)
        BY <1>2, <2>1
      <4> QED
        BY <4>1, ElementOfSeq
    <3>3. n \in Nat /\ z \in Nat /\ z >= 1 /\ p = n + 1
      BY <1>2, <2>1 DEF n
    <3>4. p \in Int /\ (n + z) - 1 \in Int /\ 1 \in Int /\ z - 1 \in Int
      BY <3>3
    <3>5. /\ u \in Seq(Pieces)
          /\ Len(u) = IF p <= (n + z) - 1 THEN ((n + z) - 1) - p + 1 ELSE 0
          /\ \A k \in 1 .. ((n + z) - 1) - p + 1 : u[k] = All[p + k - 1]
      BY <3>1, <3>4, SubSeqProperties
    <3>6. /\ w \in Seq(Pieces)
          /\ Len(w) = IF 1 <= z - 1 THEN (z - 1) - 1 + 1 ELSE 0
          /\ \A k \in 1 .. (z - 1) - 1 + 1 : w[k] = inbuf[1 + k - 1]
      BY <3>2, <3>4, SubSeqProperties
    <3> HIDE DEF u, w
    <3>7. Len(u) = z - 1 /\ Len(w) = z - 1
      BY <3>3, <3>5, <3>6
    <3>8. ASSUME NEW k \in 1 .. z - 1 PROVE u[k] = w[k]
      <4>1. k \in 1 .. ((n + z) - 1) - p + 1 /\ k \in 1 .. (z - 1) - 1 + 1 /\ p + k - 1 = n + k
            /\ 1 + k - 1 = k /\ k \in 1 .. Len(inbuf)
        BY <1>2, <2>1, <3>3
      <4>2. u[k] = All[n + k] /\ w[k] = inbuf[k]
        BY <3>5, <3>6, <4>1
      <4> QED
        BY <1>4, <4>1, <4>2 DEF n
    <3>9. u = w
      BY <3>5, <3>6, <3>7, <3>8, SeqEqual
    <3> QED
      BY <3>9 DEF u, w
  <2>6. FirstLine = SubSeq(inbuf, 1, z - 1)
    BY DEF FirstLine, z
  <2>7. Len(FirstLine) + 1 = z
    BY <1>2, <2>1, <2>2, <2>4, <2>5, <2>6
  <2> QED
    BY <1>1, <1>2, <1>6, <2>2, <2>4, <2>5, <2>6, <2>7 DEF z
<1> QED
  BY <1>5, <1>6

\* No byte is taken.
LEMMA NoPop ==
  ASSUME inbuf \in Seq(Pieces), taken \in Seq(Pieces), Pop(0)
  PROVE  inbuf' = inbuf /\ taken' = taken
<1>1. SubSeq(inbuf, 0 + 1, Len(inbuf)) = inbuf
  <2>1. 0 + 1 = 1
    OBVIOUS
  <2> QED
    BY <2>1, SubSeqFull
<1>2. SubSeq(inbuf, 1, 0) = <<>>
  BY SubSeqEmpty
<1>3. taken \o <<>> = taken
  BY ConcatEmptySeq
<1> QED
  BY <1>1, <1>2, <1>3 DEF Pop

\* Before the first line nothing has been said.
LEMMA HeadsFront ==
  ASSUME NEW s \in Seq(Pieces), NEW r, r.connection = <<>>, r.length = <<>>
  PROVE  Heads(s, r, 1)
<1>1. Session!LineStarts(s) \subseteq 1 .. Len(s) + 1 /\ Len(s) \in Nat /\ 1 \in Session!LineStarts(s)
  BY Starts
<1>2. \A j \in Session!LineStarts(s) : ~(j < 1)
  BY <1>1
<1>3. ConnectionLines(s, 1) = {} /\ LengthLines(s, 1) = {}
  BY <1>2 DEF ConnectionLines, LengthLines
<1> QED
  BY <1>1, <1>2, <1>3, FirstHeaders DEF Heads, First

\* The first line is the request line. What is made of it is what it is.
LEMMA ParseLine ==
  ASSUME Types, StageInv, ParseInv, RecvHttpLine
  PROVE  ParseInv'
<1>1. /\ context.recv = "LINE" /\ taken = <<>> /\ context = NewContext
      /\ inbuf \in Seq(Pieces) /\ taken \in Seq(Pieces) /\ Sound(context)
  BY DEF StageInv, ParseInv, RecvHttpLine, Types
<1>2. Line(ParseHttpLine(FirstLine))
  BY DEF RecvHttpLine
<1>3. /\ LineSize \in 0 .. Len(inbuf) /\ Len(inbuf) \in Nat /\ FirstLine \in Seq(Pieces)
      /\ taken' \in Seq(Pieces) /\ Len(taken') = Len(taken) + LineSize
      /\ All' = All /\ Pop(LineSize)
  BY <1>2, LineStep
<1>4. /\ context.request = NewRequest /\ context.resp = 200
      /\ context.request.connection = <<>> /\ context.request.length = <<>>
      /\ context.request \in Requests /\ context \in Contexts
  BY <1>1 DEF NewContext, NewRequest, Sound, Contexts
<1>5. /\ Failed(414).recv = "ERROR" /\ Failed(414).resp = 414
      /\ Failed(400).recv = "ERROR" /\ Failed(400).resp = 400
  BY <1>1, <1>3, NewContexts
<1>6. Len(taken) = 0
  BY <1>1
<1>7. /\ All \in Seq(Pieces) /\ Len(All) = Len(inbuf)
      /\ LineSize = 0 => Session!LineEnds(All, 1) = {} /\ Len(All) - 1 + 1 = Len(inbuf)
      /\ LineSize # 0 => /\ Session!LineEnds(All, 1) # {}
                         /\ Session!TextAt(All, 1) = FirstLine
                         /\ Len(FirstLine) + 1 = LineSize
                         /\ 1 + LineSize \in Session!LineStarts(All)
                         /\ \A j \in Session!LineStarts(All) : j <= 1 \/ j >= 1 + LineSize
  <2>1. 1 = Len(taken) + 1
    BY <1>6
  <2>2. /\ All \in Seq(Pieces) /\ Len(All) = Len(taken) + Len(inbuf)
        /\ LineSize = 0 => Session!LineEnds(All, 1) = {} /\ Len(All) - 1 + 1 = Len(inbuf)
        /\ LineSize # 0 => /\ Session!LineEnds(All, 1) # {}
                           /\ Session!TextAt(All, 1) = FirstLine
                           /\ Len(FirstLine) + 1 = LineSize
                           /\ 1 + LineSize \in Session!LineStarts(All)
                           /\ \A j \in Session!LineStarts(All) : j <= 1 \/ j >= 1 + LineSize
    BY <1>1, <2>1, TopLine
  <2> QED
    BY <1>3, <1>6, <2>2
<1>8. Heads(All, context.request, 1)
  BY <1>4, <1>7, HeadsFront
<1>9. ASSUME NEW c \in {400, 414}, context' = Failed(c),
             Session!Verdict(All, 1) = IF c = 400 THEN "bad" ELSE "toolong"
      PROVE  ParseInv'
  <2>1. Session!Message(All) = [kind |-> "error", status |-> c]
    BY <1>4, <1>7, <1>8, <1>9, MessageAt
  <2>2. context'.recv = "ERROR" /\ context'.resp = c
    BY <1>5, <1>9
  <2> QED
    BY <1>3, <2>1, <2>2 DEF ParseInv
<1>10. CASE LineSize = 0 /\ Len(inbuf) > MaxLine
  <2>1. context' = Failed(414)
    BY <1>2, <1>10 DEF Line
  <2>2. Session!Verdict(All, 1) = "toolong"
    BY <1>7, <1>10, Verdicts
  <2> QED
    BY <1>9, <2>1, <2>2
<1>11. CASE LineSize = 0 /\ ~(Len(inbuf) > MaxLine)
  <2>1. context' = context
    BY <1>2, <1>11 DEF Line
  <2>2. taken' = taken
    BY <1>1, <1>3, <1>11, NoPop
  <2> QED
    BY <1>1, <2>1, <2>2 DEF ParseInv
<1>12. CASE LineSize # 0 /\ LineSize > MaxLine
  <2>1. context' = Failed(414)
    BY <1>2, <1>12 DEF Line
  <2>2. Session!Verdict(All, 1) = "toolong"
    BY <1>7, <1>12, Verdicts
  <2> QED
    BY <1>9, <2>1, <2>2
<1>13. CASE LineSize # 0 /\ ~(LineSize > MaxLine) /\ ~IsRequestLine(FirstLine)
  <2>1. context' = Failed(400)
    BY <1>2, <1>13 DEF Line, ParseHttpLine
  <2>2. Session!Verdict(All, 1) = "bad"
    BY <1>7, <1>13, Verdicts
  <2> QED
    BY <1>9, <2>1, <2>2
<1>14. CASE LineSize # 0 /\ ~(LineSize > MaxLine) /\ IsRequestLine(FirstLine)
  <2>1. context' = [context EXCEPT !.recv = "HEAD", !.request.target = FirstLine]
    BY <1>2, <1>14 DEF Line, ParseHttpLine
  <2>2. /\ context'.recv = "HEAD" /\ context'.request.target = FirstLine
        /\ context'.request.connection = <<>> /\ context'.request.length = <<>>
    BY <1>4, <2>1 DEF Contexts, Requests
  <2>3. Session!Verdict(All, 1) = "good"
    BY <1>7, <1>14, Verdicts
  <2>4. PICK n \in Session!LineStarts(All) : n = 1 + LineSize
    BY <1>7, <1>14
  <2>5. n > 1 /\ \A j \in Session!LineStarts(All) : j <= 1 \/ j >= n
    BY <1>3, <1>7, <1>14, <2>4
  <2>6. PICK r : r = context'.request
    OBVIOUS
  <2>7. r.target = Session!TextAt(All, 1) /\ r.connection = <<>> /\ r.length = <<>>
    BY <1>7, <1>14, <2>2, <2>6
  <2>8. Heads(All, r, n)
    BY <1>7, <2>3, <2>5, <2>7, HeadsFirst
  <2>9. n = Len(taken') + 1 /\ taken' # <<>>
    BY <1>3, <1>6, <1>14, <2>4
  <2>10. (Heads(All, context.request, Len(taken) + 1))'
    BY <1>3, <2>6, <2>8, <2>9 DEF Heads
  <2> QED
    BY <2>2, <2>9, <2>10 DEF ParseInv
<1> QED
  BY <1>10, <1>11, <1>12, <1>13, <1>14

\* Nothing that the parser knows has changed.
LEMMA ParseSame ==
  ASSUME ParseInv, UNCHANGED <<inbuf, taken, context>>
  PROVE  ParseInv'
<1>1. All' = All /\ Missing' = Missing /\ Blank' = Blank
  BY DEF All, Missing, ContentLength, Blank
<1>2. /\ context.recv = "LINE" => taken' = <<>> /\ context' = NewContext
      /\ context.recv = "HEAD" => taken' # <<>> /\ (Heads(All, context.request, Len(taken) + 1))'
  BY <1>1 DEF ParseInv, Heads
<1>3. context.recv \in {"BODY", "OVER"} =>
          /\ Blank' \in 2 .. Len(taken') /\ (Heads(All, context.request, Blank))'
          /\ Session!Verdict(All', Blank') = "blank"
          /\ context'.request.body = SubSeq(taken', Blank' + 1, Len(taken'))
  BY <1>1 DEF ParseInv, Heads
<1>4. /\ context.recv = "OVER" => Missing' = 0
      /\ context.recv = "ERROR" => Session!Message(All') = [kind |-> "error", status |-> context'.resp]
  BY <1>1 DEF ParseInv
<1> QED
  BY <1>2, <1>3, <1>4 DEF ParseInv

\* A header line adds to what is known, the blank line ends the head.
LEMMA ParseHead ==
  ASSUME Types, StageInv, ParseInv, RecvHttpHead
  PROVE  ParseInv'
<1>1. CASE context.recv # "HEAD"
  <2>1. UNCHANGED <<inbuf, taken, context>>
    BY <1>1 DEF RecvHttpHead
  <2> QED
    BY <2>1, ParseSame
<1>2. CASE context.recv = "HEAD"
  <2> DEFINE p == Len(taken) + 1
  <2> DEFINE r == context.request
  <2>1. /\ inbuf \in Seq(Pieces) /\ taken \in Seq(Pieces) /\ Sound(context) /\ taken # <<>>
        /\ Heads(All, r, p) /\ r.body = <<>> /\ context.resp = 200
        /\ r.length = <<>> \/ IsLength(r.length)
        /\ r \in Requests /\ context \in Contexts
    BY <1>2 DEF StageInv, ParseInv, Types, Sound, Contexts
  <2>2. Line(ParseHttpHead(FirstLine))
    BY <1>2 DEF RecvHttpHead
  <2>3. /\ LineSize \in 0 .. Len(inbuf) /\ Len(inbuf) \in Nat /\ FirstLine \in Seq(Pieces)
        /\ taken' \in Seq(Pieces) /\ Len(taken') = Len(taken) + LineSize
        /\ All' = All /\ Pop(LineSize)
    BY <2>2, LineStep
  <2>4. /\ Failed(414).recv = "ERROR" /\ Failed(414).resp = 414
        /\ Failed(400).recv = "ERROR" /\ Failed(400).resp = 400
    BY <2>1, <2>3, NewContexts
  <2>5. Len(taken) \in Nat /\ Len(taken) # 0 /\ p \in Nat /\ p > 1
    <3>1. Len(taken) \in Nat /\ Len(taken) # 0
      BY <2>1, LenProperties, EmptySeq
    <3> QED
      BY <3>1
  <2>6. /\ All \in Seq(Pieces) /\ Len(All) = Len(taken) + Len(inbuf)
        /\ LineSize = 0 => Session!LineEnds(All, p) = {} /\ Len(All) - p + 1 = Len(inbuf)
        /\ LineSize # 0 => /\ Session!LineEnds(All, p) # {}
                           /\ Session!TextAt(All, p) = FirstLine
                           /\ Len(FirstLine) + 1 = LineSize
                           /\ p + LineSize \in Session!LineStarts(All)
                           /\ \A j \in Session!LineStarts(All) : j <= p \/ j >= p + LineSize
    BY <2>1, TopLine
  <2> HIDE DEF p
  <2>7. ASSUME NEW c \in {400, 414}, context' = Failed(c),
               Session!Verdict(All, p) = IF c = 400 THEN "bad" ELSE "toolong"
        PROVE  ParseInv'
    <3>1. Session!Message(All) = [kind |-> "error", status |-> c]
      BY <2>1, <2>6, <2>7, MessageAt
    <3>2. context'.recv = "ERROR" /\ context'.resp = c
      BY <2>4, <2>7
    <3> QED
      BY <2>3, <3>1, <3>2 DEF ParseInv
  <2>8. CASE LineSize = 0 /\ Len(inbuf) > MaxLine
    <3>1. context' = Failed(414)
      BY <2>2, <2>8 DEF Line
    <3>2. Session!Verdict(All, p) = "toolong"
      BY <2>6, <2>8, Verdicts
    <3> QED
      BY <2>7, <3>1, <3>2
  <2>9. CASE LineSize = 0 /\ ~(Len(inbuf) > MaxLine)
    <3>1. context' = context
      BY <2>2, <2>9 DEF Line
    <3>2. inbuf' = inbuf /\ taken' = taken
      BY <2>1, <2>3, <2>9, NoPop
    <3> QED
      BY <3>1, <3>2, ParseSame
  <2>10. CASE LineSize # 0 /\ LineSize > MaxLine
    <3>1. context' = Failed(414)
      BY <2>2, <2>10 DEF Line
    <3>2. Session!Verdict(All, p) = "toolong"
      BY <2>6, <2>10, Verdicts
    <3> QED
      BY <2>7, <3>1, <3>2
  <2>11. CASE LineSize # 0 /\ ~(LineSize > MaxLine) /\ FirstLine # <<>> /\ ~IsHeader(FirstLine)
    <3>1. context' = Failed(400)
      BY <2>2, <2>11 DEF Line, ParseHttpHead
    <3>2. Session!Verdict(All, p) = "bad"
      <4>1. p # 1
        BY <2>5
      <4> QED
        BY <2>6, <2>11, <4>1, Verdicts
    <3> QED
      BY <2>7, <3>1, <3>2
  <2>12. CASE LineSize # 0 /\ ~(LineSize > MaxLine) /\ FirstLine = <<>>
    <3>1. context' = [context EXCEPT !.recv = "BODY"]
      BY <2>2, <2>12 DEF Line, ParseHttpHead
    <3>2. context'.recv = "BODY" /\ context'.request = r
      BY <2>1, <3>1 DEF Contexts
    <3>3. LineSize = 1
      BY <2>6, <2>12
    <3>4. Session!Verdict(All, p) = "blank"
      BY <2>5, <2>6, <2>12, Verdicts
    <3>5. Blank' = p /\ p \in 2 .. Len(taken') /\ Len(taken') = p
      <4>1. Len(r.body) = 0
        BY <2>1
      <4> QED
        BY <2>3, <2>5, <3>2, <3>3, <4>1 DEF Blank, p
    <3>6. context'.request.body = SubSeq(taken', p + 1, Len(taken'))
      <4>1. p + 1 \in Int /\ Len(taken') \in Int /\ Len(taken') < p + 1
        BY <2>5, <3>5
      <4>2. SubSeq(taken', p + 1, Len(taken')) = <<>>
        BY <4>1, SubSeqEmpty
      <4> QED
        BY <2>1, <3>2, <4>2
    <3>7. (Heads(All, context.request, Blank))'
      BY <2>1, <2>3, <3>2, <3>5 DEF Heads
    <3> QED
      BY <2>3, <3>2, <3>4, <3>5, <3>6, <3>7 DEF ParseInv
  <2>13. CASE LineSize # 0 /\ ~(LineSize > MaxLine) /\ FirstLine # <<>> /\ IsHeader(FirstLine)
    <3> DEFINE q == SetHeader(r, FirstLine)
    <3>1. context' = [context EXCEPT !.request = q]
      BY <2>2, <2>13 DEF Line, ParseHttpHead
    <3> HIDE DEF q
    <3>2. context'.recv = "HEAD" /\ context'.request = q
      BY <1>2, <2>1, <3>1 DEF Contexts
    <3>3. Session!Verdict(All, p) = "good"
      <4>1. p # 1
        BY <2>5
      <4> QED
        BY <2>6, <2>13, <4>1, Verdicts
    <3>4. PICK n \in Session!LineStarts(All) : n = p + LineSize
      BY <2>6, <2>13
    <3>5. n > p /\ \A j \in Session!LineStarts(All) : j <= p \/ j >= n
      BY <2>3, <2>5, <2>6, <2>13, <3>4
    <3>6. Heads(All, SetHeader(r, Session!TextAt(All, p)), n)
      <4>1. Heads(All, r, p) /\ r \in Requests /\ p > 1 /\ All \in Seq(Pieces)
        BY <2>1, <2>5, <2>6
      <4> HIDE DEF r
      <4> QED
        BY <3>3, <3>5, <4>1, HeadsNext
    <3>7. Heads(All, q, n)
      BY <2>6, <2>13, <3>6 DEF q
    <3>8. n = Len(taken') + 1 /\ taken' # <<>>
      BY <2>3, <2>5, <3>4 DEF p
    <3>9. (Heads(All, context.request, Len(taken) + 1))'
      BY <2>3, <3>2, <3>7, <3>8 DEF Heads
    <3> QED
      BY <3>2, <3>8, <3>9 DEF ParseInv
  <2> QED
    BY <2>8, <2>9, <2>10, <2>11, <2>12, <2>13
<1> QED
  BY <1>1, <1>2

\* A part of the body follows the ones before it.
LEMMA ParseBody ==
  ASSUME Types, StageInv, ParseInv, RecvHttpBody
  PROVE  ParseInv'
<1>1. CASE ~(context.recv = "BODY" /\ ~aborted')
  <2>1. UNCHANGED <<inbuf, taken, context>>
    BY <1>1 DEF RecvHttpBody
  <2> QED
    BY <2>1, ParseSame
<1>2. CASE context.recv = "BODY" /\ ~aborted'
  <2> DEFINE r == context.request
  <2>1. PICK n \in 0 .. Len(inbuf) :
            /\ Pop(n) /\ All' = All
            /\ taken' \in Seq(Pieces) /\ Len(taken') = Len(taken) + n
            /\ context'.recv = IF n = Missing THEN "OVER" ELSE "BODY"
            /\ context'.request.body = context.request.body \o SubSeq(inbuf, 1, n)
            /\ context'.request.target = context.request.target
            /\ context'.request.connection = context.request.connection
            /\ context'.request.length = context.request.length
            /\ Len(context'.request.body) = Len(context.request.body) + n
            /\ Missing' = Missing - n
    BY <1>2, BodyStep
  <2>2. /\ inbuf \in Seq(Pieces) /\ taken \in Seq(Pieces) /\ r.body \in Seq(Pieces)
        /\ Sound(context)
    BY DEF Types, Sound, Contexts, Requests
  <2>3. Missing \in Int /\ Len(r.body) \in Nat /\ Len(taken) \in Nat /\ Len(inbuf) \in Nat
    BY <2>2, ContentLengthType, LenProperties
  <2>4. /\ Blank \in 2 .. Len(taken) /\ Heads(All, r, Blank) /\ Session!Verdict(All, Blank) = "blank"
        /\ r.body = SubSeq(taken, Blank + 1, Len(taken))
    BY <1>2 DEF ParseInv
  <2>5. Blank' = Blank
    <3>1. Len(context'.request.body) = Len(context.request.body) + n
      BY <2>1
    <3>2. Len(taken') = Len(taken) + n
      BY <2>1
    <3>3. n \in Int
      BY <2>3
    <3> QED
      BY <2>3, <3>1, <3>2, <3>3 DEF Blank
  <2>6. SubSeq(inbuf, 1, n) \in Seq(Pieces) /\ Len(SubSeq(inbuf, 1, n)) = n
        /\ taken' = taken \o SubSeq(inbuf, 1, n)
    BY <2>1, <2>2, SubSeqPieces DEF Pop
  <2>7. context'.request.body = SubSeq(taken', Blank + 1, Len(taken'))
    <3>1. PICK m \in 0 .. Len(taken) : m = Blank
      BY <2>3, <2>4
    <3>2. PICK t \in Seq(Pieces) : t = SubSeq(inbuf, 1, n)
      BY <2>6
    <3>3. SubSeq(taken, m + 1, Len(taken)) \o t = SubSeq(taken \o t, m + 1, Len(taken \o t))
      BY <2>2, SubSeqConcat
    <3> QED
      BY <2>1, <2>4, <2>6, <3>1, <3>2, <3>3
  <2>8. (Heads(All, context.request, Blank))'
    BY <2>1, <2>4, <2>5 DEF Heads
  <2>9. Blank' \in 2 .. Len(taken') /\ context'.recv \in {"BODY", "OVER"}
        /\ (context'.recv = "OVER" => Missing' = 0)
    BY <2>1, <2>3, <2>4, <2>5
  <2> QED
    BY <2>1, <2>4, <2>5, <2>7, <2>8, <2>9 DEF ParseInv
<1> QED
  BY <1>1, <1>2

-----------------------------------------------------------------------------
(***************************************************************************)
(* Nothing is left behind.                                                 *)
(***************************************************************************)

\* A line without a newline is waited for, as long as it is not too long.
LEMMA WaitingLine ==
  ASSUME Types, StageInv, ParseInv, context.recv \in {"LINE", "HEAD"}, LineSize = 0, Len(inbuf) <= MaxLine
  PROVE  Waiting
<1> DEFINE p == Len(taken) + 1
           r == context.request
<1>1. inbuf \in Seq(Pieces) /\ taken \in Seq(Pieces) /\ Sound(context)
  BY DEF Types
<1>2. Len(inbuf) \in Nat /\ Len(taken) \in Nat
  BY <1>1, LenProperties
<1>3. All \in Seq(Pieces) /\ Session!LineEnds(All, p) = {} /\ Len(All) - p + 1 = Len(inbuf)
  BY <1>1, TopLine
<1>4. Heads(All, r, p)
  <2>1. CASE context.recv = "HEAD"
    BY <2>1 DEF ParseInv
  <2>2. CASE context.recv = "LINE"
    <3>1. taken = <<>> /\ context = NewContext
      BY <2>2 DEF ParseInv
    <3>2. Len(taken) = 0 /\ p = 1
      BY <3>1
    <3>3. r.connection = <<>> /\ r.length = <<>>
      BY <3>1 DEF NewContext, NewRequest
    <3> HIDE DEF p, r
    <3>4. Heads(All, r, 1)
      BY <1>3, <3>3, HeadsFront
    <3> QED
      BY <3>2, <3>4
  <2> QED
    BY <2>1, <2>2
<1>5. r.length = <<>> \/ IsLength(r.length)
  BY <1>1 DEF Sound
<1>6. Session!Verdict(All, p) = "wait"
  <2>1. ~(Len(inbuf) > MaxLine)
    BY <1>2, HttpAssumption
  <2> QED
    BY <1>3, <2>1, Verdicts
<1> HIDE DEF p, r
<1>7. Session!Message(All).kind = "wait"
  BY <1>3, <1>4, <1>5, <1>6, MessageAt
<1> QED
  BY <1>7 DEF Waiting

\* What the context keeps of a request with a head, and where its body ends.
LEMMA WithHead ==
  ASSUME Types, ParseInv, context.recv \in {"BODY", "OVER"}
  PROVE  /\ All \in Seq(Pieces) /\ Heads(All, context.request, Blank)
         /\ Session!Verdict(All, Blank) = "blank"
         /\ Blank \in 2 .. Len(taken) /\ Len(taken) \in Nat /\ Len(inbuf) \in Nat
         /\ Len(All) = Len(taken) + Len(inbuf)
         /\ context.request.length = <<>> \/ IsLength(context.request.length)
         /\ Announced(context.request) = ContentLength /\ ContentLength \in Int
         /\ Missing = Blank + ContentLength - Len(taken)
<1>1. inbuf \in Seq(Pieces) /\ taken \in Seq(Pieces) /\ Sound(context)
  BY DEF Types
<1>2. /\ Heads(All, context.request, Blank) /\ Session!Verdict(All, Blank) = "blank"
      /\ Blank \in 2 .. Len(taken)
  BY DEF ParseInv
<1>3. All \in Seq(Pieces) /\ Len(All) = Len(taken) + Len(inbuf)
  BY <1>1, ConcatProperties DEF All
<1>4. Len(inbuf) \in Nat /\ Len(taken) \in Nat
  BY <1>1, LenProperties
<1>5. context.request.length = <<>> \/ IsLength(context.request.length)
  BY <1>1 DEF Sound
<1>6. Announced(context.request) = ContentLength
  BY DEF Announced, ContentLength
<1>7. ContentLength \in Int /\ Len(context.request.body) \in Nat
  BY <1>1, ContentLengthType
<1>8. Missing = Blank + ContentLength - Len(taken)
  BY <1>4, <1>7 DEF Missing, Blank
<1> QED
  BY <1>2, <1>3, <1>4, <1>5, <1>6, <1>7, <1>8

\* A body that is not complete is waited for.
LEMMA WaitingBody ==
  ASSUME Types, ParseInv, context.recv = "BODY", inbuf = <<>>, Missing > 0
  PROVE  Waiting
<1>1. /\ All \in Seq(Pieces) /\ Heads(All, context.request, Blank)
      /\ Session!Verdict(All, Blank) = "blank"
      /\ Blank \in 2 .. Len(taken) /\ Len(taken) \in Nat
      /\ Len(All) = Len(taken) + Len(inbuf)
      /\ context.request.length = <<>> \/ IsLength(context.request.length)
      /\ Announced(context.request) = ContentLength /\ ContentLength \in Int
      /\ Missing = Blank + ContentLength - Len(taken)
  BY WithHead
<1>2. Len(inbuf) = 0
  OBVIOUS
<1>3. Blank + Announced(context.request) > Len(All) /\ Announced(context.request) >= 0
  BY <1>1, <1>2
<1>4. Session!Message(All).kind = "wait"
  BY <1>1, <1>3, MessageAt
<1> QED
  BY <1>4 DEF Waiting

\* Without bytes there is nothing to answer.
LEMMA EmptyWaits ==
  ASSUME NEW s \in Seq(Pieces), Len(s) = 0
  PROVE  Session!Message(s).kind = "wait"
<1>2. NewRequest.connection = <<>> /\ NewRequest.length = <<>>
  BY DEF NewRequest
<1>3. Heads(s, NewRequest, 1)
  BY <1>2, HeadsFront
<1>4. Session!LineEnds(s, 1) = {}
  BY DEF Session!LineEnds
<1>5. Session!Verdict(s, 1) = "wait"
  <2>1. ~(Len(s) - 1 + 1 > MaxLine)
    BY HttpAssumption
  <2> QED
    BY <1>4, <2>1, Verdicts
<1>6. PICK r : r = NewRequest
  OBVIOUS
<1>7. PICK i : i = 1
  OBVIOUS
<1>8. Heads(s, r, i) /\ r.length = <<>> /\ Session!Verdict(s, i) = "wait"
  BY <1>2, <1>3, <1>5, <1>6, <1>7
<1> QED
  BY <1>8, MessageWaits

\* The first line is a matter of the buffer alone.
LEMMA SameLine ==
  ASSUME inbuf' = inbuf
  PROVE  LineSize' = LineSize
  BY DEF LineSize, SelectInSeq

\* What is waited for does not change with what is called.
LEMMA WaitData ==
  ASSUME UNCHANGED <<inbuf, context, taken, aborted>>
  PROVE  All' = All /\ LineSize' = LineSize /\ (Waiting' <=> Waiting)
<1>1. All' = All
  BY DEF All
<1>2. LineSize' = LineSize
  BY SameLine
<1> QED
  BY <1>1, <1>2 DEF Waiting

\* OnMessage stops where there is no input, or begins a stage.
LEMMA WaitOnMessage ==
  ASSUME CoreInv, WaitInv, OnMessage
  PROVE  WaitInv'
<1>1. /\ Types /\ StageInv /\ NestingInv /\ Top = "OnMessage"
      /\ context.recv \in {"LINE", "HEAD", "BODY"}
  BY DEF CoreInv, StageInv, OnMessage
<1>2. UNCHANGED <<inbuf, context, taken, aborted>>
  BY DEF OnMessage
<1>3. Len(nesting) \in Nat /\ Stack(calls, Len(nesting))
  BY <1>1, NestingFacts
<1>4. /\ inbuf = <<>> => Top' \in {"none", "Flush"}
      /\ inbuf # <<>> => Top' = CASE context.recv = "LINE" -> "RecvHttpLine"
                                  [] context.recv = "HEAD" -> "RecvHttpHead"
                                  [] context.recv = "BODY" -> "RecvHttpBody"
  BY <1>1, <1>3, OnMessageCalls
<1>5. Waiting' <=> Waiting
  BY <1>2, WaitData
<1> QED
  BY <1>1, <1>2, <1>4, <1>5 DEF WaitInv

\* A line that is not there yet is waited for.
LEMMA WaitLine ==
  ASSUME CoreInv, RecvHttpLine
  PROVE  WaitInv'
<1>1. /\ Types /\ StageInv /\ NestingInv /\ Top = "RecvHttpLine" /\ context.recv = "LINE"
      /\ inbuf \in Seq(Pieces) /\ taken \in Seq(Pieces) /\ Sound(context)
  BY DEF CoreInv, StageInv, RecvHttpLine, Types
<1>2. /\ calls' = Tail(calls) /\ Line(ParseHttpLine(FirstLine))
  BY DEF RecvHttpLine
<1>3. /\ LineSize \in 0 .. Len(inbuf) /\ Len(inbuf) \in Nat /\ FirstLine \in Seq(Pieces)
      /\ Pop(LineSize)
  BY <1>1, <1>2, LineStep
<1>4. /\ Failed(414).recv = "ERROR"
      /\ ParseHttpLine(FirstLine).recv \in {"HEAD", "ERROR"}
  BY <1>1, <1>3, NewContexts
<1>5. Len(nesting) \in Nat /\ Stack(calls, Len(nesting))
  BY <1>1, NestingFacts
<1>6. Top' = "RecvHttpHead"
  BY <1>1, <1>2, <1>5, Returned
<1>7. ASSUME context'.recv = "LINE" PROVE LineSize' = 0 /\ Len(inbuf') <= MaxLine
  <2>1. LineSize = 0 /\ ~(Len(inbuf) > MaxLine)
    BY <1>2, <1>4, <1>7 DEF Line
  <2>2. inbuf' = inbuf
    BY <1>1, <1>3, <2>1, NoPop
  <2>3. LineSize' = LineSize
    BY <2>2, SameLine
  <2> QED
    BY <1>3, <2>1, <2>2, <2>3, HttpAssumption
<1> QED
  BY <1>6, <1>7 DEF WaitInv

\* So is a header line.
LEMMA WaitHead ==
  ASSUME CoreInv, WaitInv, RecvHttpHead
  PROVE  WaitInv'
<1>1. /\ Types /\ StageInv /\ NestingInv /\ Top = "RecvHttpHead"
      /\ context.recv \in {"LINE", "HEAD", "ERROR"}
      /\ inbuf \in Seq(Pieces) /\ taken \in Seq(Pieces) /\ Sound(context)
  BY DEF CoreInv, StageInv, RecvHttpHead, Types
<1>2. Len(nesting) \in Nat /\ Stack(calls, Len(nesting)) /\ calls \in Seq(Names) /\ calls # <<>>
  BY <1>1, NestingFacts DEF Stack, Top
<1>3. calls # Tail(calls)
  <2>1. Len(Tail(calls)) = Len(calls) - 1 /\ Len(calls) \in Nat
    BY <1>2, HeadTailProperties, LenProperties
  <2> QED
    BY <2>1
<1>4. /\ calls' = Tail(calls) => Top' = "RecvHttpBody"
      /\ calls' = calls => Top' = "RecvHttpHead"
      /\ calls' \in {calls, Tail(calls)}
  <2>1. calls' = Tail(calls) => Top' = "RecvHttpBody"
    BY <1>1, <1>2, Returned
  <2>2. calls' = calls => Top' = Top
    BY DEF Top
  <2>3. calls' \in {calls, Tail(calls)}
    BY DEF RecvHttpHead
  <2> QED
    BY <1>1, <2>1, <2>2, <2>3
<1>5. CASE context.recv # "HEAD"
  <2>1. UNCHANGED <<inbuf, context>> /\ calls' = Tail(calls)
    BY <1>5 DEF RecvHttpHead
  <2>2. LineSize' = LineSize
    BY <2>1, SameLine
  <2> QED
    BY <1>1, <1>4, <1>5, <2>1, <2>2 DEF WaitInv
<1>6. CASE context.recv = "HEAD"
  <2>1. /\ Line(ParseHttpHead(FirstLine))
        /\ calls' = IF LineSize > 0 /\ context'.recv = "HEAD" THEN calls ELSE Tail(calls)
    BY <1>6 DEF RecvHttpHead
  <2>2. /\ LineSize \in 0 .. Len(inbuf) /\ Len(inbuf) \in Nat /\ FirstLine \in Seq(Pieces)
        /\ Pop(LineSize) /\ context' \in {context, Failed(414), ParseHttpHead(FirstLine)}
    BY <1>1, <2>1, LineStep
  <2>3. /\ Failed(414).recv = "ERROR"
        /\ ParseHttpHead(FirstLine).recv \in {"HEAD", "BODY", "ERROR"}
    BY <1>1, <1>6, <2>2, NewContexts
  <2>4. context'.recv # "LINE"
    BY <1>6, <2>2, <2>3
  <2>5. ASSUME context'.recv = "HEAD", Top' = "RecvHttpBody"
        PROVE  LineSize' = 0 /\ Len(inbuf') <= MaxLine
    <3>1. calls' = Tail(calls)
      BY <1>4, <2>5
    <3>2. LineSize = 0
      BY <1>3, <2>1, <2>2, <2>5, <3>1
    <3>3. ~(Len(inbuf) > MaxLine)
      BY <2>1, <2>3, <2>5, <3>2 DEF Line
    <3>4. inbuf' = inbuf
      BY <1>1, <2>2, <3>2, NoPop
    <3>5. LineSize' = LineSize
      BY <3>4, SameLine
    <3> QED
      BY <2>2, <3>2, <3>3, <3>4, <3>5, HttpAssumption
  <2> QED
    BY <1>4, <2>4, <2>5 DEF WaitInv
<1> QED
  BY <1>5, <1>6

\* A body that is not complete has taken all there is.
LEMMA WaitBody ==
  ASSUME CoreInv, WaitInv, RecvHttpBody
  PROVE  WaitInv'
<1>1. /\ Types /\ StageInv /\ NestingInv /\ Top = "RecvHttpBody" /\ calls' = Tail(calls)
      /\ Sound(context) /\ inbuf \in Seq(Pieces)
  BY DEF CoreInv, RecvHttpBody, Types
<1>2. Len(nesting) \in Nat /\ Stack(calls, Len(nesting))
  BY <1>1, NestingFacts
<1>3. Top' = "Handle"
  BY <1>1, <1>2, Returned
<1>4. CASE context.recv = "BODY" /\ ~aborted'
  <2>1. PICK n \in 0 .. Len(inbuf) :
            /\ n = Missing \/ n = Len(inbuf)
            /\ inbuf' \in Seq(Pieces) /\ Len(inbuf') = Len(inbuf) - n
            /\ context'.recv = IF n = Missing THEN "OVER" ELSE "BODY"
    BY <1>1, <1>4, BodyStep
  <2>2. context'.recv = "BODY" => Len(inbuf') = 0
    BY <1>1, <2>1, LenProperties
  <2>3. context'.recv = "BODY" => inbuf' = <<>>
    BY <2>1, <2>2, EmptySeq
  <2>4. context'.recv \notin {"LINE", "HEAD"}
    BY <2>1
  <2> QED
    BY <1>3, <2>3, <2>4 DEF WaitInv
<1>5. CASE ~(context.recv = "BODY" /\ ~aborted')
  <2>1. UNCHANGED <<inbuf, context>>
    BY <1>5 DEF RecvHttpBody
  <2>2. LineSize' = LineSize
    BY <2>1, SameLine
  <2> QED
    BY <1>1, <1>3, <1>5, <2>1, <2>2 DEF WaitInv
<1> QED
  BY <1>4, <1>5

\* OnMessage returns when nothing more can be done with what there is.
LEMMA WaitIncomplete ==
  ASSUME CoreInv, ParseInv, WaitInv, HandleIncomplete
  PROVE  WaitInv'
<1>1. /\ Types /\ StageInv /\ NestingInv /\ Top = "Handle" /\ ~aborted
      /\ context.resp < 400 /\ context.recv # "OVER"
  BY DEF CoreInv, HandleIncomplete
<1>2. UNCHANGED <<inbuf, context, taken, aborted>> /\ calls' = Tail(calls)
  BY DEF HandleIncomplete
<1>3. Len(nesting) \in Nat /\ Stack(calls, Len(nesting))
  BY <1>1, NestingFacts
<1>4. Top' \in {"none", "Flush"}
  BY <1>1, <1>2, <1>3, Returned
<1>5. context.recv \in {"LINE", "HEAD", "BODY"}
  BY <1>1 DEF Types, Sound, Contexts
<1>6. Waiting
  <2>1. CASE context.recv \in {"LINE", "HEAD"}
    <3>1. LineSize = 0 /\ Len(inbuf) <= MaxLine
      BY <1>1, <2>1 DEF WaitInv
    <3> QED
      BY <1>1, <2>1, <3>1, WaitingLine
  <2>2. CASE context.recv = "BODY"
    <3>1. inbuf = <<>> /\ Missing > 0
      BY <1>1, <2>2 DEF WaitInv, StageInv
    <3> QED
      BY <1>1, <2>2, <3>1, WaitingBody
  <2> QED
    BY <1>5, <2>1, <2>2
<1>7. Waiting'
  BY <1>2, <1>6, WaitData
<1> QED
  BY <1>4, <1>7 DEF WaitInv

\* Behind an answer OnMessage goes on, unless there is nothing.
LEMMA WaitHandle ==
  ASSUME CoreInv, HandleError \/ HandleRequest
  PROVE  WaitInv'
<1>1. Types /\ NestingInv
  BY DEF CoreInv
<1>2. Len(nesting) \in Nat /\ Stack(calls, Len(nesting))
  BY <1>1, NestingFacts
<1>3. Top' \in {"Shutdown", "OnMessage"}
  BY <1>2, HandleCalls
<1>4. taken' = <<>>
  BY DEF HandleError, HandleRequest
<1>5. ASSUME inbuf' = <<>> PROVE Waiting'
  <2>1. All' \in Seq(Pieces) /\ Len(All') = 0
    BY <1>4, <1>5, EmptySeq, ConcatProperties DEF All
  <2>2. Session!Message(All').kind = "wait"
    BY <2>1, EmptyWaits
  <2> QED
    BY <2>2 DEF Waiting
<1> QED
  BY <1>3, <1>5 DEF WaitInv

\* Shutdown without input, and what returns to it.
LEMMA WaitShutdown ==
  ASSUME CoreInv, WaitInv, Shutdown \/ Flush
  PROVE  WaitInv'
<1>1. Types /\ NestingInv
  BY DEF CoreInv
<1>2. Len(nesting) \in Nat /\ Stack(calls, Len(nesting))
  BY <1>1, NestingFacts
<1>3. UNCHANGED <<inbuf, context, taken, aborted>>
  BY DEF Shutdown, Flush
<1>4. Waiting' <=> Waiting
  BY <1>3, WaitData
<1>5. CASE Shutdown
  <2>1. Top = "Shutdown"
    BY <1>5 DEF Shutdown
  <2>2. Top' = IF inbuf # <<>> THEN "OnMessage" ELSE "Flush"
    BY <1>2, <1>5, ShutdownCalls
  <2> QED
    BY <1>3, <1>4, <2>1, <2>2 DEF WaitInv
<1>6. CASE Flush
  <2>1. Top = "Flush" /\ calls' = Tail(calls)
    BY <1>6 DEF Flush
  <2>2. Top' \in {"none", "OnMessage", "Flush"}
    BY <1>2, <2>1, Returned
  <2> QED
    BY <1>3, <1>4, <2>1, <2>2 DEF WaitInv
<1> QED
  BY <1>5, <1>6

\* What a read adds is behind all that was there.
LEMMA ReadGrows ==
  ASSUME Types, HandleRead
  PROVE  /\ inbuf' # <<>> /\ All \in Seq(Pieces) /\ All' \in Seq(Pieces)
         /\ Len(All) \in Nat /\ Len(All') > Len(All)
         /\ \A k \in 1 .. Len(All) : All'[k] = All[k]
         /\ SubSeq(All', 1, Len(All)) = All
<1>1. PICK n \in 1 .. Len(stream) : inbuf' = inbuf \o SubSeq(stream, 1, n)
  BY DEF HandleRead
<1>2. /\ stream \in Seq(Pieces) /\ inbuf \in Seq(Pieces) /\ taken \in Seq(Pieces)
      /\ taken' = taken
  BY DEF Types, HandleRead
<1>3. Len(stream) \in Nat /\ Len(inbuf) \in Nat /\ Len(taken) \in Nat
  BY <1>2, LenProperties
<1>4. PICK t \in Seq(Pieces) : t = SubSeq(stream, 1, n) /\ Len(t) = n
  <2>1. n \in 0 .. Len(stream)
    BY <1>3
  <2>2. SubSeq(stream, 1, n) \in Seq(Pieces) /\ Len(SubSeq(stream, 1, n)) = n
    BY <1>2, <2>1, SubSeqPieces
  <2> QED
    BY <2>2
<1>5. inbuf' \in Seq(Pieces) /\ Len(inbuf') = Len(inbuf) + n
  BY <1>1, <1>2, <1>4, ConcatProperties
<1>6. inbuf' # <<>>
  <2>1. Len(inbuf') # 0
    BY <1>3, <1>5
  <2> QED
    BY <1>5, <2>1, EmptySeq
<1>7. All \in Seq(Pieces) /\ Len(All) \in Nat
  BY <1>2, ConcatProperties, LenProperties DEF All
<1>8. All' = All \o t
  <2>0. taken \in Seq(Pieces) /\ inbuf \in Seq(Pieces)
    BY <1>2
  <2>1. taken \o (inbuf \o t) = (taken \o inbuf) \o t
    BY <2>0, ConcatAssociative
  <2> QED
    BY <1>1, <1>2, <1>4, <2>1 DEF All
<1>9. /\ All' \in Seq(Pieces) /\ Len(All') = Len(All) + n
      /\ \A k \in 1 .. Len(All) + n : All'[k] = IF k <= Len(All) THEN All[k] ELSE t[k - Len(All)]
  BY <1>4, <1>7, <1>8, ConcatProperties
<1>10. Len(All') > Len(All)
  BY <1>3, <1>7, <1>9
<1>11. \A k \in 1 .. Len(All) : All'[k] = All[k]
  <2> TAKE k \in 1 .. Len(All)
  <2>1. k \in 1 .. Len(All) + n /\ k <= Len(All)
    BY <1>7
  <2> QED
    BY <1>9, <2>1
<1>12. SubSeq(All', 1, Len(All)) = All
  <2>1. Len(All) \in 0 .. Len(All')
    BY <1>3, <1>7, <1>9
  <2>2. /\ SubSeq(All', 1, Len(All)) \in Seq(Pieces) /\ Len(SubSeq(All', 1, Len(All))) = Len(All)
        /\ \A i \in 1 .. Len(All) : SubSeq(All', 1, Len(All))[i] = All'[i]
    BY <1>9, <2>1, SubSeqPieces
  <2> QED
    BY <1>7, <1>11, <2>2, SeqEqual
<1> QED
  BY <1>6, <1>7, <1>9, <1>10, <1>11, <1>12

\* What was known of the bytes is known when more have come.
LEMMA ParseRead ==
  ASSUME CoreInv, ParseInv, HandleRead
  PROVE  ParseInv'
<1>1. /\ Types /\ context.recv \in {"LINE", "HEAD", "BODY"}
      /\ UNCHANGED <<context, taken>>
  <2>1. Types /\ StageInv /\ calls = <<>>
    BY DEF CoreInv, HandleRead, Idle
  <2>2. Top = "none"
    BY <2>1 DEF Top
  <2>3. UNCHANGED <<context, taken>>
    BY DEF HandleRead
  <2> QED
    BY <2>1, <2>2, <2>3 DEF StageInv
<1>2. PICK s \in Seq(Pieces) : s = All
  BY <1>1, ReadGrows
<1>3. PICK t \in Seq(Pieces) : t = All'
  BY <1>1, ReadGrows
<1>4. Len(s) <= Len(t) /\ \A k \in 1 .. Len(s) : t[k] = s[k]
  <2>1. Len(s) \in Nat /\ Len(t) \in Nat
    BY LenProperties
  <2>2. Len(All') > Len(All) /\ \A k \in 1 .. Len(All) : All'[k] = All[k]
    BY <1>1, ReadGrows
  <2> QED
    BY <1>2, <1>3, <2>1, <2>2
<1>5. Missing' = Missing /\ Blank' = Blank
  BY <1>1 DEF Missing, ContentLength, Blank
<1>6. CASE context.recv = "LINE"
  BY <1>1, <1>6 DEF ParseInv
<1>7. CASE context.recv = "HEAD"
  <2>1. taken # <<>> /\ Heads(s, context.request, Len(taken) + 1)
    BY <1>2, <1>7 DEF ParseInv
  <2>2. Heads(t, context.request, Len(taken) + 1)
    BY <1>4, <2>1, GrownHeads
  <2>3. (Heads(All, context.request, Len(taken) + 1))'
    BY <1>1, <1>3, <2>2 DEF Heads
  <2> QED
    BY <1>1, <1>7, <2>1, <2>3 DEF ParseInv
<1>8. CASE context.recv = "BODY"
  <2>1. /\ Blank \in 2 .. Len(taken) /\ Heads(s, context.request, Blank)
        /\ Session!Verdict(s, Blank) = "blank"
        /\ context.request.body = SubSeq(taken, Blank + 1, Len(taken))
    BY <1>2, <1>8 DEF ParseInv
  <2>2. Heads(t, context.request, Blank)
    BY <1>4, <2>1, GrownHeads
  <2>3. Blank \in 1 .. Len(s) + 1
    BY <2>1, Starts DEF Heads
  <2>4. Session!LineEnds(s, Blank) # {}
    <3>1. Session!LineEnds(s, Blank) = {} => Session!Verdict(s, Blank) \in {"toolong", "wait"}
      BY Verdicts
    <3> QED
      BY <2>1, <3>1
  <2>5. Session!Verdict(t, Blank) = "blank"
    BY <1>4, <2>1, <2>3, <2>4, GrownLine
  <2>6. (Heads(All, context.request, Blank))'
    BY <1>1, <1>3, <1>5, <2>2 DEF Heads
  <2> QED
    BY <1>1, <1>3, <1>5, <1>8, <2>1, <2>5, <2>6 DEF ParseInv
<1> QED
  BY <1>1, <1>6, <1>7, <1>8

\* A handler of the connection begins where all that can be answered is answered.
LEMMA WaitConnection ==
  ASSUME CoreInv, WaitInv, HandleRead \/ HandleReadEnd \/ HandleClose
  PROVE  WaitInv'
<1>1. Types /\ NestingInv /\ calls = <<>> /\ Top = "none"
  <2>1. Types /\ NestingInv /\ calls = <<>>
    BY DEF CoreInv, HandleRead, HandleReadEnd, HandleClose, Idle
  <2> QED
    BY <2>1 DEF Top
<1>2. Len(nesting) \in Nat /\ Stack(calls, Len(nesting))
  BY <1>1, NestingFacts
<1>3. calls' \in {<<"OnMessage">>, <<"Shutdown">>, <<>>}
  BY DEF HandleRead, HandleReadEnd, HandleClose
<1>4. Top' = IF calls' = <<>> THEN "none" ELSE calls'[1]
  BY <1>1, <1>2, <1>3, FirstCall
<1>5. Top' \in {"OnMessage", "Shutdown", "none"}
  BY <1>3, <1>4
<1>6. CASE HandleRead
  <2>1. inbuf' # <<>> /\ calls' = <<"OnMessage">>
    BY <1>1, <1>6, ReadGrows DEF HandleRead
  <2>2. Top' = "OnMessage"
    BY <1>4, <2>1
  <2> QED
    BY <2>1, <2>2 DEF WaitInv
<1>7. CASE HandleReadEnd \/ HandleClose
  <2>1. UNCHANGED <<inbuf, context, taken, aborted>>
    BY <1>7 DEF HandleReadEnd, HandleClose
  <2>2. Waiting'
    BY <1>1, <2>1, WaitData DEF WaitInv
  <2> QED
    BY <1>5, <2>2 DEF WaitInv
<1> QED
  BY <1>6, <1>7

\* Nothing that waiting depends on has changed.
LEMMA WaitSame ==
  ASSUME WaitInv, UNCHANGED <<inbuf, context, taken, calls, aborted>>
  PROVE  WaitInv'
<1>1. /\ Top' = Top /\ LineSize' = LineSize /\ (Waiting' <=> Waiting)
  BY WaitData DEF Top
<1> QED
  BY <1>1 DEF WaitInv

\* The whole invariant at the start.
LEMMA InvInit == Init => IInv
<1> SUFFICES ASSUME Init PROVE IInv
  OBVIOUS
<1>1. Types /\ StageInv /\ NestingInv
  BY CoreInit DEF CoreInv
<1>2. /\ context = NewContext /\ taken = <<>> /\ inbuf = <<>> /\ calls = <<>>
  BY DEF Init
<1>3. context.recv = "LINE"
  BY <1>2 DEF NewContext
<1>4. ParseInv
  BY <1>2, <1>3 DEF ParseInv
<1>5. Waiting
  <2>1. All \in Seq(Pieces) /\ Len(All) = 0
    BY <1>2, EmptySeq, ConcatProperties DEF All
  <2> QED
    BY <2>1, EmptyWaits DEF Waiting
<1>6. WaitInv
  BY <1>2, <1>5 DEF WaitInv, Top
<1> QED
  BY <1>1, <1>4, <1>6 DEF IInv

\* Every step keeps the whole invariant.
LEMMA InvStep == IInv /\ [Next]_vars => IInv'
<1> SUFFICES ASSUME IInv, [Next]_vars PROVE IInv'
  OBVIOUS
<1>1. CoreInv /\ Types /\ StageInv /\ NestingInv /\ ParseInv /\ WaitInv
  BY DEF IInv, CoreInv
<1>2. Types' /\ StageInv' /\ NestingInv'
  <2>1. CoreInv'
    BY <1>1, CoreStep
  <2> QED
    BY <2>1 DEF CoreInv
<1>3. ASSUME ParseInv', WaitInv' PROVE IInv'
  BY <1>2, <1>3 DEF IInv
<1>4. CASE OnMessage
  <2>1. UNCHANGED <<inbuf, taken, context>>
    BY <1>4 DEF OnMessage
  <2> QED
    BY <1>1, <1>3, <1>4, <2>1, ParseSame, WaitOnMessage
<1>5. CASE RecvHttpLine
  BY <1>1, <1>3, <1>5, ParseLine, WaitLine
<1>6. CASE RecvHttpHead
  BY <1>1, <1>3, <1>6, ParseHead, WaitHead
<1>7. CASE RecvHttpBody
  BY <1>1, <1>3, <1>7, ParseBody, WaitBody
<1>8. CASE HandleIncomplete
  <2>1. UNCHANGED <<inbuf, taken, context>>
    BY <1>8 DEF HandleIncomplete
  <2> QED
    BY <1>1, <1>3, <1>8, <2>1, ParseSame, WaitIncomplete
<1>9. CASE HandleError \/ HandleRequest
  <2>1. taken' = <<>> /\ context' = NewContext
    BY <1>9 DEF HandleError, HandleRequest
  <2>2. context'.recv = "LINE"
    BY <2>1 DEF NewContext
  <2>3. ParseInv'
    BY <2>1, <2>2 DEF ParseInv, NewContext, NewRequest
  <2> QED
    BY <1>1, <1>3, <1>9, <2>3, WaitHandle
<1>10. CASE Shutdown \/ Flush
  <2>1. UNCHANGED <<inbuf, taken, context>>
    BY <1>10 DEF Shutdown, Flush
  <2> QED
    BY <1>1, <1>3, <1>10, <2>1, ParseSame, WaitShutdown
<1>11. CASE HandleRead
  BY <1>1, <1>3, <1>11, ParseRead, WaitConnection
<1>12. CASE HandleReadEnd \/ HandleClose
  <2>1. UNCHANGED <<inbuf, taken, context>>
    BY <1>12 DEF HandleReadEnd, HandleClose
  <2> QED
    BY <1>1, <1>3, <1>12, <2>1, ParseSame, WaitConnection
<1>13. CASE HandleWrite \/ ReleaseInLoop \/ UNCHANGED vars
  <2>1. UNCHANGED <<inbuf, context, taken, calls, aborted>>
    BY <1>13 DEF HandleWrite, ReleaseInLoop, vars
  <2> QED
    BY <1>1, <1>3, <2>1, ParseSame, WaitSame
<1> QED
  BY <1>4, <1>5, <1>6, <1>7, <1>8, <1>9, <1>10, <1>11, <1>12, <1>13 DEF Next, Handling

\* What the parser keeps between the reads is at all times what a parser that sees all
\* unanswered bytes together knows.
THEOREM ParserHolds == Spec => []IInv
  BY InvInit, InvStep, PTL DEF Spec

\* When OnMessage has returned (918), no complete message is left in the buffer, whatever
\* the stream and wherever TCP has cut it.
THEOREM NothingIsLeftBehind == Spec => []NothingLeftBehind
<1>1. IInv => NothingLeftBehind
  <2> SUFFICES ASSUME IInv, calls = <<>> PROVE Session!Message(taken \o inbuf).kind = "wait"
    BY DEF NothingLeftBehind
  <2>1. Top = "none"
    BY DEF Top
  <2> QED
    BY <2>1 DEF IInv, WaitInv, Waiting, All
<1> QED
  BY <1>1, ParserHolds, PTL

-----------------------------------------------------------------------------
(***************************************************************************)
(* The parser of the pieces answers what the parser of the whole does.     *)
(***************************************************************************)

\* A complete request gets the answer that belongs to its bytes, and they are gone.
LEMMA RequestIsAnswered ==
  ASSUME IInv, HandleRequest
  PROVE  Session!Answer
<1>1. /\ Types /\ ParseInv /\ context.recv = "OVER"
      /\ inbuf \in Seq(Pieces) /\ taken \in Seq(Pieces)
  BY DEF IInv, Types, HandleRequest
<1>2. /\ All \in Seq(Pieces) /\ Heads(All, context.request, Blank)
      /\ Session!Verdict(All, Blank) = "blank"
      /\ Blank \in 2 .. Len(taken) /\ Len(taken) \in Nat /\ Len(inbuf) \in Nat
      /\ Len(All) = Len(taken) + Len(inbuf)
      /\ context.request.length = <<>> \/ IsLength(context.request.length)
      /\ Announced(context.request) = ContentLength /\ ContentLength \in Int
      /\ Missing = Blank + ContentLength - Len(taken)
  BY <1>1, WithHead
<1>3. /\ Missing = 0 /\ context.request.body = SubSeq(taken, Blank + 1, Len(taken))
      /\ Len(context.request.body) = Len(taken) - Blank
  <2>1. Missing = 0 /\ context.request.body = SubSeq(taken, Blank + 1, Len(taken))
    BY <1>1 DEF ParseInv
  <2>2. Len(context.request.body) \in Nat
    BY <1>1, ContentLengthType DEF Types
  <2>3. Len(taken) \in Nat
    BY <1>2
  <2>4. Len(context.request.body) = Len(taken) - Blank
    BY <2>2, <2>3 DEF Blank
  <2> QED
    BY <2>1, <2>4
<1>4. /\ Blank + Announced(context.request) = Len(taken)
      /\ Blank + Announced(context.request) <= Len(All) /\ Announced(context.request) >= 0
  BY <1>2, <1>3
<1>5. Session!Message(All) =
        [kind   |-> "request",
         size   |-> Blank + Announced(context.request),
         answer |-> [status |-> Status(Session!TextAt(All, 1)),
                     body   |-> SubSeq(All, Blank + 1, Blank + Announced(context.request)),
                     last   |-> ~IsKeepAlive(context.request.connection)]]
  <2>1. PICK s \in Seq(Pieces) : s = All
    BY <1>2
  <2>2. PICK r : r = context.request
    OBVIOUS
  <2>3. PICK i : i = Blank
    OBVIOUS
  <2>4. Heads(s, r, i)
    BY <1>2, <2>1, <2>2, <2>3
  <2>5. Session!Verdict(s, i) = "blank"
    BY <1>2, <2>1, <2>3
  <2>6. r.length = <<>> \/ IsLength(r.length)
    BY <1>2, <2>2
  <2>7. i + Announced(r) <= Len(s) /\ Announced(r) >= 0
    BY <1>4, <2>1, <2>2, <2>3
  <2>8. Session!Message(s) =
          [kind   |-> "request",
           size   |-> i + Announced(r),
           answer |-> [status |-> Status(Session!TextAt(s, 1)),
                       body   |-> SubSeq(s, i + 1, i + Announced(r)),
                       last   |-> ~IsKeepAlive(r.connection)]]
    BY <2>4, <2>5, <2>6, <2>7, MessageAt
  <2> QED
    BY <2>1, <2>2, <2>3, <2>8
<1>6. context.request.target = Session!TextAt(All, 1)
  <2>1. Blank > 1
    BY <1>2
  <2> QED
    BY <1>2, <2>1 DEF Heads
<1>7. SubSeq(All, Blank + 1, Len(taken)) = context.request.body
  <2>1. CASE Blank = Len(taken)
    <3>1. Blank + 1 \in Int /\ Len(taken) \in Int /\ Len(taken) < Blank + 1
      BY <1>2, <2>1
    <3>2. SubSeq(All, Blank + 1, Len(taken)) = <<>> /\ SubSeq(taken, Blank + 1, Len(taken)) = <<>>
      BY <3>1, SubSeqEmpty
    <3> QED
      BY <1>3, <3>2
  <2>2. CASE Blank # Len(taken)
    <3>1. Blank + 1 \in 1 .. Len(taken) /\ Len(taken) \in 1 .. Len(taken)
      BY <1>2, <2>2
    <3>2. SubSeq(taken \o inbuf, Blank + 1, Len(taken)) = SubSeq(taken, Blank + 1, Len(taken))
      BY <1>1, <3>1, SubSeqOfConcat1
    <3> QED
      BY <1>3, <3>2 DEF All
  <2> QED
    BY <2>1, <2>2
<1>8. Session!Message(All) = [kind |-> "request", size |-> Len(taken), answer |-> Answer]
  BY <1>4, <1>5, <1>6, <1>7 DEF Answer, Close
<1>9. All' = inbuf
  <2>1. taken' = <<>> /\ inbuf' = inbuf
    BY DEF HandleRequest
  <2>2. <<>> \o inbuf = inbuf
    BY <1>1, ConcatEmptySeq
  <2> QED
    BY <2>1, <2>2 DEF All
<1>10. SubSeq(All, Len(taken) + 1, Len(All)) = inbuf
  <2>1. Len(taken) \in 0 .. Len(taken)
    BY <1>2
  <2>2. SubSeq(taken, Len(taken) + 1, Len(taken)) \o inbuf = SubSeq(All, Len(taken) + 1, Len(All))
    BY <1>1, <2>1, SubSeqConcat DEF All
  <2>3. SubSeq(taken, Len(taken) + 1, Len(taken)) = <<>>
    <3>1. Len(taken) + 1 \in Int /\ Len(taken) \in Int /\ Len(taken) < Len(taken) + 1
      BY <1>2
    <3> QED
      BY <3>1, SubSeqEmpty
  <2>4. <<>> \o inbuf = inbuf
    BY <1>1, ConcatEmptySeq
  <2> QED
    BY <2>2, <2>3, <2>4
<1>11. answers' = Append(answers, Answer)
  BY DEF HandleRequest, WriteReponse
<1>12. PICK m : m = Session!Message(taken \o inbuf)
  OBVIOUS
<1>13. m.kind = "request" /\ m.size = Len(taken) /\ m.answer = Answer
  BY <1>8, <1>12 DEF All
<1>14. (taken \o inbuf)' = SubSeq(taken \o inbuf, m.size + 1, Len(taken \o inbuf))
  BY <1>9, <1>10, <1>13 DEF All
<1> QED
  BY <1>11, <1>12, <1>13, <1>14 DEF Session!Answer

\* A malformed one gets an error, and all bytes are gone.
LEMMA ErrorIsRefused ==
  ASSUME IInv, HandleError
  PROVE  Session!Refuse
<1>1. /\ context.recv = "ERROR" /\ ParseInv
  BY DEF IInv, Types, Sound, Contexts, HandleError
<1>2. Session!Message(All) = [kind |-> "error", status |-> context.resp]
  BY <1>1 DEF ParseInv
<1>3. taken' = <<>> /\ inbuf' = <<>>
      /\ answers' = Append(answers, [status |-> context.resp, body |-> <<>>, last |-> TRUE])
  BY DEF HandleError, WriteReponse, ErrorAnswer
<1>4. All' = <<>>
  BY <1>3 DEF All
<1> QED
  BY <1>2, <1>3, <1>4 DEF Session!Refuse, All

\* Every step answers a message as the parser of the whole does, reads, or is not to be
\* seen by the client.
LEMMA SessionStep == IInv /\ [Next]_vars => [Session!Next]_(Session!vars)
<1> SUFFICES ASSUME IInv, [Next]_vars PROVE [Session!Next]_(Session!vars)
  OBVIOUS
<1>1. Types /\ StageInv /\ inbuf \in Seq(Pieces) /\ taken \in Seq(Pieces)
  BY DEF IInv, Types
<1>2. ASSUME All' = All, answers' = answers PROVE UNCHANGED Session!vars
  BY <1>2 DEF Session!vars, All
<1>3. CASE HandleRequest
  BY <1>3, RequestIsAnswered DEF Session!Next
<1>4. CASE HandleError
  BY <1>4, ErrorIsRefused DEF Session!Next
<1>5. CASE HandleRead
  <2>1. Len(All') > Len(All) /\ SubSeq(All', 1, Len(All)) = All /\ answers' = answers
    BY <1>1, <1>5, ReadGrows DEF HandleRead
  <2> QED
    BY <2>1 DEF Session!Next, Session!Receive, All
<1>6. CASE RecvHttpLine
  <2>1. All' = All /\ answers' = answers
    BY <1>1, <1>6, LineStep DEF RecvHttpLine
  <2> QED
    BY <1>2, <2>1
<1>7. CASE RecvHttpHead
  <2>1. All' = All
    <3>1. CASE context.recv = "HEAD"
      BY <1>1, <1>7, <3>1, LineStep DEF RecvHttpHead
    <3>2. CASE context.recv # "HEAD"
      BY <1>7, <3>2 DEF RecvHttpHead, All
    <3> QED
      BY <3>1, <3>2
  <2> QED
    BY <1>2, <1>7, <2>1 DEF RecvHttpHead
<1>8. CASE RecvHttpBody
  <2>1. All' = All
    <3>1. CASE context.recv = "BODY" /\ ~aborted'
      BY <1>1, <1>8, <3>1, BodyStep
    <3>2. CASE ~(context.recv = "BODY" /\ ~aborted')
      BY <1>8, <3>2 DEF RecvHttpBody, All
    <3> QED
      BY <3>1, <3>2
  <2> QED
    BY <1>2, <1>8, <2>1 DEF RecvHttpBody
<1>9. CASE \/ OnMessage \/ HandleIncomplete \/ Shutdown \/ Flush
           \/ HandleReadEnd \/ HandleClose \/ HandleWrite \/ ReleaseInLoop \/ UNCHANGED vars
  <2>1. UNCHANGED <<inbuf, taken, answers>>
    BY <1>9 DEF OnMessage, HandleIncomplete, Shutdown, Flush, HandleReadEnd, HandleClose,
                HandleWrite, ReleaseInLoop, vars
  <2> QED
    BY <1>2, <2>1 DEF All
<1> QED
  BY <1>3, <1>4, <1>5, <1>6, <1>7, <1>8, <1>9 DEF Next, Handling

\* HttpContext and HttpServer give the answers that a server gives which sees the whole
\* stream at once: where TCP cuts the stream makes no difference (915-957).
THEOREM ServerImplementsSession == Spec => ImplementsSession
<1>1. Init => Session!Init
  <2>1. <<>> \o <<>> = <<>>
    OBVIOUS
  <2> QED
    BY <2>1 DEF Init, Session!Init
<1> QED
  BY <1>1, SessionStep, ParserHolds, PTL DEF Spec, ImplementsSession, Session!Spec
=============================================================================
