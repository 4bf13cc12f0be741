---------------------------- MODULE RoutingProofs ----------------------------
(***************************************************************************)
(* Proofs about Routing, for any requests of ASCII text, any other request *)
(* targets, any handlers, files and names.  Split, UrlDecode and SetParams *)
(* work along a text; each is described by a function that says what it    *)
(* makes of the text from, or up to, every place, and what is claimed of   *)
(* every place is proved by induction on the places.                       *)
(***************************************************************************)
EXTENDS Routing, SequenceTheorems, FiniteSetTheorems, WellFoundedInduction, TLAPS

-----------------------------------------------------------------------------
(***************************************************************************)
(* Sequences and numbers.                                                  *)
(***************************************************************************)

\* A set of numbers that is not empty has a smallest one.
LEMMA SmallestExists ==
  ASSUME NEW S \in SUBSET Nat, S # {}
  PROVE  \E x \in S : \A y \in S : x <= y
<1>1. PICK x \in S : \A y \in S : ~(<<y, x>> \in OpToRel(<, Nat))
  BY NatLessThanWellFounded, WFMin
<1>2. ASSUME NEW y \in S PROVE x <= y
  <2>1. <<y, x>> \in Nat \X Nat /\ <<y, x>>[1] = y /\ <<y, x>>[2] = x
    OBVIOUS
  <2>2. ~(y < x)
    BY <1>1, <2>1 DEF OpToRel
  <2> QED
    BY <2>2
<1> QED
  BY <1>1, <1>2

\* Induction from the first place on, for a set of places.
LEMMA Upwards ==
  ASSUME NEW n \in Nat, NEW P,
         \A i \in 0 .. n : (\A j \in 0 .. i - 1 : j \in P) => i \in P
  PROVE  \A i \in 0 .. n : i \in P
<1> DEFINE Rest == {i \in 0 .. n : i \notin P}
<1> SUFFICES ASSUME Rest # {} PROVE FALSE
  OBVIOUS
<1>1. PICK x \in Rest : \A y \in Rest : x <= y
  <2>1. Rest \in SUBSET Nat
    OBVIOUS
  <2> QED
    BY <2>1, SmallestExists
<1>2. \A j \in 0 .. x - 1 : j \in P
  BY <1>1
<1> QED
  BY <1>1, <1>2

\* Induction from the last place back.
LEMMA Downwards ==
  ASSUME NEW n \in Nat, NEW P,
         \A i \in 0 .. n : (\A j \in i + 1 .. n : j \in P) => i \in P
  PROVE  \A i \in 0 .. n : i \in P
<1> DEFINE Q == {i \in 0 .. n : n - i \in P}
<1>1. ASSUME NEW i \in 0 .. n, \A j \in 0 .. i - 1 : j \in Q PROVE i \in Q
  <2>1. ASSUME NEW j \in (n - i) + 1 .. n PROVE j \in P
    <3>1. n - j \in 0 .. i - 1 /\ n - (n - j) = j
      OBVIOUS
    <3>2. n - j \in Q
      BY <1>1, <3>1
    <3> QED
      BY <3>1, <3>2
  <2>2. n - i \in 0 .. n
    OBVIOUS
  <2>3. n - i \in P
    BY <2>1, <2>2
  <2> QED
    BY <2>3
<1>2. \A i \in 0 .. n : i \in Q
  <2> HIDE DEF Q
  <2> QED
    BY <1>1, Upwards
<1>3. ASSUME NEW i \in 0 .. n PROVE i \in P
  <2>1. n - i \in 0 .. n /\ n - (n - i) = i
    OBVIOUS
  <2> QED
    BY <1>2, <2>1
<1> QED
  BY <1>3

\* A sequence between two places.
LEMMA SubSeqOf ==
  ASSUME NEW S, NEW s \in Seq(S), NEW a \in 1 .. Len(s) + 1, NEW b \in 0 .. Len(s), a <= b + 1
  PROVE  /\ SubSeq(s, a, b) \in Seq(S)
         /\ Len(SubSeq(s, a, b)) = b + 1 - a
         /\ \A i \in 1 .. b + 1 - a : SubSeq(s, a, b)[i] = s[a + i - 1]
<1>1. Len(s) \in Nat
  BY LenProperties
<1>2. \A i \in a .. b : s[i] \in S
  BY <1>1, ElementOfSeq
<1>3. a \in Int /\ b \in Int
  BY <1>1
<1>4. /\ SubSeq(s, a, b) \in Seq(S)
      /\ Len(SubSeq(s, a, b)) = IF a <= b THEN b - a + 1 ELSE 0
      /\ \A i \in 1 .. b - a + 1 : SubSeq(s, a, b)[i] = s[a + i - 1]
  BY <1>2, <1>3, SubSeqProperties
<1>5. b - a + 1 = b + 1 - a /\ (~(a <= b) => b + 1 - a = 0)
  BY <1>1, <1>3
<1> QED
  BY <1>4, <1>5

\* The parts of a sum of two sequences.
LEMMA SubSeqOfSum ==
  ASSUME NEW S, NEW s \in Seq(S), NEW t \in Seq(S)
  PROVE  /\ SubSeq(s \o t, 1, Len(s)) = s
         /\ SubSeq(s \o t, Len(s) + 1, Len(s \o t)) = t
<1> DEFINE w == s \o t
<1>1. /\ w \in Seq(S) /\ Len(w) = Len(s) + Len(t)
      /\ \A i \in 1 .. Len(s) + Len(t) : w[i] = IF i <= Len(s) THEN s[i] ELSE t[i - Len(s)]
      /\ Len(s) \in Nat /\ Len(t) \in Nat
  BY ConcatProperties, LenProperties
<1> HIDE DEF w
<1>2. SubSeq(w, 1, Len(s)) = s
  <2>1. /\ SubSeq(w, 1, Len(s)) \in Seq(S) /\ Len(SubSeq(w, 1, Len(s))) = Len(s)
        /\ \A i \in 1 .. Len(s) : SubSeq(w, 1, Len(s))[i] = w[1 + i - 1]
    <3>1. 1 \in 1 .. Len(w) + 1 /\ Len(s) \in 0 .. Len(w) /\ 1 <= Len(s) + 1 /\ Len(s) + 1 - 1 = Len(s)
      BY <1>1
    <3> QED
      BY <1>1, <3>1, SubSeqOf
  <2>2. \A i \in 1 .. Len(s) : SubSeq(w, 1, Len(s))[i] = s[i]
    BY <1>1, <2>1
  <2> QED
    BY <2>1, <2>2, SeqEqual
<1>3. SubSeq(w, Len(s) + 1, Len(w)) = t
  <2>1. /\ SubSeq(w, Len(s) + 1, Len(w)) \in Seq(S) /\ Len(SubSeq(w, Len(s) + 1, Len(w))) = Len(t)
        /\ \A i \in 1 .. Len(t) : SubSeq(w, Len(s) + 1, Len(w))[i] = w[Len(s) + 1 + i - 1]
    <3>1. /\ Len(s) + 1 \in 1 .. Len(w) + 1 /\ Len(w) \in 0 .. Len(w) /\ Len(s) + 1 <= Len(w) + 1
          /\ Len(w) + 1 - (Len(s) + 1) = Len(t)
      BY <1>1
    <3> QED
      BY <1>1, <3>1, SubSeqOf
  <2>2. ASSUME NEW i \in 1 .. Len(t) PROVE SubSeq(w, Len(s) + 1, Len(w))[i] = t[i]
    <3>1. /\ Len(s) + 1 + i - 1 = Len(s) + i /\ Len(s) + i \in 1 .. Len(s) + Len(t)
          /\ ~(Len(s) + i <= Len(s)) /\ Len(s) + i - Len(s) = i
      BY <1>1
    <3> QED
      BY <1>1, <2>1, <3>1
  <2> QED
    BY <2>1, <2>2, SeqEqual
<1> QED
  BY <1>2, <1>3 DEF w

-----------------------------------------------------------------------------
(***************************************************************************)
(* What the operators of the library and the recursive functions compute.  *)
(***************************************************************************)

\* The smallest number of a set that has one.
LEMMA MinOf ==
  ASSUME NEW S \in SUBSET Int, NEW x \in S, \A y \in S : x <= y
  PROVE  Min(S) = x
<1>1. \A y \in S : (\A z \in S : y <= z) => y = x
  OBVIOUS
<1> QED
  BY <1>1 DEF Min

\* string::find gives the first place of the character, or the end.
LEMMA FindIs ==
  ASSUME NEW S, NEW s \in Seq(S), NEW c, NEW from \in 1 .. Len(s) + 1,
         NEW pos \in from .. Len(s) + 1,
         pos <= Len(s) => s[pos] = c,
         \A i \in from .. pos - 1 : s[i] # c
  PROVE  Find(s, c, from) = pos
<1>1. Len(s) \in Nat
  BY LenProperties
<1> DEFINE T == {i \in from .. Len(s) : s[i] = c} \union {Len(s) + 1}
<1>2. T \in SUBSET Int /\ pos \in T /\ \A y \in T : pos <= y
  BY <1>1
<1>3. Min(T) = pos
  <2> HIDE DEF T
  <2> QED
    BY <1>2, MinOf
<1> QED
  BY <1>3 DEF Find

\* Where string::find stops.
LEMMA FindStops ==
  ASSUME NEW S, NEW s \in Seq(S), NEW c, NEW from \in 1 .. Len(s) + 1
  PROVE  /\ Find(s, c, from) \in from .. Len(s) + 1
         /\ Find(s, c, from) <= Len(s) => s[Find(s, c, from)] = c
         /\ \A i \in from .. Find(s, c, from) - 1 : s[i] # c
<1>1. Len(s) \in Nat
  BY LenProperties
<1> DEFINE T == {i \in from .. Len(s) : s[i] = c} \union {Len(s) + 1}
<1>2. PICK x \in T : \A y \in T : x <= y
  <2>1. T \in SUBSET Nat /\ T # {}
    BY <1>1
  <2> QED
    BY <2>1, SmallestExists
<1>3. /\ x \in from .. Len(s) + 1
      /\ x <= Len(s) => s[x] = c
      /\ \A i \in from .. x - 1 : s[i] # c
  BY <1>1, <1>2
<1>4. Find(s, c, from) = x
  BY <1>3, FindIs
<1> QED
  BY <1>3, <1>4

\* The functions that put a piece in front of what they are at a later place.
Walks(S, n, A, nxt) ==
    {f \in [1 .. n + 1 -> Seq(S)] :
        f[n + 1] = <<>> /\ \A i \in 1 .. n : f[i] = A[i] \o f[nxt[i]]}

LEMMA WalkExists ==
  ASSUME NEW S, NEW n \in Nat, NEW A \in [1 .. n -> Seq(S)],
         NEW nxt \in [1 .. n -> 1 .. n + 1], \A i \in 1 .. n : nxt[i] > i
  PROVE  \E f : f \in Walks(S, n, A, nxt)
<1> DEFINE Fits(k) == {f \in [1 .. n + 1 -> Seq(S)] :
                         f[n + 1] = <<>> /\ \A i \in k + 1 .. n : f[i] = A[i] \o f[nxt[i]]}
           P == {k \in 0 .. n : Fits(k) # {}}
<1> HIDE DEF Fits, P
<1>1. n \in P
  <2> DEFINE f == [i \in 1 .. n + 1 |-> <<>>]
  <2>1. <<>> \in Seq(S)
    BY EmptySeq
  <2>2. f \in [1 .. n + 1 -> Seq(S)] /\ f[n + 1] = <<>>
    BY <2>1
  <2>3. n + 1 .. n = {}
    OBVIOUS
  <2>4. f \in Fits(n)
    BY <2>2, <2>3 DEF Fits
  <2> QED
    BY <2>4 DEF P
<1>2. ASSUME NEW k \in 0 .. n, \A j \in k + 1 .. n : j \in P PROVE k \in P
  <2>1. CASE k = n
    BY <1>1, <2>1
  <2>2. CASE k < n
    <3>1. k + 1 \in 1 .. n /\ k + 1 \in k + 1 .. n
      BY <2>2
    <3>2. PICK f \in Fits(k + 1) : TRUE
      BY <1>2, <3>1 DEF P
    <3>3. /\ f \in [1 .. n + 1 -> Seq(S)] /\ f[n + 1] = <<>>
          /\ \A i \in (k + 1) + 1 .. n : f[i] = A[i] \o f[nxt[i]]
      BY <3>2 DEF Fits
    <3> DEFINE e == A[k + 1] \o f[nxt[k + 1]]
               g == [f EXCEPT ![k + 1] = e]
    <3>4. e \in Seq(S)
      <4>1. A[k + 1] \in Seq(S) /\ f[nxt[k + 1]] \in Seq(S)
        BY <3>1, <3>3
      <4> QED
        BY <4>1, ConcatProperties
    <3> HIDE DEF e
    <3>5. /\ g \in [1 .. n + 1 -> Seq(S)] /\ g[k + 1] = e
          /\ \A i \in 1 .. n + 1 : i # k + 1 => g[i] = f[i]
      BY <3>1, <3>3, <3>4
    <3> HIDE DEF g
    <3>6. g[n + 1] = <<>>
      BY <3>1, <3>3, <3>5
    <3>7. ASSUME NEW i \in k + 1 .. n PROVE g[i] = A[i] \o g[nxt[i]]
      <4>1. i \in 1 .. n /\ nxt[i] \in 1 .. n + 1 /\ nxt[i] > i
        BY <3>1
      <4>2. g[nxt[i]] = f[nxt[i]]
        BY <3>5, <4>1
      <4>3. CASE i = k + 1
        BY <3>5, <4>2, <4>3 DEF e
      <4>4. CASE i # k + 1
        <5>1. i \in (k + 1) + 1 .. n /\ i \in 1 .. n + 1
          BY <4>4
        <5>2. f[i] = A[i] \o f[nxt[i]]
          BY <3>3, <5>1
        <5>3. g[i] = f[i]
          BY <3>5, <4>4, <5>1
        <5> QED
          BY <4>2, <5>2, <5>3
      <4> QED
        BY <4>3, <4>4
    <3>8. g \in Fits(k)
      BY <3>5, <3>6, <3>7 DEF Fits
    <3> QED
      BY <3>8 DEF P
  <2> QED
    BY <2>1, <2>2
<1>3. \A k \in 0 .. n : k \in P
  BY <1>2, Downwards
<1>4. PICK f \in Fits(0) : TRUE
  <2>1. 0 \in 0 .. n
    OBVIOUS
  <2>2. 0 \in P
    BY <1>3, <2>1
  <2> QED
    BY <2>2 DEF P
<1>5. /\ f \in [1 .. n + 1 -> Seq(S)] /\ f[n + 1] = <<>>
      /\ \A i \in 0 + 1 .. n : f[i] = A[i] \o f[nxt[i]]
  BY <1>4 DEF Fits
<1>6. 0 + 1 = 1
  OBVIOUS
<1> QED
  BY <1>5, <1>6 DEF Walks

\* Any such function has sequences for values.
LEMMA WalkTypes ==
  ASSUME NEW S, NEW n \in Nat, NEW A \in [1 .. n -> Seq(S)],
         NEW nxt \in [1 .. n -> 1 .. n + 1], \A i \in 1 .. n : nxt[i] > i,
         NEW f, f[n + 1] = <<>>, \A i \in 1 .. n : f[i] = A[i] \o f[nxt[i]]
  PROVE  \A i \in 1 .. n + 1 : f[i] \in Seq(S)
<1> DEFINE P == {k \in 0 .. n : f[k + 1] \in Seq(S)}
<1>1. ASSUME NEW k \in 0 .. n, \A j \in k + 1 .. n : j \in P PROVE k \in P
  <2>1. CASE k = n
    BY <2>1, EmptySeq
  <2>2. CASE k < n
    <3>1. k + 1 \in 1 .. n
      BY <2>2
    <3>2. nxt[k + 1] - 1 \in k + 1 .. n /\ nxt[k + 1] - 1 + 1 = nxt[k + 1]
      BY <3>1
    <3>3. f[nxt[k + 1]] \in Seq(S)
      BY <1>1, <3>2
    <3>4. A[k + 1] \in Seq(S) /\ f[k + 1] = A[k + 1] \o f[nxt[k + 1]]
      BY <3>1
    <3>5. A[k + 1] \o f[nxt[k + 1]] \in Seq(S)
      BY <3>3, <3>4, ConcatProperties
    <3> QED
      BY <3>4, <3>5
  <2> QED
    BY <2>1, <2>2
<1>2. \A k \in 0 .. n : k \in P
  <2> HIDE DEF P
  <2> QED
    BY <1>1, Downwards
<1>3. ASSUME NEW i \in 1 .. n + 1 PROVE f[i] \in Seq(S)
  <2>1. i - 1 \in 0 .. n /\ i - 1 + 1 = i
    OBVIOUS
  <2> QED
    BY <1>2, <2>1
<1> QED
  BY <1>3

\* UrlDecode at one place: what it writes, and where it goes on.
Decoded(url, plus_to_space, i) ==
    IF url[i] = Plus /\ plus_to_space THEN <<Space>>
    ELSE IF url[i] = Percent /\ i + 2 <= Len(url)
         THEN <<(HEXTOI(url[i + 1]) * 16 + HEXTOI(url[i + 2])) % 256>>
    ELSE <<url[i]>>

After(url, plus_to_space, i) ==
    IF url[i] = Plus /\ plus_to_space THEN i + 1
    ELSE IF url[i] = Percent /\ i + 2 <= Len(url) THEN i + 3
    ELSE i + 1

\* The function within UrlDecode.
Decoding(url, plus_to_space) ==
    CHOOSE from :
        from = [i \in 1 .. Len(url) + 1 |->
                  IF i > Len(url) THEN <<>>
                  ELSE IF url[i] = Plus /\ plus_to_space THEN <<Space>> \o from[i + 1]
                  ELSE IF url[i] = Percent /\ i + 2 <= Len(url)
                       THEN <<(HEXTOI(url[i + 1]) * 16 + HEXTOI(url[i + 2])) % 256>> \o from[i + 3]
                  ELSE <<url[i]>> \o from[i + 1]]

\* Whatever is read as a digit has a number for a value.
LEMMA HexInt ==
  ASSUME NEW c \in Byte
  PROVE  HEXTOI(c) \in Int
<1>1. c \in Int
  BY DEF Byte
<1>2. CASE c \in Digits
  BY <1>1, <1>2 DEF HEXTOI
<1>3. CASE c \notin Digits /\ c \in Lower
  BY <1>1, <1>3 DEF HEXTOI
<1>4. CASE c \notin Digits /\ c \notin Lower /\ c \in Upper
  BY <1>1, <1>4 DEF HEXTOI
<1>5. CASE c \notin Digits /\ c \notin Lower /\ c \notin Upper
  BY <1>5 DEF HEXTOI
<1> QED
  BY <1>2, <1>3, <1>4, <1>5

LEMMA UrlDecodeWalk ==
  ASSUME NEW url \in Seq(Byte), NEW p \in BOOLEAN
  PROVE  /\ UrlDecode(url, p) = Decoding(url, p)[1]
         /\ Decoding(url, p) \in [1 .. Len(url) + 1 -> Seq(Byte)]
         /\ Decoding(url, p)[Len(url) + 1] = <<>>
         /\ \A i \in 1 .. Len(url) :
               Decoding(url, p)[i] = Decoded(url, p, i) \o Decoding(url, p)[After(url, p, i)]
<1> DEFINE n == Len(url)
           A == [i \in 1 .. n |-> Decoded(url, p, i)]
           nxt == [i \in 1 .. n |-> After(url, p, i)]
           Walk(f) == /\ DOMAIN f = 1 .. n + 1 /\ f[n + 1] = <<>>
                       /\ \A i \in 1 .. n : f[i] = A[i] \o f[nxt[i]]
           Body(f, i) == IF i > Len(url) THEN <<>>
                  ELSE IF url[i] = Plus /\ p THEN <<Space>> \o f[i + 1]
                  ELSE IF url[i] = Percent /\ i + 2 <= Len(url)
                       THEN <<(HEXTOI(url[i + 1]) * 16 + HEXTOI(url[i + 2])) % 256>> \o f[i + 3]
                  ELSE <<url[i]>> \o f[i + 1]
<1>1. n \in Nat /\ \A i \in 1 .. n : url[i] \in Byte
  BY LenProperties, ElementOfSeq
<1>2. ASSUME NEW i \in 1 .. n
      PROVE  Decoded(url, p, i) \in Seq(Byte) /\ After(url, p, i) \in i + 1 .. n + 1
  <2>1. ASSUME i + 2 <= n
        PROVE  (HEXTOI(url[i + 1]) * 16 + HEXTOI(url[i + 2])) % 256 \in Byte
    <3>1. url[i + 1] \in Byte /\ url[i + 2] \in Byte
      BY <1>1, <2>1
    <3>2. HEXTOI(url[i + 1]) \in Int /\ HEXTOI(url[i + 2]) \in Int
      BY <3>1, HexInt
    <3>3. \A a, b \in Int : (a * 16 + b) % 256 \in 0 .. 255
      OBVIOUS
    <3> QED
      BY <3>2, <3>3 DEF Byte
  <2>2. url[i] \in Byte /\ Space \in Byte
    BY <1>1 DEF Byte, Space
  <2> QED
    BY <1>1, <2>1, <2>2 DEF Decoded, After
<1>3. A \in [1 .. n -> Seq(Byte)] /\ nxt \in [1 .. n -> 1 .. n + 1] /\ \A i \in 1 .. n : nxt[i] > i
  BY <1>1, <1>2
<1>4. ASSUME NEW f PROVE Body(f, n + 1) = <<>>
  BY <1>1
<1>5. ASSUME NEW f, f[n + 1] = <<>>, NEW i \in 1 .. n PROVE A[i] \o f[nxt[i]] = Body(f, i)
  <2>1. A[i] = Decoded(url, p, i) /\ nxt[i] = After(url, p, i) /\ ~(i > n)
    BY <1>1
  <2> HIDE DEF A, nxt
  <2> QED
    BY <1>5, <2>1 DEF Decoded, After, Body
<1> HIDE DEF n, A, nxt, Body
<1>6. ASSUME NEW f, f = [i \in 1 .. n + 1 |-> Body(f, i)] PROVE Walk(f)
  <2>1. n + 1 \in 1 .. n + 1 /\ \A i \in 1 .. n : i \in 1 .. n + 1
    BY <1>1
  <2>2. DOMAIN f = 1 .. n + 1 /\ \A i \in 1 .. n + 1 : f[i] = Body(f, i)
    BY <1>6
  <2>3. f[n + 1] = <<>>
    BY <1>4, <2>1, <2>2
  <2>4. ASSUME NEW i \in 1 .. n PROVE f[i] = A[i] \o f[nxt[i]]
    BY <1>5, <2>1, <2>2, <2>3
  <2> QED
    BY <2>2, <2>3, <2>4
<1>7. \E f : f = [i \in 1 .. n + 1 |-> Body(f, i)]
  <2>0. PICK f : f \in Walks(Byte, n, A, nxt)
    BY <1>1, <1>3, WalkExists
  <2>1. /\ f \in [1 .. n + 1 -> Seq(Byte)] /\ f[n + 1] = <<>>
        /\ \A i \in 1 .. n : f[i] = A[i] \o f[nxt[i]]
    BY <2>0 DEF Walks
  <2>2. ASSUME NEW i \in 1 .. n + 1 PROVE f[i] = Body(f, i)
    <3>1. CASE i = n + 1
      BY <1>4, <2>1, <3>1
    <3>2. CASE i # n + 1
      <4>1. i \in 1 .. n
        BY <1>1, <3>2
      <4>2. f[i] = A[i] \o f[nxt[i]] /\ A[i] \o f[nxt[i]] = Body(f, i)
        BY <1>5, <2>1, <4>1
      <4> QED
        BY <4>2
    <3> QED
      BY <3>1, <3>2
  <2>3. f = [i \in 1 .. n + 1 |-> Body(f, i)]
    BY <2>1, <2>2
  <2> QED
    BY <2>3
<1> DEFINE D == Decoding(url, p)
<1>8. D = [i \in 1 .. n + 1 |-> Body(D, i)]
  BY <1>7 DEF Decoding, D, Body, n
<1> HIDE DEF D
<1>9. Walk(D)
  BY <1>6, <1>8
<1>10. D \in [1 .. n + 1 -> Seq(Byte)]
  <2>1. \A i \in 1 .. n + 1 : D[i] \in Seq(Byte)
    BY <1>1, <1>3, <1>9, WalkTypes
  <2>2. D = [i \in DOMAIN D |-> D[i]]
    BY <1>8
  <2> QED
    BY <1>9, <2>1, <2>2
<1>11. UrlDecode(url, p) = D[1]
  BY Zenon DEF UrlDecode, Decoding, D
<1> QED
  BY <1>9, <1>10, <1>11 DEF D, n, A, nxt

\* Split at one place: the part that begins there, and where the next one begins.
Part(src, sep, i) ==
    IF Find(src, sep, i) = i THEN <<>> ELSE <<SubSeq(src, i, Find(src, sep, i) - 1)>>

Behind(src, sep, i) ==
    IF Find(src, sep, i) > Len(src) THEN Len(src) + 1 ELSE Find(src, sep, i) + 1

\* The function within Split.
Splitting(src, sep) ==
    CHOOSE from :
        from = [offset \in 1 .. Len(src) + 1 |->
                  IF offset > Len(src) THEN <<>>
                  ELSE LET pos == Find(src, sep, offset)
                       IN  (IF pos = offset THEN <<>> ELSE <<SubSeq(src, offset, pos - 1)>>)
                           \o (IF pos > Len(src) THEN <<>> ELSE from[pos + 1])]

LEMMA SplitWalk ==
  ASSUME NEW src \in Seq(Byte), NEW sep
  PROVE  /\ Split(src, sep) = Splitting(src, sep)[1]
         /\ Splitting(src, sep) \in [1 .. Len(src) + 1 -> Seq(Seq(Byte))]
         /\ Splitting(src, sep)[Len(src) + 1] = <<>>
         /\ \A i \in 1 .. Len(src) : Splitting(src, sep)[i] =
               Part(src, sep, i) \o Splitting(src, sep)[Behind(src, sep, i)]
<1> DEFINE n == Len(src)
           A == [i \in 1 .. n |-> Part(src, sep, i)]
           nxt == [i \in 1 .. n |-> Behind(src, sep, i)]
           Walk(f) == /\ DOMAIN f = 1 .. n + 1 /\ f[n + 1] = <<>>
                       /\ \A i \in 1 .. n : f[i] = A[i] \o f[nxt[i]]
           Body(f, i) == IF i > Len(src) THEN <<>>
                  ELSE LET pos == Find(src, sep, i)
                       IN  (IF pos = i THEN <<>> ELSE <<SubSeq(src, i, pos - 1)>>)
                           \o (IF pos > Len(src) THEN <<>> ELSE f[pos + 1])
<1>1. n \in Nat
  BY LenProperties
<1>2. ASSUME NEW i \in 1 .. n
      PROVE  Part(src, sep, i) \in Seq(Seq(Byte)) /\ Behind(src, sep, i) \in i + 1 .. n + 1
  <2>1. Find(src, sep, i) \in i .. n + 1
    BY <1>1, FindStops
  <2>2. SubSeq(src, i, Find(src, sep, i) - 1) \in Seq(Byte)
    <3>1. i \in 1 .. n + 1 /\ Find(src, sep, i) - 1 \in 0 .. n /\ i <= Find(src, sep, i) - 1 + 1
      BY <1>1, <2>1
    <3> QED
      BY <3>1, SubSeqOf
  <2> QED
    BY <1>1, <2>1, <2>2 DEF Part, Behind
<1>3. A \in [1 .. n -> Seq(Seq(Byte))] /\ nxt \in [1 .. n -> 1 .. n + 1] /\ \A i \in 1 .. n : nxt[i] > i
  BY <1>1, <1>2
<1>4. ASSUME NEW f PROVE Body(f, n + 1) = <<>>
  BY <1>1
<1>5. ASSUME NEW f, f[n + 1] = <<>>, NEW i \in 1 .. n PROVE A[i] \o f[nxt[i]] = Body(f, i)
  <2>1. A[i] = Part(src, sep, i) /\ nxt[i] = Behind(src, sep, i) /\ ~(i > n)
    BY <1>1
  <2> HIDE DEF A, nxt
  <2> QED
    BY <1>5, <2>1 DEF Part, Behind, Body
<1> HIDE DEF n, A, nxt, Body
<1>6. ASSUME NEW f, f = [i \in 1 .. n + 1 |-> Body(f, i)] PROVE Walk(f)
  <2>1. n + 1 \in 1 .. n + 1 /\ \A i \in 1 .. n : i \in 1 .. n + 1
    BY <1>1
  <2>2. DOMAIN f = 1 .. n + 1 /\ \A i \in 1 .. n + 1 : f[i] = Body(f, i)
    BY <1>6
  <2>3. f[n + 1] = <<>>
    BY <1>4, <2>1, <2>2
  <2>4. ASSUME NEW i \in 1 .. n PROVE f[i] = A[i] \o f[nxt[i]]
    BY <1>5, <2>1, <2>2, <2>3
  <2> QED
    BY <2>2, <2>3, <2>4
<1>7. \E f : f = [i \in 1 .. n + 1 |-> Body(f, i)]
  <2>0. PICK f : f \in Walks(Seq(Byte), n, A, nxt)
    BY <1>1, <1>3, WalkExists
  <2>1. /\ f \in [1 .. n + 1 -> Seq(Seq(Byte))] /\ f[n + 1] = <<>>
        /\ \A i \in 1 .. n : f[i] = A[i] \o f[nxt[i]]
    BY <2>0 DEF Walks
  <2>2. ASSUME NEW i \in 1 .. n + 1 PROVE f[i] = Body(f, i)
    <3>1. CASE i = n + 1
      BY <1>4, <2>1, <3>1
    <3>2. CASE i # n + 1
      <4>1. i \in 1 .. n
        BY <1>1, <3>2
      <4>2. f[i] = A[i] \o f[nxt[i]] /\ A[i] \o f[nxt[i]] = Body(f, i)
        BY <1>5, <2>1, <4>1
      <4> QED
        BY <4>2
    <3> QED
      BY <3>1, <3>2
  <2>3. f = [i \in 1 .. n + 1 |-> Body(f, i)]
    BY <2>1, <2>2
  <2> QED
    BY <2>3
<1> DEFINE D == Splitting(src, sep)
<1>8. D = [i \in 1 .. n + 1 |-> Body(D, i)]
  BY <1>7 DEF Splitting, D, Body, n
<1> HIDE DEF D
<1>9. Walk(D)
  BY <1>6, <1>8
<1>10. D \in [1 .. n + 1 -> Seq(Seq(Byte))]
  <2>1. \A i \in 1 .. n + 1 : D[i] \in Seq(Seq(Byte))
    BY <1>1, <1>3, <1>9, WalkTypes
  <2>2. D = [i \in DOMAIN D |-> D[i]]
    BY <1>8
  <2> QED
    BY <1>9, <2>1, <2>2
<1>11. Split(src, sep) = D[1]
  BY Zenon DEF Split, Splitting, D
<1> QED
  BY <1>9, <1>10, <1>11 DEF D, n, A, nxt

\* The function within SetParams.
Setting(params, strs) ==
    CHOOSE set :
        set = [i \in 0 .. Len(strs) |-> IF i = 0 THEN params ELSE SetParam(set[i - 1], strs[i])]

\* A function that is right up to a place.
SetUpTo(params, strs, k, f) ==
    /\ f = [i \in 0 .. Len(strs) |-> f[i]]
    /\ f[0] = params
    /\ \A i \in 1 .. k : f[i] = SetParam(f[i - 1], strs[i])

LEMMA SetParamsWalk ==
  ASSUME NEW S, NEW params, NEW strs \in Seq(S)
  PROVE  /\ SetParams(params, strs) = Setting(params, strs)[Len(strs)]
         /\ Setting(params, strs)[0] = params
         /\ \A i \in 1 .. Len(strs) :
               Setting(params, strs)[i] = SetParam(Setting(params, strs)[i - 1], strs[i])
<1> DEFINE n == Len(strs)
           Fits(k, f) == SetUpTo(params, strs, k, f)
           P == {k \in 0 .. n : \E f : Fits(k, f)}
<1>1. n \in Nat
  BY LenProperties
<1> HIDE DEF Fits, P
<1>2. ASSUME NEW k \in 0 .. n, \A j \in 0 .. k - 1 : j \in P PROVE k \in P
  <2>1. CASE k = 0
    <3> DEFINE f == [i \in 0 .. n |-> params]
    <3>1. 0 \in 0 .. n /\ 1 .. k = {}
      BY <1>1, <2>1
    <3>2. f = [i \in 0 .. n |-> f[i]] /\ f[0] = params
      BY <3>1
    <3> HIDE DEF f
    <3>3. Fits(k, f)
      BY <3>1, <3>2 DEF Fits, SetUpTo
    <3> QED
      BY <3>3 DEF P
  <2>2. CASE k > 0
    <3>1. k - 1 \in 0 .. k - 1 /\ k \in 0 .. n
      BY <1>1, <2>2
    <3>2. PICK f : Fits(k - 1, f)
      BY <1>2, <3>1 DEF P
    <3>3. /\ f = [i \in 0 .. n |-> f[i]] /\ f[0] = params
          /\ \A i \in 1 .. k - 1 : f[i] = SetParam(f[i - 1], strs[i])
      BY <3>2 DEF Fits, SetUpTo
    <3> DEFINE e == SetParam(f[k - 1], strs[k])
               g == [i \in 0 .. n |-> IF i = k THEN e ELSE f[i]]
    <3> HIDE DEF e
    <3>4. /\ g = [i \in 0 .. n |-> g[i]] /\ g[k] = e
          /\ \A i \in 0 .. n : i # k => g[i] = f[i]
      BY <3>1
    <3> HIDE DEF g
    <3>5. g[0] = params
      BY <1>1, <2>2, <3>3, <3>4
    <3>6. ASSUME NEW i \in 1 .. k PROVE g[i] = SetParam(g[i - 1], strs[i])
      <4>1. i - 1 \in 0 .. n /\ i - 1 # k /\ i \in 0 .. n
        BY <1>1, <3>1
      <4>2. g[i - 1] = f[i - 1]
        BY <3>4, <4>1
      <4>3. CASE i = k
        BY <3>4, <4>2, <4>3 DEF e
      <4>4. CASE i # k
        <5>1. i \in 1 .. k - 1
          BY <3>1, <4>4
        <5>2. f[i] = SetParam(f[i - 1], strs[i]) /\ g[i] = f[i]
          BY <3>3, <3>4, <4>1, <4>4, <5>1
        <5> QED
          BY <4>2, <5>2
      <4> QED
        BY <4>3, <4>4
    <3>7. Fits(k, g)
      BY <3>4, <3>5, <3>6 DEF Fits, SetUpTo
    <3> QED
      BY <3>7 DEF P
  <2> QED
    BY <1>1, <2>1, <2>2
<1>3. n \in P
  <2>1. n \in 0 .. n
    BY <1>1
  <2>2. \A k \in 0 .. n : k \in P
    BY <1>1, <1>2, Upwards
  <2> QED
    BY <2>1, <2>2
<1>4. PICK f : Fits(n, f)
  BY <1>3 DEF P
<1>5. f = [i \in 0 .. n |-> IF i = 0 THEN params ELSE SetParam(f[i - 1], strs[i])]
  <2>1. /\ f = [i \in 0 .. n |-> f[i]] /\ f[0] = params
        /\ \A i \in 1 .. n : f[i] = SetParam(f[i - 1], strs[i])
    BY <1>4 DEF Fits, SetUpTo
  <2>2. \A i \in 0 .. n : f[i] = IF i = 0 THEN params ELSE SetParam(f[i - 1], strs[i])
    <3> TAKE i \in 0 .. n
    <3>1. i # 0 => i \in 1 .. n
      BY <1>1
    <3> QED
      BY <2>1, <3>1
  <2> QED
    BY <2>1, <2>2
<1> DEFINE D == Setting(params, strs)
<1>6. D = [i \in 0 .. n |-> IF i = 0 THEN params ELSE SetParam(D[i - 1], strs[i])]
  BY <1>5 DEF Setting
<1>7. SetParams(params, strs) = D[n]
  BY Zenon DEF SetParams, Setting
<1> HIDE DEF D
<1>8. 0 \in 0 .. n /\ \A i \in 1 .. n : i \in 0 .. n /\ i # 0
  BY <1>1
<1>9. D[0] = params /\ \A i \in 1 .. n : D[i] = SetParam(D[i - 1], strs[i])
  BY <1>6, <1>8
<1> QED
  BY <1>7, <1>9 DEF D

\* The function within FlattenSeq.
Flattening(seqs) ==
    CHOOSE flatten :
        flatten = [i \in 1 .. Len(seqs) |-> IF i = 1 THEN seqs[i] ELSE flatten[i - 1] \o seqs[i]]

FlatUpTo(seqs, k, f) ==
    /\ f = [i \in 1 .. Len(seqs) |-> f[i]]
    /\ \A i \in 1 .. k : f[i] = IF i = 1 THEN seqs[i] ELSE f[i - 1] \o seqs[i]

\* Where the parts of a text end.
Ends(seqs) == [i \in 0 .. Len(seqs) |-> IF i = 0 THEN 0 ELSE Len(Flattening(seqs)[i])]

LEMMA FlatteningWalk ==
  ASSUME NEW S, NEW seqs \in Seq(Seq(S))
  PROVE  \A i \in 1 .. Len(seqs) : Flattening(seqs)[i] =
            IF i = 1 THEN seqs[i] ELSE Flattening(seqs)[i - 1] \o seqs[i]
<1> DEFINE n == Len(seqs)
           Fits(k, f) == FlatUpTo(seqs, k, f)
           P == {k \in 0 .. n : \E f : Fits(k, f)}
<1>1. n \in Nat
  BY LenProperties
<1> HIDE DEF Fits, P
<1>2. ASSUME NEW k \in 0 .. n, \A j \in 0 .. k - 1 : j \in P PROVE k \in P
  <2>1. CASE k = 0
    <3> DEFINE f == [i \in 1 .. n |-> seqs[i]]
    <3>1. f = [i \in 1 .. n |-> f[i]] /\ 1 .. k = {}
      BY <1>1, <2>1
    <3> HIDE DEF f
    <3>2. Fits(k, f)
      BY <3>1 DEF Fits, FlatUpTo
    <3> QED
      BY <3>2 DEF P
  <2>2. CASE k > 0
    <3>1. k - 1 \in 0 .. k - 1 /\ k \in 1 .. n
      BY <1>1, <2>2
    <3>2. PICK f : Fits(k - 1, f)
      BY <1>2, <3>1 DEF P
    <3>3. /\ f = [i \in 1 .. n |-> f[i]]
          /\ \A i \in 1 .. k - 1 : f[i] = IF i = 1 THEN seqs[i] ELSE f[i - 1] \o seqs[i]
      BY <3>2 DEF Fits, FlatUpTo
    <3> DEFINE e == IF k = 1 THEN seqs[k] ELSE f[k - 1] \o seqs[k]
               g == [i \in 1 .. n |-> IF i = k THEN e ELSE f[i]]
    <3> HIDE DEF e
    <3>4. /\ g = [i \in 1 .. n |-> g[i]] /\ g[k] = e
          /\ \A i \in 1 .. n : i # k => g[i] = f[i]
      BY <3>1
    <3> HIDE DEF g
    <3>5. ASSUME NEW i \in 1 .. k PROVE g[i] = IF i = 1 THEN seqs[i] ELSE g[i - 1] \o seqs[i]
      <4>1. i # 1 => g[i - 1] = f[i - 1]
        <5>1. i # 1 => i - 1 \in 1 .. n /\ i - 1 # k
          BY <1>1, <3>1
        <5> QED
          BY <3>4, <5>1
      <4>2. CASE i = k
        BY <3>4, <4>1, <4>2 DEF e
      <4>3. CASE i # k
        <5>1. i \in 1 .. k - 1 /\ i \in 1 .. n
          BY <3>1, <4>3
        <5>2. f[i] = IF i = 1 THEN seqs[i] ELSE f[i - 1] \o seqs[i]
          BY <3>3, <5>1
        <5>3. g[i] = f[i]
          BY <3>4, <4>3, <5>1
        <5> QED
          BY <4>1, <5>2, <5>3
      <4> QED
        BY <4>2, <4>3
    <3>6. Fits(k, g)
      BY <3>4, <3>5 DEF Fits, FlatUpTo
    <3> QED
      BY <3>1, <3>6 DEF P
  <2> QED
    BY <1>1, <2>1, <2>2
<1>3. n \in P
  <2>1. n \in 0 .. n
    BY <1>1
  <2>2. \A k \in 0 .. n : k \in P
    BY <1>1, <1>2, Upwards
  <2> QED
    BY <2>1, <2>2
<1>4. PICK f : Fits(n, f)
  BY <1>3 DEF P
<1>5. f = [i \in 1 .. n |-> IF i = 1 THEN seqs[i] ELSE f[i - 1] \o seqs[i]]
  BY <1>4 DEF Fits, FlatUpTo
<1> DEFINE D == Flattening(seqs)
<1>6. D = [i \in 1 .. n |-> IF i = 1 THEN seqs[i] ELSE D[i - 1] \o seqs[i]]
  BY <1>5 DEF Flattening
<1> HIDE DEF D
<1>7. \A i \in 1 .. n : D[i] = IF i = 1 THEN seqs[i] ELSE D[i - 1] \o seqs[i]
  BY <1>6
<1> QED
  BY <1>7 DEF D

\* A text and what stands behind it.
LEMMA Joined ==
  ASSUME NEW S, NEW s \in Seq(S), NEW t \in Seq(S), NEW w, w = s \o t
  PROVE  /\ w \in Seq(S) /\ Len(s) \in Nat /\ Len(t) \in Nat /\ Len(w) \in Nat
         /\ Len(w) = Len(s) + Len(t)
         /\ \A k \in 1 .. Len(s) : w[k] = s[k]
         /\ \A k \in 1 .. Len(t) : w[Len(s) + k] = t[k]
<1>1. /\ w \in Seq(S) /\ Len(w) = Len(s) + Len(t)
      /\ \A k \in 1 .. Len(s) + Len(t) : w[k] = IF k <= Len(s) THEN s[k] ELSE t[k - Len(s)]
  BY ConcatProperties
<1>2. Len(s) \in Nat /\ Len(t) \in Nat /\ Len(w) \in Nat
  BY <1>1, LenProperties
<1>3. \A k \in 1 .. Len(s) : w[k] = s[k]
  BY <1>1, <1>2
<1>4. ASSUME NEW k \in 1 .. Len(t) PROVE w[Len(s) + k] = t[k]
  <2>1. /\ Len(s) + k \in 1 .. Len(s) + Len(t)
        /\ ~(Len(s) + k <= Len(s)) /\ Len(s) + k - Len(s) = k
    BY <1>2
  <2> QED
    BY <1>1, <2>1
<1> QED
  BY <1>1, <1>2, <1>3, <1>4

\* A text stands in another one behind a place.
Stands(part, text, a) == \A k \in 1 .. Len(part) : text[a + k] = part[k]

\* Texts that grow by the parts of a sequence, and their lengths.
Grows(seqs, G, L) ==
    /\ G[0] = <<>>
    /\ \A i \in 1 .. Len(seqs) : G[i] = G[i - 1] \o seqs[i]
    /\ \A i \in 0 .. Len(seqs) : L[i] = Len(G[i])

LEMMA Growing ==
  ASSUME NEW S, NEW seqs \in Seq(Seq(S)), NEW n, n = Len(seqs), NEW G, NEW L, Grows(seqs, G, L)
  PROVE  /\ \A i \in 0 .. n : /\ G[i] \in Seq(S)
                              /\ L[i] \in Nat /\ L[i] <= L[n]
                              /\ \A k \in 1 .. L[i] : G[n][k] = G[i][k]
         /\ \A i \in 1 .. n : L[i] = L[i - 1] + Len(seqs[i]) /\ Stands(seqs[i], G[n], L[i - 1])
<1>1. n \in Nat /\ \A i \in 1 .. n : seqs[i] \in Seq(S)
  BY LenProperties, ElementOfSeq
<1>2. /\ G[0] = <<>>
      /\ \A i \in 1 .. n : G[i] = G[i - 1] \o seqs[i]
      /\ \A i \in 0 .. n : L[i] = Len(G[i])
  BY DEF Grows
<1>3. \A i \in 0 .. n : G[i] \in Seq(S)
  <2> DEFINE P == {i \in 0 .. n : G[i] \in Seq(S)}
  <2>1. ASSUME NEW i \in 0 .. n, \A j \in 0 .. i - 1 : j \in P PROVE i \in P
    <3>1. CASE i = 0
      BY <1>2, <3>1, EmptySeq
    <3>2. CASE i # 0
      <4>1. i \in 1 .. n /\ i - 1 \in 0 .. i - 1
        BY <1>1, <3>2
      <4>2. G[i - 1] \in Seq(S) /\ seqs[i] \in Seq(S) /\ G[i] = G[i - 1] \o seqs[i]
        BY <1>1, <1>2, <2>1, <4>1
      <4>3. G[i - 1] \o seqs[i] \in Seq(S)
        BY <4>2, ConcatProperties
      <4> QED
        BY <4>2, <4>3
    <3> QED
      BY <3>1, <3>2
  <2>2. \A i \in 0 .. n : i \in P
    <3> HIDE DEF P
    <3> QED
      BY <1>1, <2>1, Upwards
  <2> QED
    BY <2>2
<1>4. ASSUME NEW i \in 1 .. n
      PROVE  /\ L[i - 1] \in Nat /\ L[i] \in Nat /\ Len(seqs[i]) \in Nat
             /\ L[i] = L[i - 1] + Len(seqs[i])
             /\ \A k \in 1 .. L[i - 1] : G[i][k] = G[i - 1][k]
             /\ \A k \in 1 .. Len(seqs[i]) : G[i][L[i - 1] + k] = seqs[i][k]
  <2> DEFINE s == G[i - 1]
             t == seqs[i]
             w == G[i]
  <2>1. i \in 0 .. n /\ i - 1 \in 0 .. n
    BY <1>1
  <2>2. s \in Seq(S) /\ t \in Seq(S) /\ w = s \o t
    BY <1>1, <1>2, <1>3, <2>1
  <2>3. L[i - 1] = Len(s) /\ L[i] = Len(w)
    BY <1>2, <2>1
  <2> HIDE DEF s, t, w
  <2>4. /\ L[i - 1] \in Nat /\ L[i] \in Nat /\ Len(t) \in Nat
        /\ L[i] = L[i - 1] + Len(t)
        /\ \A k \in 1 .. L[i - 1] : w[k] = s[k]
        /\ \A k \in 1 .. Len(t) : w[L[i - 1] + k] = t[k]
    <3> HIDE <2>1
    <3> QED
      BY <2>2, <2>3, Joined
  <2> QED
    BY <2>4 DEF s, t, w
<1>5. \A i \in 0 .. n : L[i] \in Nat
  BY <1>1, <1>2, <1>3, LenProperties
<1>6. \A i \in 0 .. n : L[i] <= L[n] /\ \A k \in 1 .. L[i] : G[n][k] = G[i][k]
  <2> DEFINE P == {i \in 0 .. n : L[i] <= L[n] /\ \A k \in 1 .. L[i] : G[n][k] = G[i][k]}
  <2>1. ASSUME NEW i \in 0 .. n, \A j \in i + 1 .. n : j \in P PROVE i \in P
    <3>1. CASE i = n
      BY <1>5, <3>1
    <3>2. CASE i # n
      <4>1. i + 1 \in i + 1 .. n /\ i + 1 \in 1 .. n /\ i + 1 - 1 = i /\ n \in 0 .. n
        BY <1>1, <3>2
      <4>2. L[i + 1] <= L[n] /\ \A k \in 1 .. L[i + 1] : G[n][k] = G[i + 1][k]
        BY <2>1, <4>1
      <4>3. /\ L[i] \in Nat /\ L[i + 1] \in Nat /\ Len(seqs[i + 1]) \in Nat
            /\ L[i + 1] = L[i] + Len(seqs[i + 1])
            /\ \A k \in 1 .. L[i] : G[i + 1][k] = G[i][k]
        BY <1>4, <4>1
      <4>4. L[n] \in Nat
        BY <1>5, <4>1
      <4>5. L[i] <= L[i + 1]
        BY <4>3
      <4>6. L[i] <= L[n]
        BY <4>2, <4>3, <4>4, <4>5
      <4>7. ASSUME NEW k \in 1 .. L[i] PROVE G[n][k] = G[i][k]
        <5>1. k \in 1 .. L[i + 1]
          BY <4>3, <4>5
        <5> QED
          BY <4>2, <4>3, <5>1
      <4> QED
        BY <4>6, <4>7
    <3> QED
      BY <3>1, <3>2
  <2>2. \A i \in 0 .. n : i \in P
    <3> HIDE DEF P
    <3> QED
      BY <1>1, <2>1, Downwards
  <2> QED
    BY <2>2
<1>7. ASSUME NEW i \in 1 .. n, NEW k \in 1 .. Len(seqs[i])
      PROVE  G[n][L[i - 1] + k] = seqs[i][k]
  <2>1. /\ L[i - 1] \in Nat /\ L[i] \in Nat /\ Len(seqs[i]) \in Nat
        /\ L[i] = L[i - 1] + Len(seqs[i]) /\ i \in 0 .. n
    BY <1>1, <1>4
  <2>2. L[i - 1] + k \in 1 .. L[i]
    BY <2>1
  <2>3. G[n][L[i - 1] + k] = G[i][L[i - 1] + k]
    BY <1>6, <2>1, <2>2
  <2> QED
    BY <1>4, <2>3
<1> QED
  BY <1>3, <1>4, <1>5, <1>6, <1>7 DEF Stands

\* A text in parts, and where they end.
IsFlat(seqs, n, all, L) == n = Len(seqs) /\ all = FlattenSeq(seqs) /\ L = Ends(seqs)

\* A text in parts: each part stands where the ones before it end.
LEMMA Flattened ==
  ASSUME NEW S, NEW seqs \in Seq(Seq(S)), NEW n, NEW all, NEW L,
         IsFlat(seqs, n, all, L)
  PROVE  /\ all \in Seq(S)
         /\ L[0] = 0 /\ L[n] = Len(all)
         /\ \A i \in 0 .. n : L[i] \in Nat /\ L[i] <= Len(all)
         /\ \A i \in 1 .. n : L[i] = L[i - 1] + Len(seqs[i]) /\ Stands(seqs[i], all, L[i - 1])
<1>0. n = Len(seqs) /\ all = FlattenSeq(seqs) /\ L = Ends(seqs)
  BY DEF IsFlat
<1> DEFINE F == Flattening(seqs)
           G == [i \in 0 .. n |-> IF i = 0 THEN <<>> ELSE F[i]]
<1>1. n \in Nat /\ \A i \in 1 .. n : seqs[i] \in Seq(S)
  BY <1>0, LenProperties, ElementOfSeq
<1>2. \A i \in 1 .. n : F[i] = IF i = 1 THEN seqs[i] ELSE F[i - 1] \o seqs[i]
  BY <1>0, FlatteningWalk
<1> HIDE DEF F
<1>3. all = G[n]
  <2>1. CASE n = 0
    <3>1. seqs = <<>>
      BY <1>0, <2>1, EmptySeq
    <3>2. G[n] = <<>>
      BY <2>1
    <3> QED
      BY <1>0, <2>1, <3>1, <3>2 DEF FlattenSeq
  <2>2. CASE n # 0
    <3>1. FlattenSeq(seqs) = F[Len(seqs)]
      <4>1. Len(seqs) # 0
        BY <1>0, <2>2
      <4> QED
        BY <4>1, Zenon DEF FlattenSeq, Flattening, F
    <3>2. G[n] = F[n]
      BY <1>1, <2>2
    <3> QED
      BY <1>0, <3>1, <3>2
  <2> QED
    BY <2>1, <2>2
<1>4. G[0] = <<>>
  BY <1>1
<1>5. ASSUME NEW i \in 1 .. n PROVE G[i] = G[i - 1] \o seqs[i]
  <2>1. G[i] = F[i] /\ seqs[i] \in Seq(S)
    BY <1>1
  <2>2. CASE i = 1
    <3>1. G[i - 1] = <<>>
      BY <1>4, <2>2
    <3>2. F[i] = seqs[i]
      BY <1>2, <2>2
    <3> QED
      BY <2>1, <3>1, <3>2, ConcatEmptySeq
  <2>3. CASE i # 1
    <3>1. G[i - 1] = F[i - 1]
      BY <1>1, <2>3
    <3>2. F[i] = F[i - 1] \o seqs[i]
      BY <1>2, <2>3
    <3> QED
      BY <2>1, <3>1, <3>2
  <2> QED
    BY <2>2, <2>3
<1>6. \A i \in 0 .. n : L[i] = IF i = 0 THEN 0 ELSE Len(G[i])
  BY <1>0, <1>1 DEF Ends, F
<1> HIDE DEF G
<1>7. /\ n \in 0 .. n /\ 0 \in 0 .. n
      /\ \A i \in 1 .. n : i \in 0 .. n /\ i - 1 \in 0 .. n
  BY <1>1
<1>8. \A i \in 0 .. n : L[i] = Len(G[i])
  BY <1>4, <1>6, EmptySeq
<1>9. L[0] = 0 /\ L[n] = Len(all)
  BY <1>3, <1>6, <1>7, <1>8
<1>10. /\ \A i \in 0 .. n : G[i] \in Seq(S) /\ L[i] \in Nat /\ L[i] <= L[n]
       /\ \A i \in 1 .. n : L[i] = L[i - 1] + Len(seqs[i]) /\ Stands(seqs[i], G[n], L[i - 1])
  <2>1. Grows(seqs, G, L)
    BY <1>0, <1>4, <1>5, <1>7, <1>8 DEF Grows
  <2>2. \A i \in 0 .. n : /\ G[i] \in Seq(S)
                          /\ L[i] \in Nat /\ L[i] <= L[n]
                          /\ \A k \in 1 .. L[i] : G[n][k] = G[i][k]
    BY <1>0, <2>1, Growing
  <2>3. \A i \in 1 .. n : L[i] = L[i - 1] + Len(seqs[i]) /\ Stands(seqs[i], G[n], L[i - 1])
    BY <1>0, <2>1, Growing
  <2> QED
    BY <2>2, <2>3
<1>11. all \in Seq(S)
  BY <1>3, <1>7, <1>10
<1> QED
  BY <1>3, <1>9, <1>10, <1>11

-----------------------------------------------------------------------------
(***************************************************************************)
(* UrlDecode takes back what UrlEncode does.                               *)
(***************************************************************************)

\* What does not end a path, a key or a value.
Safe == Byte \ {Question, Equals, Amp}

\* A digit is read as it is printed, and is none of the characters that separate.
LEMMA HexRead ==
  ASSUME NEW d \in 0 .. 15
  PROVE  HEXTOI(HexDigit(d)) = d /\ HexDigit(d) \in Safe
<1>0. \A c \in Digits : HEXTOI(c) = c - 48
  BY DEF HEXTOI, Digits, Lower, Upper
<1>1. CASE d < 10
  <2>1. HexDigit(d) = 48 + d /\ 48 + d \in Digits /\ (48 + d) - 48 = d
    BY <1>1 DEF HexDigit, Digits
  <2>2. HEXTOI(48 + d) = (48 + d) - 48
    BY <1>0, <2>1
  <2>3. 48 + d \in Safe
    BY <1>1 DEF Safe, Byte, Question, Equals, Amp
  <2> QED
    BY <2>1, <2>2, <2>3
<1>2. CASE d >= 10
  <2>1. /\ HexDigit(d) = 55 + d /\ 55 + d \in Upper
        /\ 55 + d \notin Digits /\ 55 + d \notin Lower /\ (55 + d) - 65 + 10 = d
    BY <1>2 DEF HexDigit, Digits, Lower, Upper
  <2>2. HEXTOI(55 + d) = (55 + d) - 65 + 10
    BY <2>1 DEF HEXTOI
  <2>3. 55 + d \in Safe
    BY <1>2 DEF Safe, Byte, Question, Equals, Amp
  <2> QED
    BY <2>1, <2>2, <2>3
<1> QED
  BY <1>1, <1>2

\* An ASCII character in two digits of sixteen.
InDigits(c, q, r) == q = c \div 16 /\ r = c % 16

LEMMA TwoDigits ==
  ASSUME NEW c \in Ascii, NEW q, NEW r, InDigits(c, q, r)
  PROVE  q \in 0 .. 15 /\ r \in 0 .. 15 /\ q * 16 + r = c /\ c % 256 = c
<1>1. \E a \in 0 .. 7, b \in 0 .. 15 : c = a * 16 + b
  BY DEF Ascii
<1>2. PICK a \in 0 .. 7, b \in 0 .. 15 : c = a * 16 + b
  BY <1>1
<1>3. c \in Int /\ c >= 0 /\ c < 128
  BY DEF Ascii
<1>4. q = a /\ r = b
  BY <1>2, <1>3 DEF InDigits
<1>5. c % 256 = c
  BY <1>3
<1>6. q \in 0 .. 15 /\ r \in 0 .. 15 /\ q * 16 + r = c
  BY <1>2, <1>4
<1> QED
  BY <1>5, <1>6

\* The three ways an ASCII character is written.
LEMMA EncodeCases ==
  ASSUME NEW c \in Ascii, NEW p \in BOOLEAN
  PROVE  \/ /\ EncodeChar(c, p) = <<c>>
            /\ c \in Safe \ {Plus, Percent}
         \/ EncodeChar(c, p) = <<Plus>> /\ c = Space /\ p
         \/ EncodeChar(c, p) = <<Percent, HexDigit(c \div 16), HexDigit(c % 16)>>
<1>1. c \in Int /\ c >= 0 /\ c < 128
  BY DEF Ascii
<1>2. CASE c \in {Dot, 45, 95, 126} \union Digits \union Upper \union Lower
  <2>1. c \in Safe \ {Plus, Percent}
    BY <1>2 DEF Safe, Byte, Dot, Digits, Upper, Lower, Plus, Percent, Question, Equals, Amp
  <2>2. EncodeChar(c, p) = <<c>>
    BY <1>2 DEF EncodeChar
  <2> QED
    BY <2>1, <2>2
<1>3. CASE c \notin {Dot, 45, 95, 126} \union Digits \union Upper \union Lower /\ c = Space /\ p
  BY <1>3 DEF EncodeChar
<1>4. CASE c \notin {Dot, 45, 95, 126} \union Digits \union Upper \union Lower /\ ~(c = Space /\ p)
  BY <1>1, <1>4 DEF EncodeChar
<1> QED
  BY <1>2, <1>3, <1>4

LEMMA EncodeCharText ==
  ASSUME NEW c \in Ascii, NEW p \in BOOLEAN
  PROVE  EncodeChar(c, p) \in Seq(Safe)
<1>1. Plus \in Safe /\ Percent \in Safe
  BY DEF Safe, Byte, Plus, Percent, Question, Equals, Amp
<1>2. CASE EncodeChar(c, p) = <<c>> /\ c \in Safe
  BY <1>2
<1>3. CASE EncodeChar(c, p) = <<Plus>>
  BY <1>1, <1>3
<1>4. CASE EncodeChar(c, p) = <<Percent, HexDigit(c \div 16), HexDigit(c % 16)>>
  <2>1. HexDigit(c \div 16) \in Safe /\ HexDigit(c % 16) \in Safe
    <3> DEFINE q == c \div 16
               r == c % 16
    <3>1. InDigits(c, q, r)
      BY DEF InDigits
    <3> HIDE DEF q, r
    <3>2. q \in 0 .. 15 /\ r \in 0 .. 15
      BY <3>1, TwoDigits
    <3>3. HexDigit(q) \in Safe /\ HexDigit(r) \in Safe
      BY <3>2, HexRead
    <3> QED
      BY <3>3 DEF q, r
  <2> QED
    BY <1>1, <1>4, <2>1
<1> QED
  BY <1>2, <1>3, <1>4, EncodeCases

\* A character that is written at a place of a text.
WrittenAt(part, c, p, url, a) ==
    part = EncodeChar(c, p) /\ a + Len(part) <= Len(url) /\ Stands(part, url, a)

\* At the place of a character that was written so, UrlDecode writes that character
\* and goes on behind it.
LEMMA DecodeOne ==
  ASSUME NEW url \in Seq(Byte), NEW p \in BOOLEAN, NEW a \in Nat, NEW c \in Ascii, NEW part,
         WrittenAt(part, c, p, url, a)
  PROVE  Decoded(url, p, a + 1) = <<c>> /\ After(url, p, a + 1) = a + Len(part) + 1
<1>1. Len(url) \in Nat
  BY LenProperties
<1>s. /\ part = EncodeChar(c, p) /\ a + Len(part) <= Len(url)
      /\ \A k \in 1 .. Len(part) : url[a + k] = part[k]
  BY DEF WrittenAt, Stands
<1>2. CASE part = <<c>> /\ c \in Safe \ {Plus, Percent}
  <2>1. Len(part) = 1 /\ url[a + 1] = c
    BY <1>s, <1>2
  <2> QED
    BY <1>1, <1>2, <2>1 DEF Decoded, After
<1>3. CASE part = <<Plus>> /\ c = Space /\ p
  <2>0. part = <<Plus>>
    BY <1>3, Zenon
  <2>1. Len(part) = 1 /\ part[1] = Plus
    BY <2>0
  <2>2. url[a + 1] = Plus
    BY <1>s, <2>1
  <2> QED
    BY <1>1, <1>3, <2>1, <2>2 DEF Decoded, After
<1>4. CASE part = <<Percent, HexDigit(c \div 16), HexDigit(c % 16)>>
  <2>1. /\ Len(part) = 3
        /\ part[1] = Percent /\ part[2] = HexDigit(c \div 16) /\ part[3] = HexDigit(c % 16)
    BY <1>4
  <2>2. /\ url[a + 1] = Percent
        /\ url[a + 1 + 1] = HexDigit(c \div 16) /\ url[a + 1 + 2] = HexDigit(c % 16)
    <3>1. a + 1 + 1 = a + 2 /\ a + 1 + 2 = a + 3
      OBVIOUS
    <3> QED
      BY <1>s, <2>1, <3>1
  <2>3. a + 1 + 2 <= Len(url) /\ Percent # Plus
    BY <1>1, <1>s, <2>1 DEF Percent, Plus
  <2>4. (HEXTOI(url[a + 1 + 1]) * 16 + HEXTOI(url[a + 1 + 2])) % 256 = c
    <3> DEFINE q == c \div 16
               r == c % 16
    <3>1. InDigits(c, q, r)
      BY DEF InDigits
    <3>2. url[a + 1 + 1] = HexDigit(q) /\ url[a + 1 + 2] = HexDigit(r)
      BY <2>2
    <3> HIDE DEF q, r
    <3>3. q \in 0 .. 15 /\ r \in 0 .. 15 /\ q * 16 + r = c /\ c % 256 = c
      BY <3>1, TwoDigits
    <3>4. HEXTOI(url[a + 1 + 1]) = q /\ HEXTOI(url[a + 1 + 2]) = r
      BY <3>2, <3>3, HexRead
    <3> QED
      BY <3>3, <3>4
  <2>5. Decoded(url, p, a + 1) = <<c>>
    BY <2>2, <2>3, <2>4 DEF Decoded
  <2>6. After(url, p, a + 1) = a + 1 + 3
    BY <2>2, <2>3 DEF After
  <2> QED
    BY <2>1, <2>5, <2>6
<1> QED
  BY <1>s, <1>2, <1>3, <1>4, EncodeCases

\* The characters of a text as they are written.
Written(s, p) == [i \in DOMAIN s |-> EncodeChar(s[i], p)]

LEMMA EncodeText ==
  ASSUME NEW s \in Seq(Ascii), NEW p \in BOOLEAN
  PROVE  /\ Written(s, p) \in Seq(Seq(Safe)) /\ Len(Written(s, p)) = Len(s)
         /\ UrlEncode(s, p) = FlattenSeq(Written(s, p))
         /\ UrlEncode(s, p) \in Seq(Safe)
<1>1. Len(s) \in Nat /\ DOMAIN s = 1 .. Len(s) /\ \A i \in 1 .. Len(s) : s[i] \in Ascii
  BY LenProperties, ElementOfSeq
<1>2. \A i \in 1 .. Len(s) : EncodeChar(s[i], p) \in Seq(Safe)
  BY <1>1, EncodeCharText
<1>3. Written(s, p) \in [1 .. Len(s) -> Seq(Safe)]
  BY <1>1, <1>2 DEF Written
<1>4. Written(s, p) \in Seq(Seq(Safe)) /\ Len(Written(s, p)) = Len(s)
  BY <1>1, <1>3
<1>5. UrlEncode(s, p) = FlattenSeq(Written(s, p))
  BY DEF UrlEncode, Written
<1>6. IsFlat(Written(s, p), Len(s), UrlEncode(s, p), Ends(Written(s, p)))
  BY <1>4, <1>5 DEF IsFlat
<1>7. UrlEncode(s, p) \in Seq(Safe)
  BY <1>4, <1>6, Flattened
<1> QED
  BY <1>4, <1>5, <1>7

\* The round trip, of any ASCII text.
LEMMA RoundTrip ==
  ASSUME NEW s \in Seq(Ascii), NEW p \in BOOLEAN
  PROVE  UrlDecode(UrlEncode(s, p), p) = s
<1> DEFINE url == UrlEncode(s, p)
           parts == Written(s, p)
           E == Ends(parts)
           D == Decoding(url, p)
           n == Len(s)
<1>1. /\ n \in Nat /\ DOMAIN s = 1 .. n /\ \A i \in 1 .. n : s[i] \in Ascii
      /\ parts \in Seq(Seq(Safe)) /\ Len(parts) = n /\ url = FlattenSeq(parts)
  BY EncodeText, LenProperties, ElementOfSeq
<1>2. url \in Seq(Byte) /\ Len(url) \in Nat
  <2>1. url \in Seq(Safe) /\ Safe \subseteq Byte
    BY EncodeText DEF Safe
  <2> QED
    BY <2>1, SeqMonotonic, LenProperties
<1>3. \A i \in 1 .. n : parts[i] = EncodeChar(s[i], p)
  BY <1>1 DEF Written
<1> HIDE DEF parts, url, n
<1>e. IsFlat(parts, n, url, E)
  BY <1>1 DEF IsFlat
<1> HIDE DEF E
<1>4. /\ E[0] = 0 /\ E[n] = Len(url)
      /\ \A i \in 0 .. n : E[i] \in Nat /\ E[i] <= Len(url)
      /\ \A i \in 1 .. n : E[i] = E[i - 1] + Len(parts[i]) /\ Stands(parts[i], url, E[i - 1])
  <2>1. parts \in Seq(Seq(Safe))
    BY <1>1
  <2> QED
    BY <2>1, <1>e, Flattened
<1>5. /\ UrlDecode(url, p) = D[1] /\ D[Len(url) + 1] = <<>>
      /\ \A i \in 1 .. Len(url) : D[i] = Decoded(url, p, i) \o D[After(url, p, i)]
  BY <1>2, UrlDecodeWalk
<1> HIDE DEF D
<1> DEFINE P == {i \in 0 .. n : D[E[i] + 1] = SubSeq(s, i + 1, n)}
<1>6. ASSUME NEW i \in 0 .. n, \A j \in i + 1 .. n : j \in P PROVE i \in P
  <2>1. CASE i = n
    <3>1. SubSeq(s, i + 1, n) = <<>>
      BY <1>1, <2>1, SubSeqEmpty
    <3> QED
      BY <1>4, <1>5, <2>1, <3>1
  <2>2. CASE i # n
    <3> DEFINE part == parts[i + 1]
               a == E[i]
               c == s[i + 1]
    <3>1. i + 1 \in i + 1 .. n /\ i + 1 \in 1 .. n /\ i + 1 \in 0 .. n /\ i + 1 - 1 = i /\ i + 1 + 1 = i + 2
      BY <1>1, <2>2
    <3>2. /\ a \in Nat /\ E[i + 1] \in Nat /\ E[i + 1] <= Len(url)
          /\ E[i + 1] = a + Len(part) /\ Stands(part, url, a)
      <4>1. /\ E[i + 1] = E[(i + 1) - 1] + Len(parts[i + 1])
            /\ Stands(parts[i + 1], url, E[(i + 1) - 1])
        BY <1>4, <3>1
      <4> QED
        BY <1>4, <3>1, <4>1
    <3>3. c \in Ascii /\ part = EncodeChar(c, p)
      BY <1>1, <1>3, <3>1
    <3>4. D[E[i + 1] + 1] = SubSeq(s, i + 2, n)
      BY <1>6, <3>1
    <3>5. <<c>> \o SubSeq(s, i + 2, n) = SubSeq(s, i + 1, n)
      <4>1. i + 1 \in 1 .. Len(s) /\ Len(s) \in i + 1 .. Len(s)
        BY <1>1, <3>1 DEF n
      <4>2. SubSeq(s, i + 1, Len(s)) = <<s[i + 1]>> \o SubSeq(s, i + 1 + 1, Len(s))
        BY <4>1, SubSeqRecursiveFirst
      <4> QED
        BY <3>1, <4>2 DEF n
    <3> HIDE DEF part, a, c
    <3>6. Decoded(url, p, a + 1) = <<c>> /\ After(url, p, a + 1) = a + Len(part) + 1
      <4>1. WrittenAt(part, c, p, url, a)
        BY <3>2, <3>3 DEF WrittenAt
      <4>2. url \in Seq(Byte) /\ a \in Nat /\ c \in Ascii
        BY <1>2, <3>2, <3>3
      <4> QED
        BY <4>1, <4>2, DecodeOne
    <3>7. a + 1 \in 1 .. Len(url)
      <4>1. Len(part) \in Nat /\ Len(part) > 0
        BY <3>3, EncodeCases
      <4> QED
        BY <1>2, <3>2, <4>1
    <3>8. D[a + 1] = <<c>> \o D[E[i + 1] + 1]
      BY <1>5, <3>2, <3>6, <3>7
    <3>9. D[a + 1] = SubSeq(s, i + 1, n)
      BY <3>4, <3>5, <3>8
    <3> QED
      BY <3>9 DEF a
  <2> QED
    BY <2>1, <2>2
<1>7. 0 \in P
  <2>1. 0 \in 0 .. n
    BY <1>1
  <2>2. \A i \in 0 .. n : i \in P
    <3> HIDE DEF P
    <3> QED
      BY <1>1, <1>6, Downwards
  <2> QED
    BY <2>1, <2>2
<1>8. SubSeq(s, 1, n) = s
  BY SubSeqFull DEF n
<1>9. D[0 + 1] = SubSeq(s, 0 + 1, n)
  BY <1>4, <1>7
<1>10. D[1] = SubSeq(s, 1, n)
  BY <1>9
<1> QED
  BY <1>5, <1>8, <1>10 DEF url

-----------------------------------------------------------------------------
(***************************************************************************)
(* The parts of a path up to one of its slashes come first among the parts *)
(* of the whole path.                                                      *)
(***************************************************************************)

LEMMA SplitAtSlash ==
  ASSUME NEW path \in Seq(Byte), NEW m \in 1 .. Len(path), path[m] = Slash
  PROVE  \E rest \in Seq(Seq(Byte)) :
            Split(path, Slash) = Split(SubSeq(path, 1, m), Slash) \o rest
<1> DEFINE q == SubSeq(path, 1, m)
           n == Len(path)
           F == Splitting(path, Slash)
           G == Splitting(q, Slash)
           rest == F[m + 1]
           T == Seq(Seq(Byte))
<1>1. n \in Nat /\ m \in Nat /\ m <= n
  BY LenProperties
<1>2. q \in Seq(Byte) /\ Len(q) = m /\ \A i \in 1 .. m : q[i] = path[i]
  <2>1. 1 \in 1 .. Len(path) + 1 /\ m \in 0 .. Len(path) /\ 1 <= m + 1 /\ m + 1 - 1 = m
    BY <1>1
  <2>2. q \in Seq(Byte) /\ Len(q) = m /\ \A i \in 1 .. m : q[i] = path[1 + i - 1]
    BY <2>1, SubSeqOf
  <2> QED
    BY <1>1, <2>2
<1> HIDE DEF q
<1>3. /\ Split(path, Slash) = F[1] /\ F \in [1 .. n + 1 -> T]
      /\ \A i \in 1 .. n : F[i] = Part(path, Slash, i) \o F[Behind(path, Slash, i)]
  BY SplitWalk
<1>4. /\ Split(q, Slash) = G[1] /\ G \in [1 .. Len(q) + 1 -> T] /\ G[Len(q) + 1] = <<>>
      /\ \A i \in 1 .. Len(q) : G[i] = Part(q, Slash, i) \o G[Behind(q, Slash, i)]
  BY <1>2, SplitWalk
<1> HIDE DEF F, G, n, T
<1>5. /\ rest \in T
      /\ \A i \in 1 .. m + 1 : F[i] \in T /\ G[i] \in T
  BY <1>1, <1>2, <1>3, <1>4
<1>6. ASSUME NEW i \in 1 .. m
      PROVE  /\ Part(path, Slash, i) = Part(q, Slash, i) /\ Part(q, Slash, i) \in T
             /\ Behind(path, Slash, i) = Behind(q, Slash, i)
             /\ Behind(q, Slash, i) \in i + 1 .. m + 1
  <2> DEFINE pos == Find(q, Slash, i)
  <2>1. i \in 1 .. Len(q) + 1 /\ i \in 1 .. Len(path) + 1
    BY <1>1, <1>2 DEF n
  <2>2. /\ pos \in i .. Len(q) + 1
        /\ pos <= Len(q) => q[pos] = Slash
        /\ \A j \in i .. pos - 1 : q[j] # Slash
    BY <1>2, <2>1, FindStops
  <2> HIDE DEF pos
  <2>3. pos \in i .. m /\ q[pos] = Slash
    <3>1. q[m] = Slash /\ m \in i .. m
      BY <1>1, <1>2
    <3>2. pos # m + 1
      <4> SUFFICES ASSUME pos = m + 1 PROVE FALSE
        OBVIOUS
      <4>1. m \in i .. pos - 1
        BY <1>1, <3>1
      <4> QED
        BY <2>2, <3>1, <4>1
    <3> QED
      BY <1>1, <1>2, <2>2, <3>2
  <2>4. Find(path, Slash, i) = pos
    <3>1. pos \in i .. Len(path) + 1
      BY <1>1, <2>3 DEF n
    <3>2. path[pos] = Slash
      BY <1>1, <1>2, <2>3
    <3>3. \A j \in i .. pos - 1 : path[j] # Slash
      <4> TAKE j \in i .. pos - 1
      <4>1. j \in 1 .. m
        BY <1>1, <2>3
      <4> QED
        BY <1>2, <2>2, <4>1
    <3> QED
      BY <2>1, <3>1, <3>2, <3>3, FindIs
  <2>5. SubSeq(path, i, pos - 1) = SubSeq(q, i, pos - 1) /\ SubSeq(q, i, pos - 1) \in Seq(Byte)
    <3>1. /\ i \in 1 .. Len(q) + 1 /\ pos - 1 \in 0 .. Len(q) /\ i <= pos - 1 + 1
          /\ i \in 1 .. Len(path) + 1 /\ pos - 1 \in 0 .. Len(path)
          /\ pos - 1 + 1 - i = pos - i
      BY <1>1, <1>2, <2>1, <2>3 DEF n
    <3>2. /\ SubSeq(q, i, pos - 1) \in Seq(Byte) /\ Len(SubSeq(q, i, pos - 1)) = pos - 1 + 1 - i
          /\ \A k \in 1 .. pos - 1 + 1 - i : SubSeq(q, i, pos - 1)[k] = q[i + k - 1]
      BY <1>2, <3>1, SubSeqOf
    <3>3. /\ SubSeq(path, i, pos - 1) \in Seq(Byte) /\ Len(SubSeq(path, i, pos - 1)) = pos - 1 + 1 - i
          /\ \A k \in 1 .. pos - 1 + 1 - i : SubSeq(path, i, pos - 1)[k] = path[i + k - 1]
      BY <3>1, SubSeqOf
    <3>4. \A k \in 1 .. pos - 1 + 1 - i : path[i + k - 1] = q[i + k - 1]
      <4> TAKE k \in 1 .. pos - 1 + 1 - i
      <4>1. i + k - 1 \in 1 .. m
        BY <1>1, <2>3
      <4> QED
        BY <1>2, <4>1
    <3>5. SubSeq(path, i, pos - 1) = SubSeq(q, i, pos - 1)
      BY <3>2, <3>3, <3>4, SeqEqual
    <3> QED
      BY <3>2, <3>5
  <2>6. Part(path, Slash, i) = Part(q, Slash, i) /\ Part(q, Slash, i) \in T
    <3> DEFINE w == SubSeq(q, i, pos - 1)
    <3>1. Part(q, Slash, i) = IF pos = i THEN <<>> ELSE <<w>>
      BY DEF Part, pos
    <3>2. Part(path, Slash, i) = IF pos = i THEN <<>> ELSE <<w>>
      BY <2>4, <2>5 DEF Part
    <3>3. w \in Seq(Byte)
      BY <2>5
    <3> HIDE DEF w
    <3>4. <<>> \in Seq(Seq(Byte)) /\ <<w>> \in Seq(Seq(Byte))
      BY <3>3
    <3> QED
      BY <3>1, <3>2, <3>4 DEF T
  <2>7. Behind(path, Slash, i) = pos + 1
    BY <1>1, <2>3, <2>4 DEF Behind, n
  <2>8. Behind(q, Slash, i) = pos + 1
    <3>1. ~(pos > Len(q))
      BY <1>1, <1>2, <2>3
    <3> QED
      BY <3>1 DEF Behind, pos
  <2> QED
    BY <1>1, <2>3, <2>6, <2>7, <2>8
<1> DEFINE P == {i \in 0 .. m : F[i + 1] = G[i + 1] \o rest}
<1>7. ASSUME NEW i \in 0 .. m, \A j \in i + 1 .. m : j \in P PROVE i \in P
  <2>1. CASE i = m
    <3>1. G[i + 1] = <<>>
      BY <1>2, <1>4, <2>1
    <3> QED
      BY <1>5, <2>1, <3>1, ConcatEmptySeq DEF T
  <2>2. CASE i # m
    <3>1. i + 1 \in 1 .. m
      BY <1>1, <2>2
    <3> DEFINE next == Behind(q, Slash, i + 1)
               part == Part(q, Slash, i + 1)
    <3>2. /\ Part(path, Slash, i + 1) = part /\ part \in T
          /\ Behind(path, Slash, i + 1) = next /\ next \in i + 1 + 1 .. m + 1
      BY <1>6, <3>1
    <3>3. F[i + 1] = part \o F[next]
      <4>1. i + 1 \in 1 .. n
        BY <1>1, <3>1
      <4>2. F[i + 1] = Part(path, Slash, i + 1) \o F[Behind(path, Slash, i + 1)]
        BY <1>3, <4>1
      <4> QED
        BY <3>2, <4>2
    <3>4. G[i + 1] = part \o G[next]
      BY <1>2, <1>4, <3>1
    <3> HIDE DEF next, part
    <3>5. next - 1 \in i + 1 .. m /\ next - 1 + 1 = next /\ next \in 1 .. m + 1
      BY <1>1, <3>1, <3>2
    <3>6. F[next] = G[next] \o rest
      BY <1>7, <3>5
    <3>7. part \o (G[next] \o rest) = (part \o G[next]) \o rest
      <4> DEFINE g == G[next]
                 B == Seq(Byte)
      <4>1. part \in Seq(B) /\ g \in Seq(B) /\ rest \in Seq(B)
        BY <1>5, <3>2, <3>5 DEF T
      <4> HIDE DEF g, B, part, rest
      <4>2. (part \o g) \o rest = part \o (g \o rest)
        BY <4>1, ConcatAssociative
      <4> QED
        BY <4>2 DEF g
    <3>8. F[i + 1] = G[i + 1] \o rest
      BY <3>3, <3>4, <3>6, <3>7
    <3> QED
      BY <3>8
  <2> QED
    BY <2>1, <2>2
<1>8. F[1] = G[1] \o rest
  <2> HIDE DEF P
  <2>1. \A i \in 0 .. m : i \in P
    BY <1>1, <1>7, Downwards
  <2>2. 0 \in P
    BY <1>1, <2>1
  <2>3. F[0 + 1] = G[0 + 1] \o rest
    BY <2>2 DEF P
  <2>4. 0 + 1 = 1
    OBVIOUS
  <2> QED
    BY <2>3, <2>4
<1>9. rest \in T /\ Split(path, Slash) = Split(q, Slash) \o rest
  BY <1>3, <1>4, <1>5, <1>8
<1> QED
  BY <1>9 DEF q, T

\* The parts of a path up to one of its places are texts.
LEMMA PartsTyped ==
  ASSUME NEW path \in Seq(Byte), NEW m \in 1 .. Len(path)
  PROVE  Split(SubSeq(path, 1, m), Slash) \in Seq(Seq(Byte))
<1> DEFINE q == SubSeq(path, 1, m)
<1>1. 1 \in 1 .. Len(path) + 1 /\ m \in 0 .. Len(path) /\ 1 <= m + 1
  BY LenProperties
<1>2. q \in Seq(Byte)
  BY <1>1, SubSeqOf
<1> HIDE DEF q
<1>3. Len(q) \in Nat
  BY <1>2, LenProperties
<1>4. Split(q, Slash) = Splitting(q, Slash)[1] /\ Splitting(q, Slash) \in [1 .. Len(q) + 1 -> Seq(Seq(Byte))]
  BY <1>2, <1>3, SplitWalk
<1> QED
  BY <1>3, <1>4 DEF q

\* Without a "." the levels are what is left of the parts after the "..".
LEMMA LevelOfPlain ==
  ASSUME NEW way \in Seq(Seq(Byte)), <<Dot>> \notin Range(way),
         2 * Cardinality({j \in DOMAIN way : way[j] = <<Dot, Dot>>}) <= Len(way)
  PROVE  Level(way) >= 0
<1> DEFINE Ups == {j \in DOMAIN way : way[j] = <<Dot, Dot>>}
           Stays == {j \in DOMAIN way : way[j] = <<Dot>>}
<1>1. Len(way) \in Nat /\ DOMAIN way = 1 .. Len(way)
  BY LenProperties
<1>2. Stays = {}
  BY DEF Range
<1>3. Cardinality(Stays) = 0
  <2>1. Cardinality({}) = 0
    BY FS_EmptySet
  <2> HIDE DEF Stays
  <2> QED
    BY <1>2, <2>1
<1>4. Cardinality(Ups) \in Nat
  <2> DEFINE k == Len(way)
  <2>1. Ups \subseteq 1 .. k
    BY <1>1
  <2>2. k \in Nat
    BY <1>1
  <2> HIDE DEF Ups, k
  <2>3. IsFiniteSet(1 .. k)
    BY <2>2, FS_Interval
  <2> QED
    BY <2>1, <2>3, FS_Subset, FS_CardinalityType
<1>5. Level(way) = Len(way) - Cardinality(Stays) - 2 * Cardinality(Ups)
  BY DEF Level
<1>6. 2 * Cardinality(Ups) <= Len(way)
  OBVIOUS
<1> HIDE DEF Ups, Stays
<1> QED
  BY <1>1, <1>3, <1>4, <1>5, <1>6

\* So a path that ValidPath lets pass has at every slash as many parts that lead down
\* as parts that lead up.
LEMMA ValidPathAtSlash ==
  ASSUME NEW path \in Seq(Byte), ValidPath(path), NEW m \in 1 .. Len(path), path[m] = Slash,
         NEW way, way = Split(SubSeq(path, 1, m), Slash)
  PROVE  2 * Cardinality({j \in DOMAIN way : way[j] = <<Dot, Dot>>}) <= Len(way)
<1> DEFINE full == Split(path, Slash)
           k == Len(way)
           T == Seq(Byte)
           Up == {j \in 1 .. k : way[j] = <<Dot, Dot>>}
           Down == {j \in 1 .. k : way[j] # <<Dot, Dot>>}
<1>1. way \in Seq(T)
  BY PartsTyped DEF T
<1>2. PICK rest \in Seq(T) : full = way \o rest
  BY SplitAtSlash
<1>3. k \in Nat /\ DOMAIN way = 1 .. k
  BY <1>1, LenProperties
<1>4. /\ full \in Seq(T) /\ Len(full) \in Nat /\ k <= Len(full) /\ DOMAIN full = 1 .. Len(full)
      /\ \A j \in 1 .. k : full[j] = way[j]
  <2> HIDE DEF full, T
  <2>1. /\ full \in Seq(T) /\ Len(full) = Len(way) + Len(rest) /\ Len(rest) \in Nat
        /\ Len(full) \in Nat /\ \A j \in 1 .. Len(way) : full[j] = way[j]
    BY <1>1, <1>2, Joined
  <2>2. DOMAIN full = 1 .. Len(full)
    BY <2>1, LenProperties
  <2> QED
    BY <1>3, <2>1, <2>2
<1> HIDE DEF full, T, k
<1>5. Down = {j \in 1 .. k : full[j] # <<Dot, Dot>>}
  BY <1>4
<1>6. k > 0 => Depth(full, k) >= 0
  <2>1. \A j \in DOMAIN full : Depth(full, j) >= 0
    BY DEF ValidPath, full
  <2> QED
    BY <1>3, <1>4, <2>1
<1>7. k > 0 => 2 * Cardinality(Down) - k >= 0
  BY <1>5, <1>6 DEF Depth
<1>8. IsFiniteSet(1 .. k) /\ Cardinality(1 .. k) = k
  BY <1>3, FS_Interval
<1>9. /\ IsFiniteSet(Up) /\ IsFiniteSet(Down)
      /\ Cardinality(Up) \in Nat /\ Cardinality(Down) \in Nat
      /\ Cardinality(Up) + Cardinality(Down) = k
  <2>1. Up \subseteq 1 .. k /\ Down \subseteq 1 .. k /\ Up \union Down = 1 .. k /\ Up \cap Down = {}
    OBVIOUS
  <2> HIDE DEF Up, Down
  <2>2. IsFiniteSet(Up) /\ IsFiniteSet(Down)
    BY <1>8, <2>1, FS_Subset
  <2>3. Cardinality(Up \cap Down) = 0
    BY <2>1, FS_EmptySet
  <2>4. Cardinality(Up) \in Nat /\ Cardinality(Down) \in Nat
    BY <2>2, FS_CardinalityType
  <2>5. Cardinality(Up \union Down) = Cardinality(Up) + Cardinality(Down) - Cardinality(Up \cap Down)
    BY <2>2, FS_Union
  <2>6. Cardinality(1 .. k) = Cardinality(Up) + Cardinality(Down) - 0
    BY <2>1, <2>3, <2>5
  <2> DEFINE u == Cardinality(Up)
             d == Cardinality(Down)
  <2>7. u \in Nat /\ d \in Nat /\ k = u + d - 0
    BY <1>8, <2>4, <2>6
  <2> HIDE DEF u, d
  <2>8. u \in Nat /\ d \in Nat /\ u + d = k
    BY <2>7
  <2> QED
    BY <2>2, <2>8 DEF u, d
<1> HIDE DEF Up, Down
<1>10. 2 * Cardinality(Up) <= k
  <2>1. CASE k = 0
    BY <1>9, <2>1
  <2>2. CASE k > 0
    BY <1>3, <1>7, <1>9, <2>2
  <2> QED
    BY <1>3, <2>1, <2>2
<1> QED
  BY <1>3, <1>10 DEF Up, k

-----------------------------------------------------------------------------
(***************************************************************************)
(* The parameters a client means are the ones that are set.                *)
(***************************************************************************)

Pairs == Seq(Ascii) \X Seq(Ascii)

\* A parameter as a client writes it, and the parameters with what separates them.
PairText(p) == UrlEncode(p[1], TRUE) \o <<Equals>> \o UrlEncode(p[2], TRUE)

Separator(i) == IF i = 1 THEN <<Question>> ELSE <<Amp>>

Query(params) == [i \in DOMAIN params |-> Separator(i) \o PairText(params[i])]

PairTexts(params) == [i \in DOMAIN params |-> PairText(params[i])]

\* The first equals sign of a parameter is the one between its name and its value.
LEMMA PairParts ==
  ASSUME NEW p \in Pairs, NEW text, text = PairText(p)
  PROVE  /\ text \in Seq(Byte) /\ Len(text) \in Nat /\ Len(text) > 0
         /\ \A j \in 1 .. Len(text) : text[j] # Amp
         /\ Find(text, Equals, 1) <= Len(text)
         /\ SubSeq(text, 1, Find(text, Equals, 1) - 1) = UrlEncode(p[1], TRUE)
         /\ SubSeq(text, Find(text, Equals, 1) + 1, Len(text)) = UrlEncode(p[2], TRUE)
<1> DEFINE key == UrlEncode(p[1], TRUE)
           val == UrlEncode(p[2], TRUE)
           front == key \o <<Equals>>
<1>1. p[1] \in Seq(Ascii) /\ p[2] \in Seq(Ascii)
  BY DEF Pairs
<1>2. key \in Seq(Safe) /\ val \in Seq(Safe)
  BY <1>1, EncodeText
<1>3. text = front \o val
  BY DEF PairText
<1> HIDE DEF key, val
<1>4. /\ key \in Seq(Byte) /\ val \in Seq(Byte) /\ <<Equals>> \in Seq(Byte)
      /\ Len(key) \in Nat /\ Len(val) \in Nat
      /\ \A j \in 1 .. Len(key) : key[j] \in Safe
      /\ \A j \in 1 .. Len(val) : val[j] \in Safe
  <2>1. Safe \subseteq Byte
    BY DEF Safe
  <2>2. key \in Seq(Byte) /\ val \in Seq(Byte)
    BY <1>2, <2>1, SeqMonotonic
  <2>3. Len(key) \in Nat /\ Len(val) \in Nat
    BY <2>2, LenProperties
  <2>4. \A j \in 1 .. Len(key) : key[j] \in Safe
    BY <1>2, ElementOfSeq
  <2>5. \A j \in 1 .. Len(val) : val[j] \in Safe
    BY <1>2, ElementOfSeq
  <2>6. <<Equals>> \in Seq(Byte)
    BY DEF Equals, Byte
  <2> QED
    BY <2>2, <2>3, <2>4, <2>5, <2>6
<1>5. /\ front \in Seq(Byte) /\ Len(front) = Len(key) + 1 /\ Len(front) \in Nat
      /\ \A j \in 1 .. Len(key) : front[j] = key[j]
      /\ front[Len(key) + 1] = Equals
  <2> DEFINE e == <<Equals>>
  <2>1. e \in Seq(Byte) /\ Len(e) = 1 /\ e[1] = Equals
    BY <1>4
  <2>2. front = key \o e
    OBVIOUS
  <2> HIDE DEF e, front
  <2>3. /\ front \in Seq(Byte) /\ Len(front) = Len(key) + Len(e) /\ Len(front) \in Nat
        /\ \A j \in 1 .. Len(key) : front[j] = key[j]
        /\ \A j \in 1 .. Len(e) : front[Len(key) + j] = e[j]
    <3>1. key \in Seq(Byte) /\ e \in Seq(Byte)
      BY <1>4, <2>1
    <3> QED
      BY <2>2, <3>1, Joined
  <2> QED
    BY <2>1, <2>3
<1> HIDE DEF front
<1>6. /\ text \in Seq(Byte) /\ Len(text) = Len(front) + Len(val) /\ Len(text) \in Nat
      /\ \A j \in 1 .. Len(front) : text[j] = front[j]
      /\ \A j \in 1 .. Len(val) : text[Len(front) + j] = val[j]
  <2>1. front \in Seq(Byte) /\ val \in Seq(Byte)
    BY <1>4, <1>5
  <2> QED
    BY <1>3, <2>1, Joined
<1>7. /\ \A j \in 1 .. Len(key) : text[j] \in Safe
      /\ text[Len(key) + 1] = Equals
  BY <1>4, <1>5, <1>6
<1>8. ASSUME NEW j \in Len(key) + 2 .. Len(text) PROVE text[j] \in Safe
  <2>1. j - Len(front) \in 1 .. Len(val) /\ Len(front) + (j - Len(front)) = j
    BY <1>4, <1>5, <1>6
  <2> QED
    BY <1>4, <1>6, <2>1
<1>9. ASSUME NEW j \in 1 .. Len(text) PROVE text[j] # Amp
  <2>1. j \in 1 .. Len(key) \/ j = Len(key) + 1 \/ j \in Len(key) + 2 .. Len(text)
    BY <1>4, <1>6
  <2>2. Amp \notin Safe /\ Equals # Amp
    BY DEF Safe, Amp, Equals
  <2> QED
    BY <1>7, <1>8, <2>1, <2>2
<1>10. Find(text, Equals, 1) = Len(key) + 1
  <2>1. /\ Len(key) + 1 \in 1 .. Len(text) + 1 /\ 1 \in 1 .. Len(text) + 1
        /\ \A j \in 1 .. Len(key) + 1 - 1 : j \in 1 .. Len(key)
    BY <1>4, <1>5, <1>6
  <2>2. Equals \notin Safe
    BY DEF Safe
  <2>3. \A j \in 1 .. Len(key) + 1 - 1 : text[j] # Equals
    BY <1>7, <2>1, <2>2
  <2> QED
    BY <1>6, <1>7, <2>1, <2>3, FindIs
<1>11. SubSeq(text, Len(key) + 1 + 1, Len(text)) = val
  <2>1. SubSeq(front \o val, Len(front) + 1, Len(front \o val)) = val
    BY <1>4, <1>5, SubSeqOfSum
  <2> QED
    BY <1>3, <1>5, <2>1
<1>12. SubSeq(text, 1, Len(key) + 1 - 1) = key
  <2>1. /\ 1 \in 1 .. Len(text) + 1 /\ Len(key) \in 0 .. Len(text) /\ 1 <= Len(key) + 1
        /\ Len(key) + 1 - 1 = Len(key)
    BY <1>4, <1>5, <1>6
  <2>2. /\ SubSeq(text, 1, Len(key)) \in Seq(Byte) /\ Len(SubSeq(text, 1, Len(key))) = Len(key) + 1 - 1
        /\ \A j \in 1 .. Len(key) + 1 - 1 : SubSeq(text, 1, Len(key))[j] = text[1 + j - 1]
    BY <1>6, <2>1, SubSeqOf
  <2>3. \A j \in 1 .. Len(key) : SubSeq(text, 1, Len(key))[j] = key[j]
    <3> TAKE j \in 1 .. Len(key)
    <3>1. 1 + j - 1 = j /\ j \in 1 .. Len(key) + 1 - 1 /\ j \in 1 .. Len(front)
      BY <1>4, <1>5
    <3> QED
      BY <1>5, <1>6, <2>2, <3>1
  <2> QED
    BY <1>4, <2>1, <2>2, <2>3, SeqEqual
<1>13. Len(text) > 0 /\ Len(key) + 1 <= Len(text)
  BY <1>4, <1>5, <1>6
<1>14. Find(text, Equals, 1) <= Len(text)
  BY <1>10, <1>13
<1>15. /\ SubSeq(text, 1, Find(text, Equals, 1) - 1) = key
       /\ SubSeq(text, Find(text, Equals, 1) + 1, Len(text)) = val
  BY <1>10, <1>11, <1>12
<1>16. text \in Seq(Byte) /\ Len(text) \in Nat
  BY <1>6
<1> QED
  BY <1>9, <1>13, <1>14, <1>15, <1>16 DEF key, val

\* SetParam of a parameter as a client writes it.
LEMMA SetParamOfPair ==
  ASSUME NEW p \in Pairs, NEW map
  PROVE  SetParam(map, PairText(p)) = Insert(map, p[1], p[2])
<1> DEFINE text == PairText(p)
           pos == Find(text, Equals, 1)
<1>1. /\ SubSeq(text, 1, pos - 1) = UrlEncode(p[1], TRUE)
      /\ SubSeq(text, pos + 1, Len(text)) = UrlEncode(p[2], TRUE)
  BY PairParts
<1>2. p[1] \in Seq(Ascii) /\ p[2] \in Seq(Ascii)
  BY DEF Pairs
<1>3. UrlDecode(UrlEncode(p[1], TRUE), TRUE) = p[1] /\ UrlDecode(UrlEncode(p[2], TRUE), TRUE) = p[2]
  BY <1>2, RoundTrip
<1>4. SetParam(map, text) =
         Insert(map, UrlDecode(SubSeq(text, 1, pos - 1), TRUE),
                     UrlDecode(SubSeq(text, pos + 1, Len(text)), TRUE))
  BY DEF SetParam
<1> HIDE DEF text, pos
<1>5. SetParam(map, text) = Insert(map, p[1], p[2])
  BY <1>1, <1>3, <1>4
<1> QED
  BY <1>5 DEF text

\* A text that stands in another one is the part of it between its ends.
LEMMA SubSeqStands ==
  ASSUME NEW S, NEW text \in Seq(S), NEW part \in Seq(S), NEW a \in Nat,
         Stands(part, text, a), a + Len(part) <= Len(text)
  PROVE  SubSeq(text, a + 1, a + Len(part)) = part
<1>1. Len(text) \in Nat /\ Len(part) \in Nat
  BY LenProperties
<1>2. /\ a + 1 \in 1 .. Len(text) + 1 /\ a + Len(part) \in 0 .. Len(text)
      /\ a + 1 <= a + Len(part) + 1 /\ a + Len(part) + 1 - (a + 1) = Len(part)
  BY <1>1
<1>3. /\ SubSeq(text, a + 1, a + Len(part)) \in Seq(S)
      /\ Len(SubSeq(text, a + 1, a + Len(part))) = Len(part)
      /\ \A i \in 1 .. Len(part) : SubSeq(text, a + 1, a + Len(part))[i] = text[a + 1 + i - 1]
  BY <1>2, SubSeqOf
<1>4. ASSUME NEW i \in 1 .. Len(part) PROVE text[a + 1 + i - 1] = part[i]
  <2>1. a + 1 + i - 1 = a + i
    BY <1>1
  <2> QED
    BY <2>1 DEF Stands
<1> QED
  BY <1>3, <1>4, SeqEqual

\* One parameter of a query string with what is in front of it.
LEMMA QueryPart ==
  ASSUME NEW i, NEW p \in Pairs, NEW text, text = PairText(p)
  PROVE  /\ Separator(i) \o text \in Seq(Byte)
         /\ Len(Separator(i) \o text) = Len(text) + 1
         /\ (Separator(i) \o text)[1] = IF i = 1 THEN Question ELSE Amp
         /\ \A k \in 1 .. Len(text) : (Separator(i) \o text)[1 + k] = text[k]
<1> DEFINE sep == Separator(i)
           w == sep \o text
<1>1. sep \in Seq(Byte) /\ Len(sep) = 1 /\ sep[1] = IF i = 1 THEN Question ELSE Amp
  <2>1. CASE i = 1
    <3>1. sep = <<Question>>
      BY <2>1 DEF Separator
    <3>2. Question \in Byte
      BY DEF Question, Byte
    <3> HIDE DEF sep
    <3> QED
      BY <2>1, <3>1, <3>2
  <2>2. CASE i # 1
    <3>1. sep = <<Amp>>
      BY <2>2 DEF Separator
    <3>2. Amp \in Byte
      BY DEF Amp, Byte
    <3> HIDE DEF sep
    <3> QED
      BY <2>2, <3>1, <3>2
  <2> QED
    BY <2>1, <2>2
<1>2. text \in Seq(Byte) /\ Len(text) \in Nat
  BY PairParts
<1>3. w = sep \o text
  OBVIOUS
<1> HIDE DEF sep, w
<1>4. /\ w \in Seq(Byte) /\ Len(w) = Len(sep) + Len(text)
      /\ \A k \in 1 .. Len(sep) : w[k] = sep[k]
      /\ \A k \in 1 .. Len(text) : w[Len(sep) + k] = text[k]
  <2>1. sep \in Seq(Byte) /\ text \in Seq(Byte)
    BY <1>1, <1>2
  <2> QED
    BY <1>3, <2>1, Joined
<1>5. /\ w \in Seq(Byte) /\ Len(w) = Len(text) + 1 /\ w[1] = sep[1]
      /\ \A k \in 1 .. Len(text) : w[1 + k] = text[k]
  BY <1>1, <1>2, <1>4
<1> QED
  BY <1>1, <1>5 DEF sep, w

\* A query string is split into its parameters.
LEMMA QuerySplit ==
  ASSUME NEW params \in Seq(Pairs), params # <<>>, NEW all, all = FlattenSeq(Query(params))
  PROVE  /\ all \in Seq(Byte) /\ Len(all) \in Nat /\ Len(all) > 0 /\ all[1] = Question
         /\ Split(SubSeq(all, 2, Len(all)), Amp) = PairTexts(params)
<1> DEFINE m == Len(params)
           Q == Query(params)
           T == PairTexts(params)
           E == Ends(Q)
           rest == SubSeq(all, 2, Len(all))
           D == Splitting(rest, Amp)
<1>1. m \in Nat /\ m > 0 /\ DOMAIN params = 1 .. m /\ \A i \in 1 .. m : params[i] \in Pairs
  BY LenProperties, ElementOfSeq, EmptySeq
<1>2. ASSUME NEW i \in 1 .. m
      PROVE  /\ T[i] \in Seq(Byte) /\ Len(T[i]) \in Nat /\ Len(T[i]) > 0
             /\ \A k \in 1 .. Len(T[i]) : T[i][k] # Amp
             /\ Q[i] \in Seq(Byte) /\ Len(Q[i]) = Len(T[i]) + 1
             /\ Q[i][1] = IF i = 1 THEN Question ELSE Amp
             /\ \A k \in 1 .. Len(T[i]) : Q[i][1 + k] = T[i][k]
  <2> DEFINE text == PairText(params[i])
  <2>1. T[i] = text /\ Q[i] = Separator(i) \o text /\ params[i] \in Pairs
    BY <1>1 DEF Query, PairTexts
  <2>2. /\ text \in Seq(Byte) /\ Len(text) \in Nat /\ Len(text) > 0
        /\ \A k \in 1 .. Len(text) : text[k] # Amp
    BY <2>1, PairParts
  <2>3. /\ Separator(i) \o text \in Seq(Byte)
        /\ Len(Separator(i) \o text) = Len(text) + 1
        /\ (Separator(i) \o text)[1] = IF i = 1 THEN Question ELSE Amp
        /\ \A k \in 1 .. Len(text) : (Separator(i) \o text)[1 + k] = text[k]
    BY <2>1, QueryPart
  <2> HIDE DEF text, T, Q
  <2> QED
    BY <2>1, <2>2, <2>3
<1>3. /\ Q = [i \in 1 .. m |-> Q[i]] /\ T = [i \in 1 .. m |-> T[i]]
  BY <1>1 DEF Query, PairTexts
<1> HIDE DEF T, Q, m
<1>4. Q \in Seq(Seq(Byte)) /\ Len(Q) = m /\ T \in Seq(Seq(Byte)) /\ Len(T) = m
  <2>1. \A i \in 1 .. m : Q[i] \in Seq(Byte)
    BY <1>2
  <2>2. \A i \in 1 .. m : T[i] \in Seq(Byte)
    BY <1>2
  <2>3. Q \in [1 .. m -> Seq(Byte)]
    BY <1>3, <2>1
  <2>4. T \in [1 .. m -> Seq(Byte)]
    BY <1>3, <2>2
  <2>5. m \in Nat
    BY <1>1
  <2>6. Q \in Seq(Seq(Byte)) /\ Len(Q) = m
    BY <2>3, <2>5
  <2>7. T \in Seq(Seq(Byte)) /\ Len(T) = m
    BY <2>4, <2>5
  <2> QED
    BY <2>6, <2>7
<1>5. IsFlat(Q, m, all, E)
  BY <1>4 DEF IsFlat, Q
<1> HIDE DEF E
<1>6. /\ all \in Seq(Byte)
      /\ E[0] = 0 /\ E[m] = Len(all)
      /\ \A i \in 0 .. m : E[i] \in Nat /\ E[i] <= Len(all)
      /\ \A i \in 1 .. m : E[i] = E[i - 1] + Len(Q[i]) /\ Stands(Q[i], all, E[i - 1])
  <2>1. Q \in Seq(Seq(Byte))
    BY <1>4
  <2> QED
    BY <1>5, <2>1, Flattened
<1>7. ASSUME NEW i \in 1 .. m
      PROVE  /\ E[i - 1] \in Nat /\ E[i] \in Nat /\ E[i] = E[i - 1] + Len(T[i]) + 1
             /\ E[i] <= Len(all)
             /\ all[E[i - 1] + 1] = IF i = 1 THEN Question ELSE Amp
             /\ \A k \in 1 .. Len(T[i]) : all[E[i - 1] + (1 + k)] = T[i][k]
  <2>1. i - 1 \in 0 .. m /\ i \in 0 .. m
    BY <1>1
  <2>2. E[i - 1] \in Nat /\ E[i] \in Nat /\ E[i] <= Len(all)
    BY <1>6, <2>1
  <2>3. Len(T[i]) \in Nat /\ Len(Q[i]) = Len(T[i]) + 1
    BY <1>2
  <2>4. E[i] = E[i - 1] + Len(Q[i]) /\ \A k \in 1 .. Len(Q[i]) : all[E[i - 1] + k] = Q[i][k]
    BY <1>6 DEF Stands
  <2>5. all[E[i - 1] + 1] = Q[i][1]
    BY <2>3, <2>4
  <2>6. ASSUME NEW k \in 1 .. Len(T[i]) PROVE all[E[i - 1] + (1 + k)] = T[i][k]
    <3>1. 1 + k \in 1 .. Len(Q[i])
      BY <2>3
    <3> QED
      BY <1>2, <2>4, <3>1
  <2>7. E[i] = E[i - 1] + Len(T[i]) + 1
    <3>1. E[i] = E[i - 1] + (Len(T[i]) + 1)
      BY <2>3, <2>4
    <3>2. \A a, b \in Nat : a + (b + 1) = a + b + 1
      OBVIOUS
    <3> QED
      BY <2>2, <2>3, <3>1, <3>2
  <2> QED
    BY <1>2, <2>2, <2>5, <2>6, <2>7
<1>8. Len(all) \in Nat /\ Len(all) > 0 /\ all[1] = Question
  <2>1. 1 \in 1 .. m /\ m \in 1 .. m /\ 1 - 1 = 0
    BY <1>1
  <2>2. all[E[0] + 1] = Question /\ E[1] = E[0] + Len(T[1]) + 1 /\ E[1] <= Len(all)
    BY <1>7, <2>1
  <2>3. Len(T[1]) \in Nat
    BY <1>2, <2>1
  <2>4. Len(all) \in Nat
    BY <1>6, LenProperties
  <2> QED
    BY <1>6, <2>2, <2>3, <2>4
<1>9. /\ rest \in Seq(Byte) /\ Len(rest) = Len(all) - 1
      /\ \A j \in 1 .. Len(rest) : rest[j] = all[1 + j]
  <2>1. /\ 2 \in 1 .. Len(all) + 1 /\ Len(all) \in 0 .. Len(all) /\ 2 <= Len(all) + 1
        /\ Len(all) + 1 - 2 = Len(all) - 1
    BY <1>8
  <2>2. /\ rest \in Seq(Byte) /\ Len(rest) = Len(all) - 1
        /\ \A j \in 1 .. Len(all) - 1 : rest[j] = all[2 + j - 1]
    <3>1. all \in Seq(Byte)
      BY <1>6
    <3> QED
      BY <2>1, <3>1, SubSeqOf
  <2>3. \A j \in 1 .. Len(all) - 1 : 2 + j - 1 = 1 + j
    OBVIOUS
  <2> QED
    BY <2>2, <2>3
<1> HIDE DEF rest
<1>10. /\ Split(rest, Amp) = D[1] /\ D[Len(rest) + 1] = <<>>
       /\ \A i \in 1 .. Len(rest) : D[i] = Part(rest, Amp, i) \o D[Behind(rest, Amp, i)]
  <2>1. rest \in Seq(Byte)
    BY <1>9
  <2> QED
    BY <2>1, SplitWalk
<1> HIDE DEF D
\* Between two separators stands a parameter.
<1>11. ASSUME NEW i \in 1 .. m
       PROVE  /\ E[i - 1] + 1 \in 1 .. Len(rest)
              /\ Part(rest, Amp, E[i - 1] + 1) = <<T[i]>>
              /\ Behind(rest, Amp, E[i - 1] + 1) = IF i = m THEN Len(rest) + 1 ELSE E[i] + 1
  <2> DEFINE a == E[i - 1]
             t == T[i]
             pos == a + 1 + Len(t)
  <2>1. /\ a \in Nat /\ Len(t) \in Nat /\ Len(t) > 0 /\ E[i] = pos /\ E[i] <= Len(all)
        /\ t \in Seq(Byte) /\ \A k \in 1 .. Len(t) : t[k] # Amp
        /\ \A k \in 1 .. Len(t) : all[a + (1 + k)] = t[k]
    <3>1. /\ a \in Nat /\ E[i] = a + Len(t) + 1 /\ E[i] <= Len(all)
          /\ \A k \in 1 .. Len(t) : all[a + (1 + k)] = t[k]
      BY <1>7
    <3>2. /\ Len(t) \in Nat /\ Len(t) > 0 /\ t \in Seq(Byte)
          /\ \A k \in 1 .. Len(t) : t[k] # Amp
      BY <1>2
    <3> HIDE DEF a, t
    <3>3. E[i] = pos
      BY <3>1, <3>2
    <3> HIDE DEF pos
    <3> QED
      BY <3>1, <3>2, <3>3
  <2> HIDE DEF a, t
  <2>2. a + Len(t) <= Len(rest) /\ Len(rest) \in Nat /\ a + 1 \in 1 .. Len(rest)
    BY <1>8, <1>9, <2>1
  <2>3. Stands(t, rest, a)
    <3> SUFFICES ASSUME NEW k \in 1 .. Len(t) PROVE rest[a + k] = t[k]
      BY DEF Stands
    <3>1. a + k \in 1 .. Len(rest) /\ 1 + (a + k) = a + (1 + k)
      BY <2>1, <2>2
    <3> QED
      BY <1>9, <2>1, <3>1
  <2>4. pos <= Len(rest) => i # m /\ rest[pos] = Amp
    <3> SUFFICES ASSUME pos <= Len(rest) PROVE i # m /\ rest[pos] = Amp
      OBVIOUS
    <3>1. i # m
      BY <1>6, <1>8, <1>9, <2>1
    <3>2. i + 1 \in 1 .. m /\ i + 1 - 1 = i /\ i + 1 # 1
      BY <1>1, <3>1
    <3>3. all[E[i] + 1] = Amp
      <4>1. all[E[(i + 1) - 1] + 1] = IF i + 1 = 1 THEN Question ELSE Amp
        BY <1>7, <3>2
      <4> QED
        BY <3>2, <4>1
    <3>4. pos \in 1 .. Len(rest) /\ 1 + pos = E[i] + 1
      BY <2>1, <2>2
    <3> QED
      BY <1>9, <3>1, <3>3, <3>4
  <2>5. i # m => pos <= Len(rest)
    <3> SUFFICES ASSUME i # m PROVE pos <= Len(rest)
      OBVIOUS
    <3>1. i + 1 \in 1 .. m /\ i + 1 - 1 = i
      BY <1>1
    <3>2. E[i + 1] = E[(i + 1) - 1] + Len(T[i + 1]) + 1 /\ E[i + 1] <= Len(all)
      BY <1>7, <3>1
    <3>3. Len(T[i + 1]) \in Nat
      BY <1>2, <3>1
    <3>4. E[i] + Len(T[i + 1]) + 1 <= Len(all)
      BY <3>1, <3>2
    <3>5. E[i] \in Nat /\ E[i] = pos /\ Len(rest) = Len(all) - 1 /\ Len(all) \in Nat
      BY <1>7, <1>8, <1>9, <2>1
    <3> HIDE DEF pos
    <3> QED
      BY <3>3, <3>4, <3>5
  <2>6. Find(rest, Amp, a + 1) = pos
    <3>1. a + 1 \in 1 .. Len(rest) + 1 /\ pos \in a + 1 .. Len(rest) + 1
      BY <2>1, <2>2
    <3>2. \A j \in a + 1 .. pos - 1 : rest[j] # Amp
      <4> TAKE j \in a + 1 .. pos - 1
      <4>1. j - a \in 1 .. Len(t) /\ a + (j - a) = j
        BY <2>1
      <4> QED
        BY <2>1, <2>3, <4>1 DEF Stands
    <3>3. rest \in Seq(Byte) /\ (pos <= Len(rest) => rest[pos] = Amp)
      BY <1>9, <2>4
    <3> HIDE DEF pos
    <3> QED
      BY <3>1, <3>2, <3>3, FindIs
  <2>7. SubSeq(rest, a + 1, pos - 1) = t
    <3>1. pos - 1 = a + Len(t)
      BY <2>1
    <3>2. rest \in Seq(Byte) /\ t \in Seq(Byte) /\ a \in Nat
      BY <1>9, <2>1
    <3> QED
      BY <2>2, <2>3, <3>1, <3>2, SubSeqStands
  <2>8. Part(rest, Amp, a + 1) = <<t>>
    <3>1. pos # a + 1
      BY <2>1
    <3> HIDE DEF pos
    <3> QED
      BY <2>6, <2>7, <3>1 DEF Part
  <2>9. Behind(rest, Amp, a + 1) = IF i = m THEN Len(rest) + 1 ELSE E[i] + 1
    <3>1. pos > Len(rest) <=> i = m
      BY <2>1, <2>2, <2>4, <2>5
    <3>2. pos = E[i]
      BY <2>1
    <3> HIDE DEF pos
    <3> QED
      BY <2>6, <3>1, <3>2 DEF Behind
  <2> QED
    BY <2>2, <2>8, <2>9 DEF a, t
<1> DEFINE P == {i \in 0 .. m - 1 : D[E[i] + 1] = SubSeq(T, i + 1, m)}
<1>12. ASSUME NEW i \in 0 .. m - 1, \A j \in i + 1 .. m - 1 : j \in P PROVE i \in P
  <2>1. i + 1 \in 1 .. m /\ i + 1 - 1 = i
    BY <1>1
  <2>2. /\ E[i] + 1 \in 1 .. Len(rest)
        /\ Part(rest, Amp, E[i] + 1) = <<T[i + 1]>>
        /\ Behind(rest, Amp, E[i] + 1) = IF i + 1 = m THEN Len(rest) + 1 ELSE E[i + 1] + 1
    BY <1>11, <2>1
  <2>3. D[E[i] + 1] = <<T[i + 1]>> \o D[Behind(rest, Amp, E[i] + 1)]
    BY <1>10, <2>2
  <2>4. SubSeq(T, i + 1, m) = <<T[i + 1]>> \o SubSeq(T, i + 1 + 1, m)
    <3>1. i + 1 \in 1 .. Len(T) /\ m \in i + 1 .. Len(T) /\ T \in Seq(Seq(Byte))
      BY <1>1, <1>4, <2>1
    <3> QED
      BY <3>1, SubSeqRecursiveFirst
  <2>5. D[Behind(rest, Amp, E[i] + 1)] = SubSeq(T, i + 1 + 1, m)
    <3>1. CASE i + 1 = m
      <4>1. SubSeq(T, i + 1 + 1, m) = <<>>
        BY <1>1, <2>1, <3>1, SubSeqEmpty
      <4> QED
        BY <1>10, <2>2, <3>1, <4>1
    <3>2. CASE i + 1 # m
      <4>1. i + 1 \in i + 1 .. m - 1
        BY <1>1, <2>1, <3>2
      <4>2. D[E[i + 1] + 1] = SubSeq(T, i + 1 + 1, m)
        BY <1>12, <4>1
      <4> QED
        BY <2>2, <3>2, <4>2
    <3> QED
      BY <3>1, <3>2
  <2>6. D[E[i] + 1] = SubSeq(T, i + 1, m)
    BY <2>3, <2>4, <2>5
  <2> QED
    BY <2>6
<1>13. D[1] = T
  <2> HIDE DEF P
  <2>1. m - 1 \in Nat /\ 0 \in 0 .. m - 1 /\ 0 + 1 = 1
    BY <1>1
  <2>2. \A i \in 0 .. m - 1 : i \in P
    BY <1>12, <2>1, Downwards
  <2>3. 0 \in P
    BY <2>1, <2>2
  <2>4. D[E[0] + 1] = SubSeq(T, 0 + 1, m)
    BY <2>3 DEF P
  <2>5. D[1] = SubSeq(T, 1, m)
    BY <1>6, <2>1, <2>4
  <2>6. SubSeq(T, 1, Len(T)) = T
    BY <1>4, SubSeqFull
  <2> QED
    BY <1>4, <2>5, <2>6
<1> QED
  BY <1>6, <1>8, <1>10, <1>13 DEF rest, T

-----------------------------------------------------------------------------
(***************************************************************************)
(* The request line.                                                       *)
(***************************************************************************)

\* How a client writes what it means: the path, and the parameters behind it.
LEMMA TargetText ==
  ASSUME NEW meant
  PROVE  Target(meant) = UrlEncode(meant.path, FALSE) \o FlattenSeq(Query(meant.params))
  BY DEF Target, Query, Separator, PairText

\* A target in its parts.
IsTarget(target, path, params) ==
    target = UrlEncode(path, FALSE) \o FlattenSeq(Query(params))

\* The regex ends the path where it ends, and Split finds the parameters.
LEMMA TargetParts ==
  ASSUME NEW path \in Seq(Ascii), NEW params \in Seq(Pairs), NEW target,
         IsTarget(target, path, params), NEW mark, mark = Find(target, Question, 1)
  PROVE  /\ target \in Seq(Byte)
         /\ SubSeq(target, 1, mark - 1) = UrlEncode(path, FALSE)
         /\ Split(SubSeq(target, mark + 1, Len(target)), Amp) = PairTexts(params)
<1> DEFINE e == UrlEncode(path, FALSE)
           all == FlattenSeq(Query(params))
           rest == SubSeq(target, mark + 1, Len(target))
<1>1. target = e \o all
  BY DEF IsTarget
<1>2. e \in Seq(Safe)
  BY EncodeText
<1>3. /\ params = <<>> => all = <<>>
      /\ params # <<>> => /\ all \in Seq(Byte) /\ Len(all) \in Nat /\ Len(all) > 0
                          /\ all[1] = Question
                          /\ Split(SubSeq(all, 2, Len(all)), Amp) = PairTexts(params)
  <2>1. CASE params = <<>>
    <3> DEFINE Q == Query(params)
               E == Ends(Q)
               n == Len(Q)
    <3>1. Q = <<>>
      BY <2>1 DEF Query
    <3>2. Q \in Seq(Seq(Byte)) /\ Len(Q) = 0
      BY <3>1, EmptySeq
    <3>3. IsFlat(Q, n, all, E) /\ n = 0
      BY <3>2 DEF IsFlat
    <3> HIDE DEF Q, E, all, n
    <3>4. all \in Seq(Byte) /\ E[0] = 0 /\ E[n] = Len(all)
      <4>1. Q \in Seq(Seq(Byte))
        BY <3>2
      <4>2. IsFlat(Q, n, all, E)
        BY <3>3
      <4>3. all \in Seq(Byte) /\ E[0] = 0 /\ E[n] = Len(all)
        BY <4>1, <4>2, Flattened
      <4> QED
        BY <4>3
    <3>5. all = <<>>
      BY <3>3, <3>4, EmptySeq
    <3> QED
      BY <2>1, <3>5
  <2>2. CASE params # <<>>
    BY <2>2, QuerySplit
  <2> QED
    BY <2>1, <2>2
<1> HIDE DEF e, all
<1>4. /\ e \in Seq(Byte) /\ Len(e) \in Nat
      /\ \A j \in 1 .. Len(e) : e[j] # Question
  <2>1. Safe \subseteq Byte /\ Question \notin Safe
    BY DEF Safe
  <2>2. e \in Seq(Byte)
    BY <1>2, <2>1, SeqMonotonic
  <2>3. \A j \in 1 .. Len(e) : e[j] \in Safe
    BY <1>2, ElementOfSeq
  <2> QED
    BY <2>1, <2>2, <2>3, LenProperties
<1>5. all \in Seq(Byte) /\ Len(all) \in Nat /\ (Len(all) > 0 => all[1] = Question)
  <2>1. CASE params = <<>>
    <3>1. all = <<>>
      BY <1>3, <2>1
    <3>2. all \in Seq(Byte) /\ Len(all) = 0
      BY <3>1, EmptySeq
    <3> QED
      BY <3>2
  <2>2. CASE params # <<>>
    BY <1>3, <2>2
  <2> QED
    BY <2>1, <2>2
<1>6. /\ target \in Seq(Byte) /\ Len(target) \in Nat /\ Len(target) = Len(e) + Len(all)
      /\ \A j \in 1 .. Len(e) : target[j] = e[j]
      /\ \A j \in 1 .. Len(all) : target[Len(e) + j] = all[j]
  BY <1>1, <1>4, <1>5, Joined
<1>7. mark = Len(e) + 1
  <2> DEFINE pos == Len(e) + 1
  <2>1. 1 \in 1 .. Len(target) + 1 /\ pos \in 1 .. Len(target) + 1
    BY <1>4, <1>5, <1>6
  <2>2. pos <= Len(target) => target[pos] = Question
    <3> SUFFICES ASSUME pos <= Len(target) PROVE target[pos] = Question
      OBVIOUS
    <3>1. Len(all) > 0 /\ 1 \in 1 .. Len(all)
      BY <1>4, <1>5, <1>6
    <3> QED
      BY <1>5, <1>6, <3>1
  <2>3. \A j \in 1 .. pos - 1 : target[j] # Question
    <3> TAKE j \in 1 .. pos - 1
    <3>1. j \in 1 .. Len(e)
      BY <1>4
    <3> QED
      BY <1>4, <1>6, <3>1
  <2> HIDE DEF pos
  <2>4. Find(target, Question, 1) = pos
    <3>1. target \in Seq(Byte)
      BY <1>6
    <3> QED
      BY <2>1, <2>2, <2>3, <3>1, FindIs
  <2> QED
    BY <2>4 DEF pos
<1>8. SubSeq(target, 1, mark - 1) = e
  <2>1. SubSeq(e \o all, 1, Len(e)) = e
    BY <1>4, <1>5, SubSeqOfSum
  <2>2. mark - 1 = Len(e)
    BY <1>4, <1>7
  <2> QED
    BY <1>1, <2>1, <2>2
<1>9. Split(rest, Amp) = PairTexts(params)
  <2>1. CASE params = <<>>
    <3>1. mark + 1 \in Int /\ Len(target) \in Int /\ mark + 1 > Len(target)
      <4>1. all = <<>>
        BY <1>3, <2>1
      <4>2. Len(all) = 0
        BY <4>1, EmptySeq
      <4> QED
        BY <1>4, <1>6, <1>7, <4>2
    <3>2. rest = <<>>
      BY <3>1, SubSeqEmpty
    <3> HIDE DEF rest
    <3>3. rest \in Seq(Byte) /\ Len(rest) + 1 = 1
      <4>1. Len(rest) = 0
        BY <3>2
      <4>2. rest \in Seq(Byte)
        BY <3>2
      <4> QED
        BY <4>1, <4>2
    <3>4. Split(rest, Amp) = <<>>
      BY <3>3, SplitWalk
    <3>5. PairTexts(params) = <<>>
      BY <2>1 DEF PairTexts
    <3> QED
      BY <3>4, <3>5
  <2>2. CASE params # <<>>
    <3>1. /\ all \in Seq(Byte) /\ Len(all) > 0
          /\ Split(SubSeq(all, 2, Len(all)), Amp) = PairTexts(params)
      BY <1>3, <2>2
    <3>2. rest = SubSeq(all, 2, Len(all))
      <4> DEFINE tail == SubSeq(all, 2, Len(all))
                 a == Len(e) + 1
      <4>1. /\ 2 \in 1 .. Len(all) + 1 /\ Len(all) \in 0 .. Len(all) /\ 2 <= Len(all) + 1
            /\ Len(all) + 1 - 2 = Len(all) - 1
        BY <1>5, <3>1
      <4>2. /\ tail \in Seq(Byte) /\ Len(tail) = Len(all) - 1
            /\ \A j \in 1 .. Len(all) - 1 : tail[j] = all[2 + j - 1]
        BY <1>5, <4>1, SubSeqOf
      <4> HIDE DEF tail
      <4>3. Stands(tail, target, a)
        <5> SUFFICES ASSUME NEW k \in 1 .. Len(tail) PROVE target[a + k] = tail[k]
          BY DEF Stands
        <5>1. k \in 1 .. Len(all) - 1 /\ 2 + k - 1 = k + 1 /\ k + 1 \in 1 .. Len(all)
          BY <1>5, <4>2
        <5>2. a + k = Len(e) + (k + 1)
          BY <1>4, <5>1
        <5> QED
          BY <1>6, <4>2, <5>1, <5>2
      <4>4. a \in Nat /\ a + Len(tail) = Len(target)
        BY <1>4, <1>5, <1>6, <4>2
      <4> HIDE DEF a
      <4>5. a + Len(tail) <= Len(target)
        BY <1>6, <4>4
      <4>6. SubSeq(target, a + 1, a + Len(tail)) = tail
        BY <1>6, <4>2, <4>3, <4>4, <4>5, SubSeqStands
      <4> QED
        BY <1>7, <4>4, <4>6 DEF tail, a
    <3> QED
      BY <3>1, <3>2
  <2> QED
    BY <2>1, <2>2
<1> QED
  BY <1>6, <1>8, <1>9 DEF e

\* The first member of a sequence that passes a test, if there is one.
LEMMA FirstOf ==
  ASSUME NEW n \in Nat, NEW I \in SUBSET (1 .. n)
  PROVE  (IF I # {} THEN Min(I) ELSE 0) \in 0 .. n
<1>1. CASE I = {}
  BY <1>1
<1>2. CASE I # {}
  <2>1. I \in SUBSET Nat /\ I \in SUBSET Int
    OBVIOUS
  <2>2. PICK x \in I : \A y \in I : x <= y
    BY <1>2, <2>1, SmallestExists
  <2>3. Min(I) = x
    BY <2>1, <2>2, MinOf
  <2> QED
    BY <1>2, <2>3
<1> QED
  BY <1>1, <1>2

\* Every parameter a client means has its equals sign.
LEMMA NoneIsBad ==
  ASSUME NEW params \in Seq(Pairs)
  PROVE  SelectInSeq(PairTexts(params), LAMBDA str : Find(str, Equals, 1) > Len(str)) = 0
<1> DEFINE pieces == PairTexts(params)
           I == {i \in 1 .. Len(pieces) : Find(pieces[i], Equals, 1) > Len(pieces[i])}
<1>1. I = {}
  <2>1. Len(params) \in Nat /\ DOMAIN params = 1 .. Len(params)
    BY LenProperties
  <2>2. DOMAIN pieces = 1 .. Len(params)
    BY <2>1 DEF PairTexts
  <2>3. Len(pieces) = Len(params)
    <3> HIDE DEF pieces
    <3> QED
      BY <2>1, <2>2
  <2>4. ASSUME NEW i \in 1 .. Len(params)
        PROVE  ~(Find(pieces[i], Equals, 1) > Len(pieces[i]))
    <3>1. pieces[i] = PairText(params[i]) /\ params[i] \in Pairs
      BY <2>1, ElementOfSeq DEF PairTexts
    <3> HIDE DEF pieces
    <3>2. Find(pieces[i], Equals, 1) <= Len(pieces[i]) /\ pieces[i] \in Seq(Byte)
          /\ Len(pieces[i]) \in Nat
      BY <3>1, PairParts
    <3>3. Find(pieces[i], Equals, 1) \in 1 .. Len(pieces[i]) + 1
      <4>1. 1 \in 1 .. Len(pieces[i]) + 1
        BY <3>2
      <4> QED
        BY <3>2, <4>1, FindStops
    <3> QED
      BY <3>2, <3>3
  <2> HIDE DEF pieces
  <2> QED
    BY <2>3, <2>4
<1> QED
  BY <1>1 DEF SelectInSeq

-----------------------------------------------------------------------------
(***************************************************************************)
(* The inductive invariant.                                                *)
(***************************************************************************)

IsMap(map, S) == map \in [DOMAIN map -> S]

IsRequest(req) ==
    /\ req = [method |-> req.method, path |-> req.path,
              headers |-> req.headers, params |-> req.params]
    /\ req.method \in Methods \union {""}
    /\ req.path \in Seq(Byte)
    /\ req.headers = Nothing \/ req.headers \in [{"Connection"} -> {"keep-alive", "close"}]
    /\ IsMap(req.params, Seq(Byte))

IsContext(ctx) ==
    /\ ctx = [recv |-> ctx.recv, resp |-> ctx.resp, request |-> ctx.request]
    /\ ctx.recv \in {"LINE", "HEAD", "OVER", "ERROR"}
    /\ ctx.resp \in {200, 400}
    /\ IsRequest(ctx.request)

\* What stands in a body (its contents by where they are from), what in a header.
Bodies == {"", "file", "zeros", "echo", "page"}

Values ==
    {Mime[ext] : ext \in DOMAIN Mime} \union Bodies \union
    {"text/plain", "text/html", "application/octet-stream", "/", "close", "keep-alive"}

IsResponse(rsp) ==
    /\ rsp = [statu |-> rsp.statu, body |-> rsp.body, headers |-> rsp.headers]
    /\ rsp.statu \in {200, 302, 400, 404}
    /\ rsp.body \in Bodies
    /\ IsMap(rsp.headers, Values)

Sources == {"file", "echo", "put", "moved", "none", "error"}

IsSent(answer) ==
    \/ answer = Unsent
    \/ /\ answer = [from |-> answer.from, path |-> answer.path,
                    rsp |-> answer.rsp, closed |-> answer.closed]
       /\ answer.from \in Sources
       /\ answer.path \in Seq(Byte)
       /\ IsResponse(answer.rsp)
       /\ answer.closed \in BOOLEAN

TypeInv ==
    /\ routes \in [Tables -> Seq(Registrations)]
    /\ basedir \in Seq(Byte)
    /\ started \in BOOLEAN
    /\ files \in SUBSET Seq(Byte)
    /\ client \in SUBSET Meant
    /\ IsContext(context)
    /\ IsSent(sent)

\* Nothing of an earlier request is left when a line is parsed.
Fresh == context.recv = "LINE" => context = NewContext

\* A request that is answered by a handler came with a method that has a table.
Known == context.recv \in {"HEAD", "OVER"} => context.request.method \in Tables \union {"HEAD"}

\* No file is read for a path that is not valid.
Checked == sent.from = "file" => ValidPath(sent.path)

IInv ==
    /\ TypeInv
    /\ Fresh
    /\ Known
    /\ Checked
    /\ ParamsArrive
    /\ HeaderSaysClose

-----------------------------------------------------------------------------
(***************************************************************************)
(* What the request line leaves in the request.                            *)
(***************************************************************************)

LEMMA SubSeqIn ==
  ASSUME NEW S, NEW s \in Seq(S), NEW a \in Nat, a > 0, NEW b \in 0 .. Len(s)
  PROVE  SubSeq(s, a, b) \in Seq(S)
<1>1. Len(s) \in Nat
  BY LenProperties
<1>2. a \in Int /\ b \in Int /\ a .. b \subseteq 1 .. Len(s)
  BY <1>1
<1>3. \A i \in a .. b : s[i] \in S
  BY <1>2, ElementOfSeq
<1> QED
  BY <1>2, <1>3, SubSeqProperties

LEMMA SplitTyped ==
  ASSUME NEW s \in Seq(Byte), NEW sep
  PROVE  Split(s, sep) \in Seq(Seq(Byte))
<1>1. 1 \in 1 .. Len(s) + 1
  BY LenProperties
<1> QED
  BY <1>1, SplitWalk

LEMMA UrlDecodeTyped ==
  ASSUME NEW s \in Seq(Byte), NEW p \in BOOLEAN
  PROVE  UrlDecode(s, p) \in Seq(Byte)
<1>1. 1 \in 1 .. Len(s) + 1
  BY LenProperties
<1> QED
  BY <1>1, UrlDecodeWalk

\* What insert does to a map.
LEMMA Inserted ==
  ASSUME NEW map, NEW key, NEW val, NEW new, new = Insert(map, key, val)
  PROVE  /\ DOMAIN new = DOMAIN map \union {key}
         /\ \A k \in DOMAIN map : new[k] = map[k]
         /\ key \notin DOMAIN map => new[key] = val
  BY DEF Insert

LEMMA InsertedTyped ==
  ASSUME NEW S, NEW map, IsMap(map, S), NEW key, NEW val \in S,
         NEW new, new = Insert(map, key, val)
  PROVE  IsMap(new, S)
<1>1. new = [k \in DOMAIN map \union {key} |-> IF k \in DOMAIN map THEN map[k] ELSE val]
  BY DEF Insert
<1>2. DOMAIN new = DOMAIN map \union {key}
  BY <1>1
<1>3. \A k \in DOMAIN map \union {key} : (IF k \in DOMAIN map THEN map[k] ELSE val) \in S
  BY DEF IsMap
<1>4. new \in [DOMAIN map \union {key} -> S]
  BY <1>1, <1>3
<1> QED
  BY <1>2, <1>4 DEF IsMap

LEMMA EmptyMap ==
  ASSUME NEW S
  PROVE  DOMAIN Nothing = {} /\ IsMap(Nothing, S)
<1>1. Nothing \in Seq(S) /\ Len(Nothing) = 0
  BY EmptySeq DEF Nothing
<1>2. DOMAIN Nothing = {}
  BY <1>1, LenProperties
<1>3. Nothing \in [1 .. Len(Nothing) -> S]
  BY <1>1, LenProperties
<1> QED
  BY <1>2, <1>3, LenProperties, <1>1 DEF IsMap

LEMMA SetParamTyped ==
  ASSUME NEW map, IsMap(map, Seq(Byte)), NEW str \in Seq(Byte)
  PROVE  IsMap(SetParam(map, str), Seq(Byte))
<1> DEFINE pos == Find(str, Equals, 1)
           key == UrlDecode(SubSeq(str, 1, pos - 1), TRUE)
           val == UrlDecode(SubSeq(str, pos + 1, Len(str)), TRUE)
<1>1. SetParam(map, str) = Insert(map, key, val)
  BY DEF SetParam
<1>2. Len(str) \in Nat /\ pos \in 1 .. Len(str) + 1
  <2>1. 1 \in 1 .. Len(str) + 1 /\ Len(str) \in Nat
    BY LenProperties
  <2> QED
    BY <2>1, FindStops
<1> HIDE DEF pos
<1>3. SubSeq(str, pos + 1, Len(str)) \in Seq(Byte)
  <2>1. pos + 1 \in Nat /\ pos + 1 > 0 /\ Len(str) \in 0 .. Len(str)
    BY <1>2
  <2> QED
    BY <2>1, SubSeqIn
<1>4. val \in Seq(Byte)
  BY <1>3, UrlDecodeTyped
<1> HIDE DEF key, val
<1> QED
  BY <1>1, <1>4, InsertedTyped

LEMMA SetParamsTyped ==
  ASSUME NEW map, IsMap(map, Seq(Byte)), NEW strs \in Seq(Seq(Byte))
  PROVE  IsMap(SetParams(map, strs), Seq(Byte))
<1> DEFINE n == Len(strs)
           f == Setting(map, strs)
           P == {i \in 0 .. n : IsMap(f[i], Seq(Byte))}
<1>1. n \in Nat /\ \A i \in 1 .. n : strs[i] \in Seq(Byte)
  BY LenProperties, ElementOfSeq
<1>2. /\ SetParams(map, strs) = f[n] /\ f[0] = map
      /\ \A i \in 1 .. n : f[i] = SetParam(f[i - 1], strs[i])
  BY SetParamsWalk
<1> HIDE DEF n, f
<1>3. ASSUME NEW i \in 0 .. n, \A j \in 0 .. i - 1 : j \in P PROVE i \in P
  <2>1. CASE i = 0
    <3>1. IsMap(f[0], Seq(Byte))
      BY <1>2
    <3> QED
      BY <2>1, <3>1
  <2>2. CASE i # 0
    <3>1. i \in 1 .. n /\ i - 1 \in 0 .. i - 1
      BY <1>1, <2>2
    <3>2. IsMap(f[i - 1], Seq(Byte))
      BY <1>3, <3>1
    <3>3. strs[i] \in Seq(Byte) /\ f[i] = SetParam(f[i - 1], strs[i])
      BY <1>1, <1>2, <3>1
    <3>4. IsMap(f[i], Seq(Byte))
      BY <3>2, <3>3, SetParamTyped
    <3> QED
      BY <3>4
  <2> QED
    BY <2>1, <2>2
<1>4. n \in P
  <2> HIDE DEF P
  <2>1. \A i \in 0 .. n : i \in P
    BY <1>1, <1>3, Upwards
  <2> QED
    BY <1>1, <2>1
<1> QED
  BY <1>2, <1>4

\* The first i parameters in a map: of two with the same name the first.
Kept(map, params, i) ==
    /\ IsMap(map, Seq(Byte))
    /\ DOMAIN map = {params[j][1] : j \in 1 .. i}
    /\ \A j \in 1 .. i :
          (\A l \in 1 .. j - 1 : params[l][1] # params[j][1]) => map[params[j][1]] = params[j][2]

LEMMA KeepsOneMore ==
  ASSUME NEW params \in Seq(Pairs), NEW i \in Nat, i + 1 <= Len(params),
         NEW map, Kept(map, params, i),
         NEW new, new = Insert(map, params[i + 1][1], params[i + 1][2])
  PROVE  Kept(new, params, i + 1)
<1> DEFINE key == params[i + 1][1]
           val == params[i + 1][2]
<1>1. val \in Seq(Byte)
  <2>1. i + 1 \in 1 .. Len(params)
    BY LenProperties
  <2>2. params[i + 1] \in Pairs
    BY <2>1, ElementOfSeq
  <2>3. val \in Seq(Ascii)
    BY <2>2 DEF Pairs
  <2>4. Ascii \subseteq Byte
    BY DEF Ascii, Byte
  <2> QED
    BY <2>3, <2>4, SeqMonotonic
<1>2. /\ DOMAIN new = DOMAIN map \union {key}
      /\ \A k \in DOMAIN map : new[k] = map[k]
      /\ key \notin DOMAIN map => new[key] = val
  <2>1. new = Insert(map, key, val)
    OBVIOUS
  <2> HIDE DEF key, val
  <2> QED
    BY <2>1, Inserted
<1>3. IsMap(new, Seq(Byte))
  <2>1. IsMap(map, Seq(Byte))
    BY DEF Kept
  <2>2. new = Insert(map, key, val)
    OBVIOUS
  <2> HIDE DEF key, val
  <2> QED
    BY <1>1, <2>1, <2>2, InsertedTyped
<1>4. DOMAIN map = {params[j][1] : j \in 1 .. i}
  BY DEF Kept
<1>5. DOMAIN new = {params[j][1] : j \in 1 .. i + 1}
  <2>1. \A j \in 1 .. i + 1 : j \in 1 .. i \/ j = i + 1
    OBVIOUS
  <2>2. \A j \in 1 .. i : j \in 1 .. i + 1
    OBVIOUS
  <2>3. i + 1 \in 1 .. i + 1
    OBVIOUS
  <2> QED
    BY <1>2, <1>4, <2>1, <2>2, <2>3
<1>6. ASSUME NEW j \in 1 .. i + 1, \A l \in 1 .. j - 1 : params[l][1] # params[j][1]
      PROVE  new[params[j][1]] = params[j][2]
  <2>1. CASE j = i + 1
    <3>1. \A l \in 1 .. i : params[l][1] # key
      <4>1. \A l \in 1 .. i : l \in 1 .. j - 1
        BY <2>1
      <4> QED
        BY <1>6, <2>1, <4>1
    <3>2. key \notin DOMAIN map
      BY <1>4, <3>1
    <3> QED
      BY <1>2, <2>1, <3>2
  <2>2. CASE j # i + 1
    <3>1. j \in 1 .. i
      BY <2>2
    <3>2. params[j][1] \in DOMAIN map
      BY <1>4, <3>1
    <3>3. map[params[j][1]] = params[j][2]
      BY <1>6, <3>1 DEF Kept
    <3> QED
      BY <1>2, <3>2, <3>3
  <2> QED
    BY <2>1, <2>2
<1> QED
  BY <1>3, <1>5, <1>6 DEF Kept

\* The parameters are kept as the client means them.
LEMMA ParamsKept ==
  ASSUME NEW params \in Seq(Pairs)
  PROVE  Kept(SetParams(Nothing, PairTexts(params)), params, Len(params))
<1> DEFINE strs == PairTexts(params)
           n == Len(params)
           f == Setting(Nothing, strs)
           P == {i \in 0 .. n : Kept(f[i], params, i)}
<1>1. n \in Nat /\ DOMAIN params = 1 .. n /\ \A i \in 1 .. n : params[i] \in Pairs
  BY LenProperties, ElementOfSeq
<1>2. strs = [i \in 1 .. n |-> PairText(params[i])]
  BY <1>1 DEF PairTexts
<1>3. strs \in Seq(Seq(Byte)) /\ Len(strs) = n
  <2>1. \A i \in 1 .. n : PairText(params[i]) \in Seq(Byte)
    BY <1>1, PairParts
  <2>2. strs \in [1 .. n -> Seq(Byte)]
    BY <1>2, <2>1
  <2> HIDE DEF strs, n
  <2> QED
    BY <1>1, <2>2
<1>4. /\ SetParams(Nothing, strs) = f[n] /\ f[0] = Nothing
      /\ \A i \in 1 .. n : f[i] = SetParam(f[i - 1], strs[i])
  BY <1>3, SetParamsWalk
<1> HIDE DEF n, f, strs
<1>5. ASSUME NEW i \in 0 .. n, \A j \in 0 .. i - 1 : j \in P PROVE i \in P
  <2>1. CASE i = 0
    <3>1. Kept(Nothing, params, 0)
      <4>1. DOMAIN Nothing = {} /\ IsMap(Nothing, Seq(Byte))
        BY EmptyMap
      <4>2. 1 .. 0 = {}
        OBVIOUS
      <4>3. {params[j][1] : j \in 1 .. 0} = {}
        BY <4>2
      <4> QED
        BY <4>1, <4>2, <4>3 DEF Kept
    <3> QED
      BY <1>4, <2>1, <3>1
  <2>2. CASE i # 0
    <3>1. i \in 1 .. n /\ i - 1 \in 0 .. i - 1 /\ i - 1 \in Nat /\ (i - 1) + 1 = i
      BY <1>1, <2>2
    <3>2. Kept(f[i - 1], params, i - 1)
      BY <1>5, <3>1
    <3>3. f[i] = SetParam(f[i - 1], PairText(params[i])) /\ params[i] \in Pairs
      BY <1>1, <1>2, <1>4, <3>1
    <3>4. f[i] = Insert(f[i - 1], params[i][1], params[i][2])
      BY <3>3, SetParamOfPair
    <3>5. (i - 1) + 1 <= Len(params)
      BY <1>1, <3>1 DEF n
    <3>6. Kept(f[i], params, (i - 1) + 1)
      BY <3>1, <3>2, <3>4, <3>5, KeepsOneMore
    <3>7. Kept(f[i], params, i)
      BY <3>1, <3>6
    <3> QED
      BY <3>7
  <2> QED
    BY <2>1, <2>2
<1>6. n \in P
  <2> HIDE DEF P
  <2>1. \A i \in 0 .. n : i \in P
    BY <1>1, <1>5, Upwards
  <2> QED
    BY <1>1, <2>1
<1> QED
  BY <1>4, <1>6 DEF strs, n

-----------------------------------------------------------------------------
(***************************************************************************)
(* What ParseHttpLine makes of a target, in a new context.                 *)
(***************************************************************************)

Pieces(target) ==
    Split(SubSeq(target, Find(target, Question, 1) + 1, Len(target)), Amp)

Bad(target) == SelectInSeq(Pieces(target), LAMBDA str : Find(str, Equals, 1) > Len(str))

Good(target) ==
    IF Bad(target) = 0 THEN Pieces(target) ELSE SubSeq(Pieces(target), 1, Bad(target) - 1)

PathOf(target) == UrlDecode(SubSeq(target, 1, Find(target, Question, 1) - 1), FALSE)

LineRequest(method, target) ==
    [method |-> method, path |-> PathOf(target), headers |-> Nothing,
     params |-> SetParams(Nothing, Good(target))]

LEMMA Parsed ==
  ASSUME context = NewContext, NEW method, NEW target
  PROVE  ParseHttpLine(method, target) =
            IF method = "PATCH" THEN Failed(NewRequest)
            ELSE IF Bad(target) # 0 THEN Failed(LineRequest(method, target))
            ELSE [recv |-> "HEAD", resp |-> 200, request |-> LineRequest(method, target)]
<1> DEFINE path == PathOf(target)
           good == Good(target)
           bad == Bad(target)
           request == [context.request EXCEPT
                         !.method = method, !.path = path, !.params = SetParams(@, good)]
<1>1. ParseHttpLine(method, target) =
         IF method = "PATCH" THEN Failed(context.request)
         ELSE IF bad # 0 THEN Failed(request)
         ELSE [context EXCEPT !.recv = "HEAD", !.request = request]
  BY DEF ParseHttpLine, Pieces, Bad, Good, PathOf
<1> HIDE DEF path, good, bad
<1>2. context.request = NewRequest /\ context = [recv |-> "LINE", resp |-> 200, request |-> NewRequest]
  BY DEF NewContext
<1>3. NewRequest = [method |-> "", path |-> <<>>, headers |-> Nothing, params |-> Nothing]
  BY DEF NewRequest
<1>4. request = [method |-> method, path |-> path, headers |-> Nothing,
                 params |-> SetParams(Nothing, good)]
  <2> DEFINE r == NewRequest
             q == SetParams(Nothing, good)
  <2>1. context.request = r /\ r.params = Nothing
    <3>1. r.params = Nothing
      BY <1>3
    <3> QED
      BY <1>2, <3>1
  <2>2. r = [method |-> "", path |-> <<>>, headers |-> Nothing, params |-> Nothing]
    BY <1>3
  <2> HIDE DEF r
  <2>3. request = [r EXCEPT !.method = method, !.path = path, !.params = q]
    BY <2>1
  <2> HIDE DEF q, request
  <2>4. request = [method |-> method, path |-> path, headers |-> Nothing, params |-> q]
    BY <2>2, <2>3
  <2> QED
    BY <2>4 DEF q
<1>5. request = LineRequest(method, target)
  BY <1>4 DEF LineRequest, path, good
<1> HIDE DEF request
<1>6. [context EXCEPT !.recv = "HEAD", !.request = request] =
         [recv |-> "HEAD", resp |-> 200, request |-> request]
  <2> DEFINE r == NewRequest
             c == context
             new == [c EXCEPT !.recv = "HEAD", !.request = request]
  <2>1. c = [recv |-> "LINE", resp |-> 200, request |-> r]
    BY <1>2
  <2>2. new = [c EXCEPT !.recv = "HEAD", !.request = request]
    OBVIOUS
  <2> HIDE DEF c, r, new
  <2>3. new = [recv |-> "HEAD", resp |-> 200, request |-> request]
    BY <2>1, <2>2
  <2> QED
    BY <2>3 DEF c, new
<1> QED
  BY <1>1, <1>2, <1>5, <1>6 DEF bad

LEMMA LineRequestTyped ==
  ASSUME NEW method \in Methods, NEW target \in Seq(Byte)
  PROVE  IsRequest(LineRequest(method, target))
<1> DEFINE mark == Find(target, Question, 1)
           n == Len(target)
           pieces == Pieces(target)
           bad == Bad(target)
           good == Good(target)
<1>1. n \in Nat /\ mark \in 1 .. n + 1
  <2>1. 1 \in 1 .. n + 1 /\ n \in Nat
    BY LenProperties
  <2> QED
    BY <2>1, FindStops
<1>2. pieces = Split(SubSeq(target, mark + 1, n), Amp)
  BY DEF Pieces
<1>3. PathOf(target) = UrlDecode(SubSeq(target, 1, mark - 1), FALSE)
  BY DEF PathOf
<1> HIDE DEF mark
<1>4. PathOf(target) \in Seq(Byte)
  <2>1. mark - 1 \in 0 .. Len(target)
    BY <1>1
  <2>2. SubSeq(target, 1, mark - 1) \in Seq(Byte)
    BY <2>1, SubSeqIn
  <2> QED
    BY <1>3, <2>2, UrlDecodeTyped
<1>5. pieces \in Seq(Seq(Byte))
  <2>1. mark + 1 \in Nat /\ mark + 1 > 0 /\ n \in 0 .. Len(target)
    BY <1>1
  <2>2. SubSeq(target, mark + 1, n) \in Seq(Byte)
    BY <2>1, SubSeqIn
  <2> QED
    BY <1>2, <2>2, SplitTyped
<1>6. bad \in 0 .. Len(pieces)
  <2> DEFINE I == {i \in 1 .. Len(pieces) : Find(pieces[i], Equals, 1) > Len(pieces[i])}
  <2>1. bad = IF I # {} THEN Min(I) ELSE 0
    BY DEF Bad, SelectInSeq
  <2>2. I \in SUBSET (1 .. Len(pieces))
    OBVIOUS
  <2>3. Len(pieces) \in Nat
    BY <1>5, LenProperties
  <2> HIDE DEF I, bad, pieces
  <2> QED
    BY <2>1, <2>2, <2>3, FirstOf
<1>7. good = IF bad = 0 THEN pieces ELSE SubSeq(pieces, 1, bad - 1)
  BY DEF Good
<1> HIDE DEF pieces, bad, good
<1>8. good \in Seq(Seq(Byte))
  <2>1. Len(pieces) \in Nat
    BY <1>5, LenProperties
  <2>2. CASE bad = 0
    BY <1>5, <1>7, <2>2
  <2>3. CASE bad # 0
    <3>1. bad - 1 \in 0 .. Len(pieces)
      BY <1>6, <2>1, <2>3
    <3>2. SubSeq(pieces, 1, bad - 1) \in Seq(Seq(Byte))
      BY <1>5, <3>1, SubSeqIn
    <3> QED
      BY <1>7, <2>3, <3>2
  <2> QED
    BY <2>2, <2>3
<1>9. IsMap(SetParams(Nothing, good), Seq(Byte))
  BY <1>8, EmptyMap, SetParamsTyped
<1>10. LineRequest(method, target) =
          [method |-> method, path |-> PathOf(target), headers |-> Nothing,
           params |-> SetParams(Nothing, good)]
  BY DEF LineRequest, good
<1> DEFINE request == LineRequest(method, target)
           path == PathOf(target)
           params == SetParams(Nothing, good)
<1>11. request = [method |-> method, path |-> path, headers |-> Nothing, params |-> params]
  BY <1>10
<1>12. path \in Seq(Byte) /\ IsMap(params, Seq(Byte))
  BY <1>4, <1>9
<1> HIDE DEF request, path, params
<1>13. IsRequest(request)
  BY <1>11, <1>12 DEF IsRequest
<1> QED
  BY <1>13 DEF request

LEMMA NewContextTyped ==
  IsRequest(NewRequest) /\ IsContext(NewContext)
<1>1. <<>> \in Seq(Byte) /\ IsMap(Nothing, Seq(Byte))
  BY EmptySeq, EmptyMap
<1>2. IsRequest(NewRequest)
  BY <1>1 DEF IsRequest, NewRequest
<1> QED
  BY <1>2 DEF IsContext, NewContext

\* What is left when a line has been parsed.
LEMMA LineParsed ==
  ASSUME context = NewContext, NEW method \in Methods, NEW target \in Seq(Byte),
         NEW out, out = ParseHttpLine(method, target)
  PROVE  /\ IsContext(out)
         /\ out.recv \in {"HEAD", "ERROR"}
         /\ out.recv = "HEAD" => method # "PATCH" /\ out.request = LineRequest(method, target)
<1> DEFINE request == LineRequest(method, target)
<1>1. IsRequest(request) /\ IsRequest(NewRequest)
  BY LineRequestTyped, NewContextTyped
<1>2. out = IF method = "PATCH" THEN Failed(NewRequest)
            ELSE IF Bad(target) # 0 THEN Failed(request)
            ELSE [recv |-> "HEAD", resp |-> 200, request |-> request]
  BY Parsed
<1> HIDE DEF request
<1>3. CASE method = "PATCH"
  <2>1. out = [recv |-> "ERROR", resp |-> 400, request |-> NewRequest]
    BY <1>2, <1>3 DEF Failed
  <2> QED
    BY <1>1, <2>1 DEF IsContext
<1>4. CASE method # "PATCH" /\ Bad(target) # 0
  <2>1. out = [recv |-> "ERROR", resp |-> 400, request |-> request]
    BY <1>2, <1>4 DEF Failed
  <2> QED
    BY <1>1, <2>1 DEF IsContext
<1>5. CASE method # "PATCH" /\ Bad(target) = 0
  <2>1. out = [recv |-> "HEAD", resp |-> 200, request |-> request]
    BY <1>2, <1>5
  <2>2. IsContext(out)
    BY <1>1, <2>1 DEF IsContext
  <2> QED
    BY <1>5, <2>1, <2>2 DEF request
<1> QED
  BY <1>3, <1>4, <1>5

\* What a client meant is what is left.
LEMMA MeantParsed ==
  ASSUME NEW method, NEW meant, meant.path \in Seq(Ascii), meant.params \in Seq(Pairs),
         NEW request, request = LineRequest(method, Target(meant))
  PROVE  /\ request.path = meant.path
         /\ Kept(request.params, meant.params, Len(meant.params))
<1> DEFINE target == Target(meant)
           path == meant.path
           params == meant.params
           mark == Find(target, Question, 1)
<1>1. IsTarget(target, path, params)
  BY TargetText DEF IsTarget
<1> HIDE DEF target, path, params
<1>2. path \in Seq(Ascii) /\ params \in Seq(Pairs)
  BY DEF path, params
<1>3. /\ SubSeq(target, 1, mark - 1) = UrlEncode(path, FALSE)
      /\ Split(SubSeq(target, mark + 1, Len(target)), Amp) = PairTexts(params)
  BY <1>1, <1>2, TargetParts
<1>4. PathOf(target) = path
  <2>1. PathOf(target) = UrlDecode(UrlEncode(path, FALSE), FALSE)
    BY <1>3 DEF PathOf
  <2> QED
    BY <1>2, <2>1, RoundTrip
<1>5. Pieces(target) = PairTexts(params)
  BY <1>3 DEF Pieces
<1>6. Bad(target) = 0
  <2>1. Bad(target) = SelectInSeq(PairTexts(params), LAMBDA str : Find(str, Equals, 1) > Len(str))
    BY <1>5 DEF Bad, SelectInSeq
  <2> QED
    BY <1>2, <2>1, NoneIsBad
<1>7. Good(target) = PairTexts(params)
  BY <1>5, <1>6 DEF Good
<1>8. Kept(SetParams(Nothing, Good(target)), params, Len(params))
  BY <1>2, <1>7, ParamsKept
<1>9. request.path = PathOf(target) /\ request.params = SetParams(Nothing, Good(target))
  BY DEF LineRequest, target
<1> QED
  BY <1>4, <1>8, <1>9 DEF path, params

LEMMA TargetTyped ==
  ASSUME NEW meant, meant.path \in Seq(Ascii), meant.params \in Seq(Pairs)
  PROVE  Target(meant) \in Seq(Byte)
<1> DEFINE target == Target(meant)
           path == meant.path
           params == meant.params
           mark == Find(target, Question, 1)
<1>1. IsTarget(target, path, params)
  BY TargetText DEF IsTarget
<1> HIDE DEF target, path, params, mark
<1>2. path \in Seq(Ascii) /\ params \in Seq(Pairs)
  BY DEF path, params
<1>3. mark = Find(target, Question, 1)
  BY DEF mark
<1>4. target \in Seq(Byte)
  BY <1>1, <1>2, <1>3, TargetParts
<1> QED
  BY <1>4 DEF target

-----------------------------------------------------------------------------
(***************************************************************************)
(* Responses.                                                              *)
(***************************************************************************)

\* Responses with headers a handler may have set, the length not among them.
IsUnwritten(rsp) == IsResponse(rsp) /\ "Content-Length" \notin DOMAIN rsp.headers

LEMMA Unwritten ==
  ASSUME NEW statu, statu \in {200, 302, 400, 404}, NEW body, body \in Bodies,
         NEW headers, IsMap(headers, Values), "Content-Length" \notin DOMAIN headers,
         NEW rsp, rsp = [statu |-> statu, body |-> body, headers |-> headers]
  PROVE  IsUnwritten(rsp)
  BY DEF IsUnwritten, IsResponse

LEMMA WithoutHeaders ==
  ASSUME NEW statu, statu \in {200, 302, 400, 404}, NEW body, body \in Bodies,
         NEW rsp, rsp = [NewResponse(statu) EXCEPT !.body = body]
  PROVE  IsUnwritten(rsp)
<1> DEFINE new == NewResponse(statu)
           none == Nothing
           full == rsp
<1>1. new = [statu |-> statu, body |-> "", headers |-> none] /\ full = [new EXCEPT !.body = body]
  BY DEF NewResponse
<1>2. IsMap(none, Values) /\ "Content-Length" \notin DOMAIN none
  BY EmptyMap
<1> HIDE DEF new, none, full
<1>3. full = [statu |-> statu, body |-> body, headers |-> none]
  BY <1>1
<1>4. IsUnwritten(full)
  BY <1>2, <1>3, Unwritten
<1> QED
  BY <1>4 DEF full

LEMMA IsNewResponse ==
  ASSUME NEW statu, statu \in {200, 302, 400, 404}
  PROVE  IsUnwritten(NewResponse(statu))
<1> DEFINE rsp == NewResponse(statu)
           none == Nothing
           body == ""
<1>1. DOMAIN none = {} /\ IsMap(none, Values)
  BY EmptyMap
<1>2. rsp = [statu |-> statu, body |-> body, headers |-> none]
  BY DEF NewResponse
<1>3. body \in Bodies /\ "Content-Length" \notin DOMAIN none
  BY <1>1 DEF Bodies
<1> HIDE DEF rsp, none, body
<1>4. IsUnwritten(rsp)
  BY <1>1, <1>2, <1>3, Unwritten
<1> QED
  BY <1>4 DEF rsp

LEMMA WithContent ==
  ASSUME NEW statu, statu \in {200, 302, 400, 404}, NEW body, body \in Bodies,
         NEW type, type \in Values,
         NEW rsp, rsp = SetContent(NewResponse(statu), body, type)
  PROVE  IsUnwritten(rsp)
<1> DEFINE new == NewResponse(statu)
           none == Nothing
           headers == Insert(none, "Content-Type", type)
           full == rsp
<1>1. /\ new = [statu |-> statu, body |-> "", headers |-> none]
      /\ full = [new EXCEPT !.body = body, !.headers = headers]
  BY DEF NewResponse, SetContent
<1>2. DOMAIN none = {} /\ IsMap(none, Values)
  BY EmptyMap
<1> HIDE DEF new, none, full
<1>3. headers = Insert(none, "Content-Type", type)
  OBVIOUS
<1> HIDE DEF headers
<1>4. IsMap(headers, Values)
  BY <1>2, <1>3, InsertedTyped
<1>5. DOMAIN headers = DOMAIN none \union {"Content-Type"}
  BY <1>3 DEF Insert
<1>6. "Content-Length" \notin DOMAIN headers
  BY <1>2, <1>5
<1>7. full = [statu |-> statu, body |-> body, headers |-> headers]
  BY <1>1
<1>8. IsUnwritten(full)
  BY <1>4, <1>6, <1>7, Unwritten
<1> QED
  BY <1>8 DEF full

\* A response that redirects and ends the connection.
LEMMA Redirecting ==
  ASSUME NEW rsp,
         rsp = [SetRedirect(NewResponse(200), "/") EXCEPT !.headers = Insert(@, "Connection", "close")]
  PROVE  IsUnwritten(rsp)
<1> DEFINE new == NewResponse(200)
           none == Nothing
           there == Insert(none, "Location", "/")
           moved == SetRedirect(new, "/")
           headers == Insert(there, "Connection", "close")
           full == rsp
<1>1. /\ new = [statu |-> 200, body |-> "", headers |-> none]
      /\ moved = [new EXCEPT !.statu = 302, !.headers = Insert(@, "Location", "/")]
      /\ full = [moved EXCEPT !.headers = Insert(@, "Connection", "close")]
  BY DEF NewResponse, SetRedirect
<1>2. DOMAIN none = {} /\ IsMap(none, Values)
  BY EmptyMap
<1> HIDE DEF new, none, moved, full
<1>3. there = Insert(none, "Location", "/") /\ headers = Insert(there, "Connection", "close")
  OBVIOUS
<1>4. new.headers = none
  BY <1>1
<1>5. moved = [new EXCEPT !.statu = 302, !.headers = there]
  BY <1>1, <1>4
<1> HIDE DEF there
<1>6. moved = [statu |-> 302, body |-> "", headers |-> there]
  <2>1. new = [statu |-> 200, body |-> "", headers |-> none]
    BY <1>1
  <2> QED
    BY <1>5, <2>1
<1>7. full = [moved EXCEPT !.headers = headers]
  <2>1. full = [moved EXCEPT !.headers = Insert(@, "Connection", "close")]
    BY <1>1
  <2>2. moved.headers = there
    BY <1>6
  <2>3. full = [moved EXCEPT !.headers = Insert(there, "Connection", "close")]
    BY <2>1, <2>2
  <2> QED
    BY <2>3
<1> HIDE DEF headers
<1>8. full = [statu |-> 302, body |-> "", headers |-> headers]
  BY <1>6, <1>7
<1>9. "/" \in Values /\ "close" \in Values /\ "" \in Bodies
  BY DEF Values, Bodies
<1>10. IsMap(there, Values) /\ DOMAIN there = DOMAIN none \union {"Location"}
  <2>1. IsMap(there, Values)
    BY <1>2, <1>3, <1>9, InsertedTyped
  <2>2. DOMAIN there = DOMAIN none \union {"Location"}
    BY <1>3 DEF Insert
  <2> QED
    BY <2>1, <2>2
<1>11. IsMap(headers, Values) /\ DOMAIN headers = DOMAIN there \union {"Connection"}
  <2>1. IsMap(headers, Values)
    BY <1>3, <1>9, <1>10, InsertedTyped
  <2>2. DOMAIN headers = DOMAIN there \union {"Connection"}
    BY <1>3 DEF Insert
  <2> QED
    BY <2>1, <2>2
<1>12. "Content-Length" \notin DOMAIN headers
  BY <1>2, <1>10, <1>11
<1> DEFINE statu == 302
           body == ""
<1>13. statu \in {200, 302, 400, 404} /\ body \in Bodies /\ IsMap(headers, Values)
  BY <1>9, <1>11
<1>14. full = [statu |-> statu, body |-> body, headers |-> headers]
  BY <1>8
<1> HIDE DEF statu, body
<1>15. IsUnwritten(full)
  BY <1>12, <1>13, <1>14, Unwritten
<1> QED
  BY <1>15 DEF full

\* What WriteReponse adds: the connection always, and the length of a body.
LEMMA ResponseWritten ==
  ASSUME NEW rsp, IsUnwritten(rsp), NEW req, NEW new, new = WriteReponse(req, rsp)
  PROVE  /\ IsResponse(new)
         /\ "Connection" \in DOMAIN new.headers
         /\ new.body # "" => /\ "Content-Length" \in DOMAIN new.headers
                             /\ new.headers["Content-Length"] = new.body
<1> DEFINE says == IF Close(req.headers) THEN "close" ELSE "keep-alive"
           old == rsp.headers
           conn == Insert(old, "Connection", says)
           long == Insert(conn, "Content-Length", rsp.body)
           full == Insert(long, "Content-Type", "application/octet-stream")
           headers == IF rsp.body = "" THEN conn ELSE full
<1>1. new = [rsp EXCEPT !.headers = headers]
  BY DEF WriteReponse
<1>2. /\ rsp = [statu |-> rsp.statu, body |-> rsp.body, headers |-> rsp.headers]
      /\ rsp.statu \in {200, 302, 400, 404}
      /\ rsp.body \in Bodies
      /\ IsMap(old, Values)
      /\ "Content-Length" \notin DOMAIN old
  BY DEF IsUnwritten, IsResponse
<1>3. says \in Values /\ "application/octet-stream" \in Values /\ Bodies \subseteq Values
  BY DEF Values
<1> HIDE DEF says
<1>4. conn = Insert(old, "Connection", says) /\ long = Insert(conn, "Content-Length", rsp.body)
      /\ full = Insert(long, "Content-Type", "application/octet-stream")
      /\ headers = IF rsp.body = "" THEN conn ELSE full
  OBVIOUS
<1> HIDE DEF old, conn, long, full, headers
<1>5. IsMap(conn, Values) /\ DOMAIN conn = DOMAIN old \union {"Connection"}
  <2>1. IsMap(conn, Values)
    BY <1>2, <1>3, <1>4, InsertedTyped
  <2>2. DOMAIN conn = DOMAIN old \union {"Connection"}
    BY <1>4 DEF Insert
  <2> QED
    BY <2>1, <2>2
<1>6. IsMap(long, Values)
  <2>1. rsp.body \in Values
    BY <1>2, <1>3
  <2> QED
    BY <1>4, <1>5, <2>1, InsertedTyped
<1>7. DOMAIN long = DOMAIN conn \union {"Content-Length"} /\ long["Content-Length"] = rsp.body
  <2>1. "Content-Length" \notin DOMAIN conn
    BY <1>2, <1>5
  <2>2. long = Insert(conn, "Content-Length", rsp.body)
    BY <1>4
  <2> QED
    BY <2>1, <2>2 DEF Insert
<1>8. IsMap(full, Values)
  BY <1>3, <1>4, <1>6, InsertedTyped
<1>9. DOMAIN full = DOMAIN long \union {"Content-Type"} /\ full["Content-Length"] = rsp.body
  <2>1. "Content-Length" \in DOMAIN long
    BY <1>7
  <2>2. full = Insert(long, "Content-Type", "application/octet-stream")
    BY <1>4
  <2>3. DOMAIN full = DOMAIN long \union {"Content-Type"}
    BY <2>2 DEF Insert
  <2>4. \A k \in DOMAIN long : full[k] = long[k]
    BY <2>2 DEF Insert
  <2> QED
    BY <1>7, <2>1, <2>3, <2>4
<1>10. /\ IsMap(headers, Values) /\ "Connection" \in DOMAIN headers
       /\ rsp.body # "" => /\ "Content-Length" \in DOMAIN headers
                           /\ headers["Content-Length"] = rsp.body
  <2>1. CASE rsp.body = ""
    BY <1>4, <1>5, <2>1
  <2>2. CASE rsp.body # ""
    BY <1>4, <1>5, <1>7, <1>8, <1>9, <2>2
  <2> QED
    BY <2>1, <2>2
<1>11. new = [statu |-> rsp.statu, body |-> rsp.body, headers |-> headers]
  BY <1>1, <1>2
<1>12. IsResponse(new)
  <2>1. new.statu = rsp.statu /\ new.body = rsp.body /\ new.headers = headers
    BY <1>11
  <2>2. new = [statu |-> new.statu, body |-> new.body, headers |-> new.headers]
    BY <1>11, <2>1
  <2> QED
    BY <1>2, <1>10, <2>1, <2>2 DEF IsResponse
<1>13. new.body = rsp.body /\ new.headers = headers
  BY <1>11
<1> QED
  BY <1>10, <1>12, <1>13

LEMMA TypeOfFile ==
  ASSUME NEW filename
  PROVE  ExtMime(filename) \in Values
<1> DEFINE pos == SelectLastInSeq(filename, LAMBDA c : c = Dot)
           ext == SubSeq(filename, pos, Len(filename))
<1>1. ExtMime(filename) =
         IF pos > 0 /\ ext \in DOMAIN Mime THEN Mime[ext] ELSE "application/octet-stream"
  BY DEF ExtMime
<1> HIDE DEF pos, ext
<1> QED
  BY <1>1 DEF Values

\* What may become of a request that has come in.
IsOutcome(out, req) ==
    /\ out.from \in {"file", "echo", "put", "moved", "none"}
    /\ out.files \in SUBSET Seq(Byte)
    /\ IsUnwritten(out.rsp)
    /\ out.from = "file" => ValidPath(req.path)

LEMMA FileOutcome ==
  ASSUME TypeInv, NEW req, IsFileHandler(req), NEW out \in FileHandler(req)
  PROVE  IsOutcome(out, req)
<1> DEFINE type == ExtMime(FilePath(req.path))
<1>1. PICK body \in ReadFile :
         out = [from |-> "file", files |-> files,
                rsp |-> IF body = "file" THEN SetContent(NewResponse(200), body, type)
                        ELSE [NewResponse(200) EXCEPT !.body = body]]
  BY DEF FileHandler
<1>2. type \in Values /\ body \in Bodies
  BY TypeOfFile DEF ReadFile, Bodies
<1> HIDE DEF type
<1>3. IsUnwritten(out.rsp)
  <2>1. CASE body = "file"
    <3>1. out.rsp = SetContent(NewResponse(200), body, type)
      BY <1>1, <2>1
    <3> QED
      BY <1>2, <3>1, WithContent
  <2>2. CASE body # "file"
    <3>1. out.rsp = [NewResponse(200) EXCEPT !.body = body]
      BY <1>1, <2>2
    <3> QED
      BY <1>2, <3>1, WithoutHeaders
  <2> QED
    BY <2>1, <2>2
<1>4. out.from = "file" /\ out.files = files
  BY <1>1
<1>5. ValidPath(req.path)
  BY DEF IsFileHandler
<1> QED
  BY <1>3, <1>4, <1>5 DEF IsOutcome, TypeInv

LEMMA HandlerOutcome ==
  ASSUME TypeInv, NEW req, req.path \in Seq(Byte), NEW handler \in {"echo", "put", "moved"},
         NEW out \in Functor(handler, req)
  PROVE  IsOutcome(out, req)
<1>1. CASE handler = "echo"
  <2>1. out = [from |-> handler, rsp |-> SetContent(NewResponse(200), "echo", "text/plain"),
               files |-> files]
    BY <1>1 DEF Functor
  <2>2. out.rsp = SetContent(NewResponse(200), "echo", "text/plain")
        /\ out.from = "echo" /\ out.files = files
    BY <1>1, <2>1
  <2>3. IsUnwritten(out.rsp)
    <3>1. "text/plain" \in Values /\ "echo" \in Bodies /\ 200 \in {200, 302, 400, 404}
      BY DEF Values, Bodies
    <3> QED
      BY <2>2, <3>1, WithContent
  <2> QED
    BY <2>2, <2>3 DEF IsOutcome, TypeInv
<1>2. CASE handler = "put"
  <2> DEFINE name == BaseDir \o req.path
  <2>1. PICK f \in WriteFile(name) :
           out = [from |-> handler, rsp |-> NewResponse(200), files |-> f]
    BY <1>2 DEF Functor
  <2>2. out.rsp = NewResponse(200) /\ out.from = "put" /\ out.files = f
    BY <1>2, <2>1
  <2>3. IsUnwritten(out.rsp)
    BY <2>2, IsNewResponse
  <2>4. name \in Seq(Byte)
    <3>1. BaseDir \in Seq(Byte)
      BY RoutingAssumption
    <3> QED
      BY <3>1, ConcatProperties
  <2>5. f \in SUBSET Seq(Byte)
    <3> HIDE DEF name
    <3> QED
      BY <2>1, <2>4 DEF WriteFile, TypeInv
  <2> QED
    BY <2>2, <2>3, <2>5 DEF IsOutcome
<1>3. CASE handler = "moved"
  <2>1. out = [from |-> handler,
               rsp |-> [SetRedirect(NewResponse(200), "/") EXCEPT
                          !.headers = Insert(@, "Connection", "close")],
               files |-> files]
    BY <1>3 DEF Functor
  <2>2. out.rsp = [SetRedirect(NewResponse(200), "/") EXCEPT
                     !.headers = Insert(@, "Connection", "close")]
        /\ out.from = "moved" /\ out.files = files
    BY <1>3, <2>1
  <2>3. IsUnwritten(out.rsp)
    BY <2>2, Redirecting
  <2> QED
    BY <2>2, <2>3 DEF IsOutcome, TypeInv
<1> QED
  BY <1>1, <1>2, <1>3

LEMMA Dispatched ==
  ASSUME TypeInv, NEW req, req.path \in Seq(Byte), NEW table \in Seq(Registrations),
         NEW out \in Dispatcher(req, table)
  PROVE  IsOutcome(out, req)
<1> DEFINE m == Matching(table, req.path)
           I == {i \in 1 .. Len(table) : req.path \in table[i].pattern}
<1>1. m \in 0 .. Len(table)
  <2>1. m = IF I # {} THEN Min(I) ELSE 0
    BY DEF Matching, SelectInSeq
  <2>2. Len(table) \in Nat /\ I \in SUBSET (1 .. Len(table))
    BY LenProperties
  <2> HIDE DEF m, I
  <2> QED
    BY <2>1, <2>2, FirstOf
<1>2. CASE m = 0
  <2>1. out = [from |-> "none", rsp |-> NewResponse(404), files |-> files]
    BY <1>2 DEF Dispatcher
  <2>2. IsUnwritten(out.rsp)
    BY <2>1, IsNewResponse
  <2> QED
    BY <2>1, <2>2 DEF IsOutcome, TypeInv
<1>3. CASE m # 0
  <2>1. out \in Functor(table[m].handler, req)
    BY <1>3 DEF Dispatcher
  <2>2. m \in 1 .. Len(table)
    <3> HIDE DEF m
    <3> QED
      BY <1>1, <1>3, LenProperties
  <2>3. table[m] \in Registrations
    BY <2>2, ElementOfSeq
  <2>4. table[m].handler \in {"echo", "put", "moved"}
    BY <2>3, RoutingAssumption
  <2> QED
    BY <2>1, <2>4, HandlerOutcome
<1> QED
  BY <1>2, <1>3

LEMMA Routed ==
  ASSUME TypeInv, NEW req, req.path \in Seq(Byte), req.method \in Tables \union {"HEAD"},
         NEW out \in Route(req)
  PROVE  IsOutcome(out, req)
<1>1. CASE IsFileHandler(req)
  BY <1>1, FileOutcome DEF Route
<1>2. CASE ~IsFileHandler(req)
  <2> DEFINE m == IF req.method = "HEAD" THEN "GET" ELSE req.method
  <2>1. out \in Dispatcher(req, routes[m])
    BY <1>2 DEF Route
  <2>2. m \in Tables
    BY DEF Tables
  <2>3. routes[m] \in Seq(Registrations)
    BY <2>2 DEF TypeInv
  <2> QED
    BY <2>1, <2>3, Dispatched
<1> QED
  BY <1>1, <1>2

-----------------------------------------------------------------------------
(***************************************************************************)
(* Init and every action keep the invariant.                               *)
(***************************************************************************)

LEMMA MeantTyped ==
  ASSUME NEW meant \in Meant
  PROVE  /\ meant.method \in Methods
         /\ meant.path \in Seq(Ascii)
         /\ meant.params \in Seq(Pairs)
  BY RoutingAssumption DEF Pairs

LEMMA Initially == Init => IInv
<1> SUFFICES ASSUME Init PROVE IInv
  OBVIOUS
<1>1. routes \in [Tables -> Seq(Registrations)]
  <2>1. <<>> \in Seq(Registrations)
    BY EmptySeq
  <2> QED
    BY <2>1 DEF Init
<1>2. basedir \in Seq(Byte) /\ started \in BOOLEAN /\ client \in SUBSET Meant
  BY EmptySeq DEF Init
<1>3. files \in SUBSET Seq(Byte)
  BY RoutingAssumption DEF Init
<1>4. IsContext(context) /\ context.recv = "LINE" /\ context = NewContext
  BY NewContextTyped DEF Init, NewContext
<1>5. sent.from = "nobody" /\ IsSent(sent)
  BY DEF Init, Unsent, IsSent
<1> QED
  BY <1>1, <1>2, <1>3, <1>4, <1>5
     DEF IInv, TypeInv, Fresh, Known, Checked, ParamsArrive, HeaderSaysClose

\* What the parts of the invariant say of the context, and what of the answer.
Context == IsContext(context) /\ client \in SUBSET Meant /\ Fresh /\ Known /\ ParamsArrive

Answer == IsSent(sent) /\ Checked /\ HeaderSaysClose

LEMMA Parts ==
  IInv <=> /\ routes \in [Tables -> Seq(Registrations)] /\ basedir \in Seq(Byte)
           /\ started \in BOOLEAN /\ files \in SUBSET Seq(Byte)
           /\ Context /\ Answer
  BY DEF IInv, TypeInv, Context, Answer

LEMMA SameContext ==
  ASSUME Context, context' = context, client' = client
  PROVE  Context'
  BY DEF Context, Fresh, Known, ParamsArrive

LEMMA SameAnswer ==
  ASSUME Answer, sent' = sent
  PROVE  Answer'
  BY DEF Answer, Checked, HeaderSaysClose

LEMMA NoAnswer ==
  ASSUME sent' = Unsent
  PROVE  Answer'
<1>1. sent'.from = "nobody" /\ IsSent(sent')
  BY DEF Unsent, IsSent
<1> QED
  BY <1>1 DEF Answer, Checked, HeaderSaysClose

LEMMA ContextReSet ==
  ASSUME context' = ReSet(context), client' = {}
  PROVE  Context'
<1>1. context' = NewContext /\ context'.recv = "LINE"
  BY DEF ReSet, NewContext
<1>2. IsContext(context')
  BY <1>1, NewContextTyped
<1> QED
  BY <1>1, <1>2 DEF Context, Fresh, Known, ParamsArrive

LEMMA KeptByRegister == IInv /\ Register => IInv'
<1> SUFFICES ASSUME IInv, Register PROVE IInv'
  OBVIOUS
<1>1. /\ routes \in [Tables -> Seq(Registrations)] /\ basedir \in Seq(Byte)
      /\ started \in BOOLEAN /\ files \in SUBSET Seq(Byte) /\ Context /\ Answer
  BY Parts
<1>2. PICK r \in Registrations : routes' = [routes EXCEPT ![r.method] = Append(@, r)]
  BY DEF Register
<1>3. routes' \in [Tables -> Seq(Registrations)]
  <2>1. r.method \in Tables
    BY RoutingAssumption
  <2>2. Append(routes[r.method], r) \in Seq(Registrations)
    BY <1>1, <2>1, AppendProperties
  <2> QED
    BY <1>1, <1>2, <2>1, <2>2
<1>4. /\ basedir' = basedir /\ started' = started /\ files' = files
      /\ context' = context /\ client' = client /\ sent' = sent
  BY DEF Register
<1>5. Context' /\ Answer'
  BY <1>1, <1>4, SameContext, SameAnswer
<1> QED
  BY <1>1, <1>3, <1>4, <1>5, Parts DEF IInv, TypeInv, Context, Answer

LEMMA KeptBySetBaseDir == IInv /\ SetBaseDir => IInv'
<1> SUFFICES ASSUME IInv, SetBaseDir PROVE IInv'
  OBVIOUS
<1>1. /\ routes \in [Tables -> Seq(Registrations)] /\ basedir \in Seq(Byte)
      /\ started \in BOOLEAN /\ files \in SUBSET Seq(Byte) /\ Context /\ Answer
  BY Parts
<1>2. /\ basedir' \in Seq(Byte) /\ routes' = routes /\ started' = started /\ files' = files
      /\ context' = context /\ client' = client /\ sent' = sent
  BY RoutingAssumption DEF SetBaseDir
<1>3. Context' /\ Answer'
  BY <1>1, <1>2, SameContext, SameAnswer
<1> QED
  BY <1>1, <1>2, <1>3 DEF IInv, TypeInv, Context, Answer

LEMMA KeptByListen == IInv /\ Listen => IInv'
<1> SUFFICES ASSUME IInv, Listen PROVE IInv'
  OBVIOUS
<1>1. /\ routes \in [Tables -> Seq(Registrations)] /\ basedir \in Seq(Byte)
      /\ started \in BOOLEAN /\ files \in SUBSET Seq(Byte) /\ Context /\ Answer
  BY Parts
<1>2. /\ basedir' = basedir /\ routes' = routes /\ started' \in BOOLEAN /\ files' = files
      /\ context' = context /\ client' = client /\ sent' = sent
  BY DEF Listen
<1>3. Context' /\ Answer'
  BY <1>1, <1>2, SameContext, SameAnswer
<1> QED
  BY <1>1, <1>2, <1>3 DEF IInv, TypeInv, Context, Answer

\* A line that is parsed leaves what the client meant.
LEMMA LineKept ==
  ASSUME Context, context.recv = "LINE", NEW method \in Methods, NEW target \in Seq(Byte),
         context' = ParseHttpLine(method, target), client' \in SUBSET Meant,
         \A meant \in client' : target = Target(meant)
  PROVE  Context'
<1> DEFINE out == context'
           request == LineRequest(method, target)
<1>1. context = NewContext
  BY DEF Context, Fresh
<1>2. /\ IsContext(out)
      /\ out.recv \in {"HEAD", "ERROR"}
      /\ out.recv = "HEAD" => method # "PATCH" /\ out.request = request
  BY <1>1, LineParsed
<1>3. Fresh'
  BY <1>2 DEF Fresh
<1>4. Known'
  <2>1. request.method = method
    BY DEF LineRequest
  <2>2. method # "PATCH" => method \in Tables \union {"HEAD"}
    BY DEF Methods
  <2> QED
    BY <1>2, <2>1, <2>2 DEF Known
<1>5. ParamsArrive'
  <2> SUFFICES ASSUME context'.recv \in {"HEAD", "OVER"}, NEW meant \in client'
               PROVE  /\ context'.request.path = meant.path
                      /\ DOMAIN context'.request.params =
                            {meant.params[i][1] : i \in DOMAIN meant.params}
                      /\ \A i \in DOMAIN meant.params :
                            (\A j \in 1 .. i - 1 : meant.params[j][1] # meant.params[i][1]) =>
                               context'.request.params[meant.params[i][1]] = meant.params[i][2]
    BY DEF ParamsArrive
  <2>1. context'.request = LineRequest(method, Target(meant))
    BY <1>2
  <2>2. meant.path \in Seq(Ascii) /\ meant.params \in Seq(Pairs)
    BY MeantTyped
  <2> DEFINE req == context'.request
             n == Len(meant.params)
  <2>3. req.path = meant.path /\ Kept(req.params, meant.params, n)
    BY <2>1, <2>2, MeantParsed
  <2>4. DOMAIN meant.params = 1 .. n
    BY <2>2, LenProperties
  <2> HIDE DEF req, n
  <2>5. /\ DOMAIN req.params = {meant.params[i][1] : i \in DOMAIN meant.params}
        /\ \A i \in DOMAIN meant.params :
              (\A j \in 1 .. i - 1 : meant.params[j][1] # meant.params[i][1]) =>
                 req.params[meant.params[i][1]] = meant.params[i][2]
    BY <2>3, <2>4 DEF Kept
  <2> QED
    BY <2>3, <2>5 DEF req
<1> QED
  BY <1>2, <1>3, <1>4, <1>5 DEF Context

LEMMA KeptByRecvHttpLine == IInv /\ RecvHttpLine => IInv'
<1> SUFFICES ASSUME IInv, RecvHttpLine PROVE IInv'
  OBVIOUS
<1>1. /\ routes \in [Tables -> Seq(Registrations)] /\ basedir \in Seq(Byte)
      /\ started \in BOOLEAN /\ files \in SUBSET Seq(Byte) /\ Context /\ Answer
  BY Parts
<1>2. /\ basedir' = basedir /\ routes' = routes /\ started' = started /\ files' = files
      /\ context.recv = "LINE" /\ sent' = Unsent
  BY DEF RecvHttpLine
<1>3. Context'
  <2>1. CASE \E meant \in Meant : /\ client' = {meant}
                                  /\ context' = ParseHttpLine(meant.method, Target(meant))
    <3>1. PICK meant \in Meant : /\ client' = {meant}
                                 /\ context' = ParseHttpLine(meant.method, Target(meant))
      BY <2>1
    <3> DEFINE target == Target(meant)
               method == meant.method
    <3>2. method \in Methods /\ target \in Seq(Byte)
      BY MeantTyped, TargetTyped
    <3>3. client' \in SUBSET Meant /\ \A m \in client' : target = Target(m)
      BY <3>1
    <3>4. context' = ParseHttpLine(method, target)
      BY <3>1
    <3> HIDE DEF target, method
    <3> QED
      BY <1>1, <1>2, <3>2, <3>3, <3>4, LineKept
  <2>2. CASE \E target \in RawTargets : /\ client' = {}
                                        /\ context' = ParseHttpLine("GET", target)
    <3>1. PICK target \in RawTargets : client' = {} /\ context' = ParseHttpLine("GET", target)
      BY <2>2
    <3> DEFINE method == "GET"
    <3>2. method \in Methods /\ target \in Seq(Byte)
      BY RoutingAssumption DEF Methods, Tables
    <3>3. client' \in SUBSET Meant /\ \A m \in client' : target = Target(m)
      BY <3>1
    <3>4. context' = ParseHttpLine(method, target)
      BY <3>1
    <3> HIDE DEF method
    <3> QED
      BY <1>1, <1>2, <3>2, <3>3, <3>4, LineKept
  <2> QED
    BY <2>1, <2>2 DEF RecvHttpLine
<1>4. Answer'
  BY <1>2, NoAnswer
<1> QED
  BY <1>1, <1>2, <1>3, <1>4 DEF IInv, TypeInv, Context, Answer

\* The request as it goes on being parsed.
GoesOn(new, ctx) ==
    /\ new.request.method = ctx.request.method
    /\ new.request.path = ctx.request.path
    /\ new.request.params = ctx.request.params

\* What is known of a request stays known as it goes on being parsed.
LEMMA StillKnown ==
  ASSUME Context, context.recv = "HEAD", client' = client, IsContext(context'),
         context'.recv \in {"HEAD", "OVER", "ERROR"}, GoesOn(context', context)
  PROVE  Context'
<1>1. Fresh'
  BY DEF Fresh
<1>2. Known'
  BY DEF Context, Known, GoesOn
<1>3. ParamsArrive'
  BY DEF Context, ParamsArrive, GoesOn
<1> QED
  BY <1>1, <1>2, <1>3 DEF Context

LEMMA HeaderRead ==
  ASSUME NEW ctx, IsContext(ctx), ctx.recv = "HEAD", DOMAIN ctx.request.headers = {},
         NEW val \in {"keep-alive", "close"},
         NEW new, new = [ctx EXCEPT !.request.headers = Insert(@, "Connection", val)]
  PROVE  IsContext(new) /\ new.recv = "HEAD" /\ GoesOn(new, ctx)
<1> DEFINE req == ctx.request
           old == req.headers
           headers == Insert(old, "Connection", val)
           next == [req EXCEPT !.headers = headers]
           ended == new
<1>1. /\ ctx = [recv |-> ctx.recv, resp |-> ctx.resp, request |-> req]
      /\ ctx.resp \in {200, 400}
      /\ req = [method |-> req.method, path |-> req.path, headers |-> old, params |-> req.params]
      /\ req.method \in Methods \union {""}
      /\ req.path \in Seq(Byte)
      /\ IsMap(req.params, Seq(Byte))
  BY DEF IsContext, IsRequest
<1>2. ended = [ctx EXCEPT !.request = next]
  OBVIOUS
<1>3. headers = [k \in DOMAIN old \union {"Connection"} |-> IF k \in DOMAIN old THEN old[k] ELSE val]
  BY DEF Insert
<1>4. DOMAIN old = {} /\ next = [req EXCEPT !.headers = headers]
  OBVIOUS
<1> HIDE DEF req, old, headers, next, ended
<1>5. headers \in [{"Connection"} -> {"keep-alive", "close"}]
  BY <1>3, <1>4
<1>6. next = [method |-> req.method, path |-> req.path, headers |-> headers, params |-> req.params]
  BY <1>1, <1>4
<1>7. IsRequest(next)
  BY <1>1, <1>5, <1>6 DEF IsRequest
<1>8. ended = [recv |-> ctx.recv, resp |-> ctx.resp, request |-> next]
  BY <1>1, <1>2
<1>9. IsContext(ended) /\ ended.recv = "HEAD"
  BY <1>1, <1>7, <1>8 DEF IsContext
<1>10. /\ ended.request.method = req.method /\ ended.request.path = req.path
       /\ ended.request.params = req.params
  BY <1>6, <1>8
<1> QED
  BY <1>9, <1>10 DEF GoesOn, ended, req

LEMMA HeadersOver ==
  ASSUME NEW ctx, IsContext(ctx), NEW new,
         new = [ctx EXCEPT !.recv = "OVER"] \/ new = Failed(ctx.request)
  PROVE  IsContext(new) /\ new.recv \in {"OVER", "ERROR"} /\ GoesOn(new, ctx)
<1> DEFINE req == ctx.request
           ended == new
<1>1. /\ ctx = [recv |-> ctx.recv, resp |-> ctx.resp, request |-> req]
      /\ ctx.resp \in {200, 400}
      /\ IsRequest(req)
  BY DEF IsContext
<1>2. \/ ended = [ctx EXCEPT !.recv = "OVER"]
      \/ ended = [recv |-> "ERROR", resp |-> 400, request |-> req]
  BY DEF Failed
<1> HIDE DEF req, ended
<1>3. CASE ended = [ctx EXCEPT !.recv = "OVER"]
  <2>1. ended = [recv |-> "OVER", resp |-> ctx.resp, request |-> req]
    BY <1>1, <1>3
  <2>2. IsContext(ended) /\ ended.recv = "OVER" /\ ended.request = req
    BY <1>1, <2>1 DEF IsContext
  <2> QED
    BY <2>2 DEF GoesOn, ended, req
<1>4. CASE ended = [recv |-> "ERROR", resp |-> 400, request |-> req]
  <2>1. IsContext(ended) /\ ended.recv = "ERROR" /\ ended.request = req
    BY <1>1, <1>4 DEF IsContext
  <2> QED
    BY <2>1 DEF GoesOn, ended, req
<1> QED
  BY <1>2, <1>3, <1>4

LEMMA KeptByRecvHttpHead == IInv /\ RecvHttpHead => IInv'
<1> SUFFICES ASSUME IInv, RecvHttpHead PROVE IInv'
  OBVIOUS
<1>1. /\ routes \in [Tables -> Seq(Registrations)] /\ basedir \in Seq(Byte)
      /\ started \in BOOLEAN /\ files \in SUBSET Seq(Byte) /\ Context /\ Answer
  BY Parts
<1>2. /\ basedir' = basedir /\ routes' = routes /\ started' = started /\ files' = files
      /\ context.recv = "HEAD" /\ client' = client /\ sent' = sent
  BY DEF RecvHttpHead
<1>3. IsContext(context)
  BY <1>1 DEF Context
<1>4. /\ IsContext(context')
      /\ context'.recv \in {"HEAD", "OVER", "ERROR"}
      /\ GoesOn(context', context)
  <2>1. CASE \E val \in {"keep-alive", "close"} :
                /\ DOMAIN context.request.headers = {}
                /\ context' = [context EXCEPT !.request.headers = Insert(@, "Connection", val)]
    <3>1. PICK val \in {"keep-alive", "close"} :
             /\ DOMAIN context.request.headers = {}
             /\ context' = [context EXCEPT !.request.headers = Insert(@, "Connection", val)]
      BY <2>1
    <3> QED
      BY <1>2, <1>3, <3>1, HeaderRead
  <2>2. CASE context' = [context EXCEPT !.recv = "OVER"] \/ context' = Failed(context.request)
    BY <1>3, <2>2, HeadersOver
  <2> QED
    BY <2>1, <2>2 DEF RecvHttpHead
<1>5. Context'
  BY <1>1, <1>2, <1>4, StillKnown
<1>6. Answer'
  BY <1>1, <1>2, SameAnswer
<1> QED
  BY <1>1, <1>2, <1>5, <1>6 DEF IInv, TypeInv, Context, Answer

\* An answer that has been put together.
LEMMA Sends ==
  ASSUME IsContext(context), NEW from \in Sources, NEW rsp, IsUnwritten(rsp), NEW closed \in BOOLEAN,
         NEW new, new = WriteReponse(context.request, rsp), sent' = Answered(from, new, closed),
         from = "file" => ValidPath(context.request.path),
         (from = "error" /\ closed) \/ closed = Close(new.headers)
  PROVE  Answer'
<1> DEFINE ended == sent'
           path == context.request.path
<1>1. ended = [from |-> from, path |-> path, rsp |-> new, closed |-> closed]
  BY DEF Answered
<1>2. path \in Seq(Byte)
  BY DEF IsContext, IsRequest
<1>3. /\ IsResponse(new)
      /\ "Connection" \in DOMAIN new.headers
      /\ new.body # "" => /\ "Content-Length" \in DOMAIN new.headers
                          /\ new.headers["Content-Length"] = new.body
  BY ResponseWritten
<1>4. from = "file" => ValidPath(path)
  OBVIOUS
<1> HIDE DEF ended, path
<1>5. ended.from = from /\ ended.path = path /\ ended.rsp = new /\ ended.closed = closed
  BY <1>1
<1>6. IsSent(ended)
  BY <1>1, <1>2, <1>3, <1>5 DEF IsSent
<1>7. from # "error" => closed = (new.headers["Connection"] # "keep-alive")
  BY <1>3 DEF Close, Get
<1>8. Checked'
  BY <1>4, <1>5 DEF Checked, ended
<1>9. HeaderSaysClose'
  BY <1>5, <1>7 DEF HeaderSaysClose, ended
<1> QED
  BY <1>6, <1>8, <1>9 DEF Answer, ended

LEMMA KeptByHandleError == IInv /\ HandleError => IInv'
<1> SUFFICES ASSUME IInv, HandleError PROVE IInv'
  OBVIOUS
<1>1. /\ routes \in [Tables -> Seq(Registrations)] /\ basedir \in Seq(Byte)
      /\ started \in BOOLEAN /\ files \in SUBSET Seq(Byte) /\ Context /\ Answer
  BY Parts
<1>2. /\ basedir' = basedir /\ routes' = routes /\ started' = started /\ files' = files
      /\ context' = ReSet(context) /\ client' = {}
  BY DEF HandleError
<1> DEFINE rsp == SetContent(NewResponse(context.resp), "page", "text/html")
           new == WriteReponse(context.request, rsp)
<1>3. sent' = Answered("error", new, TRUE)
  BY DEF HandleError
<1>4. IsContext(context) /\ context.resp \in {200, 302, 400, 404}
  BY <1>1 DEF Context, IsContext
<1>5. IsUnwritten(rsp)
  <2>1. "page" \in Bodies /\ "text/html" \in Values
    BY DEF Bodies, Values
  <2> QED
    BY <1>4, <2>1, WithContent
<1> HIDE DEF rsp
<1>6. new = WriteReponse(context.request, rsp)
  OBVIOUS
<1> HIDE DEF new
<1>7. Answer'
  <2>1. "error" \in Sources /\ "error" # "file" /\ TRUE \in BOOLEAN
    BY DEF Sources
  <2> QED
    BY <1>3, <1>4, <1>5, <1>6, <2>1, Sends
<1>8. Context'
  BY <1>2, ContextReSet
<1> QED
  BY <1>1, <1>2, <1>7, <1>8 DEF IInv, TypeInv, Context, Answer

LEMMA KeptByHandleRequest == IInv /\ HandleRequest => IInv'
<1> SUFFICES ASSUME IInv, HandleRequest PROVE IInv'
  OBVIOUS
<1> DEFINE req == context.request
<1>1. /\ routes \in [Tables -> Seq(Registrations)] /\ basedir \in Seq(Byte)
      /\ started \in BOOLEAN /\ files \in SUBSET Seq(Byte) /\ Context /\ Answer
  BY Parts
<1>2. /\ basedir' = basedir /\ routes' = routes /\ started' = started
      /\ context' = ReSet(context) /\ client' = {} /\ context.recv = "OVER"
  BY DEF HandleRequest
<1>3. PICK out \in Route(req) :
         /\ files' = out.files
         /\ sent' = Answered(out.from, WriteReponse(req, out.rsp),
                             Close(WriteReponse(req, out.rsp).headers))
  BY DEF HandleRequest
<1>4. IsContext(context) /\ req.path \in Seq(Byte) /\ req.method \in Tables \union {"HEAD"}
  BY <1>1, <1>2 DEF Context, IsContext, IsRequest, Known
<1>5. IsOutcome(out, req)
  <2>1. TypeInv
    BY DEF IInv
  <2> QED
    BY <1>3, <1>4, <2>1, Routed
<1>6. /\ out.from \in Sources /\ out.files \in SUBSET Seq(Byte) /\ IsUnwritten(out.rsp)
      /\ out.from = "file" => ValidPath(context.request.path)
  BY <1>5 DEF IsOutcome, Sources
<1> DEFINE from == out.from
           rsp == out.rsp
           new == WriteReponse(req, rsp)
           closed == Close(new.headers)
<1>7. /\ new = WriteReponse(context.request, rsp) /\ sent' = Answered(from, new, closed)
      /\ closed = Close(new.headers) /\ from \in Sources /\ IsUnwritten(rsp)
      /\ from = "file" => ValidPath(context.request.path)
  BY <1>3, <1>6
<1>8. closed \in BOOLEAN
  BY DEF Close
<1> HIDE DEF from, rsp, new, closed
<1>9. Answer'
  BY <1>4, <1>7, <1>8, Sends
<1>10. Context'
  BY <1>2, ContextReSet
<1>11. files' \in SUBSET Seq(Byte)
  BY <1>3, <1>6
<1> QED
  BY <1>1, <1>2, <1>9, <1>10, <1>11 DEF IInv, TypeInv, Context, Answer

LEMMA KeptByNext == IInv /\ [Next]_vars => IInv'
<1> SUFFICES ASSUME IInv, [Next]_vars PROVE IInv'
  OBVIOUS
<1>1. CASE UNCHANGED vars
  BY <1>1 DEF vars, IInv, TypeInv, Fresh, Known, Checked, ParamsArrive, HeaderSaysClose
<1>2. CASE Next
  BY <1>2, KeptByRegister, KeptBySetBaseDir, KeptByListen, KeptByRecvHttpLine,
     KeptByRecvHttpHead, KeptByHandleError, KeptByHandleRequest DEF Next
<1> QED
  BY <1>1, <1>2

\* The inductive invariant holds, whatever requests come in whatever order (918-957).
THEOREM Invariance == Spec => []IInv
<1>1. Init => IInv
  BY Initially
<1>2. IInv /\ [Next]_vars => IInv'
  BY KeptByNext
<1> QED
  BY <1>1, <1>2, PTL DEF Spec

-----------------------------------------------------------------------------
(***************************************************************************)
(* What follows from it.                                                   *)
(***************************************************************************)

\* Tables (749-752), request (380-386), context (545-547) and response (477-481)
\* have the shape they are declared with: every path and every parameter is bytes,
\* however broken its escapes are, and every answer comes from a place that exists.
THEOREM Types == Spec => []TypeInv
<1>1. IInv => TypeInv
  BY DEF IInv
<1> QED
  BY <1>1, Invariance, PTL

\* What a client meant that wrote its request with UrlEncode arrives through the
\* regex, Split, UrlDecode and SetParam (549-591), for every path and all
\* parameters of ASCII text, and whatever request came before.
THEOREM WhatIsMeantArrives == Spec => []ParamsArrive
<1>1. IInv => ParamsArrive
  BY DEF IInv
<1> QED
  BY <1>1, Invariance, PTL

\* The Connection header of a response (780-787) says what the server does with
\* the connection (952), whichever handler answers and whatever it has set.
THEOREM TheHeaderSaysIt == Spec => []HeaderSaysClose
<1>1. IInv => HeaderSaysClose
  BY DEF IInv
<1> QED
  BY <1>1, Invariance, PTL

\* A file is never reached through a directory above the base directory (369), by
\* a path that has no "." in front of that place, however long it is and whatever
\* files there are.  Of a path with a "." in it this cannot be said: 371 counts
\* it as one level down.
THEOREM NoFileAbove == Spec => []PlainFilesBelowBase
<1>1. IInv => PlainFilesBelowBase
  <2> SUFFICES ASSUME IInv, sent.from = "file" PROVE PlainFilesBelowBase
    BY DEF PlainFilesBelowBase
  <2>1. ValidPath(sent.path)
    BY DEF IInv, Checked
  <2>2. sent.path \in Seq(Byte)
    <3>1. IsSent(sent)
      BY DEF IInv, TypeInv
    <3>2. sent # Unsent
      BY DEF Unsent
    <3> QED
      BY <3>1, <3>2 DEF IsSent
  <2> DEFINE path == sent.path
  <2>3. ASSUME NEW way \in Ways(path), <<Dot>> \notin Range(way) PROVE Level(way) >= 0
    <3>1. ValidPath(path) /\ path \in Seq(Byte)
      BY <2>1, <2>2
    <3> HIDE DEF path
    <3>2. PICK i \in DOMAIN path : path[i] = Slash /\ way = Split(SubSeq(path, 1, i), Slash)
      BY <2>3 DEF Ways
    <3>3. i \in 1 .. Len(path)
      BY <3>1, <3>2, LenProperties
    <3>4. 2 * Cardinality({j \in DOMAIN way : way[j] = <<Dot, Dot>>}) <= Len(way)
      BY <3>1, <3>2, <3>3, ValidPathAtSlash
    <3>5. way \in Seq(Seq(Byte))
      BY <3>1, <3>2, <3>3, PartsTyped
    <3> QED
      BY <2>3, <3>4, <3>5, LevelOfPlain
  <2> QED
    BY <2>3 DEF PlainFilesBelowBase
<1> QED
  BY <1>1, Invariance, PTL
=============================================================================
