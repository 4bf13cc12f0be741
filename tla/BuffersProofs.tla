---------------------------- MODULE BuffersProofs ----------------------------
(***************************************************************************)
(* Proofs about Buffers, for every alphabet, every initial size, prepended *)
(* space and extra buffer and every bound.                                 *)
(***************************************************************************)
EXTENDS Buffers, SequenceTheorems, TLAPS

USE BuffersAssumption

-----------------------------------------------------------------------------
(***************************************************************************)
(* Sequences.                                                              *)
(***************************************************************************)

\* Two sequences one behind the other.
LEMMA IsConcat ==
  ASSUME NEW S, NEW s \in Seq(S), NEW s1 \in Seq(S), NEW s2 \in Seq(S),
         Len(s) = Len(s1) + Len(s2),
         \A i \in 1 .. Len(s1) : s[i] = s1[i],
         \A i \in 1 .. Len(s2) : s[Len(s1) + i] = s2[i]
  PROVE  s = s1 \o s2
<1>1. Len(s1) \in Nat /\ Len(s2) \in Nat
  BY LenProperties
<1>2. /\ s1 \o s2 \in Seq(S)
      /\ Len(s1 \o s2) = Len(s)
      /\ \A i \in 1 .. Len(s) : (s1 \o s2)[i] = IF i <= Len(s1) THEN s1[i] ELSE s2[i - Len(s1)]
  BY ConcatProperties
<1>3. \A i \in 1 .. Len(s) : s[i] = (s1 \o s2)[i]
  <2> TAKE i \in 1 .. Len(s)
  <2>1. CASE i <= Len(s1)
    BY <1>1, <1>2, <2>1
  <2>2. CASE i > Len(s1)
    <3>1. i - Len(s1) \in 1 .. Len(s2) /\ Len(s1) + (i - Len(s1)) = i
      BY <1>1, <2>2
    <3>2. s[Len(s1) + (i - Len(s1))] = s2[i - Len(s1)]
      BY <3>1
    <3> QED
      BY <1>1, <1>2, <2>2, <3>1, <3>2
  <2> QED
    BY <1>1, <2>1, <2>2
<1> QED
  BY <1>2, <1>3, SeqEqual

-----------------------------------------------------------------------------
(***************************************************************************)
(* The objects.                                                            *)
(***************************************************************************)

Cell == Byte \cup {Zero}

\* The object of either class, with its offsets in order.
Good(b) ==
    /\ b = [mem |-> b.mem, size |-> b.size, reader |-> b.reader, writer |-> b.writer]
    /\ b.size \in Nat /\ b.reader \in Nat /\ b.writer \in Nat
    /\ b.mem \in [0 .. b.size - 1 -> Cell]
    /\ b.reader <= b.writer
    /\ b.writer <= b.size

Front == IF kind = "port" THEN Prepend ELSE 0

\* The inductive invariant: how much is unread bounds how far the vector grows.
IInv ==
    /\ kind \in {"source", "port"}
    /\ Good(buf)
    /\ buf.reader >= Front
    /\ data \in Seq(Cell)
    /\ ReadAbleSize(buf) <= MaxContents
    /\ MemoryBounded

-----------------------------------------------------------------------------
(* What the operators on the object do.                                    *)

\* The arithmetic of the offsets.
LEMMA GoodOffsets ==
  ASSUME NEW b, Good(b)
  PROVE  /\ b.size \in Nat /\ b.reader \in Nat /\ b.writer \in Nat
         /\ b.reader <= b.writer /\ b.writer <= b.size
         /\ DOMAIN b.mem = 0 .. b.size - 1
         /\ ReadAbleSize(b) = b.writer - b.reader /\ ReadAbleSize(b) \in Nat
         /\ TailIdleSize(b) = b.size - b.writer /\ TailIdleSize(b) \in Nat
<1>1. /\ b.size \in Nat /\ b.reader \in Nat /\ b.writer \in Nat
      /\ b.reader <= b.writer /\ b.writer <= b.size
      /\ DOMAIN b.mem = 0 .. b.size - 1
  BY DEF Good
<1> QED
  BY <1>1 DEF ReadAbleSize, TailIdleSize

\* Any number of unread bytes, read from the front, is a sequence.
LEMMA FirstIsSeq ==
  ASSUME NEW b, Good(b), NEW n \in 0 .. ReadAbleSize(b)
  PROVE  /\ First(b, n) \in Seq(Cell)
         /\ Len(First(b, n)) = n
         /\ \A i \in 1..n : First(b, n)[i] = b.mem[b.reader + i - 1]
<1>1. \A i \in 1..n : b.mem[b.reader + i - 1] \in Cell
  BY DEF Good, ReadAbleSize
<1>2. n \in Nat
  BY DEF Good, ReadAbleSize
<1>3. First(b, n) \in [1..n -> Cell]
  BY <1>1 DEF First
<1> QED
  BY <1>2, <1>3, IsASeq, LenProperties DEF First

\* Moving the unread bytes to the front changes where they are and nothing else.
LEMMA MovedEffect ==
  ASSUME NEW b, Good(b), NEW to \in Nat, to <= b.reader
  PROVE  /\ Good(Moved(b, to))
         /\ Moved(b, to).size = b.size
         /\ Moved(b, to).reader = to
         /\ ReadAbleSize(Moved(b, to)) = ReadAbleSize(b)
         /\ Contents(Moved(b, to)) = Contents(b)
<1> DEFINE m == Moved(b, to)
           mem == [i \in DOMAIN b.mem |->
                      IF i \in to .. to + ReadAbleSize(b) - 1
                      THEN b.mem[b.reader + i - to] ELSE b.mem[i]]
<1>2. mem \in [0 .. b.size - 1 -> Cell]
  <2>1. \A i \in 0 .. b.size - 1 : i \in to .. to + ReadAbleSize(b) - 1 =>
           b.reader + i - to \in 0 .. b.size - 1
    BY DEF Good, ReadAbleSize
  <2>2. \A i \in 0 .. b.size - 1 : b.mem[i] \in Cell
    BY DEF Good
  <2>3. DOMAIN b.mem = 0 .. b.size - 1
    BY DEF Good
  <2> QED
    BY <2>1, <2>2, <2>3
<1>1. m = [mem |-> mem, size |-> b.size, reader |-> to, writer |-> to + ReadAbleSize(b)]
  <2>1. m = [b EXCEPT !.mem = mem, !.reader = to, !.writer = to + ReadAbleSize(b)]
    BY DEF Moved
  <2> HIDE DEF mem
  <2> QED
    BY <2>1 DEF Good
<1>3. Good(m)
  <2> HIDE DEF mem
  <2> QED
    BY <1>1, <1>2 DEF Good, ReadAbleSize
<1>4. ReadAbleSize(m) = ReadAbleSize(b)
  BY <1>1 DEF Good, ReadAbleSize
<1>5. \A i \in 1..ReadAbleSize(b) : m.mem[m.reader + i - 1] = b.mem[b.reader + i - 1]
  <2> TAKE i \in 1..ReadAbleSize(b)
  <2>1. /\ to + i - 1 \in DOMAIN b.mem
        /\ to + i - 1 \in to .. to + ReadAbleSize(b) - 1
        /\ b.reader + (to + i - 1) - to = b.reader + i - 1
    BY DEF Good, ReadAbleSize
  <2> QED
    BY <1>1, <2>1
<1> HIDE DEF mem
<1>6. Contents(m) = Contents(b)
  BY <1>4, <1>5 DEF Contents, First
<1> QED
  BY <1>1, <1>3, <1>4, <1>6

\* Growing the vector keeps all it holds.
LEMMA ResizedEffect ==
  ASSUME NEW b, Good(b), NEW size \in Nat, b.size <= size
  PROVE  /\ Good(Resized(b, size))
         /\ Resized(b, size).size = size
         /\ Resized(b, size).reader = b.reader
         /\ Resized(b, size).writer = b.writer
         /\ Contents(Resized(b, size)) = Contents(b)
<1> DEFINE r == Resized(b, size)
           mem == [i \in 0 .. size - 1 |-> IF i < b.size THEN b.mem[i] ELSE Zero]
<1>2. mem \in [0 .. size - 1 -> Cell]
  BY DEF Good, Cell
<1>1. r = [mem |-> mem, size |-> size, reader |-> b.reader, writer |-> b.writer]
  <2>1. r = [b EXCEPT !.mem = mem, !.size = size]
    BY DEF Resized
  <2> HIDE DEF mem
  <2> QED
    BY <2>1 DEF Good
<1>3. Good(r)
  <2> HIDE DEF mem
  <2> QED
    BY <1>1, <1>2 DEF Good
<1>4. \A i \in 1..ReadAbleSize(b) : r.mem[r.reader + i - 1] = b.mem[b.reader + i - 1]
  BY <1>1 DEF Good, ReadAbleSize
<1>5. Contents(r) = Contents(b)
  BY <1>1, <1>4 DEF Contents, First, ReadAbleSize
<1> QED
  BY <1>1, <1>3, <1>5

\* Bytes for which there is room come behind the unread ones.
LEMMA PushedEffect ==
  ASSUME NEW b, Good(b), NEW d \in Seq(Byte), Len(d) <= TailIdleSize(b)
  PROVE  /\ Good(Pushed(b, d))
         /\ Pushed(b, d).size = b.size
         /\ Pushed(b, d).reader = b.reader
         /\ Pushed(b, d).writer = b.writer + Len(d)
         /\ Contents(Pushed(b, d)) = Contents(b) \o d
<1> DEFINE p == Pushed(b, d)
           mem == [i \in DOMAIN b.mem |->
                      IF i \in b.writer .. b.writer + Len(d) - 1
                      THEN d[i - b.writer + 1] ELSE b.mem[i]]
<1>0. Len(d) \in Nat /\ \A i \in 1..Len(d) : d[i] \in Cell
  BY LenProperties, ElementOfSeq DEF Cell
<1>2. mem \in [0 .. b.size - 1 -> Cell]
  <2>1. \A i \in b.writer .. b.writer + Len(d) - 1 : d[i - b.writer + 1] \in Cell
    <3> TAKE i \in b.writer .. b.writer + Len(d) - 1
    <3>1. i - b.writer + 1 \in 1 .. Len(d)
      BY <1>0 DEF Good
    <3> QED
      BY <1>0, <3>1
  <2>2. \A i \in 0 .. b.size - 1 : b.mem[i] \in Cell
    BY DEF Good
  <2>3. DOMAIN b.mem = 0 .. b.size - 1
    BY DEF Good
  <2> QED
    BY <2>1, <2>2, <2>3
<1>1. p = [mem |-> mem, size |-> b.size, reader |-> b.reader, writer |-> b.writer + Len(d)]
  <2>1. p = [b EXCEPT !.mem = mem, !.writer = b.writer + Len(d)]
    BY DEF Pushed
  <2> HIDE DEF mem
  <2> QED
    BY <2>1 DEF Good
<1>3. Good(p)
  <2> HIDE DEF mem
  <2> QED
    BY <1>0, <1>1, <1>2 DEF Good, TailIdleSize
<1>4. ReadAbleSize(p) = ReadAbleSize(b) + Len(d) /\ ReadAbleSize(b) \in Nat
  BY <1>0, <1>1 DEF Good, ReadAbleSize
<1> HIDE DEF mem
<1>5. /\ Contents(b) \in Seq(Cell) /\ Len(Contents(b)) = ReadAbleSize(b)
      /\ \A i \in 1..ReadAbleSize(b) : Contents(b)[i] = b.mem[b.reader + i - 1]
  BY <1>4, FirstIsSeq DEF Contents
<1>6. /\ Contents(p) \in Seq(Cell) /\ Len(Contents(p)) = ReadAbleSize(p)
      /\ \A i \in 1..ReadAbleSize(p) : Contents(p)[i] = mem[b.reader + i - 1]
  <2>1. ReadAbleSize(p) \in 0 .. ReadAbleSize(p)
    BY <1>0, <1>4
  <2>2. /\ First(p, ReadAbleSize(p)) \in Seq(Cell)
        /\ Len(First(p, ReadAbleSize(p))) = ReadAbleSize(p)
        /\ \A i \in 1..ReadAbleSize(p) :
              First(p, ReadAbleSize(p))[i] = p.mem[p.reader + i - 1]
    BY <1>3, <2>1, FirstIsSeq
  <2>3. p.mem = mem /\ p.reader = b.reader
    BY <1>1
  <2> QED
    BY <2>2, <2>3 DEF Contents
<1>7. d \in Seq(Cell)
  BY <1>0, IsASeq, LenProperties
<1>8. \A i \in 1 .. Len(Contents(b)) : Contents(p)[i] = Contents(b)[i]
  <2> SUFFICES ASSUME NEW i \in 1 .. ReadAbleSize(b)
               PROVE  Contents(p)[i] = Contents(b)[i]
    BY <1>5
  <2>0. /\ b.reader \in Nat /\ b.writer \in Nat /\ b.writer <= b.size /\ b.size \in Nat
        /\ DOMAIN b.mem = 0 .. b.size - 1 /\ ReadAbleSize(b) = b.writer - b.reader
    BY GoodOffsets
  <2>1. /\ b.reader + i - 1 \in DOMAIN b.mem
        /\ b.reader + i - 1 \notin b.writer .. b.writer + Len(d) - 1
        /\ i \in 1 .. ReadAbleSize(p)
    BY <1>0, <1>4, <2>0
  <2>2. mem[b.reader + i - 1] = b.mem[b.reader + i - 1]
    BY <2>1 DEF mem
  <2> QED
    BY <1>5, <1>6, <2>1, <2>2
<1>9. \A i \in 1 .. Len(d) : Contents(p)[Len(Contents(b)) + i] = d[i]
  <2> SUFFICES ASSUME NEW i \in 1 .. Len(d)
               PROVE  Contents(p)[ReadAbleSize(b) + i] = d[i]
    BY <1>5
  <2>1. ReadAbleSize(b) + i \in 1 .. ReadAbleSize(p)
    BY <1>0, <1>4
  <2>2. /\ b.reader + (ReadAbleSize(b) + i) - 1 = b.writer + i - 1
        /\ b.writer + i - 1 \in b.writer .. b.writer + Len(d) - 1
        /\ (b.writer + i - 1) - b.writer + 1 = i
    BY <1>0, GoodOffsets
  <2>4. b.writer + i - 1 \in DOMAIN b.mem
    <3>1. b.writer + i - 1 \in 0 .. b.size - 1
      BY <1>0 DEF Good, TailIdleSize
    <3> QED
      BY <3>1 DEF Good
  <2>3. mem[b.writer + i - 1] = d[i]
    BY <2>2, <2>4 DEF mem
  <2> QED
    BY <1>6, <2>1, <2>2, <2>3
<1>10. Contents(p) = Contents(b) \o d
  <2>1. Len(Contents(p)) = Len(Contents(b)) + Len(d)
    BY <1>4, <1>5, <1>6
  <2> HIDE DEF p
  <2> QED
    BY <1>5, <1>6, <1>7, <1>8, <1>9, <2>1, IsConcat
<1> QED
  BY <1>1, <1>3, <1>10

\* EnsureWriteSpace makes room and keeps the unread bytes; if it has to grow the
\* vector, what is unread and what is to come would not have fitted.
LEMMA EnsureWriteSpaceEffect ==
  ASSUME NEW b, Good(b), NEW len \in Nat
  PROVE  /\ Good(EnsureWriteSpace(b, len))
         /\ len <= TailIdleSize(EnsureWriteSpace(b, len))
         /\ Contents(EnsureWriteSpace(b, len)) = Contents(b)
         /\ \/ EnsureWriteSpace(b, len).size = b.size
            \/ EnsureWriteSpace(b, len).size < ReadAbleSize(b) + len + len
<1>1. CASE TailIdleSize(b) >= len
  BY <1>1 DEF EnsureWriteSpace, TailIdleSize, Good
<1>2. CASE ~(TailIdleSize(b) >= len) /\ len <= TailIdleSize(b) + b.reader
  <2>1. EnsureWriteSpace(b, len) = Moved(b, 0)
    BY <1>2 DEF EnsureWriteSpace
  <2>2. 0 \in Nat /\ 0 <= b.reader
    BY DEF Good
  <2>3. /\ Good(Moved(b, 0)) /\ Moved(b, 0).size = b.size /\ Moved(b, 0).reader = 0
        /\ ReadAbleSize(Moved(b, 0)) = ReadAbleSize(b)
        /\ Contents(Moved(b, 0)) = Contents(b)
    BY <2>2, MovedEffect
  <2>4. len <= TailIdleSize(Moved(b, 0))
    BY <1>2, <2>3 DEF Good, ReadAbleSize, TailIdleSize
  <2> QED
    BY <2>1, <2>3, <2>4
<1>3. CASE ~(TailIdleSize(b) >= len) /\ ~(len <= TailIdleSize(b) + b.reader)
  <2> DEFINE size == b.writer + len
  <2>1. EnsureWriteSpace(b, len) = Resized(b, size)
    BY <1>3 DEF EnsureWriteSpace
  <2>2. size \in Nat /\ b.size <= size /\ size < ReadAbleSize(b) + len + len
    BY <1>3 DEF Good, ReadAbleSize, TailIdleSize
  <2>3. /\ Good(Resized(b, size)) /\ Resized(b, size).size = size
        /\ Resized(b, size).writer = b.writer
        /\ Contents(Resized(b, size)) = Contents(b)
    BY <2>2, ResizedEffect
  <2>4. len <= TailIdleSize(Resized(b, size))
    BY <2>3 DEF Good, TailIdleSize
  <2> QED
    BY <2>1, <2>2, <2>3, <2>4
<1> QED
  BY <1>1, <1>2, <1>3

\* The same of the port's buffer, whose prepended bytes stay free.
LEMMA AppendedEffect ==
  ASSUME NEW b, Good(b), Prepend <= b.reader, NEW d \in Seq(Byte)
  PROVE  /\ Good(Appended(b, d))
         /\ Prepend <= Appended(b, d).reader
         /\ Contents(Appended(b, d)) = Contents(b) \o d
         /\ \/ Appended(b, d).size = b.size
            \/ Appended(b, d).size < Prepend + ReadAbleSize(b) + Len(d) + Len(d)
<1> DEFINE len == Len(d)
           room == IF TailIdleSize(b) < len THEN makeSpace(b, len) ELSE b
<1>0. len \in Nat
  BY LenProperties
<1>1. /\ Good(room) /\ Prepend <= room.reader /\ len <= TailIdleSize(room)
      /\ Contents(room) = Contents(b)
      /\ room.size = b.size \/ room.size < Prepend + ReadAbleSize(b) + len + len
  <2> HIDE DEF len
  <2>1. CASE TailIdleSize(b) >= len
    BY <1>0, <2>1 DEF TailIdleSize, Good
  <2>2. CASE TailIdleSize(b) < len /\ TailIdleSize(b) + b.reader < len + Prepend
    <3> DEFINE size == b.writer + len
    <3>1. room = Resized(b, size)
      BY <2>2 DEF makeSpace
    <3>0. /\ b.size \in Nat /\ b.reader \in Nat /\ b.writer \in Nat /\ b.writer <= b.size
          /\ ReadAbleSize(b) = b.writer - b.reader /\ TailIdleSize(b) = b.size - b.writer
      BY GoodOffsets
    <3>2. size \in Nat /\ b.size <= size /\ size < Prepend + ReadAbleSize(b) + len + len
      <4>1. b.size - b.writer < len /\ b.size - b.writer + b.reader < len + Prepend
        BY <2>2, <3>0
      <4>2. size \in Nat /\ b.size <= size
        BY <1>0, <3>0, <4>1
      <4>3. b.writer + len < Prepend + (b.writer - b.reader) + len + len
        BY <1>0, <3>0, <4>1
      <4> QED
        BY <3>0, <4>2, <4>3
    <3>3. /\ Good(Resized(b, size)) /\ Resized(b, size).size = size
          /\ Resized(b, size).reader = b.reader
          /\ Resized(b, size).writer = b.writer
          /\ Contents(Resized(b, size)) = Contents(b)
      BY <3>2, ResizedEffect
    <3>4. len <= TailIdleSize(Resized(b, size))
      BY <1>0, <3>3 DEF Good, TailIdleSize
    <3> QED
      BY <3>1, <3>2, <3>3, <3>4
  <2>3. CASE TailIdleSize(b) < len /\ ~(TailIdleSize(b) + b.reader < len + Prepend)
    <3>1. room = Moved(b, Prepend)
      BY <2>3 DEF makeSpace
    <3>2. /\ Good(Moved(b, Prepend)) /\ Moved(b, Prepend).size = b.size
          /\ Moved(b, Prepend).reader = Prepend
          /\ ReadAbleSize(Moved(b, Prepend)) = ReadAbleSize(b)
          /\ Contents(Moved(b, Prepend)) = Contents(b)
      BY MovedEffect
    <3>3. len <= TailIdleSize(Moved(b, Prepend))
      BY <1>0, <2>3, <3>2 DEF Good, ReadAbleSize, TailIdleSize
    <3> QED
      BY <3>1, <3>2, <3>3
  <2> QED
    BY <1>0, <2>1, <2>2, <2>3 DEF TailIdleSize, Good
<1>2. Appended(b, d) = Pushed(room, d)
  BY DEF Appended
<1> HIDE DEF room
<1> QED
  BY <1>1, <1>2, PushedEffect

\* Taking n bytes from the front leaves the others; with the last one the offsets
\* may go back to any place in front.
LEMMA TakenEffect ==
  ASSUME NEW b, Good(b), NEW n \in 0 .. ReadAbleSize(b), NEW c, Good(c), c.mem = b.mem,
         \/ c.reader = b.reader + n /\ c.writer = b.writer
         \/ n = ReadAbleSize(b) /\ c.reader = c.writer
  PROVE  /\ Contents(b) = First(b, n) \o Contents(c)
         /\ ReadAbleSize(c) = ReadAbleSize(b) - n
<1>1. ReadAbleSize(b) \in Nat /\ n \in Nat /\ ReadAbleSize(c) = ReadAbleSize(b) - n
      /\ ReadAbleSize(c) \in Nat
  BY GoodOffsets
<1>2. /\ Contents(b) \in Seq(Cell) /\ Len(Contents(b)) = ReadAbleSize(b)
      /\ \A i \in 1..ReadAbleSize(b) : Contents(b)[i] = b.mem[b.reader + i - 1]
  BY <1>1, FirstIsSeq DEF Contents
<1>3. /\ Contents(c) \in Seq(Cell) /\ Len(Contents(c)) = ReadAbleSize(c)
      /\ \A i \in 1..ReadAbleSize(c) : Contents(c)[i] = c.mem[c.reader + i - 1]
  BY <1>1, FirstIsSeq DEF Contents
<1>4. /\ First(b, n) \in Seq(Cell) /\ Len(First(b, n)) = n
      /\ \A i \in 1..n : First(b, n)[i] = b.mem[b.reader + i - 1]
  BY FirstIsSeq
<1>5. \A i \in 1..Len(First(b, n)) : Contents(b)[i] = First(b, n)[i]
  BY <1>1, <1>2, <1>4
<1>6. \A i \in 1..Len(Contents(c)) : Contents(b)[Len(First(b, n)) + i] = Contents(c)[i]
  <2> SUFFICES ASSUME NEW i \in 1..ReadAbleSize(c)
               PROVE  Contents(b)[n + i] = Contents(c)[i]
    BY <1>3, <1>4
  <2>0. b.reader \in Nat /\ c.reader \in Nat
    BY DEF Good
  <2>1. n + i \in 1..ReadAbleSize(b) /\ c.reader = b.reader + n
    BY <1>1
  <2>2. b.reader + (n + i) - 1 = c.reader + i - 1
    BY <1>1, <2>0, <2>1
  <2> QED
    BY <1>2, <1>3, <2>1, <2>2
<1>7. Len(Contents(b)) = Len(First(b, n)) + Len(Contents(c))
  BY <1>1, <1>2, <1>3, <1>4
<1> QED
  BY <1>1, <1>2, <1>3, <1>4, <1>5, <1>6, <1>7, IsConcat

\* The unread bytes are a sequence.
LEMMA ContentsIsSeq ==
  ASSUME NEW b, Good(b)
  PROVE  /\ ReadAbleSize(b) \in Nat
         /\ Contents(b) \in Seq(Cell)
         /\ Len(Contents(b)) = ReadAbleSize(b)
<1>1. ReadAbleSize(b) \in Nat
  BY DEF Good, ReadAbleSize
<1> QED
  BY <1>1, FirstIsSeq DEF Contents

-----------------------------------------------------------------------------
(* The steps.                                                              *)

\* A call that has put d behind the unread bytes.
LEMMA PutStep ==
  ASSUME IInv, UNCHANGED kind, Good(buf'), NEW d \in Seq(Byte), data' = d,
         Contents(buf') = Contents(buf) \o d,
         Front <= buf'.reader,
         ReadAbleSize(buf) + Len(d) <= MaxContents,
         buf'.size = buf.size \/ buf'.size < Prepend + MaxContents + MaxWrite
  PROVE  IInv' /\ Queue!Put
<1>1. Queue!Put
  BY DEF Queue!Put
<1>2. d \in Seq(Cell)
  <2>1. Len(d) \in Nat /\ \A i \in 1..Len(d) : d[i] \in Cell
    BY LenProperties, ElementOfSeq DEF Cell
  <2> QED
    BY <2>1, IsASeq, LenProperties
<1>4. /\ Contents(buf) \in Seq(Cell) /\ Len(Contents(buf)) = ReadAbleSize(buf)
      /\ Len(Contents(buf')) = ReadAbleSize(buf')
  BY ContentsIsSeq DEF IInv
<1>5. ReadAbleSize(buf') = ReadAbleSize(buf) + Len(d)
  BY <1>2, <1>4, ConcatProperties
<1>6. MemoryBounded'
  BY DEF MemoryBounded, IInv
<1> QED
  BY <1>1, <1>2, <1>5, <1>6 DEF IInv, Front

\* A call that has taken the first n bytes.
LEMMA TakeStep ==
  ASSUME IInv, UNCHANGED kind, Good(buf'), NEW n \in 0 .. ReadAbleSize(buf),
         data' = First(buf, n), buf'.mem = buf.mem, buf'.size = buf.size,
         Front <= buf'.reader,
         \/ buf'.reader = buf.reader + n /\ buf'.writer = buf.writer
         \/ n = ReadAbleSize(buf) /\ buf'.reader = buf'.writer
  PROVE  IInv' /\ Queue!Take
<1>1. /\ Contents(buf) = First(buf, n) \o Contents(buf')
      /\ ReadAbleSize(buf') = ReadAbleSize(buf) - n
  BY TakenEffect DEF IInv
<1>2. Queue!Take
  BY <1>1 DEF Queue!Take
<1>3. data' \in Seq(Cell)
  BY FirstIsSeq DEF IInv
<1>4. ReadAbleSize(buf') <= MaxContents
  BY <1>1 DEF IInv, Good, ReadAbleSize
<1>5. MemoryBounded'
  BY DEF MemoryBounded, IInv
<1> QED
  BY <1>2, <1>3, <1>4, <1>5 DEF IInv, Front

\* What is written is a sequence of bytes, not longer than the bounds allow.
LEMMA ChunkIsSeq ==
  ASSUME NEW max \in Int, NEW d \in Chunks(max)
  PROVE  /\ d \in Seq(Byte) /\ Len(d) \in Nat
         /\ Len(d) <= max /\ Len(d) <= MaxContents - ReadAbleSize(buf)
<1>1. PICK n \in 1..max : n <= MaxContents - ReadAbleSize(buf) /\ d \in [1..n -> Byte]
  BY DEF Chunks
<1> QED
  BY <1>1, LenProperties, SeqDef

\* WriteAndPush puts its bytes behind the others.
LEMMA WriteAndPushStep ==
  ASSUME IInv, UNCHANGED kind, NEW d \in Chunks(MaxWrite), WriteAndPush(d)
  PROVE  IInv' /\ Queue!Put
<1> DEFINE room == EnsureWriteSpace(buf, Len(d))
<1>1. /\ d \in Seq(Byte) /\ Len(d) \in Nat
      /\ Len(d) <= MaxWrite /\ Len(d) <= MaxContents - ReadAbleSize(buf)
  BY ChunkIsSeq
<1>2. /\ Good(room) /\ Len(d) <= TailIdleSize(room) /\ Contents(room) = Contents(buf)
      /\ room.size = buf.size \/ room.size < ReadAbleSize(buf) + Len(d) + Len(d)
  BY <1>1, EnsureWriteSpaceEffect DEF IInv
<1>3. buf' = Pushed(room, d) /\ data' = d /\ kind = "source"
  BY DEF WriteAndPush
<1> HIDE DEF room
<1>4. /\ Good(buf') /\ Contents(buf') = Contents(buf) \o d /\ buf'.size = room.size
  BY <1>1, <1>2, <1>3, PushedEffect
<1>5. Front <= buf'.reader
  BY <1>3, <1>4 DEF Front, Good
<1>6. /\ ReadAbleSize(buf) + Len(d) <= MaxContents
      /\ buf'.size = buf.size \/ buf'.size < Prepend + MaxContents + MaxWrite
  <2>1. ReadAbleSize(buf) \in Nat /\ buf'.size \in Nat
    BY <1>4, ContentsIsSeq DEF IInv, Good
  <2> QED
    BY <1>1, <1>2, <1>4, <2>1
<1> QED
  BY <1>1, <1>3, <1>4, <1>5, <1>6, PutStep

\* So does append.
LEMMA AppendStep ==
  ASSUME IInv, UNCHANGED kind, NEW d \in Chunks(MaxWrite), append(d)
  PROVE  IInv' /\ Queue!Put
<1>1. /\ d \in Seq(Byte) /\ Len(d) \in Nat
      /\ Len(d) <= MaxWrite /\ Len(d) <= MaxContents - ReadAbleSize(buf)
  BY ChunkIsSeq
<1>2. buf' = Appended(buf, d) /\ data' = d /\ Front = Prepend
  BY DEF append, Front
<1>3. /\ Good(buf') /\ Front <= buf'.reader /\ Contents(buf') = Contents(buf) \o d
      /\ buf'.size = buf.size \/ buf'.size < Prepend + ReadAbleSize(buf) + Len(d) + Len(d)
  BY <1>1, <1>2, AppendedEffect DEF IInv, Good
<1>4. /\ ReadAbleSize(buf) + Len(d) <= MaxContents
      /\ buf'.size = buf.size \/ buf'.size < Prepend + MaxContents + MaxWrite
  <2>1. ReadAbleSize(buf) \in Nat /\ buf'.size \in Nat
    BY <1>3, ContentsIsSeq DEF IInv, Good
  <2> QED
    BY <1>1, <1>3, <2>1
<1> QED
  BY <1>1, <1>2, <1>3, <1>4, PutStep

\* What readFd reads is split at the end of the vector, and put together again.
LEMMA ReadFdStep ==
  ASSUME IInv, UNCHANGED kind, NEW d \in Chunks(TailIdleSize(buf) + ExtraBuf), readFd(d)
  PROVE  IInv' /\ Queue!Put
<1> DEFINE w == TailIdleSize(buf)
           d1 == SubSeq(d, 1, w)
           d2 == SubSeq(d, w + 1, Len(d))
<1>0. w \in Nat /\ ReadAbleSize(buf) \in Nat
  BY GoodOffsets DEF IInv
<1>1. /\ d \in Seq(Byte) /\ Len(d) \in Nat /\ Len(d) <= MaxContents - ReadAbleSize(buf)
      /\ Len(d) <= w + (IF w < ExtraBuf THEN ExtraBuf ELSE 0)
  BY <1>0, ChunkIsSeq DEF readFd
<1>2. data' = d /\ Front = Prepend /\ Good(buf) /\ Prepend <= buf.reader
  BY DEF readFd, Front, IInv
<1>3. ReadAbleSize(buf) + Len(d) <= MaxContents
  BY <1>0, <1>1
<1>4. CASE Len(d) <= w
  <2>1. buf' = Pushed(buf, d)
    BY <1>4 DEF readFd
  <2>2. /\ Good(buf') /\ Contents(buf') = Contents(buf) \o d
        /\ buf'.size = buf.size /\ buf'.reader = buf.reader
    BY <1>1, <1>2, <1>4, <2>1, PushedEffect
  <2> QED
    BY <1>1, <1>2, <1>3, <2>2, PutStep
<1>5. CASE ~(Len(d) <= w)
  <2> DEFINE mid == Pushed(buf, d1)
  <2>1. buf' = Appended(mid, d2)
    BY <1>5 DEF readFd
  <2>2. /\ d1 \in Seq(Byte) /\ Len(d1) = w
        /\ d2 \in Seq(Byte) /\ Len(d2) = Len(d) - w /\ d = d1 \o d2
    <3>1. \A i \in 1..Len(d) : d[i] \in Byte
      BY <1>1, ElementOfSeq
    <3>2. d1 \in Seq(Byte) /\ Len(d1) = w
      BY <1>0, <1>1, <1>5, <3>1, SubSeqProperties
    <3>3. d2 \in Seq(Byte) /\ Len(d2) = Len(d) - w
      BY <1>0, <1>1, <1>5, <3>1, SubSeqProperties
    <3>4. d = d1 \o d2
      <4>1. \A i \in 1 .. Len(d1) : d[i] = d1[i]
        BY <1>0, <1>1, <1>5, <3>1, <3>2, SubSeqProperties
      <4>2. \A i \in 1 .. Len(d2) : d[Len(d1) + i] = d2[i]
        <5>1. \A i \in w + 1 .. Len(d) : d[i] \in Byte
          BY <1>0, <3>1
        <5>2. \A i \in 1 .. Len(d) - (w + 1) + 1 : d2[i] = d[w + 1 + i - 1]
          BY <1>0, <1>1, <5>1, SubSeqProperties
        <5>3. \A i \in 1 .. Len(d) - w : w + 1 + i - 1 = w + i
          BY <1>0, <1>1
        <5>4. Len(d) - (w + 1) + 1 = Len(d) - w
          BY <1>0, <1>1
        <5> HIDE DEF d2
        <5> QED
          BY <3>2, <3>3, <5>2, <5>3, <5>4
      <4>3. Len(d) = Len(d1) + Len(d2)
        BY <1>0, <1>1, <3>2, <3>3
      <4> HIDE DEF d1, d2
      <4> QED
        BY <1>1, <3>2, <3>3, <4>1, <4>2, <4>3, IsConcat
    <3> QED
      BY <3>2, <3>3, <3>4
  <2> HIDE DEF d1, d2
  <2>3. /\ Good(mid) /\ mid.size = buf.size /\ mid.reader = buf.reader
        /\ Contents(mid) = Contents(buf) \o d1
    BY <1>0, <1>2, <2>2, PushedEffect
  <2> HIDE DEF mid
  <2>4. /\ Good(buf') /\ Prepend <= buf'.reader /\ Contents(buf') = Contents(mid) \o d2
        /\ \/ buf'.size = buf.size
           \/ buf'.size < Prepend + ReadAbleSize(mid) + Len(d2) + Len(d2)
    BY <1>2, <2>1, <2>2, <2>3, AppendedEffect
  <2>5. \A s \in Seq(Byte) : s \in Seq(Cell)
    BY SeqMonotonic DEF Cell
  <2>6. Contents(buf') = Contents(buf) \o d
    <3>1. Contents(buf) \in Seq(Cell) /\ d1 \in Seq(Cell) /\ d2 \in Seq(Cell)
      BY <1>2, <2>2, <2>5, ContentsIsSeq
    <3>2. (Contents(buf) \o d1) \o d2 = Contents(buf) \o (d1 \o d2)
      BY <3>1, ConcatAssociative
    <3> QED
      BY <2>2, <2>3, <2>4, <3>2
  <2>7. ReadAbleSize(mid) = ReadAbleSize(buf) + w
    <3>1. Contents(buf) \in Seq(Cell) /\ d1 \in Seq(Cell)
      BY <1>2, <2>2, <2>5, ContentsIsSeq
    <3>2. Len(Contents(buf) \o d1) = Len(Contents(buf)) + Len(d1)
      BY <3>1, ConcatProperties
    <3>3. Len(Contents(mid)) = ReadAbleSize(mid) /\ Len(Contents(buf)) = ReadAbleSize(buf)
      BY <1>2, <2>3, ContentsIsSeq
    <3> QED
      BY <2>2, <2>3, <3>2, <3>3
  <2>8. buf'.size = buf.size \/ buf'.size < Prepend + MaxContents + MaxWrite
    <3>1. buf'.size \in Nat
      BY <2>4 DEF Good
    <3>2. Len(d2) <= ExtraBuf
      BY <1>0, <1>1, <1>5, <2>2
    <3>3. /\ ReadAbleSize(mid) + Len(d2) <= MaxContents
          /\ Len(d2) \in Nat /\ ReadAbleSize(mid) \in Nat
      BY <1>0, <1>1, <2>2, <2>7
    <3>4. CASE buf'.size < Prepend + ReadAbleSize(mid) + Len(d2) + Len(d2)
      BY <3>1, <3>2, <3>3, <3>4
    <3> QED
      BY <2>4, <3>4
  <2> QED
    BY <1>1, <1>2, <1>3, <2>4, <2>6, <2>8, PutStep
<1> QED
  BY <1>4, <1>5

\* ReadAndPop takes what it returns; GetLineAndPop is one of its calls.
LEMMA ReadAndPopStep ==
  ASSUME IInv, UNCHANGED kind, NEW n \in 1..ReadAbleSize(buf), ReadAndPop(n)
  PROVE  IInv' /\ Queue!Take
<1>1. /\ buf' = [buf EXCEPT !.reader = buf.reader + n]
      /\ data' = First(buf, n) /\ Front = 0
  BY DEF ReadAndPop, Front
<1>2. Good(buf) /\ n \in 0..ReadAbleSize(buf) /\ ReadAbleSize(buf) \in Nat
  BY ContentsIsSeq DEF IInv
<1>3. buf' = [mem |-> buf.mem, size |-> buf.size, reader |-> buf.reader + n,
              writer |-> buf.writer]
  BY <1>1, <1>2 DEF Good
<1>4. Good(buf') /\ 0 <= buf'.reader
  BY <1>2, <1>3 DEF Good, ReadAbleSize
<1> QED
  BY <1>1, <1>2, <1>3, <1>4, TakeStep

\* retrieveAsString does, whether it resets the offsets or not.
LEMMA RetrieveStep ==
  ASSUME IInv, UNCHANGED kind, NEW n \in 1..ReadAbleSize(buf), retrieveAsString(n)
  PROVE  IInv' /\ Queue!Take
<1>1. data' = First(buf, n) /\ Front = Prepend /\ Prepend <= buf.reader
  BY DEF retrieveAsString, Front, IInv
<1>2. Good(buf) /\ n \in 0..ReadAbleSize(buf) /\ ReadAbleSize(buf) \in Nat
  BY ContentsIsSeq DEF IInv
<1>3. CASE n < ReadAbleSize(buf)
  <2>1. buf' = [mem |-> buf.mem, size |-> buf.size, reader |-> buf.reader + n,
                writer |-> buf.writer]
    BY <1>2, <1>3 DEF Good, retrieveAsString
  <2>2. Good(buf') /\ Prepend <= buf'.reader
    BY <1>1, <1>2, <2>1 DEF Good, ReadAbleSize
  <2> QED
    BY <1>1, <1>2, <2>1, <2>2, TakeStep
<1>4. CASE ~(n < ReadAbleSize(buf))
  <2>1. buf' = [mem |-> buf.mem, size |-> buf.size, reader |-> Prepend, writer |-> Prepend]
    BY <1>2, <1>4 DEF Good, retrieveAsString
  <2>2. Good(buf') /\ Prepend <= buf'.reader
    BY <1>1, <1>2, <2>1 DEF Good
  <2>3. n = ReadAbleSize(buf)
    BY <1>2, <1>4
  <2> QED
    BY <1>1, <1>2, <2>1, <2>2, <2>3, TakeStep
<1> QED
  BY <1>3, <1>4

\* Clear takes everything.
LEMMA ClearStep ==
  ASSUME IInv, UNCHANGED kind, Clear
  PROVE  IInv' /\ Queue!Take
<1>1. data' = First(buf, ReadAbleSize(buf)) /\ Front = 0
  BY DEF Clear, Front, Contents
<1>2. Good(buf) /\ ReadAbleSize(buf) \in 0..ReadAbleSize(buf)
  BY ContentsIsSeq DEF IInv
<1>3. buf' = [mem |-> buf.mem, size |-> buf.size, reader |-> 0, writer |-> 0]
  BY <1>2 DEF Clear, Good
<1>4. Good(buf') /\ 0 <= buf'.reader
  BY <1>2, <1>3 DEF Good
<1> QED
  BY <1>1, <1>2, <1>3, <1>4, TakeStep

\* Every step keeps the invariant and puts or takes.
LEMMA NextStep ==
  ASSUME IInv, Next
  PROVE  IInv' /\ Queue!Next
<1>0. UNCHANGED kind
  BY DEF Next
<1>1. CASE \E d \in Chunks(MaxWrite) : WriteAndPush(d) \/ append(d)
  BY <1>0, <1>1, WriteAndPushStep, AppendStep DEF Queue!Next
<1>2. CASE \E d \in Chunks(TailIdleSize(buf) + ExtraBuf) : readFd(d)
  BY <1>0, <1>2, ReadFdStep DEF Queue!Next
<1>3. CASE \E n \in 1..ReadAbleSize(buf) : ReadAndPop(n) \/ retrieveAsString(n)
  BY <1>0, <1>3, ReadAndPopStep, RetrieveStep DEF Queue!Next
<1>4. CASE GetLineAndPop
  BY <1>0, <1>4, ReadAndPopStep DEF Queue!Next, GetLineAndPop
<1>5. CASE Clear
  BY <1>0, <1>5, ClearStep DEF Queue!Next
<1> QED
  BY <1>1, <1>2, <1>3, <1>4, <1>5 DEF Next

\* A new buffer is empty.
LEMMA InitIInv == Init => IInv /\ Queue!Init
<1> SUFFICES ASSUME Init PROVE IInv /\ Queue!Init
  OBVIOUS
<1>1. /\ kind \in {"source", "port"} /\ data = <<>> /\ Front \in Nat
      /\ buf = [mem |-> [i \in 0 .. Front + InitialSize - 1 |-> Zero],
                size |-> Front + InitialSize, reader |-> Front, writer |-> Front]
  BY DEF Init, Front
<1>2. Good(buf) /\ ReadAbleSize(buf) = 0 /\ Front <= buf.reader
  <2> HIDE DEF Front
  <2> QED
    BY <1>1 DEF Good, Cell, ReadAbleSize
<1>3. MemoryBounded
  BY <1>1 DEF MemoryBounded, Front
<1>4. Contents(buf) = <<>>
  BY <1>2, ContentsIsSeq, EmptySeq
<1> QED
  BY <1>1, <1>2, <1>3, <1>4, EmptySeq DEF IInv, Queue!Init

-----------------------------------------------------------------------------
(* The theorems.                                                           *)

\* The invariant holds in every behaviour of either buffer.
THEOREM Invariance == Spec => []IInv
<1>1. Init => IInv
  BY InitIInv
<1>2. IInv /\ [Next]_vars => IInv'
  <2> SUFFICES ASSUME IInv, [Next]_vars PROVE IInv'
    OBVIOUS
  <2>1. CASE Next
    BY <2>1, NextStep
  <2>2. CASE UNCHANGED vars
    BY <2>2 DEF vars, IInv, Good, Front, ReadAbleSize, MemoryBounded
  <2> QED
    BY <2>1, <2>2
<1> QED
  BY <1>1, <1>2, PTL DEF Spec

\* The offsets stay in order and inside the vector, and in the port behind the
\* prepended bytes (67, 73), whatever the sizes are.
THEOREM OffsetsStayInOrder == Spec => []OffsetsInOrder
<1>1. IInv => OffsetsInOrder
  BY DEF IInv, Good, Front, OffsetsInOrder
<1> QED
  BY <1>1, Invariance, PTL

\* Neither vector grows beyond the most that was ever unread and one write.
THEOREM MemoryStaysBounded == Spec => []MemoryBounded
<1>1. IInv => MemoryBounded
  BY DEF IInv
<1> QED
  BY <1>1, Invariance, PTL

\* Both buffers are byte queues: through growing, moving and splitting, every byte
\* comes out once and in order (EnsureWriteSpace, makeSpace, readFd).
THEOREM BuffersImplementQueue == Spec => ImplementsByteQueue
<1>1. Init => Queue!Init
  BY InitIInv
<1>2. IInv /\ [Next]_vars => [Queue!Next]_(Queue!vars)
  <2> SUFFICES ASSUME IInv, [Next]_vars PROVE [Queue!Next]_(Queue!vars)
    OBVIOUS
  <2>1. CASE Next
    BY <2>1, NextStep
  <2>2. CASE UNCHANGED vars
    BY <2>2 DEF vars, Queue!vars, Contents, First, ReadAbleSize
  <2> QED
    BY <2>1, <2>2
<1> QED
  BY <1>1, <1>2, Invariance, PTL DEF Spec, Queue!Spec, ImplementsByteQueue
=============================================================================
