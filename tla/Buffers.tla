------------------------------ MODULE Buffers ------------------------------
(***************************************************************************)
(* The two buffers of the repository, each a vector with a read and a      *)
(* write offset: `Buffer' of source/server.hpp, and `Buffer' of src, which *)
(* keeps a few bytes free in front (kCheapPrepend).  A behaviour is the    *)
(* life of one buffer of either kind.  A record b stands for the object:   *)
(* b.mem for the bytes of the vector, b.size for its size.                 *)
(***************************************************************************)
EXTENDS Integers, Sequences

CONSTANTS Byte,         \* the bytes that are written
          NewLine,      \* the one GetLine looks for
          Zero,         \* what the vector fills new space with
          InitialSize,  \* BUFFER_DEFAULT_SIZE (1024), kInitialSize (1024)
          Prepend,      \* kCheapPrepend (8)
          ExtraBuf,     \* the size of extrabuf in readFd (65536)
          MaxContents,  \* bound: unread bytes
          MaxWrite      \* bound: bytes written at once

ASSUME BuffersAssumption ==
    /\ InitialSize \in Nat \ {0} /\ Prepend \in Nat
    /\ ExtraBuf \in Nat \ {0} /\ MaxContents \in Nat
    /\ MaxWrite \in Nat /\ ExtraBuf <= MaxWrite

VARIABLES kind,   \* "source" or "port"
          buf,
          data    \* the bytes moved by the last call

vars == <<kind, buf, data>>

ReadAbleSize(b) == b.writer - b.reader
TailIdleSize(b) == b.size - b.writer

\* The unread bytes, and the first n of them.
First(b, n) == [i \in 1..n |-> b.mem[b.reader + i - 1]]
Contents(b) == First(b, ReadAbleSize(b))

\* A faulty variant of Moved: leaves the last byte where it was.
Moved_OneLess(b, to) ==
    [b EXCEPT !.mem = [i \in DOMAIN b.mem |->
                          IF i \in to .. to + ReadAbleSize(b) - 2
                          THEN b.mem[b.reader + i - to] ELSE b.mem[i]],
              !.reader = to,
              !.writer = to + ReadAbleSize(b)]

\* std::copy of the unread bytes to the offset `to', in front of them.
Moved(b, to) ==
    [b EXCEPT !.mem = [i \in DOMAIN b.mem |->
                          IF i \in to .. to + ReadAbleSize(b) - 1
                          THEN b.mem[b.reader + i - to] ELSE b.mem[i]],
              !.reader = to,
              !.writer = to + ReadAbleSize(b)]

\* vector::resize to a larger size.
Resized(b, size) ==
    [b EXCEPT !.mem = [i \in 0 .. size - 1 |->
                          IF i < b.size THEN b.mem[i] ELSE Zero],
              !.size = size]

\* Bytes copied behind the write offset, which then moves.
Pushed(b, d) ==
    [b EXCEPT !.mem = [i \in DOMAIN b.mem |->
                          IF i \in b.writer .. b.writer + Len(d) - 1
                          THEN d[i - b.writer + 1] ELSE b.mem[i]],
              !.writer = b.writer + Len(d)]

-----------------------------------------------------------------------------
(* Faulty variants: not part of the specification.                         *)

\* Moves the data although one byte will not fit.
EnsureWriteSpace_TooLittle(b, len) ==
    IF TailIdleSize(b) >= len THEN b
    ELSE IF len <= TailIdleSize(b) + b.reader + 1
         THEN Moved(b, 0)
         ELSE Resized(b, b.writer + len)

\* Always grows.
EnsureWriteSpace_Grow(b, len) ==
    IF TailIdleSize(b) >= len THEN b ELSE Resized(b, b.writer + len)

-----------------------------------------------------------------------------
(* source/server.hpp.                                                      *)

EnsureWriteSpace(b, len) ==
    IF TailIdleSize(b) >= len THEN b
    ELSE IF len <= TailIdleSize(b) + b.reader
         THEN Moved(b, 0)
         ELSE Resized(b, b.writer + len)

\* WriteAndPush, and WriteStringAndPush and WriteBufferAndPush which do the
\* same with the bytes of a string or of another buffer.
WriteAndPush(d) ==
    /\ kind = "source"
    /\ buf' = Pushed(EnsureWriteSpace(buf, Len(d)), d)
    /\ data' = d

\* ReadAndPop and ReadAsStringAndPop; the offsets stay where they are when the
\* last byte is read.
ReadAndPop(n) ==
    /\ kind = "source"
    /\ buf' = [buf EXCEPT !.reader = @ + n]
    /\ data' = First(buf, n)

\* GetLineAndPop takes everything up to the first newline, with it.
GetLineAndPop ==
    /\ kind = "source"
    /\ \E n \in 1..ReadAbleSize(buf) :
          /\ Contents(buf)[n] = NewLine
          /\ \A m \in 1 .. n - 1 : Contents(buf)[m] # NewLine
          /\ ReadAndPop(n)

Clear ==
    /\ kind = "source"
    /\ buf' = [buf EXCEPT !.reader = 0, !.writer = 0]
    /\ data' = Contents(buf)

-----------------------------------------------------------------------------
(* src/Buffer.h and src/Buffer.cc.                                         *)

makeSpace(b, len) ==
    IF TailIdleSize(b) + b.reader < len + Prepend
    THEN Resized(b, b.writer + len)
    ELSE Moved(b, Prepend)

Appended(b, d) ==
    Pushed(IF TailIdleSize(b) < Len(d) THEN makeSpace(b, Len(d)) ELSE b, d)

append(d) ==
    /\ kind = "port"
    /\ buf' = Appended(buf, d)
    /\ data' = d

\* retrieveAsString; reading the last byte resets the offsets.
retrieveAsString(n) ==
    /\ kind = "port"
    /\ buf' = IF n < ReadAbleSize(buf)
              THEN [buf EXCEPT !.reader = @ + n]
              ELSE [buf EXCEPT !.reader = Prepend, !.writer = Prepend]
    /\ data' = First(buf, n)

\* readv fills the free space of the vector and then extrabuf, which is offered
\* only if the free space is smaller, and whose bytes are appended.
readFd(d) ==
    LET writable == TailIdleSize(buf)
    IN  /\ kind = "port"
        /\ Len(d) <= writable + (IF writable < ExtraBuf THEN ExtraBuf ELSE 0)
        /\ buf' = IF Len(d) <= writable
                  THEN Pushed(buf, d)
                  ELSE Appended(Pushed(buf, SubSeq(d, 1, writable)),
                                SubSeq(d, writable + 1, Len(d)))
        /\ data' = d

-----------------------------------------------------------------------------

Init ==
    /\ kind \in {"source", "port"}
    /\ data = <<>>
    /\ LET front == IF kind = "port" THEN Prepend ELSE 0
       IN  buf = [mem    |-> [i \in 0 .. front + InitialSize - 1 |-> Zero],
                  size   |-> front + InitialSize,
                  reader |-> front,
                  writer |-> front]

\* What may be written: as many bytes as the bounds allow.
Chunks(max) ==
    UNION {[1..n -> Byte] : n \in {m \in 1..max : m <= MaxContents - ReadAbleSize(buf)}}

Next ==
    /\ UNCHANGED kind
    /\ \/ \E d \in Chunks(MaxWrite) : WriteAndPush(d) \/ append(d)
       \/ \E d \in Chunks(TailIdleSize(buf) + ExtraBuf) : readFd(d)
       \/ \E n \in 1..ReadAbleSize(buf) : ReadAndPop(n) \/ retrieveAsString(n)
       \/ GetLineAndPop
       \/ Clear

Spec == Init /\ [][Next]_vars

-----------------------------------------------------------------------------
(* Properties.                                                             *)

\* The offsets stay in order and inside the vector, which is what the
\* assertions of MoveReadOffset and MoveWriteOffset test (67, 73); the space in
\* front of the port's buffer is never used for data.
OffsetsInOrder ==
    /\ buf.reader <= buf.writer
    /\ buf.writer <= buf.size
    /\ buf.reader >= (IF kind = "port" THEN Prepend ELSE 0)
    /\ DOMAIN buf.mem = 0 .. buf.size - 1

\* Space that has been read is used again before the vector grows (81, 115):
\* however long a connection lives, the vector never exceeds what was unread
\* at worst plus one write.
MemoryBounded ==
    \/ buf.size <= Prepend + InitialSize
    \/ buf.size < Prepend + MaxContents + MaxWrite

\* Through growing, moving and wrapping of the offsets every byte comes out
\* once and in order.
Queue == INSTANCE ByteQueue WITH queue <- Contents(buf), data <- data

ImplementsByteQueue == Queue!Spec

=============================================================================
