-------------------------------- MODULE Util --------------------------------
(***************************************************************************)
(* The pure functions of Util (source/http.hpp).  A string is a sequence   *)
(* of bytes.                                                               *)
(***************************************************************************)
EXTENDS Integers, SequencesExt

CONSTANT Mime   \* _mime_msg: from an extension, dot included, to its type

Space == 32   Percent == 37   Amp == 38    Plus == 43   Dot == 46
Slash == 47   Equals == 61    Question == 63

Digits == 48..57   Upper == 65..90   Lower == 97..122

\* string::find of one character; npos is Len(s) + 1.
Find(s, c, from) == Min({i \in from .. Len(s) : s[i] = c} \union {Len(s) + 1})

\* Splits at a separator of one character and leaves out empty parts.
Split(src, sep) ==
    LET from[offset \in 1 .. Len(src) + 1] ==
          IF offset > Len(src) THEN <<>>
          ELSE LET pos == Find(src, sep, offset)
               IN  (IF pos = offset THEN <<>> ELSE <<SubSeq(src, offset, pos - 1)>>)
                   \o (IF pos > Len(src) THEN <<>> ELSE from[pos + 1])
    IN  from[1]

\* A digit as %02X prints it.
HexDigit(d) == IF d < 10 THEN 48 + d ELSE 55 + d

\* %02X prints a char from 128 on as a negative int, FFFFFFxx, and the array of
\* four has room for its first two digits.
EncodeChar(c, space_to_plus) ==
    IF c \in {Dot, 45, 95, 126} \union Digits \union Upper \union Lower THEN <<c>>
    ELSE IF c = Space /\ space_to_plus THEN <<Plus>>
    ELSE IF c < 128 THEN <<Percent, HexDigit(c \div 16), HexDigit(c % 16)>>
    ELSE <<Percent, HexDigit(15), HexDigit(15)>>

UrlEncode(url, space_to_plus) ==
    FlattenSeq([i \in DOMAIN url |-> EncodeChar(url[i], space_to_plus)])

\* All letters count, not only those up to F.
HEXTOI(c) ==
    CASE c \in Digits -> c - 48
      [] c \in Lower  -> c - 97 + 10
      [] c \in Upper  -> c - 65 + 10
      [] OTHER        -> -1

\* The value of an escape wraps to a char; a percent sign with fewer than two
\* characters behind it stays.
UrlDecode(url, plus_to_space) ==
    LET from[i \in 1 .. Len(url) + 1] ==
          IF i > Len(url) THEN <<>>
          ELSE IF url[i] = Plus /\ plus_to_space THEN <<Space>> \o from[i + 1]
          ELSE IF url[i] = Percent /\ i + 2 <= Len(url)
               THEN <<(HEXTOI(url[i + 1]) * 16 + HEXTOI(url[i + 2])) % 256>> \o from[i + 3]
          ELSE <<url[i]>> \o from[i + 1]
    IN  from[1]

\* From the last dot of the name on, a dot of a directory included.
ExtMime(filename) ==
    LET pos == SelectLastInSeq(filename, LAMBDA c : c = Dot)
        ext == SubSeq(filename, pos, Len(filename))
    IN  IF pos > 0 /\ ext \in DOMAIN Mime THEN Mime[ext] ELSE "application/octet-stream"

\* How deep below the root the first i parts of a path lead as the code counts:
\* every part but ".." is one down, "." as well.
Depth(subdir, i) ==
    2 * Cardinality({j \in 1..i : subdir[j] # <<Dot, Dot>>}) - i

\* A faulty variant: only the end of the path is looked at.
ValidPath_AtEnd(path) ==
    LET subdir == Split(path, Slash) IN Depth(subdir, Len(subdir)) >= 0

ValidPath(path) ==
    LET subdir == Split(path, Slash) IN \A i \in DOMAIN subdir : Depth(subdir, i) >= 0
=============================================================================
