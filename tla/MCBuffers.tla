----------------------------- MODULE MCBuffers -----------------------------
(* A letter and the newline over vectors of at most seven bytes.           *)
EXTENDS Buffers

MCByte == {"a", NewLine}
=============================================================================
