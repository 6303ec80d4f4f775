----------------------------- MODULE MCSession ------------------------------
(* Session for TLC: two files, which do not fit one session together.       *)
EXTENDS Session

MCSize == [f \in Files |-> IF f = 2 THEN 2 ELSE 1]

\* protocol.rs: the limits as they are, in bytes.  What an honest peer can
\* send in one session: every frame at its limit, and for each transfer a
\* header with the longest path and collection name.
HeaderBytes == 5
LongestRequest == 4 + 255 + 4 + 4096 + 32
LongestHeader == 4 + 255 + 4 + 4096 + 128
ASSUME ConnectionHoldsASession ==
    (HeaderBytes + 64 * 1024) + (HeaderBytes + 2 * 1024 * 1024)
      + (HeaderBytes + 8 * 1024 * 1024) + (HeaderBytes + 4 + 1024 * LongestRequest)
      + 1024 * (HeaderBytes + LongestHeader) + 192 * 1024 * 1024 + HeaderBytes
      <= 256 * 1024 * 1024

=============================================================================
