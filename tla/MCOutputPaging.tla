--------------------------- MODULE MCOutputPaging ---------------------------
(* A paging client, for TLC: chunks of up to four bytes over two values.     *)
EXTENDS OutputPaging
MCBytes == {0, 1}
MCChunks == UNION {[1..n -> MCBytes] : n \in 0..4}
=============================================================================
