----------------------------- MODULE MCDownload -----------------------------
(***************************************************************************)
(* Small instances of Download for TLC: blocks of 2 bytes, ints of 4 bits, *)
(* so that an offset can pass the range of an int, and longs of 6 bits.    *)
(***************************************************************************)
EXTENDS Download

\* An empty file; part of a block; one block; the last block short, and full;
\* longer than an int can say.
Sizes == {0, 1, 2, 3, 4, 11}
AnyNumbers == -8 .. 7
=============================================================================
