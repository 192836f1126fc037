--------------------------- MODULE MCWireHygiene ---------------------------
(* WireHygiene for TLC: the first two default buckets and the framing of the  *)
(* _pad item, with every length up to beyond the second.                      *)
EXTENDS WireHygiene

FirstBuckets == {4096, 16384}

\* The header of an empty _pad item without its digit, and two newlines.
PadFraming == 93
=============================================================================
