------------------------------ MODULE MCRaydium ------------------------------
(* A small instance of RaydiumClient for TLC: thirteen byte values are     *)
(* enough for every tag, and a u64 of eight of them fits TLC's integers.   *)
EXTENDS RaydiumClient

MCWords == {0, 10, ByteBase + 2, Values(8) - 1}
MCBytes == {0, 10, 12}
=============================================================================
