----------------------------- MODULE MCAllocPool -----------------------------
(* Instances of AllocPool for TLC. *)
EXTENDS AllocPool

\* Blocks of 960, 1088 and 2112 bytes, and one of 8192, as large as an int of
\* the instance allows, which never fits.
MCRequests == {900, 1000, 2040, 8100}
=============================================================================
