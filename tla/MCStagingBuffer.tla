--------------------------- MODULE MCStagingBuffer ---------------------------
(* StagingBuffer on a ring of a few bytes, with entries of several sizes.   *)
EXTENDS StagingBuffer, TLC

CONSTANTS small, medium, large

MCEntry == {small, medium, large}

\* At most half of a 6-byte ring, as TZ_LOG guarantees.
MCEntrySize == (small :> 1) @@ (medium :> 2) @@ (large :> 3)
=============================================================================
