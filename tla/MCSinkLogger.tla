----------------------------- MODULE MCSinkLogger -----------------------------
(* SinkLogger with buffers that hold two small blocks or a large one, which *)
(* alone makes a buffer more than 0.8 full.                                 *)
EXTENDS SinkLogger, TLC

CONSTANTS small, large

MCBlock == {small, large}
MCBlockSize == (small :> 2) @@ (large :> 5)
=============================================================================
