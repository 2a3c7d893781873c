----------------------------- MODULE MCOutbufArg -----------------------------
(* Two characters and the terminator; blocks and paddings on both sides of  *)
(* what fits and of what is copied at once.                                 *)
EXTENDS OutbufArg

CONSTANTS a, b

MCChar   == {a, b, NUL}
MCBlocks == {<<>>, <<a, b>>, <<b, b, a>>}
MCPaddings == {-1, 0, 1, 3, 5}
==============================================================================
