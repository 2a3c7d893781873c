--------------------------- MODULE MCRuntimeLogger ---------------------------
(* RuntimeLogger with a few threads that log, end and race the shutdown.    *)
EXTENDS RuntimeLogger
=============================================================================
