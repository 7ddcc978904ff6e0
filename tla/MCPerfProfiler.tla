--------------------------- MODULE MCPerfProfiler ----------------------------
(* The main thread and one that comes and goes, and the dump thread. *)
EXTENDS PerfProfiler

CONSTANTS main, t1

MCThread == {main, t1}
=============================================================================
