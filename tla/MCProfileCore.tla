--------------------------- MODULE MCProfileCore ---------------------------
(* The main thread, one that comes and goes, and one dump thread. *)
EXTENDS ProfileCore

CONSTANTS main, t1, async, master

MCThread == {main, t1}
MCDumper == {async}
=============================================================================
