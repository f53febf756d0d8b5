----------------------------- MODULE MCProcStats -----------------------------
(* Tool names: a plain one, and one with a space (as a tool path may be). *)
EXTENDS ProcStats

MCComms == {<<99>>, <<99, 32, 100>>}   \* "c" and "c d"
=============================================================================
