---------------------------- MODULE MCTerminator ----------------------------
(* A small table of processes for model-checking Terminator.               *)
EXTENDS Terminator

MCPids == {1, 2, 3}
=============================================================================
