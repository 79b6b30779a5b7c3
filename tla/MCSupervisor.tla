---------------------------- MODULE MCSupervisor ----------------------------
(* Init configurations for model-checking Supervisor: all of them.         *)
EXTENDS Supervisor

MCConfs == [Fields -> BOOLEAN]
=============================================================================
