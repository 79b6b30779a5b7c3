----------------------------- MODULE MCSessions -----------------------------
(* Two clients and both listeners, for model-checking Sessions.            *)
EXTENDS Sessions

MCClients == {"a", "b"}
=============================================================================
