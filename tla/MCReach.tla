------------------------------ MODULE MCReach ------------------------------
(* Command lines for model-checking Reach.                                 *)
EXTENDS Reach

Line(enable, port, pw, keys, ts, ep, imageEntrypoint, imageCmd, terminal, stderr) ==
  [enable |-> enable, port |-> port, password |-> pw, keys |-> keys,
   tailscale |-> ts # None, server |-> IF ts = "own" THEN "own" ELSE "hosted",
   entrypoint |-> ep, imageEntrypoint |-> imageEntrypoint, imageCmd |-> imageCmd,
   terminal |-> terminal, stderr |-> stderr]

\* Every way to ask for SSH, of an image with a daemon; every way to an
\* entrypoint, with and without a terminal.
MCLines ==
  { Line(e, p, w, k, ts, None, "daemon", None, FALSE, err) :
      e \in Enables, p \in {{}, {0}, {2222}}, w \in {None, "own"}, k \in KeyKinds,
      ts \in {None} \union Servers, err \in Stderrs }
  \union
  { Line("unset", {}, "own", "none", None, ep, ie, ic, t, "console") :
      ep \in Programs \union {None}, ie \in Programs \union {None},
      ic \in Programs \union {None}, t \in BOOLEAN }
=============================================================================
