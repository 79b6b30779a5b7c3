------------------------------ MODULE MCXmorph ------------------------------
(* Command lines and staged configurations for model-checking Xmorph.      *)
EXTENDS Xmorph

Given(flags) == [f \in Flags |-> f \in flags]

\* Everything at once; a plain pivot with a watchdog; one driven by systemd.
MCConfigs ==
  { Given(Flags \ {"systemdMode"}),
    Given({"initCoord", "watchdog"}),
    Given({"systemdMode", "ownTmpfs"}) }

MCConfs == [{"watchdog", "tailscale", "tee", "idle"} -> BOOLEAN]
=============================================================================
