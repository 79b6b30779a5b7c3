------------------------------ MODULE MCPivot ------------------------------
(* Command lines for model-checking Pivot.                                 *)
EXTENDS Pivot

Given(flags) == [f \in Flags |-> f \in flags]

\* A plain rescue pivot; everything at once; under systemd; without a tmpfs of
\* its own; and a --log-persist-path that lacks --keep-old-root.
MCConfigs ==
  { Given({"initCoord", "ownTmpfs"}),
    Given(Flags \ {"systemdMode"}),
    Given({"systemdMode", "ownTmpfs", "watchdog"}),
    Given({"initCoord", "watchdog", "keepOldRoot"}),
    Given({"ownTmpfs", "logPersist"}) }
=============================================================================
