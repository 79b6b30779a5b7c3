----------------------------- MODULE MCWatchdog -----------------------------
(* Limits of a driver for model-checking Watchdog.                         *)
EXTENDS Watchdog

\* One that is far below the timeout and one that is above it.
MCDefaults == {4, 15}
=============================================================================
