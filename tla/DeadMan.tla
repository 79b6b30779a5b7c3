------------------------------ MODULE DeadMan ------------------------------
(***************************************************************************)
(* What an armed watchdog promises the owner of the machine, whatever       *)
(* program holds it: from the moment it is armed on the way out of the old  *)
(* OS it stays armed until the program quits in an orderly way, and if the  *)
(* program ends in any other way the machine comes home.                    *)
(***************************************************************************)
EXTENDS Naturals

VARIABLES
  place,  \* "home": the OS on disk is whole; "away": the program has taken
          \* something from it, or left it; "quitting": it is giving up;
          \* "lost": the old OS is not whole and nobody is in charge
  armed   \* does the watchdog tick?

dmvars == <<place, armed>>

DMInit == place = "home" /\ armed = FALSE

\* At home a check may arm and disarm, and a crash may leave a timer behind.
Tinker == place = "home" /\ armed' \in BOOLEAN /\ UNCHANGED place

\* Leaving the old OS may fail in the same step.
Leave == place = "home" /\ place' \in {"away", "quitting"} /\ UNCHANGED armed

Arm == place = "away" /\ armed' = TRUE /\ UNCHANGED place

\* An orderly end, announced before the watchdog is touched.
Quit == place = "away" /\ place' = "quitting" /\ UNCHANGED armed
Finish ==
  /\ place = "quitting"
  /\ armed' \in {armed, FALSE}
  /\ place' \in {"quitting", "home", "lost"}

\* A disorderly one.
Die == place \in {"away", "quitting"} /\ place' \in {"home", "lost"} /\ UNCHANGED armed

\* The owner takes charge of a damaged OS again.
Recover == place = "lost" /\ place' = "home" /\ UNCHANGED armed

\* The machine restarts into the OS on disk.
Return ==
  /\ armed \/ place = "away"
  /\ place' = "home"
  /\ armed' = FALSE

DMNext == Tinker \/ Leave \/ Arm \/ Quit \/ Finish \/ Die \/ Recover \/ Return

DMSafe == DMInit /\ [][DMNext]_dmvars
DMSpec == DMSafe /\ WF_dmvars(place = "lost" /\ Return)
=============================================================================
