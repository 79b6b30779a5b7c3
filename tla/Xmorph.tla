------------------------------- MODULE Xmorph -------------------------------
(***************************************************************************)
(* The whole way of a machine through xmorph: Pivot up to the exec, then    *)
(* Supervisor in the same process, over one watchdog device, until the      *)
(* machine restarts and the operator may pivot again.                       *)
(***************************************************************************)
EXTENDS Pivot

CONSTANTS
  Confs,    \* the init configurations a pivot may stage
  SigCap    \* capacity of the supervisor's signal channel

VARIABLES spc, conf, disp, sigCh, child, deaf, heir, waited, petting, died

S == INSTANCE Supervisor

own == <<spc, conf, disp, sigCh, child, deaf, heir, waited, petting, died>>
xvars == <<vars, own>>

\* What buildPostpivotConfig stages for the flags and one of the entrypoints.
\* The log to tee into may turn out not to open.
Staged == { c \in Confs : /\ c["watchdog"] = cfg["watchdog"]
                          /\ c["tailscale"] = cfg["tailscale"]
                          /\ c["tee"] => cfg["logPersist"] }

PivotStep ==
  /\ pc # "supervisor"
  /\ Stage \/ Unwind \/ Environment
  /\ IF pc' = "supervisor" THEN \E c \in Staged : S!Exec(c) ELSE UNCHANGED own

\* A restart takes the old process's state with it.
SupervisorStep ==
  /\ pc = "supervisor"
  /\ S!Next
  /\ IF spc' = "restarted"
       THEN Restart
       ELSE UNCHANGED <<pc, process, history, machine, workdir>>

XInit ==
  /\ Init
  /\ spc = "off" /\ conf = [f \in S!Fields |-> FALSE] /\ disp = S!Inherited /\ sigCh = <<>>
  /\ child = "none" /\ deaf = {} /\ heir = FALSE /\ waited = FALSE
  /\ petting = FALSE /\ died = "none"

XNext == PivotStep \/ SupervisorStep

XSpec == XInit /\ [][XNext]_xvars

\* The kernel's timer, before and after the exec.
TimerExpires == wd # 0 /\ XNext /\ wd' = 0 /\ pc' = "idle" /\ outcome' = "none"

XFairSpec == XSpec /\ WF_xvars(TimerExpires)

----------------------------------------------------------------------------
\* The running OS has lost something to this run, or this process its root.
OldOSTouched == harm # {} \/ root = "ram"

\* In charge of a machine that is not what it was; giving up; neither.
Away ==
  \/ pc = "supervisor" /\ spc \in S!SupervisorStages \ {"deferred"}
  \/ pc \in Stages \ {"unwind"} /\ OldOSTouched
Quitting ==
  \/ pc = "supervisor" /\ spc = "deferred"
  \/ pc = "unwind" /\ OldOSTouched
Lost ==
  \/ pc = "supervisor" /\ spc \notin S!SupervisorStages
  \/ pc = "idle" /\ harm # {}

Place ==
  IF Away THEN "away" ELSE IF Quitting THEN "quitting" ELSE IF Lost THEN "lost" ELSE "home"

D == INSTANCE DeadMan WITH place <- Place, armed <- (wd # 0)

\* The pivot and the supervisor together keep the promise of DeadMan: from the
\* arming before the pivot, through mounts, exec and adoption, to the end of the
\* entrypoint, no step drops the watchdog but an orderly quit, and a machine
\* that is lost with the watchdog armed restarts.
KeepsDeadMan == D!DMSpec
=============================================================================
