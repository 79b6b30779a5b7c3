------------------------------- MODULE Rootfs -------------------------------
(***************************************************************************)
(* The way of runPivot (internal/cli/pivot.go) to a tmpfs and through it:   *)
(* Budget decides on its size, and Mounts has the work dir from there on.   *)
(***************************************************************************)
EXTENDS Mounts, Budget

\* A work dir that is not taken as it is.
MakesTmpfs == ~noTmpfs /\ ~IsMountPoint(host)

\* The memory is read in any case; a size is chosen for a tmpfs only, and may be refused.
Size ==
  /\ stage = "work" /\ (step = "read" \/ MakesTmpfs)
  /\ BNext /\ step' # "mounted"
  /\ UNCHANGED vars

\* A tmpfs is mounted when its size has passed.
MountSized ==
  /\ MountWork
  /\ IF MakesTmpfs THEN CheckHeadroom /\ step' = "mounted"
     ELSE step = "size" /\ UNCHANGED bvars

RootfsInit == Init /\ BInit

RootfsNext ==
  \/ Size \/ MountSized
  \/ stage # "work" /\ Next /\ UNCHANGED bvars

RootfsSpec == RootfsInit /\ [][RootfsNext]_<<vars, bvars>>
=============================================================================
