------------------------------- MODULE Mounts -------------------------------
(***************************************************************************)
(* The mounts of a pivot: internal/pivot (tmpfs.go, pivot.go, prepare.go,   *)
(* cleanup.go), in the order in which runPivot of internal/cli/pivot.go,    *)
(* and doReboot at the end, call them.                                      *)
(*                                                                         *)
(* A mount table is a function from numbers to mounts, numbered in the order *)
(* in which they were made: a mount hides what earlier ones have at its path *)
(* and below.  There is the host's table and, once the thread has unshared,  *)
(* its own.                                                                *)
(*                                                                         *)
(* Simplifications: a bind shows the filesystem it was taken from and not   *)
(* which directory of it; no mount outside the old root has a path that     *)
(* begins with the same characters; MNT_FORCE unmounts no more than a       *)
(* second attempt does, as for the filesystems of a disk.                   *)
(***************************************************************************)
EXTENDS Naturals, Sequences, SequencesExt

CONSTANTS
  Names,       \* what directories may be called
  HostTables,  \* mount tables a host may have, in the order of their mounts
  Work         \* --work-dir

VARIABLES
  stage,    \* the next step
  host,     \* the host's mount table
  mine,     \* the thread's, once it has one of its own
  peers,    \* do mounts of the thread propagate to the host?
  owned,    \* has this run mounted the tmpfs?
  busy,     \* filesystems that something still uses when the machine restarts
  todo,     \* of the pass over the old root's mounts: the paths still to unmount
  failed,   \* has one of them failed?
  \* what the run starts from
  shared,   \* is the host's tree shared, as systemd makes it?
  subvol,   \* is the work dir a subvolume, with a device number of its own?
  leader,   \* is the thread the first of its process?
  noTmpfs,  \* --no-rootfs-tmpfs
  keep      \* --keep-old-root: "no", "default" or "other", a path of the operator's

given == <<shared, subvol, leader, noTmpfs, keep>>
pass == <<todo, failed>>
vars == <<stage, host, mine, peers, owned, busy, pass, given>>

Mount(at, fs) == [at |-> at, fs |-> fs]

OldRoot == <<"mnt", "oldroot">>
Kept == <<"srv", "old">>

\* The essentials: where from, where to, bound or fresh.
EssentialMounts ==
  <<[source |-> <<"dev">>, target |-> <<"dev">>, bind |-> TRUE],
    [source |-> <<"proc">>, target |-> <<"proc">>, bind |-> FALSE],
    [source |-> <<"sys">>, target |-> <<"sys">>, bind |-> FALSE],
    [source |-> <<"run">>, target |-> <<"run">>, bind |-> TRUE]>>

EssentialStages == <<"dev", "proc", "sys", "run">>

----------------------------------------------------------------------------
(* Mount tables.                                                           *)

\* The mount that a path leads to: the last one at it or above it.
Covering(t, p) == Max({i \in DOMAIN t : IsPrefix(t[i].at, p)})
FsAt(t, p) == t[Covering(t, p)].fs
Mounted(t, p) == t[Covering(t, p)].at = p
Visible(t, i) == Covering(t, t[i].at) = i

\* What a path leads to and, at the path and below, all that is mounted on it.
Tree(t, p) == {i \in DOMAIN t : i >= Covering(t, p) /\ IsPrefix(p, t[i].at)}

Rest(p, q) == SubSeq(q, Len(p) + 1, Len(q))
Rebase(t, from, to) ==
  [i \in DOMAIN t |-> Mount(to \o Rest(from, t[i].at), t[i].fs)]

\* The mounts of u, made after those of t.
Stack(t, u) ==
  LET top == Max(DOMAIN t)
  IN [i \in DOMAIN t \union {top + k : k \in DOMAIN u} |->
        IF i \in DOMAIN t THEN t[i] ELSE u[i - top]]

Add(t, at, fs) == Stack(t, <<Mount(at, fs)>>)

\* MS_BIND shows what covers the source; with MS_REC also what is mounted below.
Bind(t, source, target) == Add(t, target, FsAt(t, source))

\* Mutant: MS_REC is left out.
RecBindWithoutRec(t, source, target) == Bind(t, source, target)

RecBind(t, source, target) ==
  LET below == {i \in Tree(t, source) : t[i].at # source}
  IN Stack(Bind(t, source, target), Rebase(Restrict(t, below), source, target))

\* umount2: of what a path leads to.  MNT_DETACH takes all that is mounted on it
\* along; without it, that, and anybody who uses it, is in the way.
CanUnmount(t, p, detach, used) ==
  /\ Mounted(t, p)
  /\ detach \/ (FsAt(t, p) \notin used /\ Tree(t, p) = {Covering(t, p)})
Unmount(t, p) == Restrict(t, DOMAIN t \ Tree(t, p))

\* What /proc/self/mounts lists under a path, hidden or not.
Targets(t, p) ==
  [i \in {i \in DOMAIN t : IsPrefix(p, t[i].at)} |-> t[i].at]

----------------------------------------------------------------------------
(* Hosts.                                                                  *)

\* There is one mount at the top, and it is the first.
Rooted(t) ==
  \E r \in DOMAIN t : \A i \in DOMAIN t : r <= i /\ (t[i].at = <<>> <=> i = r)

ASSUME NamesAssumption ==
  {"dev", "proc", "sys", "run", "mnt", "oldroot", "srv", "old"} \subseteq Names

\* A host has its root, no mount yet of the tmpfs that the run will make, and nothing
\* mounted where it will make the directory for the old root.
ASSUME HostTablesAssumption ==
  \A t \in HostTables :
    /\ t \in Seq([at : Seq(Names), fs : STRING])
    /\ Rooted(t)
    /\ \A i \in DOMAIN t : ~IsPrefix(Work \o OldRoot, t[i].at) /\ t[i].fs # "tmpfs"

\* The work dir is not the root, and not in /dev.
ASSUME WorkAssumption ==
  Work \in Seq(Names) /\ Work # <<>> /\ ~IsPrefix(<<"dev">>, Work)

----------------------------------------------------------------------------
(* Actions.                                                                *)

\* Device numbers differ where a mount or a subvolume begins.
Device(t, p) ==
  IF subvol /\ p = Work /\ ~Mounted(t, Work) THEN "subvolume" ELSE FsAt(t, p)
IsMountPoint(t) == Device(t, Work) # Device(t, Front(Work))

MountWork ==
  /\ stage = "work"
  /\ stage' = "unshare"
  /\ IF noTmpfs \/ IsMountPoint(host) THEN UNCHANGED <<host, owned>>
     ELSE host' = Add(host, Work, "tmpfs") /\ owned' = TRUE
  /\ UNCHANGED <<mine, peers, busy, pass, given>>

Unshare ==
  /\ stage = "unshare"
  /\ stage' = "private"
  /\ mine' = host
  /\ peers' = shared
  /\ UNCHANGED <<host, owned, busy, pass, given>>

\* A mount of the thread's, and of the host's where it propagates.
Makes(t) ==
  /\ mine' = t
  /\ host' = IF peers THEN t ELSE host

\* Mutant: the new namespace is not made private.
MakePrivateForgotten ==
  /\ stage = "private"
  /\ stage' = "bind"
  /\ UNCHANGED <<host, mine, peers, owned, busy, pass, given>>

MakePrivate ==
  /\ stage = "private"
  /\ stage' = "bind"
  /\ peers' = FALSE
  /\ UNCHANGED <<host, mine, owned, busy, pass, given>>

\* Prepare: what is no mount is bound onto itself.
EnsureMountPoint ==
  /\ stage = "bind"
  /\ stage' = "newroot"
  /\ IF IsMountPoint(mine) THEN UNCHANGED <<mine, host>> ELSE Makes(Bind(mine, Work, Work))
  /\ UNCHANGED <<peers, owned, busy, pass, given>>

\* MakePrivate of the new root, which has to be a mount.
NewRootPrivate ==
  /\ stage = "newroot"
  /\ Mounted(mine, Work)
  /\ stage' = EssentialStages[1]
  /\ UNCHANGED <<host, mine, peers, owned, busy, pass, given>>

\* SetupEssentials, one turn of its loop; only /run may be missing.
MountEssential(k) ==
  /\ stage = EssentialStages[k]
  /\ stage' = IF k = Len(EssentialStages) THEN "pivot" ELSE EssentialStages[k + 1]
  /\ LET m == EssentialMounts[k]
         target == Work \o m.target
     IN IF m.bind
        THEN \/ Makes(RecBind(mine, m.source, target))
             \/ EssentialStages[k] = "run" /\ UNCHANGED <<mine, host>>
        ELSE Makes(Add(mine, target, EssentialStages[k]))
  /\ UNCHANGED <<peers, owned, busy, pass, given>>

\* pivot_root: the new root's tree moves to the top, everything else below OldRoot.
Pivoted(t) ==
  Stack(Rebase(Restrict(t, Tree(t, Work)), Work, <<>>),
        Rebase(Restrict(t, DOMAIN t \ Tree(t, Work)), <<>>, OldRoot))

PivotRoot ==
  /\ stage = "pivot"
  /\ Mounted(mine, Work)
  /\ stage' = "cleanup"
  /\ mine' = Pivoted(mine)
  /\ peers' = FALSE
  /\ UNCHANGED <<host, owned, busy, pass, given>>

\* unmountUnder, one turn of its loop: the longest path first, of which matters that a
\* path comes after those below it; a failure is counted.
\* Mutant: the shortest path first.
ShallowestFirst(i) == \A j \in DOMAIN todo : ~IsStrictPrefix(todo[j], todo[i])
DeepestFirst(i) == \A j \in DOMAIN todo : ~IsStrictPrefix(todo[i], todo[j])

UnmountNext(detach, used) ==
  \E i \in DOMAIN todo :
    /\ DeepestFirst(i)
    /\ todo' = Restrict(todo, DOMAIN todo \ {i})
    /\ IF CanUnmount(mine, todo[i], detach, used)
       THEN mine' = Unmount(mine, todo[i]) /\ UNCHANGED failed
       ELSE failed' = TRUE /\ UNCHANGED mine

\* CleanupOldRoot.  /proc/self is the process, that is its first thread, which has
\* stayed in the host's namespace.
Cleanup ==
  /\ stage = "cleanup"
  /\ IF keep = "no"
     THEN stage' = "detach" /\ todo' = Targets(IF leader THEN mine ELSE host, OldRoot)
     ELSE stage' = "exec" /\ UNCHANGED todo
  /\ UNCHANGED <<host, mine, peers, owned, busy, failed, given>>

\* Mutant: ordinary unmounts, while processes of the old OS hold their root.
DetachOrdinarily ==
  /\ stage = "detach"
  /\ UnmountNext(FALSE, {host[1].fs})
  /\ UNCHANGED <<stage, host, peers, owned, busy, given>>

Detach ==
  /\ stage = "detach"
  /\ UnmountNext(TRUE, {})
  /\ UNCHANGED <<stage, host, peers, owned, busy, given>>

Detached ==
  /\ stage = "detach" /\ todo = <<>>
  /\ stage' = "exec" /\ failed' = FALSE
  /\ UNCHANGED <<host, mine, peers, owned, busy, todo, given>>

\* The thread that calls exec becomes the process.
Exec ==
  /\ stage = "exec"
  /\ stage' = "init"
  /\ UNCHANGED <<host, mine, peers, owned, busy, pass, given>>

\* doReboot: UnmountOldRoot where the old root was asked to be; what is busy is not
\* known before.
KeptAt == IF keep = "default" THEN OldRoot ELSE Kept

Reboot ==
  /\ stage = "init"
  /\ busy' \in {{}} \union {{mine[i].fs} : i \in DOMAIN mine}
  /\ IF keep = "no" THEN stage' = "restarted" /\ UNCHANGED todo
     ELSE stage' = "unmount" /\ todo' = Targets(mine, KeptAt)
  /\ UNCHANGED <<host, mine, peers, owned, failed, given>>

UnmountKept ==
  /\ stage \in {"unmount", "force"}
  /\ UnmountNext(FALSE, busy)
  /\ UNCHANGED <<stage, host, peers, owned, busy, given>>

\* Once more, with MNT_FORCE, when one has failed.
Unmounted ==
  /\ stage \in {"unmount", "force"} /\ todo = <<>>
  /\ IF stage = "unmount" /\ failed THEN stage' = "force" /\ todo' = Targets(mine, KeptAt)
     ELSE stage' = "restarted" /\ UNCHANGED todo
  /\ UNCHANGED <<host, mine, peers, owned, busy, failed, given>>

\* A step fails and runPivot returns: UnmountTmpfs, in the namespace the thread is in
\* by then, which is the host's as long as it has not unshared.
Abort ==
  /\ stage \in {"unshare", "private", "bind", "newroot", "pivot", "exec"}
               \union {EssentialStages[k] : k \in DOMAIN EssentialStages}
  /\ stage' = "aborted"
  /\ mine' = IF owned /\ stage # "unshare" /\ CanUnmount(mine, Work, TRUE, {})
             THEN Unmount(mine, Work) ELSE mine
  /\ host' = IF owned /\ (peers \/ stage = "unshare") THEN Unmount(host, Work) ELSE host
  /\ UNCHANGED <<peers, owned, busy, pass, given>>

Init ==
  /\ stage = "work" /\ host \in HostTables /\ mine = <<>> /\ peers = FALSE
  /\ owned = FALSE /\ busy = {} /\ todo = <<>> /\ failed = FALSE
  /\ shared \in BOOLEAN /\ subvol \in BOOLEAN /\ leader \in BOOLEAN /\ noTmpfs \in BOOLEAN
  /\ keep \in {"no", "default", "other"}

Next ==
  \/ MountWork \/ Unshare \/ MakePrivate \/ EnsureMountPoint \/ NewRootPrivate
  \/ \E k \in DOMAIN EssentialMounts : MountEssential(k)
  \/ PivotRoot \/ Cleanup \/ Detach \/ Detached \/ Exec
  \/ Reboot \/ UnmountKept \/ Unmounted \/ Abort

Spec == Init /\ [][Next]_vars

----------------------------------------------------------------------------
(* Properties.                                                             *)

PivotedStages == {"cleanup", "detach", "exec", "init", "unmount", "force", "restarted"}

TypeOK ==
  /\ stage \in {"work", "unshare", "private", "bind", "newroot", "dev", "proc", "sys",
                "run", "pivot", "aborted"} \union PivotedStages
  /\ \A t \in {host, mine} : \A i \in DOMAIN t : t[i].at \in Seq(Names)
  /\ host # <<>> /\ (mine # <<>> => Rooted(mine))
  /\ mine = <<>> => stage \in {"work", "unshare", "aborted"}
  /\ peers \in BOOLEAN /\ owned \in BOOLEAN

\* The pivoted system has its own /proc and /sys, and at /dev and below it the
\* filesystems that the host has there, whatever was mounted over the work dir
\* before, and nothing hides them; to the end.
EssentialsVisible ==
  stage \in PivotedStages =>
    /\ \A k \in 1..3 : Mounted(mine, EssentialMounts[k].target)
    /\ FsAt(mine, <<"proc">>) = "proc" /\ FsAt(mine, <<"sys">>) = "sys"
    /\ FsAt(mine, <<"dev">>) = FsAt(host, <<"dev">>)
    /\ \A i \in DOMAIN host :
         IsPrefix(<<"dev">>, host[i].at) /\ Visible(host, i)
           => FsAt(mine, host[i].at) = host[i].fs

\* Other processes' mounts stay as they are from the moment the thread has a
\* table of its own, on the way to a pivot and on the way back.
HostUntouched == [][stage \notin {"work", "unshare", "private"} => host' = host]_vars

\* Unless it is kept, nothing of the old root stays mounted under the new system,
\* provided that the thread that pivots is the first.
OldRootGone ==
  stage \in {"exec", "init"} /\ keep = "no" /\ leader =>
    \A i \in DOMAIN mine : ~IsPrefix(OldRoot, mine[i].at)

\* Of some mounts none hides another one below it.
NoneHides(t, S) == \A i, j \in S : IsStrictPrefix(t[i].at, t[j].at) => i < j

\* Some mounts in two layers, an upper one over the rest, in each of which none hides
\* another: what comes after a mount of the upper one, above, at or below its path, is
\* in the upper one too.
Layered(t, S, upper) ==
  /\ upper \subseteq S /\ NoneHides(t, upper) /\ NoneHides(t, S \ upper)
  /\ \A i \in upper, j \in S :
       i < j /\ (IsPrefix(t[i].at, t[j].at) \/ IsPrefix(t[j].at, t[i].at)) => j \in upper

\* Two layers are enough.
HidesOnce(t) == \E upper \in SUBSET DOMAIN t : Layered(t, DOMAIN t, upper)

\* The old root is closed before the machine restarts if nothing uses it.
OldRootClosed ==
  stage = "restarted" /\ keep = "default" /\ busy = {} =>
    \A i \in DOMAIN mine : ~IsPrefix(OldRoot, mine[i].at)
=============================================================================
