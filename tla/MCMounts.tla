------------------------------ MODULE MCMounts ------------------------------
(* Hosts, and a machine with byte counts of 16 bits, for model-checking     *)
(* Mounts and Budget as Rootfs puts them together.                         *)
EXTENDS Rootfs

MCNames ==
  {"dev", "pts", "proc", "sys", "run", "work", "boot", "efi", "mnt", "oldroot", "srv", "old"}

MCWork == <<"run", "work">>

Plain ==
  <<Mount(<<>>, "disk"), Mount(<<"dev">>, "dev"), Mount(<<"dev", "pts">>, "pts"),
    Mount(<<"proc">>, "hostproc"), Mount(<<"run">>, "run")>>

\* An automount and what it mounted, a filesystem below that, and another over
\* both.
Stacked ==
  Plain \o <<Mount(<<"boot">>, "autofs"), Mount(<<"boot">>, "vfat"),
             Mount(<<"boot", "efi">>, "efi"), Mount(<<"mnt">>, "usb")>>

\* A static /dev, and the tmpfs that an aborted run has left.
Leftover ==
  <<Mount(<<>>, "disk"), Mount(<<"proc">>, "hostproc"), Mount(<<"run">>, "run"),
    Mount(MCWork, "oldtmpfs")>>

\* A filesystem over two others, and then another one over a third.
Hiding ==
  <<Mount(<<>>, "disk"), Mount(<<"boot">>, "vfat"), Mount(<<"boot", "efi">>, "efi"),
    Mount(<<"boot">>, "nfs"), Mount(<<"dev", "pts">>, "pts"), Mount(<<"dev">>, "dev")>>

MCHostTables == {Plain, Stacked, Leftover, Hiding}

ASSUME HidingAssumption == \A t \in HostTables : HidesOnce(t)

MCMaxUint == 65535
MCMultipliers == {1, 1024}

\* Of 30 kB, 3 are a whole tenth; of 39 they are not.
MCMeminfos ==
  [total : {1024 * n : n \in {0, 1, 30, 39}}, free : {3072}, available : {1024 * n : n \in {0, 4, 20, 63}}]

\* 64 kB do not fit, and neither do 65, of which 1 would be left.
MCRequests ==
  [count : {0}, unit : {None}] \union [count : {50, 100, 101}, unit : {Percent}]
    \union [count : {0, 1, 16, 17, 64, 65}, unit : {1024}]

\* Once the tmpfs is mounted nothing depends on its size any more, or changes it.
Remains == <<vars, IF stage \in {"work", "unshare"} THEN bvars ELSE <<>>>>
=============================================================================
