---------------------------- MODULE Mounts_proofs ----------------------------
(***************************************************************************)
(* Proofs about the tmpfs of the new root: how large it may be (Budget), for *)
(* every size of memory; and about the mounts (Mounts), for every table a   *)
(* host may have: no mount of the pivot reaches the host, the pivoted system *)
(* has its essentials, and the old root is let go, or closed in the end.    *)
(***************************************************************************)
EXTENDS Rootfs, WellFoundedInduction, TLAPS

----------------------------------------------------------------------------
(* The size of the tmpfs.                                                  *)

\* In its width a number is itself.
LEMMA Fits ==
  ASSUME NEW n \in Bytes
  PROVE  n % (MaxUint + 1) = n
<1>1. MaxUint \in Nat
  BY BudgetAssumption
<1>2. ASSUME NEW d \in Nat, NEW k \in Nat, k < d PROVE k % d = k
  BY <1>2
<1> QED
  BY <1>1, <1>2 DEF Bytes

\* A number wraps when a division says so.
LEMMA DivisionTells ==
  ASSUME NEW m \in Nat, NEW d \in Nat \ {0}, NEW n \in Nat
  PROVE  n > m \div d <=> n * d > m
<1> DEFINE q == m \div d
<1>1. q \in Nat /\ q * d <= m /\ m < q * d + d
  OBVIOUS
<1> HIDE DEF q
<1>2. ASSUME n > q PROVE n * d > m
  <2>1. n >= q + 1 /\ n - (q + 1) \in Nat
    BY <1>1, <1>2
  <2>2. (n - (q + 1)) * d >= 0
    BY <2>1
  <2>3. (n - (q + 1)) * d = n * d - q * d - d
    BY <1>1
  <2>4. n * d \in Int /\ q * d \in Int
    BY <1>1
  <2> QED
    BY <1>1, <2>2, <2>3, <2>4
<1>3. ASSUME n <= q PROVE n * d <= m
  <2>1. q - n \in Nat
    BY <1>1, <1>3
  <2>2. (q - n) * d >= 0
    BY <2>1
  <2>3. (q - n) * d = q * d - n * d
    BY <1>1
  <2>4. n * d \in Int /\ q * d \in Int
    BY <1>1
  <2> QED
    BY <1>1, <2>2, <2>3, <2>4
<1>4. n * d \in Int
  OBVIOUS
<1> QED
  BY <1>1, <1>2, <1>3, <1>4 DEF q

\* A product that is not refused is what was asked for.
LEMMA SizeFits ==
  ASSUME NEW n \in Nat, NEW mult \in Multipliers
  PROVE  /\ Overflows(n, mult) <=> n * mult > MaxUint
         /\ ~Overflows(n, mult) => Times(n, mult) = n * mult /\ Times(n, mult) \in Bytes
<1>1. MaxUint \in Nat /\ mult \in Nat \ {0} /\ n * mult \in Nat
  BY BudgetAssumption
<1>2. Overflows(n, mult) <=> n * mult > MaxUint
  BY <1>1, DivisionTells DEF Overflows
<1>3. ASSUME n * mult <= MaxUint PROVE Times(n, mult) = n * mult /\ Times(n, mult) \in Bytes
  <2>1. n * mult \in Bytes
    BY <1>1, <1>3 DEF Bytes
  <2> QED
    BY <2>1, Fits DEF Times
<1> QED
  BY <1>1, <1>2, <1>3

\* The memory is that of a machine, once it has been read.
Machine == step \in {"read", "unread"} \/ mem.total >= 1024

\* With what the steps have left in bytes.
Decided ==
  /\ step \in {"check", "mounted", "refused"} /\ asked.unit = None =>
       bytes = IF mem.available <= ReserveBytes(mem) THEN 0
               ELSE mem.available - ReserveBytes(mem)
  /\ step \in {"check", "mounted"} /\ asked.unit \in Multipliers => bytes = asked.count * asked.unit
  /\ step = "mounted" => bytes # 0 /\ ~Insufficient(mem, bytes)
  /\ step = "refused" /\ asked.unit = None => bytes = 0 \/ Insufficient(mem, bytes)

BInv == BTypeOK /\ Machine /\ Decided

\* What HeadroomCheck takes to be left is the difference, and no less than nothing.
LEMMA HeadroomIs ==
  ASSUME NEW m \in Memory, NEW n \in Bytes
  PROVE  /\ Headroom(m, n) = IF m.available > n THEN m.available - n ELSE 0
         /\ ReserveBytes(m) \in Bytes
         /\ m.available > ReserveBytes(m) =>
              RecommendRootfsBytes(m) = m.available - ReserveBytes(m)
         /\ RecommendRootfsBytes(m) \in Bytes
<1>1. /\ m.available \in Bytes /\ m.total \in Bytes /\ MaxUint \in Nat
      /\ \A k \in Bytes : k \in Nat /\ k <= MaxUint
  BY BudgetAssumption DEF Memory, Bytes
<1>2. ReserveBytes(m) \in Bytes
  <2>1. \A k \in Nat : k \div 10 \in Nat /\ k \div 10 <= k
    OBVIOUS
  <2> QED
    BY <1>1, <2>1 DEF ReserveBytes, Bytes
<1>3. ASSUME NEW a \in Bytes, NEW b \in Bytes, a >= b
      PROVE  Minus(a, b) = a - b /\ a - b \in Bytes
  <2>1. a - b \in Bytes
    BY <1>1, <1>3 DEF Bytes
  <2> QED
    BY <2>1, Fits DEF Minus
<1>4. m.available > n => Minus(m.available, n) = m.available - n
  BY <1>1, <1>3
<1>5. m.available > ReserveBytes(m) =>
        /\ Minus(m.available, ReserveBytes(m)) = m.available - ReserveBytes(m)
        /\ m.available - ReserveBytes(m) \in Bytes
  BY <1>1, <1>2, <1>3
<1>6. 0 \in Bytes
  BY <1>1 DEF Bytes
<1> QED
  BY <1>1, <1>2, <1>4, <1>5, <1>6 DEF Headroom, RecommendRootfsBytes

\* The size that was asked for, or recommended, is a byte count.
LEMMA NextBudget ==
  ASSUME BInv, [BNext]_bvars
  PROVE  BInv'
<1> USE DEF BInv, BTypeOK, Machine, Decided
<1>1. CASE ReadMemory
  <2>1. PICK m \in Meminfos :
          /\ step' = IF m.total = 0 THEN "unread" ELSE "size"
          /\ mem' = IF m.available = 0 THEN [m EXCEPT !.available = m.free] ELSE m
    BY <1>1 DEF ReadMemory
  <2>2. m \in Memory /\ (m.total = 0 \/ m.total >= 1024) /\ asked' = asked /\ bytes' = bytes
    BY <1>1, BudgetAssumption DEF ReadMemory
  <2>3. mem' \in Memory /\ mem'.total = m.total
    BY <2>1, <2>2 DEF Memory
  <2> QED
    BY <2>1, <2>2, <2>3
<1>2. CASE ChooseSize
  <2>1. /\ step = "size" /\ asked' = asked /\ mem' = mem
        /\ \/ asked.unit = None /\ step' = "check" /\ bytes' = RecommendRootfsBytes(mem)
           \/ asked.unit # None /\ Refuses(asked) /\ step' = "refused" /\ bytes' = bytes
           \/ /\ asked.unit # None /\ ~Refuses(asked) /\ step' = "check"
              /\ bytes' = ParseSize(asked, mem.total)
    BY <1>2, Zenon DEF ChooseSize
  <2>2. /\ asked.count \in Bytes /\ asked.unit \in Multipliers \union {None, Percent}
        /\ MaxUint \in Nat /\ mem.total \in Bytes /\ \A k \in Bytes : k \in Nat /\ k <= MaxUint
        /\ Multipliers \subseteq Nat \ {0}
    BY BudgetAssumption DEF Bytes, Memory
  <2>3. None # Percent /\ None \notin Multipliers /\ Percent \notin Multipliers
    BY <2>2 DEF None, Percent
  <2>4. CASE asked.unit = None /\ step' = "check" /\ bytes' = RecommendRootfsBytes(mem)
    <3>1. /\ RecommendRootfsBytes(mem) \in Bytes
          /\ mem.available > ReserveBytes(mem) =>
               RecommendRootfsBytes(mem) = mem.available - ReserveBytes(mem)
      BY <2>2, HeadroomIs
    <3>2. ReserveBytes(mem) \in Nat /\ mem.available \in Nat
      BY <2>2, HeadroomIs DEF Memory
    <3>3. bytes' = IF mem.available <= ReserveBytes(mem) THEN 0
                   ELSE mem.available - ReserveBytes(mem)
      BY <2>4, <3>1, <3>2 DEF RecommendRootfsBytes
    <3>4. ReserveBytes(mem)' = ReserveBytes(mem)
      BY <2>1 DEF ReserveBytes
    <3> QED
      BY <2>1, <2>3, <2>4, <3>1, <3>3, <3>4
  <2>5. CASE step' = "refused" /\ bytes' = bytes /\ asked.unit # None
    BY <2>1, <2>5
  <2>6. CASE asked.unit # None /\ ~Refuses(asked) /\ step' = "check" /\ bytes' = ParseSize(asked, mem.total)
    <3>1. CASE asked.unit = Percent
      <4>1. bytes' = (mem.total * asked.count) \div 100 /\ asked.count <= 100
        BY <2>2, <2>6, <3>1 DEF ParseSize, Refuses
      <4>2. ASSUME NEW t \in Nat, NEW c \in Nat, c <= 100
            PROVE  (t * c) \div 100 \in Nat /\ (t * c) \div 100 <= t
        <5>1. t * c \in Nat /\ t * (100 - c) \in Nat /\ t * (100 - c) = 100 * t - t * c
          BY <4>2
        <5>2. PICK p : p = t * c
          OBVIOUS
        <5>3. p \in Nat /\ p <= 100 * t
          BY <5>1, <5>2
        <5>4. p \div 100 \in Nat /\ p \div 100 <= t
          BY <5>3
        <5> QED
          BY <5>2, <5>4
      <4>3. bytes' \in Bytes
        BY <2>2, <4>1, <4>2 DEF Bytes
      <4> QED
        BY <2>1, <2>3, <2>6, <3>1, <4>3
    <3>2. CASE asked.unit \in Multipliers
      <4>1. bytes' = Times(asked.count, asked.unit) /\ ~Overflows(asked.count, asked.unit)
        BY <2>3, <2>6, <3>2 DEF ParseSize, Refuses
      <4>2. bytes' = asked.count * asked.unit /\ bytes' \in Bytes
        BY <2>2, <3>2, <4>1, SizeFits
      <4> QED
        BY <2>1, <2>3, <2>6, <3>2, <4>2
    <3> QED
      BY <2>2, <2>6, <3>1, <3>2
  <2> QED
    BY <2>1, <2>4, <2>5, <2>6
<1>3. CASE CheckHeadroom
  BY <1>3 DEF CheckHeadroom, ReserveBytes, Insufficient, Headroom, Minus
<1>4. CASE UNCHANGED bvars
  BY <1>4 DEF bvars, ReserveBytes, Insufficient, Headroom, Minus
<1> QED
  BY <1>1, <1>2, <1>3, <1>4 DEF BNext

LEMMA InitBudget == BInit => BInv
<1>1. 0 \in Bytes
  BY BudgetAssumption DEF Bytes
<1> QED
  BY <1>1 DEF BInit, BInv, BTypeOK, Machine, Decided, Memory

\* What the steps know about the sizes, in numbers that do not wrap.
LEMMA HeadroomLeft ==
  ASSUME BInv, step \in {"check", "mounted", "refused"}
  PROVE  /\ mem.available \in Nat /\ ReserveBytes(mem) \in Nat \ {0} /\ bytes \in Nat
         /\ Insufficient(mem, bytes) <=> bytes + ReserveBytes(mem) > mem.available
<1>1. mem \in Memory /\ bytes \in Bytes /\ mem.total >= 1024
  BY DEF BInv, BTypeOK, Machine
<1>2. Headroom(mem, bytes) = IF mem.available > bytes THEN mem.available - bytes ELSE 0
  BY <1>1, HeadroomIs
<1>3. mem.available \in Nat /\ mem.total \in Nat /\ bytes \in Nat
  BY <1>1, BudgetAssumption DEF Memory, Bytes
<1>4. ReserveBytes(mem) \in Nat \ {0} /\ ReserveBytes(mem) = mem.total \div 10
  BY <1>1, <1>3 DEF ReserveBytes
<1> QED
  BY <1>2, <1>3, <1>4 DEF Insufficient

\* No byte count leaves its width, on the way from /proc/meminfo and --rootfs-size to
\* the tmpfs.
THEOREM BudgetTypeOK == BSpec => []BTypeOK
<1>1. BInv => BTypeOK
  BY DEF BInv
<1> QED
  BY <1>1, InitBudget, NextBudget, PTL DEF BSpec

\* A tmpfs that is mounted leaves a tenth of the machine's memory unused, whether
\* its size was asked for or recommended (HeadroomCheck).
THEOREM MountedLeavesReserve == BSpec => []ReserveLeft
<1>1. BInv => ReserveLeft
  <2> SUFFICES ASSUME BInv, step = "mounted"
               PROVE  bytes + ReserveBytes(mem) <= mem.available
    BY DEF ReserveLeft
  <2>1. ~Insufficient(mem, bytes)
    BY DEF BInv, Decided
  <2> QED
    BY <2>1, HeadroomLeft
<1> QED
  BY <1>1, InitBudget, NextBudget, PTL DEF BSpec

\* The size that is recommended passes the check that follows it: the run never
\* refuses its own recommendation, except for want of any memory at all
\* (ReserveBytes, RecommendRootfsBytes).
THEOREM RecommendedIsAccepted == BSpec => []RecommendedAccepted
<1>1. BInv => RecommendedAccepted
  <2> SUFFICES ASSUME BInv, step = "refused", asked.unit = None, mem.available > ReserveBytes(mem)
               PROVE  FALSE
    <3>1. BInv /\ step = "refused" => mem.available \in Nat /\ ReserveBytes(mem) \in Nat
      BY HeadroomLeft
    <3> QED
      BY <3>1 DEF RecommendedAccepted
  <2>1. mem.available \in Nat /\ ReserveBytes(mem) \in Nat \ {0}
    BY HeadroomLeft
  <2>2. bytes = mem.available - ReserveBytes(mem)
    BY <2>1 DEF BInv, Decided
  <2>3. bytes = 0 \/ Insufficient(mem, bytes)
    BY DEF BInv, Decided
  <2> QED
    BY <2>1, <2>2, <2>3, HeadroomLeft
<1> QED
  BY <1>1, InitBudget, NextBudget, PTL DEF BSpec

\* Nothing larger than what is recommended is ever mounted: the recommendation is
\* the most the check lets through.
THEOREM RecommendedIsMost == BSpec => [](step = "mounted" => bytes <= RecommendRootfsBytes(mem))
<1>1. BInv => (step = "mounted" => bytes <= RecommendRootfsBytes(mem))
  <2> SUFFICES ASSUME BInv, step = "mounted"
               PROVE  bytes <= RecommendRootfsBytes(mem)
    OBVIOUS
  <2>1. /\ mem.available \in Nat /\ ReserveBytes(mem) \in Nat \ {0} /\ bytes \in Nat
        /\ bytes + ReserveBytes(mem) <= mem.available /\ bytes # 0
    BY HeadroomLeft DEF BInv, Decided
  <2>2. mem \in Memory /\ bytes \in Bytes
    BY DEF BInv, BTypeOK
  <2>3. RecommendRootfsBytes(mem) = mem.available - ReserveBytes(mem)
    BY <2>1, <2>2, HeadroomIs
  <2> QED
    BY <2>1, <2>3
<1> QED
  BY <1>1, InitBudget, NextBudget, PTL DEF BSpec

\* A size is mounted as it was asked for: ParseSize refuses it exactly when the product
\* does not fit, for every suffix and whatever the width.
THEOREM SizesDoNotWrap == BSpec => []SizeAsAsked
<1>1. BInv => SizeAsAsked
  BY DEF BInv, Decided, SizeAsAsked
<1> QED
  BY <1>1, InitBudget, NextBudget, PTL DEF BSpec

\* All of it together: the check of runPivot and the sizes it is given agree.
THEOREM SizeAlwaysHolds == BSpec => []SizeHolds
  BY MountedLeavesReserve, RecommendedIsAccepted, SizesDoNotWrap, PTL DEF SizeHolds

\* What runPivot makes of both is a behaviour of each, so that every theorem about
\* Mounts and about Budget is about their composition too.
THEOREM RootfsIsBoth == RootfsSpec => Spec /\ BSpec
<1>1. RootfsInit => Init /\ BInit
  BY DEF RootfsInit
<1>2. [RootfsNext]_<<vars, bvars>> => [Next]_vars /\ [BNext]_bvars
  <2> SUFFICES ASSUME [RootfsNext]_<<vars, bvars>> PROVE [Next]_vars /\ [BNext]_bvars
    OBVIOUS
  <2>1. CASE Size
    BY <2>1 DEF Size
  <2>2. CASE MountSized
    BY <2>2 DEF MountSized, BNext, Next
  <2>3. CASE Next /\ UNCHANGED bvars
    BY <2>3
  <2>4. CASE UNCHANGED <<vars, bvars>>
    BY <2>4
  <2> QED
    BY <2>1, <2>2, <2>3, <2>4 DEF RootfsNext
<1> QED
  BY <1>1, <1>2, PTL DEF RootfsSpec, Spec, BSpec

----------------------------------------------------------------------------
(* The host's mounts.                                                      *)

\* Stages in which mounts of the run may reach the host, and the one after which
\* there are no more.
Early == {"work", "unshare", "private"}

\* Once the new namespace is private, it stays so for as long as the run goes on.
Private == stage \notin Early /\ stage # "aborted" => ~peers

\* A step from a private namespace leaves the host's table alone; a step to one
\* has made it private.
LEMMA NextPrivate ==
  ASSUME Private, [Next]_vars
  PROVE  Private' /\ (stage \notin Early => host' = host)
<1> USE DEF Private, Early
<1>1. CASE UNCHANGED vars
  BY <1>1 DEF vars
<1>2. CASE MountWork
  BY <1>2 DEF MountWork
<1>3. CASE Unshare
  BY <1>3 DEF Unshare
<1>4. CASE MakePrivate
  BY <1>4 DEF MakePrivate
<1>5. CASE EnsureMountPoint
  BY <1>5 DEF EnsureMountPoint, Makes
<1>6. CASE NewRootPrivate
  BY <1>6 DEF NewRootPrivate, EssentialStages
<1>7. ASSUME NEW k \in DOMAIN EssentialMounts, MountEssential(k)
      PROVE  Private' /\ host' = host
  <2>1. k \in 1..4
    BY DEF EssentialMounts
  <2>2. stage \in {"dev", "proc", "sys", "run"} /\ UNCHANGED peers
    BY <1>7, <2>1 DEF MountEssential, EssentialStages
  <2>3. ~peers
    BY <2>2
  <2>4. host' = host
    BY <1>7, <2>3 DEF MountEssential, Makes
  <2> QED
    BY <2>2, <2>3, <2>4
<1>8. CASE PivotRoot
  BY <1>8 DEF PivotRoot
<1>9. CASE Cleanup \/ Detach \/ Detached
  <2>1. stage \in {"cleanup", "detach"} /\ UNCHANGED <<host, peers>>
    BY <1>9, Zenon DEF Cleanup, Detach, Detached
  <2> QED
    BY <2>1
<1>10. CASE Exec
  BY <1>10 DEF Exec
<1>11. CASE Reboot \/ UnmountKept \/ Unmounted
  <2>1. stage \in {"init", "unmount", "force"} /\ UNCHANGED <<host, peers>>
    BY <1>11, Zenon DEF Reboot, UnmountKept, Unmounted
  <2> QED
    BY <2>1
<1>12. CASE Abort
  <2>1. /\ stage # "aborted" /\ stage' = "aborted"
        /\ host' = IF owned /\ (peers \/ stage = "unshare") THEN Unmount(host, Work) ELSE host
    <3>1. stage \in {"unshare", "private", "bind", "newroot", "pivot", "exec",
                     "dev", "proc", "sys", "run"}
      BY <1>12 DEF Abort, EssentialStages
    <3> QED
      BY <1>12, <3>1 DEF Abort
  <2> QED
    BY <2>1
<1> QED
  BY <1>1, <1>2, <1>3, <1>4, <1>5, <1>6, <1>7, <1>8, <1>9, <1>10, <1>11, <1>12 DEF Next

\* The mounts of the host's other processes stay as they are once the thread's
\* namespace is private, whatever is mounted, pivoted, cleaned up or aborted.
THEOREM MountsHostUntouched == Spec => HostUntouched
<1>1. Init => Private
  BY DEF Init, Private, Early
<1>2. Private /\ [Next]_vars => Private'
  BY NextPrivate
<1>3. Private /\ [Next]_vars => [stage \notin {"work", "unshare", "private"} => host' = host]_vars
  BY NextPrivate DEF Early
<1> QED
  BY <1>1, <1>2, <1>3, PTL DEF Spec, HostUntouched

----------------------------------------------------------------------------
(* Induction.                                                              *)

\* Induction over the naturals, for a set: a least number outside of it has a
\* predecessor in it.
LEMMA Induct ==
  ASSUME NEW S, 0 \in S, \A n \in Nat : n \in S => n + 1 \in S
  PROVE  Nat \subseteq S
<1> DEFINE R == OpToRel(<, Nat)
           T == Nat \ S
<1>1. IsWellFoundedOn(R, Nat)
  BY NatLessThanWellFounded
<1>2. \A x, y \in Nat : x < y => <<x, y>> \in R
  BY DEF OpToRel
<1> HIDE DEF R
<1>3. SUFFICES ASSUME T # {} PROVE FALSE
  OBVIOUS
<1>4. PICK x \in T : \A y \in T : ~ (<<y, x>> \in R)
  BY <1>1, <1>3, WFMin
<1>5. x # 0 /\ x \in Nat
  BY <1>4
<1>6. x - 1 \in T /\ x - 1 < x
  BY <1>4, <1>5
<1> QED
  BY <1>2, <1>4, <1>5, <1>6

----------------------------------------------------------------------------
(* Paths.                                                                  *)

\* A path is the names on it.
Path == Seq(Names)

\* A prefix, name by name.
LEMMA PrefixIs ==
  ASSUME NEW p \in Path, NEW q \in Path
  PROVE  IsPrefix(p, q) <=> Len(p) <= Len(q) /\ \A k \in 1..Len(p) : p[k] = q[k]
<1> USE DEF Path
<1>1. CASE Len(p) > Len(q)
  BY <1>1 DEF IsPrefix
<1>2. CASE Len(p) <= Len(q)
  <2> DEFINE a == SubSeq(p, 1, Len(p))
             b == SubSeq(q, 1, Len(p))
  <2>1. /\ a \in Path /\ Len(a) = Len(p) /\ \A k \in 1..Len(p) : a[k] = p[k]
        /\ b \in Path /\ Len(b) = Len(p) /\ \A k \in 1..Len(p) : b[k] = q[k]
    BY <1>2
  <2> HIDE DEF a, b
  <2>2. a = b => \A k \in 1..Len(p) : p[k] = q[k]
    BY <2>1
  <2>3. (\A k \in 1..Len(p) : p[k] = q[k]) => a = b
    <3>1. (\A k \in 1..Len(p) : p[k] = q[k]) => \A k \in 1..Len(p) : a[k] = b[k]
      BY <2>1
    <3>2. (\A k \in 1..Len(a) : a[k] = b[k]) /\ Len(a) = Len(b) => a = b
      BY <2>1
    <3> QED
      BY <2>1, <3>1, <3>2
  <2> QED
    BY <1>2, <2>2, <2>3 DEF IsPrefix, a, b
<1> QED
  BY <1>1, <1>2

\* The order of paths.
LEMMA PrefixOrder ==
  ASSUME NEW p \in Path, NEW q \in Path, NEW r \in Path
  PROVE  /\ IsPrefix(p, p) /\ IsPrefix(<<>>, p)
         /\ IsPrefix(p, q) /\ IsPrefix(q, r) => IsPrefix(p, r)
         /\ IsPrefix(p, q) /\ IsPrefix(q, p) => p = q
         /\ IsPrefix(p, r) /\ IsPrefix(q, r) => IsPrefix(p, q) \/ IsPrefix(q, p)
         /\ IsPrefix(p, <<>>) => p = <<>>
<1> USE DEF Path
<1>0. <<>> \in Path
  OBVIOUS
<1>1. IsPrefix(p, p) /\ IsPrefix(<<>>, p)
  <2>1. IsPrefix(p, p)
    BY PrefixIs
  <2>2. Len(<<>>) = 0 /\ Len(p) \in Nat
    OBVIOUS
  <2>3. IsPrefix(<<>>, p) <=> Len(<<>>) <= Len(p) /\ \A k \in 1..Len(<<>>) : <<>>[k] = p[k]
    BY <1>0, PrefixIs
  <2> QED
    BY <2>1, <2>2, <2>3
<1>2. ASSUME IsPrefix(p, q), IsPrefix(q, r) PROVE IsPrefix(p, r)
  BY <1>2, PrefixIs
<1>3. ASSUME IsPrefix(p, q), IsPrefix(q, p) PROVE p = q
  BY <1>3, PrefixIs
<1>4. ASSUME IsPrefix(p, r), IsPrefix(q, r) PROVE IsPrefix(p, q) \/ IsPrefix(q, p)
  <2>1. Len(p) <= Len(q) \/ Len(q) <= Len(p)
    OBVIOUS
  <2> QED
    BY <1>4, <2>1, PrefixIs
<1>5. ASSUME IsPrefix(p, <<>>) PROVE p = <<>>
  <2>1. Len(p) <= Len(<<>>)
    BY <1>0, <1>5, PrefixIs
  <2> QED
    BY <2>1
<1> QED
  BY <1>1, <1>2, <1>3, <1>4, <1>5

\* Paths below a path.
LEMMA PathsBelow ==
  ASSUME NEW p \in Path, NEW q \in Path, NEW r \in Path
  PROVE  /\ p \o q \in Path /\ IsPrefix(p, p \o q)
         /\ IsPrefix(p \o q, p \o r) <=> IsPrefix(q, r)
         /\ Rest(p, p \o q) = q
         /\ IsPrefix(p, q) => Rest(p, q) \in Path /\ q = p \o Rest(p, q)
         /\ p \o q = p => q = <<>>
         /\ p \o q = <<>> => p = <<>>
<1> USE DEF Path
<1>0. p \o q \in Path /\ p \o r \in Path
  OBVIOUS
<1>1. IsPrefix(p, p \o q)
  <2>1. Len(p) <= Len(p \o q) /\ \A k \in 1..Len(p) : p[k] = (p \o q)[k]
    OBVIOUS
  <2> QED
    BY <1>0, <2>1, PrefixIs
<1>2. IsPrefix(p \o q, p \o r) <=> IsPrefix(q, r)
  <2>1. ASSUME IsPrefix(q, r) PROVE IsPrefix(p \o q, p \o r)
    <3>1. Len(q) <= Len(r) /\ \A k \in 1..Len(q) : q[k] = r[k]
      BY <2>1, PrefixIs
    <3>2. Len(p \o q) <= Len(p \o r)
      BY <3>1
    <3>3. ASSUME NEW k \in 1..Len(p \o q) PROVE (p \o q)[k] = (p \o r)[k]
      <4>1. CASE k <= Len(p)
        BY <3>2, <4>1
      <4>2. CASE ~(k <= Len(p))
        <5>1. k - Len(p) \in 1..Len(q)
          BY <4>2
        <5> QED
          BY <3>1, <3>2, <4>2, <5>1
      <4> QED
        BY <4>1, <4>2
    <3> QED
      BY <1>0, <3>2, <3>3, PrefixIs
  <2>2. ASSUME IsPrefix(p \o q, p \o r) PROVE IsPrefix(q, r)
    <3>1. Len(p \o q) <= Len(p \o r) /\ \A k \in 1..Len(p \o q) : (p \o q)[k] = (p \o r)[k]
      BY <1>0, <2>2, PrefixIs
    <3>2. Len(q) <= Len(r)
      BY <3>1
    <3>3. ASSUME NEW k \in 1..Len(q) PROVE q[k] = r[k]
      <4>1. Len(p) + k \in 1..Len(p \o q) /\ (p \o q)[Len(p) + k] = q[k]
        OBVIOUS
      <4>2. (p \o r)[Len(p) + k] = r[k]
        BY <3>2
      <4> QED
        BY <3>1, <4>1, <4>2
    <3> QED
      BY <3>2, <3>3, PrefixIs
  <2> QED
    BY <2>1, <2>2
<1>3. Rest(p, p \o q) = q
  <2> DEFINE s == SubSeq(p \o q, Len(p) + 1, Len(p \o q))
  <2>1. s \in Path /\ Len(s) = Len(q) /\ \A k \in 1..Len(q) : s[k] = q[k]
    BY <1>0
  <2> HIDE DEF s
  <2>2. s = q
    BY <2>1
  <2> QED
    BY <2>2 DEF Rest, s
<1>4. ASSUME IsPrefix(p, q) PROVE Rest(p, q) \in Path /\ q = p \o Rest(p, q)
  <2> DEFINE s == SubSeq(q, Len(p) + 1, Len(q))
  <2>1. Len(p) <= Len(q) /\ \A k \in 1..Len(p) : p[k] = q[k]
    BY <1>4, PrefixIs
  <2>2. s \in Path /\ Len(s) = Len(q) - Len(p) /\ \A k \in 1..Len(s) : s[k] = q[Len(p) + k]
    BY <2>1
  <2> HIDE DEF s
  <2>3. q = p \o s
    <3>1. p \o s \in Path /\ Len(p \o s) = Len(q)
      BY <2>1, <2>2
    <3>2. ASSUME NEW k \in 1..Len(q) PROVE q[k] = (p \o s)[k]
      <4>1. CASE k <= Len(p)
        BY <2>1, <2>2, <4>1
      <4>2. CASE ~(k <= Len(p))
        <5>1. k - Len(p) \in 1..Len(s) /\ Len(p) + (k - Len(p)) = k
          BY <2>1, <2>2, <4>2
        <5>2. (p \o s)[k] = s[k - Len(p)]
          BY <2>1, <2>2, <4>2
        <5> QED
          BY <2>2, <5>1, <5>2
      <4> QED
        BY <4>1, <4>2
    <3> DEFINE t == p \o s
    <3>3. t \in Path /\ Len(t) = Len(q) /\ \A k \in 1..Len(q) : q[k] = t[k]
      BY <3>1, <3>2
    <3> HIDE DEF t
    <3>4. q = t
      BY <3>3
    <3> QED
      BY <3>4 DEF t
  <2> QED
    BY <2>2, <2>3 DEF Rest, s
<1>5. ASSUME p \o q = p PROVE q = <<>>
  BY <1>5
<1>6. ASSUME p \o q = <<>> PROVE p = <<>>
  BY <1>6
<1> QED
  BY <1>0, <1>1, <1>2, <1>3, <1>4, <1>5, <1>6

\* Paths are put together in any order.
LEMMA ConcatAssoc ==
  ASSUME NEW p \in Path, NEW q \in Path, NEW r \in Path
  PROVE  (p \o q) \o r = p \o (q \o r) /\ <<>> \o p = p
  BY DEF Path

\* A sequence that begins with one element.
LEMMA OneName ==
  ASSUME NEW S, NEW a \in S, NEW s \in Seq(S)
  PROVE  /\ <<a>> \in Seq(S) /\ Len(<<a>>) >= 1 /\ <<a>>[1] = a
         /\ <<a>> \o s \in Seq(S) /\ Len(<<a>> \o s) >= 1 /\ (<<a>> \o s)[1] = a
  OBVIOUS

\* Of two paths with different names at the top, neither is below the other.
LEMMA TopNames ==
  ASSUME NEW a \in Names, NEW b \in Names, NEW p \in Path, NEW q \in Path, a # b
  PROVE  /\ <<a>> \o p \in Path /\ <<a>> \in Path
         /\ ~IsPrefix(<<a>> \o p, <<b>> \o q) /\ ~IsPrefix(<<a>>, <<b>> \o q)
         /\ ~IsPrefix(<<a>>, <<b>>)
<1> USE DEF Path
<1>1. ASSUME NEW c \in Names, NEW s \in Path
      PROVE  /\ <<c>> \in Path /\ Len(<<c>>) >= 1 /\ <<c>>[1] = c
             /\ <<c>> \o s \in Path /\ Len(<<c>> \o s) >= 1 /\ (<<c>> \o s)[1] = c
  BY OneName
<1>2. ASSUME NEW s \in Path, NEW t \in Path, Len(s) >= 1, s[1] # t[1] PROVE ~IsPrefix(s, t)
  <2>1. 1 \in 1..Len(s)
    BY <1>2
  <2> QED
    BY <1>2, <2>1, PrefixIs
<1> HIDE DEF Path
<1> DEFINE ap == <<a>> \o p
           bq == <<b>> \o q
           a1 == <<a>>
           b1 == <<b>>
<1>3. /\ ap \in Path /\ Len(ap) >= 1 /\ ap[1] = a
      /\ bq \in Path /\ Len(bq) >= 1 /\ bq[1] = b
      /\ a1 \in Path /\ Len(a1) >= 1 /\ a1[1] = a
      /\ b1 \in Path /\ Len(b1) >= 1 /\ b1[1] = b
  BY <1>1, Zenon
<1> HIDE DEF ap, bq, a1, b1
<1>4. ~IsPrefix(ap, bq) /\ ~IsPrefix(a1, bq) /\ ~IsPrefix(a1, b1)
  BY <1>2, <1>3
<1> QED
  BY <1>3, <1>4 DEF ap, bq, a1, b1

----------------------------------------------------------------------------
(* Mount tables.                                                           *)

\* A mount table: numbers, and mounts at paths.
Table(t) ==
  /\ \E n \in Nat : DOMAIN t \subseteq 1..n
  /\ \A i \in DOMAIN t : t[i].at \in Path

\* The mount that a path leads to.
Leads(t, p) == t[Covering(t, p)]

\* A bounded set of numbers has a greatest one.
LEMMA MaxIn ==
  ASSUME NEW n \in Nat, NEW I, I \subseteq 1..n, I # {}
  PROVE  Max(I) \in I /\ \A i \in I : i <= Max(I)
<1> DEFINE S == {k \in Nat : \A J \in SUBSET (1..k) : J # {} => \E x \in J : \A y \in J : x >= y}
<1>1. 0 \in S
  <2>1. 1..0 = {}
    OBVIOUS
  <2> QED
    BY <2>1
<1>2. ASSUME NEW k \in Nat, k \in S
      PROVE  k + 1 \in S
  <2> SUFFICES ASSUME NEW J \in SUBSET (1..(k + 1)), J # {}
               PROVE  \E x \in J : \A y \in J : x >= y
    OBVIOUS
  <2>1. CASE k + 1 \in J
    BY <2>1
  <2>2. CASE k + 1 \notin J
    <3>1. J \in SUBSET (1..k)
      BY <2>2
    <3> QED
      BY <1>2, <3>1
  <2> QED
    BY <2>1, <2>2
<1> HIDE DEF S
<1>3. n \in S
  BY <1>1, <1>2, Induct
<1>4. \E x \in I : \A y \in I : x >= y
  BY <1>3 DEF S
<1> DEFINE m == Max(I)
<1>5. m \in I /\ \A y \in I : m >= y
  BY <1>4 DEF Max
<1> HIDE DEF m
<1>6. \A i \in I : i <= m
  BY <1>5
<1> QED
  BY <1>5, <1>6 DEF m

\* Every path leads to a mount.
LEMMA CoveringExists ==
  ASSUME NEW t, Table(t), Rooted(t), NEW p \in Path
  PROVE  /\ Covering(t, p) \in DOMAIN t /\ IsPrefix(t[Covering(t, p)].at, p)
         /\ \A i \in DOMAIN t : IsPrefix(t[i].at, p) => i <= Covering(t, p)
<1> DEFINE I == {i \in DOMAIN t : IsPrefix(t[i].at, p)}
<1>1. PICK n \in Nat : DOMAIN t \subseteq 1..n
  BY DEF Table
<1>2. PICK r \in DOMAIN t : t[r].at = <<>>
  BY DEF Rooted
<1>3. I # {}
  <2>1. IsPrefix(<<>>, p)
    BY PrefixOrder
  <2> QED
    BY <1>2, <2>1
<1>4. Max(I) \in I /\ \A i \in I : i <= Max(I)
  BY <1>1, <1>3, MaxIn
<1> QED
  BY <1>4 DEF Covering

\* A mount that covers a path, with no later one that does, is the one the path
\* leads to.
LEMMA CoveringIs ==
  ASSUME NEW t, Table(t), NEW p, NEW i \in DOMAIN t, IsPrefix(t[i].at, p),
         \A j \in DOMAIN t : IsPrefix(t[j].at, p) => j <= i
  PROVE  Covering(t, p) = i
<1> DEFINE I == {j \in DOMAIN t : IsPrefix(t[j].at, p)}
           m == CHOOSE x \in I : \A y \in I : x >= y
<1>1. DOMAIN t \subseteq Nat
  BY DEF Table
<1>2. i \in I /\ \A y \in I : i >= y
  BY <1>1
<1>3. m \in I /\ \A y \in I : m >= y
  BY <1>2
<1>4. Covering(t, p) = m
  BY DEF Covering, Max
<1> HIDE DEF I, m
<1>5. I \subseteq Nat
  BY <1>1 DEF I
<1> QED
  BY <1>2, <1>3, <1>4, <1>5

\* Mounts stacked on a table.
OnTop(t, u, top) ==
  /\ \A i \in DOMAIN t : i <= top
  /\ \A k \in DOMAIN u : k \in Nat \ {0} /\ top + k \notin DOMAIN t
  /\ DOMAIN Stack(t, u) = DOMAIN t \union {top + k : k \in DOMAIN u}
  /\ \A i \in DOMAIN t : Stack(t, u)[i] = t[i]
  /\ \A k \in DOMAIN u : Stack(t, u)[top + k] = u[k]

\* There is a number above which the mounts on top are numbered.
LEMMA StackShape ==
  ASSUME NEW t, Table(t), Rooted(t), NEW u, Table(u)
  PROVE  \E top \in Nat : OnTop(t, u, top)
<1> DEFINE top == Max(DOMAIN t)
<1>1. PICK n \in Nat : DOMAIN t \subseteq 1..n
  BY DEF Table
<1>2. DOMAIN t # {}
  BY DEF Rooted
<1>3. top \in DOMAIN t /\ \A i \in DOMAIN t : i <= top
  BY <1>1, <1>2, MaxIn
<1>4. DOMAIN u \subseteq Nat \ {0}
  BY DEF Table
<1> HIDE DEF top
<1>5. \A k \in DOMAIN u : top + k \notin DOMAIN t /\ (top + k) - top = k
  BY <1>1, <1>3, <1>4
<1>6. Stack(t, u) = [i \in DOMAIN t \union {top + k : k \in DOMAIN u} |->
                       IF i \in DOMAIN t THEN t[i] ELSE u[i - top]]
  BY DEF Stack, top
<1>7. /\ DOMAIN Stack(t, u) = DOMAIN t \union {top + k : k \in DOMAIN u}
      /\ \A i \in DOMAIN t : Stack(t, u)[i] = t[i]
      /\ \A k \in DOMAIN u : Stack(t, u)[top + k] = u[k]
  BY <1>5, <1>6
<1>8. top \in Nat
  BY <1>1, <1>3
<1> QED
  BY <1>3, <1>4, <1>5, <1>7, <1>8 DEF OnTop

\* Mounts stacked on a table, none of them at the root, make a table with its root.
LEMMA StackTable ==
  ASSUME NEW t, Table(t), Rooted(t), NEW u, Table(u), \A k \in DOMAIN u : u[k].at # <<>>
  PROVE  Table(Stack(t, u)) /\ Rooted(Stack(t, u))
<1> DEFINE s == Stack(t, u)
<1>0. PICK top \in Nat : OnTop(t, u, top)
  BY StackShape
<1>1. /\ \A i \in DOMAIN t : i <= top
      /\ \A k \in DOMAIN u : k \in Nat \ {0} /\ top + k \notin DOMAIN t
      /\ DOMAIN s = DOMAIN t \union {top + k : k \in DOMAIN u}
      /\ \A i \in DOMAIN t : s[i] = t[i]
      /\ \A k \in DOMAIN u : s[top + k] = u[k]
  BY <1>0, Zenon DEF OnTop
<1> HIDE DEF s
<1>2. PICK n \in Nat : DOMAIN u \subseteq 1..n
  BY DEF Table
<1>3. DOMAIN t \subseteq Nat \ {0}
  BY DEF Table
<1>4. DOMAIN s \subseteq 1..(top + n)
  BY <1>1, <1>2, <1>3
<1>5. \A i \in DOMAIN s : s[i].at \in Path
  BY <1>1 DEF Table
<1>6. PICK r \in DOMAIN t : \A i \in DOMAIN t : r <= i /\ (t[i].at = <<>> <=> i = r)
  BY DEF Rooted
<1>7. ASSUME NEW i \in DOMAIN s
      PROVE  r <= i /\ (s[i].at = <<>> <=> i = r)
  <2>1. CASE i \in DOMAIN t
    BY <1>1, <1>6, <2>1
  <2>2. CASE i \notin DOMAIN t
    <3>1. PICK k \in DOMAIN u : i = top + k
      BY <1>1, <2>2
    <3>2. s[i].at # <<>>
      BY <1>1, <3>1
    <3>3. r <= top /\ r \in Nat /\ k \in Nat
      BY <1>1, <1>3, <1>6
    <3> QED
      BY <1>1, <2>2, <3>1, <3>2, <3>3
  <2> QED
    BY <2>1, <2>2
<1>8. Table(s)
  BY <1>2, <1>4, <1>5 DEF Table
<1>9. r \in DOMAIN s
  BY <1>1
<1>10. Rooted(s)
  BY <1>7, <1>9 DEF Rooted
<1> QED
  BY <1>8, <1>10 DEF s

\* Where none of the mounts on top covers a path, it leads where it led; where one
\* of them does, it leads to the last of them.
LEMMA StackLeads ==
  ASSUME NEW t, Table(t), Rooted(t), NEW u, Table(u), \A k \in DOMAIN u : u[k].at # <<>>,
         NEW p \in Path
  PROVE  /\ (\A k \in DOMAIN u : ~IsPrefix(u[k].at, p)) => Leads(Stack(t, u), p) = Leads(t, p)
         /\ \A k \in DOMAIN u :
              /\ IsPrefix(u[k].at, p)
              /\ \A j \in DOMAIN u : IsPrefix(u[j].at, p) => j <= k
              => Leads(Stack(t, u), p) = u[k]
<1> DEFINE s == Stack(t, u)
           c == Covering(t, p)
<1>0. PICK top \in Nat : OnTop(t, u, top)
  BY StackShape
<1>1. /\ \A i \in DOMAIN t : i <= top
      /\ \A k \in DOMAIN u : k \in Nat \ {0} /\ top + k \notin DOMAIN t
      /\ DOMAIN s = DOMAIN t \union {top + k : k \in DOMAIN u}
      /\ \A i \in DOMAIN t : s[i] = t[i]
      /\ \A k \in DOMAIN u : s[top + k] = u[k]
  BY <1>0, Zenon DEF OnTop
<1>2. Table(s)
  BY StackTable
<1>3. c \in DOMAIN t /\ IsPrefix(t[c].at, p) /\ \A i \in DOMAIN t : IsPrefix(t[i].at, p) => i <= c
  BY CoveringExists
<1>4. DOMAIN t \subseteq Nat
  BY DEF Table
<1> HIDE DEF s, c
<1>5. ASSUME \A k \in DOMAIN u : ~IsPrefix(u[k].at, p)
      PROVE  Leads(s, p) = Leads(t, p)
  <2>1. \A j \in DOMAIN s : IsPrefix(s[j].at, p) => j <= c
    BY <1>1, <1>3, <1>5
  <2>2. c \in DOMAIN s /\ IsPrefix(s[c].at, p)
    BY <1>1, <1>3
  <2>3. Covering(s, p) = c
    BY <1>2, <2>1, <2>2, CoveringIs
  <2> QED
    BY <1>1, <1>3, <2>3 DEF Leads, c
<1>6. ASSUME NEW k \in DOMAIN u, IsPrefix(u[k].at, p),
             \A j \in DOMAIN u : IsPrefix(u[j].at, p) => j <= k
      PROVE  Leads(s, p) = u[k]
  <2>1. ASSUME NEW j \in DOMAIN s, IsPrefix(s[j].at, p)
        PROVE  j <= top + k
    <3>1. CASE j \in DOMAIN t
      BY <1>1, <1>4, <3>1
    <3>2. CASE j \notin DOMAIN t
      <4>1. PICK h \in DOMAIN u : j = top + h
        BY <1>1, <3>2
      <4>2. h <= k /\ h \in Nat /\ k \in Nat
        BY <1>1, <1>6, <2>1, <4>1
      <4> QED
        BY <4>1, <4>2
    <3> QED
      BY <3>1, <3>2
  <2>2. top + k \in DOMAIN s /\ IsPrefix(s[top + k].at, p)
    BY <1>1, <1>6
  <2>3. Covering(s, p) = top + k
    BY <1>2, <2>1, <2>2, CoveringIs
  <2> QED
    BY <1>1, <2>3 DEF Leads
<1> QED
  BY <1>5, <1>6 DEF s

LEMMA OneMount ==
  ASSUME NEW at \in Path, NEW fs
  PROVE  /\ Table(<<Mount(at, fs)>>) /\ DOMAIN <<Mount(at, fs)>> = {1}
         /\ <<Mount(at, fs)>>[1] = Mount(at, fs)
         /\ Mount(at, fs).at = at /\ Mount(at, fs).fs = fs
<1> DEFINE u == <<Mount(at, fs)>>
<1>1. Mount(at, fs).at = at /\ Mount(at, fs).fs = fs
  BY DEF Mount
<1>2. DOMAIN u = 1..1 /\ u[1] = Mount(at, fs)
  OBVIOUS
<1> HIDE DEF u
<1>3. DOMAIN u = {1}
  BY <1>2
<1>4. \A i \in DOMAIN u : u[i].at \in Path
  BY <1>1, <1>2, <1>3
<1>5. Table(u)
  BY <1>2, <1>4 DEF Table
<1> QED
  BY <1>1, <1>2, <1>3, <1>5 DEF u

\* One mount more: it is found at its path and below.
LEMMA AddLeads ==
  ASSUME NEW t, Table(t), Rooted(t), NEW at \in Path, at # <<>>, NEW fs, NEW p \in Path
  PROVE  /\ Table(Add(t, at, fs)) /\ Rooted(Add(t, at, fs))
         /\ Leads(Add(t, at, fs), p) = IF IsPrefix(at, p) THEN Mount(at, fs) ELSE Leads(t, p)
<1> DEFINE u == <<Mount(at, fs)>>
<1>1. /\ Table(u) /\ DOMAIN u = {1} /\ u[1] = Mount(at, fs)
      /\ Mount(at, fs).at = at
  BY OneMount
<1>2. Add(t, at, fs) = Stack(t, u)
  BY DEF Add
<1> HIDE DEF u
<1>3. \A k \in DOMAIN u : u[k].at # <<>>
  BY <1>1
<1>4. Table(Stack(t, u)) /\ Rooted(Stack(t, u))
  BY <1>1, <1>3, StackTable
<1>5. CASE IsPrefix(at, p)
  <2>1. /\ 1 \in DOMAIN u /\ IsPrefix(u[1].at, p)
        /\ \A j \in DOMAIN u : IsPrefix(u[j].at, p) => j <= 1
    BY <1>1, <1>5
  <2>2. Leads(Stack(t, u), p) = u[1]
    BY <1>1, <1>3, <2>1, StackLeads
  <2> QED
    BY <1>1, <1>2, <1>4, <1>5, <2>2
<1>6. CASE ~IsPrefix(at, p)
  <2>1. \A k \in DOMAIN u : ~IsPrefix(u[k].at, p)
    BY <1>1, <1>6
  <2>2. Leads(Stack(t, u), p) = Leads(t, p)
    BY <1>1, <1>3, <2>1, StackLeads
  <2> QED
    BY <1>2, <1>4, <1>6, <2>2
<1> QED
  BY <1>5, <1>6

\* The mounts of a table that are kept: a path whose mount is kept leads to it.
LEMMA RestrictLeads ==
  ASSUME NEW t, Table(t), NEW D, D \subseteq DOMAIN t
  PROVE  /\ Table(Restrict(t, D)) /\ DOMAIN Restrict(t, D) = D
         /\ \A i \in D : Restrict(t, D)[i] = t[i]
         /\ Rooted(t) => \A p \in Path : Covering(t, p) \in D =>
              /\ Covering(Restrict(t, D), p) = Covering(t, p)
              /\ Leads(Restrict(t, D), p) = Leads(t, p)
<1> DEFINE s == Restrict(t, D)
<1>1. DOMAIN s = D /\ \A i \in D : s[i] = t[i]
  BY DEF Restrict
<1> HIDE DEF s
<1>2. Table(s)
  BY <1>1 DEF Table
<1>3. ASSUME Rooted(t), NEW p \in Path, Covering(t, p) \in D
      PROVE  Covering(s, p) = Covering(t, p) /\ Leads(s, p) = Leads(t, p)
  <2> DEFINE c == Covering(t, p)
  <2>1. c \in D /\ IsPrefix(t[c].at, p) /\ \A i \in DOMAIN t : IsPrefix(t[i].at, p) => i <= c
    BY <1>3, CoveringExists
  <2> HIDE DEF c
  <2>2. /\ c \in DOMAIN s /\ IsPrefix(s[c].at, p)
        /\ \A i \in DOMAIN s : IsPrefix(s[i].at, p) => i <= c
    BY <1>1, <2>1
  <2>3. Covering(s, p) = c
    BY <1>2, <2>2, CoveringIs
  <2> QED
    BY <1>1, <2>1, <2>3 DEF Leads, c
<1> QED
  BY <1>1, <1>2, <1>3 DEF s

\* Unmounting takes away what a path leads to; paths elsewhere lead where they led.
LEMMA UnmountLeads ==
  ASSUME NEW t, Table(t), Rooted(t), NEW p \in Path, p # <<>>
  PROVE  /\ Table(Unmount(t, p)) /\ Rooted(Unmount(t, p))
         /\ DOMAIN Unmount(t, p) = DOMAIN t \ Tree(t, p)
         /\ \A i \in DOMAIN Unmount(t, p) : Unmount(t, p)[i] = t[i]
         /\ \A q \in Path : ~IsPrefix(p, q) => Leads(Unmount(t, p), q) = Leads(t, q)
<1> DEFINE D == DOMAIN t \ Tree(t, p)
           s == Restrict(t, D)
<1>1. D \subseteq DOMAIN t
  OBVIOUS
<1>2. Table(s) /\ DOMAIN s = D /\ \A i \in D : s[i] = t[i]
  BY <1>1, RestrictLeads
<1>3. ASSUME NEW q \in Path, ~IsPrefix(p, q)
      PROVE  Leads(s, q) = Leads(t, q)
  <2>1. Covering(t, q) \in DOMAIN t /\ IsPrefix(t[Covering(t, q)].at, q)
    BY CoveringExists
  <2>2. t[Covering(t, q)].at \in Path
    BY <2>1 DEF Table
  <2>3. ~IsPrefix(p, t[Covering(t, q)].at)
    BY <1>3, <2>1, <2>2, PrefixOrder
  <2>4. Covering(t, q) \in D
    BY <2>1, <2>3 DEF Tree
  <2> HIDE DEF D
  <2> QED
    BY <1>1, <2>4, RestrictLeads
<1>4. Rooted(s)
  <2>1. PICK r \in DOMAIN t : \A i \in DOMAIN t : r <= i /\ (t[i].at = <<>> <=> i = r)
    BY DEF Rooted
  <2>2. ~IsPrefix(p, <<>>)
    BY PrefixOrder DEF Path
  <2>3. r \in D
    BY <2>1, <2>2 DEF Tree
  <2> HIDE DEF D, s
  <2> QED
    BY <1>1, <1>2, <2>1, <2>3 DEF Rooted
<1> HIDE DEF D, s
<1>5. Unmount(t, p) = s
  BY DEF Unmount, s, D
<1> QED
  BY <1>2, <1>3, <1>4, <1>5 DEF D

\* The mounts of a tree, moved elsewhere.
LEMMA RebaseTable ==
  ASSUME NEW t, Table(t), NEW from \in Path, NEW to \in Path,
         \A i \in DOMAIN t : IsPrefix(from, t[i].at)
  PROVE  /\ Table(Rebase(t, from, to)) /\ DOMAIN Rebase(t, from, to) = DOMAIN t
         /\ \A i \in DOMAIN t :
              /\ Rest(from, t[i].at) \in Path /\ t[i].at = from \o Rest(from, t[i].at)
              /\ Rebase(t, from, to)[i].fs = t[i].fs
              /\ Rebase(t, from, to)[i].at = to \o Rest(from, t[i].at)
              /\ \A q \in Path : IsPrefix(Rebase(t, from, to)[i].at, to \o q)
                                   <=> IsPrefix(t[i].at, from \o q)
<1> DEFINE s == Rebase(t, from, to)
<1>1. DOMAIN s = DOMAIN t
  BY DEF Rebase
<1>2. ASSUME NEW i \in DOMAIN t
      PROVE  s[i].fs = t[i].fs /\ s[i].at = to \o Rest(from, t[i].at)
  BY DEF Rebase, Mount
<1> HIDE DEF s
<1>3. ASSUME NEW i \in DOMAIN t
      PROVE  Rest(from, t[i].at) \in Path /\ t[i].at = from \o Rest(from, t[i].at)
  BY PathsBelow DEF Table
<1>4. ASSUME NEW i \in DOMAIN t, NEW q \in Path
      PROVE  IsPrefix(s[i].at, to \o q) <=> IsPrefix(t[i].at, from \o q)
  <2> DEFINE r == Rest(from, t[i].at)
  <2>1. r \in Path /\ t[i].at = from \o r /\ s[i].at = to \o r
    BY <1>2, <1>3
  <2> HIDE DEF r
  <2>2. IsPrefix(to \o r, to \o q) <=> IsPrefix(r, q)
    BY <2>1, PathsBelow
  <2>3. IsPrefix(from \o r, from \o q) <=> IsPrefix(r, q)
    BY <2>1, PathsBelow
  <2> QED
    BY <2>1, <2>2, <2>3
<1>5. Table(s)
  <2>1. ASSUME NEW i \in DOMAIN s PROVE s[i].at \in Path
    <3>1. s[i].at = to \o Rest(from, t[i].at) /\ Rest(from, t[i].at) \in Path
      BY <1>1, <1>2, <1>3
    <3> QED
      BY <3>1, PathsBelow
  <2> QED
    BY <1>1, <2>1 DEF Table
<1> QED
  BY <1>1, <1>2, <1>3, <1>4, <1>5 DEF s

----------------------------------------------------------------------------
(* What a recursive bind and pivot_root do to a table.                      *)

\* Every mount of a stack is of the one table or of the other.
LEMMA StackFrom ==
  ASSUME NEW t, Table(t), Rooted(t), NEW u, Table(u), NEW i \in DOMAIN Stack(t, u)
  PROVE  \/ i \in DOMAIN t /\ Stack(t, u)[i] = t[i]
         \/ \E k \in DOMAIN u : Stack(t, u)[i] = u[k]
<1>1. PICK top \in Nat : OnTop(t, u, top)
  BY StackShape
<1>2. CASE i \in DOMAIN t
  BY <1>1, <1>2 DEF OnTop
<1>3. CASE i \notin DOMAIN t
  <2>1. PICK k \in DOMAIN u : i = top + k
    BY <1>1, <1>3, Zenon DEF OnTop
  <2>2. Stack(t, u)[i] = u[k]
    BY <1>1, <2>1, Zenon DEF OnTop
  <2> QED
    BY <2>2
<1> QED
  BY <1>2, <1>3

\* Every mount of s is at a path of t's, or below p.
Grows(t, s, p) ==
  \A i \in DOMAIN s : IsPrefix(p, s[i].at) \/ \E j \in DOMAIN t : s[i].at = t[j].at

\* One mount more grows a table at its path only.
LEMMA AddGrows ==
  ASSUME NEW t, Table(t), Rooted(t), NEW at \in Path, NEW fs
  PROVE  Grows(t, Add(t, at, fs), at)
<1> DEFINE u == <<Mount(at, fs)>>
<1>1. Table(u) /\ DOMAIN u = {1} /\ u[1] = Mount(at, fs) /\ Mount(at, fs).at = at
  BY OneMount
<1>2. Add(t, at, fs) = Stack(t, u)
  BY DEF Add
<1> HIDE DEF u
<1>3. IsPrefix(at, at)
  BY PrefixOrder
<1>4. ASSUME NEW i \in DOMAIN Stack(t, u)
      PROVE  IsPrefix(at, Stack(t, u)[i].at) \/ \E j \in DOMAIN t : Stack(t, u)[i].at = t[j].at
  BY <1>1, <1>3, StackFrom
<1> QED
  BY <1>2, <1>4 DEF Grows

\* What a recursive bind copies.
Below(t, p) == {i \in Tree(t, p) : t[i].at # p}

\* The mounts that a recursive bind copies are found below its target, where they were
\* found below its source.
LEMMA BelowRebased ==
  ASSUME NEW t, Table(t), NEW source \in Path, NEW target \in Path, target # <<>>
  PROVE  LET u == Rebase(Restrict(t, Below(t, source)), source, target)
         IN /\ Table(u) /\ DOMAIN u = Below(t, source)
            /\ \A k \in DOMAIN u :
                 /\ u[k].at # <<>> /\ IsPrefix(target, u[k].at) /\ u[k].at # target
                 /\ u[k].at \in Path
                 /\ u[k].fs = t[k].fs
                 /\ \A q \in Path : IsPrefix(u[k].at, target \o q) <=> IsPrefix(t[k].at, source \o q)
<1> DEFINE D == Below(t, source)
           b == Restrict(t, D)
           u == Rebase(b, source, target)
<1>1. D \subseteq DOMAIN t /\ \A i \in D : IsPrefix(source, t[i].at) /\ t[i].at # source
  BY DEF Below, Tree
<1>2. Table(b) /\ DOMAIN b = D /\ \A i \in D : b[i] = t[i]
  BY <1>1, RestrictLeads
<1> HIDE DEF D, b
<1>3. \A i \in DOMAIN b : IsPrefix(source, b[i].at)
  BY <1>1, <1>2
<1>4. Table(u) /\ DOMAIN u = D
  BY <1>2, <1>3, RebaseTable
<1>5. ASSUME NEW k \in D
      PROVE  /\ u[k].at # <<>> /\ IsPrefix(target, u[k].at) /\ u[k].at # target /\ u[k].at \in Path
             /\ u[k].fs = t[k].fs
             /\ \A q \in Path : IsPrefix(u[k].at, target \o q) <=> IsPrefix(t[k].at, source \o q)
  <2> DEFINE r == Rest(source, b[k].at)
  <2>1. /\ r \in Path /\ b[k].at = source \o r
        /\ u[k].fs = b[k].fs /\ u[k].at = target \o r
        /\ \A q \in Path : IsPrefix(u[k].at, target \o q) <=> IsPrefix(b[k].at, source \o q)
    BY <1>2, <1>3, RebaseTable
  <2> HIDE DEF r, u
  <2>2. b[k] = t[k]
    BY <1>2
  <2>3. r # <<>>
    <3>1. source \o <<>> = source
      BY DEF Path
    <3> QED
      BY <1>1, <2>1, <2>2, <3>1
  <2>4. target \o r \in Path /\ target \o r # <<>> /\ IsPrefix(target, target \o r)
        /\ target \o r # target
    BY <2>1, <2>3, PathsBelow
  <2> QED
    BY <2>1, <2>2, <2>4
<1> QED
  BY <1>4, <1>5 DEF b, D

\* A recursive bind: at the target and below, every path leads to the filesystem it
\* leads to at the source; paths elsewhere lead where they led.
LEMMA RecBindLeads ==
  ASSUME NEW t, Table(t), Rooted(t), NEW source \in Path, NEW target \in Path, target # <<>>
  PROVE  LET s == RecBind(t, source, target)
         IN /\ Table(s) /\ Rooted(s) /\ Grows(t, s, target)
            /\ \A p \in Path : ~IsPrefix(target, p) => Leads(s, p) = Leads(t, p)
            /\ \A r \in Path : Leads(s, target \o r).fs = Leads(t, source \o r).fs
            /\ Leads(s, target).at = target
<1> DEFINE s == RecBind(t, source, target)
           a == Add(t, target, FsAt(t, source))
           u == Rebase(Restrict(t, Below(t, source)), source, target)
           c == Covering(t, source)
<1>1. s = Stack(a, u)
  BY DEF RecBind, Bind, Below
<1>2. /\ Table(u) /\ DOMAIN u = Below(t, source)
      /\ \A k \in DOMAIN u :
           /\ u[k].at # <<>> /\ IsPrefix(target, u[k].at) /\ u[k].at # target
           /\ u[k].at \in Path
           /\ u[k].fs = t[k].fs
           /\ \A q \in Path : IsPrefix(u[k].at, target \o q) <=> IsPrefix(t[k].at, source \o q)
  BY BelowRebased
<1>3. Mount(target, FsAt(t, source)).at = target /\ Mount(target, FsAt(t, source)).fs = t[c].fs
  BY DEF Mount, FsAt
<1>4. /\ Table(a) /\ Rooted(a) /\ Grows(t, a, target)
      /\ \A p \in Path : Leads(a, p) = IF IsPrefix(target, p) THEN Mount(target, FsAt(t, source))
                                       ELSE Leads(t, p)
  BY AddLeads, AddGrows
<1>5. c \in DOMAIN t /\ IsPrefix(t[c].at, source) /\ \A i \in DOMAIN t : IsPrefix(t[i].at, source) => i <= c
  BY CoveringExists
<1>6. DOMAIN t \subseteq Nat
  BY DEF Table
<1> HIDE DEF a, u, c, s
<1>7. Table(s) /\ Rooted(s)
  BY <1>1, <1>2, <1>4, StackTable
<1>8. Grows(t, s, target)
  <2>1. ASSUME NEW i \in DOMAIN s
        PROVE  IsPrefix(target, s[i].at) \/ \E j \in DOMAIN t : s[i].at = t[j].at
    <3>1. \/ i \in DOMAIN a /\ s[i] = a[i]
          \/ \E k \in DOMAIN u : s[i] = u[k]
      BY <1>1, <1>2, <1>4, <2>1, StackFrom
    <3>2. CASE i \in DOMAIN a /\ s[i] = a[i]
      BY <1>4, <3>2 DEF Grows
    <3>3. CASE \E k \in DOMAIN u : s[i] = u[k]
      BY <1>2, <3>3
    <3> QED
      BY <3>1, <3>2, <3>3
  <2> QED
    BY <2>1 DEF Grows
<1>9. ASSUME NEW p \in Path, \A k \in DOMAIN u : ~IsPrefix(u[k].at, p)
      PROVE  Leads(s, p) = Leads(a, p)
  BY <1>1, <1>2, <1>4, <1>9, StackLeads
<1>10. ASSUME NEW p \in Path, ~IsPrefix(target, p)
       PROVE  Leads(s, p) = Leads(t, p)
  <2>1. \A k \in DOMAIN u : ~IsPrefix(u[k].at, p)
    BY <1>2, <1>10, PrefixOrder
  <2> QED
    BY <1>4, <1>9, <1>10, <2>1
<1>11. Leads(s, target).at = target
  <2>1. \A k \in DOMAIN u : ~IsPrefix(u[k].at, target)
    BY <1>2, PrefixOrder
  <2>2. IsPrefix(target, target)
    BY PrefixOrder
  <2> QED
    BY <1>3, <1>4, <1>9, <2>1, <2>2
<1>12. ASSUME NEW r \in Path
       PROVE  Leads(s, target \o r).fs = Leads(t, source \o r).fs
  <2> DEFINE p == source \o r
             q == target \o r
             i == Covering(t, p)
  <2>1. p \in Path /\ q \in Path /\ IsPrefix(source, p) /\ IsPrefix(target, q)
    BY PathsBelow
  <2>2. \A k \in DOMAIN u : IsPrefix(u[k].at, q) <=> IsPrefix(t[k].at, p)
    BY <1>2
  <2> HIDE DEF p, q
  <2>3. i \in DOMAIN t /\ IsPrefix(t[i].at, p) /\ \A j \in DOMAIN t : IsPrefix(t[j].at, p) => j <= i
    BY <2>1, CoveringExists
  <2> HIDE DEF i
  <2>4. \A k \in DOMAIN u : k \in DOMAIN t /\ k >= c
    BY <1>2, <1>5, <1>6 DEF Below, Tree, c
  <2>5. CASE i \in DOMAIN u
    <3>1. IsPrefix(u[i].at, q) /\ \A j \in DOMAIN u : IsPrefix(u[j].at, q) => j <= i
      BY <2>2, <2>3, <2>4, <2>5
    <3>2. Leads(s, q) = u[i]
      BY <1>1, <1>2, <1>4, <2>1, <2>5, <3>1, StackLeads
    <3>3. u[i].fs = t[i].fs
      BY <1>2, <2>5
    <3> QED
      BY <3>2, <3>3 DEF Leads, i, p, q
  <2>6. CASE i \notin DOMAIN u
    <3>1. t[i].at \in Path /\ t[c].at \in Path
      BY <1>5, <2>3 DEF Table
    <3>2. c <= i
      <4>1. IsPrefix(t[c].at, p)
        BY <1>5, <2>1, <3>1, PrefixOrder
      <4> QED
        BY <1>5, <2>3, <4>1
    <3>3. IsPrefix(t[i].at, source)
      <4>1. IsPrefix(t[i].at, source) \/ IsPrefix(source, t[i].at)
        BY <2>1, <2>3, <3>1, PrefixOrder
      <4>2. IsPrefix(source, t[i].at) => t[i].at = source
        BY <1>2, <1>6, <2>3, <2>6, <3>2 DEF Below, Tree, c
      <4>3. IsPrefix(source, source)
        BY PrefixOrder
      <4> QED
        BY <4>1, <4>2, <4>3
    <3>4. i = c
      BY <1>5, <1>6, <2>3, <3>2, <3>3
    <3>5. ASSUME NEW k \in DOMAIN u, IsPrefix(u[k].at, q) PROVE FALSE
      <4>1. k <= c /\ k >= c /\ k \in Nat /\ c \in Nat
        BY <1>5, <1>6, <2>2, <2>3, <2>4, <3>4, <3>5
      <4> QED
        BY <2>6, <3>4, <4>1
    <3>6. Leads(s, q) = Leads(a, q)
      BY <1>9, <2>1, <3>5
    <3>7. Leads(a, q).fs = t[c].fs
      BY <1>3, <1>4, <2>1
    <3> QED
      BY <3>4, <3>6, <3>7 DEF Leads, i, p, q
  <2> QED
    BY <2>5, <2>6
<1> QED
  BY <1>7, <1>8, <1>10, <1>11, <1>12 DEF s

\* The mount at OldRoot that everything of the old root is mounted on.
OldAt(t, a) ==
  /\ a \in DOMAIN t /\ t[a].at = OldRoot
  /\ \A i \in DOMAIN t : /\ IsPrefix(OldRoot, t[i].at) => a <= i
                         /\ IsPrefix(t[i].at, OldRoot) => i <= a

\* Nothing is mounted where the old root will be.
Clear(t) == \A i \in DOMAIN t : ~IsPrefix(Work \o OldRoot, t[i].at)

\* The work dir and the two places of the old root are paths, and not the root.
LEMMA KnownPaths ==
  /\ Work \in Path /\ OldRoot \in Path /\ OldRoot # <<>> /\ <<>> \in Path
  /\ Kept \in Path /\ Kept # <<>>
  /\ Work \o OldRoot \in Path
<1>1. Work \in Path
  BY WorkAssumption DEF Path
<1>2. ASSUME NEW S, NEW a \in S, NEW b \in S
      PROVE  <<a, b>> \in Seq(S) /\ <<a, b>> # <<>> /\ <<>> \in Seq(S)
  OBVIOUS
<1>3. OldRoot \in Path /\ OldRoot # <<>> /\ <<>> \in Path /\ Kept \in Path /\ Kept # <<>>
  <2>1. "mnt" \in Names /\ "oldroot" \in Names /\ "srv" \in Names /\ "old" \in Names
    BY NamesAssumption
  <2> QED
    BY <1>2, <2>1, Zenon DEF Path, OldRoot, Kept
<1> QED
  BY <1>1, <1>3, PathsBelow

\* The mounts of the new root's tree, moved to the top, are a table with a root.
LEMMA NewTree ==
  ASSUME NEW t, Table(t), Rooted(t), Mounted(t, Work)
  PROVE  LET u == Rebase(Restrict(t, Tree(t, Work)), Work, <<>>)
         IN /\ Table(u) /\ Rooted(u) /\ DOMAIN u = Tree(t, Work)
            /\ \A q \in Path : /\ Leads(u, q).fs = Leads(t, Work \o q).fs
                               /\ Leads(u, q).at = q <=> Leads(t, Work \o q).at = Work \o q
            /\ \A i \in DOMAIN u : \A q \in Path :
                 IsPrefix(q, u[i].at) => IsPrefix(Work \o q, t[i].at)
<1> DEFINE D == Tree(t, Work)
           b == Restrict(t, D)
           top == <<>>
           u == Rebase(b, Work, top)
           c == Covering(t, Work)
<1>0. Work \in Path /\ top \in Path
  BY KnownPaths
<1> HIDE DEF top
<1>1. D \subseteq DOMAIN t /\ \A i \in D : IsPrefix(Work, t[i].at) /\ i >= c
  BY DEF Tree
<1>2. Table(b) /\ DOMAIN b = D /\ \A i \in D : b[i] = t[i]
  BY <1>1, RestrictLeads
<1>3. c \in DOMAIN t /\ \A i \in DOMAIN t : IsPrefix(t[i].at, Work) => i <= c
  BY <1>0, CoveringExists
<1>4. t[c].at = Work /\ IsPrefix(Work, Work)
  BY <1>0, PrefixOrder DEF Mounted
<1>5. DOMAIN t \subseteq Nat
  BY DEF Table
<1>6. c \in D
  BY <1>3, <1>4, <1>5 DEF Tree
<1> HIDE DEF D, b, c
<1>7. \A i \in DOMAIN b : IsPrefix(Work, b[i].at)
  BY <1>1, <1>2
<1>8. Table(u) /\ DOMAIN u = D
  BY <1>0, <1>2, <1>7, RebaseTable
<1>9. ASSUME NEW i \in D
      PROVE  /\ u[i].at \in Path /\ t[i].at = Work \o u[i].at /\ u[i].fs = t[i].fs
             /\ \A q \in Path : IsPrefix(u[i].at, q) <=> IsPrefix(t[i].at, Work \o q)
  <2> DEFINE r == Rest(Work, b[i].at)
  <2>1. /\ r \in Path /\ b[i].at = Work \o r /\ u[i].fs = b[i].fs /\ u[i].at = top \o r
        /\ \A q \in Path : IsPrefix(u[i].at, top \o q) <=> IsPrefix(b[i].at, Work \o q)
    BY <1>0, <1>2, <1>7, RebaseTable
  <2> HIDE DEF r, u
  <2>2. \A q \in Path : top \o q = q
    BY ConcatAssoc DEF top
  <2> QED
    BY <1>2, <2>1, <2>2
<1> HIDE DEF u
<1>10. Rooted(u)
  <2>1. u[c].at = <<>>
    <3>1. u[c].at \in Path /\ Work \o u[c].at = Work
      BY <1>4, <1>6, <1>9
    <3> QED
      BY <1>0, <3>1, PathsBelow
  <2>2. ASSUME NEW i \in DOMAIN u
        PROVE  c <= i /\ (u[i].at = <<>> <=> i = c)
    <3>1. i \in D /\ i \in DOMAIN t /\ c <= i
      BY <1>1, <1>3, <1>5, <1>8
    <3>2. ASSUME u[i].at = <<>> PROVE i = c
      <4>1. t[i].at = Work \o <<>>
        BY <1>9, <3>1, <3>2
      <4>2. Work \o <<>> = Work
        BY <1>0 DEF Path
      <4> QED
        BY <1>3, <1>4, <1>5, <3>1, <4>1, <4>2
    <3> QED
      BY <2>1, <3>1, <3>2
  <2> QED
    BY <1>6, <1>8, <2>1, <2>2 DEF Rooted
<1>11. ASSUME NEW q \in Path
       PROVE  /\ Leads(u, q).fs = Leads(t, Work \o q).fs
              /\ Leads(u, q).at = q <=> Leads(t, Work \o q).at = Work \o q
  <2> DEFINE p == Work \o q
             i == Covering(t, p)
  <2>1. p \in Path /\ IsPrefix(Work, p)
    BY <1>0, PathsBelow
  <2> HIDE DEF p
  <2>2. i \in DOMAIN t /\ IsPrefix(t[i].at, p) /\ \A j \in DOMAIN t : IsPrefix(t[j].at, p) => j <= i
    BY <2>1, CoveringExists
  <2> HIDE DEF i
  <2>3. c <= i
    BY <1>3, <1>4, <2>1, <2>2
  <2>4. i \in D
    <3>1. t[i].at \in Path
      BY <2>2 DEF Table
    <3>2. IsPrefix(t[i].at, Work) \/ IsPrefix(Work, t[i].at)
      BY <1>0, <2>1, <2>2, <3>1, PrefixOrder
    <3>3. IsPrefix(t[i].at, Work) => i = c
      BY <1>3, <1>5, <2>2, <2>3
    <3> QED
      BY <1>5, <1>6, <2>2, <2>3, <3>2, <3>3 DEF D, Tree, c
  <2>5. IsPrefix(u[i].at, q)
    BY <1>9, <2>2, <2>4 DEF p
  <2>6. \A j \in DOMAIN u : IsPrefix(u[j].at, q) => j <= i
    BY <1>1, <1>8, <1>9, <2>2 DEF p
  <2>7. Covering(u, q) = i
    BY <1>8, <2>4, <2>5, <2>6, CoveringIs
  <2>8. u[i].at \in Path /\ t[i].at = Work \o u[i].at /\ u[i].fs = t[i].fs
    BY <1>9, <2>4
  <2>9. u[i].at = q <=> t[i].at = p
    <3>1. Rest(Work, Work \o u[i].at) = u[i].at /\ Rest(Work, Work \o q) = q
      BY <1>0, <2>8, PathsBelow
    <3> QED
      BY <2>8, <3>1 DEF p
  <2> QED
    BY <2>7, <2>8, <2>9 DEF Leads, i, p
<1>12. ASSUME NEW i \in DOMAIN u, NEW q \in Path, IsPrefix(q, u[i].at)
       PROVE  IsPrefix(Work \o q, t[i].at)
  <2>1. u[i].at \in Path /\ t[i].at = Work \o u[i].at
    BY <1>8, <1>9
  <2> QED
    BY <1>0, <1>12, <2>1, PathsBelow
<1> QED
  BY <1>8, <1>10, <1>11, <1>12 DEF u, b, D, top

\* After pivot_root, a path that is not below OldRoot leads where it led below the
\* new root, and the old root with all that was mounted on it is at OldRoot.
LEMMA PivotedLeads ==
  ASSUME NEW t, Table(t), Rooted(t), Mounted(t, Work), Clear(t)
  PROVE  LET s == Pivoted(t)
         IN /\ Table(s) /\ Rooted(s) /\ \E a : OldAt(s, a)
            /\ \A q \in Path : ~IsPrefix(OldRoot, q) =>
                 /\ Leads(s, q).fs = Leads(t, Work \o q).fs
                 /\ Leads(s, q).at = q <=> Leads(t, Work \o q).at = Work \o q
<1> DEFINE s == Pivoted(t)
           D == Tree(t, Work)
           E == DOMAIN t \ D
           b == Restrict(t, E)
           u == Rebase(Restrict(t, D), Work, <<>>)
           none == <<>>
           v == Rebase(b, none, OldRoot)
<1>0. Work \in Path /\ OldRoot \in Path /\ OldRoot # <<>> /\ none \in Path
  BY KnownPaths
<1>1. s = Stack(u, v)
  BY DEF Pivoted
<1>2. /\ Table(u) /\ Rooted(u)
      /\ \A q \in Path : /\ Leads(u, q).fs = Leads(t, Work \o q).fs
                         /\ Leads(u, q).at = q <=> Leads(t, Work \o q).at = Work \o q
      /\ \A i \in DOMAIN u : \A q \in Path :
           IsPrefix(q, u[i].at) => i \in DOMAIN t /\ IsPrefix(Work \o q, t[i].at)
  <2>1. D \subseteq DOMAIN t
    BY DEF Tree
  <2> QED
    BY <2>1, NewTree
<1>3. Table(b) /\ DOMAIN b = E /\ \A i \in E : b[i] = t[i]
  BY RestrictLeads
<1> HIDE DEF u, b, s
<1>4. \A i \in DOMAIN b : IsPrefix(none, b[i].at)
  BY <1>3, PrefixOrder DEF Table
<1> HIDE DEF none
<1>5. Table(v) /\ DOMAIN v = E
  BY <1>0, <1>3, <1>4, RebaseTable
<1>6. ASSUME NEW k \in E
      PROVE  t[k].at \in Path /\ v[k].at = OldRoot \o t[k].at
  <2> HIDE DEF E, D
  <2>1. /\ Rest(none, b[k].at) \in Path /\ b[k].at = none \o Rest(none, b[k].at)
        /\ v[k].at = OldRoot \o Rest(none, b[k].at)
    BY <1>0, <1>3, <1>4, RebaseTable
  <2>2. Rest(none, b[k].at) = b[k].at
    BY <2>1, ConcatAssoc DEF none
  <2>3. b[k] = t[k]
    BY <1>3
  <2> HIDE DEF v
  <2> QED
    BY <2>1, <2>2, <2>3
<1> HIDE DEF v
<1>7. ASSUME NEW k \in E
      PROVE  v[k].at \in Path /\ v[k].at # <<>> /\ IsPrefix(OldRoot, v[k].at)
  <2> DEFINE p == t[k].at
  <2>1. p \in Path /\ v[k].at = OldRoot \o p
    BY <1>6
  <2> HIDE DEF p
  <2>2. OldRoot \o p \in Path /\ IsPrefix(OldRoot, OldRoot \o p)
        /\ (OldRoot \o p = <<>> => OldRoot = <<>>)
    BY <1>0, <2>1, PathsBelow
  <2> QED
    BY <1>0, <2>1, <2>2
<1>8. Table(s) /\ Rooted(s)
  BY <1>1, <1>2, <1>5, <1>7, StackTable
<1>9. ASSUME NEW q \in Path, ~IsPrefix(OldRoot, q)
      PROVE  /\ Leads(s, q).fs = Leads(t, Work \o q).fs
             /\ Leads(s, q).at = q <=> Leads(t, Work \o q).at = Work \o q
  <2>1. \A k \in DOMAIN v : ~IsPrefix(v[k].at, q)
    BY <1>0, <1>5, <1>7, <1>9, PrefixOrder
  <2>2. Leads(s, q) = Leads(u, q)
    BY <1>1, <1>2, <1>5, <1>7, <2>1, StackLeads
  <2> QED
    BY <1>2, <2>2
<1>10. PICK r \in DOMAIN t : \A i \in DOMAIN t : r <= i /\ (t[i].at = <<>> <=> i = r)
  BY DEF Rooted
<1>11. r \in E
  <2>1. ~IsPrefix(Work, <<>>)
    BY <1>0, KnownPaths, WorkAssumption, PrefixOrder
  <2> QED
    BY <1>10, <2>1 DEF Tree
<1>12. PICK top \in Nat : OnTop(u, v, top)
  BY <1>2, <1>5, StackShape
<1>13. /\ \A i \in DOMAIN u : i <= top
       /\ \A k \in E : k \in Nat \ {0}
       /\ DOMAIN s = DOMAIN u \union {top + k : k \in E}
       /\ \A i \in DOMAIN u : s[i] = u[i]
       /\ \A k \in E : s[top + k] = v[k]
  BY <1>1, <1>5, <1>12, Zenon DEF OnTop
<1> DEFINE a == top + r
<1>14. a \in DOMAIN s /\ s[a].at = OldRoot
  <2>1. v[r].at = OldRoot \o t[r].at /\ t[r].at = <<>>
    BY <1>6, <1>10, <1>11
  <2>2. OldRoot \o <<>> = OldRoot
    BY <1>0 DEF Path
  <2> QED
    BY <1>11, <1>13, <2>1, <2>2
<1>15. ASSUME NEW i \in DOMAIN s
       PROVE  /\ IsPrefix(OldRoot, s[i].at) => a <= i
              /\ IsPrefix(s[i].at, OldRoot) => i <= a
  <2>1. CASE i \in DOMAIN u
    <3>1. ~IsPrefix(OldRoot, s[i].at)
      BY <1>0, <1>2, <1>13, <2>1 DEF Clear
    <3>2. i <= top /\ i \in Nat /\ r \in Nat
      BY <1>2, <1>11, <1>13, <2>1 DEF Table
    <3> QED
      BY <3>1, <3>2
  <2>2. CASE i \notin DOMAIN u
    <3>1. PICK k \in E : i = top + k
      BY <1>13, <2>2
    <3>2. s[i].at = OldRoot \o t[k].at /\ t[k].at \in Path
      BY <1>6, <1>13, <3>1
    <3>3. r <= k /\ r \in Nat /\ k \in Nat
      BY <1>10, <1>11, <1>13
    <3>4. ASSUME IsPrefix(s[i].at, OldRoot) PROVE k = r
      <4>1. OldRoot = OldRoot \o <<>>
        BY <1>0 DEF Path
      <4>2. IsPrefix(t[k].at, <<>>)
        <5>1. IsPrefix(OldRoot \o t[k].at, OldRoot \o <<>>)
          BY <3>2, <3>4, <4>1
        <5> QED
          BY <1>0, KnownPaths, <3>2, <5>1, PathsBelow
      <4>3. t[k].at = <<>>
        BY <3>2, <4>2, PrefixOrder
      <4> QED
        BY <1>10, <4>3
    <3> QED
      BY <3>1, <3>3, <3>4
  <2> QED
    BY <2>1, <2>2
<1>16. OldAt(s, a)
  BY <1>14, <1>15 DEF OldAt
<1> QED
  BY <1>8, <1>9, <1>16 DEF s

----------------------------------------------------------------------------
(* The essentials.                                                         *)

\* A table with a root.
Sound(t) == Table(t) /\ Rooted(t)

\* The names at the top that the essentials are mounted on.
Bound == {"dev", "proc", "sys", "run"}

\* Where the old root is, or where it was asked to be.
Old(p) == IsPrefix(OldRoot, p) \/ IsPrefix(Kept, p)

\* Under top there is a mount at dev, and at and below it what the host has in /dev.
HasDev(t, h, top) ==
  /\ Leads(t, top \o <<"dev">>).at = top \o <<"dev">>
  /\ \A r \in Path : Leads(t, top \o (<<"dev">> \o r)).fs = Leads(h, <<"dev">> \o r).fs

\* Under top there is a mount of the system's own.
HasOwn(t, top, n) ==
  Leads(t, top \o <<n>>).at = top \o <<n>> /\ Leads(t, top \o <<n>>).fs = n

\* The paths under top's n lead where they did.
Agree(s, t, top, n) ==
  \A r \in Path : Leads(s, top \o (<<n>> \o r)) = Leads(t, top \o (<<n>> \o r))

\* The names at the top of the new root, and what is not below them.
LEMMA KnownNames ==
  ASSUME NEW n \in Bound, NEW r \in Path
  PROVE  /\ n \in Names /\ <<n>> \in Path /\ <<n>> \o r \in Path /\ <<n>> # <<>>
         /\ <<n>> \o <<>> = <<n>>
         /\ ~IsPrefix(OldRoot, <<n>> \o r) /\ ~IsPrefix(Kept, <<n>> \o r)
         /\ ~IsPrefix(<<n>>, OldRoot)
         /\ \A m \in Bound : m # n => ~IsPrefix(<<m>>, <<n>> \o r)
<1>1. /\ "mnt" \in Names /\ "oldroot" \in Names /\ "srv" \in Names /\ "old" \in Names
      /\ \A m \in Bound : m \in Names /\ m # "mnt" /\ m # "srv"
  BY NamesAssumption DEF Bound
<1>2. ASSUME NEW S, NEW a \in S, NEW b \in S
      PROVE  <<a>> \in Seq(S) /\ <<a, b>> = <<a>> \o <<b>> /\ <<a>> \o <<>> = <<a>> /\ <<a>> # <<>>
  <2>1. <<a>> \in Seq(S) /\ <<b>> \in Seq(S) /\ <<a, b>> \in Seq(S)
    OBVIOUS
  <2>2. <<a>> \o <<>> = <<a>> /\ <<a>> # <<>>
    BY <2>1
  <2> DEFINE c == <<a>> \o <<b>>
  <2>3. c \in Seq(S) /\ Len(c) = 2 /\ c[1] = a /\ c[2] = b
    BY <2>1
  <2> HIDE DEF c
  <2>4. c = <<a, b>>
    BY <2>1, <2>3
  <2> QED
    BY <2>1, <2>2, <2>4 DEF c
<1>3. /\ OldRoot = <<"mnt">> \o <<"oldroot">> /\ <<"oldroot">> \in Path
      /\ Kept = <<"srv">> \o <<"old">> /\ <<"old">> \in Path
  BY <1>1, <1>2, Zenon DEF OldRoot, Kept, Path
<1>4. <<n>> \o <<>> = <<n>> /\ <<n>> # <<>> /\ <<n>> \in Path
  BY <1>1, <1>2, Zenon DEF Path
<1>5. ~IsPrefix(OldRoot, <<n>> \o r) /\ <<n>> \o r \in Path
  <2>1. ~IsPrefix(<<"mnt">> \o <<"oldroot">>, <<n>> \o r) /\ <<n>> \o r \in Path
    BY <1>1, <1>3, TopNames
  <2> QED
    BY <1>3, <2>1
<1>6. ~IsPrefix(Kept, <<n>> \o r)
  <2>1. ~IsPrefix(<<"srv">> \o <<"old">>, <<n>> \o r)
    BY <1>1, <1>3, TopNames
  <2> QED
    BY <1>3, <2>1
<1>7. ~IsPrefix(<<n>>, OldRoot)
  <2>1. ~IsPrefix(<<n>>, <<"mnt">> \o <<"oldroot">>)
    BY <1>1, <1>3, TopNames
  <2> QED
    BY <1>3, <2>1
<1>8. ASSUME NEW m \in Bound, m # n
      PROVE  ~IsPrefix(<<m>>, <<n>> \o r)
  BY <1>1, <1>8, TopNames
<1> QED
  BY <1>1, <1>4, <1>5, <1>6, <1>7, <1>8

\* The essentials' targets lie apart from each other and from the old root.
LEMMA KnownTargets ==
  ASSUME NEW n \in Bound
  PROVE  /\ Work \o <<n>> \in Path /\ Work \o <<n>> # <<>>
         /\ ~IsPrefix(Work \o OldRoot, Work \o <<n>>)
         /\ ~IsPrefix(Work \o <<n>>, Work \o OldRoot)
         /\ \A r \in Path : /\ Work \o (<<n>> \o r) \in Path
                            /\ (Work \o <<n>>) \o r = Work \o (<<n>> \o r)
                            /\ \A m \in Bound : m # n => ~IsPrefix(Work \o <<m>>, Work \o (<<n>> \o r))
<1>0. Work \in Path /\ OldRoot \in Path /\ Work # <<>> /\ <<>> \in Path
  BY KnownPaths, WorkAssumption
<1>1. /\ <<n>> \in Path /\ ~IsPrefix(OldRoot, <<n>>) /\ ~IsPrefix(<<n>>, OldRoot)
  <2>1. <<n>> \in Path /\ ~IsPrefix(OldRoot, <<n>> \o <<>>) /\ ~IsPrefix(<<n>>, OldRoot)
        /\ <<n>> \o <<>> = <<n>>
    BY <1>0, KnownNames
  <2> QED
    BY <2>1
<1>2. /\ Work \o <<n>> \in Path /\ Work \o <<n>> # <<>>
      /\ ~IsPrefix(Work \o OldRoot, Work \o <<n>>) /\ ~IsPrefix(Work \o <<n>>, Work \o OldRoot)
  BY <1>0, <1>1, PathsBelow
<1>3. ASSUME NEW r \in Path
      PROVE  /\ Work \o (<<n>> \o r) \in Path
             /\ (Work \o <<n>>) \o r = Work \o (<<n>> \o r)
             /\ \A m \in Bound : m # n => ~IsPrefix(Work \o <<m>>, Work \o (<<n>> \o r))
  <2> DEFINE q == <<n>> \o r
  <2>1. q \in Path /\ \A m \in Bound : m # n => ~IsPrefix(<<m>>, q)
    BY KnownNames
  <2>2. \A m \in Bound : <<m>> \in Path
    BY KnownNames
  <2>3. (Work \o <<n>>) \o r = Work \o q
    BY <1>0, <1>1, ConcatAssoc
  <2> HIDE DEF q
  <2>4. Work \o q \in Path
    BY <1>0, <2>1, PathsBelow
  <2>5. ASSUME NEW m \in Bound, m # n
        PROVE  ~IsPrefix(Work \o <<m>>, Work \o q)
    <3>1. <<m>> \in Path /\ ~IsPrefix(<<m>>, q)
      BY <2>1, <2>2, <2>5
    <3> QED
      BY <1>0, <2>1, <3>1, PathsBelow
  <2> QED
    BY <2>3, <2>4, <2>5 DEF q
<1> QED
  BY <1>2, <1>3

\* The work dir does not hide /dev.
LEMMA WorkApart ==
  ASSUME NEW r \in Path
  PROVE  ~IsPrefix(Work, <<"dev">> \o r) /\ ~IsPrefix(Work \o OldRoot, Work)
<1> DEFINE q == <<"dev">> \o r
           d == <<"dev">>
           none == <<>>
<1>0. Work \in Path /\ Work # none /\ OldRoot \in Path /\ OldRoot # none /\ none \in Path
      /\ ~IsPrefix(d, Work)
  BY KnownPaths, WorkAssumption
<1>1. d \in Path /\ q \in Path /\ IsPrefix(d, q)
  <2>1. d \in Path
    BY KnownNames DEF Bound
  <2> QED
    BY <2>1, PathsBelow
<1>2. IsPrefix(Work, d) => Work = none \/ Work = d
  <2> HIDE DEF d, none
  <2>1. ASSUME IsPrefix(Work, d) PROVE Len(Work) <= Len(d) /\ \A k \in 1..Len(Work) : Work[k] = d[k]
    BY <1>0, <1>1, <2>1, PrefixIs
  <2>2. Len(d) = 1
    BY DEF d
  <2>3. ASSUME IsPrefix(Work, d), Len(Work) = 0 PROVE Work = none
    BY <1>0, <2>3 DEF Path, none
  <2>4. ASSUME IsPrefix(Work, d), Len(Work) = 1 PROVE Work = d
    BY <1>0, <1>1, <2>1, <2>2, <2>4 DEF Path
  <2>5. Len(Work) \in Nat
    BY <1>0 DEF Path
  <2> QED
    BY <2>1, <2>2, <2>3, <2>4, <2>5
<1> HIDE DEF q, d
<1>3. ~IsPrefix(Work, q)
  BY <1>0, <1>1, <1>2, PrefixOrder
<1>4. ~IsPrefix(Work \o OldRoot, Work)
  <2>1. Work \o none = Work
    BY <1>0 DEF Path
  <2>2. IsPrefix(OldRoot, none) => OldRoot = none
    BY <1>0, PrefixOrder
  <2> HIDE DEF none
  <2>3. IsPrefix(Work \o OldRoot, Work \o none) <=> IsPrefix(OldRoot, none)
    BY <1>0, PathsBelow
  <2> QED
    BY <1>0, <2>1, <2>2, <2>3
<1> QED
  BY <1>3, <1>4 DEF q

\* Paths that agree have what they had.
LEMMA AgreeKeeps ==
  ASSUME NEW s, NEW t, NEW h, NEW top \in Path
  PROVE  /\ Agree(s, t, top, "dev") /\ HasDev(t, h, top) => HasDev(s, h, top)
         /\ \A n \in {"proc", "sys"} : Agree(s, t, top, n) /\ HasOwn(t, top, n) => HasOwn(s, top, n)
<1>1. ASSUME NEW n \in Bound, Agree(s, t, top, n)
      PROVE  Leads(s, top \o <<n>>) = Leads(t, top \o <<n>>)
  <2>1. <<>> \in Path
    BY KnownPaths
  <2>2. <<n>> \o <<>> = <<n>>
    BY <2>1, KnownNames
  <2>3. Leads(s, top \o (<<n>> \o <<>>)) = Leads(t, top \o (<<n>> \o <<>>))
    BY <1>1, <2>1 DEF Agree
  <2> QED
    BY <2>2, <2>3
<1>2. "dev" \in Bound /\ "proc" \in Bound /\ "sys" \in Bound
  BY DEF Bound
<1>3. ASSUME Agree(s, t, top, "dev"), HasDev(t, h, top) PROVE HasDev(s, h, top)
  <2>1. Leads(s, top \o <<"dev">>) = Leads(t, top \o <<"dev">>)
    BY <1>1, <1>2, <1>3
  <2> QED
    BY <1>3, <2>1 DEF HasDev, Agree
<1>4. ASSUME NEW n \in {"proc", "sys"}, Agree(s, t, top, n), HasOwn(t, top, n) PROVE HasOwn(s, top, n)
  <2>1. Leads(s, top \o <<n>>) = Leads(t, top \o <<n>>)
    BY <1>1, <1>2, <1>4
  <2> QED
    BY <1>4, <2>1 DEF HasOwn
<1> QED
  BY <1>3, <1>4

\* Mounts apart from the old root leave its place clear.
LEMMA GrowsClear ==
  ASSUME NEW t, Table(t), Clear(t), NEW s, Table(s), NEW p \in Path, Grows(t, s, p),
         ~IsPrefix(Work \o OldRoot, p), ~IsPrefix(p, Work \o OldRoot)
  PROVE  Clear(s)
<1> SUFFICES ASSUME NEW i \in DOMAIN s, IsPrefix(Work \o OldRoot, s[i].at)
             PROVE  FALSE
  BY DEF Clear
<1>1. s[i].at \in Path /\ Work \o OldRoot \in Path
  BY KnownPaths DEF Table
<1>2. CASE IsPrefix(p, s[i].at)
  BY <1>1, <1>2, PrefixOrder
<1>3. CASE \E j \in DOMAIN t : s[i].at = t[j].at
  BY <1>3 DEF Clear
<1> QED
  BY <1>2, <1>3 DEF Grows

\* So does a mount on a path that does not lead there.
LEMMA AddClear ==
  ASSUME NEW t, Sound(t), Clear(t), NEW at \in Path, at # <<>>, ~IsPrefix(Work \o OldRoot, at), NEW fs
  PROVE  Sound(Add(t, at, fs)) /\ Clear(Add(t, at, fs))
<1> DEFINE u == <<Mount(at, fs)>>
           s == Stack(t, u)
<1>1. Table(u) /\ DOMAIN u = {1} /\ u[1] = Mount(at, fs) /\ Mount(at, fs).at = at
  BY OneMount
<1>2. Add(t, at, fs) = s
  BY DEF Add
<1>3. Sound(Add(t, at, fs))
  BY AddLeads DEF Sound
<1> HIDE DEF u
<1>4. ASSUME NEW i \in DOMAIN s PROVE ~IsPrefix(Work \o OldRoot, s[i].at)
  <2>1. (i \in DOMAIN t /\ s[i] = t[i]) \/ \E k \in DOMAIN u : s[i] = u[k]
    BY <1>1, StackFrom DEF Sound
  <2>2. CASE i \in DOMAIN t /\ s[i] = t[i]
    BY <2>2 DEF Clear
  <2>3. CASE \E k \in DOMAIN u : s[i] = u[k]
    BY <1>1, <2>3
  <2> QED
    BY <2>1, <2>2, <2>3
<1> QED
  BY <1>2, <1>3, <1>4 DEF Clear

\* A fresh mount at one of the essentials' targets.
LEMMA EssentialAdded ==
  ASSUME NEW t, Sound(t), Clear(t), NEW n \in Bound, NEW fs
  PROVE  LET s == Add(t, Work \o <<n>>, fs)
         IN /\ Sound(s) /\ Clear(s)
            /\ Leads(s, Work \o <<n>>).at = Work \o <<n>> /\ Leads(s, Work \o <<n>>).fs = fs
            /\ \A m \in Bound \ {n} : Agree(s, t, Work, m)
<1> DEFINE at == Work \o <<n>>
           s == Add(t, at, fs)
<1>1. at \in Path /\ at # <<>> /\ ~IsPrefix(Work \o OldRoot, at)
  BY KnownTargets
<1>2. ASSUME NEW m \in Bound, m # n, NEW r \in Path
      PROVE  Work \o (<<m>> \o r) \in Path /\ ~IsPrefix(at, Work \o (<<m>> \o r))
  BY <1>2, KnownTargets
<1> HIDE DEF at
<1>3. Sound(s) /\ Clear(s)
  BY <1>1, AddClear
<1>4. ASSUME NEW p \in Path
      PROVE  Leads(s, p) = IF IsPrefix(at, p) THEN Mount(at, fs) ELSE Leads(t, p)
  BY <1>1, AddLeads DEF Sound
<1> HIDE DEF s
<1>5. Leads(s, at).at = at /\ Leads(s, at).fs = fs
  <2>1. IsPrefix(at, at)
    BY <1>1, PrefixOrder
  <2> QED
    BY <1>1, <1>4, <2>1 DEF Mount
<1>6. ASSUME NEW m \in Bound, m # n
      PROVE  Agree(s, t, Work, m)
  BY <1>2, <1>4, <1>6 DEF Agree
<1> QED
  BY <1>3, <1>5, <1>6 DEF s, at

\* A recursive bind at one of the essentials' targets.
LEMMA EssentialBound ==
  ASSUME NEW t, Sound(t), Clear(t), NEW n \in Bound
  PROVE  LET s == RecBind(t, <<n>>, Work \o <<n>>)
         IN /\ Sound(s) /\ Clear(s)
            /\ Leads(s, Work \o <<n>>).at = Work \o <<n>>
            /\ \A r \in Path : Leads(s, Work \o (<<n>> \o r)).fs = Leads(t, <<n>> \o r).fs
            /\ \A m \in Bound \ {n} : Agree(s, t, Work, m)
<1> DEFINE source == <<n>>
           at == Work \o <<n>>
           s == RecBind(t, source, at)
<1>0. source \in Path
  BY KnownPaths, KnownNames
<1>1. /\ at \in Path /\ at # <<>> /\ ~IsPrefix(Work \o OldRoot, at) /\ ~IsPrefix(at, Work \o OldRoot)
      /\ \A r \in Path : at \o r = Work \o (<<n>> \o r)
  BY KnownTargets
<1>2. ASSUME NEW m \in Bound, m # n, NEW r \in Path
      PROVE  Work \o (<<m>> \o r) \in Path /\ ~IsPrefix(at, Work \o (<<m>> \o r))
  BY <1>2, KnownTargets
<1> HIDE DEF at, source
<1>3. /\ Table(s) /\ Rooted(s) /\ Grows(t, s, at)
      /\ \A p \in Path : ~IsPrefix(at, p) => Leads(s, p) = Leads(t, p)
      /\ \A r \in Path : Leads(s, at \o r).fs = Leads(t, source \o r).fs
      /\ Leads(s, at).at = at
  BY <1>0, <1>1, RecBindLeads DEF Sound
<1> HIDE DEF s
<1>4. Clear(s)
  BY <1>1, <1>3, GrowsClear DEF Sound
<1>5. \A r \in Path : Leads(s, Work \o (<<n>> \o r)).fs = Leads(t, <<n>> \o r).fs
  BY <1>1, <1>3 DEF source
<1>6. ASSUME NEW m \in Bound, m # n
      PROVE  Agree(s, t, Work, m)
  BY <1>2, <1>3, <1>6 DEF Agree
<1> QED
  BY <1>3, <1>4, <1>5, <1>6 DEF s, at, source, Sound

\* After pivot_root, /dev, /proc and /sys are those of the new root.
LEMMA EssentialsPivoted ==
  ASSUME NEW t, Sound(t), Clear(t), Mounted(t, Work), NEW h
  PROVE  /\ Sound(Pivoted(t)) /\ \E a : OldAt(Pivoted(t), a)
         /\ HasDev(t, h, Work) => HasDev(Pivoted(t), h, <<>>)
         /\ \A n \in {"proc", "sys"} : HasOwn(t, Work, n) => HasOwn(Pivoted(t), <<>>, n)
<1> DEFINE s == Pivoted(t)
           none == <<>>
<1>1. /\ Table(s) /\ Rooted(s) /\ \E a : OldAt(s, a)
      /\ \A q \in Path : ~IsPrefix(OldRoot, q) =>
           /\ Leads(s, q).fs = Leads(t, Work \o q).fs
           /\ Leads(s, q).at = q <=> Leads(t, Work \o q).at = Work \o q
  BY PivotedLeads DEF Sound
<1> HIDE DEF s
<1>2. none \in Path /\ \A q \in Path : none \o q = q
  BY KnownPaths, ConcatAssoc
<1>3. \A n \in Bound : \A r \in Path : <<n>> \o r \in Path /\ ~IsPrefix(OldRoot, <<n>> \o r)
  BY KnownNames
<1>4. \A n \in Bound : <<n>> \in Path /\ ~IsPrefix(OldRoot, <<n>>)
  <2>1. \A n \in Bound : <<n>> \o none = <<n>>
    BY <1>2, KnownNames
  <2> QED
    BY <1>2, <1>3, <2>1
<1>5. "dev" \in Bound /\ "proc" \in Bound /\ "sys" \in Bound
  BY DEF Bound
<1> HIDE DEF none
<1>6. ASSUME HasDev(t, h, Work) PROVE HasDev(s, h, none)
  <2>1. Leads(s, <<"dev">>).at = <<"dev">>
    BY <1>1, <1>4, <1>5, <1>6 DEF HasDev
  <2>2. ASSUME NEW r \in Path PROVE Leads(s, none \o (<<"dev">> \o r)).fs = Leads(h, <<"dev">> \o r).fs
    BY <1>1, <1>2, <1>3, <1>5, <1>6 DEF HasDev
  <2>3. none \o <<"dev">> = <<"dev">>
    BY <1>2, <1>4, <1>5
  <2> QED
    BY <2>1, <2>2, <2>3 DEF HasDev
<1>7. ASSUME NEW n \in {"proc", "sys"}, HasOwn(t, Work, n) PROVE HasOwn(s, none, n)
  <2>1. Leads(s, <<n>>).at = <<n>> /\ Leads(s, <<n>>).fs = n
    BY <1>1, <1>4, <1>5, <1>7 DEF HasOwn
  <2>2. none \o <<n>> = <<n>>
    BY <1>2, <1>4, <1>5
  <2> QED
    BY <2>1, <2>2 DEF HasOwn
<1> QED
  BY <1>1, <1>6, <1>7 DEF s, none, Sound

\* Unmounting something of the old root leaves /dev, /proc and /sys.
LEMMA UnmountAgrees ==
  ASSUME NEW t, Sound(t), NEW p \in Path, Old(p)
  PROVE  /\ Sound(Unmount(t, p))
         /\ \A n \in Bound : Agree(Unmount(t, p), t, <<>>, n)
<1> DEFINE s == Unmount(t, p)
           none == <<>>
<1>0. OldRoot \in Path /\ Kept \in Path /\ OldRoot # none /\ Kept # none /\ none \in Path
  BY KnownPaths
<1>1. p # none
  BY <1>0, PrefixOrder DEF Old
<1>2. Table(s) /\ Rooted(s) /\ \A q \in Path : ~IsPrefix(p, q) => Leads(s, q) = Leads(t, q)
  BY <1>1, UnmountLeads DEF Sound
<1> HIDE DEF s
<1>3. ASSUME NEW n \in Bound, NEW r \in Path
      PROVE  Leads(s, none \o (<<n>> \o r)) = Leads(t, none \o (<<n>> \o r))
  <2> DEFINE q == <<n>> \o r
  <2>1. q \in Path /\ ~IsPrefix(OldRoot, q) /\ ~IsPrefix(Kept, q)
    BY KnownNames
  <2> HIDE DEF q
  <2>2. ~IsPrefix(p, q)
    BY <1>0, <2>1, PrefixOrder DEF Old
  <2>3. none \o q = q
    BY <2>1, ConcatAssoc
  <2> QED
    BY <1>2, <2>1, <2>2, <2>3 DEF q
<1> QED
  BY <1>2, <1>3 DEF Agree, Sound, s
----------------------------------------------------------------------------
(* The old root is let go.                                                 *)

\* Nothing is mounted where the old root was.
Gone(t) == \A i \in DOMAIN t : ~IsPrefix(OldRoot, t[i].at)

\* Unmounting takes nothing that was not there.
LEMMA UnmountGone ==
  ASSUME NEW t, Sound(t), NEW p \in Path, Old(p), Gone(t)
  PROVE  Gone(Unmount(t, p))
<1>1. p # <<>>
  BY KnownPaths, PrefixOrder DEF Old
<1> QED
  BY <1>1, UnmountLeads DEF Gone, Sound

\* Detaching the old root itself takes all of it; detaching anything else of it
\* leaves the old root where it is, or takes it along.
LEMMA DetachLeaves ==
  ASSUME NEW t, Sound(t), NEW a, OldAt(t, a), NEW p \in Path, IsPrefix(OldRoot, p)
  PROVE  /\ Mounted(t, OldRoot)
         /\ p = OldRoot => Gone(Unmount(t, p))
         /\ Gone(Unmount(t, p)) \/ OldAt(Unmount(t, p), a)
<1> DEFINE s == Unmount(t, p)
<1>0. OldRoot \in Path /\ OldRoot # <<>> /\ IsPrefix(OldRoot, OldRoot)
  BY KnownPaths, PrefixOrder
<1>1. /\ a \in DOMAIN t /\ t[a].at = OldRoot
      /\ \A i \in DOMAIN t : /\ IsPrefix(OldRoot, t[i].at) => a <= i
                             /\ IsPrefix(t[i].at, OldRoot) => i <= a
  BY DEF OldAt
<1>2. Covering(t, OldRoot) = a
  BY <1>0, <1>1, CoveringIs DEF Sound
<1>3. Mounted(t, OldRoot)
  BY <1>1, <1>2 DEF Mounted
<1>4. p # <<>>
  BY <1>0, PrefixOrder, KnownPaths
<1>5. /\ DOMAIN s = DOMAIN t \ Tree(t, p)
      /\ \A i \in DOMAIN s : s[i] = t[i]
  BY <1>4, UnmountLeads DEF Sound
<1> HIDE DEF s
<1>6. ASSUME p = OldRoot PROVE Gone(s)
  <2>1. \A i \in DOMAIN t : IsPrefix(OldRoot, t[i].at) => i \in Tree(t, OldRoot)
    <3>1. DOMAIN t \subseteq Nat
      BY DEF Sound, Table
    <3> QED
      BY <1>1, <1>2, <3>1 DEF Tree
  <2> QED
    BY <1>5, <1>6, <2>1 DEF Gone
<1>7. CASE a \in Tree(t, p)
  <2>1. IsPrefix(p, OldRoot)
    BY <1>1, <1>7 DEF Tree
  <2>2. p = OldRoot
    BY <1>0, <2>1, PrefixOrder
  <2> QED
    BY <1>3, <1>6, <2>2 DEF s
<1>8. CASE a \notin Tree(t, p)
  <2>1. OldAt(s, a)
    BY <1>1, <1>5, <1>8 DEF OldAt
  <2> QED
    BY <1>3, <1>6, <2>1 DEF s
<1> QED
  BY <1>7, <1>8

\* One turn of unmountUnder.
LEMMA UnmountNextKeeps ==
  ASSUME NEW d \in BOOLEAN, NEW used, UnmountNext(d, used), Sound(mine),
         \A i \in DOMAIN todo : todo[i] \in Path /\ Old(todo[i])
  PROVE  /\ Sound(mine')
         /\ \A n \in Bound : Agree(mine', mine, <<>>, n)
         /\ \A i \in DOMAIN todo' : i \in DOMAIN todo /\ todo'[i] = todo[i]
<1>1. PICK i \in DOMAIN todo :
        /\ todo' = Restrict(todo, DOMAIN todo \ {i})
        /\ mine' = Unmount(mine, todo[i]) \/ mine' = mine
  BY Zenon DEF UnmountNext
<1>2. \A j \in DOMAIN todo' : j \in DOMAIN todo /\ todo'[j] = todo[j]
  BY <1>1 DEF Restrict
<1>3. CASE mine' = mine
  BY <1>2, <1>3 DEF Agree
<1>4. CASE mine' = Unmount(mine, todo[i])
  BY <1>2, <1>4, UnmountAgrees
<1> QED
  BY <1>1, <1>3, <1>4

\* A turn that detaches: the old root is gone, or it is still to be detached.
LEMMA DetachNext ==
  ASSUME UnmountNext(TRUE, {}), Sound(mine),
         \A i \in DOMAIN todo : todo[i] \in Path /\ IsPrefix(OldRoot, todo[i]),
         Gone(mine) \/ \E a \in DOMAIN todo : OldAt(mine, a) /\ todo[a] = OldRoot
  PROVE  Gone(mine') \/ \E a \in DOMAIN todo' : OldAt(mine', a) /\ todo'[a] = OldRoot
<1>1. PICK i \in DOMAIN todo :
        /\ todo' = Restrict(todo, DOMAIN todo \ {i})
        /\ IF CanUnmount(mine, todo[i], TRUE, {}) THEN mine' = Unmount(mine, todo[i]) ELSE mine' = mine
  BY Zenon DEF UnmountNext
<1>2. Mounted(mine, todo[i]) => CanUnmount(mine, todo[i], TRUE, {})
  BY DEF CanUnmount
<1>3. Old(todo[i]) /\ todo[i] \in Path /\ IsPrefix(OldRoot, todo[i])
  BY DEF Old
<1>4. CASE Gone(mine)
  BY <1>1, <1>3, <1>4, UnmountGone
<1>5. ASSUME NEW a \in DOMAIN todo, OldAt(mine, a), todo[a] = OldRoot
      PROVE  Gone(mine') \/ \E b \in DOMAIN todo' : OldAt(mine', b) /\ todo'[b] = OldRoot
  <2>1. /\ Mounted(mine, OldRoot)
        /\ todo[i] = OldRoot => Gone(Unmount(mine, todo[i]))
        /\ Gone(Unmount(mine, todo[i])) \/ OldAt(Unmount(mine, todo[i]), a)
    BY <1>3, <1>5, DetachLeaves
  <2>2. CASE i = a
    BY <1>1, <1>2, <1>5, <2>1, <2>2
  <2>3. CASE i # a
    <3>1. a \in DOMAIN todo' /\ todo'[a] = OldRoot
      BY <1>1, <1>5, <2>3 DEF Restrict
    <3>2. Gone(mine') \/ OldAt(mine', a)
      BY <1>1, <1>5, <2>1
    <3> QED
      BY <3>1, <3>2
  <2> QED
    BY <2>2, <2>3
<1> QED
  BY <1>4, <1>5

----------------------------------------------------------------------------
(* The inductive invariant.                                                *)

\* The stages in which the thread has a table of its own and has not pivoted.
Preparing == {"private", "bind", "newroot", "dev", "proc", "sys", "run", "pivot"}

\* The host's table, and the thread's, have a root; the place of the old root is
\* clear until pivot_root fills it.
Tables ==
  /\ Sound(host) /\ Clear(host)
  /\ stage \in Preparing \union PivotedStages => Sound(mine)
  /\ stage \in Preparing => Clear(mine)

\* Until /dev is bound, the thread sees the host's.
SeesDev ==
  stage \in {"private", "bind", "newroot", "dev"} =>
    \A r \in Path : Leads(mine, <<"dev">> \o r).fs = Leads(host, <<"dev">> \o r).fs

\* Where the new root is.
Top == IF stage \in PivotedStages THEN <<>> ELSE Work

\* What has been mounted there is there.
Essentials ==
  /\ stage \in {"proc", "sys", "run", "pivot"} \union PivotedStages => HasDev(mine, host, Top)
  /\ stage \in {"sys", "run", "pivot"} \union PivotedStages => HasOwn(mine, Top, "proc")
  /\ stage \in {"run", "pivot"} \union PivotedStages => HasOwn(mine, Top, "sys")

\* What is still to unmount is of the old root.
Passes ==
  /\ stage \in {"detach", "unmount", "force"} =>
       \A i \in DOMAIN todo : todo[i] \in Path /\ Old(todo[i])
  /\ stage = "detach" => \A i \in DOMAIN todo : IsPrefix(OldRoot, todo[i])

\* The old root is at its place, and then it is still to be detached or gone.
Leaving ==
  /\ stage = "cleanup" => \E a : OldAt(mine, a)
  /\ stage = "detach" => keep = "no"
  /\ stage = "detach" /\ leader =>
       Gone(mine) \/ \E a \in DOMAIN todo : OldAt(mine, a) /\ todo[a] = OldRoot
  /\ stage \in {"exec", "init"} /\ keep = "no" /\ leader => Gone(mine)

\* The inductive invariant.
Inv == Private /\ Tables /\ SeesDev /\ Essentials /\ Passes /\ Leaving
\* A host's table is one, with room for the old root.
LEMMA HostSound ==
  ASSUME NEW t \in HostTables
  PROVE  Sound(t) /\ Clear(t)
<1>1. /\ t \in Seq([at : Seq(Names), fs : STRING]) /\ Rooted(t)
      /\ \A i \in DOMAIN t : ~IsPrefix(Work \o OldRoot, t[i].at)
  BY HostTablesAssumption
<1>2. ASSUME NEW S, NEW s \in Seq(S)
      PROVE  Len(s) \in Nat /\ DOMAIN s = 1..Len(s) /\ \A i \in DOMAIN s : s[i] \in S
  OBVIOUS
<1> DEFINE M == [at : Seq(Names), fs : STRING]
<1>3. Len(t) \in Nat /\ DOMAIN t = 1..Len(t) /\ \A i \in DOMAIN t : t[i] \in M
  <2> HIDE DEF M
  <2>1. t \in Seq(M)
    BY <1>1 DEF M
  <2> QED
    BY <1>2, <2>1
<1>4. Table(t)
  <2>1. \A i \in DOMAIN t : t[i].at \in Path
    BY <1>3 DEF Path
  <2> QED
    BY <1>3, <2>1 DEF Table
<1> QED
  BY <1>1, <1>4 DEF Sound, Clear

\* The run starts in the invariant.
LEMMA InitInv == Init => Inv
<1> SUFFICES ASSUME Init PROVE Inv
  OBVIOUS
<1>1. stage = "work" /\ host \in HostTables
  BY DEF Init
<1>2. Sound(host) /\ Clear(host)
  BY <1>1, HostSound
<1> QED
  BY <1>1, <1>2 DEF Inv, Private, Early, Tables, SeesDev, Essentials, Passes, Leaving,
                    Preparing, PivotedStages

\* A table without the tmpfs that an aborted run takes off it is still one.
LEMMA UnmountClear ==
  ASSUME NEW t, Sound(t), Clear(t)
  PROVE  Sound(Unmount(t, Work)) /\ Clear(Unmount(t, Work))
<1>1. Work \in Path /\ Work # <<>>
  BY KnownPaths, WorkAssumption
<1> QED
  BY <1>1, UnmountLeads DEF Sound, Clear

\* Up to the bind of the work dir: the tmpfs, the namespace.
LEMMA EarlyInv ==
  ASSUME Inv, MountWork \/ Unshare \/ MakePrivate
  PROVE  Inv'
<1> USE DEF Inv, Private, Early, SeesDev, Essentials, Passes, Leaving, Preparing, PivotedStages
<1>1. CASE MountWork
  <2>1. stage = "work" /\ stage' = "unshare" /\ (host' = host \/ host' = Add(host, Work, "tmpfs"))
    BY <1>1, Zenon DEF MountWork
  <2>2. Work \in Path /\ Work # <<>> /\ ~IsPrefix(Work \o OldRoot, Work)
    BY KnownPaths, WorkAssumption, WorkApart
  <2>3. Sound(host') /\ Clear(host')
    BY <2>1, <2>2, AddClear DEF Tables
  <2> QED
    BY <2>1, <2>3 DEF Tables
<1>2. CASE Unshare
  <2>1. stage = "unshare" /\ stage' = "private" /\ mine' = host /\ host' = host
    BY <1>2 DEF Unshare
  <2>2. Sound(host) /\ Clear(host)
    BY DEF Tables
  <2> QED
    BY <2>1, <2>2 DEF Tables
<1>3. CASE MakePrivate
  <2>1. stage = "private" /\ stage' = "bind" /\ mine' = mine /\ host' = host /\ peers' = FALSE
    BY <1>3 DEF MakePrivate
  <2>2. Sound(host) /\ Clear(host) /\ Sound(mine) /\ Clear(mine)
    BY <2>1 DEF Tables
  <2>3. \A r \in Path : Leads(mine, <<"dev">> \o r).fs = Leads(host, <<"dev">> \o r).fs
    BY <2>1
  <2> QED
    BY <2>1, <2>2, <2>3 DEF Tables
<1> QED
  BY <1>1, <1>2, <1>3

\* The new root becomes a mount.
LEMMA NewRootInv ==
  ASSUME Inv, EnsureMountPoint \/ NewRootPrivate
  PROVE  Inv'
<1> USE DEF Inv, Private, Early, SeesDev, Essentials, Passes, Leaving, Preparing, PivotedStages
<1>1. CASE EnsureMountPoint
  <2>1. /\ stage = "bind" /\ stage' = "newroot" /\ peers' = peers
        /\ IF IsMountPoint(mine) THEN UNCHANGED <<mine, host>> ELSE Makes(Bind(mine, Work, Work))
    BY <1>1, Zenon DEF EnsureMountPoint
  <2>2. ~peers
    BY <2>1
  <2>3. host' = host /\ (mine' = mine \/ mine' = Add(mine, Work, FsAt(mine, Work)))
    BY <2>1, <2>2 DEF Makes, Bind
  <2>4. Work \in Path /\ Work # <<>> /\ ~IsPrefix(Work \o OldRoot, Work)
    BY KnownPaths, WorkAssumption, WorkApart
  <2>5. Sound(host) /\ Clear(host) /\ Sound(mine) /\ Clear(mine)
    BY <2>1 DEF Tables
  <2>6. Sound(mine') /\ Clear(mine')
    BY <2>3, <2>4, <2>5, AddClear
  <2>7. ASSUME NEW r \in Path
        PROVE  Leads(mine', <<"dev">> \o r).fs = Leads(host, <<"dev">> \o r).fs
    <3>1. <<"dev">> \o r \in Path /\ ~IsPrefix(Work, <<"dev">> \o r)
      BY WorkApart, KnownNames DEF Bound
    <3>2. Leads(mine, <<"dev">> \o r).fs = Leads(host, <<"dev">> \o r).fs
      BY <2>1
    <3> DEFINE q == <<"dev">> \o r
    <3> HIDE DEF q
    <3>3. q \in Path /\ ~IsPrefix(Work, q) => Leads(Add(mine, Work, FsAt(mine, Work)), q) = Leads(mine, q)
      BY <2>4, <2>5, AddLeads DEF Sound
    <3> QED
      BY <2>3, <3>1, <3>2, <3>3 DEF q
  <2> QED
    BY <2>1, <2>2, <2>3, <2>5, <2>6, <2>7 DEF Tables
<1>2. CASE NewRootPrivate
  <2>1. /\ stage = "newroot" /\ stage' = "dev"
        /\ UNCHANGED <<host, mine, peers>>
    BY <1>2 DEF NewRootPrivate, EssentialStages
  <2>2. Sound(host) /\ Clear(host) /\ Sound(mine) /\ Clear(mine)
    BY <2>1 DEF Tables
  <2>3. ~peers /\ \A r \in Path : Leads(mine, <<"dev">> \o r).fs = Leads(host, <<"dev">> \o r).fs
    BY <2>1
  <2> QED
    BY <2>1, <2>2, <2>3 DEF Tables
<1> QED
  BY <1>1, <1>2

\* What is mounted below the new root.
LEMMA EssentialInv ==
  ASSUME Inv, NEW k \in DOMAIN EssentialMounts, MountEssential(k)
  PROVE  Inv'
<1>1. k \in 1..4 /\ peers' = peers
  BY DEF EssentialMounts, MountEssential
<1>2. /\ stage = EssentialStages[k]
      /\ stage' = IF k = 4 THEN "pivot" ELSE EssentialStages[k + 1]
  BY DEF MountEssential, EssentialStages
<1>3. stage \in {"dev", "proc", "sys", "run"} /\ stage' \in {"proc", "sys", "run", "pivot"}
  BY <1>1, <1>2 DEF EssentialStages
<1>4. ~peers
  BY <1>3 DEF Inv, Private, Early
<1>5. /\ host' = host
      /\ \/ k = 1 /\ mine' = RecBind(mine, <<"dev">>, Work \o <<"dev">>)
         \/ k = 2 /\ mine' = Add(mine, Work \o <<"proc">>, "proc")
         \/ k = 3 /\ mine' = Add(mine, Work \o <<"sys">>, "sys")
         \/ k = 4 /\ (mine' = mine \/ mine' = RecBind(mine, <<"run">>, Work \o <<"run">>))
  BY <1>1, <1>4 DEF MountEssential, EssentialMounts, EssentialStages, Makes
<1>6. Sound(host) /\ Clear(host) /\ Sound(mine) /\ Clear(mine)
  BY <1>3 DEF Inv, Tables, Preparing
<1>7. Work \in Path
  BY KnownPaths
<1>8. "dev" \in Bound /\ "proc" \in Bound \ {"dev"} /\ "sys" \in Bound \ {"dev", "proc"}
      /\ "run" \in Bound \ {"dev", "proc", "sys"}
  BY DEF Bound
<1>9. Top = Work
  BY <1>3 DEF Top, PivotedStages
<1>10. CASE k = 1
  <2>1. stage = "dev" /\ stage' = "proc" /\ mine' = RecBind(mine, <<"dev">>, Work \o <<"dev">>)
    BY <1>2, <1>5, <1>10 DEF EssentialStages
  <2>2. \A r \in Path : Leads(mine, <<"dev">> \o r).fs = Leads(host, <<"dev">> \o r).fs
    BY <2>1 DEF Inv, SeesDev
  <2>3. /\ Sound(mine') /\ Clear(mine')
        /\ Leads(mine', Work \o <<"dev">>).at = Work \o <<"dev">>
        /\ \A r \in Path : Leads(mine', Work \o (<<"dev">> \o r)).fs = Leads(mine, <<"dev">> \o r).fs
    BY <1>6, <1>8, <2>1, EssentialBound
  <2>4. HasDev(mine', host, Work)
    BY <2>2, <2>3 DEF HasDev
  <2> QED
    BY <1>1, <1>4, <1>5, <1>6, <2>1, <2>3, <2>4
       DEF Inv, Private, Early, Tables, SeesDev, Essentials, Passes, Leaving, Preparing, PivotedStages, Top
<1>11. CASE k = 2
  <2>1. stage = "proc" /\ stage' = "sys" /\ mine' = Add(mine, Work \o <<"proc">>, "proc")
    BY <1>2, <1>5, <1>11 DEF EssentialStages
  <2>2. HasDev(mine, host, Work)
    BY <1>9, <2>1 DEF Inv, Essentials
  <2>3. /\ Sound(mine') /\ Clear(mine') /\ HasOwn(mine', Work, "proc")
        /\ Agree(mine', mine, Work, "dev")
    BY <1>6, <1>8, <2>1, EssentialAdded DEF HasOwn
  <2>4. HasDev(mine', host, Work)
    BY <1>7, <2>2, <2>3, AgreeKeeps
  <2> QED
    BY <1>1, <1>4, <1>5, <1>6, <2>1, <2>3, <2>4
       DEF Inv, Private, Early, Tables, SeesDev, Essentials, Passes, Leaving, Preparing, PivotedStages, Top
<1>12. CASE k = 3
  <2>1. stage = "sys" /\ stage' = "run" /\ mine' = Add(mine, Work \o <<"sys">>, "sys")
    BY <1>2, <1>5, <1>12 DEF EssentialStages
  <2>2. HasDev(mine, host, Work) /\ HasOwn(mine, Work, "proc")
    BY <1>9, <2>1 DEF Inv, Essentials
  <2>3. /\ Sound(mine') /\ Clear(mine') /\ HasOwn(mine', Work, "sys")
        /\ Agree(mine', mine, Work, "dev") /\ Agree(mine', mine, Work, "proc")
    BY <1>6, <1>8, <2>1, EssentialAdded DEF HasOwn
  <2>4. HasDev(mine', host, Work) /\ HasOwn(mine', Work, "proc")
    BY <1>7, <2>2, <2>3, AgreeKeeps
  <2> QED
    BY <1>1, <1>4, <1>5, <1>6, <2>1, <2>3, <2>4
       DEF Inv, Private, Early, Tables, SeesDev, Essentials, Passes, Leaving, Preparing, PivotedStages, Top
<1>13. CASE k = 4
  <2>1. /\ stage = "run" /\ stage' = "pivot"
        /\ mine' = mine \/ mine' = RecBind(mine, <<"run">>, Work \o <<"run">>)
    BY <1>2, <1>5, <1>13 DEF EssentialStages
  <2>2. HasDev(mine, host, Work) /\ HasOwn(mine, Work, "proc") /\ HasOwn(mine, Work, "sys")
    BY <1>9, <2>1 DEF Inv, Essentials
  <2>3. /\ Sound(mine') /\ Clear(mine')
        /\ \A n \in {"dev", "proc", "sys"} : Agree(mine', mine, Work, n)
    <3>1. CASE mine' = mine
      BY <1>6, <3>1 DEF Agree
    <3>2. CASE mine' = RecBind(mine, <<"run">>, Work \o <<"run">>)
      BY <1>6, <1>8, <3>2, EssentialBound
    <3> QED
      BY <2>1, <3>1, <3>2
  <2>4. HasDev(mine', host, Work) /\ HasOwn(mine', Work, "proc") /\ HasOwn(mine', Work, "sys")
    BY <1>7, <2>2, <2>3, AgreeKeeps
  <2> QED
    BY <1>1, <1>4, <1>5, <1>6, <2>1, <2>3, <2>4
       DEF Inv, Private, Early, Tables, SeesDev, Essentials, Passes, Leaving, Preparing, PivotedStages, Top
<1> QED
  BY <1>1, <1>10, <1>11, <1>12, <1>13

\* pivot_root.
LEMMA PivotInv ==
  ASSUME Inv, PivotRoot
  PROVE  Inv'
<1>1. /\ stage = "pivot" /\ Mounted(mine, Work) /\ stage' = "cleanup"
      /\ mine' = Pivoted(mine) /\ host' = host /\ peers' = FALSE
  BY DEF PivotRoot
<1>2. Sound(host) /\ Clear(host) /\ Sound(mine) /\ Clear(mine)
  BY <1>1 DEF Inv, Tables, Preparing
<1>3. Top = Work
  BY <1>1 DEF Top, PivotedStages
<1>4. HasDev(mine, host, Work) /\ HasOwn(mine, Work, "proc") /\ HasOwn(mine, Work, "sys")
  BY <1>1, <1>3 DEF Inv, Essentials
<1>5. /\ Sound(mine') /\ \E a : OldAt(mine', a)
      /\ HasDev(mine', host, <<>>) /\ HasOwn(mine', <<>>, "proc") /\ HasOwn(mine', <<>>, "sys")
  BY <1>1, <1>2, <1>4, EssentialsPivoted
<1> QED
  BY <1>1, <1>2, <1>5
     DEF Inv, Private, Early, Tables, SeesDev, Essentials, Passes, Leaving, Preparing, PivotedStages, Top

\* What the pivoted system has, as long as a step leaves it.
Settled ==
  /\ ~peers /\ Sound(host) /\ Clear(host) /\ Sound(mine)
  /\ HasDev(mine, host, <<>>) /\ HasOwn(mine, <<>>, "proc") /\ HasOwn(mine, <<>>, "sys")

\* After pivot_root that is what the invariant says.
LEMMA SettledIs ==
  /\ Inv /\ stage \in PivotedStages =>
       Settled /\ Passes /\ Leaving
  /\ stage' \in PivotedStages /\ Settled' /\ Passes' /\ Leaving' => Inv'
  BY DEF Settled, Inv, Private, Early, Tables, SeesDev, Essentials, Preparing, PivotedStages, Top

\* A turn of unmountUnder leaves it.
LEMMA SettledKept ==
  ASSUME NEW d \in BOOLEAN, NEW used, Settled, UnmountNext(d, used), UNCHANGED <<host, peers>>,
         \A i \in DOMAIN todo : todo[i] \in Path /\ Old(todo[i])
  PROVE  Settled' /\ \A i \in DOMAIN todo' : i \in DOMAIN todo /\ todo'[i] = todo[i]
<1>1. /\ Sound(mine')
      /\ \A n \in Bound : Agree(mine', mine, <<>>, n)
      /\ \A i \in DOMAIN todo' : i \in DOMAIN todo /\ todo'[i] = todo[i]
  BY UnmountNextKeeps DEF Settled
<1>2. "dev" \in Bound /\ "proc" \in Bound /\ "sys" \in Bound
  BY DEF Bound
<1>3. HasDev(mine', host, <<>>) /\ HasOwn(mine', <<>>, "proc") /\ HasOwn(mine', <<>>, "sys")
  BY <1>1, <1>2, KnownPaths, AgreeKeeps DEF Settled
<1> QED
  BY <1>1, <1>3 DEF Settled

\* What the mount table lists under a path of the old root.
LEMMA TargetsOld ==
  ASSUME NEW t, Sound(t), NEW p, p \in {OldRoot, Kept}
  PROVE  \A i \in DOMAIN Targets(t, p) :
           /\ Targets(t, p)[i] \in Path /\ IsPrefix(p, Targets(t, p)[i]) /\ Old(Targets(t, p)[i])
<1>1. \A i \in DOMAIN Targets(t, p) :
        i \in DOMAIN t /\ IsPrefix(p, t[i].at) /\ Targets(t, p)[i] = t[i].at
  BY DEF Targets
<1> QED
  BY <1>1 DEF Sound, Table, Old

\* CleanupOldRoot.
LEMMA CleanupInv ==
  ASSUME Inv, Cleanup \/ Detach \/ Detached
  PROVE  Inv'
<1> USE DEF PivotedStages
<1>1. CASE Cleanup
  <2>1. /\ stage = "cleanup" /\ UNCHANGED <<mine, host, peers, keep, leader>>
        /\ \/ keep = "no" /\ stage' = "detach" /\ todo' = Targets(IF leader THEN mine ELSE host, OldRoot)
           \/ keep # "no" /\ stage' = "exec"
    BY <1>1, Zenon DEF Cleanup, given
  <2>2. Settled /\ \E a : OldAt(mine, a)
    BY <2>1, SettledIs DEF Leaving
  <2>3. Settled'
    BY <2>1, <2>2 DEF Settled
  <2>4. stage' = "detach" =>
          \A i \in DOMAIN todo' : todo'[i] \in Path /\ Old(todo'[i]) /\ IsPrefix(OldRoot, todo'[i])
    <3>1. Sound(mine) /\ Sound(host)
      BY <2>2 DEF Settled
    <3> QED
      BY <2>1, <3>1, TargetsOld
  <2>5. stage' = "detach" /\ leader =>
          \E a \in DOMAIN todo' : OldAt(mine, a) /\ todo'[a] = OldRoot
    <3>1. PICK a : OldAt(mine, a)
      BY <2>2
    <3>2. a \in DOMAIN mine /\ mine[a].at = OldRoot /\ IsPrefix(OldRoot, OldRoot)
      BY <3>1, KnownPaths, PrefixOrder DEF OldAt
    <3>3. a \in DOMAIN Targets(mine, OldRoot) /\ Targets(mine, OldRoot)[a] = OldRoot
      BY <3>2 DEF Targets
    <3> QED
      BY <2>1, <3>1, <3>3
  <2>6. Passes'
    BY <2>1, <2>4 DEF Passes
  <2>7. Leaving'
    BY <2>1, <2>5 DEF Leaving
  <2> QED
    BY <2>1, <2>3, <2>6, <2>7, SettledIs
<1>2. CASE Detach
  <2>1. stage = "detach" /\ UnmountNext(TRUE, {}) /\ UNCHANGED <<stage, host, peers, keep, leader>>
    BY <1>2 DEF Detach, given
  <2>2. Settled /\ Passes /\ Leaving
    BY <2>1, SettledIs
  <2>3. \A i \in DOMAIN todo : todo[i] \in Path /\ Old(todo[i]) /\ IsPrefix(OldRoot, todo[i])
    BY <2>1, <2>2 DEF Passes
  <2>4. Settled' /\ \A i \in DOMAIN todo' : i \in DOMAIN todo /\ todo'[i] = todo[i]
    BY <2>1, <2>2, <2>3, SettledKept
  <2>5. ASSUME leader
        PROVE  Gone(mine') \/ \E a \in DOMAIN todo' : OldAt(mine', a) /\ todo'[a] = OldRoot
    BY <2>1, <2>2, <2>3, <2>5, DetachNext DEF Settled, Leaving
  <2>6. Passes'
    BY <2>1, <2>3, <2>4 DEF Passes
  <2>7. Leaving'
    BY <2>1, <2>2, <2>5 DEF Leaving
  <2> QED
    BY <2>1, <2>4, <2>6, <2>7, SettledIs
<1>3. CASE Detached
  <2>1. /\ stage = "detach" /\ todo = <<>> /\ stage' = "exec"
        /\ UNCHANGED <<mine, host, peers, keep, leader>>
    BY <1>3 DEF Detached, given
  <2>2. Settled /\ Leaving
    BY <2>1, SettledIs
  <2>3. DOMAIN todo = {}
    BY <2>1
  <2>4. leader => Gone(mine)
    BY <2>1, <2>2, <2>3 DEF Leaving
  <2>5. Settled'
    BY <2>1, <2>2 DEF Settled
  <2>6. Passes' /\ Leaving'
    BY <2>1, <2>4 DEF Passes, Leaving, Gone
  <2> QED
    BY <2>1, <2>5, <2>6, SettledIs
<1> QED
  BY <1>1, <1>2, <1>3

\* From the exec to the restart.
LEMMA RestartInv ==
  ASSUME Inv, Exec \/ Reboot \/ UnmountKept \/ Unmounted
  PROVE  Inv'
<1> USE DEF PivotedStages
<1>0. KeptAt \in {OldRoot, Kept}
  BY DEF KeptAt
<1>1. CASE Exec
  <2>1. stage = "exec" /\ stage' = "init" /\ UNCHANGED <<mine, host, peers, keep, leader>>
    BY <1>1 DEF Exec, given
  <2>2. Settled /\ Leaving
    BY <2>1, SettledIs
  <2>3. Settled' /\ Passes' /\ Leaving'
    BY <2>1, <2>2 DEF Settled, Passes, Leaving, Gone
  <2> QED
    BY <2>1, <2>3, SettledIs
<1>2. CASE Reboot
  <2>1. /\ stage = "init" /\ UNCHANGED <<mine, host, peers>>
        /\ stage' = "restarted" \/ (stage' = "unmount" /\ todo' = Targets(mine, KeptAt))
    BY <1>2, Zenon DEF Reboot
  <2>2. Settled
    BY <2>1, SettledIs
  <2>3. Settled'
    BY <2>1, <2>2 DEF Settled
  <2>4. Passes'
    <3>1. stage' = "unmount" => \A i \in DOMAIN todo' : todo'[i] \in Path /\ Old(todo'[i])
      BY <1>0, <2>1, <2>2, TargetsOld DEF Settled
    <3> QED
      BY <2>1, <3>1 DEF Passes
  <2>5. Leaving'
    BY <2>1 DEF Leaving
  <2> QED
    BY <2>1, <2>3, <2>4, <2>5, SettledIs
<1>3. CASE UnmountKept
  <2>1. stage \in {"unmount", "force"} /\ UnmountNext(FALSE, busy) /\ UNCHANGED <<stage, host, peers>>
    BY <1>3 DEF UnmountKept
  <2>2. Settled /\ Passes
    BY <2>1, SettledIs
  <2>3. \A i \in DOMAIN todo : todo[i] \in Path /\ Old(todo[i])
    BY <2>1, <2>2 DEF Passes
  <2>4. Settled' /\ \A i \in DOMAIN todo' : i \in DOMAIN todo /\ todo'[i] = todo[i]
    BY <2>1, <2>2, <2>3, SettledKept
  <2>5. Passes' /\ Leaving'
    BY <2>1, <2>3, <2>4 DEF Passes, Leaving
  <2> QED
    BY <2>1, <2>4, <2>5, SettledIs
<1>4. CASE Unmounted
  <2>1. /\ stage \in {"unmount", "force"} /\ UNCHANGED <<mine, host, peers>>
        /\ stage' = "restarted" \/ (stage' = "force" /\ todo' = Targets(mine, KeptAt))
    BY <1>4, Zenon DEF Unmounted
  <2>2. Settled
    BY <2>1, SettledIs
  <2>3. Settled'
    BY <2>1, <2>2 DEF Settled
  <2>4. Passes'
    <3>1. stage' = "force" => \A i \in DOMAIN todo' : todo'[i] \in Path /\ Old(todo'[i])
      BY <1>0, <2>1, <2>2, TargetsOld DEF Settled
    <3> QED
      BY <2>1, <3>1 DEF Passes
  <2>5. Leaving'
    BY <2>1 DEF Leaving
  <2> QED
    BY <2>1, <2>3, <2>4, <2>5, SettledIs
<1> QED
  BY <1>1, <1>2, <1>3, <1>4

\* A step fails.
LEMMA AbortInv ==
  ASSUME Inv, Abort
  PROVE  Inv'
<1>1. stage' = "aborted" /\ (host' = host \/ host' = Unmount(host, Work))
  BY DEF Abort
<1>2. Sound(host') /\ Clear(host')
  BY <1>1, UnmountClear DEF Inv, Tables
<1> QED
  BY <1>1, <1>2 DEF Inv, Private, Early, Tables, SeesDev, Essentials, Passes, Leaving, Preparing, PivotedStages

\* Every step keeps the invariant.
LEMMA NextInv ==
  ASSUME Inv, [Next]_vars
  PROVE  Inv'
<1>1. CASE UNCHANGED vars
  BY <1>1 DEF vars, pass, given, Inv, Private, Tables, SeesDev, Essentials, Passes, Leaving,
              Sound, Table, Rooted, Clear, HasDev, HasOwn, Top, Gone
<1>2. ASSUME NEW k \in DOMAIN EssentialMounts, MountEssential(k) PROVE Inv'
  BY <1>2, EssentialInv
<1> QED
  BY <1>1, <1>2, EarlyInv, NewRootInv, PivotInv, CleanupInv, RestartInv, AbortInv, Zenon DEF Next

\* The pivoted system has its own /proc and /sys, and at and below /dev every
\* filesystem the host has there, whatever else the host has mounted, and whatever
\* CleanupOldRoot and UnmountOldRoot then unmount (SetupEssentials before PivotRoot,
\* MS_BIND with MS_REC).
THEOREM PivotedHasEssentials == Spec => []EssentialsVisible
<1>1. Inv => EssentialsVisible
  <2> SUFFICES ASSUME Inv, stage \in PivotedStages
               PROVE  /\ \A k \in 1..3 : Mounted(mine, EssentialMounts[k].target)
                      /\ FsAt(mine, <<"proc">>) = "proc" /\ FsAt(mine, <<"sys">>) = "sys"
                      /\ FsAt(mine, <<"dev">>) = FsAt(host, <<"dev">>)
                      /\ \A i \in DOMAIN host :
                           IsPrefix(<<"dev">>, host[i].at) /\ Visible(host, i)
                             => FsAt(mine, host[i].at) = host[i].fs
    BY DEF EssentialsVisible
  <2>1. Settled
    BY SettledIs
  <2> DEFINE none == <<>>
             dev == <<"dev">>
  <2>2. /\ none \in Path /\ \A q \in Path : none \o q = q
        /\ dev \in Path /\ <<"proc">> \in Path /\ <<"sys">> \in Path
        /\ dev \o none = dev
    <3>1. none \in Path /\ "dev" \in Bound /\ "proc" \in Bound /\ "sys" \in Bound
      BY KnownPaths DEF Bound
    <3>2. dev \o none = dev
      BY <3>1, KnownNames
    <3> QED
      BY <3>1, <3>2, KnownNames, ConcatAssoc
  <2>3. /\ Leads(mine, dev).at = dev
        /\ \A r \in Path : Leads(mine, none \o (dev \o r)).fs = Leads(host, dev \o r).fs
        /\ Leads(mine, <<"proc">>).at = <<"proc">> /\ Leads(mine, <<"proc">>).fs = "proc"
        /\ Leads(mine, <<"sys">>).at = <<"sys">> /\ Leads(mine, <<"sys">>).fs = "sys"
    BY <2>1, <2>2 DEF Settled, HasDev, HasOwn
  <2> HIDE DEF none, dev
  <2>4. ASSUME NEW r \in Path PROVE FsAt(mine, dev \o r) = FsAt(host, dev \o r)
    <3>1. dev \o r \in Path
      BY <2>2, PathsBelow
    <3> QED
      BY <2>2, <2>3, <3>1 DEF FsAt, Leads
  <2>5. FsAt(mine, dev) = FsAt(host, dev)
    BY <2>2, <2>4
  <2>6. ASSUME NEW i \in DOMAIN host, IsPrefix(dev, host[i].at), Visible(host, i)
        PROVE  FsAt(mine, host[i].at) = host[i].fs
    <3>1. host[i].at \in Path
      BY <2>1 DEF Settled, Sound, Table
    <3>2. FsAt(mine, host[i].at) = FsAt(host, host[i].at)
      <4>1. Rest(dev, host[i].at) \in Path /\ host[i].at = dev \o Rest(dev, host[i].at)
        BY <2>2, <2>6, <3>1, PathsBelow
      <4>2. FsAt(mine, dev \o Rest(dev, host[i].at)) = FsAt(host, dev \o Rest(dev, host[i].at))
        BY <2>4, <4>1
      <4> QED
        BY <4>1, <4>2
    <3> QED
      BY <2>6, <3>2 DEF FsAt, Visible
  <2>7. \A k \in 1..3 : EssentialMounts[k].target \in {dev, <<"proc">>, <<"sys">>}
    BY DEF EssentialMounts, dev
  <2>8. \A k \in 1..3 : Mounted(mine, EssentialMounts[k].target)
    BY <2>3, <2>7 DEF Mounted, Leads
  <2> QED
    BY <2>3, <2>5, <2>6, <2>8 DEF dev, FsAt, Leads
<1> QED
  BY <1>1, InitInv, NextInv, PTL DEF Spec

\* Unless it is kept, nothing of the old root stays mounted under the new system
\* (CleanupOldRoot, whose last detach takes along what the earlier ones failed on),
\* where the thread that pivots is the one that /proc/self/mounts is about.
THEOREM OldRootLetGo == Spec => []OldRootGone
<1>1. Inv => OldRootGone
  BY DEF Inv, Leaving, OldRootGone, Gone
<1> QED
  BY <1>1, InitInv, NextInv, PTL DEF Spec

\* The thread has no table of its own, or one with a root.
MountsTyped ==
  /\ stage \in Preparing \union PivotedStages \union {"work", "unshare", "aborted"}
  /\ peers \in BOOLEAN /\ owned \in BOOLEAN /\ shared \in BOOLEAN
  /\ Sound(mine) \/ (mine = <<>> /\ stage \in {"work", "unshare", "aborted"})

\* Every variable keeps its type: at every step, in both namespaces, there is one root,
\* and paths are made of names.
THEOREM MountsTypeOK == Spec => []TypeOK
<1> USE DEF Preparing, PivotedStages
<1>1. Init => MountsTyped
  BY DEF Init, MountsTyped
<1>2. Inv /\ Inv' /\ MountsTyped /\ [Next]_vars => MountsTyped'
  <2> SUFFICES ASSUME Inv, Inv', MountsTyped, [Next]_vars PROVE MountsTyped'
    OBVIOUS
  <2>1. stage' \in Preparing \union PivotedStages => Sound(mine')
    BY DEF Inv, Tables
  <2>2. CASE UNCHANGED vars
    BY <2>2 DEF vars, given, MountsTyped, Sound, Table, Rooted
  <2>3. CASE MountWork
    BY <2>3 DEF MountWork, given, MountsTyped
  <2>4. CASE Abort
    <3>1. stage' = "aborted" /\ UNCHANGED <<peers, owned, shared>>
      BY <2>4 DEF Abort, given
    <3>2. CASE stage = "unshare"
      BY <2>4, <3>1, <3>2 DEF Abort, MountsTyped
    <3>3. CASE stage # "unshare"
      <4>1. stage \in Preparing \union PivotedStages
        BY <2>4, <3>3 DEF Abort, EssentialStages
      <4>2. Sound(mine) /\ (mine' = mine \/ mine' = Unmount(mine, Work))
        BY <2>4, <4>1 DEF Abort, Inv, Tables
      <4>3. Sound(Unmount(mine, Work))
        BY <4>2, UnmountLeads, KnownPaths, WorkAssumption DEF Sound
      <4> QED
        BY <3>1, <4>2, <4>3 DEF MountsTyped
    <3> QED
      BY <3>2, <3>3
  <2>5. ASSUME NEW k \in DOMAIN EssentialMounts, MountEssential(k) PROVE MountsTyped'
    <3>1. k \in 1..4 /\ UNCHANGED <<peers, owned, shared>>
      BY <2>5 DEF MountEssential, EssentialMounts, given
    <3>2. stage' \in Preparing
      BY <2>5, <3>1 DEF MountEssential, EssentialStages
    <3> QED
      BY <2>1, <3>1, <3>2 DEF MountsTyped
  <2>6. CASE Unshare \/ MakePrivate \/ EnsureMountPoint \/ NewRootPrivate \/ PivotRoot
    BY <2>1, <2>6 DEF Unshare, MakePrivate, EnsureMountPoint, NewRootPrivate, PivotRoot, given,
       EssentialStages, MountsTyped
  <2>7. CASE Cleanup \/ Detach \/ Detached \/ Exec \/ Reboot \/ UnmountKept \/ Unmounted
    BY <2>1, <2>7 DEF Cleanup, Detach, Detached, Exec, Reboot, UnmountKept, Unmounted, given,
       MountsTyped
  <2> QED
    BY <2>2, <2>3, <2>4, <2>5, <2>6, <2>7, Zenon DEF Next
<1>3. Inv /\ MountsTyped => TypeOK
  <2> SUFFICES ASSUME Inv, MountsTyped PROVE TypeOK
    OBVIOUS
  <2>1. ASSUME NEW t, Sound(t)
        PROVE  t # <<>> /\ Rooted(t) /\ \A i \in DOMAIN t : t[i].at \in Seq(Names)
    BY <2>1 DEF Sound, Table, Rooted, Path
  <2>2. Sound(host)
    BY DEF Inv, Tables
  <2>3. \A i \in DOMAIN <<>> : FALSE
    OBVIOUS
  <2>4. stage \in {"work", "unshare", "private", "bind", "newroot", "dev", "proc", "sys",
                   "run", "pivot", "aborted"} \union PivotedStages
    BY DEF MountsTyped
  <2>5. \A i \in DOMAIN mine : mine[i].at \in Seq(Names)
    BY <2>1, <2>3 DEF MountsTyped
  <2>6. /\ mine # <<>> => Rooted(mine)
        /\ mine = <<>> => stage \in {"work", "unshare", "aborted"}
    BY <2>1 DEF MountsTyped
  <2> QED
    BY <2>1, <2>2, <2>4, <2>5, <2>6 DEF TypeOK, MountsTyped
<1> QED
  BY <1>1, <1>2, <1>3, InitInv, NextInv, PTL DEF Spec

----------------------------------------------------------------------------
(* The old root is closed.                                                 *)

\* The mounts below OldRoot and, before pivot_root, what it will put there.
Under(t) == {i \in DOMAIN t : IsPrefix(OldRoot, t[i].at)}
Outside(t) == DOMAIN t \ Tree(t, Work)

TwoLayers(t, S) == \E upper : Layered(t, S, upper)

\* Mounts below OldRoot that hide none of each other, and with them what comes after
\* one of them at a path above, at or below its own.
IsUpper(t, S) ==
  /\ S \subseteq Under(t) /\ NoneHides(t, S)
  /\ \A i \in S, j \in Under(t) :
       i < j /\ (IsPrefix(t[i].at, t[j].at) \/ IsPrefix(t[j].at, t[i].at)) => j \in S

\* Each of some mounts has a turn of its own in a pass.
PairedBy(t, S, w, f) ==
  /\ f \in [S -> DOMAIN w]
  /\ \A i, j \in S : f[i] = f[j] => i = j
  /\ \A i \in S : w[f[i]] = t[i].at
Paired(t, S, w) == \E f : PairedBy(t, S, w, f)

\* Fewer mounts, in a table that has them where they were.
LEMMA LayersKept ==
  ASSUME NEW t, NEW s, NEW S, NEW R, R \subseteq S, \A i \in R : s[i].at = t[i].at
  PROVE  /\ NoneHides(t, S) => NoneHides(s, R)
         /\ \A upper : Layered(t, S, upper) => Layered(s, R, upper \intersect R)
         /\ TwoLayers(t, S) => TwoLayers(s, R)
<1>1. ASSUME NEW A, NEW B, B \subseteq A, NoneHides(t, A), \A i \in B : s[i].at = t[i].at
      PROVE  NoneHides(s, B)
  BY <1>1 DEF NoneHides
<1>2. NoneHides(t, S) => NoneHides(s, R)
  BY <1>1
<1>3. ASSUME NEW upper, Layered(t, S, upper) PROVE Layered(s, R, upper \intersect R)
  <2>1. /\ upper \subseteq S /\ NoneHides(t, upper) /\ NoneHides(t, S \ upper)
        /\ \A i \in upper, j \in S :
             i < j /\ (IsPrefix(t[i].at, t[j].at) \/ IsPrefix(t[j].at, t[i].at)) => j \in upper
    BY <1>3 DEF Layered
  <2>2. NoneHides(s, upper \intersect R)
    BY <1>1, <2>1
  <2>3. NoneHides(s, R \ (upper \intersect R))
    <3>1. R \ (upper \intersect R) \subseteq S \ upper
      OBVIOUS
    <3> QED
      BY <1>1, <2>1, <3>1
  <2>4. \A i \in upper \intersect R, j \in R :
          i < j /\ (IsPrefix(s[i].at, s[j].at) \/ IsPrefix(s[j].at, s[i].at))
            => j \in upper \intersect R
    BY <2>1
  <2> QED
    BY <2>2, <2>3, <2>4 DEF Layered
<1> QED
  BY <1>2, <1>3 DEF TwoLayers

\* Mounts that are made below the new root add nothing outside of it.
LEMMA OutsideKept ==
  ASSUME NEW t, Sound(t), NEW u, Table(u), NEW target \in Path,
         ~IsPrefix(target, Work), IsPrefix(Work, target),
         \A k \in DOMAIN u : IsPrefix(target, u[k].at) /\ u[k].at # <<>>
  PROVE  /\ Outside(Stack(t, u)) \subseteq Outside(t)
         /\ \A i \in Outside(t) : Stack(t, u)[i] = t[i]
<1> DEFINE s == Stack(t, u)
           c == Covering(t, Work)
<1>1. Table(t) /\ Rooted(t) /\ Work \in Path
  BY KnownPaths DEF Sound
<1>2. PICK top \in Nat : OnTop(t, u, top)
  BY <1>1, StackShape
<1>3. /\ \A i \in DOMAIN t : i <= top /\ s[i] = t[i]
      /\ DOMAIN s = DOMAIN t \union {top + k : k \in DOMAIN u}
      /\ \A k \in DOMAIN u : k \in Nat \ {0} /\ s[top + k] = u[k]
  BY <1>2 DEF OnTop
<1>4. Table(s)
  BY <1>1, StackTable
<1>5. /\ c \in DOMAIN t /\ IsPrefix(t[c].at, Work)
      /\ \A i \in DOMAIN t : IsPrefix(t[i].at, Work) => i <= c
  BY <1>1, CoveringExists
<1>6. \A k \in DOMAIN u : u[k].at \in Path /\ IsPrefix(Work, u[k].at) /\ ~IsPrefix(u[k].at, Work)
  <2> SUFFICES ASSUME NEW k \in DOMAIN u
               PROVE  u[k].at \in Path /\ IsPrefix(Work, u[k].at) /\ ~IsPrefix(u[k].at, Work)
    OBVIOUS
  <2>1. u[k].at \in Path
    BY DEF Table
  <2> QED
    BY <1>1, <2>1, PrefixOrder
<1> HIDE DEF s, c
<1>7. c \in DOMAIN s /\ s[c] = t[c]
  BY <1>3, <1>5
<1>8. ASSUME NEW j \in DOMAIN s, IsPrefix(s[j].at, Work) PROVE j <= c
  BY <1>3, <1>5, <1>6, <1>8
<1>9. Covering(s, Work) = c
  BY <1>4, <1>5, <1>7, <1>8, CoveringIs
<1>10. DOMAIN t \subseteq Nat
  BY <1>1 DEF Table
<1>11. \A k \in DOMAIN u : top + k \in Tree(s, Work)
  <2>1. \A k \in DOMAIN u : top + k \in DOMAIN s /\ top + k >= c /\ IsPrefix(Work, s[top + k].at)
    BY <1>3, <1>5, <1>6, <1>10
  <2> QED
    BY <1>9, <2>1 DEF Tree
<1>12. \A i \in DOMAIN t : i \in Tree(t, Work) => i \in Tree(s, Work)
  BY <1>3, <1>9 DEF Tree, c
<1>13. Outside(s) \subseteq Outside(t)
  BY <1>3, <1>11, <1>12 DEF Outside
<1> QED
  BY <1>3, <1>13 DEF Outside, s

\* A mount at the new root puts everything else outside of it.
LEMMA OutsideWork ==
  ASSUME NEW t, Sound(t), NEW fs
  PROVE  /\ Outside(Add(t, Work, fs)) \subseteq DOMAIN t
         /\ \A i \in DOMAIN t : Add(t, Work, fs)[i] = t[i]
<1> DEFINE u == <<Mount(Work, fs)>>
           s == Stack(t, u)
<1>1. Table(t) /\ Rooted(t) /\ Work \in Path /\ Work # <<>> /\ IsPrefix(Work, Work)
  BY KnownPaths, WorkAssumption, PrefixOrder DEF Sound
<1>2. Table(u) /\ DOMAIN u = {1} /\ u[1].at = Work
  BY <1>1, OneMount
<1>3. Add(t, Work, fs) = s
  BY DEF Add
<1> HIDE DEF u
<1>4. PICK top \in Nat : OnTop(t, u, top)
  BY <1>1, <1>2, StackShape
<1>5. /\ \A i \in DOMAIN t : i <= top /\ s[i] = t[i]
      /\ DOMAIN s = DOMAIN t \union {top + 1}
      /\ s[top + 1].at = Work
  BY <1>2, <1>4 DEF OnTop
<1>6. Table(s)
  BY <1>1, <1>2, StackTable
<1> HIDE DEF s
<1>7. DOMAIN t \subseteq Nat
  BY <1>1 DEF Table
<1>8. PICK n : n = top + 1
  OBVIOUS
<1>9. n \in DOMAIN s /\ n \in Nat /\ s[n].at = Work /\ \A j \in DOMAIN s : j <= n
  BY <1>5, <1>7, <1>8
<1>10. Covering(s, Work) = n
  BY <1>1, <1>6, <1>9, CoveringIs
<1>11. n \in Tree(s, Work)
  BY <1>1, <1>9, <1>10 DEF Tree
<1> QED
  BY <1>3, <1>5, <1>8, <1>11 DEF Outside

\* The host as it was, or with the new root mounted.
Ready(t) == t \in HostTables \/ (IsMountPoint(t) /\ TwoLayers(t, Outside(t)))

\* The work dir is not what it is in.
LEMMA WorkFront ==
  /\ Front(Work) \in Path /\ Front(Work) # Work /\ ~IsPrefix(Work, Front(Work))
<1>1. Work \in Seq(Names) /\ Work # <<>> /\ Work \in Path
  BY WorkAssumption DEF Path
<1>2. ASSUME NEW S, NEW w \in Seq(S), w # <<>>
      PROVE  SubSeq(w, 1, Len(w) - 1) \in Seq(S) /\ Len(SubSeq(w, 1, Len(w) - 1)) < Len(w)
             /\ Len(w) \in Nat
  <2>1. Len(w) \in Nat \ {0}
    BY <1>2
  <2> QED
    BY <2>1
<1>3. Front(Work) \in Seq(Names) /\ Len(Front(Work)) < Len(Work) /\ Len(Work) \in Nat
  BY <1>1, <1>2 DEF Front
<1>4. Front(Work) \in Path /\ Len(Front(Work)) \in Nat
  BY <1>3 DEF Path
<1>5. IsPrefix(Work, Front(Work)) => Len(Work) <= Len(Front(Work))
  BY <1>1, <1>4, PrefixIs
<1> QED
  BY <1>3, <1>4, <1>5

\* MountTmpfs makes the work dir a mount point.
LEMMA WorkReady ==
  ASSUME NEW t \in HostTables, HidesOnce(t)
  PROVE  Ready(Add(t, Work, "tmpfs"))
<1> DEFINE s == Add(t, Work, "tmpfs")
           front == Front(Work)
           fs == "tmpfs"
<1>1. Sound(t) /\ Work \in Path /\ Work # <<>> /\ IsPrefix(Work, Work)
  BY HostSound, KnownPaths, WorkAssumption, PrefixOrder
<1>2. front \in Path /\ front # Work /\ ~IsPrefix(Work, front)
  BY WorkFront
<1>3. TwoLayers(s, Outside(s))
  <2>1. TwoLayers(t, DOMAIN t)
    BY <1>1 DEF HidesOnce, TwoLayers
  <2>2. Outside(s) \subseteq DOMAIN t /\ \A i \in DOMAIN t : s[i] = t[i]
    BY <1>1, OutsideWork
  <2> HIDE DEF s
  <2> QED
    BY <2>1, <2>2, LayersKept
<1> HIDE DEF front
<1>4. Leads(s, Work) = Mount(Work, fs) /\ Leads(s, front) = Leads(t, front)
  BY <1>1, <1>2, AddLeads DEF Sound
<1>5. Covering(t, front) \in DOMAIN t
  BY <1>1, <1>2, CoveringExists DEF Sound
<1>6. Leads(t, front).fs # fs
  BY <1>5, HostTablesAssumption DEF Leads
<1> HIDE DEF s
<1>7. Mounted(s, Work) /\ FsAt(s, Work) = fs
  BY <1>4 DEF Mounted, FsAt, Leads, Mount
<1>8. FsAt(s, front) # fs
  BY <1>4, <1>6 DEF FsAt, Leads
<1>9. Device(s, Work) = fs /\ Device(s, front) = FsAt(s, front)
  BY <1>2, <1>7 DEF Device
<1>10. IsMountPoint(s)
  BY <1>8, <1>9 DEF IsMountPoint, front
<1> QED
  BY <1>3, <1>10 DEF Ready, s

\* Prepare leaves the new root a mount of its own, with all else outside of it.
LEMMA BindReady ==
  ASSUME \A t \in HostTables : HidesOnce(t), NEW t, Sound(t), Ready(t)
  PROVE  /\ IsMountPoint(t) => TwoLayers(t, Outside(t))
         /\ ~IsMountPoint(t) => TwoLayers(Bind(t, Work, Work), Outside(Bind(t, Work, Work)))
<1>1. CASE t \in HostTables
  <2>1. TwoLayers(t, DOMAIN t)
    BY <1>1 DEF HidesOnce, TwoLayers
  <2>2. Outside(t) \subseteq DOMAIN t
    BY DEF Outside
  <2>3. PICK fs : Bind(t, Work, Work) = Add(t, Work, fs)
    BY DEF Bind
  <2>4. /\ Outside(Add(t, Work, fs)) \subseteq DOMAIN t
        /\ \A i \in DOMAIN t : Add(t, Work, fs)[i] = t[i]
    BY OutsideWork
  <2> QED
    BY <2>1, <2>2, <2>3, <2>4, LayersKept
<1>2. CASE IsMountPoint(t) /\ TwoLayers(t, Outside(t))
  BY <1>2
<1> QED
  BY <1>1, <1>2 DEF Ready

\* An essential that is mounted leaves what is outside of the new root.
LEMMA EssentialOutside ==
  ASSUME NEW t, Sound(t), NEW n \in Bound, NEW fs, NEW source \in Path, TwoLayers(t, Outside(t))
  PROVE  /\ TwoLayers(Add(t, Work \o <<n>>, fs), Outside(Add(t, Work \o <<n>>, fs)))
         /\ LET s == RecBind(t, source, Work \o <<n>>)
            IN TwoLayers(s, Outside(s))
<1> DEFINE target == Work \o <<n>>
           u == <<Mount(target, fs)>>
           b == <<Mount(target, FsAt(t, source))>>
           r == Rebase(Restrict(t, Below(t, source)), source, target)
<1>1. /\ Work \in Path /\ <<n>> \in Path /\ target \in Path /\ target # <<>>
      /\ IsPrefix(Work, target) /\ ~IsPrefix(target, Work) /\ IsPrefix(target, target)
  <2>1. Work \in Path /\ Work # <<>> /\ <<>> \in Path /\ <<n>> \in Path /\ <<n>> # <<>>
    BY KnownPaths, KnownNames, WorkAssumption
  <2>2. target \in Path /\ IsPrefix(Work, target) /\ target # Work /\ target # <<>>
    BY <2>1, PathsBelow
  <2> QED
    BY <2>1, <2>2, PrefixOrder
<1> HIDE DEF target
<1>2. ASSUME NEW g
      PROVE  LET w == <<Mount(target, g)>>
             IN /\ Table(w) /\ \A k \in DOMAIN w : IsPrefix(target, w[k].at) /\ w[k].at # <<>>
                /\ Sound(Stack(t, w))
                /\ TwoLayers(Stack(t, w), Outside(Stack(t, w)))
  <2> DEFINE w == <<Mount(target, g)>>
  <2>1. Table(w) /\ DOMAIN w = {1} /\ w[1] = Mount(target, g) /\ Mount(target, g).at = target
    BY <1>1, OneMount
  <2> HIDE DEF w
  <2>2. \A k \in DOMAIN w : IsPrefix(target, w[k].at) /\ w[k].at # <<>>
    BY <1>1, <2>1
  <2>3. Sound(Stack(t, w))
    BY <2>1, <2>2, StackTable DEF Sound
  <2>4. Outside(Stack(t, w)) \subseteq Outside(t) /\ \A i \in Outside(t) : Stack(t, w)[i] = t[i]
    BY <1>1, <2>1, <2>2, OutsideKept
  <2>5. TwoLayers(Stack(t, w), Outside(Stack(t, w)))
    BY <2>4, LayersKept
  <2> QED
    BY <2>1, <2>2, <2>3, <2>5 DEF w
<1>3. TwoLayers(Stack(t, u), Outside(Stack(t, u)))
  BY <1>2
<1>4. Sound(Stack(t, b)) /\ TwoLayers(Stack(t, b), Outside(Stack(t, b)))
  BY <1>2
<1>5. /\ Table(r)
      /\ \A k \in DOMAIN r : IsPrefix(target, r[k].at) /\ r[k].at # <<>>
  BY <1>1, BelowRebased DEF Sound
<1> HIDE DEF r, b
<1>6. PICK a : a = Stack(t, b)
  OBVIOUS
<1>7. Outside(Stack(a, r)) \subseteq Outside(a) /\ \A i \in Outside(a) : Stack(a, r)[i] = a[i]
  BY <1>1, <1>4, <1>5, <1>6, OutsideKept
<1>8. TwoLayers(Stack(a, r), Outside(Stack(a, r)))
  BY <1>4, <1>6, <1>7, LayersKept
<1>9. RecBind(t, source, target) = Stack(a, r)
  BY <1>6 DEF RecBind, Bind, Add, Below, r, b
<1> QED
  BY <1>3, <1>8, <1>9 DEF Add, u, target

\* pivot_root moves what is outside of the new root to OldRoot, in its order.
LEMMA PivotedLayers ==
  ASSUME NEW t, Sound(t), Mounted(t, Work), Clear(t), TwoLayers(t, Outside(t))
  PROVE  TwoLayers(Pivoted(t), Under(Pivoted(t)))
<1> DEFINE none == <<>>
           u == Rebase(Restrict(t, Tree(t, Work)), Work, none)
           o == Restrict(t, Outside(t))
           v == Rebase(o, none, OldRoot)
           s == Stack(u, v)
<1>1. /\ Work \in Path /\ OldRoot \in Path /\ none \in Path /\ OldRoot # none
      /\ \A q \in Path : IsPrefix(none, q) /\ none \o q = q
  BY KnownPaths, PrefixOrder, ConcatAssoc
<1>2. Table(t) /\ Rooted(t) /\ \A i \in DOMAIN t : t[i].at \in Path
  BY DEF Sound, Table
<1>3. /\ Table(u) /\ Rooted(u)
      /\ \A i \in DOMAIN u : ~IsPrefix(OldRoot, u[i].at)
  <2>1. /\ Table(u) /\ Rooted(u) /\ DOMAIN u = Tree(t, Work)
        /\ \A i \in DOMAIN u : \A q \in Path : IsPrefix(q, u[i].at) => IsPrefix(Work \o q, t[i].at)
    BY <1>2, NewTree
  <2>2. Tree(t, Work) \subseteq DOMAIN t
    BY DEF Tree
  <2> HIDE DEF u
  <2> QED
    BY <1>1, <2>1, <2>2 DEF Clear
<1>4. Table(o) /\ DOMAIN o = Outside(t) /\ Outside(t) \subseteq DOMAIN t
      /\ \A i \in Outside(t) : o[i] = t[i]
  BY <1>2, RestrictLeads DEF Outside
<1> HIDE DEF o, none
<1>5. /\ Table(v) /\ DOMAIN v = Outside(t)
      /\ \A i \in Outside(t) : v[i].at = OldRoot \o t[i].at
  <2>1. \A i \in DOMAIN o : IsPrefix(none, o[i].at)
    BY <1>1, <1>2, <1>4
  <2>2. Table(o) /\ none \in Path /\ OldRoot \in Path
    BY <1>1, <1>4
  <2>3. /\ Table(v) /\ DOMAIN v = DOMAIN o
        /\ \A i \in DOMAIN o :
             /\ Rest(none, o[i].at) \in Path /\ o[i].at = none \o Rest(none, o[i].at)
             /\ v[i].fs = o[i].fs
             /\ v[i].at = OldRoot \o Rest(none, o[i].at)
             /\ \A q \in Path : IsPrefix(v[i].at, OldRoot \o q) <=> IsPrefix(o[i].at, none \o q)
    BY <2>1, <2>2, RebaseTable, Zenon
  <2> HIDE DEF v
  <2> QED
    BY <1>1, <1>4, <2>3
<1> HIDE DEF u, v
<1>6. PICK top \in Nat : OnTop(u, v, top)
  BY <1>3, <1>5, StackShape
<1>7. /\ \A i \in DOMAIN u : s[i] = u[i]
      /\ DOMAIN s = DOMAIN u \union {top + k : k \in Outside(t)}
      /\ \A k \in Outside(t) : s[top + k] = v[k]
  BY <1>5, <1>6 DEF OnTop
<1>8. s = Pivoted(t)
  BY DEF Pivoted, Outside, s, u, v, o, none
<1> HIDE DEF s
<1>9. \A i \in Under(s) : \E k \in Outside(t) : i = top + k /\ s[i].at = OldRoot \o t[k].at
  <2> SUFFICES ASSUME NEW i \in Under(s)
               PROVE  \E k \in Outside(t) : i = top + k /\ s[i].at = OldRoot \o t[k].at
    OBVIOUS
  <2>1. i \in DOMAIN s /\ IsPrefix(OldRoot, s[i].at)
    BY DEF Under
  <2>2. i \notin DOMAIN u
    BY <1>3, <1>7, <2>1
  <2>3. PICK k \in Outside(t) : i = top + k
    BY <1>7, <2>1, <2>2
  <2> QED
    BY <1>5, <1>7, <2>3
<1>10. PICK upper : Layered(t, Outside(t), upper)
  BY DEF TwoLayers
<1>11. \A k \in Outside(t) : k \in Nat
  BY <1>2, <1>4 DEF Table
<1>12. ASSUME NEW i \in Under(s), NEW j \in Under(s)
       PROVE  \E k \in Outside(t), l \in Outside(t) :
                /\ i = top + k /\ j = top + l /\ (i < j <=> k < l)
                /\ IsStrictPrefix(s[i].at, s[j].at) => IsStrictPrefix(t[k].at, t[l].at)
                /\ IsPrefix(s[i].at, s[j].at) => IsPrefix(t[k].at, t[l].at)
                /\ IsPrefix(s[j].at, s[i].at) => IsPrefix(t[l].at, t[k].at)
  <2>1. PICK k \in Outside(t) : i = top + k /\ s[i].at = OldRoot \o t[k].at
    BY <1>9
  <2>2. PICK l \in Outside(t) : j = top + l /\ s[j].at = OldRoot \o t[l].at
    BY <1>9
  <2>3. t[k].at \in Path /\ t[l].at \in Path
    BY <1>2, <1>4
  <2>4. /\ IsPrefix(OldRoot \o t[k].at, OldRoot \o t[l].at) <=> IsPrefix(t[k].at, t[l].at)
        /\ IsPrefix(OldRoot \o t[l].at, OldRoot \o t[k].at) <=> IsPrefix(t[l].at, t[k].at)
    BY <1>1, <2>3, PathsBelow
  <2>5. IsStrictPrefix(s[i].at, s[j].at) => IsStrictPrefix(t[k].at, t[l].at)
    BY <2>1, <2>2, <2>4 DEF IsStrictPrefix
  <2>6. i < j <=> k < l
    BY <1>11, <2>1, <2>2
  <2> QED
    BY <2>1, <2>2, <2>4, <2>5, <2>6
<1> DEFINE A == {i \in Under(s) : \E k \in upper : i = top + k}
<1>13. \A i \in Under(s) : \A k \in Outside(t) : i = top + k => (i \in A <=> k \in upper)
  BY <1>10, <1>11 DEF Layered
<1>14. NoneHides(s, A) /\ NoneHides(s, Under(s) \ A)
  <2> HIDE DEF A
  <2>1. NoneHides(t, upper) /\ NoneHides(t, Outside(t) \ upper)
    BY <1>10 DEF Layered
  <2>2. A \subseteq Under(s)
    BY DEF A
  <2> QED
    BY <1>12, <1>13, <2>1, <2>2 DEF NoneHides
<1>15. \A i \in A, j \in Under(s) :
         i < j /\ (IsPrefix(s[i].at, s[j].at) \/ IsPrefix(s[j].at, s[i].at)) => j \in A
  <2> HIDE DEF A
  <2>1. \A k \in upper, l \in Outside(t) :
          k < l /\ (IsPrefix(t[k].at, t[l].at) \/ IsPrefix(t[l].at, t[k].at)) => l \in upper
    BY <1>10 DEF Layered
  <2>2. A \subseteq Under(s)
    BY DEF A
  <2> QED
    BY <1>12, <1>13, <2>1, <2>2
<1>16. Layered(s, Under(s), A)
  <2>1. A \subseteq Under(s)
    OBVIOUS
  <2> HIDE DEF A
  <2> QED
    BY <1>14, <1>15, <2>1 DEF Layered
<1> QED
  BY <1>8, <1>16 DEF TwoLayers

\* A turn that unmounts what it is about leaves each other mount one of its own: the
\* turn that was that of the mount that is gone.
LEMMA PairedWithout ==
  ASSUME NEW t, NEW S, NEW w, Paired(t, S, w),
         NEW i \in DOMAIN w, NEW c, \A k \in S : t[k].at = w[i] => c \in S /\ t[c].at = w[i],
         NEW R, R \subseteq S \ {c}, NEW s, \A k \in R : s[k] = t[k]
  PROVE  Paired(s, R, Restrict(w, DOMAIN w \ {i}))
<1> DEFINE x == Restrict(w, DOMAIN w \ {i})
<1>1. PICK f : PairedBy(t, S, w, f)
  BY DEF Paired
<1>2. /\ f \in [S -> DOMAIN w]
      /\ \A k, l \in S : f[k] = f[l] => k = l
      /\ \A k \in S : w[f[k]] = t[k].at
  BY <1>1 DEF PairedBy
<1>3. DOMAIN x = DOMAIN w \ {i} /\ \A j \in DOMAIN w \ {i} : x[j] = w[j]
  BY DEF Restrict
<1> HIDE DEF x
<1> DEFINE g == [k \in R |-> IF f[k] = i THEN f[c] ELSE f[k]]
<1>4. ASSUME NEW k \in R
      PROVE  /\ g[k] \in DOMAIN x /\ x[g[k]] = s[k].at
             /\ f[k] = i => c \in S /\ g[k] = f[c]
             /\ f[k] # i => g[k] = f[k]
  <2>1. k \in S /\ k # c /\ g[k] = IF f[k] = i THEN f[c] ELSE f[k]
    OBVIOUS
  <2> HIDE DEF g
  <2>2. CASE f[k] = i
    <3>1. t[k].at = w[i]
      BY <1>2, <2>1, <2>2
    <3>2. c \in S /\ t[c].at = w[i]
      BY <2>1, <3>1
    <3>3. f[c] # i /\ f[c] \in DOMAIN w /\ w[f[c]] = w[i]
      BY <1>2, <2>1, <2>2, <3>2
    <3> QED
      BY <1>3, <2>1, <2>2, <3>1, <3>2, <3>3
  <2>3. CASE f[k] # i
    BY <1>2, <1>3, <2>1, <2>3
  <2> QED
    BY <2>2, <2>3
<1>5. ASSUME NEW k \in R, NEW l \in R, g[k] = g[l] PROVE k = l
  <2> HIDE DEF g
  <2>1. k \in S /\ l \in S /\ k # c /\ l # c
    OBVIOUS
  <2>2. CASE f[k] = i /\ f[l] = i
    BY <1>2, <2>1, <2>2
  <2>3. CASE f[k] # i /\ f[l] # i
    BY <1>2, <1>4, <1>5, <2>1, <2>3
  <2>4. CASE f[k] = i /\ f[l] # i
    BY <1>2, <1>4, <1>5, <2>1, <2>4
  <2>5. CASE f[k] # i /\ f[l] = i
    BY <1>2, <1>4, <1>5, <2>1, <2>5
  <2> QED
    BY <2>2, <2>3, <2>4, <2>5
<1>6. g \in [R -> DOMAIN x]
  BY <1>4
<1>7. PairedBy(s, R, x, g)
  <2>1. \A k \in R : x[g[k]] = s[k].at
    BY <1>4
  <2> HIDE DEF g
  <2> QED
    BY <1>5, <1>6, <2>1 DEF PairedBy
<1> QED
  BY <1>7 DEF Paired, x

\* What is unmounted without MNT_DETACH is one mount, at the path it is about.
LEMMA UnmountsOne ==
  ASSUME NEW t, Sound(t), NEW p \in Path, NEW used, CanUnmount(t, p, FALSE, used), p # <<>>
  PROVE  LET c == Covering(t, p)
         IN /\ c \in DOMAIN t /\ t[c].at = p
            /\ DOMAIN Unmount(t, p) = DOMAIN t \ {c}
            /\ \A i \in DOMAIN t \ {c} : Unmount(t, p)[i] = t[i]
<1>1. Mounted(t, p) /\ Tree(t, p) = {Covering(t, p)}
  BY DEF CanUnmount
<1>2. Covering(t, p) \in DOMAIN t
  BY CoveringExists DEF Sound
<1>3. /\ DOMAIN Unmount(t, p) = DOMAIN t \ Tree(t, p)
      /\ \A i \in DOMAIN Unmount(t, p) : Unmount(t, p)[i] = t[i]
  BY UnmountLeads DEF Sound
<1> QED
  BY <1>1, <1>2, <1>3 DEF Mounted

\* The mount that a path leads to is one of some mounts and can be unmounted.
Bare(t, p, S) ==
  CanUnmount(t, p, FALSE, {}) /\ Covering(t, p) \in S /\ t[Covering(t, p)].at = p

\* Of mounts in an upper layer that have turns of their own, the turn with the path
\* that comes after those below it finds one that can be unmounted.
LEMMA UpperUnmounts ==
  ASSUME NEW t, Sound(t), \E a : OldAt(t, a), NEW S, IsUpper(t, S),
         NEW w, Paired(t, S, w), NEW i \in DOMAIN w,
         \A j \in DOMAIN w : ~IsStrictPrefix(w[i], w[j]),
         \E k \in S : t[k].at = w[i]
  PROVE  Bare(t, w[i], S)
<1> DEFINE p == w[i]
           c == Covering(t, p)
<1> PICK a : OldAt(t, a)
  OBVIOUS
<1>0. PICK k \in S : t[k].at = w[i]
  OBVIOUS
<1>1. /\ DOMAIN t \subseteq Nat /\ \A j \in DOMAIN t : t[j].at \in Path
      /\ OldRoot \in Path
  BY KnownPaths DEF Sound, Table
<1>2. k \in DOMAIN t /\ IsPrefix(OldRoot, t[k].at) /\ p \in Path /\ IsPrefix(p, p)
  <2>1. k \in DOMAIN t /\ IsPrefix(OldRoot, t[k].at)
    BY DEF IsUpper, Under
  <2>2. p \in Path
    BY <1>0, <1>1, <2>1
  <2> HIDE DEF p
  <2> QED
    BY <2>1, <2>2, PrefixOrder
<1>3. IsPrefix(OldRoot, p) /\ t[k].at = p
  BY <1>0, <1>2
<1> HIDE DEF c
<1>4. /\ c \in DOMAIN t /\ IsPrefix(t[c].at, p)
      /\ \A j \in DOMAIN t : IsPrefix(t[j].at, p) => j <= c
  BY <1>2, CoveringExists DEF Sound, c
<1>5. k <= c
  BY <1>2, <1>3, <1>4
<1>6. IsPrefix(OldRoot, t[c].at)
  <2>1. IsPrefix(OldRoot, t[c].at) \/ IsPrefix(t[c].at, OldRoot)
    BY <1>1, <1>2, <1>3, <1>4, PrefixOrder
  <2>2. ASSUME IsPrefix(t[c].at, OldRoot) PROVE IsPrefix(OldRoot, t[c].at)
    <3>1. a \in DOMAIN t /\ c <= a /\ a <= k /\ t[a].at = OldRoot
      BY <1>0, <1>2, <1>4, <2>2 DEF OldAt
    <3>2. c = a
      BY <1>1, <1>2, <1>4, <1>5, <3>1
    <3> QED
      BY <1>1, <3>1, <3>2, PrefixOrder
  <2> QED
    BY <2>1, <2>2
<1>7. \A j \in Under(t) : k <= j /\ (IsPrefix(t[j].at, p) \/ IsPrefix(p, t[j].at)) => j \in S
  BY <1>1, <1>2, <1>3 DEF IsUpper, Under
<1>8. c \in S
  BY <1>4, <1>5, <1>6, <1>7 DEF Under
<1>9. t[c].at = p
  <2>1. IsStrictPrefix(t[c].at, t[k].at) => c < k
    BY <1>0, <1>8 DEF NoneHides, IsUpper
  <2> QED
    BY <1>1, <1>2, <1>3, <1>4, <1>5, <2>1 DEF IsStrictPrefix
<1>10. ASSUME NEW j \in DOMAIN t, j >= c, IsPrefix(p, t[j].at) PROVE j = c
  <2>1. IsPrefix(OldRoot, t[j].at)
    BY <1>1, <1>2, <1>3, <1>10, PrefixOrder
  <2>2. j \in S
    BY <1>1, <1>2, <1>4, <1>5, <1>7, <1>10, <2>1 DEF Under
  <2>3. PICK f : PairedBy(t, S, w, f)
    BY DEF Paired
  <2>4. f[j] \in DOMAIN w /\ w[f[j]] = t[j].at
    BY <2>2, <2>3 DEF PairedBy
  <2>5. t[j].at = p
    BY <1>10, <2>4 DEF IsStrictPrefix
  <2>6. j <= c
    BY <1>2, <1>4, <2>5
  <2> QED
    BY <1>1, <1>4, <1>10, <2>6
<1>11. Tree(t, p) = {c}
  <2>1. c \in Tree(t, p)
    BY <1>1, <1>2, <1>4, <1>9 DEF Tree, c
  <2>2. \A j \in Tree(t, p) : j = c
    BY <1>10 DEF Tree, c
  <2> QED
    BY <2>1, <2>2
<1>12. CanUnmount(t, p, FALSE, {})
  BY <1>9, <1>11 DEF CanUnmount, Mounted, c
<1> QED
  BY <1>8, <1>9, <1>12 DEF Bare, c

\* A table has its old root at its place, or has let it go.
Placed(t) == Gone(t) \/ \E a : OldAt(t, a)

\* A turn of unmountUnder, for the mounts of an upper layer and, as long as none has
\* failed, for all of them.
LEMMA TurnCloses ==
  ASSUME UnmountNext(FALSE, {}), Sound(mine), Placed(mine),
         \A i \in DOMAIN todo : todo[i] \in Path /\ IsPrefix(OldRoot, todo[i])
  PROVE  /\ Placed(mine')
         /\ \A i \in DOMAIN todo' : i \in DOMAIN todo /\ todo'[i] = todo[i]
         /\ \A S : Layered(mine, Under(mine), S)
                    => Layered(mine', Under(mine'), S \intersect Under(mine'))
         /\ NoneHides(mine, Under(mine)) => NoneHides(mine', Under(mine'))
         /\ Under(mine') \subseteq Under(mine)
         /\ \A S : IsUpper(mine, S) /\ Paired(mine, S, todo)
                    => Paired(mine', S \intersect Under(mine'), todo')
         /\ ~failed' =>
              ~failed /\ (Paired(mine, Under(mine), todo) => Paired(mine', Under(mine'), todo'))
<1>1. PICK i \in DOMAIN todo :
        /\ \A j \in DOMAIN todo : ~IsStrictPrefix(todo[i], todo[j])
        /\ todo' = Restrict(todo, DOMAIN todo \ {i})
        /\ IF CanUnmount(mine, todo[i], FALSE, {})
           THEN mine' = Unmount(mine, todo[i]) /\ UNCHANGED failed
           ELSE failed' = TRUE /\ UNCHANGED mine
  BY Zenon DEF UnmountNext, DeepestFirst
<1> DEFINE p == todo[i]
           c == Covering(mine, p)
<1>2. p \in Path /\ IsPrefix(OldRoot, p) /\ p # <<>>
  BY KnownPaths, PrefixOrder
<1>3. ASSUME CanUnmount(mine, p, FALSE, {})
      PROVE  /\ mine' = Unmount(mine, p) /\ failed' = failed
             /\ c \in DOMAIN mine /\ mine[c].at = p
             /\ DOMAIN mine' = DOMAIN mine \ {c}
             /\ \A k \in DOMAIN mine \ {c} : mine'[k] = mine[k]
  <2>1. mine' = Unmount(mine, p) /\ failed' = failed
    BY <1>1, <1>3
  <2>2. /\ Covering(mine, p) \in DOMAIN mine /\ mine[Covering(mine, p)].at = p
        /\ DOMAIN Unmount(mine, p) = DOMAIN mine \ {Covering(mine, p)}
        /\ \A k \in DOMAIN mine \ {Covering(mine, p)} : Unmount(mine, p)[k] = mine[k]
    <3> HIDE DEF p
    <3> QED
      BY <1>2, <1>3, UnmountsOne
  <2> HIDE DEF p
  <2> QED
    BY <2>1, <2>2
<1>4. ASSUME ~CanUnmount(mine, p, FALSE, {}) PROVE mine' = mine /\ failed' = TRUE
  BY <1>1, <1>4
<1>5. DOMAIN mine' \subseteq DOMAIN mine /\ \A k \in DOMAIN mine' : mine'[k] = mine[k]
  BY <1>3, <1>4
<1>6. Under(mine') \subseteq Under(mine) /\ \A k \in Under(mine') : mine'[k] = mine[k]
  BY <1>5 DEF Under
<1>8. Placed(mine')
  <2>1. CASE mine' = mine
    BY <2>1 DEF Placed
  <2>2. CASE mine' = Unmount(mine, p) /\ Gone(mine)
    BY <1>2, <2>2, UnmountGone DEF Placed, Old
  <2>3. CASE mine' = Unmount(mine, p) /\ \E a : OldAt(mine, a)
    BY <1>2, <2>3, DetachLeaves DEF Placed
  <2> QED
    BY <1>3, <1>4, <2>1, <2>2, <2>3 DEF Placed
<1>9. /\ \A S : Layered(mine, Under(mine), S)
                 => Layered(mine', Under(mine'), S \intersect Under(mine'))
      /\ NoneHides(mine, Under(mine)) => NoneHides(mine', Under(mine'))
  BY <1>6, LayersKept
<1>10. ASSUME NEW S, IsUpper(mine, S), Paired(mine, S, todo)
       PROVE  Paired(mine', S \intersect Under(mine'), todo')
  <2> DEFINE R == S \intersect Under(mine')
  <2>1. CASE \E k \in S : mine[k].at = p
    <3>1. PICK k \in S : mine[k].at = p
      BY <2>1
    <3>2. ~Gone(mine)
      BY <1>10, <3>1 DEF Gone, IsUpper, Under
    <3>3. \E a : OldAt(mine, a)
      BY <3>2 DEF Placed
    <3>4. CanUnmount(mine, p, FALSE, {}) /\ c \in S /\ mine[c].at = p
      <4>1. \A j \in DOMAIN todo : ~IsStrictPrefix(todo[i], todo[j])
        BY <1>1
      <4>2. \E l \in S : mine[l].at = todo[i]
        BY <3>1
      <4> HIDE DEF p, c
      <4>3. Bare(mine, todo[i], S)
        BY <1>10, <3>3, <4>1, <4>2, UpperUnmounts
      <4> QED
        BY <4>3 DEF Bare, p, c
    <3>5. c \notin R
      BY <1>3, <3>4 DEF Under
    <3>6. R \subseteq S \ {c} /\ \A j \in R : mine'[j] = mine[j]
      BY <1>6, <3>5
    <3> HIDE DEF R, c
    <3>7. Paired(mine', R, Restrict(todo, DOMAIN todo \ {i}))
      BY <1>10, <3>4, <3>6, PairedWithout
    <3> QED
      BY <1>1, <3>7 DEF R
  <2>2. CASE ~\E k \in S : mine[k].at = p
    <3>1. 0 \notin S
      BY <1>10 DEF IsUpper, Under, Sound, Table
    <3>2. R \subseteq S \ {0} /\ \A j \in R : mine'[j] = mine[j]
      BY <1>6, <3>1
    <3> HIDE DEF R
    <3>3. Paired(mine', R, Restrict(todo, DOMAIN todo \ {i}))
      BY <1>10, <2>2, <3>2, PairedWithout
    <3> QED
      BY <1>1, <3>3 DEF R
  <2> QED
    BY <2>1, <2>2
<1>11. ASSUME ~failed'
       PROVE  ~failed /\ (Paired(mine, Under(mine), todo) => Paired(mine', Under(mine'), todo'))
  <2>1. CanUnmount(mine, p, FALSE, {})
    BY <1>4, <1>11
  <2>2. c \in Under(mine) /\ mine[c].at = p /\ Under(mine') \subseteq Under(mine) \ {c}
    BY <1>2, <1>3, <1>6, <2>1 DEF Under
  <2> HIDE DEF c
  <2>3. Paired(mine, Under(mine), todo)
          => Paired(mine', Under(mine'), Restrict(todo, DOMAIN todo \ {i}))
    BY <1>6, <2>2, PairedWithout
  <2> QED
    BY <1>1, <1>3, <1>11, <2>1, <2>3
<1>12. \A j \in DOMAIN todo' : j \in DOMAIN todo /\ todo'[j] = todo[j]
  BY <1>1 DEF Restrict
<1> QED
  BY <1>6, <1>8, <1>9, <1>10, <1>11, <1>12

\* A pass that starts has a turn for each mount; one that has ended has left none.
LEMMA PassEnds ==
  ASSUME NEW t
  PROVE  /\ \A S \in SUBSET Under(t) : Paired(t, S, Targets(t, OldRoot))
         /\ \A S : Paired(t, S, <<>>) => S = {}
<1>1. ASSUME NEW S, S \subseteq Under(t) PROVE Paired(t, S, Targets(t, OldRoot))
  <2> DEFINE f == [k \in S |-> k]
  <2>1. \A k \in S : k \in DOMAIN Targets(t, OldRoot) /\ Targets(t, OldRoot)[k] = t[k].at
    BY <1>1 DEF Under, Targets
  <2>2. PairedBy(t, S, Targets(t, OldRoot), f)
    BY <2>1 DEF PairedBy
  <2> QED
    BY <2>2 DEF Paired
<1>3. ASSUME NEW S, Paired(t, S, <<>>) PROVE S = {}
  <2>1. DOMAIN <<>> = {}
    OBVIOUS
  <2> QED
    BY <1>3, <2>1 DEF Paired, PairedBy
<1> QED
  BY <1>1, <1>3

\* Until pivot_root, what it will move to the old root is in two layers at the most, and
\* no unmount has failed before UnmountOldRoot.
Outer ==
  /\ stage = "work" => host \in HostTables
  /\ stage = "unshare" => Ready(host)
  /\ stage \in {"private", "bind"} => Ready(mine)
  /\ stage \in {"newroot", "dev", "proc", "sys", "run", "pivot"} => TwoLayers(mine, Outside(mine))
  /\ stage \in Preparing \union {"work", "unshare", "cleanup"} => ~failed

\* The first pass closes the upper layer, and all of it if none fails; the second pass
\* closes the rest.
Closing ==
  keep = "default" =>
    /\ stage \in {"cleanup", "exec", "init"} =>
         ~failed /\ Placed(mine) /\ TwoLayers(mine, Under(mine))
    /\ stage \in {"unmount", "force"} /\ busy = {} =>
         Placed(mine) /\ \A i \in DOMAIN todo : IsPrefix(OldRoot, todo[i])
    /\ stage = "unmount" /\ busy = {} =>
         /\ \E upper : Layered(mine, Under(mine), upper) /\ Paired(mine, upper, todo)
         /\ ~failed => Paired(mine, Under(mine), todo)
    /\ stage = "force" /\ busy = {} =>
         NoneHides(mine, Under(mine)) /\ Paired(mine, Under(mine), todo)
    /\ stage = "restarted" /\ busy = {} => Gone(mine)

\* The way to the new root.
LEMMA EarlyOuter ==
  ASSUME \A t \in HostTables : HidesOnce(t), Inv, Outer, Closing,
         MountWork \/ Unshare \/ MakePrivate \/ EnsureMountPoint \/ NewRootPrivate
  PROVE  Outer' /\ Closing'
<1> USE DEF Preparing
<1>1. CASE MountWork
  <2>1. /\ stage = "work" /\ stage' = "unshare" /\ failed' = failed
        /\ host' = host \/ host' = Add(host, Work, "tmpfs")
    BY <1>1, Zenon DEF MountWork, pass
  <2>2. host \in HostTables /\ ~failed
    BY <2>1 DEF Outer
  <2>3. Ready(host)'
    <3>1. Ready(host') /\ UNCHANGED subvol
      BY <1>1, <2>1, <2>2, WorkReady DEF Ready, MountWork, given
    <3> QED
      BY <3>1 DEF Ready, IsMountPoint, Device
  <2> QED
    BY <2>1, <2>2, <2>3 DEF Outer, Closing
<1>2. CASE Unshare
  <2>1. stage = "unshare" /\ stage' = "private" /\ failed' = failed /\ mine' = host
    BY <1>2 DEF Unshare, pass
  <2>2. Ready(host) /\ ~failed
    BY <2>1 DEF Outer
  <2>3. Ready(mine)'
    <3>1. Ready(mine') /\ UNCHANGED subvol
      BY <1>2, <2>1, <2>2 DEF Unshare, given
    <3> QED
      BY <3>1 DEF Ready, IsMountPoint, Device
  <2> QED
    BY <2>1, <2>2, <2>3 DEF Outer, Closing
<1>3. CASE MakePrivate
  <2>1. stage = "private" /\ stage' = "bind" /\ failed' = failed /\ mine' = mine /\ UNCHANGED subvol
    BY <1>3 DEF MakePrivate, pass, given
  <2>2. Ready(mine) /\ ~failed
    BY <2>1 DEF Outer
  <2>3. Ready(mine)'
    BY <2>1, <2>2 DEF Ready, IsMountPoint, Device
  <2> QED
    BY <2>1, <2>2, <2>3 DEF Outer, Closing
<1>4. CASE EnsureMountPoint
  <2>1. /\ stage = "bind" /\ stage' = "newroot" /\ failed' = failed
        /\ IF IsMountPoint(mine) THEN mine' = mine ELSE mine' = Bind(mine, Work, Work)
    BY <1>4, Zenon DEF EnsureMountPoint, pass, Makes
  <2>2. Ready(mine) /\ ~failed /\ Sound(mine)
    BY <2>1 DEF Outer, Inv, Tables
  <2>3. TwoLayers(mine', Outside(mine'))
    BY <2>1, <2>2, BindReady
  <2> QED
    BY <2>1, <2>2, <2>3 DEF Outer, Closing
<1>5. CASE NewRootPrivate
  <2>1. stage = "newroot" /\ stage' = "dev" /\ failed' = failed /\ mine' = mine
    BY <1>5 DEF NewRootPrivate, pass, EssentialStages
  <2>2. TwoLayers(mine, Outside(mine)) /\ ~failed
    BY <2>1 DEF Outer
  <2> QED
    BY <2>1, <2>2 DEF Outer, Closing
<1> QED
  BY <1>1, <1>2, <1>3, <1>4, <1>5

\* The essentials and pivot_root.
LEMMA PivotOuter ==
  ASSUME Inv, Outer, Closing, PivotRoot \/ \E k \in DOMAIN EssentialMounts : MountEssential(k)
  PROVE  Outer' /\ Closing'
<1> USE DEF Preparing
<1>1. ASSUME NEW k \in DOMAIN EssentialMounts, MountEssential(k)
      PROVE  Outer' /\ Closing'
  <2>1. k \in 1..4
    BY DEF EssentialMounts
  <2>2. /\ stage \in {"dev", "proc", "sys", "run"} /\ stage' \in {"proc", "sys", "run", "pivot"}
        /\ failed' = failed
    BY <1>1, <2>1 DEF MountEssential, EssentialStages, pass
  <2> DEFINE n == EssentialStages[k]
             target == Work \o <<n>>
  <2>3. /\ n \in Bound /\ EssentialMounts[k].target = <<n>>
        /\ EssentialMounts[k].source = <<n>> /\ <<n>> \in Path
    <3>1. n \in Bound /\ EssentialMounts[k].target = <<n>> /\ EssentialMounts[k].source = <<n>>
      BY <2>1 DEF EssentialMounts, EssentialStages, Bound
    <3> QED
      BY <3>1, KnownNames, KnownPaths
  <2>4. mine' = mine \/ mine' = RecBind(mine, <<n>>, target) \/ mine' = Add(mine, target, n)
    BY <1>1, <2>3, Zenon DEF MountEssential, Makes
  <2>5. Sound(mine) /\ TwoLayers(mine, Outside(mine)) /\ ~failed
    BY <2>2 DEF Inv, Tables, Outer
  <2> HIDE DEF n
  <2>6. /\ TwoLayers(Add(mine, target, n), Outside(Add(mine, target, n)))
        /\ LET s == RecBind(mine, <<n>>, target) IN TwoLayers(s, Outside(s))
    BY <2>3, <2>5, EssentialOutside
  <2> HIDE DEF target
  <2>7. TwoLayers(mine', Outside(mine'))
    BY <2>4, <2>5, <2>6
  <2> QED
    BY <2>2, <2>5, <2>7 DEF Outer, Closing
<1>2. CASE PivotRoot
  <2>1. /\ stage = "pivot" /\ Mounted(mine, Work) /\ stage' = "cleanup" /\ failed' = failed
        /\ mine' = Pivoted(mine)
    BY <1>2 DEF PivotRoot, pass
  <2>2. Sound(mine) /\ Clear(mine) /\ TwoLayers(mine, Outside(mine)) /\ ~failed
    BY <2>1 DEF Inv, Tables, Outer
  <2>3. TwoLayers(mine', Under(mine'))
    BY <2>1, <2>2, PivotedLayers
  <2>4. Inv'
    BY <1>2, PivotInv
  <2>5. Placed(mine')
    BY <2>1, <2>4 DEF Inv, Leaving, Placed
  <2> QED
    BY <2>1, <2>2, <2>3, <2>5 DEF Outer, Closing
<1> QED
  BY <1>1, <1>2

\* CleanupOldRoot, the exec, the restart, and what ends the run.
LEMMA RestartCloses ==
  ASSUME Inv, Outer, Closing, Cleanup \/ Detach \/ Detached \/ Exec \/ Reboot \/ Abort
  PROVE  Outer' /\ Closing'
<1> USE DEF Preparing, PivotedStages
<1>1. keep' = keep
  BY DEF Cleanup, Detach, Detached, Exec, Reboot, Abort, given
<1>2. Outer'
  <2>1. stage' \in {"detach", "exec", "init", "restarted", "unmount", "aborted"}
    BY DEF Cleanup, Detach, Detached, Exec, Reboot, Abort
  <2> QED
    BY <2>1 DEF Outer
<1>3. Closing'
  <2> SUFFICES ASSUME keep = "default" PROVE Closing'
    BY <1>1 DEF Closing
  <2>1. ASSUME stage \in {"cleanup", "exec", "init"}
        PROVE  ~failed /\ Placed(mine) /\ TwoLayers(mine, Under(mine))
    BY <2>1 DEF Closing
  <2>2. CASE Cleanup
    <3>1. stage = "cleanup" /\ stage' = "exec" /\ mine' = mine /\ failed' = failed
      BY <2>2 DEF Cleanup
    <3> QED
      BY <2>1, <3>1 DEF Closing
  <2>3. CASE Detach \/ Detached
    <3>1. stage = "detach"
      BY <2>3 DEF Detach, Detached
    <3> QED
      BY <3>1 DEF Inv, Leaving
  <2>4. CASE Exec
    <3>1. stage = "exec" /\ stage' = "init" /\ mine' = mine /\ failed' = failed
      BY <2>4 DEF Exec, pass
    <3> QED
      BY <2>1, <3>1 DEF Closing
  <2>5. CASE Reboot
    <3>1. /\ stage = "init" /\ stage' = "unmount" /\ todo' = Targets(mine, OldRoot)
          /\ mine' = mine /\ failed' = failed
      BY <2>5 DEF Reboot, KeptAt
    <3>2. ~failed /\ Placed(mine) /\ TwoLayers(mine, Under(mine)) /\ Sound(mine)
      BY <2>1, <3>1 DEF Inv, Tables
    <3>3. PICK upper : Layered(mine, Under(mine), upper)
      BY <3>2 DEF TwoLayers
    <3>4. Paired(mine, Under(mine), todo') /\ Paired(mine, upper, todo')
      BY <3>1, <3>3, PassEnds DEF Layered
    <3>5. \A i \in DOMAIN todo' : IsPrefix(OldRoot, todo'[i])
      BY <3>1, <3>2, TargetsOld
    <3> QED
      BY <3>1, <3>2, <3>3, <3>4, <3>5 DEF Closing
  <2>6. CASE Abort
    <3>1. stage' = "aborted"
      BY <2>6 DEF Abort
    <3> QED
      BY <3>1 DEF Closing
  <2> QED
    BY <2>2, <2>3, <2>4, <2>5, <2>6
<1> QED
  BY <1>2, <1>3

\* The two passes of UnmountOldRoot.
LEMMA PassesClose ==
  ASSUME Inv, Outer, Closing, UnmountKept \/ Unmounted
  PROVE  Outer' /\ Closing'
<1> USE DEF Preparing, PivotedStages
<1>1. /\ stage \in {"unmount", "force"} /\ stage' \in {"unmount", "force", "restarted"}
      /\ keep' = keep /\ busy' = busy
  BY DEF UnmountKept, Unmounted, given
<1>2. Outer'
  BY <1>1 DEF Outer
<1> SUFFICES ASSUME keep = "default", busy = {} PROVE Closing'
  BY <1>1, <1>2 DEF Closing
<1>3. /\ Placed(mine) /\ Sound(mine)
      /\ \A i \in DOMAIN todo : todo[i] \in Path /\ IsPrefix(OldRoot, todo[i])
  BY <1>1 DEF Closing, Inv, Tables, Passes
<1>4. ASSUME stage = "unmount"
      PROVE  /\ \E upper : Layered(mine, Under(mine), upper) /\ Paired(mine, upper, todo)
             /\ ~failed => Paired(mine, Under(mine), todo)
  BY <1>4 DEF Closing
<1>5. ASSUME stage = "force"
      PROVE  NoneHides(mine, Under(mine)) /\ Paired(mine, Under(mine), todo)
  BY <1>5 DEF Closing
<1>6. \A S : Layered(mine, Under(mine), S) => IsUpper(mine, S)
  BY DEF Layered, IsUpper
<1>7. NoneHides(mine, Under(mine)) => IsUpper(mine, Under(mine))
  BY DEF IsUpper
<1>8. CASE UnmountKept
  <2>1. UnmountNext(FALSE, {}) /\ stage' = stage
    BY <1>8 DEF UnmountKept
  <2>2. Sound(mine')
    <3>1. Inv'
      BY <1>8, RestartInv
    <3> QED
      BY <1>1, <3>1 DEF Inv, Tables
  <2>3. /\ Placed(mine')
        /\ \A i \in DOMAIN todo' : i \in DOMAIN todo /\ todo'[i] = todo[i]
        /\ \A S : Layered(mine, Under(mine), S)
                   => Layered(mine', Under(mine'), S \intersect Under(mine'))
        /\ NoneHides(mine, Under(mine)) => NoneHides(mine', Under(mine'))
        /\ Under(mine') \subseteq Under(mine)
        /\ \A S : IsUpper(mine, S) /\ Paired(mine, S, todo)
                   => Paired(mine', S \intersect Under(mine'), todo')
        /\ ~failed' =>
             ~failed /\ (Paired(mine, Under(mine), todo) => Paired(mine', Under(mine'), todo'))
    BY <1>3, <2>1, TurnCloses
  <2>4. \A i \in DOMAIN todo' : IsPrefix(OldRoot, todo'[i])
    BY <1>3, <2>3
  <2>5. CASE stage = "unmount"
    <3>1. PICK upper : Layered(mine, Under(mine), upper) /\ Paired(mine, upper, todo)
      BY <1>4, <2>5
    <3>2. LET rest == upper \intersect Under(mine')
          IN Layered(mine', Under(mine'), rest) /\ Paired(mine', rest, todo')
      BY <1>6, <2>3, <3>1
    <3>3. ~failed' => Paired(mine', Under(mine'), todo')
      BY <1>4, <2>3, <2>5
    <3> QED
      BY <2>1, <2>3, <2>4, <2>5, <3>2, <3>3 DEF Closing
  <2>6. CASE stage = "force"
    <3>1. NoneHides(mine', Under(mine'))
      BY <1>5, <2>3, <2>6
    <3>2. Paired(mine', Under(mine'), todo')
      <4>1. Under(mine) \intersect Under(mine') = Under(mine')
        BY <2>3
      <4> QED
        BY <1>5, <1>7, <2>3, <2>6, <4>1
    <3> QED
      BY <2>1, <2>2, <2>3, <2>4, <2>6, <3>1, <3>2 DEF Closing
  <2> QED
    BY <1>1, <2>5, <2>6
<1>9. CASE Unmounted
  <2>1. /\ todo = <<>> /\ mine' = mine /\ failed' = failed
        /\ IF stage = "unmount" /\ failed
           THEN stage' = "force" /\ todo' = Targets(mine, OldRoot)
           ELSE stage' = "restarted"
    BY <1>9 DEF Unmounted, KeptAt
  <2>2. CASE stage = "unmount" /\ failed
    <3>1. PICK upper : Layered(mine, Under(mine), upper) /\ Paired(mine, upper, todo)
      BY <1>4, <2>2
    <3>2. upper = {}
      BY <2>1, <3>1, PassEnds
    <3>3. Under(mine) \ upper = Under(mine)
      BY <3>2
    <3>4. NoneHides(mine, Under(mine))
      BY <3>1, <3>3 DEF Layered
    <3>5. Paired(mine, Under(mine), todo')
      BY <2>1, <2>2, PassEnds
    <3>6. \A i \in DOMAIN todo' : IsPrefix(OldRoot, todo'[i])
      BY <1>3, <2>1, <2>2, TargetsOld
    <3> QED
      BY <1>3, <2>1, <2>2, <3>4, <3>5, <3>6 DEF Closing
  <2>3. CASE ~(stage = "unmount" /\ failed)
    <3>1. Paired(mine, Under(mine), todo)
      BY <1>1, <1>4, <1>5, <2>3
    <3>2. Under(mine) = {}
      BY <2>1, <3>1, PassEnds
    <3>3. Gone(mine)
      BY <3>2 DEF Under, Gone
    <3> QED
      BY <2>1, <2>3, <3>3 DEF Closing, Gone
  <2> QED
    BY <2>2, <2>3
<1> QED
  BY <1>8, <1>9

\* A kept old root is closed before the machine restarts, if nothing uses it
\* (UnmountOldRoot, called by doReboot): in its two passes, as long as the host's mounts
\* are in two layers in each of which none hides another one.
THEOREM OldRootCloses ==
  ASSUME \A t \in HostTables : HidesOnce(t)
  PROVE  Spec => []OldRootClosed
<1>1. Init => Outer /\ Closing
  BY DEF Init, Outer, Closing
<1>2. Inv /\ Outer /\ Closing /\ [Next]_vars => Outer' /\ Closing'
  <2> SUFFICES ASSUME Inv, Outer, Closing, [Next]_vars PROVE Outer' /\ Closing'
    OBVIOUS
  <2>1. CASE UNCHANGED vars
    BY <2>1 DEF vars, pass, given, Outer, Closing, Ready, IsMountPoint, Device, Preparing
  <2>2. CASE Next
    BY <2>2, EarlyOuter, PivotOuter, RestartCloses, PassesClose, Zenon DEF Next
  <2> QED
    BY <2>1, <2>2
<1>3. Closing => OldRootClosed
  BY DEF Closing, OldRootClosed, Gone
<1> QED
  BY <1>1, <1>2, <1>3, InitInv, NextInv, PTL DEF Spec

=============================================================================
