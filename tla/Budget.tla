------------------------------- MODULE Budget -------------------------------
(***************************************************************************)
(* How large a tmpfs the new rootfs gets, and when the run refuses it:      *)
(* internal/sysmem/meminfo.go, the sizes of internal/config/size.go, and    *)
(* the part of runPivot (internal/cli/pivot.go) that puts them together,    *)
(* once it is known that a tmpfs is to be mounted; Pivot has what becomes   *)
(* of a refusal.                                                           *)
(*                                                                         *)
(* Byte counts are unsigned and wrap; their width is a parameter.  How the  *)
(* floating point of a percentage rounds, and a count of kilobytes in       *)
(* /proc/meminfo that does not fit in 64 bits, are left out.                *)
(***************************************************************************)
EXTENDS Integers

CONSTANTS
  MaxUint,      \* the largest byte count: 2^64 - 1
  Multipliers,  \* what the suffixes of a size stand for
  Meminfos,     \* what /proc/meminfo may say, in bytes; a line that is missing is 0
  Requests      \* what --rootfs-size may say: a count and its unit

VARIABLES
  step,    \* the next one, or how it has ended
  asked,   \* --rootfs-size
  mem,     \* the memory, as it was read
  bytes    \* the size of the tmpfs

bvars == <<step, asked, mem, bytes>>

\* Units other than a multiplier; with none, no size was asked for.
None == 0 - 1
Percent == 0

Bytes == 0..MaxUint
Memory == [total : Bytes, free : Bytes, available : Bytes]

ASSUME BudgetAssumption ==
  /\ MaxUint \in Nat
  /\ Multipliers \subseteq Nat \ {0}
  /\ Meminfos \subseteq Memory
  /\ \A m \in Meminfos : m.total = 0 \/ m.total >= 1024  \* it counts kilobytes
  /\ Requests \subseteq [count : Bytes, unit : Multipliers \union {None, Percent}]

Minus(a, b) == (a - b) % (MaxUint + 1)
Times(a, b) == (a * b) % (MaxUint + 1)

----------------------------------------------------------------------------
(* meminfo.go and size.go.                                                 *)

ReserveBytes(m) == m.total \div 10

\* Mutant: a tenth of what is available is left, not of the total.
RecommendOfAvailable(m) == m.available - m.available \div 10

RecommendRootfsBytes(m) ==
  IF m.available <= ReserveBytes(m) THEN 0 ELSE Minus(m.available, ReserveBytes(m))

\* What HeadroomCheck takes to be left, and the rule it applies.
\* Mutant: without the comparison, which keeps it from wrapping.
HeadroomWraps(m, n) == Minus(m.available, n)
Headroom(m, n) == IF m.available > n THEN Minus(m.available, n) ELSE 0
Insufficient(m, n) == Headroom(m, n) < m.total \div 10

\* Mutant: the product is not checked.
OverflowsUnchecked(n, mult) == FALSE
Overflows(n, mult) == n > MaxUint \div mult

\* ParseSize fails, or it returns a size.
Refuses(r) ==
  IF r.unit = Percent THEN r.count = 0 \/ r.count > 100 ELSE Overflows(r.count, r.unit)
ParseSize(r, total) ==
  IF r.unit = Percent THEN (total * r.count) \div 100 ELSE Times(r.count, r.unit)

----------------------------------------------------------------------------
(* runPivot.                                                               *)

\* sysmem.Read: old kernels do not say what is available.
ReadMemory ==
  /\ step = "read"
  /\ \E m \in Meminfos :
       /\ step' = IF m.total = 0 THEN "unread" ELSE "size"
       /\ mem' = IF m.available = 0 THEN [m EXCEPT !.available = m.free] ELSE m
  /\ UNCHANGED <<asked, bytes>>

ChooseSize ==
  /\ step = "size"
  /\ IF asked.unit = None THEN step' = "check" /\ bytes' = RecommendRootfsBytes(mem)
     ELSE IF Refuses(asked) THEN step' = "refused" /\ UNCHANGED bytes
     ELSE step' = "check" /\ bytes' = ParseSize(asked, mem.total)
  /\ UNCHANGED <<asked, mem>>

CheckHeadroom ==
  /\ step = "check"
  /\ step' = IF bytes = 0 \/ Insufficient(mem, bytes) THEN "refused" ELSE "mounted"
  /\ UNCHANGED <<asked, mem, bytes>>

BInit ==
  /\ step = "read" /\ asked \in Requests /\ bytes = 0
  /\ mem = [total |-> 0, free |-> 0, available |-> 0]

BNext == ReadMemory \/ ChooseSize \/ CheckHeadroom

BSpec == BInit /\ [][BNext]_bvars

----------------------------------------------------------------------------
(* Properties.                                                             *)

BTypeOK ==
  /\ step \in {"read", "unread", "size", "check", "refused", "mounted"}
  /\ asked \in Requests /\ mem \in Memory /\ bytes \in Bytes

\* A tmpfs that is mounted leaves a tenth of the machine's memory unused, whatever size
\* was asked for: HeadroomCheck's "at least 10% of total RAM would remain free".
ReserveLeft == step = "mounted" => bytes + ReserveBytes(mem) <= mem.available

\* The run refuses its own recommendation only if there is no memory to recommend, so
\* that "the tmpfs we size and the check we run afterwards cannot disagree".
RecommendedAccepted ==
  step = "refused" /\ asked.unit = None => mem.available <= ReserveBytes(mem)

\* The size is the one asked for, and not what is left of it in the width of a count.
SizeAsAsked ==
  step = "mounted" /\ asked.unit \in Multipliers => bytes = asked.count * asked.unit

\* A run goes on with a size that it was asked for or has recommended itself, that its
\* own check accepts and that no byte count has wrapped around in.
SizeHolds == ReserveLeft /\ RecommendedAccepted /\ SizeAsAsked
=============================================================================
