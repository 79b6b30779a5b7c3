--------------------------- MODULE Builds_proofs ---------------------------
(***************************************************************************)
(* Proofs about Builds, for every set of command lines and any number of    *)
(* builds, as many of them at once as one likes.                           *)
(***************************************************************************)
EXTENDS Builds, WellFoundedInduction, TLAPS

\* The shapes the rest is about: a process has all its fields, a layout is one
\* there is, and the cache entry of a running build is one of them.
Shape(m) ==
  /\ m = [cfg |-> m.cfg, layers |-> m.layers, loads |-> m.loads, done |-> m.done,
          img |-> m.img, dir |-> m.dir, seen |-> m.seen, todo |-> m.todo, file |-> m.file]
  /\ m.done \in Nat
  /\ m.dir \in Layouts
Typed ==
  /\ pc \in [Builds -> Stages \union {"unborn", "ok", "broken"}]
  /\ mem = [b \in Builds |-> mem[b]]
  /\ \A b \in Builds : Shape(mem[b])
  /\ \A b \in Builds : Running(b) => EntryOf(b) \in Layouts
  /\ index = [d \in Layouts |-> index[d]]
  /\ blobs = [d \in Layouts |-> blobs[d]]

LEMMA GoneShape == Shape(Gone)
  BY DEF Shape, Gone, Layouts

LEMMA FreshShape == ASSUME NEW c \in Configs
                    PROVE  /\ Shape(Fresh(c))
                           /\ Entry(ComputeCacheKey(Fresh(c).layers)) \in Layouts
<1>1. Fresh(c).layers = Normalize(c.layers)
  BY DEF Fresh
<1>2. Entry(ComputeCacheKey(Normalize(c.layers))) \in Layouts
  BY DEF Layouts, Keys
<1>3. Shape(Fresh(c))
  BY <1>2 DEF Shape, Fresh
<1> QED
  BY <1>1, <1>2, <1>3

\* What a step does to the processes.
LEMMA GotoMoves ==
  ASSUME Typed, NEW b \in Builds, NEW to, NEW m, Shape(m), Goto(b, to, m)
  PROVE  /\ mem' = [a \in Builds |-> mem'[a]]
         /\ \A a \in Builds \ {b} : mem'[a] = mem[a] /\ pc'[a] = pc[a]
         /\ mem'[b] = IF to \in Stages THEN m ELSE Gone
         /\ pc'[b] = to
         /\ \A a \in Builds : Shape(mem'[a])
<1>1. /\ \A a \in Builds \ {b} : mem'[a] = mem[a] /\ pc'[a] = pc[a]
      /\ mem'[b] = IF to \in Stages THEN m ELSE Gone
      /\ pc'[b] = to
      /\ mem' = [a \in Builds |-> mem'[a]]
  BY DEF Goto, Typed
<1>2. \A a \in Builds : Shape(mem'[a])
  BY <1>1, GoneShape DEF Typed
<1> QED
  BY <1>1, <1>2

\* A hit that copies blobs changes nothing but what it has still to copy, and the
\* blobs of the output.
CopiesBlobs(b) ==
  ListBlobs(b) \/ (\E im \in mem[b].todo : RemoveBlob(b, im)) \/ CopyBlob(b)

LEMMA TwoFields ==
  ASSUME NEW m, Shape(m), NEW t, NEW f
  PROVE  [m EXCEPT !.todo = t, !.file = f] =
           [cfg |-> m.cfg, layers |-> m.layers, loads |-> m.loads, done |-> m.done,
            img |-> m.img, dir |-> m.dir, seen |-> m.seen, todo |-> t, file |-> f]
<1> DEFINE n == [m EXCEPT !.todo = t]
<1>1. n = [cfg |-> m.cfg, layers |-> m.layers, loads |-> m.loads, done |-> m.done,
           img |-> m.img, dir |-> m.dir, seen |-> m.seen, todo |-> t, file |-> m.file]
  BY DEF Shape
<1>2. [m EXCEPT !.todo = t, !.file = f] = [n EXCEPT !.file = f]
  OBVIOUS
<1> HIDE DEF n
<1> QED
  BY <1>1, <1>2

LEMMA CopyMoves ==
  ASSUME Typed, NEW b \in Builds, CopiesBlobs(b)
  PROVE  \E to \in {"copyblobs", "copyfile"} : \E m :
           /\ Goto(b, to, m) /\ Shape(m) /\ Running(b)
           /\ m.cfg = mem[b].cfg /\ m.layers = mem[b].layers /\ m.done = mem[b].done
           /\ m.dir = mem[b].dir /\ m.loads = mem[b].loads
           /\ UNCHANGED <<work, index, mixed>>
           /\ blobs' = [d \in Layouts |-> blobs'[d]]
           /\ \A d \in Layouts \ {Output} : blobs'[d] = blobs[d]
<1>0. Shape(mem[b]) /\ blobs = [d \in Layouts |-> blobs[d]]
  BY DEF Typed
<1>1. CASE ListBlobs(b)
  <2> DEFINE m == [mem[b] EXCEPT !.todo = blobs[EntryOf(b)]]
  <2>1. Goto(b, "copyblobs", m) /\ Running(b) /\ UNCHANGED <<work, index, blobs, mixed>>
    BY <1>1 DEF ListBlobs, disk, Running, Stages, CopyStages
  <2>2. /\ Shape(m) /\ m.cfg = mem[b].cfg /\ m.layers = mem[b].layers /\ m.done = mem[b].done
        /\ m.dir = mem[b].dir /\ m.loads = mem[b].loads
    BY <1>0 DEF Shape
  <2> HIDE DEF m
  <2> QED
    BY <1>0, <2>1, <2>2
<1>2. CASE \E im \in mem[b].todo : RemoveBlob(b, im)
  <2>0. PICK im \in mem[b].todo : RemoveBlob(b, im)
    BY <1>2
  <2> DEFINE m == [mem[b] EXCEPT !.file = im]
  <2>1. Goto(b, "copyfile", m) /\ Running(b) /\ UNCHANGED <<work, index, mixed>>
        /\ blobs' = [blobs EXCEPT ![Output] = @ \ {im}]
    BY <2>0 DEF RemoveBlob, Running, Stages, CopyStages
  <2>2. /\ Shape(m) /\ m.cfg = mem[b].cfg /\ m.layers = mem[b].layers /\ m.done = mem[b].done
        /\ m.dir = mem[b].dir /\ m.loads = mem[b].loads
    BY <1>0 DEF Shape
  <2> HIDE DEF m
  <2> QED
    BY <1>0, <2>1, <2>2
<1>3. CASE CopyBlob(b)
  <2> DEFINE m == [mem[b] EXCEPT !.todo = @ \ {mem[b].file}, !.file = NoImage]
  <2>1. Goto(b, "copyblobs", m) /\ Running(b) /\ UNCHANGED <<work, index, mixed>>
        /\ blobs' = IF b \in lost THEN blobs
                    ELSE [blobs EXCEPT ![Output] = @ \union {mem[b].file}]
    BY <1>3 DEF CopyBlob, Running, Stages, CopyStages
  <2>3. m = [cfg |-> mem[b].cfg, layers |-> mem[b].layers, loads |-> mem[b].loads,
             done |-> mem[b].done, img |-> mem[b].img, dir |-> mem[b].dir, seen |-> mem[b].seen,
             todo |-> mem[b].todo \ {mem[b].file}, file |-> NoImage]
    BY <1>0, TwoFields
  <2> HIDE DEF m
  <2>2. /\ Shape(m) /\ m.cfg = mem[b].cfg /\ m.layers = mem[b].layers /\ m.done = mem[b].done
        /\ m.dir = mem[b].dir /\ m.loads = mem[b].loads
    BY <1>0, <2>3 DEF Shape
  <2> QED
    BY <1>0, <2>1, <2>2
<1> QED
  BY <1>1, <1>2, <1>3 DEF CopiesBlobs

\* What the writing of an index does to the layouts.
LEMMA IndexMoves ==
  ASSUME Typed, NEW b \in Builds, NEW images, Truncates(b) \/ WritesIndex(b, images)
  PROVE  /\ index' = [d \in Layouts |-> index'[d]]
         /\ \A d \in Layouts : \/ index'[d] = index[d]
                               \/ d = mem[b].dir /\ Truncates(b) /\ index'[d] = CutIndex
                               \/ d = mem[b].dir /\ index'[d] = Lists(images)
  BY DEF Typed, Truncates, WritesIndex

\* Every step of a build goes somewhere, and its layers stay what they are until
\* it ends.
LEMMA BuildMoves ==
  ASSUME Typed, NEW b \in Builds, BuildSteps(b) \/ BreakOff(b)
  PROVE  \E to \in Stages \union {"ok", "broken"} : \E m :
           /\ Goto(b, to, m) /\ Shape(m) /\ m.layers = mem[b].layers /\ Running(b)
           /\ index' = [d \in Layouts |-> index'[d]]
           /\ blobs' = [d \in Layouts |-> blobs'[d]]
<1> DEFINE Moves(to, m) ==
             /\ Goto(b, to, m) /\ Shape(m) /\ m.layers = mem[b].layers /\ Running(b)
             /\ index' = [d \in Layouts |-> index'[d]]
             /\ blobs' = [d \in Layouts |-> blobs'[d]]
<1>0. Shape(mem[b]) /\ index = [d \in Layouts |-> index[d]] /\ blobs = [d \in Layouts |-> blobs[d]]
  BY DEF Typed
<1>1. ASSUME NEW from \in Stages, NEW to \in Stages \union {"ok", "broken"}, Step(b, from, to),
             index' = [d \in Layouts |-> index'[d]], blobs' = [d \in Layouts |-> blobs'[d]]
      PROVE  Moves(to, mem[b])
  BY <1>0, <1>1 DEF Step, Running
<1>2. CASE Hit(b)
  <2> DEFINE m == [mem[b] EXCEPT !.loads = Loads(index[EntryOf(b)])]
             to == IF mem[b].cfg.output THEN "copylist" ELSE "ok"
  <2>1. Goto(b, to, m) /\ Running(b) /\ UNCHANGED <<index, blobs>>
    BY <1>2 DEF Hit, disk, Running, Stages, CopyStages
  <2>2. Shape(m) /\ m.layers = mem[b].layers
    BY <1>0 DEF Shape
  <2>3. to \in Stages \union {"ok", "broken"}
    BY DEF Stages, CopyStages
  <2>4. Moves(to, m)
    BY <2>1, <2>2, <1>0
  <2> QED
    BY <2>3, <2>4
<1>3. CASE Miss(b)
  BY <1>3, <1>1, <1>0 DEF Miss, disk, Stages, CopyStages
<1>4. CASE CleanTarget(b)
  BY <1>4, <1>1, <1>0 DEF CleanTarget, Stages, CopyStages
<1>5. CASE ExtractLayer(b)
  <2> DEFINE m == [mem[b] EXCEPT !.done = @ + 1]
  <2>1. Goto(b, "extract", m) /\ Running(b) /\ UNCHANGED <<index, blobs>>
    BY <1>5 DEF ExtractLayer, Extracts, Running, Stages, CopyStages
  <2>2. Shape(m) /\ m.layers = mem[b].layers
    BY <1>0 DEF Shape
  <2>3. Moves("extract", m)
    BY <2>1, <2>2, <1>0
  <2> QED
    BY <2>3 DEF Stages, CopyStages
<1>6. CASE ComposeImage(b)
  <2> DEFINE m == [mem[b] EXCEPT !.img = Image(b)]
  <2>1. Goto(b, "open", m) /\ Running(b) /\ UNCHANGED <<index, blobs>>
    BY <1>6 DEF ComposeImage, disk, Running, Stages, CopyStages
  <2>3. Shape(m) /\ m.layers = mem[b].layers
    BY <1>0 DEF Shape
  <2>4. Moves("open", m)
    BY <2>1, <2>3, <1>0
  <2> QED
    BY <2>4 DEF Stages, CopyStages
<1>7. CASE FromPath(b) \/ InitTruncate(b) \/ InitWrite(b)
  <2>1. CASE FromPath(b)
    <3> DEFINE to == IF index[mem[b].dir].state = "absent" THEN "init" ELSE "blobs"
    <3>1. Goto(b, to, mem[b]) /\ Running(b) /\ UNCHANGED <<index, blobs>>
      BY <2>1 DEF FromPath, disk, Running, Stages, CopyStages
    <3>2. Moves(to, mem[b]) /\ to \in Stages
      BY <3>1, <1>0 DEF Stages
    <3> QED
      BY <3>2
  <2>2. CASE InitTruncate(b)
    BY <2>2, <1>1, <1>0, IndexMoves DEF InitTruncate, Stages
  <2>3. CASE InitWrite(b)
    <3>1. WritesIndex(b, <<>>) /\ UNCHANGED blobs /\ Step(b, "initwrite", "blobs")
      BY <2>3 DEF InitWrite
    <3> QED
      BY <3>1, <1>1, <1>0, IndexMoves DEF Stages
  <2> QED
    BY <1>7, <2>1, <2>2, <2>3
<1>8. CASE WriteBlobs(b)
  BY <1>8, <1>1, <1>0 DEF WriteBlobs, Stages, CopyStages
<1>9. CASE ReadIndex(b)
  <2> DEFINE m == [mem[b] EXCEPT !.seen = index[mem[b].dir].images]
  <2>1. Goto(b, "truncate", m) /\ Running(b) /\ UNCHANGED <<index, blobs>>
    BY <1>9 DEF ReadIndex, disk, Running, Stages, CopyStages
  <2>2. Shape(m) /\ m.layers = mem[b].layers
    BY <1>0 DEF Shape
  <2>3. Moves("truncate", m)
    BY <2>1, <2>2, <1>0
  <2> QED
    BY <2>3 DEF Stages, CopyStages
<1>10. CASE TruncateIndex(b)
  BY <1>10, <1>1, <1>0, IndexMoves DEF TruncateIndex, Stages, CopyStages
<1>11. CASE WriteIndex(b)
  <2> DEFINE m == [mem[b] EXCEPT !.dir = Output]
  <2>1. Goto(b, AfterLayout(b), m) /\ Running(b) /\ UNCHANGED blobs
    BY <1>11 DEF WriteIndex, Running, Stages, CopyStages
  <2>2. Shape(m) /\ m.layers = mem[b].layers
    BY <1>0 DEF Shape, Layouts
  <2>3. index' = [d \in Layouts |-> index'[d]]
    BY <1>11, IndexMoves DEF WriteIndex
  <2>4. Moves(AfterLayout(b), m)
    BY <2>1, <2>2, <2>3, <1>0
  <2>5. AfterLayout(b) \in Stages \union {"ok", "broken"}
    BY DEF AfterLayout, Stages, CopyStages
  <2> QED
    BY <2>4, <2>5
<1>12. CASE WriteTarball(b)
  BY <1>12, <1>1, <1>0 DEF WriteTarball, disk, Stages, CopyStages
<1>13. CASE CopiesBlobs(b)
  <2>1. PICK to \in {"copyblobs", "copyfile"} : \E m :
          /\ Goto(b, to, m) /\ Shape(m) /\ Running(b)
          /\ m.cfg = mem[b].cfg /\ m.layers = mem[b].layers /\ m.done = mem[b].done
          /\ m.dir = mem[b].dir /\ m.loads = mem[b].loads
          /\ UNCHANGED <<work, index, mixed>>
          /\ blobs' = [d \in Layouts |-> blobs'[d]]
          /\ \A d \in Layouts \ {Output} : blobs'[d] = blobs[d]
    BY <1>13, CopyMoves
  <2>2. \E m : Moves(to, m)
    BY <2>1, <1>0
  <2> QED
    BY <2>1, <2>2 DEF Stages, CopyStages
<1>14. CASE RemoveIndex(b) \/ CopyIndex(b)
  <2>1. CASE RemoveIndex(b)
    BY <2>1, <1>1, <1>0 DEF RemoveIndex, Stages, CopyStages
  <2>2. CASE CopyIndex(b)
    BY <2>2, <1>1, <1>0 DEF CopyIndex, Stages, CopyStages
  <2> QED
    BY <1>14, <2>1, <2>2
<1>15. CASE BreakOff(b)
  <2>2. Goto(b, "broken", mem[b]) /\ Running(b)
    BY <1>15 DEF BreakOff, Goto, Stages, CopyStages
  <2>3. index' = [d \in Layouts |-> index'[d]] /\ blobs' = [d \in Layouts |-> blobs'[d]]
    BY <1>15, <1>0 DEF BreakOff, disk, Extracts
  <2>4. Moves("broken", mem[b])
    BY <2>2, <2>3, <1>0
  <2> QED
    BY <2>4
<1> QED
  BY <1>2, <1>3, <1>4, <1>5, <1>6, <1>7, <1>8, <1>9, <1>10, <1>11, <1>12, <1>13, <1>14, <1>15
     DEF BuildSteps, CopiesBlobs

LEMMA InitTyped == Init => Typed
  BY GoneShape DEF Init, Typed, Running, Stages, CopyStages, Shape

LEMMA StartMoves ==
  ASSUME Typed, NEW b \in Builds, NEW c \in Configs, Start(b, c)
  PROVE  /\ Goto(b, "lookup", Fresh(c)) /\ Shape(Fresh(c)) /\ mem'[b] = Fresh(c)
         /\ pc'[b] = "lookup" /\ UNCHANGED disk
<1>1. Goto(b, "lookup", Fresh(c)) /\ UNCHANGED disk
  BY DEF Start
<1> QED
  BY <1>1, FreshShape, GotoMoves DEF Stages

LEMMA StartTyped ==
  ASSUME Typed, NEW b \in Builds, NEW c \in Configs, Start(b, c)
  PROVE  Typed'
<1>1. /\ Goto(b, "lookup", Fresh(c)) /\ Shape(Fresh(c)) /\ mem'[b] = Fresh(c)
      /\ pc'[b] = "lookup" /\ UNCHANGED disk
  BY StartMoves
<1>2. /\ mem' = [a \in Builds |-> mem'[a]]
      /\ \A a \in Builds \ {b} : mem'[a] = mem[a] /\ pc'[a] = pc[a]
      /\ \A a \in Builds : Shape(mem'[a])
  BY <1>1, GotoMoves
<1>3. pc' \in [Builds -> Stages \union {"unborn", "ok", "broken"}]
  BY <1>1 DEF Goto, Typed, Stages
<1>4. EntryOf(b)' \in Layouts
  BY <1>1, FreshShape DEF EntryOf
<1>5. \A a \in Builds : Running(a)' => EntryOf(a)' \in Layouts
  BY <1>2, <1>4 DEF Typed, Running, EntryOf
<1>6. index' = [d \in Layouts |-> index'[d]] /\ blobs' = [d \in Layouts |-> blobs'[d]]
  BY <1>1 DEF Typed, disk
<1> QED
  BY <1>2, <1>3, <1>5, <1>6 DEF Typed

LEMMA BuildTyped ==
  ASSUME Typed, NEW b \in Builds, BuildSteps(b) \/ BreakOff(b)
  PROVE  Typed'
<1>1. PICK to \in Stages \union {"ok", "broken"} : \E m :
           /\ Goto(b, to, m) /\ Shape(m) /\ m.layers = mem[b].layers /\ Running(b)
           /\ index' = [d \in Layouts |-> index'[d]]
           /\ blobs' = [d \in Layouts |-> blobs'[d]]
  BY BuildMoves
<1>2. PICK m : /\ Goto(b, to, m) /\ Shape(m) /\ m.layers = mem[b].layers /\ Running(b)
               /\ index' = [d \in Layouts |-> index'[d]]
               /\ blobs' = [d \in Layouts |-> blobs'[d]]
  BY <1>1
<1>3. /\ mem' = [a \in Builds |-> mem'[a]]
      /\ \A a \in Builds \ {b} : mem'[a] = mem[a] /\ pc'[a] = pc[a]
      /\ mem'[b] = IF to \in Stages THEN m ELSE Gone
      /\ pc'[b] = to
      /\ \A a \in Builds : Shape(mem'[a])
  BY <1>2, GotoMoves
<1>4. pc' \in [Builds -> Stages \union {"unborn", "ok", "broken"}]
  BY <1>2 DEF Goto, Typed
<1>5. Running(b)' => EntryOf(b)' \in Layouts
  BY <1>2, <1>3 DEF Typed, Running, EntryOf
<1>6. \A a \in Builds : Running(a)' => EntryOf(a)' \in Layouts
  BY <1>3, <1>5 DEF Typed, Running, EntryOf
<1> QED
  BY <1>2, <1>3, <1>4, <1>6 DEF Typed

LEMMA NextTyped == Typed /\ [Next]_vars => Typed'
<1> SUFFICES ASSUME Typed, [Next]_vars PROVE Typed'
  OBVIOUS
<1>1. CASE UNCHANGED vars
  BY <1>1 DEF Typed, vars, disk, Running, EntryOf
<1>2. CASE Next
  BY <1>2, StartTyped, BuildTyped DEF Next
<1> QED
  BY <1>1, <1>2

----------------------------------------------------------------------------
(* What a cache entry lists is in it.                                      *)

\* The images an entry lists, and those a build is about to list there, have
\* their blobs in the entry.
Kept ==
  /\ \A d \in Layouts \ {Output} : index[d].images \in Seq(blobs[d])
  /\ \A b \in Builds : mem[b].dir # Output =>
       /\ pc[b] \in {"read", "truncate", "write"} => mem[b].img \in blobs[mem[b].dir]
       /\ pc[b] \in {"truncate", "write"} => mem[b].seen \in Seq(blobs[mem[b].dir])

LEMMA SeqGrows == ASSUME NEW S, NEW T, S \subseteq T, NEW s \in Seq(S) PROVE s \in Seq(T)
  OBVIOUS

LEMMA AppendIn == ASSUME NEW S, NEW s \in Seq(S), NEW x \in S PROVE Append(s, x) \in Seq(S)
  OBVIOUS

LEMMA InitKept == Init => Kept
<1> SUFFICES ASSUME Init PROVE Kept
  OBVIOUS
<1>1. \A d \in Layouts : index[d].images \in Seq(blobs[d])
  <2>1. \A d \in Layouts : index[d] = NoIndex
    BY DEF Init
  <2>2. NoIndex.images = <<>>
    BY DEF NoIndex
  <2>3. \A d \in Layouts : <<>> \in Seq(blobs[d])
    OBVIOUS
  <2> QED
    BY <2>1, <2>2, <2>3
<1>2. \A b \in Builds : mem[b].dir = Output
  BY DEF Init, Gone
<1> QED
  BY <1>1, <1>2 DEF Kept

\* A step that leaves the indexes of the entries alone, and takes no build to a
\* step of AppendImage, keeps it.
LEMMA KeptElsewhere ==
  ASSUME Typed, Typed', Kept, NEW b \in Builds,
         \A a \in Builds \ {b} : mem'[a] = mem[a] /\ pc'[a] = pc[a],
         \A d \in Layouts \ {Output} : blobs[d] \subseteq blobs'[d],
         \A d \in Layouts \ {Output} : index'[d].images \in Seq(blobs'[d]),
         mem'[b].dir # Output =>
           /\ pc'[b] \in {"read", "truncate", "write"} => mem'[b].img \in blobs'[mem'[b].dir]
           /\ pc'[b] \in {"truncate", "write"} => mem'[b].seen \in Seq(blobs'[mem'[b].dir])
  PROVE  Kept'
<1>1. ASSUME NEW a \in Builds, mem'[a].dir # Output
      PROVE  /\ pc'[a] \in {"read", "truncate", "write"} => mem'[a].img \in blobs'[mem'[a].dir]
             /\ pc'[a] \in {"truncate", "write"} => mem'[a].seen \in Seq(blobs'[mem'[a].dir])
  <2>1. CASE a = b
    BY <1>1, <2>1
  <2>2. CASE a # b
    <3>1. mem'[a] = mem[a] /\ pc'[a] = pc[a] /\ mem[a].dir \in Layouts \ {Output}
      BY <1>1, <2>2 DEF Typed, Shape
    <3>2. blobs[mem[a].dir] \subseteq blobs'[mem[a].dir]
      BY <3>1
    <3>3. pc[a] \in {"read", "truncate", "write"} => mem[a].img \in blobs'[mem[a].dir]
      BY <1>1, <3>1, <3>2 DEF Kept
    <3>4. pc[a] \in {"truncate", "write"} => mem[a].seen \in Seq(blobs'[mem[a].dir])
      BY <1>1, <3>1, <3>2, SeqGrows DEF Kept
    <3> QED
      BY <3>1, <3>3, <3>4
  <2> QED
    BY <2>1, <2>2
<1> QED
  BY <1>1 DEF Kept

\* What the acting build becomes; the others stay.
LEMMA ActorMoves ==
  ASSUME Typed, NEW b \in Builds, NEW to, NEW m, Shape(m), Goto(b, to, m)
  PROVE  /\ \A a \in Builds \ {b} : mem'[a] = mem[a] /\ pc'[a] = pc[a]
         /\ mem'[b] = IF to \in Stages THEN m ELSE Gone
         /\ pc'[b] = to
  BY GotoMoves

LEMMA StepMoves ==
  ASSUME Typed, NEW b \in Builds, NEW from, NEW to, Step(b, from, to)
  PROVE  /\ \A a \in Builds \ {b} : mem'[a] = mem[a] /\ pc'[a] = pc[a]
         /\ mem'[b] = IF to \in Stages THEN mem[b] ELSE Gone
         /\ pc[b] = from /\ pc'[b] = to
<1>1. Goto(b, to, mem[b]) /\ pc[b] = from /\ Shape(mem[b])
  BY DEF Step, Typed
<1> QED
  BY <1>1, ActorMoves

\* A step that leaves the layouts alone.
LEMMA KeptBeside ==
  ASSUME Typed, Typed', Kept, NEW b \in Builds, UNCHANGED <<index, blobs>>,
         \A a \in Builds \ {b} : mem'[a] = mem[a] /\ pc'[a] = pc[a],
         pc'[b] \notin {"read", "truncate", "write"}
  PROVE  Kept'
<1>1. \A d \in Layouts \ {Output} : index'[d].images \in Seq(blobs'[d])
  BY DEF Kept
<1> QED
  BY <1>1, KeptElsewhere

LEMMA StartKept ==
  ASSUME Typed, Typed', Kept, NEW b \in Builds, NEW c \in Configs, Start(b, c)
  PROVE  Kept'
<1>1. /\ Goto(b, "lookup", Fresh(c)) /\ Shape(Fresh(c)) /\ pc'[b] = "lookup" /\ UNCHANGED disk
  BY StartMoves
<1>2. \A a \in Builds \ {b} : mem'[a] = mem[a] /\ pc'[a] = pc[a]
  BY <1>1, ActorMoves
<1>3. UNCHANGED <<index, blobs>>
  BY <1>1 DEF disk
<1> QED
  BY <1>1, <1>2, <1>3, KeptBeside

\* An index without images is as good as any.
LEMMA EmptiedKept ==
  ASSUME Kept, UNCHANGED blobs, NEW d \in Layouts \ {Output},
         index'[d] = index[d] \/ index'[d] = CutIndex \/ index'[d] = Lists(<<>>)
  PROVE  index'[d].images \in Seq(blobs'[d])
<1>1. CutIndex.images = <<>> /\ Lists(<<>>).images = <<>>
  BY DEF CutIndex, Lists
<1>2. index[d].images \in Seq(blobs[d]) /\ <<>> \in Seq(blobs[d])
  BY DEF Kept
<1> QED
  BY <1>1, <1>2

LEMMA InitLayoutKept ==
  ASSUME Typed, Typed', Kept, NEW b \in Builds, InitTruncate(b) \/ InitWrite(b) PROVE Kept'
<1>1. \/ Step(b, "init", "initwrite") /\ Truncates(b)
      \/ Step(b, "initwrite", "blobs") /\ WritesIndex(b, <<>>)
  BY DEF InitTruncate, InitWrite
<1>2. UNCHANGED blobs
  BY DEF InitTruncate, InitWrite
<1>3. (\A a \in Builds \ {b} : mem'[a] = mem[a] /\ pc'[a] = pc[a])
      /\ pc'[b] \in {"initwrite", "blobs"}
  BY <1>1, StepMoves
<1>4. \A d \in Layouts \ {Output} :
        index'[d] = index[d] \/ index'[d] = CutIndex \/ index'[d] = Lists(<<>>)
  BY <1>1, IndexMoves
<1>5. \A d \in Layouts \ {Output} : index'[d].images \in Seq(blobs'[d])
  BY <1>2, <1>4, EmptiedKept
<1> QED
  BY <1>2, <1>3, <1>5, KeptElsewhere

LEMMA WriteBlobsKept ==
  ASSUME Typed, Typed', Kept, NEW b \in Builds, WriteBlobs(b) PROVE Kept'
<1>1. Step(b, "blobs", "read") /\ UNCHANGED index
      /\ blobs' = [blobs EXCEPT ![mem[b].dir] = @ \union {mem[b].img}]
  BY DEF WriteBlobs
<1>2. /\ \A a \in Builds \ {b} : mem'[a] = mem[a] /\ pc'[a] = pc[a]
      /\ pc'[b] = "read" /\ mem'[b] = mem[b]
  BY <1>1, StepMoves DEF Stages
<1>3. mem[b].dir \in Layouts
  BY DEF Typed, Shape
<1>4. \A d \in Layouts \ {Output} : blobs[d] \subseteq blobs'[d]
  BY <1>1 DEF Typed
<1>5. mem[b].img \in blobs'[mem[b].dir]
  BY <1>1, <1>3 DEF Typed
<1>6. \A d \in Layouts \ {Output} : index'[d].images \in Seq(blobs'[d])
  BY <1>1, <1>4, SeqGrows DEF Kept
<1> QED
  BY <1>2, <1>4, <1>5, <1>6, KeptElsewhere

LEMMA ReadIndexKept ==
  ASSUME Typed, Typed', Kept, NEW b \in Builds, ReadIndex(b) PROVE Kept'
<1> DEFINE m == [mem[b] EXCEPT !.seen = index[mem[b].dir].images]
<1>1. Goto(b, "truncate", m) /\ pc[b] = "read" /\ UNCHANGED <<index, blobs>>
  BY DEF ReadIndex, disk
<1>2. /\ Shape(m) /\ m.dir = mem[b].dir /\ m.img = mem[b].img
      /\ m.seen = index[mem[b].dir].images
  BY DEF Typed, Shape
<1> HIDE DEF m
<1>3. /\ \A a \in Builds \ {b} : mem'[a] = mem[a] /\ pc'[a] = pc[a]
      /\ pc'[b] = "truncate" /\ mem'[b] = m
  BY <1>1, <1>2, ActorMoves DEF Stages
<1>4. m.dir # Output => m.img \in blobs[m.dir] /\ m.seen \in Seq(blobs[m.dir])
  <2>1. m.dir \in Layouts
    BY <1>2 DEF Shape
  <2> QED
    BY <2>1, <1>1, <1>2 DEF Kept
<1>5. \A d \in Layouts \ {Output} : index'[d].images \in Seq(blobs'[d])
  BY <1>1 DEF Kept
<1> QED
  BY <1>1, <1>3, <1>4, <1>5, KeptElsewhere

LEMMA TruncateIndexKept ==
  ASSUME Typed, Typed', Kept, NEW b \in Builds, TruncateIndex(b) PROVE Kept'
<1>1. Step(b, "truncate", "write") /\ UNCHANGED blobs /\ Truncates(b)
  BY DEF TruncateIndex
<1>2. /\ \A a \in Builds \ {b} : mem'[a] = mem[a] /\ pc'[a] = pc[a]
      /\ pc[b] = "truncate" /\ mem'[b] = mem[b]
  BY <1>1, StepMoves DEF Stages
<1>3. mem[b].dir # Output =>
        mem[b].img \in blobs[mem[b].dir] /\ mem[b].seen \in Seq(blobs[mem[b].dir])
  BY <1>2 DEF Kept
<1>4. \A d \in Layouts \ {Output} : index'[d] = index[d] \/ index'[d] = CutIndex
  BY <1>1 DEF Truncates, Typed
<1>5. \A d \in Layouts \ {Output} : index'[d].images \in Seq(blobs'[d])
  BY <1>1, <1>4, EmptiedKept
<1> QED
  BY <1>1, <1>2, <1>3, <1>5, KeptElsewhere

LEMMA WriteIndexKept ==
  ASSUME Typed, Typed', Kept, NEW b \in Builds, WriteIndex(b) PROVE Kept'
<1> DEFINE m == [mem[b] EXCEPT !.dir = Output]
<1>1. Goto(b, AfterLayout(b), m) /\ pc[b] = "write" /\ UNCHANGED blobs
      /\ WritesIndex(b, Append(mem[b].seen, mem[b].img))
  BY DEF WriteIndex
<1>2. Shape(m)
  BY DEF Typed, Shape, Layouts
<1> HIDE DEF m
<1>3. /\ \A a \in Builds \ {b} : mem'[a] = mem[a] /\ pc'[a] = pc[a]
      /\ pc'[b] = AfterLayout(b)
  BY <1>1, <1>2, ActorMoves
<1>4. AfterLayout(b) \notin {"read", "truncate", "write"}
  BY DEF AfterLayout
<1>5. ASSUME NEW d \in Layouts \ {Output} PROVE index'[d].images \in Seq(blobs'[d])
  <2>0. \/ index'[d] = index[d]
        \/ d = mem[b].dir /\ index'[d] = Lists(Append(mem[b].seen, mem[b].img))
    BY <1>1 DEF WritesIndex, Typed
  <2>1. CASE index'[d] = index[d]
    BY <2>1, <1>1 DEF Kept
  <2>2. CASE d = mem[b].dir /\ index'[d] = Lists(Append(mem[b].seen, mem[b].img))
    <3>1. mem[b].img \in blobs[d] /\ mem[b].seen \in Seq(blobs[d])
      BY <2>2, <1>1 DEF Kept
    <3>2. index'[d].images = Append(mem[b].seen, mem[b].img)
      BY <2>2 DEF Lists
    <3>3. Append(mem[b].seen, mem[b].img) \in Seq(blobs[d])
      BY <3>1, AppendIn
    <3>4. blobs' = blobs
      BY <1>1
    <3> QED
      BY <3>2, <3>3, <3>4
  <2> QED
    BY <2>0, <2>1, <2>2
<1> QED
  BY <1>1, <1>3, <1>4, <1>5, KeptElsewhere

\* A copy writes to the output only.
LEMMA CopyKept ==
  ASSUME Typed, Typed', Kept, NEW b \in Builds,
         CopiesBlobs(b) \/ RemoveIndex(b) \/ CopyIndex(b)
  PROVE  Kept'
<1>1. /\ \E to : (\E m : Goto(b, to, m)) /\ to \in {"copyblobs", "copyfile", "copyindex", "ok"}
      /\ \A d \in Layouts \ {Output} : index'[d] = index[d] /\ blobs'[d] = blobs[d]
  <2>1. CASE CopiesBlobs(b)
    <3>1. PICK to \in {"copyblobs", "copyfile"} : \E m :
            /\ Goto(b, to, m) /\ UNCHANGED index
            /\ \A d \in Layouts \ {Output} : blobs'[d] = blobs[d]
      BY <2>1, CopyMoves
    <3> QED
      BY <3>1
  <2>2. CASE RemoveIndex(b)
    BY <2>2 DEF RemoveIndex, Step, Typed
  <2>3. CASE CopyIndex(b)
    BY <2>3 DEF CopyIndex, Step, Typed
  <2> QED
    BY <2>1, <2>2, <2>3
<1>2. (\A a \in Builds \ {b} : mem'[a] = mem[a] /\ pc'[a] = pc[a])
      /\ pc'[b] \in {"copyblobs", "copyfile", "copyindex", "ok"}
  BY <1>1 DEF Goto, Typed
<1>3. \A d \in Layouts \ {Output} : index'[d].images \in Seq(blobs'[d])
  BY <1>1 DEF Kept
<1> QED
  BY <1>1, <1>2, <1>3, KeptElsewhere

LEMMA BreakOffKept ==
  ASSUME Typed, Typed', Kept, NEW b \in Builds, BreakOff(b) PROVE Kept'
<1>1. Goto(b, "broken", Gone) /\ UNCHANGED blobs
  BY DEF BreakOff, disk, Extracts
<1>2. /\ \A a \in Builds \ {b} : mem'[a] = mem[a] /\ pc'[a] = pc[a]
      /\ pc'[b] = "broken"
  BY <1>1, GoneShape, ActorMoves
<1>3. \A d \in Layouts \ {Output} : index'[d] = index[d]
  BY DEF BreakOff, disk, Extracts, Typed
<1>4. \A d \in Layouts \ {Output} : index'[d].images \in Seq(blobs'[d])
  BY <1>1, <1>3 DEF Kept
<1> QED
  BY <1>1, <1>2, <1>4, KeptElsewhere

\* The steps before a layout is written, and the tarball, write no layout.
LEMMA BesideKept ==
  ASSUME Typed, Typed', Kept, NEW b \in Builds,
         \/ Hit(b) \/ Miss(b) \/ CleanTarget(b) \/ ExtractLayer(b)
         \/ ComposeImage(b) \/ FromPath(b) \/ WriteTarball(b)
  PROVE  Kept'
<1>1. UNCHANGED <<index, blobs>>
  BY DEF Hit, Miss, CleanTarget, ExtractLayer, Extracts, ComposeImage, FromPath, WriteTarball, disk
<1>2. \E to \in {"copylist", "ok", "clean", "extract", "open", "init", "blobs"} : \E m : Goto(b, to, m)
  BY DEF Hit, Miss, CleanTarget, ExtractLayer, ComposeImage, FromPath, WriteTarball, Step
<1>3. PICK to \in {"copylist", "ok", "clean", "extract", "open", "init", "blobs"} : \E m : Goto(b, to, m)
  BY <1>2
<1>4. (\A a \in Builds \ {b} : mem'[a] = mem[a] /\ pc'[a] = pc[a]) /\ pc'[b] = to
  BY <1>3 DEF Goto, Typed
<1> QED
  BY <1>1, <1>4, KeptBeside

LEMMA NextKept == Typed /\ Typed' /\ Kept /\ [Next]_vars => Kept'
<1> SUFFICES ASSUME Typed, Typed', Kept, [Next]_vars PROVE Kept'
  OBVIOUS
<1>1. CASE UNCHANGED vars
  BY <1>1 DEF Kept, vars, disk
<1>2. ASSUME NEW b \in Builds, NEW c \in Configs, Start(b, c) PROVE Kept'
  BY <1>2, StartKept
<1>3. ASSUME NEW b \in Builds, BuildSteps(b) PROVE Kept'
  BY <1>3, BesideKept, InitLayoutKept, WriteBlobsKept, ReadIndexKept, TruncateIndexKept,
     WriteIndexKept, CopyKept DEF BuildSteps, CopiesBlobs
<1>4. ASSUME NEW b \in Builds, BreakOff(b) PROVE Kept'
  BY <1>4, BreakOffKept
<1> QED
  BY <1>1, <1>2, <1>3, <1>4 DEF Next

\* What a cache entry lists can be loaded, however many builds run at once and
\* wherever they break off.
THEOREM EntriesAreWhole == Spec => []EntriesWhole
<1>1. Init => Typed /\ Kept
  BY InitTyped, InitKept
<1>2. Typed /\ Kept /\ [Next]_vars => Typed' /\ Kept'
  BY NextTyped, NextKept
<1>3. Kept => EntriesWhole
  <2> SUFFICES ASSUME Kept, NEW key \in Keys, NEW i \in DOMAIN index[Entry(key)].images
               PROVE  index[Entry(key)].images[i] \in blobs[Entry(key)]
    BY DEF EntriesWhole
  <2>1. Entry(key) \in Layouts \ {Output}
    BY DEF Layouts, Entry, Output
  <2>2. index[Entry(key)].images \in Seq(blobs[Entry(key)])
    BY <2>1 DEF Kept
  <2> QED
    BY <2>2
<1> QED
  BY <1>1, <1>2, <1>3, PTL DEF Spec

----------------------------------------------------------------------------
(* What a cache entry holds is what its key says.                          *)

Good(im, key) == im.by \in mixed \/ IsOf(im, key)
KeyOf(b) == ComputeCacheKey(mem[b].layers)

\* The work directory of a build that nobody disturbed.
Tidy(b) ==
  /\ pc[b] \in {"lookup", "clean"} => mem[b].done = 0
  /\ pc[b] = "extract" /\ b \notin mixed =>
       work = [i \in 1..mem[b].done |-> Piece(b, mem[b].layers[i])]

\* From its packing to the end of a layout's writing a build carries its image.
Carrying == {"open", "init", "initwrite", "blobs", "read", "truncate", "write"}

\* The image of a build, and those it has read, are of the key it writes to.
Carries(b) ==
  /\ Running(b) => mem[b].dir \in {Output, EntryOf(b)}
  /\ pc[b] \in Carrying => Good(mem[b].img, KeyOf(b))
  /\ pc[b] \in {"truncate", "write"} /\ mem[b].dir # Output =>
       \A i \in DOMAIN mem[b].seen : Good(mem[b].seen[i], KeyOf(b))

AllTidy == \A b \in Builds : Tidy(b)
Right == EntryIsItsKey /\ \A b \in Builds : Carries(b)

LEMMA InitTidy == Init => AllTidy
  BY DEF Init, AllTidy, Tidy, Gone

\* A step that leaves the work directory alone.
LEMMA TidyBeside ==
  ASSUME Typed, AllTidy, NEW b \in Builds, UNCHANGED <<work, mixed>>,
         \A a \in Builds \ {b} : mem'[a] = mem[a] /\ pc'[a] = pc[a],
         Tidy(b)'
  PROVE  AllTidy'
<1>1. ASSUME NEW a \in Builds \ {b} PROVE Tidy(a)'
  BY DEF AllTidy, Tidy
<1> QED
  BY <1>1 DEF AllTidy

\* A step that changes it marks the others that are in it.
LEMMA TidyDisturbed ==
  ASSUME Typed, AllTidy, NEW b \in Builds, Disturbs(b),
         \A a \in Builds \ {b} : mem'[a] = mem[a] /\ pc'[a] = pc[a],
         Tidy(b)'
  PROVE  AllTidy'
<1>1. ASSUME NEW a \in Builds \ {b} PROVE Tidy(a)'
  <2>1. pc[a] = "extract" => a \in mixed'
    BY DEF Disturbs, InWork
  <2>2. pc[a] \in {"lookup", "clean"} => mem[a].done = 0
    BY DEF AllTidy, Tidy
  <2> QED
    BY <2>1, <2>2 DEF Tidy
<1> QED
  BY <1>1 DEF AllTidy

LEMMA CleanTargetTidy ==
  ASSUME Typed, AllTidy, NEW b \in Builds, CleanTarget(b) PROVE AllTidy'
<1>1. Step(b, "clean", "extract") /\ Disturbs(b) /\ work' = <<>>
  BY DEF CleanTarget
<1>2. /\ \A a \in Builds \ {b} : mem'[a] = mem[a] /\ pc'[a] = pc[a]
      /\ pc[b] = "clean" /\ pc'[b] = "extract" /\ mem'[b] = mem[b]
  BY <1>1, StepMoves DEF Stages
<1>3. mem[b].done = 0
  BY <1>2 DEF AllTidy, Tidy
<1>4. <<>> = [i \in 1..0 |-> Piece(b, mem[b].layers[i])]
  OBVIOUS
<1>5. Tidy(b)'
  BY <1>1, <1>2, <1>3, <1>4 DEF Tidy
<1> QED
  BY <1>1, <1>2, <1>5, TidyDisturbed

LEMMA ExtractLayerTidy ==
  ASSUME Typed, AllTidy, NEW b \in Builds, ExtractLayer(b) PROVE AllTidy'
<1> DEFINE m == [mem[b] EXCEPT !.done = @ + 1]
<1>1. /\ Goto(b, "extract", m) /\ Disturbs(b) /\ pc[b] = "extract"
      /\ work' = Append(work, Piece(b, mem[b].layers[mem[b].done + 1]))
  BY DEF ExtractLayer, Extracts
<1>2. /\ Shape(m) /\ m.done = mem[b].done + 1 /\ m.layers = mem[b].layers
      /\ mem[b].done \in Nat
  BY DEF Typed, Shape
<1> HIDE DEF m
<1>3. /\ \A a \in Builds \ {b} : mem'[a] = mem[a] /\ pc'[a] = pc[a]
      /\ pc'[b] = "extract" /\ mem'[b] = m
  BY <1>1, <1>2, ActorMoves DEF Stages
<1>4. Tidy(b)'
  <2> SUFFICES ASSUME b \notin mixed'
               PROVE  work' = [i \in 1..m.done |-> Piece(b, m.layers[i])]
    BY <1>3 DEF Tidy
  <2> DEFINE n == mem[b].done
             P(i) == Piece(b, mem[b].layers[i])
  <2>1. b \notin mixed
    BY <1>1 DEF Disturbs
  <2>2. work = [i \in 1..n |-> P(i)]
    BY <2>1, <1>1 DEF AllTidy, Tidy
  <2>3. work' = Append(work, P(n + 1)) /\ n \in Nat
    BY <1>1, <1>2
  <2> HIDE DEF n, P
  <2>4. Append([i \in 1..n |-> P(i)], P(n + 1)) = [i \in 1..(n + 1) |-> P(i)]
    BY <2>3
  <2>5. work' = [i \in 1..(n + 1) |-> P(i)]
    BY <2>2, <2>3, <2>4
  <2> QED
    BY <2>5, <1>2 DEF n, P
<1> QED
  BY <1>1, <1>3, <1>4, TidyDisturbed

LEMMA BreakOffTidy ==
  ASSUME Typed, AllTidy, NEW b \in Builds, BreakOff(b) PROVE AllTidy'
<1>1. Goto(b, "broken", Gone)
  BY DEF BreakOff
<1>2. /\ \A a \in Builds \ {b} : mem'[a] = mem[a] /\ pc'[a] = pc[a]
      /\ pc'[b] = "broken"
  BY <1>1, GoneShape, ActorMoves
<1>3. Tidy(b)'
  BY <1>2 DEF Tidy
<1>4. Disturbs(b) \/ UNCHANGED <<work, mixed>>
  BY DEF BreakOff, Extracts, disk
<1> QED
  BY <1>2, <1>3, <1>4, TidyDisturbed, TidyBeside

LEMMA StartTidy ==
  ASSUME Typed, AllTidy, NEW b \in Builds, NEW c \in Configs, Start(b, c) PROVE AllTidy'
<1>1. /\ Goto(b, "lookup", Fresh(c)) /\ Shape(Fresh(c)) /\ mem'[b] = Fresh(c)
      /\ pc'[b] = "lookup" /\ UNCHANGED disk
  BY StartMoves
<1>2. \A a \in Builds \ {b} : mem'[a] = mem[a] /\ pc'[a] = pc[a]
  BY <1>1, ActorMoves
<1>3. Tidy(b)' /\ UNCHANGED <<work, mixed>>
  BY <1>1 DEF Tidy, Fresh, disk
<1> QED
  BY <1>2, <1>3, TidyBeside

LEMMA MissTidy ==
  ASSUME Typed, AllTidy, NEW b \in Builds, Miss(b) PROVE AllTidy'
<1>1. Step(b, "lookup", "clean") /\ UNCHANGED <<work, mixed>>
  BY DEF Miss, disk
<1>2. /\ \A a \in Builds \ {b} : mem'[a] = mem[a] /\ pc'[a] = pc[a]
      /\ pc[b] = "lookup" /\ pc'[b] = "clean" /\ mem'[b] = mem[b]
  BY <1>1, StepMoves DEF Stages
<1>3. Tidy(b)'
  BY <1>2 DEF AllTidy, Tidy
<1> QED
  BY <1>1, <1>2, <1>3, TidyBeside

\* The other steps are of builds that have packed their rootfs, or need none.
LEMMA BesideTidy ==
  ASSUME Typed, AllTidy, NEW b \in Builds,
         \/ Hit(b) \/ ComposeImage(b) \/ FromPath(b) \/ InitTruncate(b) \/ InitWrite(b)
         \/ WriteBlobs(b) \/ ReadIndex(b) \/ TruncateIndex(b) \/ WriteIndex(b)
         \/ WriteTarball(b) \/ CopiesBlobs(b) \/ RemoveIndex(b) \/ CopyIndex(b)
  PROVE  AllTidy'
<1>1. /\ UNCHANGED <<work, mixed>>
      /\ \E to : (\E m : Goto(b, to, m)) /\ to \notin {"lookup", "clean", "extract"}
  <2>1. CASE CopiesBlobs(b)
    <3>1. PICK to \in {"copyblobs", "copyfile"} : (\E m : Goto(b, to, m)) /\ UNCHANGED <<work, mixed>>
      BY <2>1, CopyMoves
    <3> QED
      BY <3>1
  <2>2. CASE ~CopiesBlobs(b)
    BY <2>2 DEF Hit, ComposeImage, FromPath, InitTruncate, InitWrite, WriteBlobs, ReadIndex,
                TruncateIndex, WriteIndex, WriteTarball, RemoveIndex, CopyIndex, Step,
                AfterLayout, disk
  <2> QED
    BY <2>1, <2>2
<1>3. (\A a \in Builds \ {b} : mem'[a] = mem[a] /\ pc'[a] = pc[a])
      /\ pc'[b] \notin {"lookup", "clean", "extract"}
  BY <1>1 DEF Goto, Typed
<1>4. Tidy(b)'
  BY <1>3 DEF Tidy
<1> QED
  BY <1>1, <1>3, <1>4, TidyBeside

LEMMA NextTidy == Typed /\ AllTidy /\ [Next]_vars => AllTidy'
<1> SUFFICES ASSUME Typed, AllTidy, [Next]_vars PROVE AllTidy'
  OBVIOUS
<1>1. CASE UNCHANGED vars
  BY <1>1 DEF AllTidy, Tidy, vars, disk
<1>2. ASSUME NEW b \in Builds, NEW c \in Configs, Start(b, c) PROVE AllTidy'
  BY <1>2, StartTidy
<1>3. ASSUME NEW b \in Builds, BuildSteps(b) PROVE AllTidy'
  BY <1>3, MissTidy, CleanTargetTidy, ExtractLayerTidy, BesideTidy DEF BuildSteps, CopiesBlobs
<1>4. ASSUME NEW b \in Builds, BreakOff(b) PROVE AllTidy'
  BY <1>4, BreakOffTidy
<1> QED
  BY <1>1, <1>2, <1>3, <1>4 DEF Next

LEMMA EntryKeys == /\ \A k, l : Entry(k) = Entry(l) => k = l
                   /\ \A k : Entry(k) # Output
                   /\ \A b \in Builds : EntryOf(b) = Entry(KeyOf(b))
                   /\ \A k : Entry(k) \in Layouts => k \in Keys
<1>1. \A k, l : Entry(k) = Entry(l) => k = l
  BY DEF Entry
<1>2. \A k : Entry(k) # Output
  BY DEF Entry, Output
<1>3. \A k : Entry(k) \in Layouts => k \in Keys
  BY <1>1, <1>2 DEF Layouts
<1> QED
  BY <1>1, <1>2, <1>3 DEF EntryOf, KeyOf

LEMMA InitRight == Init => Right
<1> SUFFICES ASSUME Init PROVE Right
  OBVIOUS
<1>1. \A b \in Builds : Carries(b)
  BY DEF Init, Carries, Carrying, Running, Stages, CopyStages
<1>2. EntryIsItsKey
  <2>1. \A key \in Keys : index[Entry(key)] = NoIndex
    BY DEF Init, Layouts
  <2>2. DOMAIN NoIndex.images = {}
    BY DEF NoIndex
  <2> QED
    BY <2>1, <2>2 DEF EntryIsItsKey
<1> QED
  BY <1>1, <1>2 DEF Right

\* What was good stays good: only more builds are disturbed.
LEMMA MixedGrows == ASSUME [Next]_vars PROVE mixed \subseteq mixed'
<1>1. CASE UNCHANGED vars
  BY <1>1 DEF vars, disk
<1>2. ASSUME NEW b \in Builds, NEW c \in Configs, Start(b, c) PROVE mixed \subseteq mixed'
  BY <1>2 DEF Start, disk
<1>3. ASSUME NEW b \in Builds, BuildSteps(b) PROVE mixed \subseteq mixed'
  BY <1>3 DEF BuildSteps, Hit, Miss, CleanTarget, ExtractLayer, Extracts, ComposeImage, FromPath,
              InitTruncate, InitWrite, WriteBlobs, ReadIndex, TruncateIndex, WriteIndex,
              WriteTarball, ListBlobs, RemoveBlob, CopyBlob, RemoveIndex, CopyIndex, Disturbs, disk
<1>4. ASSUME NEW b \in Builds, BreakOff(b) PROVE mixed \subseteq mixed'
  BY <1>4 DEF BreakOff, Extracts, Disturbs, disk
<1> QED
  BY <1>1, <1>2, <1>3, <1>4 DEF Next

LEMMA RightElsewhere ==
  ASSUME Typed, Right, NEW b \in Builds, mixed \subseteq mixed',
         \A a \in Builds \ {b} : mem'[a] = mem[a] /\ pc'[a] = pc[a],
         EntryIsItsKey', Carries(b)'
  PROVE  Right'
<1>1. ASSUME NEW a \in Builds \ {b} PROVE Carries(a)'
  <2>1. Carries(a) /\ mem'[a] = mem[a] /\ pc'[a] = pc[a]
    BY DEF Right
  <2>2. \A im : Good(im, KeyOf(a)) => Good(im, KeyOf(a))'
    BY <2>1 DEF Good, KeyOf
  <2>3. Running(a)' => mem'[a].dir \in {Output, EntryOf(a)'}
    BY <2>1 DEF Carries, Carrying, Running, EntryOf
  <2>4. pc[a] \in Carrying => Good(mem[a].img, KeyOf(a))'
    BY <2>1, <2>2 DEF Carries, Carrying, Good, KeyOf
  <2>5. pc[a] \in {"truncate", "write"} /\ mem[a].dir # Output =>
          \A i \in DOMAIN mem[a].seen : Good(mem[a].seen[i], KeyOf(a))'
    BY <2>1, <2>2 DEF Carries, Carrying, Good, KeyOf
  <2> QED
    BY <2>1, <2>3, <2>4, <2>5 DEF Carries, Carrying, Good
<1> QED
  BY <1>1 DEF Right

\* Indexes of entries that stay as they are, or lose their images.
LEMMA EntriesShrink ==
  ASSUME Typed, Right, mixed \subseteq mixed',
         \A d \in Layouts \ {Output} : index'[d] = index[d] \/ DOMAIN index'[d].images = {}
  PROVE  EntryIsItsKey'
<1> SUFFICES ASSUME NEW key \in Keys, NEW i \in DOMAIN index'[Entry(key)].images
             PROVE  LET im == index'[Entry(key)].images[i] IN im.by \in mixed' \/ IsOf(im, key)
  BY DEF EntryIsItsKey
<1>1. Entry(key) \in Layouts \ {Output}
  BY EntryKeys DEF Layouts
<1>2. index'[Entry(key)] = index[Entry(key)]
  BY <1>1
<1> QED
  BY <1>2 DEF Right, EntryIsItsKey

LEMMA EmptyIndexes == DOMAIN Lists(<<>>).images = {} /\ DOMAIN CutIndex.images = {}
  BY DEF Lists, CutIndex

LEMMA StartRight ==
  ASSUME Typed, Right, mixed \subseteq mixed',
         NEW b \in Builds, NEW c \in Configs, Start(b, c) PROVE Right'
<1>1. /\ Goto(b, "lookup", Fresh(c)) /\ Shape(Fresh(c)) /\ mem'[b] = Fresh(c)
      /\ pc'[b] = "lookup" /\ UNCHANGED disk
  BY StartMoves
<1>2. \A a \in Builds \ {b} : mem'[a] = mem[a] /\ pc'[a] = pc[a]
  BY <1>1, ActorMoves
<1>3. Carries(b)'
  BY <1>1 DEF Carries, Carrying, Fresh, EntryOf
<1>4. EntryIsItsKey'
  BY <1>1, EntriesShrink DEF disk
<1> QED
  BY <1>2, <1>3, <1>4, RightElsewhere

\* Steps from one stage to another with what the process holds as it is.
LEMMA StepRight ==
  ASSUME Typed, Right, mixed \subseteq mixed', NEW b \in Builds, NEW from \in Stages,
         NEW to \in Stages \union {"ok"}, Step(b, from, to),
         \A d \in Layouts \ {Output} : index'[d] = index[d] \/ DOMAIN index'[d].images = {},
         to \in Carrying =>
           from \in Carrying,
         to \in {"truncate", "write"} => from \in {"truncate", "write"}
  PROVE  Right'
<1>1. /\ \A a \in Builds \ {b} : mem'[a] = mem[a] /\ pc'[a] = pc[a]
      /\ mem'[b] = IF to \in Stages THEN mem[b] ELSE Gone
      /\ pc[b] = from /\ pc'[b] = to
  BY StepMoves
<1>2. Carries(b)'
  <2>1. CASE to = "ok"
    BY <1>1, <2>1 DEF Carries, Carrying, Running, Stages, CopyStages
  <2>2. CASE to \in Stages
    <3>1. mem'[b] = mem[b] /\ Running(b) /\ Carries(b)
      BY <1>1, <2>2 DEF Running, Right
    <3>2. \A im : Good(im, KeyOf(b)) => Good(im, KeyOf(b))'
      BY <3>1 DEF Good, KeyOf
    <3>3. mem[b].dir \in {Output, EntryOf(b)'}
      BY <3>1 DEF Carries, Carrying, EntryOf
    <3>4. to \in Carrying => Good(mem[b].img, KeyOf(b))'
      BY <1>1, <3>1, <3>2 DEF Carries, Carrying, Good, KeyOf
    <3>5. to \in {"truncate", "write"} /\ mem[b].dir # Output =>
            \A i \in DOMAIN mem[b].seen : Good(mem[b].seen[i], KeyOf(b))'
      BY <1>1, <3>1, <3>2 DEF Carries, Carrying, Good, KeyOf
    <3> QED
      BY <1>1, <3>1, <3>3, <3>4, <3>5 DEF Carries, Carrying, Good
  <2> QED
    BY <2>1, <2>2
<1>3. EntryIsItsKey'
  BY EntriesShrink
<1> QED
  BY <1>1, <1>2, <1>3, RightElsewhere

LEMMA StepsRight ==
  ASSUME Typed, Right, mixed \subseteq mixed', NEW b \in Builds,
         \/ Miss(b) \/ CleanTarget(b) \/ InitTruncate(b) \/ InitWrite(b) \/ WriteBlobs(b)
         \/ TruncateIndex(b) \/ WriteTarball(b) \/ RemoveIndex(b) \/ CopyIndex(b)
  PROVE  Right'
<1>1. CASE Miss(b)
  BY <1>1, StepRight DEF Miss, disk, Stages, Carrying
<1>2. CASE CleanTarget(b)
  BY <1>2, StepRight DEF CleanTarget, Stages, Carrying
<1>3. CASE InitTruncate(b) \/ InitWrite(b)
  <2>1. \/ Step(b, "init", "initwrite") /\ Truncates(b)
        \/ Step(b, "initwrite", "blobs") /\ WritesIndex(b, <<>>)
    BY <1>3 DEF InitTruncate, InitWrite
  <2>2. \A d \in Layouts \ {Output} : index'[d] = index[d] \/ DOMAIN index'[d].images = {}
    BY <2>1, IndexMoves, EmptyIndexes
  <2> QED
    BY <2>1, <2>2, StepRight DEF Stages, Carrying
<1>4. CASE WriteBlobs(b)
  BY <1>4, StepRight DEF WriteBlobs, Stages, Carrying
<1>5. CASE TruncateIndex(b)
  <2>1. Step(b, "truncate", "write")
    BY <1>5 DEF TruncateIndex
  <2>2. \A d \in Layouts \ {Output} : index'[d] = index[d] \/ DOMAIN index'[d].images = {}
    BY <1>5, EmptyIndexes DEF TruncateIndex, Truncates, Typed
  <2> QED
    BY <2>1, <2>2, StepRight DEF Stages, Carrying
<1>6. CASE WriteTarball(b)
  BY <1>6, StepRight DEF WriteTarball, disk, Stages, Carrying
<1>7. CASE RemoveIndex(b)
  <2>1. Step(b, "copyblobs", "copyindex")
    BY <1>7 DEF RemoveIndex
  <2>2. \A d \in Layouts \ {Output} : index'[d] = index[d]
    BY <1>7 DEF RemoveIndex, Typed
  <2> QED
    BY <2>1, <2>2, StepRight DEF Stages, CopyStages, Carrying
<1>8. CASE CopyIndex(b)
  <2>1. Step(b, "copyindex", "ok")
    BY <1>8 DEF CopyIndex
  <2>2. \A d \in Layouts \ {Output} : index'[d] = index[d]
    BY <1>8 DEF CopyIndex, Typed
  <2> QED
    BY <2>1, <2>2, StepRight DEF Stages, CopyStages, Carrying
<1> QED
  BY <1>1, <1>2, <1>3, <1>4, <1>5, <1>6, <1>7, <1>8

LEMMA FromPathRight ==
  ASSUME Typed, Right, mixed \subseteq mixed', NEW b \in Builds, FromPath(b) PROVE Right'
<1>1. PICK to \in {"init", "blobs"} : Step(b, "open", to) /\ UNCHANGED disk
  BY DEF FromPath, Step
<1>2. \A d \in Layouts \ {Output} : index'[d] = index[d]
  BY <1>1 DEF disk
<1> QED
  BY <1>1, <1>2, StepRight DEF Stages, Carrying

\* A hit that copies carries no image.
LEMMA CopyRight ==
  ASSUME Typed, Right, mixed \subseteq mixed', NEW b \in Builds, CopiesBlobs(b) PROVE Right'
<1>1. PICK to, m :
        /\ to \in {"copyblobs", "copyfile"}
        /\ Goto(b, to, m) /\ Shape(m) /\ Running(b) /\ UNCHANGED index
        /\ m.layers = mem[b].layers /\ m.dir = mem[b].dir
  BY CopyMoves
<1>2. /\ \A a \in Builds \ {b} : mem'[a] = mem[a] /\ pc'[a] = pc[a]
      /\ pc'[b] = to /\ mem'[b] = m
  BY <1>1, ActorMoves DEF Stages, CopyStages
<1>3. mem[b].dir \in {Output, EntryOf(b)}
  BY <1>1 DEF Right, Carries, Carrying
<1>4. Carries(b)'
  BY <1>1, <1>2, <1>3 DEF Carries, Running, EntryOf, Carrying
<1>5. EntryIsItsKey'
  BY <1>1, EntriesShrink
<1> QED
  BY <1>2, <1>4, <1>5, RightElsewhere

LEMMA HitRight ==
  ASSUME Typed, Right, mixed \subseteq mixed', NEW b \in Builds, Hit(b) PROVE Right'
<1> DEFINE m == [mem[b] EXCEPT !.loads = Loads(index[EntryOf(b)])]
           to == IF mem[b].cfg.output THEN "copylist" ELSE "ok"
<1>1. Goto(b, to, m) /\ pc[b] = "lookup" /\ UNCHANGED disk
  BY DEF Hit
<1>2. Shape(m) /\ m.layers = mem[b].layers /\ m.dir = mem[b].dir
  BY DEF Typed, Shape
<1>3. to \in {"copylist", "ok"}
  OBVIOUS
<1> HIDE DEF m, to
<1>4. /\ \A a \in Builds \ {b} : mem'[a] = mem[a] /\ pc'[a] = pc[a]
      /\ pc'[b] = to /\ mem'[b] = IF to \in Stages THEN m ELSE Gone
  BY <1>1, <1>2, ActorMoves
<1>5. mem[b].dir \in {Output, EntryOf(b)}
  BY <1>1 DEF Right, Carries, Carrying, Running, Stages, CopyStages
<1>6. Carries(b)'
  BY <1>2, <1>3, <1>4, <1>5 DEF Carries, Carrying, Running, EntryOf, Stages
<1>7. EntryIsItsKey'
  BY <1>1, EntriesShrink DEF disk
<1> QED
  BY <1>4, <1>6, <1>7, RightElsewhere

LEMMA ExtractLayerRight ==
  ASSUME Typed, Right, mixed \subseteq mixed', NEW b \in Builds, ExtractLayer(b) PROVE Right'
<1> DEFINE m == [mem[b] EXCEPT !.done = @ + 1]
<1>1. Goto(b, "extract", m) /\ pc[b] = "extract" /\ UNCHANGED index
  BY DEF ExtractLayer, Extracts
<1>2. Shape(m) /\ m.layers = mem[b].layers /\ m.dir = mem[b].dir
  BY DEF Typed, Shape
<1> HIDE DEF m
<1>3. /\ \A a \in Builds \ {b} : mem'[a] = mem[a] /\ pc'[a] = pc[a]
      /\ pc'[b] = "extract" /\ mem'[b] = m
  BY <1>1, <1>2, ActorMoves DEF Stages
<1>4. mem[b].dir \in {Output, EntryOf(b)}
  BY <1>1 DEF Right, Carries, Carrying, Running, Stages, CopyStages
<1>5. Carries(b)'
  BY <1>2, <1>3, <1>4 DEF Carries, Carrying, Running, EntryOf
<1>6. EntryIsItsKey'
  BY <1>1, EntriesShrink
<1> QED
  BY <1>3, <1>5, <1>6, RightElsewhere

\* The packed image is what the work directory holds: the layers of the key.
LEMMA ComposeImageRight ==
  ASSUME Typed, AllTidy, Right, mixed \subseteq mixed', NEW b \in Builds, ComposeImage(b)
  PROVE  Right'
<1> DEFINE m == [mem[b] EXCEPT !.img = Image(b)]
<1>1. /\ Goto(b, "open", m) /\ pc[b] = "extract" /\ UNCHANGED disk
      /\ mem[b].done = Len(mem[b].layers)
  BY DEF ComposeImage
<1>2. /\ Shape(m) /\ m.layers = mem[b].layers /\ m.dir = mem[b].dir /\ m.img = Image(b)
      /\ mem[b].done \in Nat
  BY DEF Typed, Shape
<1> HIDE DEF m
<1>3. /\ \A a \in Builds \ {b} : mem'[a] = mem[a] /\ pc'[a] = pc[a]
      /\ pc'[b] = "open" /\ mem'[b] = m
  BY <1>1, <1>2, ActorMoves DEF Stages
<1>4. mem[b].dir \in {Output, EntryOf(b)}
  BY <1>1 DEF Right, Carries, Carrying, Running, Stages, CopyStages
<1>5. Good(Image(b), KeyOf(b))
  <2> SUFFICES ASSUME b \notin mixed PROVE IsOf(Image(b), KeyOf(b))
    BY DEF Good, Image
  <2> DEFINE n == mem[b].done
             s == mem[b].layers
  <2>1. work = [i \in 1..n |-> Piece(b, s[i])] /\ n \in Nat /\ n = Len(s)
    BY <1>1, <1>2 DEF AllTidy, Tidy
  <2>2. Image(b).tree = work /\ Image(b).by = b
    BY DEF Image
  <2> HIDE DEF n, s
  <2>3. DOMAIN work = 1..n /\ \A i \in 1..n : work[i].layer = s[i] /\ work[i].by = b
    BY <2>1 DEF Piece
  <2> DEFINE t == [i \in 1..n |-> work[i].layer]
  <2>4. Len(t) = n
    BY <2>1
  <2>5. \A i \in 1..n : t[i] = s[i]
    BY <2>3
  <2> HIDE DEF t
  <2>6. ComputeCacheKey(t) = ComputeCacheKey(s)
    BY <2>1, <2>4, <2>5 DEF ComputeCacheKey
  <2>7. ComputeCacheKey([i \in DOMAIN work |-> work[i].layer]) = ComputeCacheKey(s)
    BY <2>3, <2>6 DEF t
  <2> QED
    BY <2>2, <2>3, <2>7 DEF IsOf, KeyOf, s
<1>6. Carries(b)'
  <2>1. KeyOf(b)' = KeyOf(b) /\ EntryOf(b)' = EntryOf(b) /\ mixed' = mixed
    BY <1>1, <1>2, <1>3 DEF KeyOf, EntryOf, disk
  <2> QED
    BY <1>2, <1>3, <1>4, <1>5, <2>1 DEF Carries, Carrying, Good
<1>7. EntryIsItsKey'
  BY <1>1, EntriesShrink DEF disk
<1> QED
  BY <1>3, <1>6, <1>7, RightElsewhere

LEMMA ReadIndexRight ==
  ASSUME Typed, Right, mixed \subseteq mixed', NEW b \in Builds, ReadIndex(b) PROVE Right'
<1> DEFINE m == [mem[b] EXCEPT !.seen = index[mem[b].dir].images]
<1>1. Goto(b, "truncate", m) /\ pc[b] = "read" /\ UNCHANGED disk
  BY DEF ReadIndex
<1>2. /\ Shape(m) /\ m.layers = mem[b].layers /\ m.dir = mem[b].dir /\ m.img = mem[b].img
      /\ m.seen = index[mem[b].dir].images
  BY DEF Typed, Shape
<1> HIDE DEF m
<1>3. /\ \A a \in Builds \ {b} : mem'[a] = mem[a] /\ pc'[a] = pc[a]
      /\ pc'[b] = "truncate" /\ mem'[b] = m
  BY <1>1, <1>2, ActorMoves DEF Stages
<1>4. mem[b].dir \in {Output, EntryOf(b)} /\ Good(mem[b].img, KeyOf(b)) /\ mem[b].dir \in Layouts
  BY <1>1 DEF Right, Carries, Carrying, Running, Stages, CopyStages, Typed, Shape
<1>5. ASSUME m.dir # Output, NEW i \in DOMAIN m.seen PROVE Good(m.seen[i], KeyOf(b))
  <2>1. m.dir = Entry(KeyOf(b)) /\ KeyOf(b) \in Keys
    BY <1>2, <1>4, <1>5, EntryKeys
  <2>2. m.seen = index[Entry(KeyOf(b))].images
    BY <1>2, <2>1
  <2> QED
    BY <1>5, <2>1, <2>2 DEF Right, EntryIsItsKey, Good
<1>6. Carries(b)'
  <2>1. KeyOf(b)' = KeyOf(b) /\ EntryOf(b)' = EntryOf(b) /\ mixed' = mixed
    BY <1>1, <1>2, <1>3 DEF KeyOf, EntryOf, disk
  <2> QED
    BY <1>2, <1>3, <1>4, <1>5, <2>1 DEF Carries, Carrying, Good
<1>7. EntryIsItsKey'
  BY <1>1, EntriesShrink DEF disk
<1> QED
  BY <1>3, <1>6, <1>7, RightElsewhere

LEMMA WriteIndexRight ==
  ASSUME Typed, Kept, Right, mixed \subseteq mixed', NEW b \in Builds, WriteIndex(b) PROVE Right'
<1> DEFINE m == [mem[b] EXCEPT !.dir = Output]
<1>1. /\ Goto(b, AfterLayout(b), m) /\ pc[b] = "write" /\ mixed' = mixed
      /\ WritesIndex(b, Append(mem[b].seen, mem[b].img))
  BY DEF WriteIndex
<1>2. /\ Shape(m) /\ m.layers = mem[b].layers /\ m.dir = Output /\ m.img = mem[b].img
      /\ m.seen = mem[b].seen
  BY DEF Typed, Shape, Layouts
<1> HIDE DEF m
<1>3. /\ \A a \in Builds \ {b} : mem'[a] = mem[a] /\ pc'[a] = pc[a]
      /\ pc'[b] = AfterLayout(b) /\ mem'[b] = IF AfterLayout(b) \in Stages THEN m ELSE Gone
  BY <1>1, <1>2, ActorMoves
<1>4. mem[b].dir \in {Output, EntryOf(b)} /\ Good(mem[b].img, KeyOf(b)) /\ mem[b].dir \in Layouts
  BY <1>1 DEF Right, Carries, Carrying, Running, Stages, CopyStages, Typed, Shape
<1>5. Carries(b)'
  <2>1. AfterLayout(b) \in {"open", "tarball", "ok"}
    BY DEF AfterLayout
  <2>2. CASE AfterLayout(b) = "ok"
    BY <1>3, <2>2 DEF Carries, Carrying, Running, Stages, CopyStages
  <2>3. CASE AfterLayout(b) \in {"open", "tarball"}
    <3>1. mem'[b] = m
      BY <1>3, <2>3 DEF Stages
    <3>2. KeyOf(b)' = KeyOf(b)
      BY <3>1, <1>2 DEF KeyOf
    <3> QED
      BY <1>1, <1>2, <1>3, <1>4, <2>3, <3>1, <3>2 DEF Carries, Carrying, Good
  <2> QED
    BY <2>1, <2>2, <2>3
<1>6. EntryIsItsKey'
  <2> SUFFICES ASSUME NEW key \in Keys, NEW i \in DOMAIN index'[Entry(key)].images
               PROVE  Good(index'[Entry(key)].images[i], key)
    BY <1>1 DEF EntryIsItsKey, Good
  <2>0. Entry(key) \in Layouts
    BY DEF Layouts
  <2>3. \/ index'[Entry(key)] = index[Entry(key)]
        \/ /\ Entry(key) = mem[b].dir
           /\ index'[Entry(key)] = Lists(Append(mem[b].seen, mem[b].img))
    BY <1>1, <2>0 DEF WritesIndex, Typed
  <2>1. CASE index'[Entry(key)] = index[Entry(key)]
    BY <2>1 DEF Right, EntryIsItsKey, Good
  <2>2. CASE /\ Entry(key) = mem[b].dir
             /\ index'[Entry(key)] = Lists(Append(mem[b].seen, mem[b].img))
    <3>1. key = KeyOf(b) /\ mem[b].dir # Output
      BY <2>2, <1>4, EntryKeys
    <3>3. index'[Entry(key)].images = Append(mem[b].seen, mem[b].img)
      BY <2>2 DEF Lists
    <3>4. mem[b].seen \in Seq(blobs[mem[b].dir]) /\ mem[b].img \in blobs[mem[b].dir]
      BY <3>1, <1>1 DEF Kept
    <3>5. \A j \in DOMAIN mem[b].seen : Good(mem[b].seen[j], key)
      BY <3>1, <1>1 DEF Right, Carries, Carrying
    <3>6. \A j \in DOMAIN Append(mem[b].seen, mem[b].img) :
            \/ j \in DOMAIN mem[b].seen /\ Append(mem[b].seen, mem[b].img)[j] = mem[b].seen[j]
            \/ Append(mem[b].seen, mem[b].img)[j] = mem[b].img
      BY <3>4
    <3> QED
      BY <3>1, <3>3, <3>5, <3>6, <1>4
  <2> QED
    BY <2>1, <2>2, <2>3
<1> QED
  BY <1>3, <1>5, <1>6, RightElsewhere

LEMMA BreakOffRight ==
  ASSUME Typed, Right, mixed \subseteq mixed', NEW b \in Builds, BreakOff(b) PROVE Right'
<1>1. Goto(b, "broken", Gone)
  BY DEF BreakOff
<1>2. /\ \A a \in Builds \ {b} : mem'[a] = mem[a] /\ pc'[a] = pc[a]
      /\ pc'[b] = "broken"
  BY <1>1, GoneShape, ActorMoves
<1>3. \A d \in Layouts \ {Output} : index'[d] = index[d]
  BY DEF BreakOff, disk, Extracts, Typed
<1>4. Carries(b)'
  BY <1>2 DEF Carries, Carrying, Running, Stages, CopyStages
<1>5. EntryIsItsKey'
  BY <1>3, EntriesShrink
<1> QED
  BY <1>2, <1>4, <1>5, RightElsewhere

LEMMA NextRight == Typed /\ Kept /\ AllTidy /\ Right /\ [Next]_vars => Right'
<1> SUFFICES ASSUME Typed, Kept, AllTidy, Right, [Next]_vars PROVE Right'
  OBVIOUS
<1>0. mixed \subseteq mixed'
  BY MixedGrows
<1>1. CASE UNCHANGED vars
  BY <1>1 DEF Right, EntryIsItsKey, Carries, Carrying, Good, KeyOf, EntryOf, Running, vars, disk
<1>2. ASSUME NEW b \in Builds, NEW c \in Configs, Start(b, c) PROVE Right'
  BY <1>0, <1>2, StartRight
<1>3. ASSUME NEW b \in Builds, BuildSteps(b) PROVE Right'
  BY <1>0, <1>3, StepsRight, FromPathRight, CopyRight, HitRight, ExtractLayerRight,
     ComposeImageRight, ReadIndexRight, WriteIndexRight DEF BuildSteps, CopiesBlobs
<1>4. ASSUME NEW b \in Builds, BreakOff(b) PROVE Right'
  BY <1>0, <1>4, BreakOffRight
<1> QED
  BY <1>1, <1>2, <1>3, <1>4 DEF Next

\* A cache entry holds the layers its key was computed from, of one build and in
\* their order, unless another build was in the work directory.
THEOREM EntriesAreTheirKeys == Spec => []EntryIsItsKey
<1>1. Init => Typed /\ Kept /\ AllTidy /\ Right
  BY InitTyped, InitKept, InitTidy, InitRight
<1>2. Typed /\ Kept /\ AllTidy /\ Right /\ [Next]_vars => Typed' /\ Kept' /\ AllTidy' /\ Right'
  BY NextTyped, NextKept, NextTidy, NextRight
<1>3. Right => EntryIsItsKey
  BY DEF Right
<1> QED
  BY <1>1, <1>2, <1>3, PTL DEF Spec

----------------------------------------------------------------------------
(* What a hit copies out can be used.                                      *)

\* The image a reader of d finds now, or after a build that has read the index
\* has written it again.
ToList(a) == Append(mem[a].seen, mem[a].img)
CanBeFirst(d, im) ==
  \/ Loads(index[d]) /\ im = FirstImage(index[d])
  \/ \E a \in Builds :
       pc[a] \in {"truncate", "write"} /\ mem[a].dir = d /\ im = ToList(a)[1]

\* There is an index, and it does not list nothing.
Filled(d) == index[d].state # "absent" /\ (index[d].state = "list" => index[d].images # <<>>)

\* A build that found an image, and that nobody got in the way of: its entry stays
\* filled; and whatever can be the entry's first image is in the output or still
\* to be copied, once it has listed the blobs.
Hits(b) == pc[b] \in CopyStages /\ mem[b].loads /\ b \notin upset
Copied ==
  \A b \in Builds : Hits(b) =>
    /\ Filled(EntryOf(b))
    /\ pc[b] # "copylist" =>
         \A im : CanBeFirst(EntryOf(b), im) => im \in blobs[Output] \union mem[b].todo
    /\ pc[b] = "copyindex" => mem[b].todo = {}

\* Only a file that is open can be lost, and a copy that lost one is upset.
Losers ==
  \A b \in Builds : b \in lost =>
    \/ pc[b] \in {"initwrite", "write"}
    \/ pc[b] \in CopyStages /\ b \in upset

LEMMA FirstOfAppend ==
  ASSUME NEW S, NEW s \in Seq(S), NEW x \in S
  PROVE  /\ Append(s, x) # <<>>
         /\ Append(s, x)[1] \in S
         /\ s # <<>> => Append(s, x)[1] = s[1] /\ s[1] \in S
<1>1. /\ Append(s, x) \in Seq(S) /\ Len(Append(s, x)) = Len(s) + 1 /\ Len(s) \in Nat
      /\ DOMAIN s = 1..Len(s) /\ DOMAIN Append(s, x) = 1..Len(Append(s, x))
  OBVIOUS
<1>2. Append(s, x) # <<>>
  BY <1>1
<1>3. Append(s, x)[1] \in S
  BY <1>1
<1>4. ASSUME s # <<>> PROVE Append(s, x)[1] = s[1] /\ s[1] \in S
  <2>1. Len(s) >= 1
    BY <1>1, <1>4
  <2> QED
    BY <2>1
<1> QED
  BY <1>2, <1>3, <1>4

\* Whatever can be an entry's first image has its blobs in the entry.
LEMMA FirstsAreIn ==
  ASSUME Kept, NEW d \in Layouts \ {Output}, NEW im, CanBeFirst(d, im) PROVE im \in blobs[d]
<1>1. CASE Loads(index[d]) /\ im = FirstImage(index[d])
  <2>1. index[d].images \in Seq(blobs[d])
    BY DEF Kept
  <2>2. index[d].images # <<>> /\ im = index[d].images[1]
    BY <1>1 DEF Loads, FirstImage
  <2> QED
    BY <2>1, <2>2
<1>2. CASE \E a \in Builds :
             pc[a] \in {"truncate", "write"} /\ mem[a].dir = d /\ im = ToList(a)[1]
  <2>1. PICK a \in Builds :
          pc[a] \in {"truncate", "write"} /\ mem[a].dir = d /\ im = ToList(a)[1]
    BY <1>2
  <2>2. mem[a].seen \in Seq(blobs[d]) /\ mem[a].img \in blobs[d]
    BY <2>1 DEF Kept
  <2> QED
    BY <2>1, <2>2, FirstOfAppend DEF ToList
<1> QED
  BY <1>1, <1>2 DEF CanBeFirst

\* A step that leaves a layout's index alone and takes nobody into AppendImage.
LEMMA FirstsStay ==
  ASSUME Typed, NEW b \in Builds, NEW d \in Layouts, Filled(d),
         \A a \in Builds \ {b} : mem'[a] = mem[a] /\ pc'[a] = pc[a],
         index'[d] = index[d],
         pc'[b] \in {"truncate", "write"} => pc[b] \in {"truncate", "write"} /\ mem'[b] = mem[b]
  PROVE  Filled(d)' /\ \A im : CanBeFirst(d, im)' => CanBeFirst(d, im)
<1>1. Filled(d)'
  BY DEF Filled
<1>2. ASSUME NEW im, CanBeFirst(d, im)' PROVE CanBeFirst(d, im)
  <2>1. CASE Loads(index'[d]) /\ im = FirstImage(index'[d])
    BY <2>1 DEF CanBeFirst
  <2>2. CASE \E a \in Builds :
               pc'[a] \in {"truncate", "write"} /\ mem'[a].dir = d
               /\ im = Append(mem'[a].seen, mem'[a].img)[1]
    BY <2>2 DEF CanBeFirst, ToList
  <2> QED
    BY <1>2, <2>1, <2>2 DEF CanBeFirst, ToList
<1> QED
  BY <1>1, <1>2

\* An entry that is filled stays so, and no other image can become its first,
\* unless it is made anew.
LEMMA FirstsShrink ==
  ASSUME Typed, Kept, NEW b \in Builds, BuildSteps(b) \/ BreakOff(b),
         NEW d \in Layouts \ {Output}, Filled(d),
         mem[b].dir = d => ~InitTruncate(b) /\ ~InitWrite(b)
  PROVE  Filled(d)' /\ \A im : CanBeFirst(d, im)' => CanBeFirst(d, im)
<1>0. \A a \in Builds \ {b} : mem'[a] = mem[a] /\ pc'[a] = pc[a]
  BY BuildMoves, ActorMoves
<1>1. CASE ReadIndex(b)
  <2> DEFINE m == [mem[b] EXCEPT !.seen = index[mem[b].dir].images]
  <2>1. Goto(b, "truncate", m) /\ UNCHANGED index /\ index[mem[b].dir].state = "list"
    BY <1>1 DEF ReadIndex, disk
  <2>2. Shape(m) /\ m.dir = mem[b].dir /\ m.img = mem[b].img
        /\ m.seen = index[mem[b].dir].images
    BY DEF Typed, Shape
  <2> HIDE DEF m
  <2>3. mem'[b] = m /\ pc[b] = "read"
    BY <1>1, <2>1, <2>2, ActorMoves DEF Stages, ReadIndex
  <2>4. Filled(d)'
    BY <2>1 DEF Filled
  <2>5. ASSUME NEW im, mem[b].dir = d, im = Append(m.seen, m.img)[1] PROVE CanBeFirst(d, im)
    <3>1. index[d].images \in Seq(blobs[d]) /\ index[d].images # <<>> /\ index[d].state = "list"
      BY <2>1, <2>5 DEF Kept, Filled
    <3>2. m.img \in blobs[d]
      BY <2>2, <2>3, <2>5 DEF Kept
    <3>3. im = index[d].images[1]
      BY <2>2, <2>5, <3>1, <3>2, FirstOfAppend
    <3> QED
      BY <3>1, <3>3 DEF CanBeFirst, Loads, FirstImage
  <2>6. ASSUME NEW im, CanBeFirst(d, im)' PROVE CanBeFirst(d, im)
    <3>1. CASE Loads(index'[d]) /\ im = FirstImage(index'[d])
      BY <2>1, <3>1 DEF CanBeFirst
    <3>2. CASE \E a \in Builds :
                 pc'[a] \in {"truncate", "write"} /\ mem'[a].dir = d
                 /\ im = Append(mem'[a].seen, mem'[a].img)[1]
      <4>1. PICK a \in Builds : pc'[a] \in {"truncate", "write"} /\ mem'[a].dir = d
                                /\ im = Append(mem'[a].seen, mem'[a].img)[1]
        BY <3>2
      <4>2. CASE a = b
        BY <2>2, <2>3, <2>5, <4>1, <4>2
      <4>3. CASE a # b
        BY <1>0, <4>1, <4>3 DEF CanBeFirst, ToList
      <4> QED
        BY <4>2, <4>3
    <3> QED
      BY <2>6, <3>1, <3>2 DEF CanBeFirst, ToList
  <2> QED
    BY <2>4, <2>6
<1>2. CASE TruncateIndex(b)
  <2>1. /\ pc[b] = "truncate" /\ pc'[b] = "write" /\ mem'[b] = mem[b]
        /\ index' = [index EXCEPT ![mem[b].dir] = CutIndex]
    BY <1>2, StepMoves DEF TruncateIndex, Truncates, Stages
  <2>2. CASE mem[b].dir = d
    <3>1. index'[d] = CutIndex
      BY <2>1, <2>2 DEF Typed
    <3>2. Filled(d)' /\ ~Loads(index'[d])
      BY <3>1 DEF Filled, Loads, CutIndex
    <3>3. ASSUME NEW im, CanBeFirst(d, im)' PROVE CanBeFirst(d, im)
      <4>1. PICK a \in Builds : pc'[a] \in {"truncate", "write"} /\ mem'[a].dir = d
                                /\ im = Append(mem'[a].seen, mem'[a].img)[1]
        BY <3>2, <3>3 DEF CanBeFirst, ToList
      <4>2. pc[a] \in {"truncate", "write"} /\ mem'[a] = mem[a]
        BY <1>0, <2>1, <4>1
      <4> QED
        BY <4>1, <4>2 DEF CanBeFirst, ToList
    <3> QED
      BY <3>2, <3>3
  <2>3. CASE mem[b].dir # d
    <3>1. index'[d] = index[d]
      BY <2>1, <2>3 DEF Typed
    <3> QED
      BY <1>0, <2>1, <3>1, FirstsStay
  <2> QED
    BY <2>2, <2>3
<1>3. CASE WriteIndex(b)
  <2> DEFINE m == [mem[b] EXCEPT !.dir = Output]
  <2>1. /\ Goto(b, AfterLayout(b), m) /\ pc[b] = "write" /\ WritesIndex(b, ToList(b))
    BY <1>3 DEF WriteIndex, ToList
  <2>2. Shape(m)
    BY DEF Typed, Shape, Layouts
  <2> HIDE DEF m
  <2>3. pc'[b] \in {"open", "tarball", "ok"}
    BY <2>1, <2>2, ActorMoves DEF AfterLayout
  <2>6. index'[d] = index[d] \/ (mem[b].dir = d /\ index'[d] = Lists(ToList(b)))
    BY <2>1 DEF WritesIndex, Typed
  <2>4. CASE mem[b].dir = d /\ index'[d] = Lists(ToList(b))
    <3>1. index'[d] = Lists(ToList(b))
      BY <2>4
    <3>2. mem[b].seen \in Seq(blobs[d]) /\ mem[b].img \in blobs[d]
      BY <2>1, <2>4 DEF Kept
    <3>3. ToList(b) # <<>>
      BY <3>2, FirstOfAppend DEF ToList
    <3>4. Filled(d)' /\ FirstImage(index'[d]) = ToList(b)[1]
      BY <3>1, <3>3 DEF Filled, FirstImage, Lists
    <3>5. ASSUME NEW im, CanBeFirst(d, im)' PROVE CanBeFirst(d, im)
      <4>1. CASE Loads(index'[d]) /\ im = FirstImage(index'[d])
        BY <2>1, <2>4, <3>4, <4>1 DEF CanBeFirst
      <4>2. CASE \E a \in Builds :
                   pc'[a] \in {"truncate", "write"} /\ mem'[a].dir = d
                   /\ im = Append(mem'[a].seen, mem'[a].img)[1]
        BY <1>0, <2>3, <4>2 DEF CanBeFirst, ToList
      <4> QED
        BY <3>5, <4>1, <4>2 DEF CanBeFirst, ToList
    <3> QED
      BY <3>4, <3>5
  <2>5. CASE index'[d] = index[d]
    BY <1>0, <2>3, <2>5, FirstsStay
  <2> QED
    BY <2>4, <2>5, <2>6
<1>4. CASE \/ Hit(b) \/ Miss(b) \/ CleanTarget(b) \/ ExtractLayer(b) \/ ComposeImage(b)
           \/ FromPath(b) \/ InitTruncate(b) \/ InitWrite(b) \/ WriteBlobs(b) \/ WriteTarball(b)
           \/ RemoveIndex(b) \/ CopyIndex(b) \/ BreakOff(b)
  <2>1. \E to \in {"copylist", "copyindex", "ok", "clean", "extract", "open", "init", "initwrite",
                   "blobs", "read", "broken"} : \E m : Goto(b, to, m)
    BY <1>4 DEF Hit, Miss, CleanTarget, ExtractLayer, ComposeImage, FromPath, InitTruncate,
                InitWrite, WriteBlobs, WriteTarball, RemoveIndex, CopyIndex, BreakOff, Step
  <2>2. pc'[b] \notin {"truncate", "write"}
    BY <2>1 DEF Goto, Typed
  <2>3. index'[d] = index[d]
    <3>1. CASE InitTruncate(b) \/ InitWrite(b)
      BY <3>1 DEF InitTruncate, InitWrite, Truncates, WritesIndex, Typed
    <3>2. CASE ~InitTruncate(b) /\ ~InitWrite(b)
      BY <1>4, <3>2 DEF Hit, Miss, CleanTarget, ExtractLayer, Extracts, ComposeImage, FromPath,
                        WriteBlobs, WriteTarball, RemoveIndex, CopyIndex, BreakOff, disk, Typed
    <3> QED
      BY <3>1, <3>2
  <2> QED
    BY <1>0, <2>2, <2>3, FirstsStay
<1>5. CASE CopiesBlobs(b)
  <2>1. PICK to, m : to \in {"copyblobs", "copyfile"} /\ Goto(b, to, m) /\ UNCHANGED index
    BY <1>5, CopyMoves
  <2>2. pc'[b] \notin {"truncate", "write"}
    BY <2>1 DEF Goto, Typed
  <2> QED
    BY <1>0, <2>1, <2>2, FirstsStay
<1> QED
  BY <1>1, <1>2, <1>3, <1>4, <1>5 DEF BuildSteps, CopiesBlobs

LEMMA InitCopied == Init => Copied /\ Losers
  BY DEF Init, Copied, Losers, Hits, CopyStages

\* What one build does to the others' marks: none is taken away.
LEMMA MarksStay ==
  ASSUME NEW b \in Builds, BuildSteps(b) \/ BreakOff(b)
  PROVE  /\ upset \ {b} \subseteq upset'
         /\ b \in upset /\ ~CopyIndex(b) /\ ~BreakOff(b) => b \in upset'
  BY DEF BuildSteps, Hit, Miss, CleanTarget, ExtractLayer, Extracts, ComposeImage, FromPath,
         InitTruncate, InitWrite, WriteBlobs, ReadIndex, TruncateIndex, WriteIndex, WriteTarball,
         ListBlobs, RemoveBlob, CopyBlob, RemoveIndex, CopyIndex, BreakOff, Removes, disk

\* Whose file is removed: only builds that have one open, and a copy among them is
\* marked.
LEMMA LostMoves ==
  ASSUME NEW b \in Builds, BuildSteps(b) \/ BreakOff(b), NEW a \in lost' \ lost
  PROVE  /\ a \in Builds \ {b}
         /\ pc[a] \in {"initwrite", "write"} \/ (pc[a] \in CopyStages /\ a \in upset')
<1>1. \/ \E im \in mem[b].todo : RemoveBlob(b, im)
      \/ RemoveIndex(b)
  BY DEF BuildSteps, Hit, Miss, CleanTarget, ExtractLayer, Extracts, ComposeImage, FromPath,
         InitTruncate, InitWrite, WriteBlobs, ReadIndex, TruncateIndex, WriteIndex, WriteTarball,
         ListBlobs, CopyBlob, CopyIndex, BreakOff, WritesIndex, disk
<1>2. CASE \E im \in mem[b].todo : RemoveBlob(b, im)
  BY <1>2 DEF RemoveBlob, Removes, CopyStages
<1>3. CASE RemoveIndex(b)
  BY <1>3 DEF RemoveIndex, Removes, CopyStages
<1> QED
  BY <1>1, <1>2, <1>3

\* A build whose file is lost has it no more after the step that writes it.
LEMMA LoserMoves ==
  ASSUME Typed, Losers, NEW b \in Builds, BuildSteps(b) \/ BreakOff(b), b \in lost, b \in lost'
  PROVE  pc'[b] \in CopyStages /\ b \in upset'
<1>1. pc[b] \in {"initwrite", "write"} \/ (pc[b] \in CopyStages /\ b \in upset)
  BY DEF Losers
<1>2. CASE CopiesBlobs(b)
  <2>1. PICK to, m : to \in {"copyblobs", "copyfile"} /\ Goto(b, to, m)
    BY <1>2, CopyMoves
  <2>2. pc'[b] = to /\ pc[b] \in CopyStages
    BY <1>2, <2>1 DEF Goto, Typed, CopiesBlobs, ListBlobs, RemoveBlob, CopyBlob, CopyStages
  <2>3. b \in upset
    BY <1>1, <2>2 DEF CopyStages
  <2>4. ~CopyIndex(b) /\ ~BreakOff(b)
    BY <2>1, <2>2 DEF CopyIndex, BreakOff, Step, Goto, Typed
  <2> QED
    BY <2>1, <2>2, <2>3, <2>4, MarksStay DEF CopyStages
<1>3. CASE RemoveIndex(b)
  <2>1. pc[b] = "copyblobs" /\ pc'[b] = "copyindex"
    BY <1>3, StepMoves DEF RemoveIndex
  <2>2. b \in upset /\ ~CopyIndex(b) /\ ~BreakOff(b)
    BY <1>1, <2>1 DEF CopyIndex, BreakOff, Step, Goto, Typed
  <2> QED
    BY <2>1, <2>2, MarksStay DEF CopyStages
<1>4. CASE ~CopiesBlobs(b) /\ ~RemoveIndex(b)
  BY <1>1, <1>4 DEF CopiesBlobs, BuildSteps, Hit, Miss, CleanTarget, ExtractLayer, ComposeImage,
     FromPath, InitTruncate, InitWrite, WriteBlobs, ReadIndex, TruncateIndex, WriteIndex,
     WriteTarball, CopyIndex, BreakOff, WritesIndex, Step, CopyStages
<1> QED
  BY <1>2, <1>3, <1>4

LEMMA NextLosers == Typed /\ Losers /\ [Next]_vars => Losers'
<1> SUFFICES ASSUME Typed, Losers, [Next]_vars PROVE Losers'
  OBVIOUS
<1>1. CASE UNCHANGED vars
  BY <1>1 DEF Losers, vars, disk
<1>2. ASSUME NEW b \in Builds, NEW c \in Configs, Start(b, c) PROVE Losers'
  <2>1. UNCHANGED <<lost, upset>> /\ pc[b] = "unborn"
        /\ \A a \in Builds \ {b} : pc'[a] = pc[a]
    BY <1>2, StartMoves, ActorMoves DEF disk, Start
  <2>2. b \notin lost
    BY <2>1 DEF Losers, CopyStages
  <2> QED
    BY <2>1, <2>2 DEF Losers
<1>3. ASSUME NEW b \in Builds, BuildSteps(b) \/ BreakOff(b) PROVE Losers'
  <2>1. \A a \in Builds \ {b} : mem'[a] = mem[a] /\ pc'[a] = pc[a]
    BY <1>3, BuildMoves, ActorMoves
  <2> SUFFICES ASSUME NEW a \in Builds, a \in lost'
               PROVE  pc'[a] \in {"initwrite", "write"} \/ (pc'[a] \in CopyStages /\ a \in upset')
    BY DEF Losers, CopyStages
  <2>2. CASE a \notin lost
    BY <1>3, <2>1, <2>2, LostMoves
  <2>3. CASE a \in lost /\ a = b
    BY <1>3, <2>3, LoserMoves
  <2>4. CASE a \in lost /\ a # b
    <3>1. pc'[a] = pc[a]
      BY <2>1, <2>4
    <3>2. a \in upset => a \in upset'
      BY <1>3, <2>4, MarksStay
    <3> QED
      BY <2>4, <3>1, <3>2 DEF Losers
  <2> QED
    BY <2>2, <2>3, <2>4
<1> QED
  BY <1>1, <1>2, <1>3 DEF Next

\* A build comes to the copying stages by its hit, and goes through them.
LEMMA HitMoves ==
  ASSUME Typed, NEW b \in Builds, BuildSteps(b) \/ BreakOff(b), Hits(b)'
  PROVE  \/ Hit(b) /\ pc'[b] = "copylist" /\ Loads(index[EntryOf(b)])
         \/ CopiesBlobs(b) /\ Hits(b)
         \/ RemoveIndex(b) /\ Hits(b)
<1>0. pc'[b] \in CopyStages /\ mem'[b].loads /\ b \notin upset'
  BY DEF Hits
<1>1. CASE Hit(b)
  <2> DEFINE m == [mem[b] EXCEPT !.loads = Loads(index[EntryOf(b)])]
             to == IF mem[b].cfg.output THEN "copylist" ELSE "ok"
  <2>1. Goto(b, to, m)
    BY <1>1 DEF Hit
  <2>2. Shape(m) /\ m.loads = Loads(index[EntryOf(b)])
    BY DEF Typed, Shape
  <2> HIDE DEF m
  <2>3. pc'[b] = "copylist" /\ mem'[b] = m
    BY <1>0, <2>1, <2>2, ActorMoves DEF Stages, CopyStages
  <2> QED
    BY <1>0, <1>1, <2>2, <2>3
<1>2. CASE CopiesBlobs(b)
  <2>1. PICK to, m : /\ to \in {"copyblobs", "copyfile"} /\ Goto(b, to, m)
                     /\ m.loads = mem[b].loads /\ Shape(m)
    BY <1>2, CopyMoves
  <2>2. mem'[b].loads = mem[b].loads /\ pc'[b] = to
    BY <2>1, ActorMoves DEF Stages, CopyStages
  <2>3. pc[b] \in CopyStages
    BY <1>2 DEF CopiesBlobs, ListBlobs, RemoveBlob, CopyBlob, CopyStages
  <2>4. ~CopyIndex(b) /\ ~BreakOff(b)
    BY <2>1, <2>2 DEF CopyIndex, BreakOff, Step, Goto, Typed
  <2>5. b \notin upset
    BY <1>0, <2>4, MarksStay
  <2> QED
    BY <1>0, <1>2, <2>2, <2>3, <2>5 DEF Hits
<1>3. CASE RemoveIndex(b)
  <2>1. pc[b] = "copyblobs" /\ pc'[b] = "copyindex" /\ mem'[b] = mem[b]
    BY <1>3, StepMoves DEF RemoveIndex, Stages, CopyStages
  <2>2. ~CopyIndex(b) /\ ~BreakOff(b)
    BY <2>1 DEF CopyIndex, BreakOff, Step, Goto, Typed
  <2>3. b \notin upset
    BY <1>0, <2>2, MarksStay
  <2> QED
    BY <1>0, <1>3, <2>1, <2>3 DEF Hits, CopyStages
<1>4. CASE ~Hit(b) /\ ~CopiesBlobs(b) /\ ~RemoveIndex(b)
  <2>1. \E to \in {"clean", "extract", "open", "init", "initwrite", "blobs", "read", "truncate",
                   "write", "tarball", "ok", "broken"} : \E m : Goto(b, to, m)
    BY <1>4 DEF CopiesBlobs, BuildSteps, BreakOff, Miss, CleanTarget, ExtractLayer, ComposeImage,
                FromPath, InitTruncate, InitWrite, WriteBlobs, ReadIndex, TruncateIndex,
                WriteIndex, WriteTarball, CopyIndex, AfterLayout, Step
  <2> QED
    BY <1>0, <2>1 DEF Goto, Typed, CopyStages
<1> QED
  BY <1>1, <1>2, <1>3, <1>4

\* What Copied says of one build.
Covered(c) ==
  /\ Filled(EntryOf(c))
  /\ pc[c] # "copylist" =>
       \A im : CanBeFirst(EntryOf(c), im) => im \in blobs[Output] \union mem[c].todo
  /\ pc[c] = "copyindex" => mem[c].todo = {}

\* A step of another build, that leaves the copy its entry and its output.
LEMMA OthersCover ==
  ASSUME Typed, Kept, Copied, NEW b \in Builds, NEW c \in Builds \ {b},
         BuildSteps(b) \/ BreakOff(b), Hits(c)'
  PROVE  Covered(c)'
<1> DEFINE d == EntryOf(c)
<1>1. mem'[c] = mem[c] /\ pc'[c] = pc[c]
  BY BuildMoves, ActorMoves
<1>2. Hits(c) /\ d' = d
  BY <1>1, MarksStay DEF Hits, EntryOf
<1>3. d \in Layouts \ {Output} /\ Covered(c)
  BY <1>2, EntryKeys DEF Copied, Covered, Typed, Hits, Running, Stages, CopyStages
<1>4. c \notin upset' /\ pc[c] \in CopyStages
  BY <1>1 DEF Hits
<1>5. mem[b].dir = d => ~InitTruncate(b) /\ ~InitWrite(b)
  BY <1>4 DEF InitTruncate, InitWrite, CopiesOf
<1>6. blobs[Output] \subseteq blobs'[Output]
  <2>1. ~(\E im \in mem[b].todo : RemoveBlob(b, im))
    BY <1>4 DEF RemoveBlob, Removes
  <2>2. CASE WriteBlobs(b)
    BY <2>2 DEF WriteBlobs, Typed, Layouts
  <2>3. CASE CopyBlob(b)
    BY <2>3 DEF CopyBlob, Typed, Layouts
  <2>4. CASE ~WriteBlobs(b) /\ ~CopyBlob(b)
    <3>1. UNCHANGED blobs
      BY <2>1, <2>4 DEF BuildSteps, BreakOff, Hit, Miss, CleanTarget, ExtractLayer, Extracts,
         ComposeImage, FromPath, InitTruncate, InitWrite, ReadIndex, TruncateIndex, WriteIndex,
         WriteTarball, ListBlobs, RemoveIndex, CopyIndex, disk
    <3> QED
      BY <3>1
  <2> QED
    BY <2>2, <2>3, <2>4
<1>7. Filled(d) /\ (pc[c] # "copylist" =>
                      \A im : CanBeFirst(d, im) => im \in blobs[Output] \union mem[c].todo)
  BY <1>3 DEF Covered
<1> HIDE DEF d
<1>8. Filled(d)' /\ \A im : CanBeFirst(d, im)' => CanBeFirst(d, im)
  BY <1>2, <1>3, <1>5, <1>7, FirstsShrink
<1>9. pc'[c] # "copylist" =>
        \A im : CanBeFirst(d, im)' => im \in blobs'[Output] \union mem'[c].todo
  BY <1>1, <1>6, <1>7, <1>8
<1>10. pc'[c] = "copyindex" => mem'[c].todo = {}
  BY <1>1, <1>3 DEF Covered
<1> QED
  BY <1>2, <1>8, <1>9, <1>10 DEF Covered, d

\* A step of the copy itself.
LEMMA CopyCovers ==
  ASSUME Typed, Kept, Copied, Losers, NEW b \in Builds, BuildSteps(b) \/ BreakOff(b), Hits(b)'
  PROVE  Covered(b)'
<1> DEFINE d == EntryOf(b)
<1>0. \A a \in Builds \ {b} : mem'[a] = mem[a] /\ pc'[a] = pc[a]
  BY BuildMoves, ActorMoves
<1>1. CASE Hit(b) /\ pc'[b] = "copylist" /\ Loads(index[EntryOf(b)])
  <2> DEFINE m == [mem[b] EXCEPT !.loads = Loads(index[EntryOf(b)])]
             to == IF mem[b].cfg.output THEN "copylist" ELSE "ok"
  <2>1. Goto(b, to, m) /\ UNCHANGED disk
    BY <1>1 DEF Hit
  <2>2. Shape(m) /\ m.layers = mem[b].layers
    BY DEF Typed, Shape
  <2> HIDE DEF m
  <2>3. mem'[b] = m
    BY <1>1, <2>1, <2>2, ActorMoves DEF Stages, CopyStages
  <2>4. EntryOf(b)' = EntryOf(b)
    BY <2>2, <2>3 DEF EntryOf
  <2> QED
    BY <1>1, <2>1, <2>4 DEF Covered, Filled, Loads, disk
<1>2. CASE Hits(b) /\ (CopiesBlobs(b) \/ RemoveIndex(b))
  <2>1. Covered(b) /\ d \in Layouts \ {Output}
    BY <1>2, EntryKeys DEF Copied, Covered, Typed, Hits, Running, Stages, CopyStages
  <2>2. /\ d' = d /\ index'[d] = index[d] /\ pc'[b] \notin {"truncate", "write"}
    <3>1. CASE CopiesBlobs(b)
      <4>1. PICK to, m :
              to \in {"copyblobs", "copyfile"} /\ Goto(b, to, m) /\ Shape(m) /\ m.layers = mem[b].layers /\ UNCHANGED index
        BY <3>1, CopyMoves
      <4>2. pc'[b] = to /\ mem'[b] = m
        BY <4>1, ActorMoves DEF Stages, CopyStages
      <4> QED
        BY <4>1, <4>2 DEF EntryOf
    <3>2. CASE RemoveIndex(b)
      <4>1. pc'[b] = "copyindex" /\ mem'[b] = mem[b]
        BY <3>2, StepMoves DEF RemoveIndex, Stages, CopyStages
      <4>2. index'[d] = index[d]
        BY <2>1, <3>2 DEF RemoveIndex, Typed
      <4> QED
        BY <4>1, <4>2 DEF EntryOf
    <3> QED
      BY <1>2, <3>1, <3>2
  <2>3. Filled(d) /\ (pc[b] # "copylist" =>
                        \A im : CanBeFirst(d, im) => im \in blobs[Output] \union mem[b].todo)
    BY <2>1 DEF Covered
  <2>4. \A im : CanBeFirst(d, im) => im \in blobs[d]
    BY <2>1, FirstsAreIn
  <2>5. CASE ListBlobs(b)
    <3> DEFINE m == [mem[b] EXCEPT !.todo = blobs[EntryOf(b)]]
    <3>1. Goto(b, "copyblobs", m) /\ Shape(m) /\ m.todo = blobs[d]
      BY <2>5 DEF ListBlobs, Typed, Shape
    <3> HIDE DEF m
    <3>2. pc'[b] = "copyblobs" /\ mem'[b].todo = blobs[d]
      BY <3>1, ActorMoves DEF Stages, CopyStages
    <3> HIDE DEF d
    <3>3. Filled(d)' /\ \A im : CanBeFirst(d, im)' => CanBeFirst(d, im)
      BY <1>0, <2>1, <2>2, <2>3, FirstsStay
    <3> QED
      BY <2>2, <2>4, <3>2, <3>3 DEF Covered, d
  <2>6. CASE \E im \in mem[b].todo : RemoveBlob(b, im)
    <3>0. PICK gone \in mem[b].todo : RemoveBlob(b, gone)
      BY <2>6
    <3> DEFINE m == [mem[b] EXCEPT !.file = gone]
    <3>1. Goto(b, "copyfile", m) /\ Shape(m) /\ m.todo = mem[b].todo /\ pc[b] = "copyblobs"
          /\ blobs'[Output] = blobs[Output] \ {gone}
      BY <3>0 DEF RemoveBlob, Typed, Shape, Layouts
    <3> HIDE DEF m
    <3>2. pc'[b] = "copyfile" /\ mem'[b].todo = mem[b].todo
      BY <3>1, ActorMoves DEF Stages, CopyStages
    <3> HIDE DEF d
    <3>3. Filled(d)' /\ \A im : CanBeFirst(d, im)' => CanBeFirst(d, im)
      BY <1>0, <2>1, <2>2, <2>3, FirstsStay
    <3>4. \A im : CanBeFirst(d, im)' => im \in blobs'[Output] \union mem'[b].todo
      BY <2>3, <3>0, <3>1, <3>2, <3>3
    <3> QED
      BY <2>2, <3>2, <3>3, <3>4 DEF Covered, d
  <2>7. CASE CopyBlob(b)
    <3> DEFINE m == [mem[b] EXCEPT !.todo = @ \ {mem[b].file}, !.file = NoImage]
    <3>0. b \notin lost
      BY <1>2, <2>7 DEF Losers, Hits, CopyBlob
    <3>4. Goto(b, "copyblobs", m)
          /\ pc[b] = "copyfile" /\ blobs'[Output] = blobs[Output] \union {mem[b].file}
      BY <2>7, <3>0 DEF CopyBlob, Typed, Layouts
    <3>5. Shape(mem[b])
      BY DEF Typed
    <3>6. m = [cfg |-> mem[b].cfg, layers |-> mem[b].layers, loads |-> mem[b].loads,
             done |-> mem[b].done, img |-> mem[b].img, dir |-> mem[b].dir, seen |-> mem[b].seen,
             todo |-> mem[b].todo \ {mem[b].file}, file |-> NoImage]
      BY <3>5, TwoFields
    <3> HIDE DEF m
    <3>1. /\ Goto(b, "copyblobs", m) /\ Shape(m) /\ m.todo = mem[b].todo \ {mem[b].file}
          /\ pc[b] = "copyfile" /\ blobs'[Output] = blobs[Output] \union {mem[b].file}
      BY <3>4, <3>5, <3>6 DEF Shape
    <3>2. pc'[b] = "copyblobs" /\ mem'[b].todo = mem[b].todo \ {mem[b].file}
      BY <3>1, ActorMoves DEF Stages, CopyStages
    <3> HIDE DEF d
    <3>3. Filled(d)' /\ \A im : CanBeFirst(d, im)' => CanBeFirst(d, im)
      BY <1>0, <2>1, <2>2, <2>3, FirstsStay
    <3>7. \A im : CanBeFirst(d, im)' => im \in blobs'[Output] \union mem'[b].todo
      BY <2>3, <3>1, <3>2, <3>3
    <3> QED
      BY <2>2, <3>2, <3>3, <3>7 DEF Covered, d
  <2>8. CASE RemoveIndex(b)
    <3>1. pc[b] = "copyblobs" /\ pc'[b] = "copyindex" /\ mem'[b] = mem[b] /\ mem[b].todo = {}
          /\ UNCHANGED blobs
      BY <2>8, StepMoves DEF RemoveIndex, Stages, CopyStages
    <3> HIDE DEF d
    <3>3. Filled(d)' /\ \A im : CanBeFirst(d, im)' => CanBeFirst(d, im)
      BY <1>0, <2>1, <2>2, <2>3, FirstsStay
    <3>4. \A im : CanBeFirst(d, im)' => im \in blobs'[Output] \union mem'[b].todo
      BY <2>3, <3>1, <3>3
    <3> QED
      BY <2>2, <3>1, <3>3, <3>4 DEF Covered, d
  <2> QED
    BY <1>2, <2>5, <2>6, <2>7, <2>8 DEF CopiesBlobs
<1> QED
  BY <1>1, <1>2, HitMoves

LEMMA NextCopied == Typed /\ Kept /\ Copied /\ Losers /\ [Next]_vars => Copied'
<1> SUFFICES ASSUME Typed, Kept, Copied, Losers, [Next]_vars, NEW c \in Builds, Hits(c)'
             PROVE  Covered(c)'
  BY DEF Copied, Covered
<1>1. CASE UNCHANGED vars
  <2>1. Hits(c) /\ EntryOf(c)' = EntryOf(c)
    BY <1>1 DEF Hits, EntryOf, vars, disk
  <2>2. Covered(c)
    BY <2>1 DEF Copied, Covered
  <2> QED
    BY <1>1, <2>1, <2>2 DEF Covered, Filled, CanBeFirst, ToList, vars, disk
<1>2. ASSUME NEW b \in Builds, NEW k \in Configs, Start(b, k) PROVE Covered(c)'
  <2>1. pc'[b] = "lookup" /\ UNCHANGED <<index, blobs, upset>>
        /\ \A a \in Builds \ {b} : mem'[a] = mem[a] /\ pc'[a] = pc[a]
    BY <1>2, StartMoves, ActorMoves DEF disk
  <2>2. c # b
    BY <2>1 DEF Hits, CopyStages
  <2>3. Hits(c) /\ EntryOf(c)' = EntryOf(c) /\ pc'[c] = pc[c] /\ mem'[c] = mem[c]
    BY <2>1, <2>2 DEF Hits, EntryOf
  <2>4. Covered(c) /\ EntryOf(c) \in Layouts
    BY <2>3 DEF Copied, Covered, Typed, Hits, Running, Stages, CopyStages
  <2>5. Filled(EntryOf(c))' /\ \A im : CanBeFirst(EntryOf(c), im)' => CanBeFirst(EntryOf(c), im)
    <3> DEFINE d == EntryOf(c)
    <3>1. d' = d /\ d \in Layouts /\ Filled(d)
      BY <2>3, <2>4 DEF Covered
    <3> HIDE DEF d
    <3>2. Filled(d)' /\ \A im : CanBeFirst(d, im)' => CanBeFirst(d, im)
      BY <2>1, <3>1 DEF Filled, CanBeFirst, ToList
    <3> QED
      BY <3>1, <3>2 DEF d
  <2> QED
    BY <2>1, <2>3, <2>4, <2>5 DEF Covered
<1>3. ASSUME NEW b \in Builds, BuildSteps(b) \/ BreakOff(b) PROVE Covered(c)'
  <2>1. CASE c = b
    BY <1>3, <2>1, CopyCovers
  <2>2. CASE c # b
    BY <1>3, <2>2, OthersCover
  <2> QED
    BY <2>1, <2>2
<1> QED
  BY <1>1, <1>2, <1>3 DEF Next

\* What HitDelivers says of one build.
Delivered(b) ==
  LET ix == index'[Output] IN
    /\ Loads(ix)
    /\ FirstImage(ix) \in blobs'[Output]
    /\ FirstImage(ix).by \in mixed \/ IsOf(FirstImage(ix), ComputeCacheKey(mem[b].layers))

LEMMA CopyDelivers ==
  ASSUME Typed, Kept, Right, Copied, Losers, [Next]_vars, NEW b \in Builds,
         pc[b] = "copyindex", pc'[b] = "ok", mem[b].loads, index[EntryOf(b)].state = "list",
         b \notin upset
  PROVE  Delivered(b)
<1>1. CopyIndex(b)
  <2>1. PICK a \in Builds : (\E c \in Configs : Start(a, c)) \/ BuildSteps(a) \/ BreakOff(a)
    BY DEF Next, vars
  <2>2. CASE a # b
    <3>1. pc'[b] = pc[b]
      BY <2>1, <2>2, StartMoves, BuildMoves, ActorMoves
    <3> QED
      BY <3>1
  <2>3. CASE a = b
    <3>1. ~BreakOff(b) /\ ~(\E c \in Configs : Start(b, c))
      BY DEF BreakOff, Start, Goto, Typed
    <3> QED
      BY <2>1, <2>3, <3>1 DEF BuildSteps, Hit, Miss, CleanTarget, ExtractLayer, ComposeImage,
         FromPath, InitTruncate, InitWrite, WriteBlobs, ReadIndex, TruncateIndex, WriteIndex,
         WriteTarball, ListBlobs, RemoveBlob, CopyBlob, RemoveIndex, Step
  <2> QED
    BY <2>2, <2>3
<1> DEFINE d == EntryOf(b)
<1>2. /\ d \in Layouts \ {Output} /\ d = Entry(KeyOf(b)) /\ KeyOf(b) \in Keys
      /\ index[d].images # <<>> /\ index[d].images \in Seq(blobs[d])
  <2>1. d \in Layouts \ {Output} /\ d = Entry(KeyOf(b))
    BY EntryKeys DEF Typed, Running, Stages, CopyStages
  <2>2. KeyOf(b) \in Keys
    BY <2>1, EntryKeys
  <2>3. Filled(d)
    BY DEF Copied, Hits, CopyStages
  <2> QED
    BY <2>1, <2>2, <2>3 DEF Filled, Kept
<1>3. index'[Output] = index[d] /\ blobs' = blobs
  <2>1. b \notin lost
    BY DEF Losers
  <2> QED
    BY <1>1, <2>1 DEF CopyIndex, Typed, Layouts
<1>4. Loads(index[d]) /\ CanBeFirst(d, FirstImage(index[d]))
  BY <1>2 DEF Loads, CanBeFirst
<1>5. FirstImage(index[d]) \in blobs[Output]
  <2>1. mem[b].todo = {} /\ FirstImage(index[d]) \in blobs[Output] \union mem[b].todo
    BY <1>4 DEF Copied, Hits, CopyStages
  <2> QED
    BY <2>1
<1>6. FirstImage(index[d]).by \in mixed \/ IsOf(FirstImage(index[d]), KeyOf(b))
  <2>1. 1 \in DOMAIN index[d].images
    BY <1>2
  <2> QED
    BY <1>2, <2>1 DEF Right, EntryIsItsKey, FirstImage
<1> QED
  BY <1>3, <1>4, <1>5, <1>6 DEF Delivered, KeyOf

\* A hit on an entry with an image puts a whole image of the layers asked for
\* where the readers of the output look, however many builds append to the entry
\* meanwhile and whatever the output held before, unless another copy into the
\* output or a late layout.Write on the entry came in between.
THEOREM HitsDeliver == Spec => HitDelivers
<1> DEFINE Invs == Typed /\ Kept /\ AllTidy /\ Right /\ Copied /\ Losers
<1>1. Init => Invs
  BY InitTyped, InitKept, InitTidy, InitRight, InitCopied
<1>2. Invs /\ [Next]_vars => Invs'
  BY NextTyped, NextKept, NextTidy, NextRight, NextCopied, NextLosers
<1>3. Invs /\ [Next]_vars =>
        [\A b \in Builds :
           /\ pc[b] = "copyindex" /\ pc'[b] = "ok"
           /\ mem[b].loads /\ index[EntryOf(b)].state = "list" /\ b \notin upset
           => LET ix == index'[Output] IN
                /\ Loads(ix)
                /\ FirstImage(ix) \in blobs'[Output]
                /\ FirstImage(ix).by \in mixed
                   \/ IsOf(FirstImage(ix), ComputeCacheKey(mem[b].layers))]_vars
  BY CopyDelivers DEF Delivered
<1> QED
  BY <1>1, <1>2, <1>3, PTL DEF Spec, HitDelivers

----------------------------------------------------------------------------
(* Who wins among the layers.                                              *)

\* Induction over the naturals, for a set: a least number outside of it has a
\* predecessor in it.
LEMMA Induct ==
  ASSUME NEW S, 0 \in S, \A n \in Nat : n \in S => n + 1 \in S
  PROVE  Nat \subseteq S
<1> DEFINE R == OpToRel(<, Nat)
           T == Nat \ S
<1>1. IsWellFoundedOn(R, Nat)
  BY NatLessThanWellFounded
<1>2. \A x, y \in Nat : x < y => <<x, y>> \in R
  BY DEF OpToRel
<1> HIDE DEF R
<1>3. SUFFICES ASSUME T # {} PROVE FALSE
  OBVIOUS
<1>4. PICK x \in T : \A y \in T : ~ (<<y, x>> \in R)
  BY <1>1, <1>3, WFMin
<1>5. x # 0 /\ x \in Nat
  BY <1>4
<1>6. x - 1 \in T /\ x - 1 < x
  BY <1>4, <1>5
<1> QED
  BY <1>2, <1>4, <1>5, <1>6

\* The last k of n positions, and the least of them.
Final(n, k) == (n - k + 1)..n

\* Of the last k of n, the first.
LEMMA FinalMin == ASSUME NEW n \in Nat, NEW k \in 1..n
                  PROVE  Min(Final(n, k)) = n - k + 1 /\ Final(n, k) # {}
                         /\ Final(n, k) \ {n - k + 1} = Final(n, k - 1)
  BY DEF Min, Final

\* A set of numbers that is not empty has a least one.
LEMMA MinIn ==
  ASSUME NEW n \in Nat, NEW I, I \subseteq 1..n, I # {}
  PROVE  Min(I) \in I /\ \A i \in I : Min(I) <= i
<1> DEFINE S == {k \in Nat : k <= n => \A J \in SUBSET Final(n, k) :
                   J # {} => \E x \in J : \A y \in J : x <= y}
<1>1. 0 \in S
  <2>1. Final(n, 0) = {}
    BY DEF Final
  <2> QED
    BY <2>1
<1>2. ASSUME NEW k \in Nat, k \in S
      PROVE  k + 1 \in S
  <2> SUFFICES ASSUME k + 1 <= n, NEW J \in SUBSET Final(n, k + 1), J # {}
               PROVE  \E x \in J : \A y \in J : x <= y
    OBVIOUS
  <2>1. CASE n - k \in J
    BY <2>1 DEF Final
  <2>2. CASE n - k \notin J
    <3>1. J \in SUBSET Final(n, k)
      BY <2>2 DEF Final
    <3> QED
      BY <1>2, <3>1
  <2> QED
    BY <2>1, <2>2
<1> HIDE DEF S
<1>3. n \in S
  BY <1>1, <1>2, Induct
<1>4. \E x \in I : \A y \in I : x <= y
  BY <1>3 DEF S, Final
<1> QED
  BY <1>4 DEF Min

\* The fold of DeduplicateLayers: what it makes of the last k layers.
Kepts(s, f) ==
  /\ f[{}] = <<>>
  /\ \A I \in (SUBSET (1..Len(s))) \ {{}} : f[I] = UnlessSeen(s[Min(I)], f[I \ {Min(I)}])

\* There is a function as the fold wants it.
LEMMA FoldExists ==
  ASSUME NEW T, NEW s \in Seq(T)
  PROVE  \E f : f = [I \in SUBSET (1..Len(s)) |->
                       IF I = {} THEN <<>> ELSE UnlessSeen(s[Min(I)], f[I \ {Min(I)}])]
<1> DEFINE n == Len(s)
           Is(f, k) == f = [I \in SUBSET Final(n, k) |->
                              IF I = {} THEN <<>> ELSE UnlessSeen(s[Min(I)], f[I \ {Min(I)}])]
           S == {k \in Nat : k <= n => \E f : Is(f, k)}
<1>0. n \in Nat
  OBVIOUS
<1> HIDE DEF n, Is
<1>1. 0 \in S
  <2>1. SUBSET Final(n, 0) = {{}}
    BY <1>0 DEF Final
  <2>2. Is([I \in {{}} |-> <<>>], 0)
    BY <2>1 DEF Is
  <2> QED
    BY <2>2
<1>2. ASSUME NEW k \in Nat, k \in S
      PROVE  k + 1 \in S
  <2> SUFFICES ASSUME k + 1 <= n PROVE \E f : Is(f, k + 1)
    OBVIOUS
  <2>1. PICK f : Is(f, k)
    BY <1>0, <1>2
  <2> DEFINE g == [I \in SUBSET Final(n, k + 1) |->
                     IF I = {} THEN <<>> ELSE UnlessSeen(s[Min(I)], f[I \ {Min(I)}])]
  <2>2. Final(n, k) \subseteq Final(n, k + 1) /\ Final(n, k + 1) \subseteq 1..n
    BY <1>0 DEF Final
  <2>3. ASSUME NEW I \in SUBSET Final(n, k + 1), I # {}
        PROVE  I \ {Min(I)} \in SUBSET Final(n, k)
    <3>1. I \subseteq 1..n
      BY <2>2
    <3>2. Min(I) \in I /\ \A i \in I : Min(I) <= i
      BY <1>0, <2>3, <3>1, MinIn
    <3>3. \A i \in I : i \in n - k..n
      BY <1>0 DEF Final
    <3>4. ASSUME NEW i \in I, i # Min(I)
          PROVE  i \in n - k + 1..n
      BY <1>0, <3>2, <3>3, <3>4
    <3> QED
      BY <3>4 DEF Final
  <2>4. \A I \in SUBSET Final(n, k) : g[I] = f[I]
    BY <2>1, <2>2 DEF Is
  <2>5. Is(g, k + 1)
    BY <2>3, <2>4 DEF Is
  <2> QED
    BY <2>5
<1> HIDE DEF S
<1>3. n \in S
  BY <1>0, <1>1, <1>2, Induct
<1>4. Final(n, n) = 1..n
  BY <1>0 DEF Final
<1>5. \E f : Is(f, n)
  BY <1>0, <1>3 DEF S
<1> QED
  BY <1>4, <1>5 DEF n, Is

\* What DeduplicateLayers is a fold of, one layer at a time from the last.
LEMMA DeduplicateFolds ==
  ASSUME NEW T, NEW s \in Seq(T)
  PROVE  \E f : Kepts(s, f) /\ DeduplicateLayers(s) = f[1..Len(s)]
<1> DEFINE Is(f) == f = [I \in SUBSET (1..Len(s)) |->
                           IF I = {} THEN <<>> ELSE UnlessSeen(s[Min(I)], f[I \ {Min(I)}])]
           g == CHOOSE f : Is(f)
<1>1. DOMAIN s = 1..Len(s)
  OBVIOUS
<1>2. DeduplicateLayers(s) = (CHOOSE f : f = [I \in SUBSET (DOMAIN s) |->
        IF I = {} THEN <<>> ELSE UnlessSeen(s[Min(I)], f[I \ {Min(I)}])])[DOMAIN s]
  BY DEF DeduplicateLayers, FoldRight, MapThenFoldSet
<1>3. DeduplicateLayers(s) = g[1..Len(s)]
  BY <1>1, <1>2
<1>4. Is(g)
  <2>1. \E f : Is(f)
    BY FoldExists, Zenon
  <2> HIDE DEF Is
  <2> QED
    BY <2>1
<1>5. Kepts(s, g)
  <2> HIDE DEF g
  <2>1. g[{}] = <<>>
    BY <1>4
  <2>2. ASSUME NEW I \in SUBSET (1..Len(s)), I # {}
        PROVE  g[I] = UnlessSeen(s[Min(I)], g[I \ {Min(I)}])
    BY <1>4, <2>2, Zenon
  <2> HIDE DEF Is
  <2>3. \A I \in (SUBSET (1..Len(s))) \ {{}} : g[I] = UnlessSeen(s[Min(I)], g[I \ {Min(I)}])
    BY <2>2, Zenon
  <2> QED
    BY <2>1, <2>3, Zenon DEF Kepts
<1> QED
  BY <1>3, <1>5

\* In a list of layers and in what is kept of it, the same layer is the last of
\* those with a key in K, if there is one.
SameLast(s, I, kept, K) ==
  \/ /\ \A i \in I : LayerKey(s[i]) \notin K
     /\ \A j \in DOMAIN kept : LayerKey(kept[j]) \notin K
  \/ \E i \in I, j \in DOMAIN kept :
       /\ s[i] = kept[j] /\ LayerKey(s[i]) \in K
       /\ \A h \in I : LayerKey(s[h]) \in K => h <= i
       /\ \A h \in DOMAIN kept : LayerKey(kept[h]) \in K => h <= j

\* One layer more in front changes nothing about it.
LEMMA UnlessSeenKeepsLast ==
  ASSUME NEW T, NEW s \in Seq(T), NEW k \in Nat, k + 1 <= Len(s), NEW K,
         NEW kept \in Seq(T), SameLast(s, Final(Len(s), k), kept, K)
  PROVE  SameLast(s, Final(Len(s), k + 1), UnlessSeen(s[Len(s) - k], kept), K)
<1> DEFINE n == Len(s)
           l == s[n - k]
           new == UnlessSeen(l, kept)
<1>0. n \in Nat /\ l \in T /\ Len(kept) \in Nat /\ DOMAIN kept = 1..Len(kept)
  OBVIOUS
<1> HIDE DEF n
<1>1. Final(n, k + 1) = Final(n, k) \union {n - k} /\ \A i \in Final(n, k) : i \in Nat /\ n - k < i
  BY <1>0 DEF Final, n
<1>2. CASE \E i \in DOMAIN kept : LayerKey(kept[i]) = LayerKey(l)
  <2>1. new = kept
    BY <1>2 DEF UnlessSeen
  <2> HIDE DEF new
  <2>2. CASE \A i \in Final(n, k) : LayerKey(s[i]) \notin K
    <3>1. \A j \in DOMAIN kept : LayerKey(kept[j]) \notin K
      BY <2>2 DEF SameLast, n
    <3>2. LayerKey(l) \notin K
      BY <1>2, <3>1
    <3> HIDE DEF l
    <3>3. \A i \in Final(n, k + 1) : LayerKey(s[i]) \notin K
      BY <1>1, <2>2, <3>2 DEF l
    <3> QED
      BY <2>1, <3>1, <3>3 DEF SameLast, n, new, l
  <2>3. CASE \E i \in Final(n, k) : LayerKey(s[i]) \in K
    <3>1. PICK i \in Final(n, k), j \in DOMAIN kept :
            /\ s[i] = kept[j] /\ LayerKey(s[i]) \in K
            /\ \A h \in Final(n, k) : LayerKey(s[h]) \in K => h <= i
            /\ \A h \in DOMAIN kept : LayerKey(kept[h]) \in K => h <= j
      BY <2>3 DEF SameLast, n
    <3>2. \A h \in Final(n, k + 1) : LayerKey(s[h]) \in K => h <= i
      BY <1>0, <1>1, <3>1
    <3> QED
      BY <1>1, <2>1, <3>1, <3>2 DEF SameLast, n, new, l
  <2> QED
    BY <2>2, <2>3
<1>3. CASE ~\E i \in DOMAIN kept : LayerKey(kept[i]) = LayerKey(l)
  <2>1. new = <<l>> \o kept
    BY <1>3 DEF UnlessSeen
  <2>2. /\ DOMAIN new = 1..(Len(kept) + 1) /\ new[1] = l
        /\ \A j \in 1..Len(kept) : new[j + 1] = kept[j]
        /\ \A h \in DOMAIN new : h = 1 \/ (h - 1 \in 1..Len(kept) /\ new[h] = kept[h - 1])
    <3>1. /\ DOMAIN new = 1..(Len(kept) + 1) /\ new[1] = l
          /\ \A j \in 1..Len(kept) : new[j + 1] = kept[j]
      BY <1>0, <2>1
    <3> HIDE DEF new, l
    <3>2. ASSUME NEW h \in DOMAIN new, h # 1
          PROVE  h - 1 \in 1..Len(kept) /\ new[h] = kept[h - 1]
      <4>1. h - 1 \in 1..Len(kept) /\ (h - 1) + 1 = h
        BY <1>0, <3>1, <3>2
      <4> QED
        BY <3>1, <4>1
    <3> QED
      BY <3>1, <3>2
  <2> HIDE DEF new, l
  <2>3. CASE \A i \in Final(n, k) : LayerKey(s[i]) \notin K
    <3>1. \A j \in DOMAIN kept : LayerKey(kept[j]) \notin K
      BY <2>3 DEF SameLast, n
    <3>2. \A h \in DOMAIN new : LayerKey(new[h]) \in K => h = 1
      BY <1>0, <2>2, <3>1
    <3>3. \A i \in Final(n, k + 1) : LayerKey(s[i]) \in K => i = n - k
      BY <1>1, <2>3
    <3>4. CASE LayerKey(l) \in K
      <4>1. /\ n - k \in Final(n, k + 1) /\ 1 \in DOMAIN new
            /\ s[n - k] = new[1] /\ LayerKey(s[n - k]) \in K
        BY <1>0, <1>1, <2>2, <3>4 DEF l
      <4>2. /\ \A h \in Final(n, k + 1) : LayerKey(s[h]) \in K => h <= n - k
            /\ \A h \in DOMAIN new : LayerKey(new[h]) \in K => h <= 1
        BY <1>0, <3>2, <3>3
      <4> QED
        BY <4>1, <4>2 DEF SameLast, n, new, l
    <3>5. CASE LayerKey(l) \notin K
      <4>1. \A i \in Final(n, k + 1) : LayerKey(s[i]) \notin K
        BY <3>3, <3>5 DEF l
      <4>2. \A h \in DOMAIN new : LayerKey(new[h]) \notin K
        BY <2>2, <3>2, <3>5
      <4> QED
        BY <4>1, <4>2 DEF SameLast, n, new, l
    <3> QED
      BY <3>4, <3>5
  <2>4. CASE \E i \in Final(n, k) : LayerKey(s[i]) \in K
    <3>1. PICK i \in Final(n, k), j \in DOMAIN kept :
            /\ s[i] = kept[j] /\ LayerKey(s[i]) \in K
            /\ \A h \in Final(n, k) : LayerKey(s[h]) \in K => h <= i
            /\ \A h \in DOMAIN kept : LayerKey(kept[h]) \in K => h <= j
      BY <2>4 DEF SameLast, n
    <3>2. \A h \in Final(n, k + 1) : LayerKey(s[h]) \in K => h <= i
      BY <1>0, <1>1, <3>1
    <3>3. j + 1 \in DOMAIN new /\ new[j + 1] = s[i]
      BY <1>0, <2>2, <3>1
    <3>4. ASSUME NEW h \in DOMAIN new, LayerKey(new[h]) \in K
          PROVE  h <= j + 1
      <4>1. CASE h = 1
        BY <1>0, <4>1
      <4>2. CASE h # 1
        <5>1. h - 1 \in DOMAIN kept /\ LayerKey(kept[h - 1]) \in K
          BY <1>0, <2>2, <3>4, <4>2
        <5>2. h - 1 <= j /\ h \in Nat /\ j \in Nat
          BY <1>0, <2>2, <3>1, <5>1
        <5> QED
          BY <5>2
      <4> QED
        BY <4>1, <4>2
    <3> QED
      BY <1>1, <3>1, <3>2, <3>3, <3>4 DEF SameLast, n, new, l
  <2> QED
    BY <2>3, <2>4
<1> QED
  BY <1>2, <1>3

\* A layer is put before others of its type.
LEMMA UnlessSeenType ==
  ASSUME NEW T, NEW l \in T, NEW kept \in Seq(T)
  PROVE  UnlessSeen(l, kept) \in Seq(T)
  BY DEF UnlessSeen

\* Dropping repeated layers keeps the last one of any set of keys.
LEMMA DeduplicateKeepsLast ==
  ASSUME NEW T, NEW s \in Seq(T), NEW K
  PROVE  /\ DeduplicateLayers(s) \in Seq(T)
         /\ SameLast(s, 1..Len(s), DeduplicateLayers(s), K)
<1> DEFINE n == Len(s)
<1>1. PICK f : Kepts(s, f) /\ DeduplicateLayers(s) = f[1..n]
  BY DeduplicateFolds
<1> DEFINE S == {k \in Nat : k <= n => /\ f[Final(n, k)] \in Seq(T)
                                       /\ SameLast(s, Final(n, k), f[Final(n, k)], K)}
<1>0. n \in Nat
  OBVIOUS
<1>2. 0 \in S
  <2>1. Final(n, 0) = {}
    BY <1>0 DEF Final
  <2>2. f[{}] = <<>>
    BY <1>1 DEF Kepts
  <2>3. f[Final(n, 0)] \in Seq(T)
    <3>1. <<>> \in Seq(T)
      OBVIOUS
    <3> QED
      BY <2>1, <2>2, <3>1, Zenon
  <2>4. SameLast(s, Final(n, 0), f[Final(n, 0)], K)
    <3>1. DOMAIN f[{}] = {}
      BY <2>2
    <3> QED
      BY <2>1, <3>1 DEF SameLast
  <2> QED
    BY <2>3, <2>4
<1>3. ASSUME NEW k \in Nat, k \in S
      PROVE  k + 1 \in S
  <2> SUFFICES ASSUME k + 1 <= n
               PROVE  /\ f[Final(n, k + 1)] \in Seq(T)
                      /\ SameLast(s, Final(n, k + 1), f[Final(n, k + 1)], K)
    OBVIOUS
  <2>1. f[Final(n, k)] \in Seq(T) /\ SameLast(s, Final(n, k), f[Final(n, k)], K)
    BY <1>0, <1>3
  <2>2. /\ Min(Final(n, k + 1)) = n - k /\ Final(n, k + 1) # {}
        /\ Final(n, k + 1) \ {n - k} = Final(n, k)
    BY <1>0, FinalMin, k + 1 \in 1..n, n - (k + 1) + 1 = n - k, (k + 1) - 1 = k
  <2>3. Final(n, k + 1) \in (SUBSET (1..n)) \ {{}}
    <3>1. Final(n, k + 1) \subseteq 1..n
      BY <1>0 DEF Final
    <3> QED
      BY <2>2, <3>1, Zenon
  <2>4. f[Final(n, k + 1)] = UnlessSeen(s[n - k], f[Final(n, k)])
    BY <1>1, <2>2, <2>3 DEF Kepts
  <2>5. s[n - k] \in T
    OBVIOUS
  <2>6. f[Final(n, k + 1)] \in Seq(T)
    BY <2>1, <2>4, <2>5, UnlessSeenType
  <2> QED
    BY <2>1, <2>4, <2>6, UnlessSeenKeepsLast
<1> HIDE DEF S
<1>4. n \in S
  BY <1>0, <1>2, <1>3, Induct
<1>5. Final(n, n) = 1..n
  BY <1>0 DEF Final
<1> QED
  BY <1>0, <1>1, <1>4, <1>5 DEF S

\* The winners are the same before and after a deduplication.
LEMMA SameLastOf ==
  ASSUME NEW T, NEW s \in Seq(T), NEW kept \in Seq(T), NEW K, SameLast(s, 1..Len(s), kept, K)
  PROVE  LastOf(kept, K) = LastOf(s, K)
<1>0. /\ DOMAIN s = 1..Len(s) /\ Len(s) \in Nat
      /\ DOMAIN kept = 1..Len(kept) /\ Len(kept) \in Nat
  OBVIOUS
<1>1. ASSUME NEW t \in Seq(T), NEW i \in DOMAIN t, LayerKey(t[i]) \in K,
             \A h \in DOMAIN t : LayerKey(t[h]) \in K => h <= i
      PROVE  LastOf(t, K) = <<t[i]>>
  <2> DEFINE at == {h \in DOMAIN t : LayerKey(t[h]) \in K}
             m == CHOOSE h \in at : \A j \in at : j <= h
  <2>1. i \in at /\ \A j \in at : j <= i
    BY <1>1
  <2>2. m \in at /\ \A j \in at : j <= m
    BY <2>1
  <2>3. at \subseteq Nat
    OBVIOUS
  <2>4. m = i
    <3> HIDE DEF at, m
    <3> QED
      BY <2>1, <2>2, <2>3
  <2> QED
    BY <2>1, <2>4 DEF LastOf
<1>2. ASSUME NEW t \in Seq(T), \A h \in DOMAIN t : LayerKey(t[h]) \notin K
      PROVE  LastOf(t, K) = <<>>
  BY <1>2 DEF LastOf
<1>3. CASE /\ \A i \in 1..Len(s) : LayerKey(s[i]) \notin K
           /\ \A j \in DOMAIN kept : LayerKey(kept[j]) \notin K
  BY <1>0, <1>2, <1>3
<1>4. ASSUME NEW i \in 1..Len(s), NEW j \in DOMAIN kept,
             s[i] = kept[j], LayerKey(s[i]) \in K,
             \A h \in 1..Len(s) : LayerKey(s[h]) \in K => h <= i,
             \A h \in DOMAIN kept : LayerKey(kept[h]) \in K => h <= j
      PROVE  LastOf(kept, K) = LastOf(s, K)
  <2>1. LastOf(s, K) = <<s[i]>>
    BY <1>0, <1>1, <1>4
  <2>2. LastOf(kept, K) = <<kept[j]>>
    BY <1>1, <1>4
  <2> QED
    BY <1>4, <2>1, <2>2
<1> QED
  BY <1>3, <1>4 DEF SameLast

\* What a running build holds is the normal form of its own command line.
Normalized ==
  \A b \in Builds : Running(b) => /\ mem[b].cfg \in Configs
                                  /\ mem[b].layers = Normalize(mem[b].cfg.layers)

\* No step of a running build changes its command line.
LEMMA BuildKeepsConfig ==
  ASSUME Typed, NEW b \in Builds, BuildSteps(b) \/ BreakOff(b)
  PROVE  Running(b)' => mem'[b].cfg = mem[b].cfg
<1>0. Shape(mem[b]) /\ mem = [a \in Builds |-> mem[a]]
  BY DEF Typed
<1>1. ASSUME NEW to, NEW m, Goto(b, to, m), m.cfg = mem[b].cfg
      PROVE  Running(b)' => mem'[b].cfg = mem[b].cfg
  <2>1. pc'[b] = to /\ mem'[b] = IF to \in Stages THEN m ELSE Gone
    BY <1>0, <1>1 DEF Goto, Typed
  <2> QED
    BY <1>1, <2>1 DEF Running
<1>2. ASSUME NEW from, NEW to, Step(b, from, to)
      PROVE  Running(b)' => mem'[b].cfg = mem[b].cfg
  BY <1>1, <1>2 DEF Step
<1>3. CASE Hit(b)
  <2>1. [mem[b] EXCEPT !.loads = Loads(index[EntryOf(b)])].cfg = mem[b].cfg
    BY <1>0 DEF Shape
  <2> QED
    BY <1>1, <1>3, <2>1 DEF Hit
<1>4. CASE ExtractLayer(b)
  <2>1. [mem[b] EXCEPT !.done = @ + 1].cfg = mem[b].cfg
    BY <1>0 DEF Shape
  <2> QED
    BY <1>1, <1>4, <2>1 DEF ExtractLayer
<1>5. CASE ComposeImage(b)
  <2>1. [mem[b] EXCEPT !.img = Image(b)].cfg = mem[b].cfg
    BY <1>0 DEF Shape
  <2> QED
    BY <1>1, <1>5, <2>1 DEF ComposeImage
<1>6. CASE ReadIndex(b)
  <2>1. [mem[b] EXCEPT !.seen = index[mem[b].dir].images].cfg = mem[b].cfg
    BY <1>0 DEF Shape
  <2> QED
    BY <1>1, <1>6, <2>1 DEF ReadIndex
<1>7. CASE WriteIndex(b)
  <2>1. [mem[b] EXCEPT !.dir = Output].cfg = mem[b].cfg
    BY <1>0 DEF Shape
  <2> QED
    BY <1>1, <1>7, <2>1 DEF WriteIndex
<1>8. CASE BreakOff(b)
  <2>1. pc'[b] = "broken"
    BY <1>8 DEF BreakOff, Goto, Typed
  <2> QED
    BY <2>1 DEF Running, Stages, CopyStages
<1>9. CASE Miss(b)
  BY <1>2, <1>9 DEF Miss
<1>10. CASE CleanTarget(b)
  BY <1>2, <1>10 DEF CleanTarget
<1>11. CASE FromPath(b) \/ InitTruncate(b) \/ InitWrite(b)
  BY <1>1, <1>2, <1>11 DEF FromPath, InitTruncate, InitWrite
<1>12. CASE WriteBlobs(b)
  BY <1>2, <1>12 DEF WriteBlobs
<1>13. CASE TruncateIndex(b)
  BY <1>2, <1>13 DEF TruncateIndex
<1>14. CASE WriteTarball(b)
  BY <1>2, <1>14 DEF WriteTarball
<1>15. CASE CopiesBlobs(b)
  BY <1>1, <1>15, CopyMoves
<1>16. CASE RemoveIndex(b) \/ CopyIndex(b)
  BY <1>2, <1>16 DEF RemoveIndex, CopyIndex
<1> QED
  BY <1>3, <1>4, <1>5, <1>6, <1>7, <1>8, <1>9, <1>10, <1>11, <1>12, <1>13, <1>14, <1>15, <1>16
     DEF BuildSteps, CopiesBlobs

\* No build has an index in memory at the start.
LEMMA InitNormalized == Init => Normalized
  BY DEF Init, Normalized, Running, Stages, CopyStages

\* Every step keeps what builds hold normalized.
LEMMA NextNormalized ==
  ASSUME Typed, Normalized, [Next]_vars
  PROVE  Normalized'
<1>1. CASE UNCHANGED vars
  BY <1>1 DEF Normalized, vars, Running
<1>2. ASSUME NEW b \in Builds, NEW c \in Configs, Start(b, c)
      PROVE  Normalized'
  <2>1. mem'[b] = Fresh(c) /\ \A a \in Builds \ {b} : mem'[a] = mem[a] /\ pc'[a] = pc[a]
    BY <1>2, StartMoves, GotoMoves
  <2>2. Fresh(c).cfg = c /\ Fresh(c).layers = Normalize(c.layers)
    BY DEF Fresh
  <2> QED
    BY <2>1, <2>2 DEF Normalized, Running
<1>3. ASSUME NEW b \in Builds, BuildSteps(b) \/ BreakOff(b)
      PROVE  Normalized'
  <2>1. PICK to, m : Goto(b, to, m) /\ Shape(m) /\ m.layers = mem[b].layers /\ Running(b)
    BY <1>3, BuildMoves
  <2>2. /\ \A a \in Builds \ {b} : mem'[a] = mem[a] /\ pc'[a] = pc[a]
        /\ mem'[b] = IF to \in Stages THEN m ELSE Gone
        /\ pc'[b] = to
    BY <2>1, GotoMoves
  <2>3. Running(b)' => mem'[b].cfg = mem[b].cfg
    BY <1>3, BuildKeepsConfig
  <2>4. Running(b)' => mem'[b].layers = mem[b].layers
    BY <2>1, <2>2 DEF Running
  <2> QED
    BY <2>1, <2>2, <2>3, <2>4 DEF Normalized, Running
<1> QED
  BY <1>1, <1>2, <1>3 DEF Next

\* For any set of layers that hold a path, the last of them on the command line
\* is the last of them in the list that every build works through, for command
\* lines of any length.
THEOREM DeduplicationKeepsWinner == Spec => []SameWinner
<1>1. Init => Typed /\ Normalized
  BY InitTyped, InitNormalized
<1>2. Typed /\ Normalized /\ [Next]_vars => (Typed /\ Normalized)'
  BY NextTyped, NextNormalized
<1>3. Typed /\ Normalized => SameWinner
  <2> SUFFICES ASSUME Normalized, NEW b \in Builds, Running(b), mem[b].cfg.layers # <<>>, NEW K
               PROVE  LastOf(mem[b].layers, K) = LastOf(mem[b].cfg.layers, K)
    BY DEF SameWinner
  <2> DEFINE given == mem[b].cfg.layers
             T == [kind : {"image", "rootfs"}, name : STRING, digest : STRING]
  <2>1. mem[b].cfg \in Configs /\ mem[b].layers = DeduplicateLayers(given)
    BY DEF Normalized, Normalize
  <2>2. given \in Seq(T)
    BY <2>1, ConfigsAssumption
  <2> HIDE DEF T
  <2>3. DeduplicateLayers(given) \in Seq(T) /\ SameLast(given, 1..Len(given), DeduplicateLayers(given), K)
    BY <2>2, DeduplicateKeepsLast
  <2> QED
    BY <2>1, <2>2, <2>3, SameLastOf
<1> QED
  BY <1>1, <1>2, <1>3, PTL DEF Spec

----------------------------------------------------------------------------
(* Types.                                                                  *)

\* No build has extracted more layers than it has.
Within(m) == Len(m.layers) \in Nat /\ m.done <= Len(m.layers)
Marked == lost \subseteq Builds /\ mixed \subseteq Builds /\ upset \subseteq Builds
Measured == Marked /\ \A b \in Builds : Within(mem[b])

LEMMA GoneWithin == Within(Gone)
  BY DEF Within, Gone

\* A command line has finitely many layers, and begins with none of them.
LEMMA FreshWithin == ASSUME NEW c \in Configs PROVE Within(Fresh(c))
<1>1. ASSUME NEW T, NEW s \in Seq(T) PROVE Len(DeduplicateLayers(s)) \in Nat
  <2>1. DeduplicateLayers(s) \in Seq(T)
    BY DeduplicateKeepsLast
  <2> QED
    BY <2>1
<1>2. CASE c.layers = <<>>
  <2>1. <<DefaultLayer>> \in Seq({DefaultLayer})
    OBVIOUS
  <2> QED
    BY <1>1, <1>2, <2>1 DEF Normalize, Within, Fresh
<1>3. CASE c.layers # <<>>
  <2>1. c.layers \in Seq([kind : {"image", "rootfs"}, name : STRING, digest : STRING])
    BY ConfigsAssumption
  <2>2. Len(DeduplicateLayers(c.layers)) \in Nat
    BY <1>1, <2>1
  <2> QED
    BY <1>3, <2>2 DEF Normalize, Within, Fresh
<1> QED
  BY <1>2, <1>3

\* A build counts one layer when it extracts one, and there was one left.
LEMMA BuildCounts ==
  ASSUME Typed, Measured, NEW b \in Builds, BuildSteps(b) \/ BreakOff(b)
  PROVE  Within(mem'[b])
<1>0. Shape(mem[b]) /\ mem = [a \in Builds |-> mem[a]] /\ Within(mem[b])
  BY DEF Typed, Measured
<1>1. ASSUME NEW to, NEW m, Goto(b, to, m), m.done = mem[b].done, m.layers = mem[b].layers
      PROVE  Within(mem'[b])
  <2>1. mem'[b] = IF to \in Stages THEN m ELSE Gone
    BY <1>0, <1>1 DEF Goto
  <2> QED
    BY <1>0, <1>1, <2>1, GoneWithin DEF Within
<1>2. ASSUME NEW from, NEW to, Step(b, from, to)
      PROVE  Within(mem'[b])
  BY <1>1, <1>2 DEF Step
<1>3. CASE Hit(b)
  <2> DEFINE m == [mem[b] EXCEPT !.loads = Loads(index[EntryOf(b)])]
  <2>1. m.done = mem[b].done /\ m.layers = mem[b].layers
    BY <1>0 DEF Shape
  <2> QED
    BY <1>1, <1>3, <2>1 DEF Hit
<1>4. CASE ExtractLayer(b)
  <2> DEFINE m == [mem[b] EXCEPT !.done = @ + 1]
  <2>1. m.done = mem[b].done + 1 /\ m.layers = mem[b].layers
    BY <1>0 DEF Shape
  <2>2. mem'[b] = m
    BY <1>0, <1>4 DEF ExtractLayer, Goto, Stages
  <2>3. mem[b].done \in Nat /\ mem[b].done < Len(mem[b].layers)
    BY <1>0, <1>4 DEF ExtractLayer, Extracts, Shape
  <2> HIDE DEF m
  <2> QED
    BY <1>0, <2>1, <2>2, <2>3 DEF Within
<1>5. CASE ComposeImage(b)
  <2> DEFINE m == [mem[b] EXCEPT !.img = Image(b)]
  <2>1. m.done = mem[b].done /\ m.layers = mem[b].layers
    BY <1>0 DEF Shape
  <2> QED
    BY <1>1, <1>5, <2>1 DEF ComposeImage
<1>6. CASE ReadIndex(b)
  <2> DEFINE m == [mem[b] EXCEPT !.seen = index[mem[b].dir].images]
  <2>1. m.done = mem[b].done /\ m.layers = mem[b].layers
    BY <1>0 DEF Shape
  <2> QED
    BY <1>1, <1>6, <2>1 DEF ReadIndex
<1>7. CASE WriteIndex(b)
  <2> DEFINE m == [mem[b] EXCEPT !.dir = Output]
  <2>1. m.done = mem[b].done /\ m.layers = mem[b].layers
    BY <1>0 DEF Shape
  <2> QED
    BY <1>1, <1>7, <2>1 DEF WriteIndex
<1>8. CASE BreakOff(b)
  <2>1. mem'[b] = Gone
    BY <1>0, <1>8 DEF BreakOff, Goto
  <2> QED
    BY <2>1, GoneWithin
<1>9. CASE Miss(b)
  BY <1>2, <1>9 DEF Miss
<1>10. CASE CleanTarget(b)
  BY <1>2, <1>10 DEF CleanTarget
<1>11. CASE FromPath(b) \/ InitTruncate(b) \/ InitWrite(b)
  BY <1>1, <1>2, <1>11 DEF FromPath, InitTruncate, InitWrite
<1>12. CASE WriteBlobs(b)
  BY <1>2, <1>12 DEF WriteBlobs
<1>13. CASE TruncateIndex(b)
  BY <1>2, <1>13 DEF TruncateIndex
<1>14. CASE WriteTarball(b)
  BY <1>2, <1>14 DEF WriteTarball
<1>15. CASE CopiesBlobs(b)
  BY <1>1, <1>15, CopyMoves
<1>16. CASE RemoveIndex(b) \/ CopyIndex(b)
  BY <1>2, <1>16 DEF RemoveIndex, CopyIndex
<1> QED
  BY <1>3, <1>4, <1>5, <1>6, <1>7, <1>8, <1>9, <1>10, <1>11, <1>12, <1>13, <1>14, <1>15, <1>16
     DEF BuildSteps, CopiesBlobs

\* Only builds are marked.
LEMMA BuildMarks ==
  ASSUME Marked, NEW b \in Builds, BuildSteps(b) \/ BreakOff(b)
  PROVE  Marked'
<1>1. mixed' = mixed \/ Disturbs(b)
  BY DEF BuildSteps, Hit, Miss, CleanTarget, ExtractLayer, Extracts, ComposeImage, FromPath,
         InitTruncate, InitWrite, WriteBlobs, ReadIndex, TruncateIndex, WriteIndex, WriteTarball,
         ListBlobs, RemoveBlob, CopyBlob, RemoveIndex, CopyIndex, BreakOff, disk
<1>2. lost' \subseteq lost \/ (\E open \in SUBSET Builds : Removes(b, open))
  BY DEF BuildSteps, Hit, Miss, CleanTarget, ExtractLayer, Extracts, ComposeImage, FromPath,
         InitTruncate, InitWrite, WriteBlobs, ReadIndex, TruncateIndex, WriteIndex, WriteTarball,
         ListBlobs, RemoveBlob, CopyBlob, RemoveIndex, CopyIndex, BreakOff, WritesIndex, disk
<1>3. \/ upset' \subseteq upset \/ (\E open \in SUBSET Builds : Removes(b, open))
      \/ upset' = upset \union CopiesOf(mem[b].dir)
  BY DEF BuildSteps, Hit, Miss, CleanTarget, ExtractLayer, Extracts, ComposeImage, FromPath,
         InitTruncate, InitWrite, WriteBlobs, ReadIndex, TruncateIndex, WriteIndex, WriteTarball,
         ListBlobs, RemoveBlob, CopyBlob, RemoveIndex, CopyIndex, BreakOff, disk
<1> QED
  BY <1>1, <1>2, <1>3 DEF Marked, Disturbs, Removes, CopiesOf

LEMMA NextMeasured == Typed /\ Measured /\ [Next]_vars => Measured'
<1> SUFFICES ASSUME Typed, Measured, [Next]_vars PROVE Measured'
  OBVIOUS
<1>1. CASE UNCHANGED vars
  BY <1>1 DEF Measured, Marked, vars, disk
<1>2. ASSUME NEW b \in Builds, NEW c \in Configs, Start(b, c) PROVE Measured'
  <2>1. mem'[b] = Fresh(c) /\ \A a \in Builds \ {b} : mem'[a] = mem[a]
    BY <1>2, StartMoves, GotoMoves
  <2>2. UNCHANGED <<lost, mixed, upset>>
    BY <1>2 DEF Start, disk
  <2> QED
    BY <2>1, <2>2, FreshWithin DEF Measured, Marked
<1>3. ASSUME NEW b \in Builds, BuildSteps(b) \/ BreakOff(b) PROVE Measured'
  <2>1. \A a \in Builds \ {b} : mem'[a] = mem[a]
    BY <1>3, BuildMoves, GotoMoves
  <2>2. Within(mem'[b]) /\ Marked'
    BY <1>3, BuildCounts, BuildMarks DEF Measured
  <2> QED
    BY <2>1, <2>2 DEF Measured
<1> QED
  BY <1>1, <1>2, <1>3 DEF Next

\* Every variable of Builds keeps its type: no build works on a layer it has not,
\* or writes to a layout there is not.
THEOREM BuildsTypeOK == Spec => []TypeOK
<1>1. Init => Typed /\ Measured
  BY InitTyped, GoneWithin DEF Init, Measured, Marked
<1>2. Typed /\ Measured /\ [Next]_vars => (Typed /\ Measured)'
  BY NextTyped, NextMeasured
<1>3. Typed /\ Measured => TypeOK
  BY DEF Typed, Measured, Marked, Within, Shape, TypeOK
<1> QED
  BY <1>1, <1>2, <1>3, PTL DEF Spec
=============================================================================
