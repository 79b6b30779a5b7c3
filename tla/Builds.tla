------------------------------- MODULE Builds -------------------------------
(***************************************************************************)
(* `xmorph build`: runBuild of internal/cli/build.go with its cache, its    *)
(* work directory and the OCI layouts it writes and copies.                 *)
(*                                                                         *)
(* Several builds may run at once (the cache-warming unit and an operator): *)
(* they share the work directory, the cache and the output directory, and   *)
(* nothing locks them.  A build may break off at any step, by an error or   *)
(* by a signal, and undoes nothing; the next build finds what it left.      *)
(*                                                                         *)
(* A layout is two things that are written apart: index.json, which lists   *)
(* images, and the blobs they are made of.  What go-containerregistry does  *)
(* to them is modelled from the calls: FromPath looks for an index,         *)
(* layout.Write writes one without images, AppendImage writes the blobs,    *)
(* then reads the index and writes it again in place.  A copy into the      *)
(* output removes each file and creates it anew: whoever has it open then   *)
(* writes to a file that has no name any more.                              *)
(*                                                                         *)
(* Simplifications: a layer that is extracted is one piece of the work      *)
(* directory (Extract has its entries); image configurations, compression   *)
(* and file modes are left out; every image has a digest of its own, for    *)
(* its tarball holds the times of the files.                                *)
(***************************************************************************)
EXTENDS Naturals, FiniteSets, Sequences, SequencesExt

CONSTANTS
  Configs,    \* the command lines there are
  MaxBuilds,  \* bound: how many builds are started
  MaxAtOnce   \* bound: how many of them run at the same time

VARIABLES
  pc,       \* pc[b]: the step build b has reached
  mem,      \* mem[b]: what its process holds; gone when it ends
  work,     \* the work directory: the pieces in it
  index,    \* index[d]: the index.json of layout d
  blobs,    \* blobs[d]: the images whose blobs are whole in d
  lost,     \* the builds whose open file in the output another one removed
  mixed,    \* history: the builds in whose work directory another one worked
  upset     \* the copies under way that another build got in the way of

disk == <<work, index, blobs, lost, mixed, upset>>
vars == <<pc, mem, disk>>

Builds == 1..MaxBuilds
CopyStages == {"copylist", "copyblobs", "copyfile", "copyindex"}
Stages == {"lookup", "clean", "extract", "open", "init", "initwrite", "blobs", "read",
           "truncate", "write", "tarball"} \union CopyStages
Running(b) == pc[b] \in Stages

\* Layers as the command line has them: the digest is that of a pinned image.
DefaultLayer == [kind |-> "image", name |-> "alpine", digest |-> "none"]

ASSUME MaxBuildsAssumption == MaxBuilds \in Nat \ {0}
ASSUME MaxAtOnceAssumption == MaxAtOnce \in Nat \ {0}
ASSUME ConfigsAssumption ==
  /\ Configs # {}
  /\ \A c \in Configs :
       /\ c.layers \in Seq([kind : {"image", "rootfs"}, name : STRING, digest : STRING])
       /\ {c.noCache, c.output, c.tarball} \subseteq BOOLEAN

----------------------------------------------------------------------------
(* Layers and their key.                                                   *)

\* What layers are compared by: NormalizeImageRef drops the digest, and the two
\* kinds are kept apart by a prefix.
LayerKey(l) == <<l.kind, l.name>>

\* Mutant: forwards over the list; the first occurrence stays.
DeduplicateForwards(s) ==
  FoldLeft(LAMBDA kept, l : IF \E i \in DOMAIN kept : LayerKey(kept[i]) = LayerKey(l)
                            THEN kept ELSE Append(kept, l),
           <<>>, s)

\* Backwards over the list; what has been seen already is dropped.
UnlessSeen(l, kept) ==
  IF \E i \in DOMAIN kept : LayerKey(kept[i]) = LayerKey(l) THEN kept ELSE <<l>> \o kept
DeduplicateLayers(s) == FoldRight(UnlessSeen, s, <<>>)

Normalize(s) == DeduplicateLayers(IF s = <<>> THEN <<DefaultLayer>> ELSE s)

ComputeCacheKey(s) == [i \in 1..Len(s) |-> LayerKey(s[i])]

\* The layouts: one cache entry per key, and the directory given with -o.
Entry(key) == [kind |-> "entry", key |-> key]
Output == [kind |-> "output", key |-> <<>>]
Keys == {ComputeCacheKey(Normalize(c.layers)) : c \in Configs}
Layouts == {Entry(key) : key \in Keys} \union {Output}
EntryOf(b) == Entry(ComputeCacheKey(mem[b].layers))

\* An index.json: "absent", "cut" (emptied and not yet, or never, written
\* again) or the list of its images.
NoIndex == [state |-> "absent", images |-> <<>>]
CutIndex == [state |-> "cut", images |-> <<>>]
Lists(images) == [state |-> "list", images |-> images]

\* LoadImage of a layout takes the first image its index lists.
Loads(ix) == ix.state = "list" /\ ix.images # <<>>
FirstImage(ix) == ix.images[1]

Piece(b, l) == [layer |-> l, by |-> b]
NoImage == [tree |-> <<>>, by |-> 0]
Image(b) == [tree |-> work, by |-> b]

----------------------------------------------------------------------------

\* What a process holds: its command line, the layers normalised, whether its
\* cache lookup met an index with an image, the layers extracted, the image
\* composed, the layout it is writing and the images it read from its index; and
\* of a copy the images still to be copied and the one whose file is open.
Fresh(c) == [cfg |-> c, layers |-> Normalize(c.layers), loads |-> FALSE, done |-> 0,
             img |-> NoImage, dir |-> Entry(ComputeCacheKey(Normalize(c.layers))), seen |-> <<>>,
             todo |-> {}, file |-> NoImage]
Gone == [cfg |-> [layers |-> <<>>, noCache |-> FALSE, output |-> FALSE, tarball |-> FALSE],
         layers |-> <<>>, loads |-> FALSE, done |-> 0,
         img |-> NoImage, dir |-> Output, seen |-> <<>>, todo |-> {}, file |-> NoImage]

Init ==
  /\ pc = [b \in Builds |-> "unborn"]
  /\ mem = [b \in Builds |-> Gone]
  /\ work = <<>>
  /\ index = [d \in Layouts |-> NoIndex]
  /\ blobs = [d \in Layouts |-> {}]
  /\ lost = {} /\ mixed = {} /\ upset = {}

\* From one step to the next, the process holding m; a process that ends holds
\* nothing.
Goto(b, to, m) ==
  /\ pc' = [pc EXCEPT ![b] = to]
  /\ mem' = [mem EXCEPT ![b] = IF to \in Stages THEN m ELSE Gone]
Step(b, from, to) == pc[b] = from /\ Goto(b, to, mem[b])

Start(b, c) ==
  /\ pc[b] = "unborn"
  /\ \A a \in Builds : a < b => pc[a] # "unborn"
  /\ Cardinality({a \in Builds : Running(a)}) < MaxAtOnce
  /\ Goto(b, "lookup", Fresh(c))
  /\ UNCHANGED disk

\* An index.json in the cache directory makes a hit, whatever it holds.
CacheHit(b) == index[EntryOf(b)].state # "absent"

Hit(b) ==
  /\ pc[b] = "lookup"
  /\ ~mem[b].cfg.noCache /\ CacheHit(b)
  /\ Goto(b, IF mem[b].cfg.output THEN "copylist" ELSE "ok",
          [mem[b] EXCEPT !.loads = Loads(index[EntryOf(b)])])
  /\ UNCHANGED disk

Miss(b) ==
  /\ Step(b, "lookup", "clean")
  /\ mem[b].cfg.noCache \/ ~CacheHit(b)
  /\ UNCHANGED disk

----------------------------------------------------------------------------
(* The work directory.                                                     *)

\* Builds whose rootfs is in the work directory and not yet read from it.
InWork(b) == pc[b] = "extract"
Disturbs(b) == mixed' = mixed \union {a \in Builds \ {b} : InWork(a)}

\* Mutant: the work directory is taken as it is.
CleanTargetKeeps(b) ==
  /\ Step(b, "clean", "extract")
  /\ Disturbs(b)
  /\ UNCHANGED <<work, index, blobs, lost, upset>>

CleanTarget(b) ==
  /\ Step(b, "clean", "extract")
  /\ work' = <<>>
  /\ Disturbs(b)
  /\ UNCHANGED <<index, blobs, lost, upset>>

\* One more layer on top of what is there.
Extracts(b) ==
  /\ mem[b].done < Len(mem[b].layers)
  /\ work' = Append(work, Piece(b, mem[b].layers[mem[b].done + 1]))
  /\ Disturbs(b)
  /\ UNCHANGED <<index, blobs>>

ExtractLayer(b) ==
  /\ pc[b] = "extract"
  /\ Extracts(b)
  /\ Goto(b, "extract", [mem[b] EXCEPT !.done = @ + 1])
  /\ UNCHANGED <<lost, upset>>

\* composeImage packs the work directory as it is.
ComposeImage(b) ==
  /\ pc[b] = "extract"
  /\ mem[b].done = Len(mem[b].layers)
  /\ Goto(b, "open", [mem[b] EXCEPT !.img = Image(b)])
  /\ UNCHANGED disk

----------------------------------------------------------------------------
(* WriteLayout, for the cache entry and then for the output.                *)

\* The copies out of layout d, if it is an entry.
CopiesOf(d) == {a \in Builds : pc[a] \in CopyStages /\ EntryOf(a) = d}

\* os.WriteFile on the index of the layout: the file is emptied, and then written,
\* unless it was removed in between.
Truncates(b) == index' = [index EXCEPT ![mem[b].dir] = CutIndex]
WritesIndex(b, images) ==
  /\ index' = IF b \in lost THEN index ELSE [index EXCEPT ![mem[b].dir] = Lists(images)]
  /\ lost' = lost \ {b}

\* layout.FromPath wants an index.json.
FromPath(b) ==
  /\ pc[b] = "open"
  /\ Goto(b, IF index[mem[b].dir].state = "absent" THEN "init" ELSE "blobs", mem[b])
  /\ UNCHANGED disk

\* Without one layout.Write makes one that lists nothing, whatever is there by now.
InitTruncate(b) ==
  /\ Step(b, "init", "initwrite")
  /\ Truncates(b)
  /\ upset' = upset \union CopiesOf(mem[b].dir)
  /\ UNCHANGED <<work, blobs, lost, mixed>>

InitWrite(b) ==
  /\ Step(b, "initwrite", "blobs")
  /\ WritesIndex(b, <<>>)
  /\ upset' = upset \union CopiesOf(mem[b].dir)
  /\ UNCHANGED <<work, blobs, mixed>>

\* Mutant: a layout that has an image is taken to have the layers already.
WriteBlobsOnce(b) ==
  /\ Step(b, "blobs", "read")
  /\ blobs' = [blobs EXCEPT ![mem[b].dir] = IF @ = {} THEN {mem[b].img} ELSE @]
  /\ UNCHANGED <<work, index, lost, mixed, upset>>

WriteBlobs(b) ==
  /\ Step(b, "blobs", "read")
  /\ blobs' = [blobs EXCEPT ![mem[b].dir] = @ \union {mem[b].img}]
  /\ UNCHANGED <<work, index, lost, mixed, upset>>

\* An index that was cut cannot be parsed: the build fails (BreakOff).
ReadIndex(b) ==
  /\ pc[b] = "read"
  /\ index[mem[b].dir].state = "list"
  /\ Goto(b, "truncate", [mem[b] EXCEPT !.seen = index[mem[b].dir].images])
  /\ UNCHANGED disk

TruncateIndex(b) ==
  /\ Step(b, "truncate", "write")
  /\ Truncates(b)
  /\ UNCHANGED <<work, blobs, lost, mixed, upset>>

\* What comes after a layout is written.
AfterLayout(b) ==
  IF mem[b].dir # Output /\ mem[b].cfg.output THEN "open"
  ELSE IF mem[b].cfg.tarball THEN "tarball" ELSE "ok"

WriteIndex(b) ==
  /\ pc[b] = "write"
  /\ WritesIndex(b, Append(mem[b].seen, mem[b].img))
  /\ Goto(b, AfterLayout(b), [mem[b] EXCEPT !.dir = Output])
  /\ UNCHANGED <<work, blobs, mixed, upset>>

\* --rootfs-output, from the work directory as it is by now; no other build
\* reads the file.
WriteTarball(b) == Step(b, "tarball", "ok") /\ UNCHANGED disk

----------------------------------------------------------------------------
(* copyLayoutDir on a hit: WalkDir comes to blobs/ before index.json, and   *)
(* copyFile removes what is there before it writes.                        *)

\* Mutant: an output that has blobs is taken to have them all.
ListBlobsOnce(b) ==
  /\ pc[b] = "copylist"
  /\ Goto(b, "copyblobs", [mem[b] EXCEPT !.todo = IF blobs[Output] = {} THEN blobs[EntryOf(b)]
                                                                       ELSE {}])
  /\ UNCHANGED disk

\* The directory is read once; a blob that is not whole yet is not listed for long.
ListBlobs(b) ==
  /\ pc[b] = "copylist"
  /\ Goto(b, "copyblobs", [mem[b] EXCEPT !.todo = blobs[EntryOf(b)]])
  /\ UNCHANGED disk

\* b removes a file of the output that some have open.
Removes(b, open) ==
  /\ lost' = lost \union (open \ {b})
  /\ upset' = upset \union {a \in Builds \ {b} : pc[a] \in CopyStages}

\* From here to its end the image is not whole.
RemoveBlob(b, im) ==
  /\ pc[b] = "copyblobs" /\ im \in mem[b].todo
  /\ Goto(b, "copyfile", [mem[b] EXCEPT !.file = im])
  /\ blobs' = [blobs EXCEPT ![Output] = @ \ {im}]
  /\ Removes(b, {a \in Builds : pc[a] = "copyfile" /\ mem[a].file = im})
  /\ UNCHANGED <<work, index, mixed>>

CopyBlob(b) ==
  /\ pc[b] = "copyfile"
  /\ Goto(b, "copyblobs", [mem[b] EXCEPT !.todo = @ \ {mem[b].file}, !.file = NoImage])
  /\ blobs' = IF b \in lost THEN blobs ELSE [blobs EXCEPT ![Output] = @ \union {mem[b].file}]
  /\ lost' = lost \ {b}
  /\ UNCHANGED <<work, index, mixed, upset>>

RemoveIndex(b) ==
  /\ Step(b, "copyblobs", "copyindex")
  /\ mem[b].todo = {}
  /\ index' = [index EXCEPT ![Output] = NoIndex]
  /\ Removes(b, {a \in Builds : \/ pc[a] = "copyindex"
                                \/ pc[a] \in {"write", "initwrite"} /\ mem[a].dir = Output})
  /\ UNCHANGED <<work, blobs, mixed>>

\* If it was removed before it was created, it is the other one's file.
CopyIndex(b) ==
  /\ Step(b, "copyindex", "ok")
  /\ \/ index' = [index EXCEPT ![Output] = index[EntryOf(b)]]
     \/ b \in lost /\ UNCHANGED index
  /\ lost' = lost \ {b} /\ upset' = upset \ {b}
  /\ UNCHANGED <<work, blobs, mixed>>

----------------------------------------------------------------------------

\* Anywhere: an error is returned or a signal kills the process.  A layer may
\* have been extracted, and the copy of the index may have been created.
BreakOff(b) ==
  /\ Running(b)
  /\ Goto(b, "broken", Gone)
  /\ lost' = lost \ {b} /\ upset' = upset \ {b}
  /\ \/ UNCHANGED <<work, index, blobs, mixed>>
     \/ pc[b] = "extract" /\ Extracts(b)
     \/ /\ pc[b] = "copyindex"
        /\ index' = [index EXCEPT ![Output] = CutIndex]
        /\ UNCHANGED <<work, blobs, mixed>>

BuildSteps(b) ==
  \/ Hit(b) \/ Miss(b)
  \/ CleanTarget(b) \/ ExtractLayer(b) \/ ComposeImage(b)
  \/ FromPath(b) \/ InitTruncate(b) \/ InitWrite(b)
  \/ WriteBlobs(b) \/ ReadIndex(b) \/ TruncateIndex(b) \/ WriteIndex(b)
  \/ WriteTarball(b)
  \/ ListBlobs(b) \/ (\E im \in mem[b].todo : RemoveBlob(b, im)) \/ CopyBlob(b)
  \/ RemoveIndex(b) \/ CopyIndex(b)

Next == \E b \in Builds : (\E c \in Configs : Start(b, c)) \/ BuildSteps(b) \/ BreakOff(b)

Spec == Init /\ [][Next]_vars

----------------------------------------------------------------------------
(* Properties.                                                             *)

TypeOK ==
  /\ pc \in [Builds -> Stages \union {"unborn", "ok", "broken"}]
  /\ DOMAIN mem = Builds
  /\ \A b \in Builds : mem[b].done <= Len(mem[b].layers) /\ mem[b].dir \in Layouts
  /\ DOMAIN index = Layouts /\ DOMAIN blobs = Layouts
  /\ lost \subseteq Builds /\ mixed \subseteq Builds /\ upset \subseteq Builds

\* What a cache entry lists can be loaded: whatever builds run at once, and
\* wherever they break off, the blobs of every image an entry's index.json
\* lists are in the entry (WriteLayout after AppendImage).
EntriesWhole ==
  \A key \in Keys :
    \A i \in DOMAIN index[Entry(key)].images :
      index[Entry(key)].images[i] \in blobs[Entry(key)]

\* A cache entry holds what its key says: an image in it is made of exactly the
\* layers the key was computed from, in their order, all extracted by the build
\* that wrote it (nothing a broken build left, nothing of another build), unless
\* another build worked in the work directory meanwhile.
IsOf(im, key) ==
  /\ ComputeCacheKey([i \in DOMAIN im.tree |-> im.tree[i].layer]) = key
  /\ \A i \in DOMAIN im.tree : im.tree[i].by = im.by
EntryIsItsKey ==
  \A key \in Keys :
    \A i \in DOMAIN index[Entry(key)].images :
      LET im == index[Entry(key)].images[i] IN im.by \in mixed \/ IsOf(im, key)

\* What a hit copies out can be used when it returns: if the entry listed an image
\* when it was found, and its index is not being rewritten or cut for good when it
\* is copied, then what a reader loads from the output is a whole image of the
\* layers asked for.  So it is while other builds append to the entry, and whatever
\* the output held before, the missing blobs and the cut index of a copy that broke
\* off included; but not when another copy into the output, or a late layout.Write
\* on the entry, came in between.
HitDelivers ==
  [][\A b \in Builds :
       /\ pc[b] = "copyindex" /\ pc'[b] = "ok"
       /\ mem[b].loads /\ index[EntryOf(b)].state = "list" /\ b \notin upset
       => LET ix == index'[Output] IN
            /\ Loads(ix)
            /\ FirstImage(ix) \in blobs'[Output]
            /\ FirstImage(ix).by \in mixed \/ IsOf(FirstImage(ix), ComputeCacheKey(mem[b].layers))]_vars

\* Dropping repeated layers does not change who wins: for any set of layers that
\* hold a path, the last of them on the command line is the last of them in the
\* list that is built (later layers win on file conflicts).
LastOf(s, K) ==
  LET at == {i \in DOMAIN s : LayerKey(s[i]) \in K}
  IN IF at = {} THEN <<>> ELSE <<s[CHOOSE i \in at : \A j \in at : j <= i]>>
SameWinner ==
  \A b \in Builds :
    LET given == mem[b].cfg.layers
    IN Running(b) /\ given # <<>> =>
         \A K \in SUBSET {LayerKey(given[i]) : i \in DOMAIN given} :
           LastOf(mem[b].layers, K) = LastOf(given, K)
=============================================================================
