------------------------------- MODULE Extract -------------------------------
(***************************************************************************)
(* Building the rootfs from layers: Build and extractLayer of               *)
(* internal/rootfs/builder.go, copyDir of copy.go, and ExtractImage,        *)
(* extractTar and secureJoin of internal/oci/extract.go.                    *)
(*                                                                         *)
(* The tree under the target directory is a function from paths to nodes;   *)
(* one action handles one entry of a layer.  Links are what make it hard:   *)
(* earlier layers plant them, later ones write through them, and the        *)
(* kernel, which resolves them for the process that builds, takes absolute  *)
(* links and "..", not from the target directory but from the root of the   *)
(* running OS.                                                              *)
(*                                                                         *)
(* Simplifications: a file is the layer it comes from; device nodes and     *)
(* entries whose names climb out of the target as they stand (which are     *)
(* refused) are left out, and so is a read error half way through a layer.  *)
(* A target directory that was removed is as an empty one: the next entry   *)
(* makes it again.                                                          *)
(***************************************************************************)
EXTENDS Naturals, Sequences, SequencesExt

CONSTANTS
  Names,      \* the components of a path
  Layers,     \* the layers there are to choose from
  MaxLayers,  \* how many a build may have
  MaxLinks,   \* links followed before secureJoin gives up (255 in the code)
  MaxParts    \* components of a link's target (PATH_MAX bounds them)

VARIABLES
  n,        \* layers begun
  layer,    \* the one in hand
  todo,     \* its entries still to come
  base,     \* the tree when it was begun
  fs,       \* the tree now
  build,    \* "between" two layers, "in" one, or "failed"
  outside   \* has anything of the running OS been changed?

vars == <<n, layer, todo, base, fs, build, outside>>

Up == ".."
Here == "."

\* What a layer may hold.  Names of entries are cleaned, and refused where they climb,
\* before ".wh." is taken off: of ".wh.." it leaves ".", of ".wh..." it leaves "..".
\* Targets of links are any.
Paths == Seq(Names) \ {<<>>}
WhiteoutPaths ==
  {p \in Seq(Names \union {Here, Up}) : p # <<>> /\ Front(p) \in Seq(Names)}
Targets == {to \in Seq(Names \union {Up}) : Len(to) <= MaxParts}
EntryTypes ==
  [kind : {"whiteout"}, path : WhiteoutPaths]
  \union [kind : {"dir", "file"}, path : Paths]
  \union [kind : {"opaque"}, path : Seq(Names)]
  \union [kind : {"link"}, path : Paths, abs : BOOLEAN, to : Targets]
  \union [kind : {"hard"}, path : Paths, to : Seq(Names \union {Up})]

ASSUME NamesAssumption == Up \notin Names /\ Here \notin Names
\* Whiteouts and hard links are a tarball's.
ASSUME LayersAssumption ==
  \A l \in Layers :
    /\ l.kind \in {"tar", "directory"}
    /\ l.entries \in Seq(EntryTypes)
    /\ l.kind = "directory" =>
         \A k \in DOMAIN l.entries : l.entries[k].kind \in {"dir", "file", "link"}
ASSUME BoundsAssumption == MaxLayers \in Nat /\ MaxLinks \in Nat /\ MaxParts \in Nat

Dir == [kind |-> "dir"]
File(l) == [kind |-> "file", layer |-> l]
Link(abs, to) == [kind |-> "link", abs |-> abs, to |-> to]

Is(tree, p, kind) == p \in DOMAIN tree /\ tree[p].kind = kind
IsDir(tree, p) == p = <<>> \/ Is(tree, p, "dir")
Parents(p) == Prefixes(p) \ {<<>>, p}

Put(tree, p, node) == [q \in DOMAIN tree \union {p} |-> IF q = p THEN node ELSE tree[q]]
RemoveAll(tree, p) == Restrict(tree, {q \in DOMAIN tree : ~IsPrefix(p, q)})
ClearDir(tree, p) == Restrict(tree, {q \in DOMAIN tree : ~IsStrictPrefix(p, q)})

\* os.MkdirAll where no component is a link: a component that is no directory
\* stops it.
CanMkdir(tree, p) ==
  \A q \in Prefixes(p) \ {<<>>} : q \in DOMAIN tree => IsDir(tree, q)
MkdirAll(tree, p) ==
  [q \in DOMAIN tree \union (Prefixes(p) \ {<<>>}) |->
     IF q \in DOMAIN tree THEN tree[q] ELSE Dir]

----------------------------------------------------------------------------
(* Resolving a path.  A walk is at a path without links, has the rest       *)
(* before it and has followed so many links; it may have failed or left     *)
(* the target directory.                                                    *)

WalkFrom(p) == [at |-> <<>>, rest |-> p, links |-> 0, res |-> "inside"]
Finished(w) == w.rest = <<>> \/ w.res # "inside"

\* Mutant: the rest is cleaned as if it began at the root.
CleanPartRooted(abs, acc, part) ==
  IF part # Up THEN Append(acc, part) ELSE IF acc # <<>> THEN Front(acc) ELSE acc

\* filepath.Join cleans: a name before ".." goes, without regard to what it is.
CleanPart(abs, acc, part) ==
  IF part # Up THEN Append(acc, part)
  ELSE IF acc # <<>> /\ Last(acc) # Up THEN Front(acc)
  ELSE IF abs THEN acc ELSE Append(acc, Up)

Clean(abs, p) ==
  LET clean[k \in 0..Len(p)] ==
        IF k = 0 THEN <<>> ELSE CleanPart(abs, clean[k - 1], p[k])
  IN clean[Len(p)]

\* One component further: a name that is no link is taken, ".." stops at the root.
Ahead(w) == Append(w.at, Head(w.rest))
Enter(w) ==
  [w EXCEPT !.at = IF Head(w.rest) # Up THEN Ahead(w) ELSE IF @ = <<>> THEN @ ELSE Front(@),
            !.rest = Tail(@)]

\* Through a link, from its directory or from the root.
AtLink(tree, w) == Head(w.rest) # Up /\ Is(tree, Ahead(w), "link")
Follow(tree, w, rest) ==
  [w EXCEPT !.at = IF tree[Ahead(w)].abs THEN <<>> ELSE @, !.rest = rest, !.links = @ + 1]
Ends(w, how) == [w EXCEPT !.res = how]

\* One turn of secureJoin's loop: the target directory is the root, ".." stops
\* at it, and what does not exist is taken as it is.
SecureStep(tree, w) ==
  IF Finished(w) THEN w
  ELSE IF Head(w.rest) # Up /\ Is(tree, w.at, "file") THEN Ends(w, "failed")
  ELSE IF ~AtLink(tree, w) THEN Enter(w)
  ELSE IF w.links = MaxLinks THEN Ends(w, "failed")
  ELSE LET link == tree[Ahead(w)] IN
       Follow(tree, w, Clean(link.abs, link.to \o Tail(w.rest)))

\* What the kernel does with a path below the target directory; jailed, as it
\* will after the pivot, or not, as it does for the process that builds.
KernelStep(tree, w, jailed) ==
  IF Finished(w) THEN w
  ELSE IF ~IsDir(tree, w.at) THEN Ends(w, "failed")
  ELSE IF Head(w.rest) = Up /\ w.at = <<>> /\ ~jailed THEN Ends(w, "outside")
  ELSE IF ~AtLink(tree, w) THEN Enter(w)
  ELSE IF w.links = MaxLinks THEN Ends(w, "failed")
  ELSE IF tree[Ahead(w)].abs /\ ~jailed THEN Ends(w, "outside")
  ELSE Follow(tree, w, tree[Ahead(w)].to \o Tail(w.rest))

\* A turn for every component there is or a link brings.
Turns(p) == Len(p) + MaxParts * MaxLinks

SecureJoin(tree, p) ==
  LET walk[k \in 0..Turns(p)] ==
        IF k = 0 THEN WalkFrom(p) ELSE SecureStep(tree, walk[k - 1])
  IN walk[Turns(p)]

Kernel(tree, p, jailed) ==
  LET walk[k \in 0..Turns(p)] ==
        IF k = 0 THEN WalkFrom(p) ELSE KernelStep(tree, walk[k - 1], jailed)
  IN walk[Turns(p)]

----------------------------------------------------------------------------
(* Layers and their entries.  A layer of kind "tar" comes from an image or  *)
(* a tarball; one of kind "directory" is copied with the kernel's own       *)
(* resolution.                                                              *)

Entry == Head(todo)

\* Mutant: entries of a tarball are opened by their names.
ParentByName(e) == Kernel(fs, Front(e.path), FALSE)

ParentOf(e) ==
  IF layer.kind = "tar" THEN SecureJoin(fs, Front(e.path))
  ELSE Kernel(fs, Front(e.path), FALSE)

Target(e) == Append(ParentOf(e).at, Last(e.path))

\* Mutant: one layer too many.
BeginLayerOffByOne(l) ==
  /\ build = "between"
  /\ n <= MaxLayers
  /\ n' = n + 1 /\ layer' = l /\ todo' = l.entries /\ base' = fs /\ build' = "in"
  /\ UNCHANGED <<fs, outside>>

BeginLayer(l) ==
  /\ build = "between"
  /\ n < MaxLayers
  /\ n' = n + 1 /\ layer' = l /\ todo' = l.entries /\ base' = fs /\ build' = "in"
  /\ UNCHANGED <<fs, outside>>

EndLayer ==
  /\ build = "in" /\ todo = <<>>
  /\ build' = "between"
  /\ UNCHANGED <<n, layer, todo, base, fs, outside>>

At(kinds) == build = "in" /\ todo # <<>> /\ Entry.kind \in kinds

Becomes(tree) ==
  /\ fs' = tree /\ todo' = Tail(todo)
  /\ UNCHANGED <<n, layer, base, build, outside>>

\* Build returns the error; the tree stays as it is.
FailsWith(tree) ==
  /\ fs' = tree /\ build' = "failed"
  /\ UNCHANGED <<n, layer, todo, base, outside>>

Unresolved ==
  /\ At({"whiteout", "dir", "file", "link", "hard"})
  /\ ParentOf(Entry).res = "failed"
  /\ FailsWith(fs)

\* Only a directory's copy gets there: the entry is written into the running OS, or
\* is there already, or what it takes is not.
EntryOutside ==
  /\ At({"dir", "file", "link"})
  /\ ParentOf(Entry).res = "outside"
  /\ \/ todo' = Tail(todo) /\ outside' = TRUE /\ UNCHANGED build
     \/ Entry.kind = "dir" /\ todo' = Tail(todo) /\ UNCHANGED <<outside, build>>
     \/ build' = "failed" /\ UNCHANGED <<todo, outside>>
  /\ UNCHANGED <<n, layer, base, fs>>

\* filepath.Join of the parent and what ".wh." leaves of the name.
WhiteoutTarget(e) ==
  CASE Last(e.path) = Here -> ParentOf(e).at
    [] Last(e.path) = Up -> Front(ParentOf(e).at)
    [] OTHER -> Target(e)

ClimbsOut(e) == e.kind = "whiteout" /\ Last(e.path) = Up /\ ParentOf(e).at = <<>>

\* ".wh.<name>".  The target directory itself, if it is a mount, is emptied and stays.
Whiteout ==
  /\ At({"whiteout"}) /\ ~ClimbsOut(Entry)
  /\ ParentOf(Entry).res = "inside"
  /\ LET target == WhiteoutTarget(Entry) IN
       IF IsStrictPrefix(ParentOf(Entry).at, target) /\ Is(fs, ParentOf(Entry).at, "file")
       THEN FailsWith(fs)
       ELSE \/ Becomes(RemoveAll(fs, target))
            \/ target = <<>> /\ FailsWith(RemoveAll(fs, target))

\* ".wh..." at the top is the directory that holds the target directory.
WhiteoutAbove ==
  /\ At({"whiteout"}) /\ ClimbsOut(Entry)
  /\ ParentOf(Entry).res = "inside"
  /\ \/ outside' = TRUE /\ fs' = RemoveAll(fs, <<>>) /\ todo' = Tail(todo) /\ UNCHANGED build
     \/ /\ outside' \in {outside, TRUE} /\ fs' \in {fs, RemoveAll(fs, <<>>)}
        /\ build' = "failed" /\ UNCHANGED todo
  /\ UNCHANGED <<n, layer, base>>

\* Mutant: the marker is taken for the whiteout of a file named ".wh..opq".
OpaqueIsWhiteout ==
  /\ At({"opaque"})
  /\ Becomes(fs)

\* ".wh..wh..opq"; Entry.path is its directory.
Opaque ==
  /\ At({"opaque"})
  /\ LET dir == SecureJoin(fs, Entry.path) IN
       IF dir.res = "failed" \/ Is(fs, dir.at, "file") THEN FailsWith(fs)
       ELSE Becomes(ClearDir(fs, dir.at))

\* The entry's directory is made; a component that is no directory stops it.
Ready(kinds) ==
  At(kinds) /\ ParentOf(Entry).res = "inside" /\ CanMkdir(fs, ParentOf(Entry).at)
Made == MkdirAll(fs, ParentOf(Entry).at)

NotADirectory ==
  /\ At({"dir", "file", "link", "hard"})
  /\ ParentOf(Entry).res = "inside" /\ ~CanMkdir(fs, ParentOf(Entry).at)
  /\ FailsWith(fs)

\* MkdirAll, which leaves a directory alone, fails on a file, and where there is a
\* link looks at what the kernel finds behind it.  A tarball's entry then sets the
\* permission bits of what it found.
DirEntry ==
  /\ Ready({"dir"})
  /\ ~Is(fs, Target(Entry), "link")
  /\ IF Is(fs, Target(Entry), "file") THEN FailsWith(Made)
     ELSE Becomes(MkdirAll(fs, Target(Entry)))

DirOverLink ==
  /\ Ready({"dir"})
  /\ Is(fs, Target(Entry), "link")
  /\ LET found == Kernel(fs, Target(Entry), FALSE) IN
       \/ /\ found.res = "inside" /\ IsDir(fs, found.at)
          /\ Becomes(Made)
       \/ /\ found.res # "inside" \/ ~IsDir(fs, found.at)
          /\ FailsWith(Made)
       \/ /\ found.res = "outside"
          /\ outside' = (outside \/ layer.kind = "tar") /\ todo' = Tail(todo)
          /\ UNCHANGED <<n, layer, base, fs, build>>

\* A file or a link replaces whatever is there.
FileEntry ==
  /\ Ready({"file"})
  /\ Becomes(Put(RemoveAll(Made, Target(Entry)), Target(Entry), File(n)))

LinkEntry ==
  /\ Ready({"link"})
  /\ Becomes(Put(RemoveAll(Made, Target(Entry)), Target(Entry), Link(Entry.abs, Entry.to)))

\* A hard link to Entry.to, which is looked up after the old entry has gone.
HardLinkEntry ==
  /\ Ready({"hard"})
  /\ LET tree == RemoveAll(Made, Target(Entry))
         source == SecureJoin(tree, Entry.to)
     IN IF source.res = "inside" /\ Is(tree, source.at, "file")
        THEN Becomes(Put(tree, Target(Entry), tree[source.at]))
        ELSE FailsWith(tree)

----------------------------------------------------------------------------
(* Specification.                                                          *)

Init ==
  /\ n = 0 /\ layer = [kind |-> "none", entries |-> <<>>] /\ todo = <<>>
  /\ base = <<>> /\ fs = <<>>
  /\ build = "between" /\ outside = FALSE

Next ==
  \/ \E l \in Layers : BeginLayer(l)
  \/ EndLayer \/ Unresolved \/ EntryOutside \/ NotADirectory
  \/ Whiteout \/ WhiteoutAbove \/ Opaque \/ DirEntry \/ DirOverLink \/ FileEntry \/ LinkEntry
  \/ HardLinkEntry

Spec == Init /\ [][Next]_vars

----------------------------------------------------------------------------
(* Reference: the changeset of one layer over a tree, without its order     *)
(* but for entries of the same path.                                        *)

Content == {"file", "dir"}
Indices(es, kinds) == {k \in DOMAIN es : es[k].kind \in kinds}

Whited(es, p) ==
  \/ \E k \in Indices(es, {"whiteout"}) : IsPrefix(es[k].path, p)
  \/ \E k \in Indices(es, {"opaque"}) : IsStrictPrefix(es[k].path, p)

\* The last entry for p, 0 if there is none.
Own(es, p) == SelectLastInSeq(es, LAMBDA e : e.kind \in Content /\ e.path = p)

\* A file that comes after entry k in place of a directory above p.
Hidden(es, p, k) ==
  \E j \in Indices(es, {"file"}) : j > k /\ IsStrictPrefix(es[j].path, p)

LayerOver(tree, es, l) ==
  LET lower == {p \in DOMAIN tree : ~Whited(es, p) /\ ~Hidden(es, p, 0)}
      kept == {k \in Indices(es, Content) : ~Hidden(es, es[k].path, k)}
      own == {es[k].path : k \in kept}
      implied == UNION {Parents(p) : p \in own}
  IN [p \in lower \union own \union implied |->
        IF p \in own THEN IF es[Own(es, p)].kind = "file" THEN File(l) ELSE Dir
        ELSE IF p \in implied THEN Dir ELSE tree[p]]

\* Whiteouts come before the entries of their layer that they would cover.
WhiteoutsFirst(es) ==
  \A j, k \in DOMAIN es :
    j < k /\ es[j].kind \in Content => ~Whited(<<es[k]>>, es[j].path)

\* Every whiteout names an entry of its directory.
WhiteoutsNamed(es) ==
  \A k \in Indices(es, {"whiteout"}) : Last(es[k].path) \in Names

Linkless(tree) == \A p \in DOMAIN tree : tree[p].kind # "link"

\* In no link does ".." follow a name.
LeadingUps(tree) ==
  \A p \in DOMAIN tree : tree[p].kind = "link" =>
    \A k \in 2..Len(tree[p].to) : tree[p].to[k] = Up => tree[p].to[k - 1] = Up

----------------------------------------------------------------------------
(* Properties.                                                             *)

\* Types, and a tree at all times: what has a parent has a directory for one.
TypeOK ==
  /\ n \in 0..MaxLayers
  /\ build \in {"between", "in", "failed"}
  /\ outside \in BOOLEAN
  /\ \A p \in DOMAIN fs :
       /\ fs[p].kind \in {"dir", "file", "link"}
       /\ \A q \in Parents(p) : IsDir(fs, q)

\* A layer that was extracted has changed the tree as its changeset says: whited
\* out what earlier layers brought, kept what it does not mention, and its own
\* entries are there, whatever order they came in.
Flattens ==
  build = "between" /\ layer.kind = "tar" /\ Linkless(base)
    /\ Indices(layer.entries, {"link", "hard"}) = {}
    /\ WhiteoutsFirst(layer.entries) /\ WhiteoutsNamed(layer.entries)
  => fs = LayerOver(base, layer.entries, n)

\* secureJoin finds the directory that the pivoted system will find under that
\* name: what is written through a link lands where the link will lead.
ResolvesLikeKernel ==
  LeadingUps(fs) =>
    \A p \in {<<a>> : a \in Names} \union {<<a, b>> : a, b \in Names} :
      LET there == Kernel(fs, p, TRUE) IN
        there.res = "inside" /\ there.at \in DOMAIN fs \union {<<>>}
          => SecureJoin(fs, p).at = there.at

\* Two entries of a tarball can change the running OS, whatever links earlier layers
\* have left: a directory's, over a link, and a whiteout of ".." that secureJoin has
\* brought to the target directory itself.  No file, link, hard link, opaque marker or
\* other whiteout can.
OnlyDirectoriesReachOut ==
  [][outside' # outside =>
       layer.kind = "directory" \/ Entry.kind = "dir" \/ ClimbsOut(Entry)]_vars

=============================================================================
