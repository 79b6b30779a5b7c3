--------------------------- MODULE Extract_proofs ---------------------------
(***************************************************************************)
(* Proofs about the extraction of layers (Extract), for every set of names, *)
(* of layers and of links: secureJoin ends, stays inside, and finds what the *)
(* kernel of the pivoted system will find; a layer changes the tree as its  *)
(* changeset says.                                                         *)
(***************************************************************************)
EXTENDS Extract, WellFoundedInduction, TLAPS

----------------------------------------------------------------------------
(* Induction.                                                              *)

\* Induction over the naturals, for a set: a least number outside of it has a
\* predecessor in it.
LEMMA Induct ==
  ASSUME NEW S, 0 \in S, \A k \in Nat : k \in S => k + 1 \in S
  PROVE  Nat \subseteq S
<1> DEFINE R == OpToRel(<, Nat)
           T == Nat \ S
<1>1. IsWellFoundedOn(R, Nat)
  BY NatLessThanWellFounded
<1>2. \A x, y \in Nat : x < y => <<x, y>> \in R
  BY DEF OpToRel
<1> HIDE DEF R
<1>3. SUFFICES ASSUME T # {} PROVE FALSE
  OBVIOUS
<1>4. PICK x \in T : \A y \in T : ~ (<<y, x>> \in R)
  BY <1>1, <1>3, WFMin
<1>5. x # 0 /\ x \in Nat
  BY <1>4
<1>6. x - 1 \in T /\ x - 1 < x
  BY <1>4, <1>5
<1> QED
  BY <1>2, <1>4, <1>5, <1>6

\* A function of numbers that each step defines from the one before.
Iterates(f, T, first, G, m) ==
  f \in [0..m -> T] /\ f[0] = first /\ \A k \in 1..m : f[k] = G[<<k, f[k - 1]>>]

\* There is one.
LEMMA Iterate ==
  ASSUME NEW T, NEW first \in T, NEW G \in [Nat \X T -> T], NEW m \in Nat
  PROVE  \E f : Iterates(f, T, first, G, m)
<1> DEFINE Runs(f, j) == Iterates(f, T, first, G, j)
           S == {j \in Nat : \E f : Runs(f, j)}
<1>1. 0 \in S
  <2>1. Runs([k \in 0..0 |-> first], 0)
    BY DEF Iterates
  <2> QED
    BY <2>1, Zenon
<1>2. ASSUME NEW j \in Nat, j \in S PROVE j + 1 \in S
  <2>1. PICK f : Runs(f, j)
    BY <1>2, Zenon
  <2> DEFINE g == [k \in 0..j + 1 |-> IF k <= j THEN f[k] ELSE G[<<j + 1, f[j]>>]]
  <2>2. f[j] \in T /\ G[<<j + 1, f[j]>>] \in T
    BY <2>1 DEF Iterates
  <2>3. g \in [0..j + 1 -> T]
    BY <2>1, <2>2 DEF Iterates
  <2>4. g[0] = first
    BY <2>1 DEF Iterates
  <2>5. ASSUME NEW k \in 1..j + 1 PROVE g[k] = G[<<k, g[k - 1]>>]
    <3>1. k - 1 \in 0..j /\ g[k - 1] = f[k - 1]
      OBVIOUS
    <3>2. CASE k <= j
      BY <2>1, <3>1, <3>2 DEF Iterates
    <3>3. CASE k = j + 1
      BY <3>1, <3>3
    <3> QED
      BY <3>2, <3>3
  <2> HIDE DEF g
  <2>6. Runs(g, j + 1)
    BY <2>3, <2>4, <2>5 DEF Iterates
  <2>7. j + 1 \in Nat
    OBVIOUS
  <2> QED
    BY <2>6, <2>7, Zenon
<1> HIDE DEF S
<1>3. m \in S
  BY <1>1, <1>2, Induct
<1> QED
  BY <1>3, Zenon DEF S

\* What steps in that way stays among the values the steps are for.
LEMMA Iterated ==
  ASSUME NEW T, NEW first \in T, NEW G \in [Nat \X T -> T], NEW m \in Nat, NEW f,
         f = [k \in 0..m |-> f[k]], f[0] = first,
         \A k \in 1..m : f[k - 1] \in T => f[k] = G[<<k, f[k - 1]>>]
  PROVE  Iterates(f, T, first, G, m)
<1> DEFINE S == {k \in Nat : k <= m => f[k] \in T}
<1>1. 0 \in S
  OBVIOUS
<1>2. ASSUME NEW k \in Nat, k \in S PROVE k + 1 \in S
  <2> SUFFICES ASSUME k + 1 <= m PROVE f[k + 1] \in T
    OBVIOUS
  <2>1. f[k] \in T /\ k + 1 \in 1..m /\ k + 1 - 1 = k /\ k + 1 \in Nat
    BY <1>2
  <2>2. f[k + 1] = G[<<k + 1, f[k]>>]
    <3>1. PICK j \in 1..m : j = k + 1
      BY <2>1
    <3>2. j - 1 = k
      BY <3>1
    <3>3. f[j - 1] \in T => f[j] = G[<<j, f[j - 1]>>]
      BY Zenon
    <3> QED
      BY <2>1, <3>1, <3>2, <3>3, Zenon
  <2>3. <<k + 1, f[k]>> \in Nat \X T
    BY <2>1
  <2> QED
    BY <2>2, <2>3
<1> HIDE DEF S
<1>3. Nat \subseteq S
  BY <1>1, <1>2, Induct
<1>4. \A k \in 0..m : f[k] \in T
  BY <1>3 DEF S
<1>5. f \in [0..m -> T]
  BY <1>4
<1>6. ASSUME NEW k \in 1..m PROVE f[k] = G[<<k, f[k - 1]>>]
  <2>1. f[k - 1] \in T
    BY <1>4
  <2> QED
    BY <2>1
<1> QED
  BY <1>5, <1>6 DEF Iterates

----------------------------------------------------------------------------
(* Paths.                                                                  *)

\* A path is the names on it; what is left of a path on a walk may climb as well.
Path == Seq(Names)
Part == Names \union {Up}
Rest == Seq(Part)

\* What is left of a path has a length.
LEMMA LengthIn == ASSUME NEW r \in Rest PROVE Len(r) \in Nat
BY DEF Rest

\* A sequence is what precedes its last member, and that member.
LEMMA FrontAndLast ==
  ASSUME NEW S, NEW s \in Seq(S), s # <<>>
  PROVE  /\ Front(s) \in Seq(S) /\ Last(s) \in S
         /\ Len(Front(s)) = Len(s) - 1 /\ Append(Front(s), Last(s)) = s
         /\ \A k \in 1..Len(s) - 1 : Front(s)[k] = s[k]
<1>1. Len(s) \in Nat \ {0}
  OBVIOUS
<1>2. /\ Front(s) \in Seq(S) /\ Len(Front(s)) = Len(s) - 1
      /\ \A k \in 1..Len(s) - 1 : Front(s)[k] = s[k]
  <2>1. PICK j \in Nat : j = Len(s) - 1
    BY <1>1
  <2>2. /\ SubSeq(s, 1, j) \in Seq(S) /\ Len(SubSeq(s, 1, j)) = j
        /\ \A k \in 1..j : SubSeq(s, 1, j)[k] = s[k]
    BY <1>1, <2>1
  <2> QED
    BY <2>1, <2>2 DEF Front
<1>3. Last(s) \in S
  BY <1>1 DEF Last
<1> DEFINE t == Append(Front(s), Last(s))
<1>4. t \in Seq(S) /\ Len(t) = Len(s) /\ \A k \in 1..Len(s) : t[k] = s[k]
  <2>1. t \in Seq(S) /\ Len(t) = Len(s) /\ t[Len(s)] = s[Len(s)]
    BY <1>1, <1>2, <1>3 DEF Last
  <2>2. ASSUME NEW k \in 1..Len(s) - 1 PROVE t[k] = s[k]
    BY <1>1, <1>2, <1>3
  <2> QED
    BY <1>1, <2>1, <2>2
<1> HIDE DEF t
<1>5. t = s
  BY <1>4
<1> QED
  BY <1>2, <1>3, <1>5 DEF t

\* The other end of it.
LEMMA HeadAndTail ==
  ASSUME NEW S, NEW s \in Seq(S), s # <<>>
  PROVE  /\ Head(s) \in S /\ Tail(s) \in Seq(S)
         /\ Head(s) = s[1] /\ Len(Tail(s)) = Len(s) - 1 /\ Len(s) \in Nat \ {0}
         /\ \A k \in 1..Len(s) - 1 : Tail(s)[k] = s[k + 1]
<1>1. Len(s) \in Nat \ {0}
  OBVIOUS
<1> QED
  BY <1>1

\* One sequence after another.
LEMMA Concat ==
  ASSUME NEW S, NEW s \in Seq(S), NEW t \in Seq(S)
  PROVE  /\ s \o t \in Seq(S) /\ Len(s \o t) = Len(s) + Len(t)
         /\ \A k \in 1..Len(s) : (s \o t)[k] = s[k]
         /\ \A k \in 1..Len(t) : (s \o t)[Len(s) + k] = t[k]
  OBVIOUS

----------------------------------------------------------------------------
(* Cleaning.                                                               *)

\* What Clean computes, a component at a time.
Cleans(abs, p, f) ==
  /\ f \in [0..Len(p) -> Rest]
  /\ f[0] = <<>> /\ \A k \in 1..Len(p) : f[k] = CleanPart(abs, f[k - 1], p[k])

\* One component is added at most.
LEMMA CleanPartIn ==
  ASSUME NEW abs, NEW acc \in Rest, NEW part \in Part
  PROVE  CleanPart(abs, acc, part) \in Rest /\ Len(CleanPart(abs, acc, part)) <= Len(acc) + 1
<1>1. Append(acc, part) \in Rest /\ Len(Append(acc, part)) = Len(acc) + 1 /\ Len(acc) \in Nat
  BY DEF Rest
<1>2. acc # <<>> => Front(acc) \in Rest /\ Len(Front(acc)) = Len(acc) - 1
  BY FrontAndLast, Zenon DEF Rest
<1>3. CASE part # Up
  BY <1>1, <1>3 DEF CleanPart
<1>4. CASE part = Up /\ acc # <<>> /\ Last(acc) # Up
  BY <1>1, <1>2, <1>4 DEF CleanPart
<1>5. CASE part = Up /\ ~(acc # <<>> /\ Last(acc) # Up)
  BY <1>1, <1>5, Append(acc, Up) = Append(acc, part) DEF CleanPart
<1> QED
  BY <1>3, <1>4, <1>5

\* Clean is computed in that way.
LEMMA CleanIs ==
  ASSUME NEW abs, NEW p \in Rest
  PROVE  \E f : Cleans(abs, p, f) /\ Clean(abs, p) = f[Len(p)]
<1> DEFINE Fits(f) == f = [k \in 0..Len(p) |->
                           IF k = 0 THEN <<>> ELSE CleanPart(abs, f[k - 1], p[k])]
           G == [x \in Nat \X Rest |->
                   IF x[1] \in 1..Len(p) THEN CleanPart(abs, x[2], p[x[1]]) ELSE <<>>]
           g == CHOOSE f : Fits(f)
<1>0. Len(p) \in Nat /\ <<>> \in Rest /\ \A k \in 1..Len(p) : p[k] \in Part
  BY DEF Rest
<1>1. G \in [Nat \X Rest -> Rest]
  <2>1. ASSUME NEW k \in Nat, NEW acc \in Rest, k \in 1..Len(p)
        PROVE  CleanPart(abs, acc, p[k]) \in Rest
    BY <1>0, <2>1, CleanPartIn
  <2> QED
    BY <1>0, <2>1
<1>2. PICK f : Iterates(f, Rest, <<>>, G, Len(p))
  <2> HIDE DEF G
  <2> QED
    BY <1>0, <1>1, Iterate
<1>3. \A k \in 1..Len(p) : f[k] = CleanPart(abs, f[k - 1], p[k])
  <2> TAKE k \in 1..Len(p)
  <2>1. k \in Nat /\ f[k - 1] \in Rest
    BY <1>0, <1>2 DEF Iterates
  <2>2. G[<<k, f[k - 1]>>] = CleanPart(abs, f[k - 1], p[k])
    BY <2>1
  <2> QED
    BY <1>2, <2>2 DEF Iterates
<1>4. Fits(f)
  <2>1. f = [k \in 0..Len(p) |-> f[k]]
    BY <1>2 DEF Iterates
  <2>2. \A k \in 0..Len(p) : f[k] = IF k = 0 THEN <<>> ELSE CleanPart(abs, f[k - 1], p[k])
    BY <1>0, <1>2, <1>3 DEF Iterates
  <2> QED
    BY <2>1, <2>2
<1>5. Fits(g)
  <2> HIDE DEF Fits
  <2> QED
    BY <1>4
<1>6. Clean(abs, p) = g[Len(p)]
  BY DEF Clean
<1>7. g = [k \in 0..Len(p) |-> g[k]] /\ g[0] = <<>>
      /\ \A k \in 1..Len(p) : g[k] = CleanPart(abs, g[k - 1], p[k])
  <2> HIDE DEF g
  <2> QED
    BY <1>0, <1>5
<1> HIDE DEF g
<1>8. ASSUME NEW k \in 1..Len(p), g[k - 1] \in Rest PROVE g[k] = G[<<k, g[k - 1]>>]
  <2>1. k \in Nat /\ G[<<k, g[k - 1]>>] = CleanPart(abs, g[k - 1], p[k])
    BY <1>8
  <2> QED
    BY <1>7, <2>1
<1> HIDE DEF G
<1>9. Iterates(g, Rest, <<>>, G, Len(p))
  BY <1>0, <1>1, <1>7, <1>8, Iterated
<1> QED
  BY <1>6, <1>7, <1>9 DEF Cleans, Iterates

\* What is cleaned is a path still, and no longer than it was.
LEMMA CleanBounded ==
  ASSUME NEW abs, NEW p \in Rest
  PROVE  Clean(abs, p) \in Rest /\ Len(Clean(abs, p)) <= Len(p)
<1>1. PICK f : Cleans(abs, p, f) /\ Clean(abs, p) = f[Len(p)]
  BY CleanIs
<1> DEFINE S == {k \in Nat : k <= Len(p) => Len(f[k]) <= k}
<1>2. Len(p) \in Nat /\ \A k \in 1..Len(p) : p[k] \in Part
  BY DEF Rest
<1>3. 0 \in S
  BY <1>1 DEF Cleans
<1>4. ASSUME NEW k \in Nat, k \in S PROVE k + 1 \in S
  <2> SUFFICES ASSUME k + 1 <= Len(p) PROVE Len(f[k + 1]) <= k + 1
    OBVIOUS
  <2>1. f[k] \in Rest /\ Len(f[k]) <= k /\ p[k + 1] \in Part /\ k + 1 \in 1..Len(p) /\ k + 1 - 1 = k
    BY <1>1, <1>2, <1>4 DEF Cleans
  <2>2. f[k + 1] = CleanPart(abs, f[k], p[k + 1])
    BY <1>1, <2>1 DEF Cleans
  <2>3. Len(f[k]) \in Nat /\ Len(f[k + 1]) <= Len(f[k]) + 1 /\ f[k + 1] \in Rest
    BY <2>1, <2>2, CleanPartIn DEF Rest
  <2>4. Len(f[k + 1]) \in Nat
    BY <2>3 DEF Rest
  <2> QED
    BY <2>1, <2>3, <2>4
<1> HIDE DEF S
<1>5. Len(p) \in S
  BY <1>2, <1>3, <1>4, Induct
<1> QED
  BY <1>1, <1>2, <1>5 DEF S, Cleans

----------------------------------------------------------------------------
(* Trees and walks.                                                        *)

\* What a tree has at its paths.
Nodes ==
  {Dir} \union {File(l) : l \in Nat} \union {Link(abs, to) : abs \in BOOLEAN, to \in Targets}
IsTree(tree) == DOMAIN tree \subseteq Paths /\ tree \in [DOMAIN tree -> Nodes]

\* A node is a directory, a file or a link, by its kind.
LEMMA NodeIs ==
  ASSUME NEW node \in Nodes
  PROVE  /\ node.kind \in {"dir", "file", "link"}
         /\ node.kind = "dir" => node = Dir
         /\ node.kind = "file" => \E l \in Nat : node = File(l)
         /\ node.kind = "link" => node.abs \in BOOLEAN /\ node.to \in Targets
BY DEF Nodes, Dir, File, Link

\* What a tree has at one of its paths.
LEMMA TreeIs ==
  ASSUME NEW tree, IsTree(tree), NEW p \in DOMAIN tree
  PROVE  p \in Path /\ p # <<>> /\ tree[p] \in Nodes
BY DEF IsTree, Paths, Path

Walks == [at : Path, rest : Rest, links : 0..MaxLinks, res : {"inside", "failed", "outside"}]

\* Where a walk goes next.
LEMMA AheadIn ==
  ASSUME NEW w \in Walks, w.rest # <<>>, Head(w.rest) # Up
  PROVE  Ahead(w) \in Path /\ Ahead(w) # <<>> /\ Ahead(w) = Append(w.at, Head(w.rest))
         /\ Len(Ahead(w)) = Len(w.at) + 1
<1>1. w.at \in Path /\ w.rest \in Rest
  BY DEF Walks
<1>2. Head(w.rest) \in Names
  BY <1>1, HeadAndTail DEF Rest, Part
<1>3. Append(w.at, Head(w.rest)) \in Path /\ Len(Append(w.at, Head(w.rest))) = Len(w.at) + 1
      /\ Len(w.at) \in Nat
  BY <1>1, <1>2 DEF Path
<1> QED
  BY <1>3 DEF Ahead

\* A walk that goes one component further.
LEMMA EnterIs ==
  ASSUME NEW w \in Walks, w.rest # <<>>
  PROVE  /\ Enter(w) \in Walks
         /\ Enter(w).rest = Tail(w.rest) /\ Enter(w).links = w.links /\ Enter(w).res = w.res
         /\ Enter(w).at = IF Head(w.rest) # Up THEN Ahead(w)
                          ELSE IF w.at = <<>> THEN w.at ELSE Front(w.at)
<1> DEFINE at == IF Head(w.rest) # Up THEN Ahead(w)
                 ELSE IF w.at = <<>> THEN w.at ELSE Front(w.at)
           rest == Tail(w.rest)
<1>1. w.at \in Path /\ w.rest \in Rest
  BY DEF Walks
<1>2. rest \in Rest
  BY <1>1, HeadAndTail DEF Rest
<1>3. at \in Path
  <2>1. Head(w.rest) # Up => Ahead(w) \in Path
    BY AheadIn
  <2>2. w.at # <<>> => Front(w.at) \in Path
    BY <1>1, FrontAndLast DEF Path
  <2> QED
    BY <1>1, <2>1, <2>2
<1>4. Enter(w) = [w EXCEPT !.at = at, !.rest = rest]
  BY DEF Enter
<1> HIDE DEF at, rest
<1>5. /\ Enter(w) \in Walks
      /\ Enter(w).rest = rest /\ Enter(w).links = w.links /\ Enter(w).res = w.res
      /\ Enter(w).at = at
  BY <1>2, <1>3, <1>4 DEF Walks
<1> QED
  BY <1>5 DEF at, rest

\* A link that a walk meets is one of the tree's.
LEMMA LinkAhead ==
  ASSUME NEW tree, IsTree(tree), NEW w \in Walks, w.rest # <<>>, AtLink(tree, w)
  PROVE  /\ Head(w.rest) \in Names /\ Ahead(w) \in DOMAIN tree /\ tree[Ahead(w)].kind = "link"
         /\ tree[Ahead(w)].abs \in BOOLEAN /\ tree[Ahead(w)].to \in Rest
         /\ Len(tree[Ahead(w)].to) <= MaxParts
<1>1. Head(w.rest) # Up /\ Ahead(w) \in DOMAIN tree /\ tree[Ahead(w)].kind = "link"
  BY DEF AtLink, Is
<1>2. Head(w.rest) \in Names
  BY <1>1, HeadAndTail DEF Walks, Rest, Part
<1>3. tree[Ahead(w)] \in Nodes
  BY <1>1, TreeIs
<1>4. tree[Ahead(w)].abs \in BOOLEAN /\ tree[Ahead(w)].to \in Targets
  BY <1>1, <1>3, NodeIs
<1> QED
  BY <1>1, <1>2, <1>4 DEF Targets, Rest, Part

\* A walk that follows a link has counted it, and has the rest it was given.
LEMMA FollowIn ==
  ASSUME NEW tree, NEW w \in Walks, w.links # MaxLinks, NEW rest \in Rest
  PROVE  /\ Follow(tree, w, rest) \in Walks
         /\ Follow(tree, w, rest).rest = rest
         /\ Follow(tree, w, rest).links = w.links + 1
         /\ Follow(tree, w, rest).res = w.res
<1> DEFINE at == IF tree[Ahead(w)].abs THEN <<>> ELSE w.at
<1>1. at \in Path
  BY DEF Walks, Path
<1>2. w.links + 1 \in 0..MaxLinks
  BY BoundsAssumption DEF Walks
<1>3. Follow(tree, w, rest) = [w EXCEPT !.at = at, !.rest = rest, !.links = w.links + 1]
  BY DEF Follow
<1> HIDE DEF at
<1> QED
  BY <1>1, <1>2, <1>3 DEF Walks

\* It goes on at the root if the link is absolute, else where it was.
LEMMA FollowAt ==
  ASSUME NEW tree, NEW w \in Walks, NEW rest
  PROVE  Follow(tree, w, rest).at = IF tree[Ahead(w)].abs THEN <<>> ELSE w.at
BY DEF Follow, Walks

\* A walk that ends has that result.
LEMMA EndsIs ==
  ASSUME NEW w \in Walks, NEW how \in {"failed", "outside"}
  PROVE  Ends(w, how) \in Walks /\ Ends(w, how).res = how
BY DEF Ends, Walks

\* How many turns a walk may take still.
Budget(w) == Len(w.rest) + MaxParts * (MaxLinks - w.links)

\* Arithmetic of budgets: a link that is followed costs more than it brings.
LEMMA Less ==
  ASSUME NEW a \in Nat, NEW b \in Nat, NEW y \in Nat, NEW m \in Nat, a <= b - 1 + m
  PROVE  a + y < b + (y + m)
OBVIOUS

\* What a link brings at most.
LEMMA Longer ==
  ASSUME NEW a \in Nat, NEW b \in Nat, NEW c \in Nat, NEW m \in Nat, c <= m,
         NEW r \in Nat, r = b - 1, a <= c + r
  PROVE  a <= b - 1 + m
OBVIOUS

\* A turn that is not the last one leaves fewer to come.
LEMMA BudgetFalls ==
  ASSUME NEW w \in Walks, NEW v \in Walks, w.rest # <<>>,
         \/ v.rest = Tail(w.rest) /\ v.links = w.links
         \/ Len(v.rest) <= Len(w.rest) - 1 + MaxParts /\ v.links = w.links + 1
  PROVE  Budget(v) < Budget(w)
<1>1. /\ w.links \in 0..MaxLinks /\ v.links \in 0..MaxLinks /\ w.rest \in Rest /\ v.rest \in Rest
      /\ MaxLinks \in Nat /\ MaxParts \in Nat
  BY BoundsAssumption DEF Walks
<1>2. Len(w.rest) \in Nat \ {0} /\ Len(v.rest) \in Nat /\ Len(Tail(w.rest)) = Len(w.rest) - 1
  BY <1>1, HeadAndTail DEF Rest
<1>3. CASE v.rest = Tail(w.rest) /\ v.links = w.links
  <2>1. PICK x \in Int : x = MaxParts * (MaxLinks - w.links)
    BY <1>1
  <2> QED
    BY <1>2, <1>3, <2>1 DEF Budget
<1>4. CASE Len(v.rest) <= Len(w.rest) - 1 + MaxParts /\ v.links = w.links + 1
  <2>1. PICK x \in Nat : x = MaxLinks - v.links
    BY <1>1
  <2>2. MaxLinks - w.links = x + 1
    BY <1>1, <1>4, <2>1
  <2>3. PICK y \in Nat : y = MaxParts * x
    BY <1>1
  <2>4. MaxParts * (x + 1) = y + MaxParts
    BY <1>1, <2>3
  <2>5. Budget(v) = Len(v.rest) + y /\ Budget(w) = Len(w.rest) + (y + MaxParts)
    BY <2>1, <2>2, <2>3, <2>4, Zenon DEF Budget
  <2>6. y \in Nat /\ MaxParts \in Nat /\ Len(w.rest) \in Nat /\ Len(v.rest) \in Nat
    BY <1>1, <1>2, <2>3
  <2>7. Len(v.rest) <= Len(w.rest) - 1 + MaxParts
    BY <1>4
  <2>8. Len(v.rest) + y < Len(w.rest) + (y + MaxParts)
    BY <2>6, <2>7, Less, Zenon
  <2> QED
    BY <2>5, <2>8, Zenon
<1> QED
  BY <1>3, <1>4

----------------------------------------------------------------------------
(* The turns of a walk.                                                    *)

\* A turn of secureJoin leaves a walk that has not left the target directory and has fewer
\* turns to come.
LEMMA SecureStepIn ==
  ASSUME NEW tree, IsTree(tree), NEW w \in Walks, w.res # "outside"
  PROVE  /\ SecureStep(tree, w) \in Walks /\ SecureStep(tree, w).res # "outside"
         /\ Finished(w) => SecureStep(tree, w) = w
         /\ Finished(SecureStep(tree, w)) \/ Budget(SecureStep(tree, w)) < Budget(w)
<1> DEFINE v == SecureStep(tree, w)
<1>1. CASE Finished(w)
  <2>1. v = w
    BY <1>1 DEF SecureStep
  <2> QED
    BY <1>1, <2>1
<1>2. CASE ~Finished(w) /\ Head(w.rest) # Up /\ Is(tree, w.at, "file")
  <2>1. v = Ends(w, "failed")
    BY <1>2 DEF SecureStep
  <2> HIDE DEF v
  <2>2. v \in Walks /\ v.res = "failed"
    BY <2>1, EndsIs
  <2> QED
    BY <1>2, <2>2 DEF Finished, v
<1>3. CASE ~Finished(w) /\ ~(Head(w.rest) # Up /\ Is(tree, w.at, "file")) /\ ~AtLink(tree, w)
  <2>1. v = Enter(w) /\ w.rest # <<>>
    BY <1>3 DEF SecureStep, Finished
  <2>2. v \in Walks /\ v.res = w.res /\ v.rest = Tail(w.rest) /\ v.links = w.links
    BY <2>1, EnterIs
  <2>3. Budget(v) < Budget(w)
    BY <2>1, <2>2, BudgetFalls
  <2> HIDE DEF v
  <2> QED
    BY <1>3, <2>2, <2>3 DEF v
<1>4. CASE /\ ~Finished(w) /\ ~(Head(w.rest) # Up /\ Is(tree, w.at, "file")) /\ AtLink(tree, w)
           /\ w.links = MaxLinks
  <2>1. v = Ends(w, "failed")
    BY <1>4 DEF SecureStep
  <2> HIDE DEF v
  <2>2. v \in Walks /\ v.res = "failed"
    BY <2>1, EndsIs
  <2> QED
    BY <1>4, <2>2 DEF Finished, v
<1>5. CASE /\ ~Finished(w) /\ ~(Head(w.rest) # Up /\ Is(tree, w.at, "file")) /\ AtLink(tree, w)
           /\ w.links # MaxLinks
  <2> DEFINE link == tree[Ahead(w)]
             rest == link.to \o Tail(w.rest)
  <2>1. v = Follow(tree, w, Clean(link.abs, rest)) /\ w.rest # <<>>
    BY <1>5 DEF SecureStep, Finished
  <2>2. link.to \in Rest /\ Len(link.to) <= MaxParts
    BY <1>5, <2>1, LinkAhead
  <2>3. Tail(w.rest) \in Rest /\ Len(Tail(w.rest)) = Len(w.rest) - 1 /\ w.rest \in Rest
    BY <2>1, HeadAndTail DEF Walks, Rest
  <2> HIDE DEF link, v
  <2>4. rest \in Rest /\ Len(rest) = Len(link.to) + Len(Tail(w.rest))
    BY <2>2, <2>3, Concat DEF Rest
  <2> HIDE DEF rest
  <2>5. PICK left \in Rest : left = Clean(link.abs, rest) /\ Len(left) <= Len(rest)
    BY <2>4, CleanBounded
  <2>6. v \in Walks /\ v.res = w.res /\ v.rest = left /\ v.links = w.links + 1
    <3>1. w.links # MaxLinks /\ left \in Rest
      BY <1>5, <2>5
    <3>2. /\ Follow(tree, w, left) \in Walks /\ Follow(tree, w, left).rest = left
          /\ Follow(tree, w, left).links = w.links + 1 /\ Follow(tree, w, left).res = w.res
      BY <3>1, FollowIn
    <3> QED
      BY <2>1, <2>5, <3>2
  <2>7. Len(left) <= Len(w.rest) - 1 + MaxParts
    <3>1. /\ Len(left) \in Nat /\ Len(rest) \in Nat /\ Len(link.to) \in Nat
          /\ Len(Tail(w.rest)) \in Nat /\ Len(w.rest) \in Nat /\ MaxParts \in Nat
      BY <2>2, <2>3, <2>4, <2>5, BoundsAssumption, LengthIn
    <3>2. Len(left) <= Len(link.to) + Len(Tail(w.rest))
      BY <2>4, <2>5
    <3> QED
      BY <2>2, <2>3, <3>1, <3>2, Longer, Zenon
  <2>8. Budget(v) < Budget(w)
    BY <2>1, <2>6, <2>7, BudgetFalls
  <2> QED
    BY <1>5, <2>6, <2>8 DEF v
<1> QED
  BY <1>1, <1>2, <1>3, <1>4, <1>5

\* A step of the kernel leaves a walk that has fewer to come.
LEMMA KernelStepIn ==
  ASSUME NEW tree, IsTree(tree), NEW w \in Walks, NEW jailed
  PROVE  /\ KernelStep(tree, w, jailed) \in Walks
         /\ Finished(w) => KernelStep(tree, w, jailed) = w
         /\ Finished(KernelStep(tree, w, jailed)) \/ Budget(KernelStep(tree, w, jailed)) < Budget(w)
<1> DEFINE v == KernelStep(tree, w, jailed)
           link == tree[Ahead(w)]
           climbs == Head(w.rest) = Up /\ w.at = <<>> /\ ~jailed
<1>1. CASE Finished(w)
  <2>1. v = w
    BY <1>1 DEF KernelStep
  <2> QED
    BY <1>1, <2>1
<1>2. CASE ~Finished(w) /\ \E how \in {"failed", "outside"} : v = Ends(w, how)
  <2> HIDE DEF v
  <2>1. v \in Walks /\ v.res # "inside"
    BY <1>2, EndsIs
  <2> QED
    BY <1>2, <2>1 DEF Finished, v
<1>3. CASE ~Finished(w) /\ IsDir(tree, w.at) /\ ~climbs /\ ~AtLink(tree, w)
  <2>1. v = Enter(w) /\ w.rest # <<>>
    BY <1>3 DEF KernelStep, Finished
  <2>2. v \in Walks /\ v.res = w.res /\ v.rest = Tail(w.rest) /\ v.links = w.links
    BY <2>1, EnterIs
  <2>3. Budget(v) < Budget(w)
    BY <2>1, <2>2, BudgetFalls
  <2> HIDE DEF v
  <2> QED
    BY <1>3, <2>2, <2>3 DEF v
<1>4. CASE /\ ~Finished(w) /\ IsDir(tree, w.at) /\ ~climbs /\ AtLink(tree, w)
           /\ w.links # MaxLinks /\ ~(link.abs /\ ~jailed)
  <2> DEFINE rest == link.to \o Tail(w.rest)
  <2>1. v = Follow(tree, w, rest) /\ w.rest # <<>>
    BY <1>4 DEF KernelStep, Finished
  <2>2. link.to \in Rest /\ Len(link.to) <= MaxParts
    BY <1>4, <2>1, LinkAhead
  <2>3. Tail(w.rest) \in Rest /\ Len(Tail(w.rest)) = Len(w.rest) - 1 /\ w.rest \in Rest
    BY <2>1, HeadAndTail DEF Walks, Rest
  <2> HIDE DEF link, v, climbs
  <2>4. rest \in Rest /\ Len(rest) = Len(link.to) + Len(Tail(w.rest))
    BY <2>2, <2>3, Concat DEF Rest
  <2> HIDE DEF rest
  <2>5. v \in Walks /\ v.res = w.res /\ v.rest = rest /\ v.links = w.links + 1
    BY <1>4, <2>1, <2>4, FollowIn
  <2>6. Len(rest) <= Len(w.rest) - 1 + MaxParts
    <3>1. /\ Len(rest) \in Nat /\ Len(link.to) \in Nat
          /\ Len(Tail(w.rest)) \in Nat /\ Len(w.rest) \in Nat /\ MaxParts \in Nat
      BY <2>2, <2>3, <2>4, BoundsAssumption, LengthIn
    <3>2. Len(rest) <= Len(link.to) + Len(Tail(w.rest))
      BY <2>4, <3>1
    <3> QED
      BY <2>2, <2>3, <3>1, <3>2, Longer, Zenon
  <2>7. Budget(v) < Budget(w)
    BY <2>1, <2>5, <2>6, BudgetFalls
  <2> QED
    BY <1>4, <2>5, <2>7 DEF v
<1>5. \/ Finished(w) \/ \E how \in {"failed", "outside"} : v = Ends(w, how)
      \/ IsDir(tree, w.at) /\ ~climbs /\ ~AtLink(tree, w)
      \/ IsDir(tree, w.at) /\ ~climbs /\ AtLink(tree, w) /\ w.links # MaxLinks /\ ~(link.abs /\ ~jailed)
  BY DEF KernelStep
<1> QED
  BY <1>1, <1>2, <1>3, <1>4, <1>5

----------------------------------------------------------------------------
(* Whole walks.                                                            *)

\* Walks that have not left the target directory.
Inner == {w \in Walks : w.res # "outside"}

\* What SecureJoin and Kernel compute, a turn at a time.
SecureTurns(tree, p, f) ==
  /\ f \in [0..Turns(p) -> Inner]
  /\ f[0] = WalkFrom(p) /\ \A k \in 1..Turns(p) : f[k] = SecureStep(tree, f[k - 1])
KernelTurns(tree, p, jailed, f) ==
  /\ f \in [0..Turns(p) -> Walks]
  /\ f[0] = WalkFrom(p) /\ \A k \in 1..Turns(p) : f[k] = KernelStep(tree, f[k - 1], jailed)

\* A walk has its turns before it when it begins.
LEMMA WalkFromIn ==
  ASSUME NEW p \in Rest
  PROVE  /\ WalkFrom(p) \in Inner /\ WalkFrom(p) \in Walks
         /\ Turns(p) \in Nat /\ Budget(WalkFrom(p)) = Turns(p)
<1>1. WalkFrom(p) \in Walks /\ WalkFrom(p) \in Inner
  BY BoundsAssumption DEF WalkFrom, Walks, Inner, Path
<1>2. Len(p) \in Nat /\ MaxParts * MaxLinks \in Nat
  BY BoundsAssumption, LengthIn
<1>3. WalkFrom(p).rest = p /\ MaxLinks - WalkFrom(p).links = MaxLinks
  BY BoundsAssumption DEF WalkFrom
<1>4. Budget(WalkFrom(p)) = Turns(p)
  BY <1>3, Zenon DEF Budget, Turns
<1>5. Turns(p) \in Nat
  <2>1. PICK x \in Nat : x = MaxParts * MaxLinks
    BY <1>2
  <2> QED
    BY <1>2, <2>1 DEF Turns
<1> QED
  BY <1>1, <1>4, <1>5

\* SecureJoin is computed in that way.
LEMMA SecureJoinIs ==
  ASSUME NEW tree, IsTree(tree), NEW p \in Rest
  PROVE  \E f : SecureTurns(tree, p, f) /\ SecureJoin(tree, p) = f[Turns(p)]
<1> DEFINE Fits(f) == f = [k \in 0..Turns(p) |->
                             IF k = 0 THEN WalkFrom(p) ELSE SecureStep(tree, f[k - 1])]
           G == [x \in Nat \X Inner |-> SecureStep(tree, x[2])]
           g == CHOOSE f : Fits(f)
<1>0. Turns(p) \in Nat /\ WalkFrom(p) \in Inner
  BY WalkFromIn
<1>1. G \in [Nat \X Inner -> Inner]
  <2>1. ASSUME NEW w \in Inner PROVE SecureStep(tree, w) \in Inner
    BY SecureStepIn DEF Inner
  <2> QED
    BY <2>1
<1>2. PICK f : Iterates(f, Inner, WalkFrom(p), G, Turns(p))
  <2> HIDE DEF G
  <2> QED
    BY <1>0, <1>1, Iterate
<1>3. \A k \in 1..Turns(p) : f[k] = SecureStep(tree, f[k - 1])
  <2> TAKE k \in 1..Turns(p)
  <2>1. k \in Nat /\ f[k - 1] \in Inner
    BY <1>0, <1>2 DEF Iterates
  <2>2. G[<<k, f[k - 1]>>] = SecureStep(tree, f[k - 1])
    BY <2>1
  <2> QED
    BY <1>2, <2>2 DEF Iterates
<1>4. Fits(f)
  <2>1. f = [k \in 0..Turns(p) |-> f[k]]
    BY <1>2 DEF Iterates
  <2>2. \A k \in 0..Turns(p) : f[k] = IF k = 0 THEN WalkFrom(p) ELSE SecureStep(tree, f[k - 1])
    BY <1>0, <1>2, <1>3 DEF Iterates
  <2> QED
    BY <2>1, <2>2
<1>5. Fits(g)
  <2> HIDE DEF Fits
  <2> QED
    BY <1>4
<1>6. SecureJoin(tree, p) = g[Turns(p)]
  BY DEF SecureJoin
<1>7. g = [k \in 0..Turns(p) |-> g[k]] /\ g[0] = WalkFrom(p)
      /\ \A k \in 1..Turns(p) : g[k] = SecureStep(tree, g[k - 1])
  <2> HIDE DEF g
  <2> QED
    BY <1>0, <1>5
<1> HIDE DEF g
<1>8. ASSUME NEW k \in 1..Turns(p), g[k - 1] \in Inner PROVE g[k] = G[<<k, g[k - 1]>>]
  <2>1. k \in Nat /\ G[<<k, g[k - 1]>>] = SecureStep(tree, g[k - 1])
    BY <1>8
  <2> QED
    BY <1>7, <2>1
<1> HIDE DEF G
<1>9. Iterates(g, Inner, WalkFrom(p), G, Turns(p))
  BY <1>0, <1>1, <1>7, <1>8, Iterated
<1> QED
  BY <1>6, <1>7, <1>9 DEF SecureTurns, Iterates

\* So is Kernel.
LEMMA KernelIs ==
  ASSUME NEW tree, IsTree(tree), NEW p \in Rest, NEW jailed
  PROVE  \E f : KernelTurns(tree, p, jailed, f) /\ Kernel(tree, p, jailed) = f[Turns(p)]
<1> DEFINE Fits(f) == f = [k \in 0..Turns(p) |->
                             IF k = 0 THEN WalkFrom(p) ELSE KernelStep(tree, f[k - 1], jailed)]
           G == [x \in Nat \X Walks |-> KernelStep(tree, x[2], jailed)]
           g == CHOOSE f : Fits(f)
<1>0. Turns(p) \in Nat /\ WalkFrom(p) \in Walks
  BY WalkFromIn
<1>1. G \in [Nat \X Walks -> Walks]
  <2>1. ASSUME NEW w \in Walks PROVE KernelStep(tree, w, jailed) \in Walks
    BY KernelStepIn
  <2> QED
    BY <2>1
<1>2. PICK f : Iterates(f, Walks, WalkFrom(p), G, Turns(p))
  <2> HIDE DEF G
  <2> QED
    BY <1>0, <1>1, Iterate
<1>3. \A k \in 1..Turns(p) : f[k] = KernelStep(tree, f[k - 1], jailed)
  <2> TAKE k \in 1..Turns(p)
  <2>1. k \in Nat /\ f[k - 1] \in Walks
    BY <1>0, <1>2 DEF Iterates
  <2>2. G[<<k, f[k - 1]>>] = KernelStep(tree, f[k - 1], jailed)
    BY <2>1
  <2> QED
    BY <1>2, <2>2 DEF Iterates
<1>4. Fits(f)
  <2>1. f = [k \in 0..Turns(p) |-> f[k]]
    BY <1>2 DEF Iterates
  <2>2. \A k \in 0..Turns(p) :
          f[k] = IF k = 0 THEN WalkFrom(p) ELSE KernelStep(tree, f[k - 1], jailed)
    BY <1>0, <1>2, <1>3 DEF Iterates
  <2> QED
    BY <2>1, <2>2
<1>5. Fits(g)
  <2> HIDE DEF Fits
  <2> QED
    BY <1>4
<1>6. Kernel(tree, p, jailed) = g[Turns(p)]
  BY DEF Kernel
<1>7. g = [k \in 0..Turns(p) |-> g[k]] /\ g[0] = WalkFrom(p)
      /\ \A k \in 1..Turns(p) : g[k] = KernelStep(tree, g[k - 1], jailed)
  <2> HIDE DEF g
  <2> QED
    BY <1>0, <1>5
<1> HIDE DEF g
<1>8. ASSUME NEW k \in 1..Turns(p), g[k - 1] \in Walks PROVE g[k] = G[<<k, g[k - 1]>>]
  <2>1. k \in Nat /\ G[<<k, g[k - 1]>>] = KernelStep(tree, g[k - 1], jailed)
    BY <1>8
  <2> QED
    BY <1>7, <2>1
<1> HIDE DEF G
<1>9. Iterates(g, Walks, WalkFrom(p), G, Turns(p))
  BY <1>0, <1>1, <1>7, <1>8, Iterated
<1> QED
  BY <1>6, <1>7, <1>9 DEF KernelTurns, Iterates

\* However links lead to one another, a walk of secureJoin or of the kernel is at its
\* end after the turns it is given: neither can be made to run forever.
THEOREM WalksEnd ==
  ASSUME NEW tree, IsTree(tree), NEW p \in Rest, NEW jailed
  PROVE  Finished(SecureJoin(tree, p)) /\ Finished(Kernel(tree, p, jailed))
<1>0. /\ Turns(p) \in Nat /\ Budget(WalkFrom(p)) = Turns(p)
      /\ \A w \in Walks : Budget(w) \in Nat /\ (Budget(w) = 0 => Finished(w))
  <2>1. Turns(p) \in Nat /\ Budget(WalkFrom(p)) = Turns(p)
    BY WalkFromIn
  <2>2. ASSUME NEW w \in Walks PROVE Budget(w) \in Nat /\ (Budget(w) = 0 => w.rest = <<>>)
    <3>1. w.rest \in Rest /\ MaxLinks - w.links \in Nat /\ MaxParts \in Nat
      BY BoundsAssumption DEF Walks
    <3>2. PICK x \in Nat : x = MaxParts * (MaxLinks - w.links)
      BY <3>1
    <3>3. Len(w.rest) \in Nat /\ (Len(w.rest) = 0 => w.rest = <<>>)
      BY <3>1 DEF Rest
    <3> QED
      BY <3>2, <3>3 DEF Budget
  <2> QED
    BY <2>1, <2>2 DEF Finished
<1>1. Finished(SecureJoin(tree, p))
  <2>1. PICK f : SecureTurns(tree, p, f) /\ SecureJoin(tree, p) = f[Turns(p)]
    BY SecureJoinIs
  <2> DEFINE S == {k \in Nat : k <= Turns(p) => Finished(f[k]) \/ Budget(f[k]) + k <= Turns(p)}
  <2>2. 0 \in S
    BY <1>0, <2>1 DEF SecureTurns
  <2>3. ASSUME NEW k \in Nat, k \in S PROVE k + 1 \in S
    <3> SUFFICES ASSUME k + 1 <= Turns(p)
                 PROVE  Finished(f[k + 1]) \/ Budget(f[k + 1]) + (k + 1) <= Turns(p)
      OBVIOUS
    <3>1. /\ f[k] \in Walks /\ f[k].res # "outside" /\ f[k + 1] \in Walks
          /\ f[k + 1] = SecureStep(tree, f[k])
      <4>1. k \in 0..Turns(p) /\ k + 1 \in 1..Turns(p) /\ k + 1 \in 0..Turns(p) /\ k + 1 - 1 = k
        BY <1>0
      <4> QED
        BY <2>1, <4>1 DEF SecureTurns, Inner
    <3>2. /\ Finished(f[k]) => f[k + 1] = f[k]
          /\ Finished(f[k + 1]) \/ Budget(f[k + 1]) < Budget(f[k])
      BY <3>1, SecureStepIn
    <3>3. Budget(f[k]) \in Nat /\ Budget(f[k + 1]) \in Nat
      BY <1>0, <3>1
    <3>4. Finished(f[k]) \/ Budget(f[k]) + k <= Turns(p)
      BY <1>0, <2>3
    <3> QED
      BY <1>0, <3>2, <3>3, <3>4
  <2> HIDE DEF S
  <2>4. Turns(p) \in S
    BY <1>0, <2>2, <2>3, Induct
  <2>5. f[Turns(p)] \in Walks
    BY <1>0, <2>1 DEF SecureTurns, Inner
  <2> QED
    BY <1>0, <2>1, <2>4, <2>5 DEF S
<1>2. Finished(Kernel(tree, p, jailed))
  <2>1. PICK f : KernelTurns(tree, p, jailed, f) /\ Kernel(tree, p, jailed) = f[Turns(p)]
    BY KernelIs
  <2> DEFINE S == {k \in Nat : k <= Turns(p) => Finished(f[k]) \/ Budget(f[k]) + k <= Turns(p)}
  <2>2. 0 \in S
    BY <1>0, <2>1 DEF KernelTurns
  <2>3. ASSUME NEW k \in Nat, k \in S PROVE k + 1 \in S
    <3> SUFFICES ASSUME k + 1 <= Turns(p)
                 PROVE  Finished(f[k + 1]) \/ Budget(f[k + 1]) + (k + 1) <= Turns(p)
      OBVIOUS
    <3>1. f[k] \in Walks /\ f[k + 1] \in Walks /\ f[k + 1] = KernelStep(tree, f[k], jailed)
      <4>1. k \in 0..Turns(p) /\ k + 1 \in 1..Turns(p) /\ k + 1 \in 0..Turns(p) /\ k + 1 - 1 = k
        BY <1>0
      <4> QED
        BY <2>1, <4>1 DEF KernelTurns
    <3>2. /\ Finished(f[k]) => f[k + 1] = f[k]
          /\ Finished(f[k + 1]) \/ Budget(f[k + 1]) < Budget(f[k])
      BY <3>1, KernelStepIn
    <3>3. Budget(f[k]) \in Nat /\ Budget(f[k + 1]) \in Nat
      BY <1>0, <3>1
    <3>4. Finished(f[k]) \/ Budget(f[k]) + k <= Turns(p)
      BY <1>0, <2>3
    <3> QED
      BY <1>0, <3>2, <3>3, <3>4
  <2> HIDE DEF S
  <2>4. Turns(p) \in S
    BY <1>0, <2>2, <2>3, Induct
  <2>5. f[Turns(p)] \in Walks
    BY <1>0, <2>1 DEF KernelTurns
  <2> QED
    BY <1>0, <2>1, <2>4, <2>5 DEF S
<1> QED
  BY <1>1, <1>2

----------------------------------------------------------------------------
(* Prefixes.                                                               *)

\* A prefix, name by name.
LEMMA PrefixIs ==
  ASSUME NEW p \in Path, NEW q \in Path
  PROVE  IsPrefix(p, q) <=> Len(p) <= Len(q) /\ \A k \in 1..Len(p) : p[k] = q[k]
<1> USE DEF Path
<1>1. CASE Len(p) > Len(q)
  BY <1>1 DEF IsPrefix
<1>2. CASE Len(p) <= Len(q)
  <2> DEFINE a == SubSeq(p, 1, Len(p))
             b == SubSeq(q, 1, Len(p))
  <2>1. /\ a \in Path /\ Len(a) = Len(p) /\ \A k \in 1..Len(p) : a[k] = p[k]
        /\ b \in Path /\ Len(b) = Len(p) /\ \A k \in 1..Len(p) : b[k] = q[k]
    BY <1>2
  <2> HIDE DEF a, b
  <2>2. a = b => \A k \in 1..Len(p) : p[k] = q[k]
    BY <2>1
  <2>3. (\A k \in 1..Len(p) : p[k] = q[k]) => a = b
    <3>1. (\A k \in 1..Len(p) : p[k] = q[k]) => \A k \in 1..Len(p) : a[k] = b[k]
      BY <2>1
    <3>2. (\A k \in 1..Len(a) : a[k] = b[k]) /\ Len(a) = Len(b) => a = b
      BY <2>1
    <3> QED
      BY <2>1, <3>1, <3>2
  <2> QED
    BY <1>2, <2>2, <2>3 DEF IsPrefix, a, b
<1> QED
  BY <1>1, <1>2

\* The order of paths.
LEMMA PrefixOrder ==
  ASSUME NEW p \in Path, NEW q \in Path, NEW r \in Path
  PROVE  /\ IsPrefix(p, p) /\ IsPrefix(<<>>, p)
         /\ IsPrefix(p, q) /\ IsPrefix(q, r) => IsPrefix(p, r)
         /\ IsPrefix(p, q) /\ IsPrefix(q, p) => p = q
         /\ IsPrefix(p, r) /\ IsPrefix(q, r) => IsPrefix(p, q) \/ IsPrefix(q, p)
         /\ IsPrefix(p, <<>>) => p = <<>>
<1> USE DEF Path
<1>0. <<>> \in Path
  OBVIOUS
<1>1. IsPrefix(p, p) /\ IsPrefix(<<>>, p)
  <2>1. IsPrefix(p, p)
    BY PrefixIs
  <2>2. Len(<<>>) = 0 /\ Len(p) \in Nat
    OBVIOUS
  <2>3. IsPrefix(<<>>, p) <=> Len(<<>>) <= Len(p) /\ \A k \in 1..Len(<<>>) : <<>>[k] = p[k]
    BY <1>0, PrefixIs
  <2> QED
    BY <2>1, <2>2, <2>3
<1>2. ASSUME IsPrefix(p, q), IsPrefix(q, r) PROVE IsPrefix(p, r)
  BY <1>2, PrefixIs
<1>3. ASSUME IsPrefix(p, q), IsPrefix(q, p) PROVE p = q
  BY <1>3, PrefixIs
<1>4. ASSUME IsPrefix(p, r), IsPrefix(q, r) PROVE IsPrefix(p, q) \/ IsPrefix(q, p)
  <2>1. Len(p) <= Len(q) \/ Len(q) <= Len(p)
    OBVIOUS
  <2> QED
    BY <1>4, <2>1, PrefixIs
<1>5. ASSUME IsPrefix(p, <<>>) PROVE p = <<>>
  <2>1. Len(p) <= Len(<<>>)
    BY <1>0, <1>5, PrefixIs
  <2> QED
    BY <2>1
<1> QED
  BY <1>1, <1>2, <1>3, <1>4, <1>5

\* The prefixes of a path, and those of a path that is one name longer.
LEMMA PrefixesIs ==
  ASSUME NEW p \in Path
  PROVE  /\ Prefixes(p) = {q \in Path : IsPrefix(q, p)}
         /\ Parents(p) = {q \in Path \ {<<>>} : IsStrictPrefix(q, p)}
<1>1. ASSUME NEW l \in 0..Len(p)
      PROVE  SubSeq(p, 1, l) \in Path /\ IsPrefix(SubSeq(p, 1, l), p)
  <2>1. /\ SubSeq(p, 1, l) \in Path /\ Len(SubSeq(p, 1, l)) = l
        /\ \A k \in 1..l : SubSeq(p, 1, l)[k] = p[k]
    BY DEF Path
  <2>2. PICK t \in Path : t = SubSeq(p, 1, l)
    BY <2>1
  <2>3. Len(t) <= Len(p) /\ \A k \in 1..Len(t) : t[k] = p[k]
    <3>1. Len(t) = l /\ l <= Len(p)
      BY <2>1, <2>2 DEF Path
    <3> QED
      BY <2>1, <2>2, <3>1
  <2>4. IsPrefix(t, p)
    BY <2>3, PrefixIs
  <2> QED
    BY <2>2, <2>4
<1>2. ASSUME NEW q \in Path, IsPrefix(q, p)
      PROVE  Len(q) \in 0..Len(p) /\ q = SubSeq(p, 1, Len(q))
  <2>1. Len(q) \in 0..Len(p) /\ \A k \in 1..Len(q) : q[k] = p[k]
    BY <1>2, PrefixIs DEF Path
  <2>2. PICK l \in 0..Len(p) : l = Len(q)
    BY <2>1
  <2>3. /\ SubSeq(p, 1, l) \in Path /\ Len(SubSeq(p, 1, l)) = l
        /\ \A k \in 1..l : SubSeq(p, 1, l)[k] = p[k]
    BY DEF Path
  <2>4. PICK t \in Path : t = SubSeq(p, 1, l)
    BY <2>3
  <2>5. t = q
    BY <2>1, <2>2, <2>3, <2>4 DEF Path
  <2> QED
    BY <2>1, <2>2, <2>4, <2>5
<1>3. Prefixes(p) = {q \in Path : IsPrefix(q, p)}
  BY <1>1, <1>2, Zenon DEF Prefixes
<1> QED
  BY <1>3, Zenon DEF Parents, IsStrictPrefix

\* The prefixes of a path with one name more.
LEMMA PrefixAppend ==
  ASSUME NEW at \in Path, NEW a \in Names, NEW q \in Path
  PROVE  /\ Append(at, a) \in Path /\ Append(at, a) # <<>>
         /\ IsPrefix(q, Append(at, a)) <=> IsPrefix(q, at) \/ q = Append(at, a)
<1> DEFINE p == Append(at, a)
<1>1. p \in Path /\ p # <<>> /\ Len(p) = Len(at) + 1 /\ p[Len(at) + 1] = a
      /\ (\A k \in 1..Len(at) : p[k] = at[k]) /\ Len(at) \in Nat /\ Len(q) \in Nat
  BY DEF Path
<1> HIDE DEF p
<1>2. ASSUME IsPrefix(q, at) PROVE IsPrefix(q, p)
  <2>1. Len(q) <= Len(at) /\ \A k \in 1..Len(q) : q[k] = at[k]
    BY <1>2, PrefixIs
  <2>2. Len(q) <= Len(p) /\ \A k \in 1..Len(q) : q[k] = p[k]
    BY <1>1, <2>1
  <2> QED
    BY <1>1, <2>2, PrefixIs
<1>3. ASSUME IsPrefix(q, p), q # p PROVE IsPrefix(q, at)
  <2>1. Len(q) <= Len(p) /\ \A k \in 1..Len(q) : q[k] = p[k]
    BY <1>1, <1>3, PrefixIs
  <2>2. Len(q) # Len(p)
    <3>1. Len(q) = Len(p) => q = p
      BY <1>1, <2>1 DEF Path
    <3> QED
      BY <1>3, <3>1
  <2>3. Len(q) <= Len(at) /\ \A k \in 1..Len(q) : q[k] = at[k]
    BY <1>1, <2>1, <2>2
  <2> QED
    BY <2>3, PrefixIs
<1>4. IsPrefix(p, p)
  BY <1>1, PrefixOrder
<1>5. IsPrefix(q, p) <=> IsPrefix(q, at) \/ q = p
  BY <1>2, <1>3, <1>4
<1> QED
  BY <1>1, <1>5 DEF p

\* An entry's directory and its name make its path again.
LEMMA FrontOfPath ==
  ASSUME NEW p \in Paths
  PROVE  /\ p \in Path /\ p # <<>> /\ Front(p) \in Path /\ Last(p) \in Names
         /\ Append(Front(p), Last(p)) = p
         /\ Prefixes(Front(p)) \ {<<>>} = Parents(p)
         /\ Prefixes(p) \ {<<>>} = Parents(p) \union {p}
<1>1. /\ p \in Path /\ p # <<>> /\ Front(p) \in Path /\ Last(p) \in Names
      /\ Append(Front(p), Last(p)) = p
  BY FrontAndLast DEF Paths, Path
<1>2. \A q \in Path : IsPrefix(q, p) <=> IsPrefix(q, Front(p)) \/ q = p
  BY <1>1, PrefixAppend
<1>3. ~ IsPrefix(p, Front(p))
  <2>1. Len(Front(p)) = Len(p) - 1 /\ Len(p) \in Nat
    BY <1>1, FrontAndLast DEF Path
  <2>2. PICK f \in Path : f = Front(p)
    BY <1>1
  <2>3. ~ (Len(p) <= Len(f))
    BY <2>1, <2>2
  <2>4. ~ IsPrefix(p, f)
    BY <1>1, <2>3, PrefixIs
  <2> QED
    BY <2>2, <2>4
<1>4. Prefixes(Front(p)) = {q \in Path : IsPrefix(q, Front(p))}
      /\ Prefixes(p) = {q \in Path : IsPrefix(q, p)}
      /\ Parents(p) = {q \in Path \ {<<>>} : IsStrictPrefix(q, p)}
  BY <1>1, PrefixesIs
<1>5. Prefixes(Front(p)) \ {<<>>} = Parents(p)
  BY <1>2, <1>3, <1>4 DEF IsStrictPrefix
<1>6. Prefixes(p) \ {<<>>} = Parents(p) \union {p}
  BY <1>1, <1>2, <1>4 DEF IsStrictPrefix
<1> QED
  BY <1>1, <1>5, <1>6

----------------------------------------------------------------------------
(* What is done to a tree.                                                 *)

\* What has a parent has a directory for one.
Rooted(tree) == \A p \in DOMAIN tree : \A q \in Parents(p) : IsDir(tree, q)

\* MkdirAll adds directories, and nothing else.
Adds(tree, D, made) ==
  /\ DOMAIN made = DOMAIN tree \union D
  /\ \A q \in DOMAIN made : made[q] = IF q \in DOMAIN tree THEN tree[q] ELSE Dir

\* MkdirAll leaves a tree, with the directories on the way to p.
LEMMA MkdirIs ==
  ASSUME NEW tree, IsTree(tree), NEW p \in Path
  PROVE  IsTree(MkdirAll(tree, p)) /\ Adds(tree, Prefixes(p) \ {<<>>}, MkdirAll(tree, p))
<1> DEFINE made == MkdirAll(tree, p)
           D == DOMAIN tree \union (Prefixes(p) \ {<<>>})
<1>1. made = [q \in D |-> IF q \in DOMAIN tree THEN tree[q] ELSE Dir]
  BY Zenon DEF MkdirAll
<1>2. Prefixes(p) \ {<<>>} \subseteq Paths
  BY PrefixesIs DEF Paths, Path
<1>3. DOMAIN tree \subseteq Paths /\ \A q \in DOMAIN tree : tree[q] \in Nodes
  BY DEF IsTree
<1>4. Dir \in Nodes
  BY DEF Nodes
<1> HIDE DEF made
<1>5. DOMAIN made = D /\ \A q \in D : made[q] = IF q \in DOMAIN tree THEN tree[q] ELSE Dir
  BY <1>1
<1>6. D \subseteq Paths /\ \A q \in D : made[q] \in Nodes
  BY <1>2, <1>3, <1>4, <1>5
<1>7. made = [q \in D |-> made[q]]
  BY <1>1, <1>5
<1> HIDE DEF D
<1>8. IsTree(made)
  BY <1>5, <1>6, <1>7 DEF IsTree
<1> QED
  BY <1>5, <1>8 DEF Adds, made, D

\* Less of a tree is a tree.
LEMMA RestrictIs ==
  ASSUME NEW tree, IsTree(tree), NEW D, D \subseteq DOMAIN tree
  PROVE  /\ IsTree(Restrict(tree, D)) /\ DOMAIN Restrict(tree, D) = D
         /\ \A q \in D : Restrict(tree, D)[q] = tree[q]
BY DEF IsTree, Restrict

\* RemoveAll leaves a tree without p and what is below it.
LEMMA RemoveIs ==
  ASSUME NEW tree, IsTree(tree), NEW p
  PROVE  /\ IsTree(RemoveAll(tree, p))
         /\ DOMAIN RemoveAll(tree, p) = {q \in DOMAIN tree : ~IsPrefix(p, q)}
         /\ \A q \in DOMAIN RemoveAll(tree, p) : RemoveAll(tree, p)[q] = tree[q]
<1> DEFINE D == {q \in DOMAIN tree : ~IsPrefix(p, q)}
<1>1. D \subseteq DOMAIN tree /\ RemoveAll(tree, p) = Restrict(tree, D)
  BY Zenon DEF RemoveAll
<1> HIDE DEF D
<1>2. /\ IsTree(RemoveAll(tree, p)) /\ DOMAIN RemoveAll(tree, p) = D
      /\ \A q \in D : RemoveAll(tree, p)[q] = tree[q]
  BY <1>1, RestrictIs
<1> QED
  BY <1>2 DEF D

\* ClearDir leaves a tree without what is below p.
LEMMA ClearIs ==
  ASSUME NEW tree, IsTree(tree), NEW p
  PROVE  /\ IsTree(ClearDir(tree, p))
         /\ DOMAIN ClearDir(tree, p) = {q \in DOMAIN tree : ~IsStrictPrefix(p, q)}
         /\ \A q \in DOMAIN ClearDir(tree, p) : ClearDir(tree, p)[q] = tree[q]
<1> DEFINE D == {q \in DOMAIN tree : ~IsStrictPrefix(p, q)}
<1>1. D \subseteq DOMAIN tree /\ ClearDir(tree, p) = Restrict(tree, D)
  BY Zenon DEF ClearDir
<1> HIDE DEF D
<1>2. /\ IsTree(ClearDir(tree, p)) /\ DOMAIN ClearDir(tree, p) = D
      /\ \A q \in D : ClearDir(tree, p)[q] = tree[q]
  BY <1>1, RestrictIs
<1> QED
  BY <1>2 DEF D

\* A tree with a node more, or another one.
Puts(tree, p, node, new) ==
  /\ DOMAIN new = DOMAIN tree \union {p} /\ new[p] = node
  /\ \A q \in DOMAIN tree \ {p} : new[q] = tree[q]

\* Put leaves a tree.
LEMMA PutIs ==
  ASSUME NEW tree, IsTree(tree), NEW p \in Paths, NEW node \in Nodes
  PROVE  IsTree(Put(tree, p, node)) /\ Puts(tree, p, node, Put(tree, p, node))
BY DEF Put, Puts, IsTree

\* What stands in the way of no component is a directory afterwards.
LEMMA MkdirRooted ==
  ASSUME NEW tree, IsTree(tree), Rooted(tree), NEW p \in Path, CanMkdir(tree, p)
  PROVE  /\ Rooted(MkdirAll(tree, p))
         /\ \A q \in Prefixes(p) : IsDir(MkdirAll(tree, p), q)
<1> DEFINE made == MkdirAll(tree, p)
<1>1. /\ DOMAIN made = DOMAIN tree \union (Prefixes(p) \ {<<>>})
      /\ \A q \in DOMAIN made : made[q] = IF q \in DOMAIN tree THEN tree[q] ELSE Dir
  BY MkdirIs DEF Adds
<1> HIDE DEF made
<1>2. \A q : IsDir(tree, q) => IsDir(made, q)
  BY <1>1 DEF IsDir, Is
<1>3. ASSUME NEW q \in Prefixes(p) PROVE IsDir(made, q)
  <2>1. CASE q \in DOMAIN tree /\ q # <<>>
    BY <1>2, <2>1 DEF CanMkdir
  <2>2. CASE q \notin DOMAIN tree /\ q # <<>>
    <3>1. q \in DOMAIN made /\ made[q] = Dir
      BY <1>1, <2>2
    <3> QED
      BY <3>1 DEF IsDir, Is, Dir
  <2>3. CASE q = <<>>
    BY <2>3 DEF IsDir
  <2> QED
    BY <2>1, <2>2, <2>3
<1>4. ASSUME NEW q \in DOMAIN made, NEW r \in Parents(q) PROVE IsDir(made, r)
  <2>1. CASE q \in DOMAIN tree
    BY <1>2, <1>4, <2>1 DEF Rooted
  <2>2. CASE q \in Prefixes(p)
    <3>1. q \in Path /\ IsPrefix(q, p)
      BY <2>2, PrefixesIs
    <3>2. r \in Path /\ IsPrefix(r, q)
      BY <3>1, <1>4, PrefixesIs DEF IsStrictPrefix
    <3>3. IsPrefix(r, p)
      BY <3>1, <3>2, PrefixOrder
    <3> QED
      BY <1>3, <3>2, <3>3, PrefixesIs
  <2> QED
    BY <1>1, <2>1, <2>2
<1> QED
  BY <1>3, <1>4 DEF Rooted, made

\* Whatever goes takes with it what is below it.
LEMMA RemoveRooted ==
  ASSUME NEW tree, IsTree(tree), Rooted(tree), NEW p \in Path
  PROVE  Rooted(RemoveAll(tree, p)) /\ Rooted(ClearDir(tree, p))
<1>1. ASSUME NEW D, D \subseteq DOMAIN tree, NEW less, DOMAIN less = D,
             \A q \in D : less[q] = tree[q],
             \A q \in D : \A r \in Path : r # <<>> /\ IsPrefix(r, q) /\ r \in DOMAIN tree => r \in D
      PROVE  Rooted(less)
  <2> SUFFICES ASSUME NEW q \in D, NEW r \in Parents(q) PROVE IsDir(less, r)
    BY <1>1 DEF Rooted
  <2>1. q \in Path
    BY <1>1, TreeIs
  <2>2. r \in Path /\ r # <<>> /\ IsPrefix(r, q)
    BY <2>1, PrefixesIs DEF IsStrictPrefix
  <2>3. r \in DOMAIN tree /\ tree[r].kind = "dir"
    BY <1>1, <2>2 DEF Rooted, IsDir, Is
  <2>4. r \in D
    BY <1>1, <2>2, <2>3
  <2> QED
    BY <1>1, <2>3, <2>4 DEF IsDir, Is
<1>2. \A q \in DOMAIN tree : q \in Path
  BY TreeIs
<1>3. Rooted(RemoveAll(tree, p))
  <2> DEFINE less == RemoveAll(tree, p)
  <2>1. /\ DOMAIN less = {q \in DOMAIN tree : ~IsPrefix(p, q)}
        /\ \A q \in DOMAIN less : less[q] = tree[q]
    BY RemoveIs
  <2> HIDE DEF less
  <2>2. ASSUME NEW q \in DOMAIN less, NEW r \in Path, IsPrefix(r, q), r \in DOMAIN tree
        PROVE  r \in DOMAIN less
    <3>1. q \in Path /\ ~IsPrefix(p, q)
      BY <1>2, <2>1
    <3>2. ~IsPrefix(p, r)
      BY <2>2, <3>1, PrefixOrder
    <3> QED
      BY <2>1, <2>2, <3>2
  <2>3. DOMAIN less \subseteq DOMAIN tree
    BY <2>1
  <2>4. Rooted(less)
    BY <1>1, <2>1, <2>2, <2>3
  <2> QED
    BY <2>4 DEF less
<1>4. Rooted(ClearDir(tree, p))
  <2> DEFINE less == ClearDir(tree, p)
  <2>1. /\ DOMAIN less = {q \in DOMAIN tree : ~IsStrictPrefix(p, q)}
        /\ \A q \in DOMAIN less : less[q] = tree[q]
    BY ClearIs
  <2> HIDE DEF less
  <2>2. ASSUME NEW q \in DOMAIN less, NEW r \in Path, IsPrefix(r, q), r \in DOMAIN tree
        PROVE  r \in DOMAIN less
    <3>1. q \in Path /\ ~IsStrictPrefix(p, q)
      BY <1>2, <2>1
    <3>2. ASSUME IsStrictPrefix(p, r) PROVE FALSE
      <4>1. IsPrefix(p, r) /\ p # r
        BY <3>2 DEF IsStrictPrefix
      <4>2. IsPrefix(p, q)
        BY <2>2, <3>1, <4>1, PrefixOrder
      <4>3. p = q
        BY <3>1, <4>2 DEF IsStrictPrefix
      <4>4. IsPrefix(r, p)
        BY <2>2, <4>3
      <4> QED
        BY <4>1, <4>4, PrefixOrder
    <3> QED
      BY <2>1, <2>2, <3>2
  <2>3. DOMAIN less \subseteq DOMAIN tree
    BY <2>1
  <2>4. Rooted(less)
    BY <1>1, <2>1, <2>2, <2>3
  <2> QED
    BY <2>4 DEF less
<1> QED
  BY <1>3, <1>4

\* A node that replaces whatever was at its path, in a directory that was made.
Replaced(tree, at, p, node) == Put(RemoveAll(MkdirAll(tree, at), p), p, node)

\* What replaces a node leaves a tree, at every point on the way.
LEMMA ReplacedIs ==
  ASSUME NEW tree, IsTree(tree), NEW at \in Path, NEW a \in Names, NEW node \in Nodes
  PROVE  /\ IsTree(Replaced(tree, at, Append(at, a), node))
         /\ IsTree(RemoveAll(MkdirAll(tree, at), Append(at, a)))
         /\ Rooted(tree) /\ CanMkdir(tree, at) =>
              /\ Rooted(Replaced(tree, at, Append(at, a), node))
              /\ Rooted(RemoveAll(MkdirAll(tree, at), Append(at, a)))
<1> DEFINE p == Append(at, a)
           made == MkdirAll(tree, at)
           less == RemoveAll(made, p)
           new == Put(less, p, node)
<1>1. /\ p \in Path /\ p # <<>> /\ p \in Paths
      /\ \A q \in Path : IsPrefix(q, p) <=> IsPrefix(q, at) \/ q = p
  BY PrefixAppend DEF Paths, Path
<1>2. IsTree(made)
  BY MkdirIs
<1> HIDE DEF p, made
<1>3. /\ IsTree(less) /\ DOMAIN less = {q \in DOMAIN made : ~IsPrefix(p, q)}
      /\ \A q \in DOMAIN less : less[q] = made[q]
  BY <1>2, RemoveIs
<1> HIDE DEF less
<1>4. /\ IsTree(new) /\ DOMAIN new = DOMAIN less \union {p}
      /\ \A q \in DOMAIN less \ {p} : new[q] = less[q]
  <2>1. IsTree(new) /\ Puts(less, p, node, new)
    BY <1>1, <1>3, PutIs, Zenon
  <2> HIDE DEF new
  <2> QED
    BY <2>1 DEF Puts
<1> HIDE DEF new
<1>5. ASSUME Rooted(tree), CanMkdir(tree, at)
      PROVE  Rooted(less) /\ Rooted(new)
  <2>1. Rooted(made) /\ \A q \in Prefixes(at) : IsDir(made, q)
    BY <1>5, MkdirRooted DEF made
  <2>2. Rooted(less)
    BY <1>1, <1>2, <2>1, RemoveRooted DEF less
  <2>3. \A q \in Path : IsDir(made, q) /\ ~IsPrefix(p, q) => IsDir(new, q)
    <3>1. \A q \in Path : q # <<>> /\ IsDir(made, q) /\ ~IsPrefix(p, q) =>
            q \in DOMAIN less /\ q # p /\ less[q].kind = "dir"
      BY <1>1, <1>3, PrefixOrder DEF IsDir, Is
    <3> QED
      BY <1>4, <3>1 DEF IsDir, Is
  <2>4. ASSUME NEW q \in DOMAIN new, NEW r \in Parents(q) PROVE IsDir(new, r)
    <3>1. q \in Path /\ r \in Path /\ r # <<>> /\ IsPrefix(r, q) /\ r # q
      <4>1. q \in Path
        BY <1>4, TreeIs
      <4> QED
        BY <4>1, <2>4, PrefixesIs DEF IsStrictPrefix
    <3>2. ~IsPrefix(p, r)
      <4>1. ASSUME IsPrefix(p, r) PROVE FALSE
        <5>1. IsPrefix(p, q)
          BY <1>1, <3>1, <4>1, PrefixOrder
        <5>2. q = p
          BY <1>3, <1>4, <5>1
        <5> QED
          BY <1>1, <3>1, <4>1, <5>2, PrefixOrder
      <4> QED
        BY <4>1
    <3>3. IsDir(made, r)
      <4>1. CASE q = p
        <5>1. IsPrefix(r, at)
          BY <1>1, <3>1, <4>1
        <5> QED
          BY <2>1, <3>1, <5>1, PrefixesIs
      <4>2. CASE q # p
        <5>1. q \in DOMAIN made
          BY <1>3, <1>4, <4>2
        <5> QED
          BY <2>1, <2>4, <5>1 DEF Rooted
      <4> QED
        BY <4>1, <4>2
    <3> QED
      BY <2>3, <3>1, <3>2, <3>3
  <2> QED
    BY <2>2, <2>4 DEF Rooted
<1> QED
  BY <1>3, <1>4, <1>5 DEF Replaced, new, less, made, p

----------------------------------------------------------------------------
(* Types.                                                                  *)

\* What a walk finds is a path, and secureJoin never leaves the target directory.
LEMMA JoinIn ==
  ASSUME NEW tree, IsTree(tree), NEW p \in Rest, NEW jailed
  PROVE  /\ SecureJoin(tree, p) \in Walks /\ SecureJoin(tree, p).res # "outside"
         /\ SecureJoin(tree, p).at \in Path
         /\ Kernel(tree, p, jailed) \in Walks /\ Kernel(tree, p, jailed).at \in Path
<1>1. Turns(p) \in 0..Turns(p)
  BY WalkFromIn
<1>2. SecureJoin(tree, p) \in Inner
  <2>1. PICK f : SecureTurns(tree, p, f) /\ SecureJoin(tree, p) = f[Turns(p)]
    BY SecureJoinIs
  <2> QED
    BY <1>1, <2>1 DEF SecureTurns
<1>3. Kernel(tree, p, jailed) \in Walks
  <2>1. PICK f : KernelTurns(tree, p, jailed, f) /\ Kernel(tree, p, jailed) = f[Turns(p)]
    BY KernelIs
  <2> QED
    BY <1>1, <2>1 DEF KernelTurns
<1>4. \A w \in Walks : w.at \in Path
  BY DEF Walks
<1> QED
  BY <1>2, <1>3, <1>4 DEF Inner

\* A path of names is one that may climb.
LEMMA PathIsRest == Path \subseteq Rest
BY DEF Path, Rest, Part

\* Every variable, with the trees: what has a parent has a directory for one.
Typed ==
  /\ n \in 0..MaxLayers /\ build \in {"between", "in", "failed"}
  /\ todo \in Seq(EntryTypes) /\ layer.entries \in Seq(EntryTypes)
  /\ build = "in" => layer.kind \in {"tar", "directory"}
  /\ IsTree(fs) /\ Rooted(fs) /\ IsTree(base)

\* A whiteout's path leads to a directory's name and ends in any.
LEMMA WhiteoutPathIs ==
  ASSUME NEW p \in WhiteoutPaths
  PROVE  /\ Front(p) \in Path /\ Last(p) \in Names \union {Here, Up}
         /\ Last(p) \in Names => p \in Path /\ p \in Paths
<1>1. p \in Seq(Names \union {Here, Up}) /\ p # <<>> /\ Front(p) \in Path
  BY DEF WhiteoutPaths, Path
<1>2. Last(p) \in Names \union {Here, Up} /\ Append(Front(p), Last(p)) = p
  BY <1>1, FrontAndLast
<1>3. ASSUME Last(p) \in Names PROVE Append(Front(p), Last(p)) \in Path
  BY <1>1, <1>3 DEF Path
<1> QED
  BY <1>1, <1>2, <1>3 DEF Path, Paths

\* What the entry in hand is.
LEMMA EntryIs ==
  ASSUME NEW kinds, Typed, At(kinds)
  PROVE  /\ build = "in" /\ todo # <<>> /\ Entry \in EntryTypes /\ Entry.kind \in kinds
         /\ Tail(todo) \in Seq(EntryTypes)
         /\ "opaque" \notin kinds =>
              Front(Entry.path) \in Path /\ Last(Entry.path) \in Names \union {Here, Up}
         /\ "whiteout" \notin kinds \/ Last(Entry.path) \in Names => Entry.path \in Path
         /\ "opaque" \notin kinds /\ ("whiteout" \notin kinds \/ Last(Entry.path) \in Names) =>
              Entry.path \in Paths
         /\ kinds = {"link"} => Entry.abs \in BOOLEAN /\ Entry.to \in Targets
<1>1. build = "in" /\ todo # <<>> /\ Entry.kind \in kinds
  BY DEF At
<1>2. Entry \in EntryTypes /\ Tail(todo) \in Seq(EntryTypes)
  BY <1>1, HeadAndTail DEF Typed, Entry
<1>3. \A e \in EntryTypes :
        /\ e.kind = "whiteout" => e.path \in WhiteoutPaths
        /\ e.kind = "opaque" => e.path \in Path
        /\ e.kind \notin {"whiteout", "opaque"} => e.path \in Paths
        /\ e.kind = "link" => e.abs \in BOOLEAN /\ e.to \in Targets
  BY DEF EntryTypes, Path
<1>4. \A p \in Paths : p \in Path /\ Front(p) \in Path /\ Last(p) \in Names
  BY FrontOfPath
<1>5. \A p \in WhiteoutPaths :
        /\ Front(p) \in Path /\ Last(p) \in Names \union {Here, Up}
        /\ Last(p) \in Names => p \in Path /\ p \in Paths
  BY WhiteoutPathIs
<1> PICK e \in EntryTypes : e = Entry
  BY <1>2
<1>6. CASE e.kind = "whiteout"
  BY <1>1, <1>2, <1>3, <1>5, <1>6
<1>7. CASE e.kind = "opaque"
  BY <1>1, <1>2, <1>3, <1>7
<1>8. CASE e.kind \notin {"whiteout", "opaque"}
  BY <1>1, <1>2, <1>3, <1>4, <1>8
<1> QED
  BY <1>6, <1>7, <1>8

\* Where an entry goes.
LEMMA TargetIs ==
  ASSUME NEW kinds, Typed, At(kinds), "opaque" \notin kinds
  PROVE  /\ ParentOf(Entry) \in Walks /\ ParentOf(Entry).at \in Path
         /\ layer.kind = "tar" => ParentOf(Entry).res # "outside"
         /\ Target(Entry) = Append(ParentOf(Entry).at, Last(Entry.path))
         /\ "whiteout" \notin kinds => Last(Entry.path) \in Names
         /\ Last(Entry.path) \in Names => Target(Entry) \in Paths /\ Target(Entry) \in Path
<1>1. "whiteout" \notin kinds => Last(Entry.path) \in Names
  BY EntryIs, FrontOfPath
<1>2. Front(Entry.path) \in Rest
  BY EntryIs, PathIsRest
<1>3. IsTree(fs)
  BY DEF Typed
<1>4. ParentOf(Entry) \in Walks /\ (layer.kind = "tar" => ParentOf(Entry).res # "outside")
  BY <1>2, <1>3, JoinIn DEF ParentOf
<1>5. ParentOf(Entry).at \in Path
  BY <1>4 DEF Walks
<1>6. Last(Entry.path) \in Names => Append(ParentOf(Entry).at, Last(Entry.path)) \in Paths
  BY <1>5, PrefixAppend DEF Paths, Path
<1> QED
  BY <1>1, <1>4, <1>5, <1>6, Zenon DEF Target, Paths, Path

\* What a whiteout removes is below the target directory, unless it climbs out.
LEMMA WhiteoutIs ==
  ASSUME Typed, At({"whiteout"}), ~ClimbsOut(Entry)
  PROVE  /\ WhiteoutTarget(Entry) \in Path
         /\ Last(Entry.path) \in Names => WhiteoutTarget(Entry) = Target(Entry)
<1>1. /\ ParentOf(Entry).at \in Path /\ Entry.kind = "whiteout"
      /\ Last(Entry.path) \in Names => Target(Entry) \in Path
      /\ Last(Entry.path) \in Names \union {Here, Up}
  BY EntryIs, TargetIs
<1>2. CASE Last(Entry.path) = Here
  <2>1. WhiteoutTarget(Entry) = ParentOf(Entry).at
    BY <1>2 DEF WhiteoutTarget, Here, Up
  <2> QED
    BY <1>1, <1>2, <2>1, NamesAssumption
<1>3. CASE Last(Entry.path) = Up
  <2>1. ParentOf(Entry).at # <<>>
    BY <1>1, <1>3 DEF ClimbsOut
  <2>2. Front(ParentOf(Entry).at) \in Path
    BY <1>1, <2>1, FrontAndLast DEF Path
  <2>3. WhiteoutTarget(Entry) = Front(ParentOf(Entry).at)
    BY <1>3 DEF WhiteoutTarget, Here, Up
  <2> QED
    BY <1>3, <2>2, <2>3, NamesAssumption
<1>4. CASE Last(Entry.path) \in Names
  <2>1. Last(Entry.path) # Here /\ Last(Entry.path) # Up
    BY <1>4, NamesAssumption
  <2> QED
    BY <1>1, <2>1 DEF WhiteoutTarget
<1> QED
  BY <1>1, <1>2, <1>3, <1>4

\* Without all that is below it the target directory is empty.
LEMMA NothingIs ==
  ASSUME NEW tree, IsTree(tree), Rooted(tree)
  PROVE  IsTree(RemoveAll(tree, <<>>)) /\ Rooted(RemoveAll(tree, <<>>))
<1>1. <<>> \in Path
  BY DEF Path
<1> QED
  BY <1>1, RemoveIs, RemoveRooted

\* A directory is made where neither a file nor a link is.
LEMMA CanMkdirAt ==
  ASSUME NEW tree, IsTree(tree), NEW at \in Path, NEW a \in Names,
         CanMkdir(tree, at), ~Is(tree, Append(at, a), "file"), ~Is(tree, Append(at, a), "link")
  PROVE  CanMkdir(tree, Append(at, a))
<1> DEFINE p == Append(at, a)
<1>1. /\ p \in Path /\ p # <<>>
      /\ \A q \in Path : IsPrefix(q, p) <=> IsPrefix(q, at) \/ q = p
  BY PrefixAppend
<1> HIDE DEF p
<1>2. Prefixes(p) \subseteq Prefixes(at) \union {p}
  BY <1>1, PrefixesIs
<1>3. p \in DOMAIN tree => tree[p].kind = "dir"
  BY TreeIs, NodeIs DEF Is, p
<1>4. p \in DOMAIN tree => IsDir(tree, p)
  BY <1>3 DEF IsDir, Is
<1>5. CanMkdir(tree, p)
  BY <1>2, <1>4 DEF CanMkdir
<1> QED
  BY <1>5 DEF p

\* A file of the layer in hand is a node.
LEMMA FileIn == n \in 0..MaxLayers => File(n) \in Nodes
<1>1. n \in 0..MaxLayers => n \in Nat
  BY BoundsAssumption
<1> QED
  BY <1>1 DEF Nodes

\* What an entry leaves is a tree.
LEMMA BecomesTyped ==
  ASSUME Typed, todo # <<>>, NEW tree, IsTree(tree), Rooted(tree)
  PROVE  (Becomes(tree) => Typed') /\ (FailsWith(tree) => Typed')
<1>1. Tail(todo) \in Seq(EntryTypes)
  BY HeadAndTail DEF Typed
<1>2. ASSUME Becomes(tree) PROVE Typed'
  BY <1>1, <1>2 DEF Typed, Becomes
<1>3. ASSUME FailsWith(tree) PROVE Typed'
  BY <1>3 DEF Typed, FailsWith
<1> QED
  BY <1>2, <1>3

\* Every step keeps the types and the tree.
LEMMA NextTyped == Typed /\ [Next]_vars => Typed'
<1> SUFFICES ASSUME Typed, [Next]_vars PROVE Typed'
  OBVIOUS
<1>0. IsTree(fs) /\ Rooted(fs)
  BY DEF Typed
<1>1. CASE UNCHANGED vars
  BY <1>1 DEF vars, Typed
<1>2. ASSUME NEW l \in Layers, BeginLayer(l) PROVE Typed'
  <2>1. l.kind \in {"tar", "directory"} /\ l.entries \in Seq(EntryTypes)
    BY LayersAssumption
  <2>2. n + 1 \in 0..MaxLayers
    BY <1>2, BoundsAssumption DEF BeginLayer, Typed
  <2> QED
    BY <1>2, <2>1, <2>2 DEF BeginLayer, Typed
<1>3. CASE EndLayer
  BY <1>3 DEF EndLayer, Typed
<1>4. CASE Unresolved
  <2>1. todo # <<>> /\ FailsWith(fs)
    BY <1>4 DEF Unresolved, At
  <2> QED
    BY <1>0, <2>1, BecomesTyped
<1>5. CASE EntryOutside
  <2>1. Tail(todo) \in Seq(EntryTypes)
    BY <1>5, EntryIs DEF EntryOutside
  <2>2. todo' \in {todo, Tail(todo)} /\ build' \in {build, "failed"} /\ UNCHANGED <<n, layer, base, fs>>
    BY <1>5 DEF EntryOutside
  <2> QED
    BY <2>1, <2>2 DEF Typed
<1>6. CASE NotADirectory
  <2>1. todo # <<>> /\ FailsWith(fs)
    BY <1>6 DEF NotADirectory, At
  <2> QED
    BY <1>0, <2>1, BecomesTyped
<1>7. CASE Whiteout
  <2>1. At({"whiteout"}) /\ todo # <<>>
    BY <1>7 DEF Whiteout, At
  <2> PICK target : target = WhiteoutTarget(Entry)
    OBVIOUS
  <2>2. FailsWith(fs) \/ Becomes(RemoveAll(fs, target)) \/ FailsWith(RemoveAll(fs, target))
    BY <1>7 DEF Whiteout
  <2>3. target \in Path
    BY <1>7, <2>1, WhiteoutIs DEF Whiteout
  <2>4. IsTree(RemoveAll(fs, target)) /\ Rooted(RemoveAll(fs, target))
    BY <1>0, <2>3, RemoveIs, RemoveRooted
  <2> QED
    BY <1>0, <2>1, <2>2, <2>4, BecomesTyped
<1>15. CASE WhiteoutAbove
  <2> PICK nothing : nothing = RemoveAll(fs, <<>>)
    OBVIOUS
  <2>1. At({"whiteout"}) /\ todo # <<>>
    BY <1>15 DEF WhiteoutAbove, At
  <2>2. /\ todo' \in {todo, Tail(todo)} /\ build' \in {build, "failed"}
        /\ fs' \in {fs, nothing} /\ UNCHANGED <<n, layer, base>>
    BY <1>15 DEF WhiteoutAbove
  <2>3. Tail(todo) \in Seq(EntryTypes)
    BY <2>1, EntryIs
  <2>4. IsTree(nothing) /\ Rooted(nothing)
    BY <1>0, NothingIs
  <2>5. todo' \in Seq(EntryTypes)
    BY <2>2, <2>3 DEF Typed
  <2>6. IsTree(fs') /\ Rooted(fs')
    BY <1>0, <2>2, <2>4
  <2> QED
    BY <2>2, <2>5, <2>6 DEF Typed
<1>8. CASE Opaque
  <2> DEFINE dir == SecureJoin(fs, Entry.path)
  <2>1. At({"opaque"}) /\ todo # <<>>
    BY <1>8 DEF Opaque, At
  <2>2. FailsWith(fs) \/ Becomes(ClearDir(fs, dir.at))
    BY <1>8 DEF Opaque
  <2>3. Entry.path \in Rest
    BY <2>1, EntryIs, PathIsRest
  <2>4. dir.at \in Path
    BY <1>0, <2>3, JoinIn
  <2> HIDE DEF dir
  <2>5. IsTree(ClearDir(fs, dir.at)) /\ Rooted(ClearDir(fs, dir.at))
    BY <1>0, <2>4, ClearIs, RemoveRooted
  <2> QED
    BY <1>0, <2>1, <2>2, <2>5, BecomesTyped
<1>9. ASSUME NEW kinds, Ready(kinds), "opaque" \notin kinds, "whiteout" \notin kinds
      PROVE  /\ todo # <<>> /\ ParentOf(Entry).at \in Path /\ Last(Entry.path) \in Names
             /\ Target(Entry) = Append(ParentOf(Entry).at, Last(Entry.path))
             /\ CanMkdir(fs, ParentOf(Entry).at)
             /\ IsTree(Made) /\ Rooted(Made)
  <2>1. At(kinds) /\ CanMkdir(fs, ParentOf(Entry).at) /\ todo # <<>>
    BY <1>9 DEF Ready, At
  <2>2. /\ ParentOf(Entry).at \in Path /\ Last(Entry.path) \in Names
        /\ Target(Entry) = Append(ParentOf(Entry).at, Last(Entry.path))
    BY <1>9, <2>1, TargetIs
  <2>3. IsTree(Made) /\ Rooted(Made)
    BY <1>0, <2>1, <2>2, MkdirIs, MkdirRooted DEF Made
  <2> QED
    BY <2>1, <2>2, <2>3
<1>10. CASE DirEntry
  <2> DEFINE t == Target(Entry)
  <2>1. /\ Ready({"dir"}) /\ ~Is(fs, t, "link")
        /\ \/ FailsWith(Made)
           \/ ~Is(fs, t, "file") /\ Becomes(MkdirAll(fs, t))
    BY <1>10, Zenon DEF DirEntry
  <2>2. CASE FailsWith(Made)
    BY <1>9, <2>1, <2>2, BecomesTyped
  <2>3. CASE ~Is(fs, t, "file") /\ Becomes(MkdirAll(fs, t))
    <3>1. CanMkdir(fs, t)
      BY <1>0, <1>9, <2>1, <2>3, CanMkdirAt
    <3>2. t \in Path
      BY <1>9, <2>1, PrefixAppend
    <3> HIDE DEF t
    <3>3. IsTree(MkdirAll(fs, t)) /\ Rooted(MkdirAll(fs, t))
      BY <1>0, <3>1, <3>2, MkdirIs, MkdirRooted
    <3> QED
      BY <1>9, <2>1, <2>3, <3>3, BecomesTyped
  <2> QED
    BY <2>1, <2>2, <2>3
<1>11. CASE DirOverLink
  <2>1. /\ Ready({"dir"})
        /\ \/ Becomes(Made) \/ FailsWith(Made)
           \/ todo' = Tail(todo) /\ UNCHANGED <<n, layer, base, fs, build>>
    BY <1>11 DEF DirOverLink
  <2>2. CASE Becomes(Made) \/ FailsWith(Made)
    BY <1>9, <2>1, <2>2, BecomesTyped
  <2>3. CASE todo' = Tail(todo) /\ UNCHANGED <<n, layer, base, fs, build>>
    <3>1. Tail(todo) \in Seq(EntryTypes)
      BY <2>1, EntryIs DEF Ready
    <3> QED
      BY <2>3, <3>1 DEF Typed
  <2> QED
    BY <2>1, <2>2, <2>3
<1>12. CASE FileEntry
  <2>1. Ready({"file"}) /\ Becomes(Replaced(fs, ParentOf(Entry).at, Target(Entry), File(n)))
    BY <1>12 DEF FileEntry, Replaced, Made
  <2>2. File(n) \in Nodes
    BY FileIn DEF Typed
  <2>3. IsTree(Replaced(fs, ParentOf(Entry).at, Target(Entry), File(n)))
        /\ Rooted(Replaced(fs, ParentOf(Entry).at, Target(Entry), File(n)))
    BY <1>0, <1>9, <2>1, <2>2, ReplacedIs
  <2> QED
    BY <1>9, <2>1, <2>3, BecomesTyped
<1>13. CASE LinkEntry
  <2> DEFINE node == Link(Entry.abs, Entry.to)
  <2>1. Ready({"link"}) /\ Becomes(Replaced(fs, ParentOf(Entry).at, Target(Entry), node))
    BY <1>13 DEF LinkEntry, Replaced, Made
  <2>2. node \in Nodes
    <3>1. Entry.abs \in BOOLEAN /\ Entry.to \in Targets
      BY <2>1, EntryIs DEF Ready
    <3> QED
      BY <3>1 DEF Nodes
  <2> HIDE DEF node
  <2>3. IsTree(Replaced(fs, ParentOf(Entry).at, Target(Entry), node))
        /\ Rooted(Replaced(fs, ParentOf(Entry).at, Target(Entry), node))
    BY <1>0, <1>9, <2>1, <2>2, ReplacedIs
  <2> QED
    BY <1>9, <2>1, <2>3, BecomesTyped
<1>14. CASE HardLinkEntry
  <2> DEFINE tree == RemoveAll(MkdirAll(fs, ParentOf(Entry).at), Target(Entry))
             source == SecureJoin(tree, Entry.to)
  <2>1. /\ Ready({"hard"})
        /\ \/ Is(tree, source.at, "file") /\ Becomes(Put(tree, Target(Entry), tree[source.at]))
           \/ FailsWith(tree)
    BY <1>14 DEF HardLinkEntry, Made
  <2>2. Dir \in Nodes
    BY DEF Nodes
  <2>3. IsTree(tree) /\ Rooted(tree)
    BY <1>0, <1>9, <2>1, <2>2, ReplacedIs
  <2>4. CASE FailsWith(tree)
    <3> HIDE DEF tree
    <3> QED
      BY <1>9, <2>1, <2>3, <2>4, BecomesTyped
  <2>5. CASE Is(tree, source.at, "file") /\ Becomes(Put(tree, Target(Entry), tree[source.at]))
    <3> DEFINE node == tree[source.at]
    <3>1. node \in Nodes
      <4> HIDE DEF tree, source
      <4> QED
        BY <2>3, <2>5, TreeIs DEF Is
    <3>2. Becomes(Replaced(fs, ParentOf(Entry).at, Target(Entry), node))
      BY <2>5 DEF Replaced
    <3> HIDE DEF node
    <3>3. IsTree(Replaced(fs, ParentOf(Entry).at, Target(Entry), node))
          /\ Rooted(Replaced(fs, ParentOf(Entry).at, Target(Entry), node))
      BY <1>0, <1>9, <2>1, <3>1, ReplacedIs
    <3> QED
      BY <1>9, <2>1, <3>2, <3>3, BecomesTyped
  <2> QED
    BY <2>1, <2>4, <2>5
<1> QED
  BY <1>1, <1>2, <1>3, <1>4, <1>5, <1>6, <1>7, <1>8, <1>10, <1>11, <1>12, <1>13, <1>14,
    <1>15 DEF Next

\* They hold at the start.
LEMMA InitTyped == Init => Typed
<1> SUFFICES ASSUME Init PROVE Typed
  OBVIOUS
<1>1. DOMAIN <<>> = {}
  OBVIOUS
<1>2. IsTree(<<>>) /\ Rooted(<<>>)
  BY <1>1 DEF IsTree, Rooted
<1> QED
  BY <1>2, BoundsAssumption DEF Init, Typed

\* Every variable has its type at all times, and the tree a directory above every node.
THEOREM TypedAlways == Spec => []Typed
BY InitTyped, NextTyped, PTL DEF Spec

\* The one Boolean.
LEMMA NextOutside == outside \in BOOLEAN /\ [Next]_vars => (outside \in BOOLEAN)'
<1> SUFFICES ASSUME outside \in BOOLEAN, [Next]_vars PROVE outside' \in BOOLEAN
  OBVIOUS
<1>1. CASE UNCHANGED vars
  BY <1>1, Zenon DEF vars
<1>2. ASSUME NEW l \in Layers, BeginLayer(l) PROVE outside' \in BOOLEAN
  BY <1>2, Zenon DEF BeginLayer
<1>3. CASE EndLayer \/ Unresolved \/ NotADirectory
  BY <1>3, Zenon DEF EndLayer, Unresolved, NotADirectory, FailsWith
<1>4. CASE EntryOutside \/ WhiteoutAbove
  <2>1. outside' = TRUE \/ outside' = outside
    BY <1>4, Zenon DEF EntryOutside, WhiteoutAbove
  <2> QED
    BY <2>1, Zenon
<1>5. CASE Whiteout \/ Opaque \/ DirEntry \/ FileEntry \/ LinkEntry \/ HardLinkEntry
  <2>1. outside' = outside
    BY <1>5, Zenon DEF Whiteout, Opaque, DirEntry, FileEntry, LinkEntry, HardLinkEntry,
      Becomes, FailsWith
  <2> QED
    BY <2>1, Zenon
<1>6. CASE DirOverLink
  <2>1. outside' = outside \/ outside' = (outside \/ layer.kind = "tar")
    BY <1>6, Zenon DEF DirOverLink, Becomes, FailsWith
  <2> QED
    BY <2>1, Zenon
<1> QED
  BY <1>1, <1>2, <1>3, <1>4, <1>5, <1>6, Zenon DEF Next

\* The tree is one at all times, whatever layers there are: what has a parent has a
\* directory for one, so that no entry was written below a file or a link.
THEOREM ExtractTypeOK == Spec => []TypeOK
<1>1. Init => outside \in BOOLEAN
  BY Zenon DEF Init
<1>2. Typed => \A p \in DOMAIN fs :
        fs[p].kind \in {"dir", "file", "link"} /\ \A q \in Parents(p) : IsDir(fs, q)
  BY TreeIs, NodeIs DEF Typed, Rooted
<1>3. Typed /\ outside \in BOOLEAN => TypeOK
  BY <1>2, Zenon DEF Typed, TypeOK
<1> QED
  BY <1>1, <1>3, TypedAlways, NextOutside, PTL DEF Spec

\* Of a tarball's entries only two kinds reach the running OS, a directory's over a link
\* and a whiteout of ".." in the target directory itself: secureJoin never leaves the
\* target directory, whatever links earlier layers have left.
THEOREM TarballsStayInside == Spec => OnlyDirectoriesReachOut
<1>1. ASSUME Typed, [Next]_vars, ~ UNCHANGED vars
      PROVE  outside' # outside =>
               layer.kind = "directory" \/ Entry.kind = "dir" \/ ClimbsOut(Entry)
  <2> SUFFICES ASSUME outside' # outside
               PROVE  layer.kind = "directory" \/ Entry.kind = "dir" \/ ClimbsOut(Entry)
    OBVIOUS
  <2>1. EntryOutside \/ DirOverLink \/ WhiteoutAbove
    BY <1>1, Zenon DEF Next, vars, BeginLayer, EndLayer, Unresolved, NotADirectory, Whiteout,
      Opaque, DirEntry, FileEntry, LinkEntry, HardLinkEntry, Becomes, FailsWith
  <2>2. CASE EntryOutside
    <3>1. At({"dir", "file", "link"}) /\ ParentOf(Entry).res = "outside"
      BY <2>2, Zenon DEF EntryOutside
    <3>2. layer.kind # "tar"
      BY <1>1, <3>1, TargetIs
    <3>3. build = "in"
      BY <3>1 DEF At
    <3> QED
      BY <1>1, <3>2, <3>3 DEF Typed
  <2>3. CASE DirOverLink
    <3>1. At({"dir"})
      BY <2>3, Zenon DEF DirOverLink, Ready
    <3> QED
      BY <3>1 DEF At
  <2>4. CASE WhiteoutAbove
    BY <2>4, Zenon DEF WhiteoutAbove
  <2> QED
    BY <2>1, <2>2, <2>3, <2>4
<1>2. Typed /\ [Next]_vars =>
        [outside' # outside =>
           layer.kind = "directory" \/ Entry.kind = "dir" \/ ClimbsOut(Entry)]_vars
  BY <1>1
<1> QED
  BY <1>2, TypedAlways, PTL DEF Spec, OnlyDirectoriesReachOut

----------------------------------------------------------------------------
(* secureJoin and the kernel.                                              *)

\* A path that climbs first, u times, and then goes down.
Ups(r, u) == u \in 0..Len(r) /\ \A k \in 1..Len(r) : r[k] = Up <=> k <= u
Drop(r, d) == SubSeq(r, d + 1, Len(r))

\* What is dropped from a path, and what is not.
LEMMA DropIs ==
  ASSUME NEW r \in Rest, NEW d \in 0..Len(r)
  PROVE  /\ Drop(r, d) \in Rest /\ Len(Drop(r, d)) = Len(r) - d
         /\ \A k \in 1..Len(r) - d : Drop(r, d)[k] = r[d + k]
BY DEF Drop, Rest

\* Paths with the same components are the same.
LEMMA SameRest ==
  ASSUME NEW r \in Rest, NEW t \in Rest, Len(r) = Len(t), \A k \in 1..Len(r) : r[k] = t[k]
  PROVE  r = t
BY DEF Rest

\* If no ".." follows a name, there is such a number.
LEMMA UpsExist ==
  ASSUME NEW r \in Rest, \A k \in 2..Len(r) : r[k] = Up => r[k - 1] = Up
  PROVE  \E u : Ups(r, u)
<1> DEFINE Begins(m, u) == u \in 0..m /\ \A k \in 1..m : r[k] = Up <=> k <= u
           S == {m \in Nat : m <= Len(r) => \E u : Begins(m, u)}
<1>1. 0 \in S
  <2>1. Begins(0, 0)
    OBVIOUS
  <2> QED
    BY <2>1, Zenon
<1>2. ASSUME NEW m \in Nat, m \in S PROVE m + 1 \in S
  <2> SUFFICES ASSUME m + 1 <= Len(r) PROVE \E u : Begins(m + 1, u)
    OBVIOUS
  <2>1. Len(r) \in Nat
    BY LengthIn
  <2>2. PICK u : Begins(m, u)
    <3>1. m <= Len(r)
      BY <2>1
    <3> QED
      BY <1>2, <3>1, Zenon
  <2>3. CASE r[m + 1] # Up
    <3>1. Begins(m + 1, u)
      BY <2>2, <2>3
    <3> QED
      BY <3>1, Zenon
  <2>4. CASE r[m + 1] = Up
    <3>1. m = 0 \/ r[m] = Up
      <4>1. CASE m # 0
        <5>1. m + 1 \in 2..Len(r) /\ m + 1 - 1 = m
          BY <2>1, <4>1
        <5> QED
          BY <2>4, <5>1
      <4> QED
        BY <4>1
    <3>2. u = m
      BY <2>2, <3>1
    <3>3. Begins(m + 1, m + 1)
      BY <2>2, <2>4, <3>2
    <3> QED
      BY <3>3, Zenon
  <2> QED
    BY <2>3, <2>4
<1> HIDE DEF S
<1>3. Len(r) \in S /\ Len(r) <= Len(r)
  BY <1>1, <1>2, Induct, LengthIn
<1> QED
  BY <1>3 DEF S, Ups

\* Names behind a path do not make it climb.
LEMMA UpsConcat ==
  ASSUME NEW r \in Rest, NEW u, Ups(r, u), NEW t \in Rest, \A k \in 1..Len(t) : t[k] # Up
  PROVE  Ups(r \o t, u)
<1>1. Len(r) \in Nat /\ Len(t) \in Nat
  BY LengthIn
<1>2. /\ r \o t \in Rest /\ Len(r \o t) = Len(r) + Len(t)
      /\ \A k \in 1..Len(r) : (r \o t)[k] = r[k]
      /\ \A k \in 1..Len(t) : (r \o t)[Len(r) + k] = t[k]
  BY Concat DEF Rest
<1>3. PICK s \in Rest : s = r \o t
  BY <1>2
<1>4. ASSUME NEW k \in 1..Len(s) PROVE s[k] = Up <=> k <= u
  <2>1. CASE k <= Len(r)
    BY <1>1, <1>2, <1>3, <2>1 DEF Ups
  <2>2. CASE k > Len(r)
    <3>1. PICK j \in 1..Len(t) : k = Len(r) + j
      <4>1. k - Len(r) \in 1..Len(t) /\ k = Len(r) + (k - Len(r))
        BY <1>1, <1>2, <1>3, <2>2
      <4> QED
        BY <4>1
    <3>2. s[k] # Up
      BY <1>2, <1>3, <3>1
    <3> QED
      BY <1>1, <2>2, <3>2 DEF Ups
  <2> QED
    BY <1>1, <2>1, <2>2
<1>5. u \in 0..Len(s)
  BY <1>1, <1>2, <1>3 DEF Ups
<1> QED
  BY <1>3, <1>4, <1>5 DEF Ups

\* Cleaning such a path leaves it as it is, and from the root drops what climbs.
LEMMA CleanUps ==
  ASSUME NEW r \in Rest, NEW u, Ups(r, u)
  PROVE  Clean(FALSE, r) = r /\ Clean(TRUE, r) = Drop(r, u)
<1>0. /\ Len(r) \in Nat /\ u \in 0..Len(r) /\ \A k \in 1..Len(r) : r[k] \in Part
      /\ \A k \in 1..Len(r) : r[k] = Up <=> k <= u
  BY LengthIn DEF Rest, Ups
<1>a. ASSUME NEW acc \in Rest, NEW part \in Part
      PROVE  /\ Append(acc, part) \in Rest /\ Len(Append(acc, part)) = Len(acc) + 1
             /\ Append(acc, part)[Len(acc) + 1] = part
             /\ \A i \in 1..Len(acc) : Append(acc, part)[i] = acc[i]
  BY DEF Rest
<1>1. Clean(FALSE, r) = r
  <2>1. PICK f : Cleans(FALSE, r, f) /\ Clean(FALSE, r) = f[Len(r)]
    BY CleanIs
  <2> DEFINE S == {m \in Nat : m <= Len(r) =>
                     Len(f[m]) = m /\ \A i \in 1..m : f[m][i] = r[i]}
  <2>2. 0 \in S
    BY <2>1 DEF Cleans
  <2>3. ASSUME NEW m \in Nat, m \in S PROVE m + 1 \in S
    <3> SUFFICES ASSUME m + 1 <= Len(r)
                 PROVE  Len(f[m + 1]) = m + 1 /\ \A i \in 1..m + 1 : f[m + 1][i] = r[i]
      OBVIOUS
    <3>1. f[m] \in Rest /\ r[m + 1] \in Part /\ m + 1 \in 1..Len(r) /\ m + 1 - 1 = m
      BY <1>0, <2>1 DEF Cleans
    <3>2. Len(f[m]) = m /\ \A i \in 1..m : f[m][i] = r[i]
      BY <1>0, <2>3
    <3>3. f[m + 1] = CleanPart(FALSE, f[m], r[m + 1])
      BY <2>1, <3>1 DEF Cleans
    <3>4. r[m + 1] = Up /\ f[m] # <<>> => Last(f[m]) = Up
      <4> SUFFICES ASSUME r[m + 1] = Up, f[m] # <<>> PROVE Last(f[m]) = Up
        OBVIOUS
      <4>1. m # 0
        BY <3>1, <3>2 DEF Rest
      <4>2. r[m] = Up
        BY <1>0, <3>1, <4>1
      <4> QED
        BY <3>2, <4>1, <4>2 DEF Last
    <3>5. f[m + 1] = Append(f[m], r[m + 1])
      BY <3>3, <3>4 DEF CleanPart
    <3>6. PICK acc \in Rest : acc = f[m]
      BY <3>1
    <3>7. /\ Len(f[m + 1]) = Len(acc) + 1 /\ f[m + 1][Len(acc) + 1] = r[m + 1]
          /\ \A i \in 1..Len(acc) : f[m + 1][i] = acc[i]
      BY <1>a, <3>1, <3>5, <3>6
    <3> QED
      BY <3>2, <3>6, <3>7
  <2> HIDE DEF S
  <2>4. Len(r) \in S
    BY <1>0, <2>2, <2>3, Induct
  <2>5. f[Len(r)] \in Rest
    BY <1>0, <2>1 DEF Cleans
  <2>6. Len(f[Len(r)]) = Len(r) /\ \A i \in 1..Len(r) : f[Len(r)][i] = r[i]
    BY <1>0, <2>4 DEF S
  <2> QED
    BY <2>1, <2>5, <2>6, SameRest
<1>2. Clean(TRUE, r) = Drop(r, u)
  <2>1. PICK f : Cleans(TRUE, r, f) /\ Clean(TRUE, r) = f[Len(r)]
    BY CleanIs
  <2> DEFINE Cleared(m) == /\ m <= u => Len(f[m]) = 0
                           /\ m >= u => Len(f[m]) = m - u
                           /\ \A i \in 1..m - u : f[m][i] = r[u + i]
             S == {m \in Nat : m <= Len(r) => Cleared(m)}
  <2>2. 0 \in S
    BY <1>0, <2>1 DEF Cleans
  <2>3. ASSUME NEW m \in Nat, m \in S PROVE m + 1 \in S
    <3> SUFFICES ASSUME m + 1 <= Len(r)
                 PROVE  Cleared(m + 1)
      <4> HIDE DEF Cleared
      <4> QED
        OBVIOUS
    <3>1. f[m] \in Rest /\ r[m + 1] \in Part /\ m + 1 \in 1..Len(r) /\ m + 1 - 1 = m
      BY <1>0, <2>1 DEF Cleans
    <3>2. /\ m <= u => Len(f[m]) = 0
          /\ m >= u => Len(f[m]) = m - u
          /\ \A i \in 1..m - u : f[m][i] = r[u + i]
      BY <1>0, <2>3
    <3>3. f[m + 1] = CleanPart(TRUE, f[m], r[m + 1])
      BY <2>1, <3>1 DEF Cleans
    <3>4. CASE m + 1 <= u
      <4>1. r[m + 1] = Up /\ Len(f[m]) = 0
        BY <1>0, <3>1, <3>2, <3>4
      <4>2. f[m] = <<>>
        BY <3>1, <4>1 DEF Rest
      <4>3. f[m + 1] = <<>>
        BY <3>3, <4>1, <4>2 DEF CleanPart
      <4> QED
        BY <1>0, <3>4, <4>3
    <3>5. CASE m + 1 > u
      <4>1. r[m + 1] # Up
        BY <1>0, <3>1, <3>5
      <4>2. f[m + 1] = Append(f[m], r[m + 1])
        BY <3>3, <4>1 DEF CleanPart
      <4>3. PICK acc \in Rest : acc = f[m]
        BY <3>1
      <4>4. /\ Len(f[m + 1]) = Len(acc) + 1 /\ f[m + 1][Len(acc) + 1] = r[m + 1]
            /\ \A i \in 1..Len(acc) : f[m + 1][i] = acc[i]
        BY <1>a, <3>1, <4>2, <4>3
      <4>5. Len(acc) = m - u /\ m - u \in Nat
        BY <1>0, <3>2, <3>5, <4>3
      <4>6. u + (m - u + 1) = m + 1
        BY <1>0
      <4>7. ASSUME NEW i \in 1..m + 1 - u PROVE f[m + 1][i] = r[u + i]
        <5>1. CASE i = m - u + 1
          BY <4>4, <4>5, <4>6, <5>1
        <5>2. CASE i # m - u + 1
          <6>1. i \in 1..m - u
            BY <1>0, <5>2
          <6> QED
            BY <3>2, <4>3, <4>4, <4>5, <6>1
        <5> QED
          BY <5>1, <5>2
      <4> QED
        BY <1>0, <3>5, <4>4, <4>5, <4>7
    <3> QED
      BY <1>0, <3>4, <3>5
  <2> HIDE DEF S
  <2>4. Len(r) \in S
    BY <1>0, <2>2, <2>3, Induct
  <2>5. f[Len(r)] \in Rest
    BY <1>0, <2>1 DEF Cleans
  <2>6. Len(f[Len(r)]) = Len(r) - u /\ \A i \in 1..Len(r) - u : f[Len(r)][i] = r[u + i]
    BY <1>0, <2>4 DEF S
  <2>7. /\ Drop(r, u) \in Rest /\ Len(Drop(r, u)) = Len(r) - u
        /\ \A k \in 1..Len(r) - u : Drop(r, u)[k] = r[u + k]
    BY <1>0, DropIs
  <2>8. PICK t \in Rest : t = Drop(r, u)
    BY <2>7
  <2>9. PICK s \in Rest : s = f[Len(r)]
    BY <2>5
  <2>10. s = t
    BY <2>6, <2>7, <2>8, <2>9, SameRest
  <2> QED
    BY <2>1, <2>8, <2>9, <2>10
<1> QED
  BY <1>1, <1>2

\* Where secureJoin is, s, when the kernel is at w: at the same place after as many
\* links, with the same before it; or both are at the root, and secureJoin has dropped
\* some of the ".." that the kernel still has to stop at.
Match(s, w) ==
  /\ s \in Inner /\ s.res = "inside" /\ s.at = w.at /\ s.links = w.links
  /\ \E d \in 0..Len(w.rest) :
       /\ d = 0 \/ w.at = <<>>
       /\ \A k \in 1..d : w.rest[k] = Up
       /\ s.rest = Drop(w.rest, d)

\* What is left of the kernel's walk climbs first.
Climbs(w) == \E u : Ups(w.rest, u)

\* Dropping nothing.
LEMMA DropNothing ==
  ASSUME NEW r \in Rest
  PROVE  Drop(r, 0) = r
<1>1. Len(r) \in Nat /\ 0 \in 0..Len(r)
  BY LengthIn
<1>2. /\ Drop(r, 0) \in Rest /\ Len(Drop(r, 0)) = Len(r) - 0
      /\ \A k \in 1..Len(r) - 0 : Drop(r, 0)[k] = r[0 + k]
  BY <1>1, DropIs
<1>3. PICK t \in Rest : t = Drop(r, 0)
  BY <1>2
<1>4. Len(t) = Len(r) /\ \A k \in 1..Len(t) : t[k] = r[k]
  BY <1>1, <1>2, <1>3
<1>5. t = r
  BY <1>4, SameRest
<1> QED
  BY <1>3, <1>5

\* The two at the same turn.
LEMMA MatchSame ==
  ASSUME NEW s \in Inner, NEW w \in Walks, s.res = "inside", s.at = w.at, s.links = w.links,
         s.rest = w.rest
  PROVE  Match(s, w)
<1>1. w.rest \in Rest /\ Len(w.rest) \in Nat
  BY LengthIn DEF Walks
<1>2. s.rest = Drop(w.rest, 0) /\ 0 \in 0..Len(w.rest)
  BY <1>1, DropNothing
<1> QED
  BY <1>2 DEF Match

\* What is left of a path that climbs first climbs first.
LEMMA ClimbsTail ==
  ASSUME NEW r \in Rest, r # <<>>, \E u : Ups(r, u)
  PROVE  (\E u : Ups(Tail(r), u)) /\ (r[1] # Up => \A k \in 1..Len(Tail(r)) : Tail(r)[k] # Up)
<1>1. PICK u : Ups(r, u)
  OBVIOUS
<1>2. /\ Tail(r) \in Rest /\ Len(Tail(r)) = Len(r) - 1 /\ Len(r) \in Nat \ {0}
      /\ \A k \in 1..Len(r) - 1 : Tail(r)[k] = r[k + 1]
  BY HeadAndTail DEF Rest
<1>3. PICK t \in Rest : t = Tail(r)
  BY <1>2
<1>4. \A k \in 1..Len(t) : t[k] = Up <=> k + 1 <= u
  BY <1>1, <1>2, <1>3 DEF Ups
<1>5. u \in 0..Len(r) /\ (r[1] = Up <=> 1 <= u)
  BY <1>1, <1>2 DEF Ups
<1>6. CASE u = 0
  <2>1. Ups(t, 0)
    BY <1>2, <1>3, <1>4, <1>6 DEF Ups
  <2>2. \A k \in 1..Len(t) : t[k] # Up
    BY <1>4, <1>6
  <2> QED
    BY <1>3, <2>1, <2>2
<1>7. CASE u # 0
  <2>1. Ups(t, u - 1)
    BY <1>2, <1>3, <1>4, <1>5, <1>7 DEF Ups
  <2> QED
    BY <1>3, <1>5, <1>7, <2>1
<1> QED
  BY <1>6, <1>7

\* A turn of the kernel is one of secureJoin, or one that it has saved.
LEMMA MatchStep ==
  ASSUME NEW tree, IsTree(tree), LeadingUps(tree), NEW w \in Walks, w.res = "inside",
         NEW s, Match(s, w), Climbs(w), KernelStep(tree, w, TRUE).res = "inside"
  PROVE  /\ Climbs(KernelStep(tree, w, TRUE))
         /\ Match(s, KernelStep(tree, w, TRUE)) \/ Match(SecureStep(tree, s), KernelStep(tree, w, TRUE))
<1> DEFINE v == KernelStep(tree, w, TRUE)
<1>1. v \in Walks /\ w.rest \in Rest /\ w.at \in Path
  BY KernelStepIn DEF Walks
<1>2. CASE w.rest = <<>>
  <2>1. v = w
    BY <1>2 DEF KernelStep, Finished
  <2> QED
    BY <2>1
<1>3. CASE w.rest # <<>>
  <2>1. IsDir(tree, w.at)
    <3>1. ASSUME ~IsDir(tree, w.at) PROVE FALSE
      <4>1. v = Ends(w, "failed")
        BY <1>3, <3>1 DEF KernelStep, Finished
      <4>2. v.res = "failed"
        BY <4>1, EndsIs
      <4> QED
        BY <4>2
    <3> QED
      BY <3>1
  <2>2. /\ Head(w.rest) = w.rest[1] /\ Tail(w.rest) \in Rest /\ Len(Tail(w.rest)) = Len(w.rest) - 1
        /\ \A k \in 1..Len(w.rest) - 1 : Tail(w.rest)[k] = w.rest[k + 1]
        /\ Len(w.rest) \in Nat \ {0}
    BY <1>1, <1>3, HeadAndTail DEF Rest
  <2>3. PICK d \in 0..Len(w.rest) :
          /\ d = 0 \/ w.at = <<>>
          /\ \A k \in 1..d : w.rest[k] = Up
          /\ s.rest = Drop(w.rest, d)
    BY DEF Match
  <2>4. /\ \E u : Ups(Tail(w.rest), u)
        /\ w.rest[1] # Up => \A k \in 1..Len(Tail(w.rest)) : Tail(w.rest)[k] # Up
    BY <1>1, <1>3, ClimbsTail DEF Climbs
  \* The kernel stops at the root, where secureJoin has been already.
  <2>5. CASE d # 0
    <3>1. w.at = <<>> /\ Head(w.rest) = Up
      BY <2>2, <2>3, <2>5
    <3>2. ~AtLink(tree, w)
      BY <3>1 DEF AtLink
    <3>3. v = Enter(w)
      BY <1>3, <2>1, <3>2 DEF KernelStep, Finished
    <3>4. v.at = <<>> /\ v.rest = Tail(w.rest) /\ v.links = w.links
      BY <1>3, <3>1, <3>3, EnterIs
    <3> HIDE DEF v
    <3>5. s.rest = Drop(v.rest, d - 1)
      <4>1. PICK t \in Rest : t = Tail(w.rest)
        BY <2>2
      <4>2. d - 1 \in 0..Len(t)
        BY <2>2, <2>3, <2>5, <4>1
      <4>3. /\ Drop(t, d - 1) \in Rest /\ Len(Drop(t, d - 1)) = Len(t) - (d - 1)
            /\ \A k \in 1..Len(t) - (d - 1) : Drop(t, d - 1)[k] = t[d - 1 + k]
        BY <4>2, DropIs
      <4>4. /\ Drop(w.rest, d) \in Rest /\ Len(Drop(w.rest, d)) = Len(w.rest) - d
            /\ \A k \in 1..Len(w.rest) - d : Drop(w.rest, d)[k] = w.rest[d + k]
        BY <1>1, <2>3, DropIs
      <4>5. PICK a \in Rest : a = Drop(t, d - 1)
        BY <4>3
      <4>6. PICK b \in Rest : b = Drop(w.rest, d)
        BY <4>4
      <4>7. Len(a) = Len(b)
        BY <2>2, <2>3, <4>1, <4>3, <4>4, <4>5, <4>6
      <4>8. ASSUME NEW k \in 1..Len(a) PROVE a[k] = b[k]
        <5>1. k \in 1..Len(w.rest) - d /\ k \in 1..Len(t) - (d - 1)
          BY <4>3, <4>4, <4>5, <4>6, <4>7
        <5>2. d - 1 + k \in 1..Len(w.rest) - 1 /\ d - 1 + k + 1 = d + k
          BY <2>2, <2>3, <2>5, <5>1
        <5>3. t[d - 1 + k] = w.rest[d + k]
          BY <2>2, <4>1, <5>2
        <5> QED
          BY <4>3, <4>4, <4>5, <4>6, <5>1, <5>3
      <4>9. a = b
        BY <4>7, <4>8, SameRest
      <4> QED
        BY <2>3, <3>4, <4>1, <4>5, <4>6, <4>9
    <3>6. d - 1 \in 0..Len(v.rest)
      BY <2>2, <2>3, <2>5, <3>4
    <3>7. \A k \in 1..d - 1 : v.rest[k] = Up
      <4> TAKE k \in 1..d - 1
      <4>1. k \in 1..Len(w.rest) - 1 /\ k + 1 \in 1..d
        BY <2>2, <2>3
      <4> QED
        BY <2>2, <2>3, <3>4, <4>1
    <3>8. Match(s, v)
      BY <3>1, <3>4, <3>5, <3>6, <3>7 DEF Match
    <3>9. Climbs(v)
      BY <2>4, <3>4 DEF Climbs
    <3> QED
      BY <3>8, <3>9 DEF v
  \* Both have the same before them.
  <2>6. CASE d = 0
    <3>1. /\ s \in Walks /\ s \in Inner /\ s.rest = w.rest /\ s.at = w.at /\ s.links = w.links
          /\ s.res = "inside"
      BY <1>1, <2>3, <2>6, DropNothing DEF Match, Inner
    <3>2. ~Is(tree, s.at, "file")
      <4>1. <<>> \notin DOMAIN tree
        BY TreeIs
      <4> QED
        BY <2>1, <3>1, <4>1 DEF IsDir, Is
    <3>3. SecureStep(tree, s) \in Inner
      BY <3>1, SecureStepIn DEF Inner
    <3>4. AtLink(tree, s) <=> AtLink(tree, w)
      BY <3>1 DEF AtLink, Ahead
    <3>5. CASE ~AtLink(tree, w)
      <4>1. v = Enter(w)
        BY <1>3, <2>1, <3>5 DEF KernelStep, Finished
      <4>2. SecureStep(tree, s) = Enter(s)
        BY <1>3, <3>1, <3>2, <3>4, <3>5 DEF SecureStep, Finished
      <4>3. /\ Enter(s).rest = Tail(w.rest) /\ Enter(s).links = w.links /\ Enter(s).res = "inside"
            /\ Enter(s).at = Enter(w).at /\ Enter(w).rest = Tail(w.rest) /\ Enter(w).links = w.links
        BY <1>3, <3>1, EnterIs DEF Ahead
      <4> HIDE DEF v
      <4>4. Match(SecureStep(tree, s), v)
        BY <1>1, <3>3, <4>1, <4>2, <4>3, MatchSame
      <4>5. Climbs(v)
        BY <2>4, <4>1, <4>3 DEF Climbs
      <4> QED
        BY <4>4, <4>5 DEF v
    <3>6. CASE AtLink(tree, w)
      <4>1. w.links # MaxLinks
        <5>1. ASSUME w.links = MaxLinks PROVE FALSE
          <6>1. v = Ends(w, "failed")
            BY <1>3, <2>1, <3>6, <5>1 DEF KernelStep, Finished
          <6>2. v.res = "failed"
            BY <6>1, EndsIs
          <6> QED
            BY <6>2
        <5> QED
          BY <5>1
      <4>2. PICK link : link = tree[Ahead(w)]
        OBVIOUS
      <4>3. /\ Head(w.rest) # Up /\ Ahead(w) \in DOMAIN tree /\ link.kind = "link"
            /\ link.abs \in BOOLEAN /\ link.to \in Rest
        BY <1>3, <3>6, <4>2, LinkAhead DEF AtLink
      <4>4. PICK rest \in Rest : rest = link.to \o Tail(w.rest)
        BY <2>2, <4>3, Concat DEF Rest
      <4>5. \A k \in 2..Len(link.to) : link.to[k] = Up => link.to[k - 1] = Up
        BY <4>2, <4>3 DEF LeadingUps
      <4>6. PICK u : Ups(link.to, u)
        BY <4>3, <4>5, UpsExist
      <4>7. Ups(rest, u)
        BY <2>2, <2>4, <4>3, <4>4, <4>6, UpsConcat
      <4>8. Clean(FALSE, rest) = rest /\ Clean(TRUE, rest) = Drop(rest, u)
        BY <4>7, CleanUps
      <4>9. v = Follow(tree, w, rest)
        BY <1>3, <2>1, <3>6, <4>1, <4>2, <4>3, <4>4 DEF KernelStep, Finished
      <4>10. SecureStep(tree, s) = Follow(tree, s, Clean(link.abs, rest))
        <5>1. Ahead(s) = Ahead(w)
          BY <3>1 DEF Ahead
        <5> QED
          BY <1>3, <3>1, <3>2, <3>4, <3>6, <4>1, <4>2, <4>4, <5>1 DEF SecureStep, Finished
      <4>11. /\ v.rest = rest /\ v.links = w.links + 1
             /\ v.at = IF link.abs THEN <<>> ELSE w.at
        <5>1. Follow(tree, w, rest).rest = rest /\ Follow(tree, w, rest).links = w.links + 1
          BY <4>1, FollowIn
        <5>2. Follow(tree, w, rest).at = IF link.abs THEN <<>> ELSE w.at
          BY <4>2, FollowAt
        <5> HIDE DEF v
        <5> QED
          BY <4>9, <5>1, <5>2
      <4>12. Clean(link.abs, rest) \in Rest
        BY CleanBounded
      <4>13. /\ SecureStep(tree, s).rest = Clean(link.abs, rest)
             /\ SecureStep(tree, s).links = w.links + 1
             /\ SecureStep(tree, s).res = "inside"
        BY <3>1, <4>1, <4>10, <4>12, FollowIn
      <4>14. SecureStep(tree, s).at = IF link.abs THEN <<>> ELSE w.at
        <5>1. tree[Ahead(s)] = link
          BY <3>1, <4>2 DEF Ahead
        <5> QED
          BY <3>1, <4>10, <5>1, FollowAt
      <4>15. Climbs(v)
        BY <4>7, <4>11, Zenon DEF Climbs
      <4> HIDE DEF v
      <4>16. CASE link.abs = TRUE
        <5>1. v.at = <<>> /\ SecureStep(tree, s).at = <<>>
              /\ SecureStep(tree, s).rest = Drop(v.rest, u)
          BY <4>8, <4>11, <4>13, <4>14, <4>16
        <5>2. u \in 0..Len(v.rest) /\ \A k \in 1..u : v.rest[k] = Up
          BY <4>7, <4>11 DEF Ups
        <5>3. Match(SecureStep(tree, s), v)
          BY <3>3, <4>11, <4>13, <5>1, <5>2 DEF Match
        <5> QED
          BY <4>15, <5>3 DEF v
      <4>17. CASE link.abs = FALSE
        <5>1. v.at = w.at /\ SecureStep(tree, s).at = w.at
              /\ SecureStep(tree, s).rest = v.rest
          BY <4>8, <4>11, <4>13, <4>14, <4>17
        <5>2. Match(SecureStep(tree, s), v)
          BY <1>1, <3>3, <4>11, <4>13, <5>1, MatchSame
        <5> QED
          BY <4>15, <5>2 DEF v
      <4> QED
        BY <4>3, <4>16, <4>17
    <3> QED
      BY <3>5, <3>6
  <2> QED
    BY <2>3, <2>5, <2>6
<1> QED
  BY <1>2, <1>3

\* Wherever the kernel of the pivoted system gets under a name, secureJoin has got
\* as well, whatever links the layers have left, as long as in none of them ".."
\* follows a name.
THEOREM ResolvesAlike ==
  ASSUME NEW tree, IsTree(tree), LeadingUps(tree), NEW p \in Path,
         Kernel(tree, p, TRUE).res = "inside"
  PROVE  SecureJoin(tree, p).at = Kernel(tree, p, TRUE).at /\ SecureJoin(tree, p).res = "inside"
<1>0. p \in Rest /\ Turns(p) \in Nat /\ WalkFrom(p) \in Inner /\ WalkFrom(p) \in Walks
  BY PathIsRest, WalkFromIn
<1>1. PICK f : SecureTurns(tree, p, f) /\ SecureJoin(tree, p) = f[Turns(p)]
  BY <1>0, SecureJoinIs
<1>2. PICK g : KernelTurns(tree, p, TRUE, g) /\ Kernel(tree, p, TRUE) = g[Turns(p)]
  BY <1>0, KernelIs
<1> DEFINE N == Turns(p)
<1> HIDE DEF N
<1>3. /\ \A k \in 0..N : f[k] \in Inner /\ g[k] \in Walks
      /\ f[0] = WalkFrom(p) /\ g[0] = WalkFrom(p) /\ N \in Nat
      /\ g[N].res = "inside"
  BY <1>0, <1>1, <1>2 DEF SecureTurns, KernelTurns, N
<1>4. ASSUME NEW k \in Nat, k + 1 <= N
      PROVE  /\ k \in 0..N /\ k + 1 \in 0..N
             /\ f[k + 1] = SecureStep(tree, f[k]) /\ g[k + 1] = KernelStep(tree, g[k], TRUE)
  <2>1. k + 1 \in 1..N /\ k \in 0..N /\ k + 1 \in 0..N
    BY <1>3, <1>4
  <2>2. PICK i \in 1..N : i = k + 1
    BY <2>1
  <2>3. i - 1 = k
    BY <2>2
  <2>4. f[i] = SecureStep(tree, f[i - 1]) /\ g[i] = KernelStep(tree, g[i - 1], TRUE)
    BY <1>1, <1>2, Zenon DEF SecureTurns, KernelTurns, N
  <2> QED
    BY <2>1, <2>2, <2>3, <2>4, Zenon
\* A walk that ended outside or failed has ended for good.
<1>5. ASSUME NEW k \in Nat, k + 1 <= N, g[k + 1].res = "inside"
      PROVE  g[k].res = "inside"
  <2>1. g[k] \in Walks /\ g[k + 1] = KernelStep(tree, g[k], TRUE)
    BY <1>3, <1>4, <1>5
  <2>2. Finished(g[k]) => g[k + 1] = g[k]
    BY <2>1, KernelStepIn
  <2> QED
    BY <1>5, <2>2 DEF Finished
<1> DEFINE Met(k) == Climbs(g[k]) /\ \E j \in 0..k : Match(f[j], g[k])
           S == {k \in Nat : k <= N /\ g[k].res = "inside" => Met(k)}
<1>6. 0 \in S
  <2>1. g[0].rest = p /\ f[0] = g[0] /\ g[0].res = "inside" /\ f[0] \in Inner /\ g[0] \in Walks
    BY <1>0, <1>3 DEF WalkFrom
  <2>2. Match(f[0], g[0])
    BY <2>1, MatchSame
  <2>3. Ups(p, 0)
    <3>1. Len(p) \in Nat /\ \A k \in 1..Len(p) : p[k] \in Names
      BY DEF Path
    <3> QED
      BY <3>1, NamesAssumption DEF Ups
  <2>4. Climbs(g[0])
    BY <2>1, <2>3 DEF Climbs
  <2> QED
    BY <2>2, <2>4
<1>7. ASSUME NEW k \in Nat, k \in S PROVE k + 1 \in S
  <2> SUFFICES ASSUME k + 1 <= N, g[k + 1].res = "inside" PROVE Met(k + 1)
    <3> HIDE DEF Met
    <3> QED
      OBVIOUS
  <2>1. g[k].res = "inside" /\ k <= N
    BY <1>3, <1>5
  <2>2. Climbs(g[k]) /\ \E j \in 0..k : Match(f[j], g[k])
    BY <1>7, <2>1
  <2>3. PICK j \in 0..k : Match(f[j], g[k])
    BY <2>2
  <2>4. /\ g[k] \in Walks /\ g[k + 1] = KernelStep(tree, g[k], TRUE)
        /\ f[j + 1] = SecureStep(tree, f[j])
    <3>1. j \in Nat /\ j + 1 <= N
      BY <1>3
    <3> QED
      BY <1>3, <1>4, <3>1
  <2>5. /\ Climbs(g[k + 1])
        /\ Match(f[j], g[k + 1]) \/ Match(f[j + 1], g[k + 1])
    BY <2>1, <2>2, <2>3, <2>4, MatchStep
  <2>6. j \in 0..k + 1 /\ j + 1 \in 0..k + 1
    OBVIOUS
  <2> QED
    BY <2>5, <2>6, Zenon
<1> HIDE DEF S
<1>8. N \in S /\ N <= N
  BY <1>3, <1>6, <1>7, Induct
<1>9. PICK j \in 0..N : Match(f[j], g[N])
  BY <1>3, <1>8 DEF S
<1>10. g[N].rest = <<>>
  <2>1. Finished(g[N])
    BY <1>0, <1>2, WalksEnd DEF N
  <2> QED
    BY <1>3, <2>1 DEF Finished
<1>11. f[j].rest = <<>> /\ f[j].at = g[N].at /\ f[j].res = "inside"
  <2>1. PICK d \in 0..Len(g[N].rest) : f[j].rest = Drop(g[N].rest, d)
    BY <1>9 DEF Match
  <2>2. g[N].rest \in Rest /\ Len(g[N].rest) = 0
    BY <1>10 DEF Rest
  <2>3. d = 0
    BY <2>2
  <2>4. f[j].rest = <<>>
    BY <1>10, <2>1, <2>2, <2>3, DropNothing
  <2> QED
    BY <1>9, <2>4 DEF Match
\* From there on secureJoin stays where it is.
<1> DEFINE T == {k \in Nat : j + k <= N => f[j + k] = f[j]}
<1>12. 0 \in T
  OBVIOUS
<1>13. ASSUME NEW k \in Nat, k \in T PROVE k + 1 \in T
  <2> SUFFICES ASSUME j + (k + 1) <= N PROVE f[j + (k + 1)] = f[j]
    OBVIOUS
  <2>1. PICK i \in Nat : i = j + k
    OBVIOUS
  <2>2. i + 1 <= N /\ j + (k + 1) = i + 1 /\ i <= N
    BY <1>3, <2>1
  <2>3. f[i] = f[j]
    BY <1>13, <2>1, <2>2
  <2>4. f[i + 1] = SecureStep(tree, f[i]) /\ f[i] \in Inner
    BY <1>3, <1>4, <2>2
  <2>5. SecureStep(tree, f[i]) = f[i]
    BY <1>11, <2>3 DEF SecureStep, Finished
  <2> QED
    BY <2>2, <2>3, <2>4, <2>5
<1> HIDE DEF T
<1>14. N - j \in T /\ N - j \in Nat /\ j + (N - j) = N
  <2>1. N - j \in Nat /\ j + (N - j) = N
    BY <1>3
  <2> QED
    BY <1>12, <1>13, <2>1, Induct
<1>15. f[N] = f[j]
  BY <1>3, <1>14 DEF T
<1> QED
  BY <1>1, <1>2, <1>11, <1>15 DEF N

\* What is written through a link lands where the link will lead: on every tree that
\* layers can leave, secureJoin finds the directory that the pivoted system will find.
THEOREM ResolutionAgrees == Spec => []ResolvesLikeKernel
<1>1. ASSUME Typed, LeadingUps(fs), NEW p \in Path,
             Kernel(fs, p, TRUE).res = "inside"
      PROVE  SecureJoin(fs, p).at = Kernel(fs, p, TRUE).at
  BY <1>1, ResolvesAlike DEF Typed
<1> DEFINE Asked == {<<a>> : a \in Names} \union {<<a, b>> : a, b \in Names}
           Agrees(p) ==
             LET there == Kernel(fs, p, TRUE) IN
               there.res = "inside" /\ there.at \in DOMAIN fs \union {<<>>}
                 => SecureJoin(fs, p).at = there.at
<1>2. Asked \subseteq Path
  <2> SUFFICES ASSUME NEW p \in Asked PROVE p \in Path
    OBVIOUS
  <2>1. CASE \E a \in Names : p = <<a>>
    <3>1. PICK a \in Names : p = <<a>>
      BY <2>1
    <3>2. <<a>> \in Path
      BY DEF Path
    <3> QED
      BY <3>1, <3>2
  <2>2. CASE \E a, b \in Names : p = <<a, b>>
    <3>1. PICK a \in Names, b \in Names : p = <<a, b>>
      BY <2>2
    <3>2. <<a, b>> \in Path
      BY DEF Path
    <3> QED
      BY <3>1, <3>2
  <2> QED
    BY <2>1, <2>2
<1>3. ASSUME Typed, LeadingUps(fs), NEW p \in Asked PROVE Agrees(p)
  <2>1. p \in Path
    BY <1>2, <1>3
  <2> HIDE DEF Asked
  <2> QED
    BY <1>1, <1>3, <2>1, Zenon
<1>4. ResolvesLikeKernel <=> (LeadingUps(fs) => \A p \in Asked : Agrees(p))
  BY DEF ResolvesLikeKernel
<1> HIDE DEF Asked, Agrees
<1>5. Typed => ResolvesLikeKernel
  BY <1>3, <1>4
<1> QED
  BY <1>5, TypedAlways, PTL

----------------------------------------------------------------------------
(* Changesets, an entry at a time.                                         *)

\* A sequence is the same when its second part's head moves to the first.
LEMMA MoveHead ==
  ASSUME NEW S, NEW s \in Seq(S), NEW t \in Seq(S), t # <<>>
  PROVE  /\ Append(s, Head(t)) \in Seq(S) /\ Tail(t) \in Seq(S)
         /\ Append(s, Head(t)) \o Tail(t) = s \o t
         /\ (s \o t)[Len(s) + 1] = Head(t) /\ Len(s) + 1 \in 1..Len(s \o t)
<1> DEFINE h == Append(s, Head(t))
           u == h \o Tail(t)
           v == s \o t
<1>1. /\ Head(t) \in S /\ Tail(t) \in Seq(S) /\ Head(t) = t[1] /\ Len(Tail(t)) = Len(t) - 1
      /\ Len(t) \in Nat \ {0} /\ \A k \in 1..Len(t) - 1 : Tail(t)[k] = t[k + 1]
  BY HeadAndTail
<1>2. /\ h \in Seq(S) /\ Len(h) = Len(s) + 1 /\ Len(s) \in Nat /\ h[Len(s) + 1] = Head(t)
      /\ \A k \in 1..Len(s) : h[k] = s[k]
  BY <1>1
<1>3. PICK w \in Seq(S) : w = Tail(t)
  BY <1>1
<1>11. PICK g \in Seq(S) : g = h
  BY <1>2
<1> HIDE DEF h
<1>4. /\ h \o w \in Seq(S) /\ Len(h \o w) = Len(h) + Len(w)
      /\ \A k \in 1..Len(h) : (h \o w)[k] = h[k]
      /\ \A k \in 1..Len(w) : (h \o w)[Len(h) + k] = w[k]
  <2>1. /\ g \o w \in Seq(S) /\ Len(g \o w) = Len(g) + Len(w)
        /\ \A k \in 1..Len(g) : (g \o w)[k] = g[k]
        /\ \A k \in 1..Len(w) : (g \o w)[Len(g) + k] = w[k]
    BY Concat
  <2> QED
    BY <1>11, <2>1, Zenon
<1>5. /\ v \in Seq(S) /\ Len(v) = Len(s) + Len(t)
      /\ \A k \in 1..Len(s) : v[k] = s[k]
      /\ \A k \in 1..Len(t) : v[Len(s) + k] = t[k]
  BY Concat
<1> HIDE DEF v
<1>6. PICK x \in Seq(S) : x = h \o w
  BY <1>4
<1>7. Len(x) = Len(v)
  BY <1>1, <1>2, <1>3, <1>4, <1>5, <1>6
<1>8. ASSUME NEW k \in 1..Len(v) PROVE x[k] = v[k]
  <2>1. CASE k <= Len(s)
    BY <1>2, <1>4, <1>5, <1>6, <2>1
  <2>2. CASE k = Len(s) + 1
    <3>1. x[k] = h[k] /\ h[k] = t[1]
      BY <1>1, <1>2, <1>4, <1>6, <2>2
    <3>2. v[Len(s) + 1] = t[1]
      BY <1>1, <1>5
    <3> QED
      BY <2>2, <3>1, <3>2
  <2>3. CASE k > Len(s) + 1
    <3>1. PICK j \in 1..Len(w) : k = Len(h) + j
      <4>1. k - Len(h) \in 1..Len(w) /\ k = Len(h) + (k - Len(h))
        BY <1>1, <1>2, <1>3, <1>5, <2>3
      <4> QED
        BY <4>1
    <3>2. x[k] = w[j]
      BY <1>4, <1>6, <3>1
    <3>3. w[j] = t[j + 1]
      BY <1>1, <1>3
    <3>4. PICK i \in 1..Len(t) : i = j + 1
      BY <1>1, <1>3
    <3>5. v[Len(s) + i] = t[i]
      BY <1>5
    <3>6. k = Len(s) + i
      BY <1>2, <1>3, <1>1, <3>1, <3>4
    <3> QED
      BY <3>2, <3>3, <3>4, <3>5, <3>6
  <2> QED
    BY <1>2, <2>1, <2>2, <2>3, <1>5
<1>9. x = v
  BY <1>5, <1>7, <1>8
<1>10. v[Len(s) + 1] = t[1] /\ Len(s) + 1 \in 1..Len(v)
  BY <1>1, <1>2, <1>5
<1> QED
  BY <1>1, <1>2, <1>3, <1>6, <1>9, <1>10 DEF h, v

\* The greatest of some numbers up to m.
LEMMA MaxIs ==
  ASSUME NEW m \in Nat, NEW I, I \subseteq 1..m, I # {}
  PROVE  Max(I) \in I /\ \A y \in I : y <= Max(I)
<1> DEFINE Greatest(J, x) == x \in J /\ \A y \in J : x >= y
           S == {k \in Nat : \A J \in SUBSET (1..k) : J # {} => \E x : Greatest(J, x)}
<1>1. 0 \in S
  OBVIOUS
<1>2. ASSUME NEW k \in Nat, k \in S PROVE k + 1 \in S
  <2> SUFFICES ASSUME NEW J \in SUBSET (1..k + 1), J # {} PROVE \E x : Greatest(J, x)
    BY k + 1 \in Nat
  <2>1. CASE k + 1 \in J
    <3>1. Greatest(J, k + 1)
      BY <2>1
    <3> QED
      BY <3>1, Zenon
  <2>2. CASE k + 1 \notin J
    <3>1. J \in SUBSET (1..k)
      BY <2>2
    <3> QED
      BY <1>2, <3>1, Zenon
  <2> QED
    BY <2>1, <2>2
<1> HIDE DEF S
<1>3. m \in S
  BY <1>1, <1>2, Induct
<1>4. PICK x : Greatest(I, x)
  BY <1>3, Zenon DEF S
<1>5. Greatest(I, Max(I))
  BY <1>4, Zenon DEF Max
<1> QED
  BY <1>5

\* What LayerOver puts together: of the lower tree what the entries spare, the paths
\* of their own, and the directories above them.
Lower(tree, es) == {p \in DOMAIN tree : ~Whited(es, p) /\ ~Hidden(es, p, 0)}
Owned(es) == {es[k].path : k \in {j \in Indices(es, Content) : ~Hidden(es, es[j].path, j)}}
Implied(es) == UNION {Parents(p) : p \in Owned(es)}
EndsAsFile(es, p) == es[Own(es, p)].kind = "file"

\* LayerOver in those terms.
LEMMA LayerIs ==
  ASSUME NEW tree, NEW es, NEW l
  PROVE  LayerOver(tree, es, l) =
           [p \in Lower(tree, es) \union Owned(es) \union Implied(es) |->
              IF p \in Owned(es) THEN IF EndsAsFile(es, p) THEN File(l) ELSE Dir
              ELSE IF p \in Implied(es) THEN Dir ELSE tree[p]]
BY Zenon DEF LayerOver, Lower, Owned, Implied, EndsAsFile

Contents(es, p) == {k \in 1..Len(es) : es[k].kind \in Content /\ es[k].path = p}

\* Own is the last of the entries for a path.
LEMMA OwnIs ==
  ASSUME NEW es, NEW p
  PROVE  Own(es, p) = IF Contents(es, p) # {} THEN Max(Contents(es, p)) ELSE 0
BY Zenon DEF Own, SelectLastInSeq, Contents

Entries == Seq(EntryTypes)

\* A sequence of entries with one more.
LEMMA OneMore ==
  ASSUME NEW es \in Entries, NEW e \in EntryTypes
  PROVE  /\ Append(es, e) \in Entries /\ Len(Append(es, e)) = Len(es) + 1 /\ Len(es) \in Nat
         /\ Append(es, e)[Len(es) + 1] = e /\ \A k \in 1..Len(es) : Append(es, e)[k] = es[k]
BY DEF Entries

\* An entry's index is among those of its sequence.
LEMMA IndexIn ==
  ASSUME NEW es \in Entries, NEW kinds, NEW k
  PROVE  k \in Indices(es, kinds) <=> k \in 1..Len(es) /\ es[k].kind \in kinds
BY DEF Indices, Entries

\* The indices of one entry more.
LEMMA IndexNext ==
  ASSUME NEW es \in Entries, NEW e \in EntryTypes, NEW kinds, NEW k
  PROVE  k \in Indices(Append(es, e), kinds) <=>
           k \in Indices(es, kinds) \/ (k = Len(es) + 1 /\ e.kind \in kinds)
<1> DEFINE more == Append(es, e)
<1>1. /\ more \in Entries /\ Len(more) = Len(es) + 1 /\ Len(es) \in Nat
      /\ more[Len(es) + 1] = e /\ \A j \in 1..Len(es) : more[j] = es[j]
  BY OneMore
<1> HIDE DEF more
<1>2. k \in Indices(more, kinds) <=> k \in 1..Len(more) /\ more[k].kind \in kinds
  BY <1>1, IndexIn
<1>3. k \in Indices(es, kinds) <=> k \in 1..Len(es) /\ es[k].kind \in kinds
  BY IndexIn
<1>4. k \in 1..Len(more) <=> (k \in 1..Len(es) \/ k = Len(es) + 1)
  BY <1>1
<1>5. ~ (Len(es) + 1 \in 1..Len(es))
  BY <1>1
<1> QED
  BY <1>1, <1>2, <1>3, <1>4, <1>5 DEF more

\* What one entry more whites out, and what it hides.
LEMMA WhitedNext ==
  ASSUME NEW es \in Entries, NEW e \in EntryTypes, NEW p
  PROVE  Whited(Append(es, e), p) <=>
           \/ Whited(es, p)
           \/ e.kind = "whiteout" /\ IsPrefix(e.path, p)
           \/ e.kind = "opaque" /\ IsStrictPrefix(e.path, p)
<1> DEFINE more == Append(es, e)
<1>1. /\ more[Len(es) + 1] = e /\ \A k \in 1..Len(es) : more[k] = es[k]
      /\ Len(es) + 1 \in 1..Len(more)
  BY OneMore
<1>2. \A kinds : \A k : k \in Indices(more, kinds) <=>
         k \in Indices(es, kinds) \/ (k = Len(es) + 1 /\ e.kind \in kinds)
  BY IndexNext
<1>3. \A kinds : \A k \in Indices(es, kinds) : k \in 1..Len(es)
  BY IndexIn
<1> HIDE DEF more
<1>4. (\E k \in Indices(more, {"whiteout"}) : IsPrefix(more[k].path, p)) <=>
        \/ \E k \in Indices(es, {"whiteout"}) : IsPrefix(es[k].path, p)
        \/ e.kind = "whiteout" /\ IsPrefix(e.path, p)
  BY <1>1, <1>2, <1>3
<1>5. (\E k \in Indices(more, {"opaque"}) : IsStrictPrefix(more[k].path, p)) <=>
        \/ \E k \in Indices(es, {"opaque"}) : IsStrictPrefix(es[k].path, p)
        \/ e.kind = "opaque" /\ IsStrictPrefix(e.path, p)
  BY <1>1, <1>2, <1>3
<1> QED
  BY <1>4, <1>5, Zenon DEF Whited, more

\* The same of what files hide.
LEMMA HiddenNext ==
  ASSUME NEW es \in Entries, NEW e \in EntryTypes, NEW p, NEW k \in Nat, k <= Len(es) + 1
  PROVE  Hidden(Append(es, e), p, k) <=>
           \/ Hidden(es, p, k)
           \/ k <= Len(es) /\ e.kind = "file" /\ IsStrictPrefix(e.path, p)
<1> DEFINE more == Append(es, e)
<1>1. /\ more[Len(es) + 1] = e /\ Len(es) \in Nat /\ \A j \in 1..Len(es) : more[j] = es[j]
  BY OneMore
<1>2. \A j : j \in Indices(more, {"file"}) <=>
         j \in Indices(es, {"file"}) \/ (j = Len(es) + 1 /\ e.kind = "file")
  BY IndexNext
<1>3. \A j \in Indices(es, {"file"}) : j \in 1..Len(es)
  BY IndexIn
<1> HIDE DEF more
<1>4. (\E j \in Indices(more, {"file"}) : j > k /\ IsStrictPrefix(more[j].path, p)) <=>
        \/ \E j \in Indices(es, {"file"}) : j > k /\ IsStrictPrefix(es[j].path, p)
        \/ k <= Len(es) /\ e.kind = "file" /\ IsStrictPrefix(e.path, p)
  BY <1>1, <1>2, <1>3
<1> QED
  BY <1>4, Zenon DEF Hidden, more

\* A path is one of the own if an entry for it is not hidden.
LEMMA OwnedIs ==
  ASSUME NEW es, NEW q
  PROVE  q \in Owned(es) <=>
           \E k \in Indices(es, Content) : es[k].path = q /\ ~Hidden(es, q, k)
BY DEF Owned

\* A file or a directory has its path from now on, and a file hides what entries put
\* below it.
LEMMA OwnedNext ==
  ASSUME NEW es \in Entries, NEW e \in EntryTypes, NEW q
  PROVE  q \in Owned(Append(es, e)) <=>
           \/ q \in Owned(es) /\ ~(e.kind = "file" /\ IsStrictPrefix(e.path, q))
           \/ e.kind \in Content /\ e.path = q
<1> DEFINE more == Append(es, e)
<1>1. /\ more[Len(es) + 1] = e /\ Len(es) \in Nat /\ \A j \in 1..Len(es) : more[j] = es[j]
  BY OneMore
<1>2. \A j : j \in Indices(more, Content) <=>
         j \in Indices(es, Content) \/ (j = Len(es) + 1 /\ e.kind \in Content)
  BY IndexNext
<1>3. \A j \in Indices(es, Content) : j \in 1..Len(es)
  BY IndexIn
<1>4. ASSUME NEW k \in 1..Len(es)
      PROVE  Hidden(more, q, k) <=>
               Hidden(es, q, k) \/ (e.kind = "file" /\ IsStrictPrefix(e.path, q))
  <2>1. k \in Nat /\ k <= Len(es) /\ k <= Len(es) + 1
    BY <1>1
  <2> QED
    BY <2>1, HiddenNext
<1>5. ~Hidden(more, q, Len(es) + 1)
  <2>1. \A j \in Indices(more, {"file"}) : ~(j > Len(es) + 1)
    <3>1. \A j \in Indices(more, {"file"}) : j \in 1..Len(more)
      BY OneMore, IndexIn
    <3>2. Len(more) = Len(es) + 1
      BY OneMore
    <3> QED
      BY <1>1, <3>1, <3>2
  <2> QED
    BY <2>1 DEF Hidden
<1> HIDE DEF more
<1>6. q \in Owned(more) <=>
        \E k \in Indices(more, Content) : more[k].path = q /\ ~Hidden(more, q, k)
  BY OwnedIs
<1>7. q \in Owned(es) <=>
        \E k \in Indices(es, Content) : es[k].path = q /\ ~Hidden(es, q, k)
  BY OwnedIs
<1>8. ASSUME q \in Owned(more)
      PROVE  \/ q \in Owned(es) /\ ~(e.kind = "file" /\ IsStrictPrefix(e.path, q))
             \/ e.kind \in Content /\ e.path = q
  <2>1. PICK k \in Indices(more, Content) : more[k].path = q /\ ~Hidden(more, q, k)
    BY <1>6, <1>8
  <2>2. CASE k \in Indices(es, Content)
    <3>1. k \in 1..Len(es) /\ es[k].path = q
      BY <1>1, <1>3, <2>1, <2>2
    <3>2. ~Hidden(es, q, k) /\ ~(e.kind = "file" /\ IsStrictPrefix(e.path, q))
      BY <1>4, <2>1, <3>1
    <3> QED
      BY <1>7, <2>2, <3>1, <3>2
  <2>3. CASE k = Len(es) + 1 /\ e.kind \in Content
    BY <1>1, <2>1, <2>3
  <2> QED
    BY <1>2, <2>2, <2>3
<1>9. ASSUME q \in Owned(es), ~(e.kind = "file" /\ IsStrictPrefix(e.path, q))
      PROVE  q \in Owned(more)
  <2>1. PICK k \in Indices(es, Content) : es[k].path = q /\ ~Hidden(es, q, k)
    BY <1>7, <1>9
  <2>2. k \in 1..Len(es) /\ k \in Indices(more, Content) /\ more[k].path = q
    BY <1>1, <1>2, <1>3, <2>1
  <2>3. ~Hidden(more, q, k)
    BY <1>4, <1>9, <2>1, <2>2
  <2> QED
    BY <1>6, <2>2, <2>3
<1>10. ASSUME e.kind \in Content, e.path = q PROVE q \in Owned(more)
  <2>1. Len(es) + 1 \in Indices(more, Content)
    BY <1>2, <1>10
  <2> QED
    BY <1>1, <1>5, <1>6, <1>10, <2>1
<1> QED
  BY <1>8, <1>9, <1>10 DEF more

\* Whether a path ends as a file is up to its last entry.
LEMMA EndsNext ==
  ASSUME NEW es \in Entries, NEW e \in EntryTypes, NEW q
  PROVE  /\ e.kind \in Content /\ e.path = q =>
              (EndsAsFile(Append(es, e), q) <=> e.kind = "file")
         /\ q \in Owned(es) /\ ~(e.kind \in Content /\ e.path = q) =>
              (EndsAsFile(Append(es, e), q) <=> EndsAsFile(es, q))
<1> DEFINE more == Append(es, e)
           I == Contents(es, q)
           J == Contents(more, q)
<1>1. /\ more[Len(es) + 1] = e /\ Len(es) \in Nat /\ \A j \in 1..Len(es) : more[j] = es[j]
      /\ Len(more) = Len(es) + 1
  BY OneMore
<1> HIDE DEF more
<1>2. I \subseteq 1..Len(es) /\ J \subseteq 1..Len(es) + 1
  BY <1>1 DEF Contents
<1>3. \A j \in 1..Len(es) : j \in J <=> j \in I
  BY <1>1 DEF Contents
<1>4. Len(es) + 1 \in J <=> e.kind \in Content /\ e.path = q
  BY <1>1 DEF Contents
<1>5. Own(es, q) = IF I # {} THEN Max(I) ELSE 0
  BY OwnIs
<1>6. Own(more, q) = IF J # {} THEN Max(J) ELSE 0
  BY OwnIs
<1>7. q \in Owned(es) => I # {}
  <2>1. \A k \in Indices(es, Content) : k \in 1..Len(es) /\ es[k].kind \in Content
    BY IndexIn
  <2> QED
    BY <2>1, OwnedIs DEF Contents
<1> HIDE DEF I, J
<1>8. ASSUME e.kind \in Content, e.path = q PROVE EndsAsFile(more, q) <=> e.kind = "file"
  <2>1. Len(es) + 1 \in J /\ J # {}
    BY <1>4, <1>8
  <2>2. PICK m \in Nat : m = Len(es) + 1
    BY <1>1
  <2>3. Max(J) = m
    <3>1. J \subseteq 1..m /\ m \in J
      BY <1>2, <2>1, <2>2
    <3>2. Max(J) \in J /\ \A y \in J : y <= Max(J)
      BY <2>1, <3>1, MaxIs
    <3>3. Max(J) \in 1..m /\ m <= Max(J)
      BY <3>1, <3>2
    <3> QED
      BY <3>3
  <2>4. Own(more, q) = Len(es) + 1
    BY <1>6, <2>1, <2>2, <2>3
  <2> QED
    BY <1>1, <2>4 DEF EndsAsFile
<1>9. ASSUME q \in Owned(es), ~(e.kind \in Content /\ e.path = q)
      PROVE  EndsAsFile(more, q) <=> EndsAsFile(es, q)
  <2>1. I = J /\ I # {}
    <3>1. \A j \in J : j \in 1..Len(es) \/ j = Len(es) + 1
      BY <1>1, <1>2
    <3>2. \A j \in J : j \in I
      BY <1>3, <1>4, <1>9, <3>1
    <3>3. \A j \in I : j \in J
      BY <1>2, <1>3
    <3> QED
      BY <1>7, <1>9, <3>2, <3>3
  <2>2. Max(I) \in I
    BY <1>1, <1>2, <2>1, MaxIs
  <2>3. Own(es, q) \in 1..Len(es) /\ Own(more, q) = Own(es, q)
    BY <1>2, <1>5, <1>6, <2>1, <2>2
  <2> QED
    BY <1>1, <2>3 DEF EndsAsFile
<1> QED
  BY <1>8, <1>9 DEF more

\* The paths that a changeset brings, and where they come from.
LEMMA LayerParts ==
  ASSUME NEW tree, IsTree(tree), NEW es \in Entries
  PROVE  /\ Lower(tree, es) \subseteq Path /\ Owned(es) \subseteq Path /\ Implied(es) \subseteq Path
         /\ \A q : q \in Implied(es) <=>
              q \in Path /\ q # <<>> /\ \E p \in Owned(es) : IsPrefix(q, p) /\ q # p
<1>1. Lower(tree, es) \subseteq Path
  BY TreeIs DEF Lower
<1>2. ASSUME NEW q \in Owned(es) PROVE q \in Path
  <2>1. PICK k \in Indices(es, Content) : es[k].path = q
    BY <1>2, OwnedIs
  <2>2. es[k] \in EntryTypes /\ es[k].kind \in Content
    BY <2>1, IndexIn DEF Entries
  <2> QED
    BY <2>1, <2>2 DEF EntryTypes, Content, Paths, Path
<1>3. \A q : q \in Implied(es) <=> \E p \in Owned(es) : q \in Parents(p)
  BY DEF Implied
<1>4. ASSUME NEW p \in Owned(es), NEW q
      PROVE  q \in Parents(p) <=> q \in Path /\ q # <<>> /\ IsPrefix(q, p) /\ q # p
  BY <1>2, PrefixesIs DEF IsStrictPrefix
<1> QED
  BY <1>1, <1>2, <1>3, <1>4

\* The same, and what it has at each of them.
IsLayer(tree, es, l, T) ==
  /\ DOMAIN T = Lower(tree, es) \union Owned(es) \union Implied(es)
  /\ \A q \in Owned(es) : T[q] = IF EndsAsFile(es, q) THEN File(l) ELSE Dir
  /\ \A q \in Implied(es) \ Owned(es) : T[q] = Dir
  /\ \A q \in Lower(tree, es) \ (Owned(es) \union Implied(es)) : T[q] = tree[q]
  /\ T = [q \in DOMAIN T |-> T[q]]

\* LayerOver is the tree that has that.
LEMMA LayerAt ==
  ASSUME NEW tree, NEW es, NEW l
  PROVE  IsLayer(tree, es, l, LayerOver(tree, es, l))
<1> DEFINE L == Lower(tree, es)
           O == Owned(es)
           I == Implied(es)
           T == LayerOver(tree, es, l)
<1>1. T = [p \in L \union O \union I |->
             IF p \in O THEN IF EndsAsFile(es, p) THEN File(l) ELSE Dir
             ELSE IF p \in I THEN Dir ELSE tree[p]]
  BY LayerIs
<1> HIDE DEF L, O, I, T
<1>2. /\ DOMAIN T = L \union O \union I
      /\ \A p \in L \union O \union I :
           T[p] = IF p \in O THEN IF EndsAsFile(es, p) THEN File(l) ELSE Dir
                  ELSE IF p \in I THEN Dir ELSE tree[p]
      /\ T = [p \in DOMAIN T |-> T[p]]
  BY <1>1
<1>3. /\ \A q \in O : T[q] = IF EndsAsFile(es, q) THEN File(l) ELSE Dir
      /\ \A q \in I \ O : T[q] = Dir
      /\ \A q \in L \ (O \union I) : T[q] = tree[q]
  BY <1>2
<1> QED
  BY <1>2, <1>3 DEF IsLayer, L, O, I, T

\* What a whiteout does to a tree.
Takes(old, e, new) ==
  /\ DOMAIN new = {q \in DOMAIN old : ~Whited(<<e>>, q)}
  /\ \A q \in DOMAIN new : new[q] = old[q]
  /\ \A q : Whited(<<e>>, q) <=> \/ e.kind = "whiteout" /\ IsPrefix(e.path, q)
                                 \/ e.kind = "opaque" /\ IsStrictPrefix(e.path, q)

\* A whiteout that none of the entries before it is under takes from the tree what it
\* names.
LEMMA WhiteNext ==
  ASSUME NEW tree, IsTree(tree), NEW es \in Entries, NEW e \in EntryTypes, NEW l,
         e.kind \in {"whiteout", "opaque"}, e.path \in Path,
         \A k \in Indices(es, Content) : ~Whited(<<e>>, es[k].path)
  PROVE  Takes(LayerOver(tree, es, l), e, LayerOver(tree, Append(es, e), l))
<1> DEFINE more == Append(es, e)
           old == LayerOver(tree, es, l)
           new == LayerOver(tree, more, l)
           Gone(q) == \/ e.kind = "whiteout" /\ IsPrefix(e.path, q)
                      \/ e.kind = "opaque" /\ IsStrictPrefix(e.path, q)
<1>0. e.kind \notin Content /\ e.kind # "file" /\ e.path \in Path /\ more \in Entries
  BY OneMore DEF Content
<1>1. \A q : Whited(<<e>>, q) <=> Gone(q)
  <2>1. <<>> \in Entries /\ Append(<<>>, e) = <<e>>
    BY DEF Entries
  <2>2. \A q : ~Whited(<<>>, q)
    BY DEF Whited, Indices
  <2>3. PICK none \in Entries : none = <<>>
    BY <2>1
  <2>4. \A q : Whited(Append(none, e), q) <=> Whited(none, q) \/ Gone(q)
    BY WhitedNext
  <2> HIDE DEF Gone
  <2> QED
    BY <2>1, <2>2, <2>3, <2>4, Zenon
<1>2. \A q : q \in Owned(more) <=> q \in Owned(es)
  BY <1>0, OwnedNext
<1>3. \A q : q \in Lower(tree, more) <=> q \in Lower(tree, es) /\ ~Gone(q)
  <2>1. \A q : Whited(more, q) <=> Whited(es, q) \/ Gone(q)
    BY WhitedNext
  <2>2. \A q : Hidden(more, q, 0) <=> Hidden(es, q, 0)
    <3>1. 0 \in Nat /\ 0 <= Len(es) + 1
      BY OneMore
    <3> QED
      BY <1>0, <3>1, HiddenNext
  <2> HIDE DEF more, Gone
  <2> QED
    BY <2>1, <2>2 DEF Lower
<1>4. Owned(more) = Owned(es) /\ Implied(more) = Implied(es)
  <2>1. Owned(more) = Owned(es)
    BY <1>2
  <2> QED
    BY <2>1, Zenon DEF Implied
<1>5. \A q \in Owned(es) : EndsAsFile(more, q) <=> EndsAsFile(es, q)
  BY <1>0, EndsNext
<1> HIDE DEF more
<1>6. \A q \in Owned(es) : ~Gone(q)
  <2>1. \A q \in Owned(es) : ~Whited(<<e>>, q)
    BY OwnedIs
  <2> QED
    BY <1>1, <2>1
<1>7. \A q \in Implied(es) : ~Gone(q)
  <2> SUFFICES ASSUME NEW q \in Implied(es), Gone(q) PROVE FALSE
    OBVIOUS
  <2>1. q \in Path /\ \E p \in Owned(es) : IsPrefix(q, p) /\ q # p
    BY LayerParts
  <2>2. PICK p \in Owned(es) : IsPrefix(q, p) /\ q # p
    BY <2>1
  <2>3. p \in Path
    BY LayerParts
  <2>4. IsPrefix(e.path, q)
    BY DEF IsStrictPrefix
  <2>5. IsPrefix(e.path, p)
    BY <1>0, <2>1, <2>2, <2>3, <2>4, PrefixOrder
  <2>6. e.path # p
    <3>1. e.path = p => IsPrefix(p, q)
      BY <2>4
    <3> QED
      BY <2>1, <2>2, <2>3, <3>1, PrefixOrder
  <2>7. Gone(p)
    BY <2>5, <2>6 DEF IsStrictPrefix
  <2> QED
    BY <1>6, <2>7
<1> HIDE DEF Gone, old, new
<1>8. IsLayer(tree, es, l, old) /\ IsLayer(tree, more, l, new)
  BY LayerAt, Zenon DEF old, new
<1>9. DOMAIN new = {q \in DOMAIN old : ~Gone(q)}
  BY <1>3, <1>4, <1>6, <1>7, <1>8 DEF IsLayer
<1>10. \A q \in DOMAIN new : new[q] = old[q]
  <2> TAKE q \in DOMAIN new
  <2>1. CASE q \in Owned(es)
    BY <1>4, <1>5, <1>8, <2>1 DEF IsLayer
  <2>2. CASE q \in Implied(es) \ Owned(es)
    BY <1>4, <1>8, <2>2 DEF IsLayer
  <2>3. CASE q \in Lower(tree, more) \ (Owned(es) \union Implied(es))
    BY <1>3, <1>4, <1>8, <2>3 DEF IsLayer
  <2> QED
    BY <1>4, <1>8, <2>1, <2>2, <2>3 DEF IsLayer
<1> QED
  BY <1>1, <1>9, <1>10 DEF Takes, more, old, new, Gone

\* What a file or a directory does to a tree.
Brings(old, e, l, new) ==
  /\ DOMAIN new = {q \in DOMAIN old \union Parents(e.path) :
                     e.kind = "file" => ~IsPrefix(e.path, q)} \union {e.path}
  /\ new[e.path] = IF e.kind = "file" THEN File(l) ELSE Dir
  /\ \A q \in DOMAIN new \ {e.path} : new[q] = IF q \in DOMAIN old THEN old[q] ELSE Dir

\* A file or a directory is there afterwards, in directories; a file hides what was
\* below it.
LEMMA ContentNext ==
  ASSUME NEW tree, IsTree(tree), NEW es \in Entries, NEW e \in EntryTypes, NEW l,
         e.kind \in Content,
         \A q \in Parents(e.path) :
           q \in DOMAIN LayerOver(tree, es, l) => LayerOver(tree, es, l)[q] = Dir
  PROVE  Brings(LayerOver(tree, es, l), e, l, LayerOver(tree, Append(es, e), l))
<1> DEFINE more == Append(es, e)
           old == LayerOver(tree, es, l)
           new == LayerOver(tree, more, l)
           Under(q) == e.kind = "file" /\ IsStrictPrefix(e.path, q)
<1>0. e.kind \notin {"whiteout", "opaque"} /\ e.path \in Path /\ more \in Entries
  BY OneMore DEF Content, EntryTypes, Paths, Path
<1> PICK t : t = e.path
  OBVIOUS
<1>1. \A q : q \in Owned(more) <=> (q \in Owned(es) /\ ~Under(q)) \/ q = t
  BY OwnedNext
<1>2. \A q : q \in Lower(tree, more) <=> q \in Lower(tree, es) /\ ~Under(q)
  <2>1. \A q : Whited(more, q) <=> Whited(es, q)
    BY <1>0, WhitedNext
  <2>2. \A q : Hidden(more, q, 0) <=> Hidden(es, q, 0) \/ Under(q)
    <3>1. 0 \in Nat /\ 0 <= Len(es) + 1 /\ 0 <= Len(es)
      BY OneMore
    <3> QED
      BY <3>1, HiddenNext
  <2> HIDE DEF more, Under
  <2> QED
    BY <2>1, <2>2 DEF Lower
<1>3. /\ EndsAsFile(more, t) <=> e.kind = "file"
      /\ \A q \in Owned(es) \ {t} : EndsAsFile(more, q) <=> EndsAsFile(es, q)
  BY EndsNext
<1> HIDE DEF more
\* The directories above a path.
<1>4. /\ t \in Path /\ Owned(es) \subseteq Path /\ Owned(more) \subseteq Path
      /\ \A q : q \in Parents(t) <=> q \in Path /\ q # <<>> /\ IsPrefix(q, t) /\ q # t
      /\ \A q : q \in Implied(es) <=>
           q \in Path /\ q # <<>> /\ \E p \in Owned(es) : IsPrefix(q, p) /\ q # p
      /\ \A q : q \in Implied(more) <=>
           q \in Path /\ q # <<>> /\ \E p \in Owned(more) : IsPrefix(q, p) /\ q # p
  <2>1. t \in Path
    BY <1>0
  <2>2. \A q : q \in Parents(t) <=> q \in Path /\ q # <<>> /\ IsPrefix(q, t) /\ q # t
    BY <2>1, PrefixesIs DEF IsStrictPrefix
  <2> QED
    BY <1>0, <2>1, <2>2, LayerParts
<1>5. \A q : Under(q) <=> e.kind = "file" /\ IsPrefix(t, q) /\ q # t
  BY DEF IsStrictPrefix
<1>6. ASSUME NEW q, q \in Implied(more), q # t
      PROVE  ~Under(q) /\ (q \in Implied(es) \/ q \in Parents(t))
  <2>1. PICK p \in Owned(more) : IsPrefix(q, p) /\ q # p
    BY <1>4, <1>6
  <2>2. q \in Path /\ q # <<>> /\ p \in Path /\ t \in Path
    BY <1>4, <1>6
  <2>3. CASE p = t
    <3>1. ~IsPrefix(t, q)
      BY <2>1, <2>2, <2>3, PrefixOrder
    <3> QED
      BY <1>4, <1>5, <2>1, <2>2, <2>3, <3>1
  <2>4. CASE p \in Owned(es) /\ ~Under(p) /\ p # t
    <3>1. q \in Implied(es)
      BY <1>4, <2>1, <2>2, <2>4
    <3>2. IsPrefix(t, q) => IsPrefix(t, p)
      BY <2>1, <2>2, PrefixOrder
    <3> QED
      BY <1>5, <2>4, <3>1, <3>2
  <2> HIDE DEF Under
  <2> QED
    BY <1>1, <2>1, <2>3, <2>4
<1>7. ASSUME NEW q, q \in Implied(es) \/ q \in Parents(t), q # t, ~Under(q)
      PROVE  q \in Implied(more)
  <2>1. CASE q \in Parents(t)
    <3>1. t \in Owned(more)
      BY <1>1
    <3> QED
      BY <1>4, <2>1, <3>1
  <2>2. CASE q \in Implied(es)
    <3>1. PICK p \in Owned(es) : IsPrefix(q, p) /\ q # p
      BY <1>4, <2>2
    <3>2. q \in Path /\ q # <<>> /\ p \in Path /\ t \in Path
      BY <1>4, <2>2
    <3>3. CASE ~Under(p)
      <4>1. p \in Owned(more)
        BY <1>1, <3>3
      <4> QED
        BY <1>4, <3>1, <3>2, <4>1
    <3>4. CASE Under(p)
      <4>1. IsPrefix(t, p) /\ ~IsPrefix(t, q)
        BY <1>5, <1>7, <3>4
      <4>2. IsPrefix(q, t)
        BY <3>1, <3>2, <4>1, PrefixOrder
      <4>3. q \in Parents(t)
        BY <1>4, <1>7, <3>2, <4>2
      <4> QED
        BY <2>1, <4>3
    <3> QED
      BY <3>3, <3>4
  <2> QED
    BY <1>7, <2>1, <2>2
<1> HIDE DEF Under, old, new
<1>8. IsLayer(tree, es, l, old) /\ IsLayer(tree, more, l, new)
  BY LayerAt, Zenon DEF old, new
<1>9. \A q \in Parents(t) : q # t /\ ~Under(q) /\ (q \in DOMAIN old => old[q] = Dir)
  <2> TAKE q \in Parents(t)
  <2>1. q \in Path /\ IsPrefix(q, t) /\ q # t /\ t \in Path
    BY <1>4
  <2>2. ~IsPrefix(t, q)
    BY <2>1, PrefixOrder
  <2> QED
    BY <1>5, <2>1, <2>2 DEF old
<1>10. \A q : q \in DOMAIN new <=>
         (q \in DOMAIN old \union Parents(t) /\ ~Under(q)) \/ q = t
  <2>1. t \in DOMAIN new
    BY <1>1, <1>8 DEF IsLayer
  <2>2. ASSUME NEW q, q # t
        PROVE  q \in DOMAIN new <=> q \in DOMAIN old \union Parents(t) /\ ~Under(q)
    <3>1. q \in DOMAIN new <=>
            q \in Lower(tree, more) \/ q \in Owned(more) \/ q \in Implied(more)
      BY <1>8 DEF IsLayer
    <3>2. q \in DOMAIN old <=> q \in Lower(tree, es) \/ q \in Owned(es) \/ q \in Implied(es)
      BY <1>8 DEF IsLayer
    <3> QED
      BY <1>1, <1>2, <1>6, <1>7, <2>2, <3>1, <3>2
  <2> QED
    BY <2>1, <2>2
<1>11. new[t] = IF e.kind = "file" THEN File(l) ELSE Dir
  BY <1>1, <1>3, <1>8 DEF IsLayer
<1>12. ASSUME NEW q \in DOMAIN new \ {t}
       PROVE  new[q] = IF q \in DOMAIN old THEN old[q] ELSE Dir
  <2>0. q # t /\ ~Under(q) /\ (q \in DOMAIN old \/ q \in Parents(t))
    BY <1>10, <1>12
  <2>1. CASE q \in Owned(es)
    <3>1. q \in Owned(more) /\ q \in DOMAIN old /\ (EndsAsFile(more, q) <=> EndsAsFile(es, q))
      BY <1>1, <1>3, <1>8, <2>0, <2>1 DEF IsLayer
    <3> QED
      BY <1>8, <2>1, <3>1 DEF IsLayer
  <2>2. CASE q \notin Owned(es) /\ (q \in Implied(es) \/ q \in Parents(t))
    <3>1. q \notin Owned(more) /\ q \in Implied(more)
      BY <1>1, <1>7, <2>0, <2>2
    <3>2. new[q] = Dir
      BY <1>8, <3>1 DEF IsLayer
    <3>3. q \in DOMAIN old => old[q] = Dir
      BY <1>8, <1>9, <2>2 DEF IsLayer
    <3> QED
      BY <3>2, <3>3
  <2>3. CASE q \notin Owned(es) /\ q \notin Implied(es) /\ q \notin Parents(t)
    <3>1. q \in DOMAIN old /\ q \in Lower(tree, es)
      BY <1>8, <2>0, <2>3 DEF IsLayer
    <3>2. q \in Lower(tree, more) /\ q \notin Owned(more) /\ q \notin Implied(more)
      BY <1>1, <1>2, <1>6, <2>0, <2>3, <3>1
    <3>3. new[q] = tree[q] /\ old[q] = tree[q]
      BY <1>8, <2>3, <3>1, <3>2 DEF IsLayer
    <3> QED
      BY <3>1, <3>3
  <2> QED
    BY <2>1, <2>2, <2>3
<1>13. DOMAIN new = {q \in DOMAIN old \union Parents(t) :
                       e.kind = "file" => ~IsPrefix(t, q)} \union {t}
  <2>1. \A q : q # t => (Under(q) <=> ~(e.kind = "file" => ~IsPrefix(t, q)))
    BY <1>5
  <2> QED
    BY <1>10, <2>1
<1> QED
  BY <1>11, <1>12, <1>13 DEF Brings, more, old, new

\* Where there are no links a path is where its names say.
LEMMA LinklessJoin ==
  ASSUME NEW tree, IsTree(tree), Linkless(tree), NEW p \in Path,
         SecureJoin(tree, p).res = "inside"
  PROVE  SecureJoin(tree, p).at = p
<1>0. p \in Rest /\ Turns(p) \in Nat
  BY PathIsRest, WalkFromIn
<1>1. PICK f : SecureTurns(tree, p, f) /\ SecureJoin(tree, p) = f[Turns(p)]
  BY <1>0, SecureJoinIs
<1> DEFINE N == Turns(p)
<1> HIDE DEF N
<1>2. /\ \A k \in 0..N : f[k] \in Inner
      /\ f[0] = WalkFrom(p) /\ N \in Nat /\ f[N].res = "inside"
  BY <1>0, <1>1 DEF SecureTurns, N
<1>3. ASSUME NEW k \in Nat, k + 1 <= N
      PROVE  k \in 0..N /\ k + 1 \in 0..N /\ f[k + 1] = SecureStep(tree, f[k])
  <2>1. k + 1 \in 1..N /\ k \in 0..N /\ k + 1 \in 0..N
    BY <1>2, <1>3
  <2>2. PICK i \in 1..N : i = k + 1
    BY <2>1
  <2>3. i - 1 = k
    BY <2>2
  <2>4. f[i] = SecureStep(tree, f[i - 1])
    BY <1>1, Zenon DEF SecureTurns, N
  <2> QED
    BY <2>1, <2>2, <2>3, <2>4, Zenon
<1> DEFINE Splits(w) == w.rest \in Path /\ w.at \o w.rest = p
           S == {k \in Nat : k <= N /\ f[k].res = "inside" => Splits(f[k])}
<1>4. 0 \in S
  <2>1. f[0].rest = p /\ f[0].at = <<>>
    BY <1>2 DEF WalkFrom
  <2>2. <<>> \o p = p
    BY DEF Path
  <2> QED
    BY <2>1, <2>2
<1>5. ASSUME NEW k \in Nat, k \in S PROVE k + 1 \in S
  <2> SUFFICES ASSUME k + 1 <= N, f[k + 1].res = "inside" PROVE Splits(f[k + 1])
    <3> HIDE DEF Splits
    <3> QED
      OBVIOUS
  <2>1. PICK w \in Walks : w = f[k] /\ f[k + 1] = SecureStep(tree, w) /\ k <= N
    BY <1>2, <1>3 DEF Inner
  <2>2. CASE Finished(w)
    <3>1. f[k + 1] = w
      BY <2>1, <2>2 DEF SecureStep
    <3> QED
      BY <1>5, <2>1, <3>1
  <2>3. CASE ~Finished(w)
    <3>1. w.rest # <<>> /\ w.res = "inside"
      BY <2>3 DEF Finished
    <3>2. w.rest \in Path /\ w.at \o w.rest = p /\ w.at \in Path
      BY <1>5, <2>1, <3>1 DEF Walks
    <3>3. ~AtLink(tree, w)
      BY DEF AtLink, Is, Linkless
    <3>4. f[k + 1] = Enter(w) \/ f[k + 1] = Ends(w, "failed")
      BY <2>1, <2>3, <3>3 DEF SecureStep
    <3>5. f[k + 1] # Ends(w, "failed")
      BY EndsIs
    <3>6. f[k + 1].rest = Tail(w.rest) /\ f[k + 1].at = Append(w.at, Head(w.rest))
      <4>1. Head(w.rest) # Up
        BY <3>1, <3>2, HeadAndTail, NamesAssumption DEF Path
      <4> QED
        BY <3>1, <3>4, <3>5, <4>1, EnterIs, AheadIn
    <3>7. Tail(w.rest) \in Path /\ Append(w.at, Head(w.rest)) \o Tail(w.rest) = w.at \o w.rest
      <4>1. PICK a \in Path, r \in Path : a = w.at /\ r = w.rest /\ r # <<>>
        BY <3>1, <3>2
      <4>2. Tail(r) \in Path /\ Append(a, Head(r)) \o Tail(r) = a \o r
        <5>1. a \in Seq(Names) /\ r \in Seq(Names) /\ r # <<>>
          BY <4>1 DEF Path
        <5>2. Tail(r) \in Seq(Names) /\ Append(a, Head(r)) \o Tail(r) = a \o r
          BY <5>1, MoveHead, Zenon
        <5> QED
          BY <5>2 DEF Path
      <4> QED
        BY <4>1, <4>2, Zenon
    <3> QED
      BY <3>2, <3>6, <3>7
  <2> QED
    BY <2>2, <2>3
<1> HIDE DEF S
<1>6. N \in S /\ N <= N
  BY <1>2, <1>4, <1>5, Induct
<1>7. f[N].at \o f[N].rest = p
  BY <1>2, <1>6 DEF S
<1>8. f[N].rest = <<>>
  <2>1. Finished(f[N])
    BY <1>0, <1>1, WalksEnd DEF N
  <2> QED
    BY <1>2, <2>1 DEF Finished
<1>9. f[N].at \in Path
  BY <1>2 DEF Inner, Walks
<1>10. f[N].at \o <<>> = f[N].at
  BY <1>9 DEF Path
<1> QED
  BY <1>1, <1>7, <1>8, <1>10 DEF N

\* Trees with the same at every path are the same.
LEMMA SameTree ==
  ASSUME NEW S, NEW T, S = [q \in DOMAIN S |-> S[q]], T = [q \in DOMAIN T |-> T[q]],
         DOMAIN S = DOMAIN T, \A q \in DOMAIN S : S[q] = T[q]
  PROVE  S = T
OBVIOUS

\* A tree is a function.
LEMMA TreeIsFunction ==
  ASSUME NEW tree, IsTree(tree) PROVE tree = [q \in DOMAIN tree |-> tree[q]]
BY DEF IsTree

\* What a layer does to a tree without links has none either.
LEMMA LayerLinkless ==
  ASSUME NEW tree, Linkless(tree), NEW es, NEW l PROVE Linkless(LayerOver(tree, es, l))
<1> PICK T : T = LayerOver(tree, es, l)
  OBVIOUS
<1>1. IsLayer(tree, es, l, T)
  BY LayerAt, Zenon
<1>2. ASSUME NEW q \in DOMAIN T PROVE T[q].kind # "link"
  <2>1. CASE q \in Owned(es) \union Implied(es)
    <3>1. T[q] = File(l) \/ T[q] = Dir
      BY <1>1, <2>1 DEF IsLayer
    <3> QED
      BY <3>1 DEF File, Dir
  <2>2. CASE q \in Lower(tree, es) \ (Owned(es) \union Implied(es))
    <3>1. T[q] = tree[q] /\ q \in DOMAIN tree
      BY <1>1, <2>2 DEF IsLayer, Lower
    <3> QED
      BY <3>1 DEF Linkless
  <2> QED
    BY <1>1, <2>1, <2>2 DEF IsLayer
<1> QED
  BY <1>2 DEF Linkless

\* What the three kinds of step do to the tree is what LayerOver says of one entry more.
LEMMA RemovedNext ==
  ASSUME NEW tree, IsTree(tree), NEW es \in Entries, NEW e \in EntryTypes, NEW l,
         e.kind \in {"whiteout", "opaque"}, e.path \in Path,
         \A k \in Indices(es, Content) : ~Whited(<<e>>, es[k].path),
         IsTree(LayerOver(tree, es, l))
  PROVE  /\ e.kind = "whiteout" =>
              RemoveAll(LayerOver(tree, es, l), e.path) = LayerOver(tree, Append(es, e), l)
         /\ e.kind = "opaque" =>
              ClearDir(LayerOver(tree, es, l), e.path) = LayerOver(tree, Append(es, e), l)
<1> PICK old, new : old = LayerOver(tree, es, l) /\ new = LayerOver(tree, Append(es, e), l)
  OBVIOUS
<1>1. Takes(old, e, new)
  BY WhiteNext
<1>2. new = [q \in DOMAIN new |-> new[q]]
  <2>1. IsLayer(tree, Append(es, e), l, new)
    BY LayerAt, Zenon
  <2> QED
    BY <2>1 DEF IsLayer
<1>3. IsTree(old)
  OBVIOUS
<1>4. ASSUME e.kind = "whiteout" PROVE RemoveAll(old, e.path) = new
  <2>1. PICK less : less = RemoveAll(old, e.path)
    OBVIOUS
  <2>2. /\ IsTree(less) /\ DOMAIN less = {q \in DOMAIN old : ~IsPrefix(e.path, q)}
        /\ \A q \in DOMAIN less : less[q] = old[q]
    BY <1>3, <2>1, RemoveIs, Zenon
  <2>3. DOMAIN less = DOMAIN new
    BY <1>1, <1>4, <2>2 DEF Takes
  <2>4. less = [q \in DOMAIN less |-> less[q]]
    BY <2>2, TreeIsFunction
  <2>5. \A q \in DOMAIN less : less[q] = new[q]
    BY <1>1, <2>2, <2>3 DEF Takes
  <2> QED
    BY <1>2, <2>1, <2>3, <2>4, <2>5, SameTree
<1>5. ASSUME e.kind = "opaque" PROVE ClearDir(old, e.path) = new
  <2>1. PICK less : less = ClearDir(old, e.path)
    OBVIOUS
  <2>2. /\ IsTree(less) /\ DOMAIN less = {q \in DOMAIN old : ~IsStrictPrefix(e.path, q)}
        /\ \A q \in DOMAIN less : less[q] = old[q]
    BY <1>3, <2>1, ClearIs, Zenon
  <2>3. DOMAIN less = DOMAIN new
    BY <1>1, <1>5, <2>2 DEF Takes
  <2>4. less = [q \in DOMAIN less |-> less[q]]
    BY <2>2, TreeIsFunction
  <2>5. \A q \in DOMAIN less : less[q] = new[q]
    BY <1>1, <2>2, <2>3 DEF Takes
  <2> QED
    BY <1>2, <2>1, <2>3, <2>4, <2>5, SameTree
<1> QED
  BY <1>4, <1>5

\* Where directories can be made, what is there already are directories.
LEMMA ParentsAreDirs ==
  ASSUME NEW tree, IsTree(tree), NEW p \in Paths, CanMkdir(tree, Front(p))
  PROVE  \A q \in Parents(p) : q \in DOMAIN tree => tree[q] = Dir
<1>1. \A q \in Parents(p) : q \in DOMAIN tree => q # <<>> /\ IsDir(tree, q)
  BY FrontOfPath DEF CanMkdir
<1>2. \A q \in Parents(p) : q \in DOMAIN tree => tree[q].kind = "dir"
  BY <1>1 DEF IsDir, Is
<1> QED
  BY <1>2, TreeIs, NodeIs

\* A file.
LEMMA FileNext ==
  ASSUME NEW tree, IsTree(tree), NEW es \in Entries, NEW e \in EntryTypes, NEW l \in Nat,
         e.kind = "file", IsTree(LayerOver(tree, es, l)),
         CanMkdir(LayerOver(tree, es, l), Front(e.path))
  PROVE  Replaced(LayerOver(tree, es, l), Front(e.path), e.path, File(l))
           = LayerOver(tree, Append(es, e), l)
<1> PICK old, new : old = LayerOver(tree, es, l) /\ new = LayerOver(tree, Append(es, e), l)
  OBVIOUS
<1>0. e.path \in Paths /\ e.kind \in Content /\ IsTree(old) /\ File(l) \in Nodes
  BY DEF EntryTypes, Content, Nodes
<1>1. \A q \in Parents(e.path) : q \in DOMAIN old => old[q] = Dir
  BY <1>0, ParentsAreDirs
<1>2. Brings(old, e, l, new)
  BY <1>0, <1>1, ContentNext, Zenon
<1>3. new = [q \in DOMAIN new |-> new[q]]
  <2>1. IsLayer(tree, Append(es, e), l, new)
    BY LayerAt, Zenon
  <2> QED
    BY <2>1 DEF IsLayer
<1>4. PICK made : made = MkdirAll(old, Front(e.path))
  OBVIOUS
<1>5. IsTree(made) /\ Adds(old, Parents(e.path), made)
  <2>1. Front(e.path) \in Path /\ Prefixes(Front(e.path)) \ {<<>>} = Parents(e.path)
    BY <1>0, FrontOfPath
  <2>2. /\ IsTree(MkdirAll(old, Front(e.path)))
        /\ Adds(old, Prefixes(Front(e.path)) \ {<<>>}, MkdirAll(old, Front(e.path)))
    BY <1>0, <2>1, MkdirIs
  <2> QED
    BY <1>4, <2>1, <2>2
<1>6. PICK less : less = RemoveAll(made, e.path)
  OBVIOUS
<1>7. /\ IsTree(less) /\ DOMAIN less = {q \in DOMAIN made : ~IsPrefix(e.path, q)}
      /\ \A q \in DOMAIN less : less[q] = made[q]
  BY <1>5, <1>6, RemoveIs
<1>8. PICK put : put = Put(less, e.path, File(l))
  OBVIOUS
<1>9. /\ IsTree(put) /\ DOMAIN put = DOMAIN less \union {e.path} /\ put[e.path] = File(l)
      /\ \A q \in DOMAIN less \ {e.path} : put[q] = less[q]
  <2>1. PICK node \in Nodes, p \in Paths : node = File(l) /\ p = e.path
    BY <1>0
  <2>2. IsTree(Put(less, p, node)) /\ Puts(less, p, node, Put(less, p, node))
    BY <1>7, PutIs, Zenon
  <2> QED
    BY <1>8, <2>1, <2>2 DEF Puts
<1>10. DOMAIN put = DOMAIN new
  BY <1>2, <1>5, <1>7, <1>9 DEF Adds, Brings
<1>11. \A q \in DOMAIN put : put[q] = new[q]
  BY <1>2, <1>5, <1>7, <1>9, <1>10 DEF Adds, Brings
<1>12. put = [q \in DOMAIN put |-> put[q]]
  BY <1>9, TreeIsFunction
<1>13. put = new
  BY <1>3, <1>10, <1>11, <1>12, SameTree
<1> QED
  BY <1>4, <1>6, <1>8, <1>13 DEF Replaced

\* A directory.
LEMMA DirNext ==
  ASSUME NEW tree, IsTree(tree), NEW es \in Entries, NEW e \in EntryTypes, NEW l,
         e.kind = "dir", IsTree(LayerOver(tree, es, l)),
         CanMkdir(LayerOver(tree, es, l), Front(e.path)),
         ~Is(LayerOver(tree, es, l), e.path, "file"), ~Is(LayerOver(tree, es, l), e.path, "link")
  PROVE  MkdirAll(LayerOver(tree, es, l), e.path) = LayerOver(tree, Append(es, e), l)
<1> PICK old, new : old = LayerOver(tree, es, l) /\ new = LayerOver(tree, Append(es, e), l)
  OBVIOUS
<1>0. e.path \in Paths /\ e.path \in Path /\ e.kind \in Content /\ e.kind # "file" /\ IsTree(old)
  BY DEF EntryTypes, Content, Paths, Path
<1>1. \A q \in Parents(e.path) : q \in DOMAIN old => old[q] = Dir
  BY <1>0, ParentsAreDirs
<1>2. Brings(old, e, l, new)
  BY <1>0, <1>1, ContentNext, Zenon
<1>3. new = [q \in DOMAIN new |-> new[q]]
  <2>1. IsLayer(tree, Append(es, e), l, new)
    BY LayerAt, Zenon
  <2> QED
    BY <2>1 DEF IsLayer
<1>4. PICK made : made = MkdirAll(old, e.path)
  OBVIOUS
<1>5. IsTree(made) /\ Adds(old, Parents(e.path) \union {e.path}, made)
  <2>1. Prefixes(e.path) \ {<<>>} = Parents(e.path) \union {e.path}
    BY <1>0, FrontOfPath
  <2>2. /\ IsTree(MkdirAll(old, e.path))
        /\ Adds(old, Prefixes(e.path) \ {<<>>}, MkdirAll(old, e.path))
    BY <1>0, MkdirIs
  <2> QED
    BY <1>4, <2>1, <2>2
<1>6. e.path \in DOMAIN old => old[e.path] = Dir
  <2>1. e.path \in DOMAIN old => old[e.path].kind = "dir" /\ old[e.path] \in Nodes
    BY <1>0, TreeIs, NodeIs DEF Is
  <2> QED
    BY <2>1, NodeIs
<1>7. DOMAIN made = DOMAIN new
  BY <1>0, <1>2, <1>5 DEF Adds, Brings
<1>8. \A q \in DOMAIN made : made[q] = new[q]
  BY <1>0, <1>2, <1>5, <1>6, <1>7 DEF Adds, Brings
<1>9. made = [q \in DOMAIN made |-> made[q]]
  BY <1>5, TreeIsFunction
<1> QED
  BY <1>3, <1>4, <1>7, <1>8, <1>9, SameTree

\* The layers whose changeset LayerOver describes, and how far one has got: what is
\* done and what is to do are its entries, and the tree is what the former make of
\* the one there was.
Plain ==
  /\ layer.kind = "tar" /\ Linkless(base)
  /\ Indices(layer.entries, {"link", "hard"}) = {}
  /\ WhiteoutsFirst(layer.entries) /\ WhiteoutsNamed(layer.entries)
Extracted(done) ==
  /\ done \in Entries /\ layer.entries = done \o todo
  /\ Plain => fs = LayerOver(base, done, n)
Extracting ==
  /\ build = "between" => todo = <<>>
  /\ build # "failed" => \E done : Extracted(done)

\* What is known of an entry of such a layer.
LEMMA PlainEntry ==
  ASSUME Typed, Plain, NEW done, Extracted(done), NEW kinds, At(kinds)
  PROVE  /\ Entry.kind \notin {"link", "hard"} /\ Linkless(fs) /\ fs = LayerOver(base, done, n)
         /\ Entry.kind = "whiteout" => Last(Entry.path) \in Names
         /\ Entry.path \in Path
         /\ Entry.kind \in {"whiteout", "opaque"} =>
              \A k \in Indices(done, Content) : ~Whited(<<Entry>>, done[k].path)
         /\ "opaque" \notin kinds => ParentOf(Entry).res # "outside"
         /\ "opaque" \notin kinds /\ ParentOf(Entry).res = "inside" =>
              ParentOf(Entry).at = Front(Entry.path) /\ Target(Entry) = Entry.path
<1>0. /\ todo \in Entries /\ todo # <<>> /\ done \in Entries /\ layer.entries = done \o todo
      /\ IsTree(fs) /\ layer.kind = "tar" /\ fs = LayerOver(base, done, n)
  BY DEF Typed, Extracted, At, Plain, Entries
<1>1. PICK es \in Entries : es = layer.entries
  BY DEF Typed, Entries
<1>2. /\ Len(done) \in Nat /\ Len(done) + 1 \in 1..Len(es) /\ es[Len(done) + 1] = Entry
      /\ Len(done) + 1 \in DOMAIN es
  <2>1. (done \o todo)[Len(done) + 1] = Head(todo) /\ Len(done) + 1 \in 1..Len(done \o todo)
    BY <1>0, MoveHead DEF Entries
  <2>2. DOMAIN es = 1..Len(es) /\ Len(done) \in Nat
    BY <1>0 DEF Entries
  <2> QED
    BY <1>0, <1>1, <2>1, <2>2 DEF Entry
<1>3. Entry.kind \notin {"link", "hard"}
  <2>1. Indices(es, {"link", "hard"}) = {}
    BY <1>1 DEF Plain
  <2> QED
    BY <1>2, <2>1, IndexIn
<1>4. Entry.kind = "whiteout" => Last(Entry.path) \in Names
  <2>1. WhiteoutsNamed(es)
    BY <1>1 DEF Plain
  <2> QED
    BY <1>2, <2>1, IndexIn DEF WhiteoutsNamed
<1>5. Entry.path \in Path /\ ("opaque" \notin kinds => Entry.path \in Paths)
  <2>1. At({Entry.kind}) /\ Entry.kind \in kinds
    BY DEF At
  <2>2. /\ "whiteout" \notin {Entry.kind} \/ Last(Entry.path) \in Names
        /\ "opaque" \notin kinds => "opaque" \notin {Entry.kind}
    BY <1>4, <2>1
  <2> QED
    BY <2>1, <2>2, EntryIs
<1>6. Linkless(fs)
  BY <1>0, LayerLinkless DEF Plain
<1>7. ASSUME Entry.kind \in {"whiteout", "opaque"}, NEW k \in Indices(done, Content)
      PROVE  ~Whited(<<Entry>>, done[k].path)
  <2>1. k \in 1..Len(done) /\ done[k].kind \in Content
    BY <1>0, IndexIn
  <2>2. es[k] = done[k]
    BY <1>0, <1>1, <2>1, Concat DEF Entries
  <2>3. k \in DOMAIN es /\ k < Len(done) + 1
    BY <1>2, <2>1 DEF Entries
  <2>4. PICK i \in DOMAIN es : i = Len(done) + 1
    BY <1>2
  <2>5. WhiteoutsFirst(es)
    BY <1>1 DEF Plain
  <2>6. k < i /\ es[k].kind \in Content => ~Whited(<<es[i]>>, es[k].path)
    BY <2>3, <2>5, Zenon DEF WhiteoutsFirst
  <2> QED
    BY <1>2, <2>1, <2>2, <2>3, <2>4, <2>6
<1>8. ASSUME "opaque" \notin kinds
      PROVE  /\ ParentOf(Entry).res # "outside"
             /\ ParentOf(Entry).res = "inside" =>
                  ParentOf(Entry).at = Front(Entry.path) /\ Target(Entry) = Entry.path
  <2>1. Entry.path \in Paths
    BY <1>8, <1>5
  <2>2. Front(Entry.path) \in Path /\ Append(Front(Entry.path), Last(Entry.path)) = Entry.path
    BY <2>1, FrontOfPath
  <2>3. ParentOf(Entry) = SecureJoin(fs, Front(Entry.path))
    BY <1>0 DEF ParentOf
  <2>4. ParentOf(Entry).res = "inside" => ParentOf(Entry).at = Front(Entry.path)
    BY <1>0, <1>6, <2>2, <2>3, LinklessJoin
  <2>5. ParentOf(Entry).res # "outside"
    BY <1>0, <1>8, TargetIs
  <2> QED
    BY <2>2, <2>4, <2>5 DEF Target
<1> QED
  BY <1>0, <1>3, <1>6, <1>7, <1>8, <1>4, <1>5

\* One entry more is done.
LEMMA Handled ==
  ASSUME Typed, Extracting, build = "in", todo # <<>>,
         UNCHANGED <<n, layer, base, build>>, todo' = Tail(todo),
         \A done : Plain /\ Extracted(done) => fs' = LayerOver(base, Append(done, Entry), n)
  PROVE  Extracting'
<1>1. PICK done : Extracted(done)
  BY DEF Extracting
<1>2. /\ todo \in Entries /\ done \in Entries /\ layer.entries = done \o todo
  BY <1>1 DEF Typed, Extracted, Entries
<1>3. PICK next \in Entries : next = Append(done, Entry) /\ next \o Tail(todo) = done \o todo
  <2>1. /\ Append(done, Head(todo)) \in Entries
        /\ Append(done, Head(todo)) \o Tail(todo) = done \o todo
    <3>1. done \in Seq(EntryTypes) /\ todo \in Seq(EntryTypes) /\ todo # <<>>
      BY <1>2 DEF Entries
    <3>2. /\ Append(done, Head(todo)) \in Seq(EntryTypes)
          /\ Append(done, Head(todo)) \o Tail(todo) = done \o todo
      BY <3>1, MoveHead, Zenon
    <3> QED
      BY <3>2 DEF Entries
  <2> QED
    BY <2>1 DEF Entry
<1>4. Plain' <=> Plain
  BY DEF Plain
<1>5. Plain => fs' = LayerOver(base, next, n)
  BY <1>1, <1>3
<1>6. Plain' => fs' = LayerOver(base', next, n')
  BY <1>4, <1>5
<1>7. Extracted(next)'
  BY <1>2, <1>3, <1>6 DEF Extracted
<1> QED
  BY <1>7 DEF Extracting

\* Of a build that has failed nothing is said.
LEMMA Failed == ASSUME NEW tree, FailsWith(tree) PROVE Extracting'
BY DEF FailsWith, Extracting

\* It holds at the start.
LEMMA InitExtracting == Init => Extracting
<1> SUFFICES ASSUME Init PROVE Extracting
  OBVIOUS
<1>1. todo = <<>> /\ layer.entries = <<>> /\ layer.kind = "none"
  BY DEF Init
<1>2. Extracted(<<>>)
  BY <1>1 DEF Extracted, Plain, Entries
<1> QED
  BY <1>1, <1>2 DEF Extracting

\* Every step keeps it.
LEMMA NextExtracting == Typed /\ Extracting /\ [Next]_vars => Extracting'
<1> SUFFICES ASSUME Typed, Extracting, [Next]_vars PROVE Extracting'
  OBVIOUS
<1>0. IsTree(fs) /\ IsTree(base) /\ n \in Nat
  BY BoundsAssumption DEF Typed
<1>1. CASE UNCHANGED vars
  BY <1>1 DEF vars, Extracting, Extracted, Plain
<1>2. ASSUME NEW l \in Layers, BeginLayer(l) PROVE Extracting'
  <2>1. l.entries \in Entries /\ <<>> \in Entries /\ <<>> \o l.entries = l.entries
    BY LayersAssumption DEF Entries
  <2>2. LayerOver(fs, <<>>, n') = fs
    <3>1. PICK T, none : T = LayerOver(fs, none, n') /\ none = <<>>
      OBVIOUS
    <3>2. IsLayer(fs, none, n', T)
      BY <3>1, LayerAt, Zenon
    <3>3. \A kinds : Indices(none, kinds) = {}
      BY <3>1 DEF Indices
    <3>4. Owned(none) = {} /\ Implied(none) = {}
      BY <3>3 DEF Owned, Implied
    <3>5. Lower(fs, none) = DOMAIN fs
      BY <3>3 DEF Lower, Whited, Hidden
    <3>6. DOMAIN T = DOMAIN fs /\ \A q \in DOMAIN T : T[q] = fs[q]
      BY <3>2, <3>4, <3>5 DEF IsLayer
    <3>7. T = [q \in DOMAIN T |-> T[q]] /\ fs = [q \in DOMAIN fs |-> fs[q]]
      BY <1>0, <3>2, TreeIsFunction DEF IsLayer
    <3> QED
      BY <3>1, <3>6, <3>7, SameTree
  <2>3. PICK none : none = <<>>
    OBVIOUS
  <2>4. Extracted(none)'
    BY <1>2, <2>1, <2>2, <2>3 DEF BeginLayer, Extracted
  <2> QED
    BY <1>2, <2>4 DEF BeginLayer, Extracting
<1>3. CASE EndLayer
  BY <1>3 DEF EndLayer, Extracting, Extracted, Plain
<1>4. CASE Unresolved \/ NotADirectory
  BY <1>4, Failed DEF Unresolved, NotADirectory
<1>5. CASE EntryOutside
  <2>1. At({"dir", "file", "link"}) /\ ParentOf(Entry).res = "outside"
    BY <1>5 DEF EntryOutside
  <2>2. \A done : ~(Plain /\ Extracted(done))
    BY <2>1, PlainEntry
  <2>3. CASE build' = "failed"
    BY <2>3 DEF Extracting
  <2>4. CASE todo' = Tail(todo) /\ UNCHANGED <<n, layer, base, build>>
    <3>1. build = "in" /\ todo # <<>>
      BY <2>1 DEF At
    <3> QED
      BY <2>2, <2>4, <3>1, Handled
  <2> QED
    BY <1>5, <2>3, <2>4 DEF EntryOutside
<1>6. ASSUME NEW kinds, At(kinds), NEW tree, Becomes(tree),
             \A done : Plain /\ Extracted(done) => tree = LayerOver(base, Append(done, Entry), n)
      PROVE  Extracting'
  <2>1. /\ build = "in" /\ todo # <<>> /\ UNCHANGED <<n, layer, base, build>>
        /\ todo' = Tail(todo) /\ fs' = tree
    BY <1>6 DEF At, Becomes
  <2> QED
    BY <1>6, <2>1, Handled
<1>7. CASE Whiteout
  <2>1. /\ At({"whiteout"}) /\ ParentOf(Entry).res = "inside"
        /\ \/ FailsWith(fs) \/ Becomes(RemoveAll(fs, WhiteoutTarget(Entry)))
           \/ FailsWith(RemoveAll(fs, WhiteoutTarget(Entry)))
    BY <1>7 DEF Whiteout
  <2>2. ASSUME NEW done, Plain, Extracted(done)
        PROVE  RemoveAll(fs, WhiteoutTarget(Entry)) = LayerOver(base, Append(done, Entry), n)
    <3>1. /\ done \in Entries /\ Entry \in EntryTypes /\ Entry.kind = "whiteout"
          /\ Last(Entry.path) \in Names /\ Entry.path \in Path
      BY <2>1, <2>2, EntryIs, PlainEntry DEF Extracted
    <3>2. WhiteoutTarget(Entry) = Target(Entry)
      BY <1>7, <2>1, <3>1, WhiteoutIs DEF Whiteout
    <3>3. /\ fs = LayerOver(base, done, n) /\ WhiteoutTarget(Entry) = Entry.path
          /\ \A k \in Indices(done, Content) : ~Whited(<<Entry>>, done[k].path)
      BY <2>1, <2>2, <3>1, <3>2, PlainEntry
    <3> QED
      BY <1>0, <3>1, <3>3, RemovedNext
  <2> QED
    BY <1>6, <2>1, <2>2, Failed
<1>14. CASE WhiteoutAbove
  <2>1. At({"whiteout"}) /\ ClimbsOut(Entry) /\ build = "in" /\ todo # <<>>
    BY <1>14 DEF WhiteoutAbove, At
  <2>2. \A done : ~(Plain /\ Extracted(done))
    <3> SUFFICES ASSUME NEW done, Plain, Extracted(done) PROVE FALSE
      OBVIOUS
    <3>1. Entry.kind = "whiteout" /\ Last(Entry.path) = Up
      BY <2>1 DEF ClimbsOut
    <3>2. Last(Entry.path) \in Names
      BY <2>1, <3>1, PlainEntry
    <3> QED
      BY <3>1, <3>2, NamesAssumption
  <2>3. CASE build' = "failed"
    BY <2>3 DEF Extracting
  <2>4. CASE todo' = Tail(todo) /\ UNCHANGED <<n, layer, base, build>>
    BY <2>1, <2>2, <2>4, Handled
  <2> QED
    BY <1>14, <2>3, <2>4 DEF WhiteoutAbove
<1>8. CASE Opaque
  <2> DEFINE dir == SecureJoin(fs, Entry.path)
  <2>1. /\ At({"opaque"})
        /\ FailsWith(fs) \/ (dir.res # "failed" /\ Becomes(ClearDir(fs, dir.at)))
    BY <1>8 DEF Opaque
  <2>2. ASSUME NEW done, Plain, Extracted(done), dir.res # "failed"
        PROVE  ClearDir(fs, dir.at) = LayerOver(base, Append(done, Entry), n)
    <3>1. done \in Entries /\ Entry \in EntryTypes /\ Entry.kind = "opaque" /\ Entry.path \in Path
      BY <2>1, <2>2, EntryIs DEF Extracted
    <3>2. /\ fs = LayerOver(base, done, n) /\ Linkless(fs)
          /\ \A k \in Indices(done, Content) : ~Whited(<<Entry>>, done[k].path)
      BY <2>1, <2>2, <3>1, PlainEntry
    <3>3. dir.res = "inside" /\ dir.at = Entry.path
      <4>1. dir.res # "outside" /\ dir.res \in {"inside", "failed", "outside"}
        BY <1>0, <3>1, JoinIn, PathIsRest DEF Walks
      <4>2. dir.res = "inside"
        BY <2>2, <4>1
      <4> QED
        BY <1>0, <3>1, <3>2, <4>2, LinklessJoin
    <3> QED
      BY <1>0, <3>1, <3>2, <3>3, RemovedNext
  <2> HIDE DEF dir
  <2>3. CASE FailsWith(fs)
    BY <2>3, Failed
  <2>4. CASE dir.res # "failed" /\ Becomes(ClearDir(fs, dir.at))
    BY <1>6, <2>1, <2>2, <2>4
  <2> QED
    BY <2>1, <2>3, <2>4
<1>9. ASSUME NEW kinds, Ready(kinds), "opaque" \notin kinds, NEW done, Plain, Extracted(done)
      PROVE  /\ done \in Entries /\ Entry \in EntryTypes /\ Entry.kind \in kinds
             /\ Entry.kind \notin {"link", "hard"} /\ Linkless(fs)
             /\ fs = LayerOver(base, done, n) /\ CanMkdir(fs, Front(Entry.path))
             /\ ParentOf(Entry).at = Front(Entry.path) /\ Target(Entry) = Entry.path
  <2>1. At(kinds) /\ ParentOf(Entry).res = "inside" /\ CanMkdir(fs, ParentOf(Entry).at)
    BY <1>9 DEF Ready
  <2>2. done \in Entries /\ Entry \in EntryTypes /\ Entry.kind \in kinds
    BY <1>9, <2>1, EntryIs DEF Extracted
  <2>3. /\ Entry.kind \notin {"link", "hard"} /\ Linkless(fs) /\ fs = LayerOver(base, done, n)
        /\ ParentOf(Entry).at = Front(Entry.path) /\ Target(Entry) = Entry.path
    BY <1>9, <2>1, PlainEntry
  <2> QED
    BY <2>1, <2>2, <2>3
<1>10. CASE DirEntry
  <2> DEFINE t == Target(Entry)
  <2>1. /\ Ready({"dir"}) /\ ~Is(fs, t, "link") /\ At({"dir"})
        /\ FailsWith(Made) \/ (~Is(fs, t, "file") /\ Becomes(MkdirAll(fs, t)))
    BY <1>10, Zenon DEF DirEntry, Ready
  <2>2. ASSUME ~Is(fs, t, "file"), NEW done, Plain, Extracted(done)
        PROVE  MkdirAll(fs, t) = LayerOver(base, Append(done, Entry), n)
    <3>1. /\ done \in Entries /\ Entry \in EntryTypes /\ Entry.kind = "dir"
          /\ fs = LayerOver(base, done, n) /\ CanMkdir(fs, Front(Entry.path)) /\ t = Entry.path
      BY <1>9, <2>1, <2>2
    <3> QED
      BY <1>0, <2>1, <2>2, <3>1, DirNext
  <2> HIDE DEF t
  <2>3. CASE FailsWith(Made)
    BY <2>3, Failed
  <2>4. CASE ~Is(fs, t, "file") /\ Becomes(MkdirAll(fs, t))
    BY <1>6, <2>1, <2>2, <2>4
  <2> QED
    BY <2>1, <2>3, <2>4
<1>11. CASE DirOverLink
  <2>1. Ready({"dir"}) /\ At({"dir"}) /\ Is(fs, Target(Entry), "link")
    BY <1>11, Zenon DEF DirOverLink, Ready
  <2>2. \A done : ~(Plain /\ Extracted(done))
    BY <1>9, <2>1 DEF Is, Linkless
  <2>3. \/ FailsWith(Made)
        \/ todo' = Tail(todo) /\ UNCHANGED <<n, layer, base, build>>
    BY <1>11, Zenon DEF DirOverLink, Becomes
  <2>4. build = "in" /\ todo # <<>>
    BY <2>1 DEF At
  <2> QED
    BY <2>2, <2>3, <2>4, Handled, Failed
<1>12. CASE FileEntry
  <2>1. /\ Ready({"file"}) /\ At({"file"})
        /\ Becomes(Replaced(fs, ParentOf(Entry).at, Target(Entry), File(n)))
    BY <1>12 DEF FileEntry, Replaced, Made, Ready
  <2>2. ASSUME NEW done, Plain, Extracted(done)
        PROVE  Replaced(fs, ParentOf(Entry).at, Target(Entry), File(n))
                 = LayerOver(base, Append(done, Entry), n)
    <3>1. /\ done \in Entries /\ Entry \in EntryTypes /\ Entry.kind = "file"
          /\ fs = LayerOver(base, done, n) /\ CanMkdir(fs, Front(Entry.path))
          /\ ParentOf(Entry).at = Front(Entry.path) /\ Target(Entry) = Entry.path
      BY <1>9, <2>1, <2>2
    <3> QED
      BY <1>0, <3>1, FileNext
  <2> QED
    BY <1>6, <2>1, <2>2
<1>13. CASE LinkEntry \/ HardLinkEntry
  <2>1. PICK kinds : Ready(kinds) /\ At(kinds) /\ kinds \in {{"link"}, {"hard"}}
    BY <1>13, Zenon DEF LinkEntry, HardLinkEntry, Ready
  <2>2. \A done : ~(Plain /\ Extracted(done))
    BY <1>9, <2>1
  <2>3. \/ \E tree : FailsWith(tree)
        \/ todo' = Tail(todo) /\ UNCHANGED <<n, layer, base, build>>
    BY <1>13, Zenon DEF LinkEntry, HardLinkEntry, Becomes
  <2>4. build = "in" /\ todo # <<>>
    BY <2>1 DEF At
  <2> QED
    BY <2>2, <2>3, <2>4, Handled, Failed
<1> QED
  BY <1>1, <1>2, <1>3, <1>4, <1>5, <1>7, <1>8, <1>10, <1>11, <1>12, <1>13,
    <1>14 DEF Next

\* Whatever layer of an image is extracted, if its tree and its entries have no links and
\* its whiteouts come first and name something: the tree has become what its changeset
\* says of the one before.
THEOREM LayersFlatten == Spec => []Flattens
<1>1. Extracting => Flattens
  <2> SUFFICES ASSUME Extracting, build = "between", Plain
               PROVE  fs = LayerOver(base, layer.entries, n)
    BY DEF Flattens, Plain
  <2>1. PICK done : Extracted(done)
    BY DEF Extracting
  <2>2. done \in Entries /\ layer.entries = done \o todo /\ todo = <<>>
    BY <2>1 DEF Extracting, Extracted
  <2>3. layer.entries = done
    BY <2>2 DEF Entries
  <2> QED
    BY <2>1, <2>3 DEF Extracted
<1> QED
  BY <1>1, InitExtracting, NextExtracting, TypedAlways, PTL DEF Spec
=============================================================================
