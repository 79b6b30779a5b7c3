------------------------------ MODULE MCExtract ------------------------------
(* Layers of up to two entries for model-checking Extract.                 *)
EXTENDS Extract

A == <<"a">>
B == <<"b">>
AB == <<"a", "b">>

E(kind, path) == [kind |-> kind, path |-> path]
L(path, abs, to) == [kind |-> "link", path |-> path, abs |-> abs, to |-> to]

Entries ==
  {E("file", p) : p \in {A, B, AB}} \union {E("dir", p) : p \in {A, AB}}
  \union {E("whiteout", p) : p \in {A, AB, <<Up>>, <<"a", Up>>, <<"a", Here>>}}
  \union {E("opaque", p) : p \in {<<>>, A}}
  \union {L(A, FALSE, B), L(B, TRUE, A), L(AB, FALSE, <<Up, "b">>), L(A, FALSE, <<"b", Up>>)}
  \union {[kind |-> "hard", path |-> AB, to |-> to] : to \in {B, <<Up, "b">>}}

Tar(es) == [kind |-> "tar", entries |-> es]

MCNames == {"a", "b"}
MCLayers ==
  {Tar(<<e>>) : e \in Entries} \union {Tar(<<e, f>>) : e, f \in Entries}
  \union {[kind |-> "directory", entries |-> es] :
            es \in {<<E("dir", A), E("file", AB)>>, <<E("dir", B), L(AB, FALSE, B)>>}}
=============================================================================
