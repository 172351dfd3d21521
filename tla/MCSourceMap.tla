---------------------------- MODULE MCSourceMap -----------------------------
(***************************************************************************)
(* A tree T with a subdirectory A: T/M.HC, T/B.HC and T/A/B.HC may exist,  *)
(* so the include "B" of A/B or of M has a near and a root candidate; O.HC *)
(* lies outside the tree and is named by an absolute target.  T may also   *)
(* be a file that holds an include of its neighbour O.                     *)
(***************************************************************************)
EXTENDS SourceMap

T  == <<"T">>
A  == <<"T", "A">>
M  == <<"T", "M">>
B  == <<"T", "B">>
AB == <<"T", "A", "B">>
O  == <<"O">>

MCCommands == {"scan", "include-graph", "resolve-includes", "missing-includes",
               "reverse-includes", "entrypoints", "dependency-order", "source-map"}
EntrypointsOnly == {"entrypoints"}

MCDirs == {<<>>, T, A}
MCPlaces == {T, M, B, AB, O}
MCHoly == {T, M, B, AB}

\* The file system of Windows: "b" finds "B".
MCFoldName(name) == IF name = "b" THEN "B" ELSE name

\* Path order: T, T/A/B, T/B, T/M.
Rank(p) == CASE p = T -> 0 [] p = AB -> 1 [] p = B -> 2 [] p = M -> 3 [] OTHER -> 4
MCPathLess(p, q) == Rank(p) < Rank(q)

Rel(path) == [absolute |-> FALSE, path |-> path]
Abs(path) == [absolute |-> TRUE, path |-> path]

\* Targets spelled as the scan spells the files they lead to.
Plain == <<Rel(<<"B">>)>>
Far == <<Rel(<<"A", "B">>), Abs(O)>>
PlainTexts == {<<>>, Plain, Far}

Tree(files, folders) == [files |-> files, dirs |-> folders, closed |-> {}, barred |-> {}]

\* Every tree of files in these directories with these texts.
AllTrees(places, texts) ==
  {Tree(files, MCDirs) : files \in
     {f \in UNION {[F -> texts] : F \in SUBSET places} : \A p \in DOMAIN f : MayHold(p, f[p])}}

\* M includes A/B and O, A/B includes the B beside it and B includes itself,
\* but for the files that are left out.
Neighbours == M :> Far @@ AB :> Plain @@ B :> Plain @@ O :> <<>>
Without(gone) == Tree([p \in DOMAIN Neighbours \ gone |-> Neighbours[p]], MCDirs)
Whole == Without({})

\* The trees without some of these files; trees with something locked or
\* impassable; T as a file, and nothing at T at all.
MCTrees ==
  {Without(gone) : gone \in SUBSET (MCPlaces \ {T})}
    \cup {[Whole EXCEPT !.closed = {p}] : p \in {A, M, O}}
    \cup {[Whole EXCEPT !.barred = {d}] : d \in {T, A}}
    \cup {Tree(T :> Plain @@ O :> <<>>, {<<>>}), Tree(O :> <<>>, {<<>>})}

\* Targets that reach a scanned file under another spelling.
SpelledTexts == {<<>>, <<Rel(<<"b">>)>>, <<Rel(<<"A", Up, "B">>)>>}
SpelledTrees == AllTrees(MCPlaces \ {T}, SpelledTexts)
=============================================================================
