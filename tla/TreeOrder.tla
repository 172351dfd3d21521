----------------------------- MODULE TreeOrder ------------------------------
(***************************************************************************)
(* holytools dependency-order on a tree at rest: the graph the walk of     *)
(* DependencyOrder gets is the one the include statements of the tree      *)
(* resolve to.                                                             *)
(***************************************************************************)
EXTENDS DependencyOrder, IncludeResolution

CONSTANTS Root,    \* the path given on the command line
          PathOf,  \* the path of each file, increasing
          Texts    \* the include lists a file may have

ASSUME PathAssumption == DOMAIN PathOf = Files

VARIABLE disk

Paths == {PathOf[f] : f \in Files}

\* The resolved includes of a file: a scanned file when the path is textually
\* the path of one, else a path outside the scan.
ResolvedIn(tree, f) ==
  LET targets == Range(tree[PathOf[f]])
      paths == {ResolveInclude(tree, Root, PathOf[f], t) : t \in targets} \ {None}
  IN  {g \in Files : PathOf[g] \in paths}
        \cup (IF paths \subseteq Paths THEN {} ELSE Outside)

TreeInit ==
  /\ disk \in [Paths -> Texts]
  /\ resolved = [f \in Files |-> ResolvedIn(disk, f)]
  /\ Init

TreeNext == Next /\ UNCHANGED disk

TreeSpec == TreeInit /\ [][TreeNext]_<<vars, disk>> /\ WF_<<vars, disk>>(TreeNext)

-----------------------------------------------------------------------------
\* The scanned files a file includes, as the file system sees it.
IncludedOnDisk(f) ==
  {g \in Files : \E t \in Range(disk[PathOf[f]]) :
      LET path == ResolveInclude(disk, Root, PathOf[f], t)
      IN  path # None /\ SameFile(path, PathOf[g])}

\* DOCS.md on dependency-order: "Headers and included files appear before the
\* files that depend on them", where no include cycle stands in the way.
IncludedFilesAppearFirst ==
  LET onDisk == [f \in Files |-> IncludedOnDisk(f)]
  IN  Acyclic(onDisk) =>
        \A i \in DOMAIN ordered : \A g \in onDisk[ordered[i]] :
           \E j \in DOMAIN ordered : j < i /\ ordered[j] = g

SpelledLikeTheScan ==
  \A f \in Files : \A t \in Range(disk[PathOf[f]]) :
    LET path == ResolveInclude(disk, Root, PathOf[f], t)
    IN  \A g \in Files : (path # None /\ SameFile(path, PathOf[g])) => path = PathOf[g]

\* It is so for trees whose includes spell paths as the scan does.
PlainIncludesAppearFirst == SpelledLikeTheScan => IncludedFilesAppearFirst
=============================================================================
