-------------------------- MODULE IncludeResolution -------------------------
(***************************************************************************)
(* Paths, and how holytools turns an include target into a path.  A path   *)
(* is the sequence of its components, and two paths are the same PathBuf   *)
(* when these are equal; the file system has its own idea of which paths   *)
(* lead to one file: it follows ".." and, on Windows, ignores case.        *)
(* A disk is a function from the paths of the files on it to their         *)
(* contents, the sequence of include targets in the file.                  *)
(***************************************************************************)
EXTENDS Naturals, Sequences, SequencesExt, FiniteSets

CONSTANT FoldName(_)   \* the name under which the file system finds a name

Up == ".."
None == <<>>           \* no path at all

\* The file a path leads to.  ".." takes the name before it back, as it does
\* on Windows; elsewhere the directory it leaves must also be there.
Canon(path) ==
  LET step(walked, name) == IF name = Up THEN Front(walked)
                                         ELSE Append(walked, FoldName(name))
  IN  FoldLeft(step, <<>>, path)

SameFile(p, q) == Canon(p) = Canon(q)

\* One of the files that these paths lead to.
LeadsTo(path, paths) == Canon(path) \in {Canon(p) : p \in paths}

IsFile(disk, path) == LeadsTo(path, DOMAIN disk)

RootDir(disk, root) == IF IsFile(disk, root) THEN Front(root) ELSE root

\* The root is tried before the directory of the including file.
FaultyCandidates(disk, root, file, target) ==
  IF target.absolute THEN <<target.path>>
  ELSE <<RootDir(disk, root) \o target.path, Front(file) \o target.path>>

\* The paths that are tried, in this order.
Candidates(disk, root, file, target) ==
  IF target.absolute THEN <<target.path>>
  ELSE <<Front(file) \o target.path, RootDir(disk, root) \o target.path>>

FileOrNone(disk, path) == IF IsFile(disk, path) THEN path ELSE None

ResolveInclude(disk, root, file, target) ==
  LET near == Front(file) \o target.path
  IN  IF target.absolute THEN FileOrNone(disk, target.path)
      ELSE IF IsFile(disk, near) THEN near
      ELSE FileOrNone(disk, RootDir(disk, root) \o target.path)

\* entrypoint_files: scanned paths that no row resolved to.
EntrypointFiles(files, rows) ==
  {f \in files : \A row \in rows : row.resolved # f}
=============================================================================
