----------------------------- MODULE SourceMap ------------------------------
(***************************************************************************)
(* One run of a tree command of holytools on a tree that other programs    *)
(* may change between any two of its calls to the file system: walk the    *)
(* directories, read every HolyC file in path order; for the commands that *)
(* ask for it resolve every include; for the dependency order, which       *)
(* source-map counts after that, look each file's includes up again; print.*)
(***************************************************************************)
EXTENDS IncludeResolution, FiniteSetsExt

CONSTANTS Commands,    \* the commands a run may be given
          Root,        \* the path given on the command line
          Dirs,        \* the paths at which a directory may be
          Places,      \* the paths at which a file may be
          Holy,        \* those of them with a HolyC extension
          PathLess(_, _), \* the order of PathBuf
          Texts,       \* the include lists a file may have
          Trees,       \* the trees a run may start on
          MaxChanges   \* how often the disk may change during a run

ASSUME CommandsAssumption ==
  Commands \subseteq {"scan", "include-graph", "resolve-includes", "missing-includes",
                     "reverse-includes", "entrypoints", "dependency-order", "source-map"}

\* Paths are sequences, a file lies in directories, no two paths are those of
\* one file, and paths have an order.  The root is spelled as it is on disk.
ASSUME PathsAssumption ==
  /\ \A p \in Places \cup Dirs \cup {Root} : p \in Seq(Range(p))
  /\ \A p, q \in Places \cup Dirs \cup {Root} : SameFile(p, q) => p = q
  /\ \A p \in Places : ~SameFile(p, None)
  /\ \A p \in Places \cup Dirs : \A n \in 0 .. Len(p) - 1 : SubSeq(p, 1, n) \in Dirs
  /\ \A S \in (SUBSET (Places \cup {Root})) \ {{}} :
       \E p \in S : \A q \in S \ {p} : PathLess(p, q)

\* The directories a path passes through.
Above(p) == {SubSeq(p, 1, n) : n \in 0 .. Len(p) - 1}

\* A file without a HolyC extension is never read: what it holds is left out.
MayHold(p, text) == p \in Holy \/ text = <<>>

\* A file system holds its files in directories, and nothing is both.
IsTree(files, folders) ==
  /\ DOMAIN files \subseteq Places /\ folders \subseteq Dirs
  /\ DOMAIN files \cap folders = {}
  /\ \A p \in DOMAIN files \cup folders : Above(p) \subseteq folders

ASSUME TreesAssumption == \A t \in Trees : IsTree(t.files, t.dirs)

VARIABLES command,   \* the command of the run
          disk,      \* the files now on disk
          dirs,      \* the directories now there
          closed,    \* paths that may not be opened: no permission, or locked
          barred,    \* directories that may not be passed through
          changes,   \* how often other programs changed these since the start
          always,    \* the files that could be seen ever since
          ever,      \* the files that could be seen at some time since
          steady,    \* what could be opened ever since
          pc,        \* where the run is
          entry,     \* the path collect_files is at
          open,      \* the directories it is in the middle of, the innermost last
          listing,   \* paths found
          reports,   \* the FileReports so far: path to include list
          asked,     \* the include being looked up, if any
          candidates, \* the paths that are still to be tried for it
          rows,      \* the ResolvedIncludes so far
          again,     \* the lookups visit_dependency made
          printed    \* the output, or the error message

world == <<disk, dirs, closed, barred, changes, always, ever, steady>>
walk == <<entry, open, listing>>
lookups == <<asked, candidates, rows, again>>
vars == <<command, world, pc, walk, reports, lookups, printed>>

Nothing == [files |-> 0]

\* What there is; what can be seen: a directory that may not be passed through
\* hides what is in it; and what can be opened.
Present == DOMAIN disk \cup dirs
CanSee(p) == p \in Present /\ Above(p) \cap barred = {}
Visible == {p \in DOMAIN disk : CanSee(p)}
CanOpen(p) == CanSee(p) /\ p \notin closed

\* The files as is_file finds them.
SeenDisk == [p \in Visible |-> disk[p]]

\* The names a directory may hold.
Inside(dir) == {p \in Places \cup Dirs : p # <<>> /\ Front(p) = dir}

Init ==
  /\ command \in Commands
  /\ \E tree \in Trees : /\ disk = tree.files
                         /\ dirs = tree.dirs
                         /\ closed = tree.closed
                         /\ barred = tree.barred
  /\ changes = 0
  /\ always = Visible
  /\ ever = Visible
  /\ steady = {p \in Present : CanOpen(p)}
  /\ pc = "enter"
  /\ entry = Root
  /\ open = <<>>
  /\ listing = {}
  /\ reports = <<>>
  /\ asked = <<>>
  /\ candidates = <<>>
  /\ rows = {}
  /\ again = {}
  /\ printed = Nothing
-----------------------------------------------------------------------------
(* Other programs: editors, git, the import scripts, chmod, virus scanners. *)

\* The function f with the value e at x.
With(f, x, e) == [y \in DOMAIN f \cup {x} |-> IF y = x THEN e ELSE f[y]]

\* read_dir returns the names that are there as long as it runs; a name that
\* goes or comes meanwhile may be returned or not.
Changed(files, folders, shut, blocked) ==
  /\ changes < MaxChanges
  /\ pc \notin {"done", "failed"}
  /\ changes' = changes + 1
  /\ disk' = files
  /\ dirs' = folders
  /\ closed' = shut
  /\ barred' = blocked
  /\ always' = always \cap Visible'
  /\ ever' = ever \cup Visible'
  /\ steady' = {p \in steady : CanOpen(p)'}
  /\ open' = [n \in DOMAIN open |-> [open[n] EXCEPT !.stayed = @ \cap Present']]
  /\ UNCHANGED <<command, pc, entry, listing, reports, lookups, printed>>

Save == \E p \in Places, text \in Texts :
          /\ MayHold(p, text)
          /\ p \notin dirs /\ Above(p) \subseteq dirs
          /\ Changed(With(disk, p, text), dirs, closed, barred)

MakeDir == \E p \in Dirs \ Present :
             /\ Above(p) \subseteq dirs
             /\ Changed(disk, dirs \cup {p}, closed, barred)

\* A file is deleted, or a directory goes with all that is in it: moved
\* elsewhere, or emptied before the run next looks.
MoveAway == \E p \in Present :
            LET kept == {q \in Present : ~IsPrefix(p, q)}
            IN  Changed([q \in DOMAIN disk \cap kept |-> disk[q]], dirs \cap kept,
                        closed, barred)

Shut == \E p \in Present \ closed : Changed(disk, dirs, closed \cup {p}, barred)
Bar == \E p \in dirs \ barred : Changed(disk, dirs, closed, barred \cup {p})
Unlock == \E p \in closed \cup barred : Changed(disk, dirs, closed \ {p}, barred \ {p})

Others == Save \/ MakeDir \/ MoveAway \/ Shut \/ Bar \/ Unlock
-----------------------------------------------------------------------------
(* The walk: collect_files, whose calls are the directories in open. *)

\* The error of the call that failed, with the path its message names.
Fail(blamed) ==
  /\ pc' = "failed"
  /\ printed' = [blamed |-> blamed]
  /\ UNCHANGED <<command, world, walk, reports, lookups>>

Unchanged == UNCHANGED <<command, world, reports, lookups, printed>>

\* The loop of the caller goes on; the first call returns to scan_path.
Back(calls) == IF calls = <<>> THEN "retain" ELSE "list"

\* collect_files begins with a file test of its path.
Enter ==
  /\ pc = "enter"
  /\ \/ /\ entry \in Visible
        /\ listing' = listing \cup {entry}
        /\ pc' = Back(open)
     \/ /\ entry \notin Visible
        /\ pc' = "open"
        /\ UNCHANGED listing
  /\ UNCHANGED <<entry, open>>
  /\ Unchanged

\* A directory with nothing in it is taken for none.
FaultyOpenDir ==
  /\ pc = "open"
  /\ \/ /\ entry \in dirs /\ CanOpen(entry) /\ Inside(entry) \cap Present # {}
        /\ open' = Append(open, [dir |-> entry, left |-> Inside(entry),
                                 stayed |-> Inside(entry) \cap Present])
        /\ pc' = "list"
        /\ UNCHANGED <<entry, listing>>
        /\ Unchanged
     \/ /\ ~(entry \in dirs /\ CanOpen(entry) /\ Inside(entry) \cap Present # {})
        /\ Fail({entry})

\* read_dir, which fails the whole scan at the root as in any directory below.
OpenDir ==
  /\ pc = "open"
  /\ \/ /\ entry \in dirs /\ CanOpen(entry)
        /\ open' = Append(open, [dir |-> entry, left |-> Inside(entry),
                                 stayed |-> Inside(entry) \cap Present])
        /\ pc' = "list"
        /\ UNCHANGED <<entry, listing>>
        /\ Unchanged
     \/ /\ ~(entry \in dirs /\ CanOpen(entry))
        /\ Fail({entry})

Innermost == Last(open)

Yield(e) == open' = [open EXCEPT ![Len(open)].left = @ \ {e},
                                 ![Len(open)].stayed = @ \ {e}]

\* The walk stays in the first directory.
FaultyNextEntry ==
  /\ pc = "list"
  /\ \E e \in Innermost.left \cap Present :
       /\ Yield(e)
       /\ entry' = e
       /\ pc' = "test"
  /\ UNCHANGED listing
  /\ Unchanged

\* The next entry and its is_dir test.  A name that is gone by the test is
\* neither directory nor file, the same as if it had not been returned.
NextEntry ==
  /\ pc = "list"
  /\ \E e \in Innermost.left \cap Present :
       /\ Yield(e)
       /\ entry' = e
       /\ pc' = IF e \in dirs /\ CanSee(e) THEN "enter" ELSE "test"
  /\ UNCHANGED listing
  /\ Unchanged

\* The is_file test of what was no directory; a test that fails says no.
TestEntry ==
  /\ pc = "test"
  /\ pc' = "list"
  /\ listing' = listing \cup ({entry} \cap Visible)
  /\ UNCHANGED <<entry, open>>
  /\ Unchanged

\* The entry itself cannot be had, once the directory is gone or locked; the
\* message names no path.
LoseEntry ==
  /\ pc = "list"
  /\ ~CanOpen(Innermost.dir)
  /\ Fail({})

EndDir ==
  /\ pc = "list"
  /\ Innermost.stayed = {}
  /\ open' = Front(open)
  /\ pc' = Back(Front(open))
  /\ UNCHANGED <<entry, listing>>
  /\ Unchanged

\* paths.retain and paths.sort: sorted order is taken by First below.
Retain ==
  /\ pc = "retain"
  /\ pc' = "read"
  /\ listing' = listing \cap Holy
  /\ UNCHANGED <<entry, open>>
  /\ Unchanged
-----------------------------------------------------------------------------
(* The files are read. *)

First(paths) == CHOOSE p \in paths : \A q \in paths \ {p} : PathLess(p, q)

Unread == listing \ DOMAIN reports

\* scan_file_report on the next path; an unreadable file fails the whole scan.
Read ==
  /\ pc = "read"
  /\ Unread # {}
  /\ LET f == First(Unread)
     IN  \/ /\ f \in DOMAIN disk /\ CanOpen(f)
            /\ reports' = With(reports, f, disk[f])
            /\ UNCHANGED <<command, world, pc, walk, lookups, printed>>
         \/ /\ ~(f \in DOMAIN disk /\ CanOpen(f))
            /\ Fail({f})

\* The commands that resolve includes, those that order the files, and both.
Resolves == {"resolve-includes", "missing-includes", "reverse-includes", "entrypoints",
             "source-map"}
Orders == {"dependency-order", "source-map"}

\* A tree without HolyC files is waited for.
FaultyReadAll ==
  /\ pc = "read"
  /\ Unread = {} /\ listing # {}
  /\ pc' = IF command \in Resolves THEN "resolve"
           ELSE IF command \in Orders THEN "order" ELSE "print"
  /\ UNCHANGED walk
  /\ Unchanged

\* The scan has its report; the command goes on with it.
ReadAll ==
  /\ pc = "read"
  /\ Unread = {}
  /\ pc' = IF command \in Resolves THEN "resolve"
           ELSE IF command \in Orders THEN "order" ELSE "print"
  /\ UNCHANGED walk
  /\ Unchanged
-----------------------------------------------------------------------------
(* The includes are looked up. *)

\* Every include statement of the scanned files, by file and number.
Includes == UNION {{f} \X DOMAIN reports[f] : f \in DOMAIN reports}

Target(x) == reports[x[1]][x[2]]

Done(found) == {<<row.file, row.line>> : row \in found}

\* resolve_include begins: whether the root is a file decides the candidates.
Ask(x) ==
  /\ asked' = x
  /\ candidates' = Candidates(SeenDisk, Root, x[1], Target(x))
  /\ UNCHANGED <<command, world, pc, walk, reports, rows, again, printed>>

\* resolved_includes takes the includes file by file, in the order of the text.
Resolve ==
  /\ pc = "resolve"
  /\ asked = <<>>
  /\ LET left == Includes \ Done(rows)
         f == First({x[1] : x \in left})
         i == Min({x[2] : x \in {y \in left : y[1] = f}})
     IN  left # {} /\ Ask(<<f, i>>)

\* visit_dependency looks each include up again; the order in which the walk
\* comes to the files is DependencyOrder's, here any.
LookAgain ==
  /\ pc = "order"
  /\ asked = <<>>
  /\ \E x \in Includes \ Done(again) : Ask(x)

\* The lookup ends with a path or with none.
Answer(path) ==
  LET row == [file |-> asked[1], line |-> asked[2], resolved |-> path]
  IN  /\ rows' = IF pc = "resolve" THEN rows \cup {row} ELSE rows
      /\ again' = IF pc = "order" THEN again \cup {row} ELSE again
      /\ asked' = <<>>
      /\ candidates' = <<>>

\* The second lookup takes the path beside the file without testing it.
FaultyTryCandidate ==
  /\ asked # <<>>
  /\ LET path == Head(candidates)
     IN  \/ /\ IsFile(SeenDisk, path) \/ pc = "order"
            /\ Answer(path)
         \/ /\ ~IsFile(SeenDisk, path) /\ pc # "order"
            /\ Len(candidates) = 1
            /\ Answer(None)
         \/ /\ ~IsFile(SeenDisk, path) /\ pc # "order"
            /\ Len(candidates) > 1
            /\ candidates' = Tail(candidates)
            /\ UNCHANGED <<asked, rows, again>>
  /\ UNCHANGED <<command, world, pc, walk, reports, printed>>

\* The file test of the next candidate: each is a call of its own.
TryCandidate ==
  /\ asked # <<>>
  /\ LET path == Head(candidates)
     IN  \/ /\ IsFile(SeenDisk, path)
            /\ Answer(path)
         \/ /\ ~IsFile(SeenDisk, path)
            /\ Len(candidates) = 1
            /\ Answer(None)
         \/ /\ ~IsFile(SeenDisk, path)
            /\ Len(candidates) > 1
            /\ candidates' = Tail(candidates)
            /\ UNCHANGED <<asked, rows, again>>
  /\ UNCHANGED <<command, world, pc, walk, reports, printed>>

ResolveAll ==
  /\ pc = "resolve"
  /\ asked = <<>>
  /\ Done(rows) = Includes
  /\ pc' = IF command \in Orders THEN "order" ELSE "print"
  /\ UNCHANGED walk
  /\ Unchanged

OrderAll ==
  /\ pc = "order"
  /\ asked = <<>>
  /\ Done(again) = Includes
  /\ pc' = "print"
  /\ UNCHANGED walk
  /\ Unchanged
-----------------------------------------------------------------------------
(* What is printed. *)

Missing(found) == {row \in found : row.resolved = None}

\* Edges that lead nowhere are left out.
FaultyReverseEdges ==
  {[target |-> row.resolved, from |-> row.file, line |-> row.line, status |-> "resolved"] :
     row \in rows \ Missing(rows)}

\* An edge per include statement, to the path found or else the target's.
ReverseEdges ==
  {[target |-> IF row.resolved = None THEN reports[row.file][row.line].path ELSE row.resolved,
    from |-> row.file, line |-> row.line,
    status |-> IF row.resolved = None THEN "missing" ELSE "resolved"] : row \in rows}

\* The numbers of a source-map; dependency-files is DependencyOrder's.
Counts ==
  LET resolved == Cardinality(rows \ Missing(rows))
  IN  [files |-> Cardinality(DOMAIN reports), includes |-> Cardinality(Includes),
       resolved |-> resolved, missing |-> Cardinality(rows) - resolved,
       edges |-> Cardinality(rows)]

\* What the other commands print, but for the order of lines, which are sorted,
\* and for dependency-order's list, which is DependencyOrder's.
FileCount == [files |-> Cardinality(DOMAIN reports)]
OrderCount == [files |-> Cardinality(DOMAIN reports)]
GraphEdges == [edges |-> Includes]
ResolvedRows == [rows |-> rows, missing |-> Cardinality(Missing(rows))]
MissingRows == [rows |-> Missing(rows)]
EntrypointRows == [paths |-> EntrypointFiles(DOMAIN reports, rows)]

Result ==
  CASE command = "scan" -> FileCount
    [] command = "dependency-order" -> OrderCount
    [] command = "include-graph" -> GraphEdges
    [] command = "resolve-includes" -> ResolvedRows
    [] command = "missing-includes" -> MissingRows
    [] command = "reverse-includes" -> [edges |-> ReverseEdges]
    [] command = "entrypoints" -> EntrypointRows
    [] command = "source-map" -> Counts

Output ==
  /\ pc = "print"
  /\ pc' = "done"
  /\ printed' = Result
  /\ UNCHANGED <<command, world, walk, reports, lookups>>

Step == \/ Enter \/ OpenDir \/ NextEntry \/ TestEntry \/ LoseEntry \/ EndDir \/ Retain
        \/ Read \/ ReadAll
        \/ Resolve \/ LookAgain \/ TryCandidate \/ ResolveAll \/ OrderAll
        \/ Output

Next == Step \/ Others

Spec == Init /\ [][Next]_vars /\ WF_vars(Step)
-----------------------------------------------------------------------------
(* What a run must do. *)

Below(dir, path) == IsPrefix(dir, path)

Scanned == pc \in {"resolve", "order", "print", "done"}

\* A scan that succeeds has read every HolyC file under the root that could be
\* seen for the whole run, each file it read could be seen at some time, and no
\* file it found is silently left out, whatever other programs did between any
\* two of its calls: to the directories being listed, to those still to come
\* and to the file under test.
ScanIsComplete ==
  Scanned => /\ {p \in always \cap Holy : Below(Root, p)} \subseteq DOMAIN reports
             /\ DOMAIN reports \subseteq ever
             /\ DOMAIN reports = listing

\* The directories the root stands for in a lookup, as far as what it was
\* during the whole run tells.
SureBases == IF LeadsTo(Root, always) THEN {Front(Root)}
             ELSE IF LeadsTo(Root, ever) THEN {} ELSE {Root}

\* A row that says missing had no candidate that was a file for the whole
\* run; a row that says resolved leads to a file that was there during the run,
\* beside the including file or under the root; and the file beside goes before
\* the one under the root.  The tree may change between the tests of a lookup.
LookupsAreJustified ==
  \A row \in rows \cup again :
    LET target == reports[row.file][row.line]
        near == Front(row.file) \o target.path
        stayed(p) == LeadsTo(p, always)
    IN  /\ row.resolved # None =>
             /\ LeadsTo(row.resolved, ever)
             /\ row.resolved \in IF target.absolute THEN {target.path}
                                 ELSE {near, Root \o target.path, Front(Root) \o target.path}
        /\ (~target.absolute /\ stayed(near)) => row.resolved = near
        /\ row.resolved = None =>
             IF target.absolute THEN ~stayed(target.path)
             ELSE /\ ~stayed(near)
                  /\ \A base \in SureBases : ~stayed(base \o target.path)

\* A run fails only for a reason: what its message names is the root or under
\* it, a directory or a HolyC file, and could not be opened at some time since
\* the start; or the message names nothing, and one of the directories being
\* listed could not.  Nothing else in a tree makes a command fail.
FailsForAReason ==
  pc = "failed" =>
    \E p \in IF printed.blamed = {} THEN {open[n].dir : n \in DOMAIN open}
            ELSE printed.blamed :
      /\ Below(Root, p)
      /\ p = Root \/ p \in Dirs \cup Holy
      /\ p \notin steady

\* On a tree nobody touches, the dependency order of a source-map is drawn
\* from the same resolutions as its resolved and missing counts.
QuietLookupsAgree ==
  (pc = "done" /\ changes = 0 /\ command = "source-map") => again = rows

\* On a tree nobody touches the commands tell one story of it, that of the
\* files that can be seen: each include statement is one edge of
\* reverse-includes and of include-graph, an edge is missing exactly when
\* missing-includes lists its statement and that is when no candidate is a
\* file, and a scanned path is an entrypoint unless some statement could lead
\* to it.
OneStory ==
  (pc = "done" /\ changes = 0) =>
    LET files == {p \in Visible \cap Holy : Below(Root, p)}
        statements == UNION {{f} \X DOMAIN disk[f] : f \in files}
        leadsTo(x) == {p \in Range(Candidates(SeenDisk, Root, x[1], disk[x[1]][x[2]])) :
                         IsFile(SeenDisk, p)}
        lost == {x \in statements : leadsTo(x) = {}}
    IN  CASE command \in {"scan", "dependency-order"} -> printed.files = Cardinality(files)
          [] command = "include-graph" -> printed.edges = statements
          [] command = "resolve-includes" -> /\ Done(printed.rows) = statements
                                             /\ printed.missing = Cardinality(lost)
          [] command = "missing-includes" -> Done(printed.rows) = lost
          [] command = "reverse-includes" ->
               /\ {<<e.from, e.line>> : e \in printed.edges} = statements
               /\ \A e \in printed.edges : IF e.status = "missing"
                                           THEN <<e.from, e.line>> \in lost
                                           ELSE e.target \in leadsTo(<<e.from, e.line>>)
          [] command = "entrypoints" ->
               /\ printed.paths \subseteq files
               /\ \A f \in files \ printed.paths : \E x \in statements : f \in leadsTo(x)
          [] command = "source-map" -> printed.missing = Cardinality(lost)

\* A run neither hangs nor loops, however the tree changes.
Terminates == <>(pc \in {"done", "failed"})

\* Another scanned file includes f as the file system sees it.
IncludedByAnother(f) ==
  \E row \in rows : row.file # f /\ row.resolved # None /\ SameFile(row.resolved, f)

\* DOCS.md on entrypoints: "files that nobody else includes".
EntrypointsNobodyIncludes ==
  (pc = "done" /\ changes = 0 /\ command = "entrypoints") =>
    \A f \in printed.paths : ~IncludedByAnother(f)
=============================================================================
