# holytools: a TLA+ verification project

This directory models the programs of this repository: the HolyC tools in
`crates/` (a lexer, a source indexer and the `holytools` command line), the
PowerShell scripts in `scripts/` that release the tools and run them over the
research trees, and TOSZ, the one program among the research trees that is meant
for the host: it expands files TempleOS compressed and makes videos of its
recordings. The modules are checked with TLC on small instances, and what matters
most about seven of the parts is proved with TLAPS for every instance.

`PROJECT.json` lists the components, the runs, the theorems, the source lines
each definition stands for, the mutants each property is tested with, the
hazards the properties are aimed at and the disagreements that were found.

    tlc -workers 2 -config MCTreeOrder.cfg MCTreeOrder    # a run
    tlapm DependencyOrderProofs.tla                        # proofs

## 1. Inventory

### The system and how its parts interact

    text --holylex--> tokens --holyindex--> rows (includes, symbols) per file
                                               |
    directory --scan_path--> files in path order+--> holytools commands:
                                                     resolve includes, counts,
                                                     entrypoints, dependency order
                                                        |
    scripts/run-archaeology.ps1 --calls--> holytools --writes--> reports/<target>/
    scripts/release.ps1 --cargo, verify, package--> dist/ --git tag, push--> origin

    TempleOS: CompressBuf --.Z file--> TOSZ: ExpandBuf --> text
              GR2MV, SND --MV, AU files--> TOSZ --BMP, clips--> ffmpeg --> mp4

The Rust program is sequential: one thread, no callbacks, nothing kept between
two runs. What makes it hard is the *data* it walks (nested comments, cyclic
include graphs, two spellings of one path) and that it reads a tree which other
programs may change while it does. The scripts are sequential too, but what they
leave behind (a package directory, a zip and its checksum, a git tag, report
directories) is shared with earlier and later runs that failed half way, with
people who edit, commit and check out, and with another clone.

TOSZ and the TempleOS routines it is the counterpart of are sequential as well.
There the hard part is that two programs which never talk keep the same state: the
expander rebuilds the compressor's table from the codes, one entry behind; and
that frames and samples are cut into pieces, files and days, by arithmetic, with
pieces of a run that was broken off still lying where the next run works.

| component | source | state it keeps | operations | correct when |
|---|---|---|---|---|
| tokenizer | `crates/holylex/lib.rs` | position, line, column, tokens | `lex_all`, the `lex_*` helpers | consumes every text; loses nothing; longest tokens; exact places; comments and literals are what a reader of the text takes for them |
| text indexer | `crates/holyindex/src/lib.rs` | token cursor, symbols, includes | `scan_file_report`, `collect_symbols`, `collect_includes` | rows are exactly the statements and names of the text outside comments and literals |
| tree scan | same file | open directories, paths found, reports | `scan_path`, `collect_files` | every HolyC file that stays under the root is read or the run fails, for a reason |
| include resolution | `crates/holycli/src/main.rs` 605-713, 766-785 | rows with what they resolve to | `resolved_includes`, `resolve_include`, `entrypoint_files` | nearest candidate wins; missing means missing; entrypoints are files nobody includes |
| dependency order | `main.rs` 715-764 | `visiting`, `visited`, `ordered`, the recursion | `dependency_order`, `visit_dependency` | returns on every graph; each file once; included files first as far as cycles allow |
| tree commands | `main.rs` 59-592 | none | `run_scan`, `run_include_graph`, `run_resolve_includes`, `run_missing_includes`, `run_reverse_includes`, `run_entrypoints`, `run_dependency_order`, `run_source_map` and others | the commands tell one story of a tree; the numbers of a source-map add up |
| oracle | `crates/holycli/src/oracle.rs` | corpus, generator | flags, `load_corpus`, `generate_lines` | deterministic; generator never stuck at zero |
| release gate and packaging | `scripts/release.ps1`, `verify.ps1`, `package-windows.ps1`, `verify-package.ps1`, `package-zip.ps1` | `target/`, `dist/`, tags here and on origin | the steps of the five scripts | what is tagged and zipped is what was checked; zip, checksum and version agree |
| archaeology pipeline | `scripts/run-archaeology.ps1`, `report.ps1`, `summarize-archaeology.ps1` and the scripts it calls | `reports/<target>/*`, `NOTES.md`, `SUMMARY.md`, `$LASTEXITCODE` | a run over trees, `-ReportsOnly` | a run that says ok leaves fresh reports; notes are kept; rollups agree with reports |
| legacy include resolver | `scripts/resolve-archaeology-includes.ps1` | none | `Get-TargetVariants`, `Resolve-LegacyInclude` | finds what the legacy suffixes mean |
| source snapshots | `scripts/import-third-party-sources.ps1`, `move-source-snapshots-to-root.ps1`, `find-*.ps1` | the research trees, import log | copy, move | a snapshot is whole or not recorded |
| TOSZ: archive format | `templeos/Kernel/Compress.HC`, `templeos/Linux/TOSZ.CPP`, `templeos/Downloads/Linux/TOSZ.CPP` | `CArcCtrl` on each side: the table of strings, the free entry, two widths, positions in bit buffers | `CompressBuf` with `ArcGetEntry` and `ArcCompressBuf`, `ExpandBuf` with `ArcExpandBuf` | what is compressed comes back; the tables agree; the search for an entry to use again ends; the stack suffices |
| TOSZ: video | `templeos/Adam/Gr/ScrnCast.HC` (`GR2MV`), `MV2BMPLst`, `GrBlot`, `BMPRLE4To` of both editions | the screen, two clocks, frame counters, files in `TOSZTEMP*` | merge shots, play files, write BMPs, join clips | frame by frame the video shows the screen at that time |
| TOSZ: sound | `AURead`, `SndFileCreate`, `SND2MP4Lst` | queue of notes, buffer of samples, piece number | read, play, cut, join | sample by sample the track is the score |
| TOSZ: main and Cvt | both `TOSZ.CPP` | arguments, files | `main`, `Cvt` | every call ends; no input is lost; the output goes where it was asked for |
| TempleOS headers and kernel image | `templeos/Kernel/Kernel*.HH`, `Compiler/Compiler*.HH`, `Adam/Gr/Gr.HH`, `0000Boot/0000Kernel.BIN.C` | none | declarations; a compiled kernel under a `.C` name | |
| single report writers, deep LoseThos/SparrowOS scripts, include check, CI | `scripts/*`, `.github/workflows` | none of their own | formatting, lists of calls | |
| `templeos/`, `losethos/`, `sparrowos/`, test fixtures | | third-party input | | |

Hard behaviours, in the order of how much they matter, with their lines, are
the `hazards` of `PROJECT.json`: the recursion over cyclic graphs, path spelling
taken for file identity, a tree that changes during a run, position bookkeeping
at line ends, the three-token windows of the indexer, retries after a half-made
release, exit codes that scripts do not set, and reports left by earlier runs;
in TOSZ the reuse of table entries, widths that are stored nowhere, times kept in
two halves, files that could not be written, and what a broken-off run leaves.

## 2. Modules

| module | models | state ↔ code |
|---|---|---|
| `Reachability` | include paths as least closed sets | (mathematics) |
| `EmitOrder` | the *abstract* promise of `dependency-order`: emit a file when its includes are out or lead back to it | `emitted` ↔ the lines printed |
| `DependencyOrder` | `dependency_order` + `visit_dependency` | `stack` ↔ the open calls of the recursion with their remaining `deps`; `visiting`, `visited`, `ordered` ↔ the Vecs of those names; `unstarted` ↔ the rest of the loop over `all`. One step is one call or one return |
| `IncludeResolution` | `resolve_include`, `entrypoint_files` on paths as component sequences; `Canon` is the file system's idea of one file | |
| `TreeOrder` | composes the two: the walk of `DependencyOrder` on the graph that the include targets of a tree resolve to (`TreeNext`, `TreeSpec`) | `disk` ↔ files and their include targets |
| `SourceMap` | one run of a tree command, one step per call to the file system: `is_file` of the path given, `read_dir`, each entry with its `is_dir` and then its `is_file`, the reading of each file, the test of the root and of each candidate of a lookup, then the output; between any two of them other programs save, make, move and delete (`Save`, `MakeDir`, `MoveAway`), lock and take permissions (`Shut`, `Bar`, `Unlock`). `command` decides which phases a run has and what is printed | `entry`, `open` ↔ the path at hand and the open calls of `collect_files` with what their `read_dir` has yet to return; `listing` ↔ `paths`, `reports` ↔ `Vec<FileReport>`, `asked`, `candidates` ↔ the call of `resolve_include`, `rows` ↔ `Vec<ResolvedInclude>`, `again` ↔ lookups in `visit_dependency`, `printed` ↔ the output without its layout, or the path an error names; `always`, `ever`, `steady` remember which files could be seen all the time and some time, and what could be opened all the time |
| `HolyLex` | `lex_all` and every helper, one action per token kind | `index`, `line`, `column`, `tokens` ↔ the fields of the lexer. `Skip...`, `Lex...` are the branches in their order |
| `HolyIndex` | `scan_file_report`, composed with `HolyLex` | `next` ↔ `i` of the two loops, `symbols`, `includes` ↔ the Vecs |
| `Release` | `release.ps1` and the scripts it runs, `package-zip.ps1` alone | `pc` ↔ the statement the run is at; `built`, `pkg`, `zip`, `sha` ↔ the exe, the package directory, the zip, its `.sha256`; each holds the *revision* it was made from; `stops` ↔ whether this PowerShell stops at a failing native command (7 with the preference set) or goes on (5.1); `tagged` remembers the head at which this run made the tag |
| `Archaeology` | `run-archaeology.ps1` over its targets, with failures and later runs | `out[t][r]` ↔ the versions of the tree that report `r` of target `t` was made from; `cross[r]` ↔ what each comparison was made from; `code` ↔ `$LASTEXITCODE`; `todo`, `queue` ↔ the rest of the script; `late` remembers whose notes came between the look for them and the template |
| `ArcTable` | `CArcCtrl` and `ArcGetEntry`: strings as chains of entries, fresh entries until the table is full, then leaves given up in turn | the fields of `c` ↔ those of `CArcCtrl`; `compress`, `hash` ↔ the arrays of `CArcEntry` and the chains through them |
| `Archive` | `CompressBuf`, then `ExpandBuf` on what it returned; a step is a turn of a loop | `pc`, `src_pos`, `dst_pos`, `basecode`, `lastcode`, `stk` ↔ the variables of those names; `dst` ↔ the bits of the buffer; `sent`, `got` remember the codes and where they lay |
| `Picture` | `GrBlot` and `BMPRLE4To`, with what a viewer decodes | (functions) |
| `Movie` | `GR2MV`, then `MV2BMPLst`, on a recording and again on another one after a run that was broken off | `mv` ↔ the MV files; `screen`, the clock and frame counters ↔ the locals of `MV2BMPLst`; the directories and clips ↔ `TOSZTEMP*`; `lost` counts the BMP files that could not be written |
| `Sound` | `AURead`, `SndFileCreate`, `SND2MP4Lst` | the queue, buffer and pieces ↔ the locals; a sample ↔ the note that sounds in it; `torn` counts the pieces that could not be written |
| `Tosz` | `main` and `Cvt`, composed of `Archive`, `Movie` and `Sound` | `job` ↔ the call; `stage` ↔ how far `main` is; `files` ↔ the names `Cvt` touches; `film` ↔ the mp4 |
| `SequenceLemmas` | facts about `Front`, `Last`, `Append`, `ToSet`, `Min`, `Max`, `FlattenSeq` the proofs need, and `Climb`, induction up to a bound over a set | |
| `DependencyOrderProofs`, `SourceMapProofs`, `HolyLexProofs`, `ArchiveProofs`, `ToszProofs`, `ReleaseProofs`, `ArchaeologyProofs` | the theorems | |

`MC*.tla` give the constants their values; each `.cfg` is a run. Operators named
`Faulty...` are slips the following definition could have; each property was
seen to fail when one of them takes the place of the definition.

Abstractions worth knowing:

* A character is one of a handful of classes the lexer tells apart; every
  character the lexer names literally is itself.
* A path is its sequence of components. Two paths are *equal* as `PathBuf`s
  compare and *the same file* as the file system sees it (`..` followed, case
  folded); both notions matter and the code uses the first for the second.
* The file system of `SourceMap` holds files in directories. What is *closed* cannot
  be opened (no permission, or another program has it locked), what lies in a
  *barred* directory cannot be seen. `read_dir` returns every name that is there as
  long as it runs, in any order; a name that comes or goes meanwhile it may return or
  not. A test whose answer cannot be had says no, as `is_file` and `is_dir` do. `..`
  takes the name before it back whether or not that directory is there, as on Windows.
  Left out are links, and errors of the device itself: any call might fail with one,
  and nothing could be said of when a run fails.
* A revision stands for the text of a tree, and the gate steps it does not pass
  are a constant. Untracked files are not modelled; removing and remaking the
  package directory is one step.
* A report is the set of tree versions it was made from; a torn report (its
  writer failed after opening the file) is the empty set.
* A buffer of bits is the set of the positions of its ones. The widths of codes
  (12 bits at most), of characters (7 or 8) and of bytes are constants; so are the
  size of the screen, the ticks of a day, the frame rate and the limits of files.
* A square wave is the note it is of. `ffmpeg` and the file system are external: a clip
  is the frames that lie in the directory, counted from 0 up to the first number that is
  missing; no frames make no clip, and a list that names a missing clip may be joined up
  to there or not at all. `ffmpeg` is taken to be told yes when it asks whether to
  overwrite.
* A BMP or SND file that cannot be opened leaves its number without a file, or with
  the file an earlier call left there; one written in part is a picture without pixels,
  or the samples that were taken. The numbers go on in either case.
* Times of notes are exact, but for those in `Early`: a time that falls on a sample
  may come out below it when it is divided and multiplied as a double. No other time
  is so near to a sample.

## 3. Runs

| run | expects | question | instance and why it is enough |
|---|---|---|---|
| `dependency_order` | pass | does the recursion return, list each file once, put includes first, implement `EmitOrder`? | 3 files in two directories, each with any of 19 lists of include targets, which may be spelled with `..`, from the root, or in another case: between them every include graph over 3 files and a path the scan does not have comes about: self-includes, cycles of 2 and 3, a cycle entered from outside, diamonds. The theorems cover every size |
| `source_map` | pass | what may a run on a changing tree miss, claim, fail at, and do the commands agree? | eight commands, 5 paths for files, one subdirectory, one change between any two calls of the run; the trees are one whose files include each other beside and from the root, with any of its files left out, the same with one thing closed or barred, and a path given that is a file or nothing: a near and a root candidate, an absolute target, a nested directory and every way of failing. What files without a HolyC extension hold is left out. One change has every window of a pair of calls; what takes two (a name that goes and comes back) is left to the theorems, which cover every tree and number of changes |
| `lex` | pass | tiling, longest match, places, comments and literals, termination | every text of ≤ 4 over 12 characters, one per class, and of ≤ 6 over the 6 that open, close, escape and end lines. Every state of the lexer is entered and left within three characters; for every kind there are tokens that begin and end inside these texts |
| `index` | pass | are the rows the statements and names of the text? | every text of ≤ 4 pieces of statements, comments of both kinds and open strings, of ≤ 5 with one kind of comment, of ≤ 5 pieces of declarations, of ≤ 4 with numbers beside names: two statements in a row, overlapping ones, statements split or hidden by comments and strings, digits that go on a word or a number |
| `release` | pass | is what is tagged and zipped what was checked? | a good revision and one that fails verification, any number of runs, every failure and interruption, edits and a second clone at every moment, both kinds of PowerShell; no bound but the two revisions, and the theorems drop that one |
| `archaeology` | pass | does a run that says ok leave fresh, agreeing reports? | two targets, trees that change once and lose their HolyC files, notes written at any moment, 2 runs: the first leaves anything, the second has to cope. The theorems cover every number of targets, versions and runs |
| `tosz` | pass | does what is compressed come back; does the video show the recording and the sound follow the score; is any input lost; does every call end? | codes of ≤ 4 bits (a table of 16 entries) over characters of 1 and 2 bits; every 1-bit text of ≤ 10, every 2-bit text of ≤ 4 and irregular and repeating ones of 30 to 80 characters, long enough that entries are given up and used again; a 5×2 screen (an odd width), a day of 8 ticks, MV files of 4 bytes and recordings of up to 4 shots, over midnight and over several files; pieces of 3 samples, with two of the times on a sample rounded below it; one call broken off at any moment, and one BMP and one SND file of a call that cannot be written or not whole |
| `entrypoints_spelling` | violation | finding 1 | a quiet tree, includes with `..` and in another case |
| `reports_only_refresh` | violation | finding 2 | two runs |
| `packaged_scripts` | violation | finding 3 | one run from the release folder |
| `tosz_out_name` | violation | finding 4 | one call with an output name |
| `archive_overrun` | violation | finding 5 | every text of ≤ 4 |

Bounds: `MaxChanges` (changes to the disk during a run of `SourceMap`), `MaxRuns` (runs
of `Archaeology`) and the number of versions of a tree there (`HasHoly`), `MaxText` (the
texts of `MCTosz`), `MaxBreaks` (how often a call of TOSZ is broken off), `MaxLost` and
`MaxTorn` (how many BMP and SND files a call may fail to write). The theorems hold for
every value of them. `Release` is unbounded. `CHECK_DEADLOCK FALSE` is set where the
program ends (a lexer at the end of the text, a command or a call of TOSZ that returned,
the last of `MaxRuns` runs); in `Release` a run can always be started, and deadlock is
checked.

### What the properties say

A type invariant is a run's property only where it is part of an inductive
invariant (`IInv`, `RInv`) or says more than a type (`Tosz`: bounds of positions,
of the screen and of files).

* `DependencyOrder`: `ListedOnce`, `DepsFirst`, `Complete`, `IInv` (the inductive
  invariant of the proofs, with `OpenCalls`: the `visiting` list is the chain of
  open calls, and it follows include edges), `Terminates`, `Implements`
  (`EmitOrder`, with fairness).
* `TreeOrder`: `PlainIncludesAppearFirst`, of includes spelled as the scan spells
  paths (`SpelledLikeTheScan`). Without that condition it fails:
  `visit_dependency` (`main.rs:748`) drops from the graph an include that resolves
  to another spelling of a scanned file, and `DOCS.md:408` ("included files appear
  before the files that depend on them") does not hold of it.
* `SourceMap`: `ScanIsComplete` (every HolyC file that could be seen all the time is
  read, wherever other programs were at work meanwhile, and nothing that was found is
  left out), `LookupsAreJustified` (a row says missing, or prefers the root, only when
  the better candidate was really absent at some time, though the tests of one lookup
  are separate calls), `FailsForAReason` (what an error names is the root or under it,
  is a directory or a HolyC file, and could not be opened at some time; an error that
  names nothing is of a directory being listed: a file of another kind, a lock on it,
  or a name that merely went never makes a command fail), `QuietLookupsAgree` (on a
  quiet tree the counts and the order of one source-map are of the same graph; on a
  changing one they need not be), `OneStory` (on a quiet tree the edges, the missing
  includes, the entrypoints and the counts the commands print are those of the files
  that can be seen), `Terminates`.
* `HolyLex`: `Tiling`, `LongestMatch` (every token of every kind: a line comment goes
  to the end of its line and no further, a block comment or a literal through the
  first thing that closes it or to the end of the text, a symbol takes both of a
  pair), `PlacesAreExact` (for texts with LF and
  CR LF line ends), `CommentsAndLiteralsAgree` (with a reader that passes over
  the text once), `Terminates`.
* `HolyIndex`: `IncludesMatchText`, `SymbolsMatchText` (against definitions over
  the text itself, not the tokens), `Reported`.
* `Release`: `RInv` (what the statements passed so far have seen to),
  `ReleasedWhatWasChecked`, `ZipIsWhole`, `SuccessMeansTagged`, `PublishesItsHead`
  (what a run publishes is the commit that was its head when that same run made the
  tag, whoever edits or checks out meanwhile: no later run publishes a tag left by a
  failed push).
* `Archaeology`: `FreshAfterRun` (of the reports that are written: those of a tree that
  lost its HolyC files stay as they were), `RollupsAgree`, `NotesKept`.
  `Write-NotesTemplate` looks for notes and then writes the template (`run-archaeology.ps1:38`,
  `:77`); notes saved between the two are overwritten (`late`), and `NotesKept` says that
  no others are: not those of a target further on, nor those written before the run
  came to look, nor by a failure or a later run.
* `Archive`: `RoundTrip` (the text comes back, up to where a block longer than its
  buffer was cut), `ReadsWhatWasWritten` (the expander reads code by code, at the
  same bits, what the compressor wrote, though the width is stored nowhere),
  `TableIsSound` and `ExpanderTableIsSound` (no string is built on an entry that
  was given up), `LeafToGiveUp` (the search for one ends), `StackFits`.
* `Movie`: `VideoShowsRecording` (against the screen as a function of the shots and
  the frames as a function of time). `BMPWrite` says nothing when it could not write
  (`Linux/TOSZ.CPP:714`) while `bmp_num` and the clock go on, so a clip may stop at the
  gap, show the frame of an earlier run there, or one without pixels. With such a file
  (`lost`) the property therefore says only that no clip has a picture too many; without,
  it says everything.
* `Sound`: `SoundFollowsScore` (against the notes that may sound in a sample: one that
  has begun when the sample ends, and none other since; the time is multiplied, not
  divided, so that it does not depend on how the code rounds). `SndFileCreate` is as
  silent as `BMPWrite` (`Downloads/Linux/TOSZ.CPP:589`), and the property is of calls
  whose pieces were written (`torn`). That what an earlier call left is taken in no other case
  is part of both.
* `Tosz`: `NothingLost` (no input is removed unless its text
  is in some file, except by a disk that took part of the output unnoticed),
  `Terminates`.

`ReleasedWhatWasChecked` is stated for runs whose tree nobody touched and whose
PowerShell stops at failing native commands. Neither condition can be dropped:
the tree is looked at once, after the packaging, so an edit and its undoing in
between go unseen; and an older PowerShell goes on after a failed
`cargo build` and packages the exe of an earlier build.

### Fairness

`DependencyOrder`, `HolyLex` and `HolyIndex` have weak fairness of their whole
next-state relation: one thread that computes and never waits. `SourceMap` has weak
fairness of the program's own steps only, of all of them together: the process is
scheduled, a call to the file system returns, and `read_dir`, whose names are finite,
comes to its end; other programs owe nothing. `TreeOrder` is as `DependencyOrder`.
`Tosz` has weak fairness of its own steps but not of breaking off (`WF(Next /\ breaks' =
breaks)`): a process that runs computes, and nobody has to stop it. `Release` and
`Archaeology` claim no liveness and assume no fairness: people and the network may leave
a run unfinished for ever.

## 4. Proofs

`DependencyOrderProofs`, for every finite set of files (any natural numbers) and
every include graph (`FilesAssumption`):

* `Invariance`: `Spec => []IInv`. What the command promises about its result
  (`ListedOnce`, `DepsFirst`) is not inductive: that a dependency met by an open
  call may be skipped is justified only because it is *listed or open*, and that
  an open one may be skipped only because the open calls form a chain of include
  edges, so it leads back to the file at hand. `IInv` therefore adds `OpenCalls`
  (the chain), `HandledDeps` (whatever an open call has handled is listed or
  open) and `Started` (the same for the outer loop). `CallStep` is the lemma for
  a call, shared by `StartFile` and `VisitDep`; `FinishStep` has its own argument.
* `TypeCorrect`, `NoFileTwice`, `OpenCallsAreAChain`, `IncludesFirst` follow from
  it; `Topological` adds that an acyclic graph has no way back; `AllListed` that
  with no open call everything known is listed; `DepthIsBounded`, that the
  recursion is never deeper than there are files, maps the open calls one to one
  into the files.
* `ImplementsEmitOrder`: initial states map to initial states, `Finish` is an
  `Emit`, every other step a stutter. The fairness part of `EmitOrder` is
  checked by TLC only.
* `TreeInvariance` carries the invariant over to `TreeOrder`, with `TreeInv`: the graph
  of the walk is the one the targets on disk resolve to. `PlainTreesInOrder`
  (`PlainIncludesAppearFirst`) then is `IncludesFirst` seen from the disk: where
  includes are spelled as the scan spells paths, the edges of the walk are the
  includes.

`SourceMapProofs`, for any places for files and directories, any tree and texts, every
command and any number of changes other programs make (`PathsAssumption`: paths are
sequences, what is in a directory has all the ones above it, no two paths on disk are of
one file, the root is spelled as it is on disk, and paths have an order;
`TreesAssumption`: a run starts on a tree).
`TreeInv` says what is known of the disk (`WorldInv`: it stays a tree, what stayed is
there, what is there was there), of the open calls of the walk (`WalkInv`), of the reports
(`ReadInv`) and that what was taken for a directory or a file is one if it was there all
the time (`KindInv`). Whatever other programs do is one lemma for all of it (`OthersShift`).

* `ScansAreComplete` (`ScanIsComplete`). What a scan has read says nothing while it still
  walks; `ScanInv` adds that a file that stayed has been found or some directory it lies
  in, or itself, is still to come (`Ahead`): at hand, or not yet returned by the
  `read_dir` of one of the open calls. `OpenDir` passes this on from a directory to what
  is in it, `NextEntry` from a frame to the entry at hand, and `EndDir` may end only what
  has no name left that stayed.
* `LookupsHaveReasons` (`LookupsAreJustified`). The property speaks of the disk of the
  moment; `Justified` does without, and is kept because files that stayed only get fewer
  and files that were only more. `Trying` says what the tests made so far of the lookup
  at hand have shown: once the candidate beside the file was passed over, it was away.
* `FailuresHaveReasons` (`FailsForAReason`).
* `SourceMapAgreesWithItself` (`QuietLookupsAgree`): `QuietInv` says that on an
  untouched tree every lookup has the answer it would have now, the one at hand
  too (`QuietlyTrying`), and that each pass has looked up every statement when it ends.
* `CommandsTellOneStory` (`OneStory`): `StoryInv` joins the invariants and adds
  that on an untouched tree every report is the file, and what is printed at the end is
  the `Result` of what was found. The counts are those of the disk because rows and
  includes correspond one to one (`Lost`: the includes that lead nowhere).

`HolyLexProofs`, for every set of texts and every choice of character classes
that satisfies `HolyLex`'s assumptions: `TypeCorrect` (the position stays inside
the text or just after), `NothingLost` (`Tiling`) and `TokensAreLongest`
(`LongestMatch`). The invariant is their conjunction: where the next token
starts is known only from `Tiling`, that it cannot be out of bounds from
`TypeOK`, and each token's end from a lemma about its helper (`RunEndBounds`,
`LineCommentEndBounds`, `BlockCommentEndBounds`, `QuotedEndBounds`,
`SymbolEndBounds`: further than the start, not past the text). That a token is as long as
its kind goes follows from where it ends: before it no character could have ended it, and
at it one does, or the text.

`PlacesAreWhereTheyAre` (`PlacesAreExact`) adds, in `PlacesInv`, that `line` and
`column` are at every turn those of the next character as the text defines them: one
more than the line feeds before it, the distance from the last one without the marks
and the CRs of the line ends in between. Each helper is shown to move the pair as its
characters say, the three that run over several lines by following them from
character to character.
`CommentsAndLiteralsAreFound` (`CommentsAndLiteralsAgree`): `AgreeInv` adds that the
reader who goes from character to character is in the middle of nothing wherever a
token begins (`Neutral`; a line comment ends *at* the line end). It needs that the
classes of characters have none of those that open comments and literals
(`CharactersAreApart`). That the reader, a recursive function over the text, has a
value at every place is proved by climbing from 1 to the length of the text (`Climb`),
which needs no induction over data.

`IncludesAreReported` (`IncludesMatchText`) and `SymbolsAreReported`
(`SymbolsMatchText`), in the same module: the rows of `scan_file_report` are those a
reader of the characters finds, for every text. Assumed, besides what `HolyLex`
assumes of the characters: a character is a blank, of a word or a symbol, and `#` and
`(` are in no pair (`ClassesAssumption`; `is_symbol_start` and `is_two_char_symbol` of
`holylex`); `include` begins with a letter, and `class` is a keyword
(`WordsAssumption`). The argument has three parts.

* *What the tokens say of the text.* `TextInv` adds to `AgreeInv` what the characters
  of each token are by its kind (`Shaped`), that a second reader, which tells words
  from numbers, is in a word or a number just where the lexer has one (`Spells`) and
  has nothing going on where a token begins (`Calm`), and that tokens go on in line
  and column. Once the text is read (`Settled`) nothing but byte order marks lies
  between tokens, so that from the end of a visible token the first character that is
  no blank begins the next (`NextVisible`).
* *A pattern of tokens is a pattern of characters.* `IncludeAtMatches` and
  `SymbolsAtMatch`: the indexer sees a statement, a class or a function at a visible
  token exactly when the readers see it where that token begins.
* *The loops miss nothing.* `IndexInv`: what the two loops have found is what there is
  before `next` (`SymbolsUpTo`, `IncludesUpTo`), in ascending order. Three tokens are
  passed over after a statement, and neither of the other two can begin one
  (`IncludesApart`). Since the rows come in the order of the text, the sort and the
  dedup at the end of `collect_symbols` change nothing (`SortKeeps`, `DedupKeeps`).

`ArchiveProofs`, for every set of texts, any width of codes
above that of characters, and any size of bytes (`ArcTable`'s and `Archive`'s
assumptions): `CompressorCorrect`, `Spec => []CompressorInv`. That a leaf can
always be given up, or that nothing is built on what was given up, is not
inductive. `TableInv` adds: `Sized` (the limits are powers of two in step with the
two widths), `FreeIdxOK` with `Unused` (until the table is full the entry set aside
lies below the free index, and nothing from there on has been used; in a full table
it is the free index) and `LastUsedIsLeaf` (the entry used last is a leaf, and not the
one set aside). The lemmas
follow `ArcGetEntry` branch by branch: `FreshTable` for a table that grows,
`LeafGivenUp` and `RecycledTable` for a full one, `LinkEntry` for what the caller
does with the entry. From it: `CompressorTableIsSound`, `CodesFit` (every code fits
the width it is written in), `OnlyOneMatch` (the first match in a chain is the only
one), `SearchEnds` (a full table has a leaf other than the entry set aside: the one
used last).

That what is compressed comes back, for every text (`TextsComeBack`: `RoundTrip`), is not
about states of the two programs but about what one did while the other was not there.
`RoundInv` (`EveryCodeOnRecord`) therefore speaks of a *history*: there is a sequence `h`
with, for each code, the compressor's table when it was written, the strings its
entries stood for (`Says`), its place in the text and in the bits. While compressing,
`Writing(h)` says that the codes and the bits so far are `h`'s; when the archive is
complete, `OnRecord(h)` that all are; while expanding, `Reading(h)` that the expander's
table *is* the compressor's of one code earlier, `h[n - 1].tab`, its position `h[n].pos`
in the width of `h[n].tab`, its output the text up to `h[n].at`, and its stack the rest
of the string at hand, last character first (`WithinCode`); a code that names the entry
about to be made, the one case where the expander looks up what is not there yet, is the
one step with an argument of its own (`NewEntryRead`). Three facts carry it: a code is
read back from the bits it was written in, whatever is written after it (`ReadBack`,
`WrittenOneMore`); the table of the next turn depends only on that of the turn before
and what is linked there (`NextTurnFollows`); and what an entry stands for stays in the
text when entries are added or others given up (`SaysAfter`, `SaysElsewhere`).
`CodesAreReadAsWritten` (`ReadsWhatWasWritten`), `BothTablesAreSound`
(`ExpanderTableIsSound`) and `StackStaysSmall` (`StackFits`) follow, and `ToszRoundTrips`
has them all of TOSZ.

When the last code widened the table, the block may take in a byte that is not its own
(finding 5), and the last code is then anything. The record is there all the same: only
its last code may be read astray (`LastCodeAstray`), and from there `Straying(h)` takes
the place of `Reading(h)`. That code was written for the single last character, and what
is read in its place is a character or a code that was never used, so that it leaves at
most one character on the stack, where two have room. This needs `BitsRead` (whatever
the bits, what is read in `w` of them is below `2^w`) and, in `TableInv`, that what was
never used is zero and that a table that still grows is within its width.
`ArchiveIsTyped` (`ArchiveTypeOK`) then follows step by step: the expander's tables are
tables because they are the compressor's (`RecordIsTyped`), its codes because they are
read from so many bits.

`ToszProofs`, for every call TOSZ may get: `ToszImplementsArchive`, every step of TOSZ,
interrupted or not, in any mode, is a step of `Archive` or leaves it alone; so the
compressor's guarantees hold in the composition (`ToszCompressorIsSound`).

* `NothingIsLost` (`NothingLost`): `FilesInv` says what each file that `Cvt` touches holds at
  each stage of `main`; the output is whole before the input is removed by `RoundTrip`
  (`FilesAssumption`: a call names its files, and a name that ends in `.Z` is not the name
  without it).
* `ScoreIsHeard` (`SoundFollowsScore`), for every score, rate and size of pieces, and
  whichever times on a sample are rounded below it (`SampleIs`: a time is in its sample
  or at the end of it; `ScoreFollows`: that is enough for every note to be heard in
  time): `SoundInv` says what stands in the buffer at every turn. Before the next note,
  everything up to where the last one began is the score and the rest is silence
  (`Waving`); while pieces are cut, whatever is still to be written stands where it was,
  although the pieces before were copied to the front of the same buffer (`Cutting`);
  `Alone` says whose the pieces in the directory are, since a call that was broken off
  leaves its own. That the pieces one after the other are the score is
  `PiecesMakeScore`, again by climbing, if none could not be written.
  `ScoresAssumption`: the notes of a score come in the order of time.
* `VideoIsRecording` (`VideoShowsRecording`), for every recording, screen, frame rate,
  length of a day and limit of files, both editions, numbered MV files or one.
  `RecordingsAssumption`: shots are pictures anywhere on the screen or off it, none
  taken before the one before it; `MovieAssumption`: a shot fits an MV file and a frame
  is shorter than a day; `PictureAssumption`: a run has two pixels or more. The argument
  has four parts.

  *The code of a BMP is read back.* `BmpShows`: whatever a picture is, what a viewer
  decodes of `BMPRLE4To` is the picture. `Reads` says that a piece of code makes these
  lines of those, without a word on what lies around it; `RowReads` follows a row from
  its right end, pair by pair, and `PairsRead` the rows from the top.

  *The screen is a function of the shots.* `GrBlotIs` says of `GrBlot` point by point
  what it leaves and what it copies, wherever the picture lies; `Canvas(n)`, the last of
  the first `n` shots that has a point on it, is then what `n` of them leave
  (`CanvasNext`), and starting a part with the whole screen changes nothing
  (`CanvasWhole`).

  *The frames are a function of time.* `Due(n)` is the shot that frame `n` shows;
  `RecordedIs` says of `Recorded` frame by frame that it is `Canvas` of it, and
  `ClockGoesOn` that both editions step the clock alike, over the end of a day too.

  *The parts are cut somewhere.* `VideoInv`: there are numbers `e`, where the MV files
  end among the shots, with each file the shots from one to the next, the first of them
  the whole screen; while playing, what is on the screen is `Canvas` of the shots so
  far, the clock stands at the next frame, and the files of a directory are, as far as
  this run wrote them and if all could be written, the frames of their part. What lies
  behind them is of a run that was broken off, and not if none was (`left`). `PlayedIs`
  puts the clips together: frame by frame `Recorded`.
* `ToszIsTyped` (`TypeOK`): those of the archive TOSZ has from `ArchiveIsTyped`, the
  clock's and the MV files' from `VideoInv`, the places in the buffer of samples from
  `SoundInv`, the files that could not be written from `Counted`; the rest every step
  keeps (`CallTyped`). `BreaksAssumption`: a call is broken off a finite number of
  times.

`ReleaseProofs`, for any revisions and any set of them that passes the gate
(`ReleaseAssumption`): `ReleaseInvariant`, `Spec => []RInv`. The properties speak of the
end of a run, so `RInv` says for every statement what the ones before have seen to:
`CheckedSoFar` (the text is the one that passed the gate, unless somebody touched the
tree), `ZipSoFar` (the package is whole, then the zip is of it, then the checksum of the
zip), `TagSoFar` (from the tag on it is at the head). That a run publishes only what it
tagged itself (`TagSoFar`) does not ask whether the tree was touched: between its tag
and its push nothing else makes one. One lemma per part of the scripts; people and a
second clone are `PeopleKeep`. `ZipsAreWhole`, `WhatIsReleasedWasChecked`,
`TaggedOnSuccess` and `OnlyTheHeadIsPublished` follow.

`ArchaeologyProofs`, for any of the targets, any versions of their trees and any
number of runs and failures: `RunsLeaveFreshReports`, `ComparisonsAgree`,
`NotesAreKept`. `FreshAfterRun` speaks of the end of a run; `FreshInv` says for every
step which reports are fresh already: those of the targets no longer queued, the
first four except those to come (`InBase`), and then all but those to come
(`InLate`). It needs the order of the scripts: everything is made from the tree, the
source map and the include report (`MadeFromIs`), and `REVERSE` and
`ARCHAEOLOGY-FINDINGS`, after which the script looks at the result, come last
(`Ends`). `Compared` is the same for the reports across targets. `NotesInv` says that a
run about to write the template has found no notes, so that what is there now came since.

Only model-checked: liveness (`Terminates` of four runs, `Reported`, the fairness of
`Implements`), which is out of the prover's reach. Every other property of a passing run
is the property of a theorem. No theorem says what a recursive definition computes by
induction over data: where one is used (the readers of `HolyLex` and `HolyIndex`,
`Visible`, `FlattenSeq`), its value is followed from place to place with `Climb`.

## 5. Findings

1. `entrypoint_files` (`main.rs:698`) compares paths by spelling: a file included
   as `A/../B` or in another case counts as included by nobody. `DOCS.md:284-286`
   calls entrypoints "files that nobody else includes".
2. `Invoke-Step` (`run-archaeology.ps1:23`) reads a `$LASTEXITCODE` the rollup
   scripts never set; in a new session `-ReportsOnly` ends after its first script,
   with exit code 0 and `SUMMARY.md` unchanged.
3. From the release folder the pipeline comes to scripts that look for the exe
   in the workspace only, or are not packaged. `DOCS.md:68` says they do not need
   the workspace.
4. In `main` of `Linux/TOSZ.CPP` the block that takes the output name stands twice
   (lines 957 on): with one name given, the second copy finds no further argument,
   so `TOSZ f.Z g` writes `f` and removes `f.Z`. The usage text (`TOSZ.CPP:976`) says
   `TOSZ [-ascii] in_name [out_name]`.
5. `ArcFinishCompression` (`Compress.HC:157`) asks for room in one width and counts in
   another: a text whose last code widens the codes may be compressed into a block one
   byte longer than the buffer it is copied from. `Doc/Tips.DD:48` says files are
   automatically compressed and uncompressed.

Met on the way, and not run: `Invoke-CrossTargetReports` (`run-archaeology.ps1:155`)
compares targets as soon as both have a `source-map.json`, while `ARCHAEOLOGY.md:124`
wants complete report directories; `Doc/TOSZ.DD:6` says `-ascii` makes spaces of the
characters 5 and 31, the code drops 5.

## 6. Plan

Done, in this order: dependency order with its abstract specification and proofs;
include resolution and the tree command with its proofs; the two composed; the lexer and
its proofs; the indexer on top of the lexer; the release gate and its proofs; the
archaeology pipeline and its proofs; the archive format and its proofs; video, sound and
TOSZ as a whole, with theirs.

Next:

1. *Include targets.* `normalize_include_target` (`holyindex` 235-251) over
   targets as component sequences with their prefix, put before `ResolveInclude`
   in `TreeOrder` and `SourceMap`; and `Get-TargetVariants` /
   `Resolve-LegacyInclude` beside it, with the property that a target the native
   resolver finds is found by the legacy one.
2. *Snapshots.* A module for `Copy-Snapshot` and `Invoke-GitMv`: partial copies,
   `-Force`, the import log.
3. *Oracle.* The generator over w-bit words (`XorShift64::new` replaces a zero seed)
   and the flag parser; theorem: the generator never reaches zero.
4. *Links and cycles of directories* in `SourceMap`; the eleven scans of
   `report.ps1` as steps of their own in `Archaeology`; `-DeepLoseThos`.

## 7. Not modelled, and why

* Argument lookup, text and JSON output, report wording: formatting over modelled
  results. `stats`, `includes`, `symbols`, `find-symbol`, `outline` and `tokens` are
  not commands of `SourceMap`: they show what `scan`, `include-graph` and
  `HolyIndex` compute. (An unknown command prints the help and exits 0, `main.rs:46-49`.)
* The single report writers and the deep research scripts: no state of their own;
  `Archaeology` has a step for each that the pipeline calls.
* Of TOSZ: palettes, the layout of BMP and sound files, file names as text, the
  refusal of archives of an unknown type or of 512 MB and more, memory running out.
* The TempleOS headers (`KernelA.HH` to `KernelC.HH`, `Compiler*.HH`, `Gr.HH`) are
  declarations, constants and tables of externs, and `0000Kernel.BIN.C` is a compiled
  kernel: nothing in them is executed as written, so there is no step to model. They
  are some six thousand of the eight thousand lines of C and C++ in the repository; the
  rest are the two editions of TOSZ, which are modelled as one where they agree.
  The tools proper are Rust and PowerShell, which such a count leaves out.
* The other research trees and fixtures: inputs, never executed. CI: a fresh checkout
  each time, no state.
* The oracle, the legacy resolver, the snapshot scripts: planned above.
