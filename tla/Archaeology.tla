---------------------------- MODULE Archaeology -----------------------------
(***************************************************************************)
(* Runs of scripts/run-archaeology.ps1: for each tree named, a sequence of *)
(* scripts that write reports into the tree's report directory, each made  *)
(* from the tree or from reports written before it; then reports across    *)
(* targets and a summary.  Runs fail and are interrupted half way and the  *)
(* trees change between and during runs, but what was written stays.  A    *)
(* report is modelled by the versions of the tree it was made from.        *)
(***************************************************************************)
EXTENDS Naturals, Sequences, SequencesExt, FiniteSetsExt

CONSTANTS Targets,    \* of "losethos", "sparrowos", "templeos"
          HasHoly,    \* for each version of a tree, whether it has HolyC files
          Place,      \* "workspace" or "package": the current directory
          MaxRuns     \* bound on the runs

ASSUME ArchaeologyAssumption ==
  /\ Targets \subseteq {"losethos", "sparrowos", "templeos"}
  /\ HasHoly \in Seq(BOOLEAN) \ {<<>>}
  /\ Place \in {"workspace", "package"}
  /\ MaxRuns \in Nat

Versions == DOMAIN HasHoly

VARIABLES tree,      \* the version of each source tree
          out,       \* the reports of each target
          notes,     \* its NOTES.md: none, a template (whole or cut short) or edited
          late,      \* history: the targets somebody wrote notes for after this run
                     \* had found none and before it wrote the template
          cross,     \* the reports across targets
          summary,   \* SUMMARY.md: the two sources of each row
          pc,
          named,     \* the targets of the run
          queue,     \* those of them still to do
          todo,      \* the reports still to write
          mode,      \* "trees" or "reports-only"
          code,      \* $LASTEXITCODE of the session
          steady,    \* no tree has changed since the last run started
          summarized, \* the run has written the summary
          runs

world == <<tree, steady, named>>
reports == <<out, cross, summary>>
noted == <<notes, late>>
vars == <<world, reports, noted, pc, queue, todo, mode, code, summarized, runs>>

None == {0}    \* no report
Torn == {}     \* a report whose writer failed
Report == SUBSET Versions \cup {None}

\* The order in which run-archaeology.ps1 has them written.
Base == <<"source-map", "base-reports", "include-resolve", "REVERSE">>
Chain == <<"BOOT-CHAIN", "SPINE">>
Specific(t) ==
  CASE t = "templeos" -> <<"KERNEL-CONTRACT", "COMPILER-CONTRACT", "ADAM-MANIFEST",
                           "DESKTOP-SURFACE", "ADAM-SUBSYSTEMS">>
    [] t = "losethos" -> <<"LOSETHOS-CONTRACT">>
    [] OTHER -> <<>>
Findings == <<"ARCHAEOLOGY-FINDINGS">>

Pipeline(t) == Base \o Chain \o Specific(t) \o Findings

\* The eight comparisons.
Cross == <<"COMPARE", "BOOT-COMPARE", "KERNEL-ADAMK-COMPARE", "COMPILER-CMP-COMPARE",
           "COMPILER-PIPELINE", "ADAM-SURFACE", "ADAM-LAYER-COMPARE", "RESEARCH-STATE">>
CrossTargets == {"templeos", "losethos"}

\* What a report is made from, the tree or earlier reports.
MadeFrom(report) ==
  CASE report \in {"ADAM-MANIFEST", "ADAM-SUBSYSTEMS", "ARCHAEOLOGY-FINDINGS"}
         -> {"include-resolve"}
    [] report = "BOOT-CHAIN" -> {"tree", "include-resolve"}
    [] report \in {"REVERSE", "LOSETHOS-CONTRACT"} -> {"tree", "source-map", "include-resolve"}
    [] OTHER -> {"tree"}

Content(t, report) ==
  UNION {IF source = "tree" THEN {tree[t]} ELSE out[t][source] : source \in MadeFrom(report)}

Exists(t, report) == out[t][report] # None

\* What a comparison is made from: reports of targets.  Some also say which
\* other reports are there; that is left out.
Inputs(report) ==
  CASE report \in {"COMPARE", "RESEARCH-STATE"}
         -> CrossTargets \X {"source-map", "include-resolve"}
    [] report \in {"COMPILER-PIPELINE", "ADAM-SURFACE"} -> {"losethos"} \X {"include-resolve"}
    [] OTHER -> CrossTargets \X {"include-resolve"}

\* In the release folder there is no target/release or dist directory, where
\* these look for holytools.exe, and these scripts are not packaged.
NeedsWorkspace(report) ==
  report \in {"include-resolve", "REVERSE", "SPINE", "KERNEL-CONTRACT", "COMPILER-CONTRACT",
              "DESKTOP-SURFACE", "LOSETHOS-CONTRACT"} \cup Range(Cross)

Runs(report) == Place = "workspace" \/ ~NeedsWorkspace(report)

Ended == {"idle", "ok", "exited", "failed"}

Init ==
  /\ tree = [t \in Targets |-> 1] /\ steady = TRUE /\ named = {}
  /\ out = [t \in Targets |-> [r \in Range(Pipeline(t)) |-> None]]
  /\ notes = [t \in Targets |-> "none"] /\ late = {}
  /\ cross = [r \in Range(Cross) |-> [i \in Inputs(r) |-> None]]
  /\ summary = [t \in Targets |-> <<None, None>>]
  /\ pc = "idle" /\ queue = <<>> /\ todo = <<>> /\ mode = "trees"
  /\ code \in {"none", "nonzero"}
  /\ summarized = FALSE
  /\ runs = 0
-----------------------------------------------------------------------------
(* Meanwhile. *)

ChangeTree(t) ==
  /\ tree[t] < Len(HasHoly)
  /\ tree' = [tree EXCEPT ![t] = @ + 1]
  /\ steady' = FALSE
  /\ UNCHANGED <<named, reports, noted, pc, queue, todo, mode, code, summarized, runs>>

\* Somebody fills in the template, or writes notes of their own.
EditNotes(t) ==
  /\ notes[t] # "edited"
  /\ notes' = [notes EXCEPT ![t] = "edited"]
  /\ late' = IF pc = "template" /\ t = Head(queue) THEN late \cup {t} ELSE late
  /\ UNCHANGED <<world, reports, pc, queue, todo, mode, code, summarized, runs>>
-----------------------------------------------------------------------------
(* A run. *)

\* A run in the session of the last one or in a new one.
Begin(newMode, targets, first) ==
  /\ pc \in Ended
  /\ runs < MaxRuns
  /\ runs' = runs + 1
  /\ mode' = newMode /\ pc' = first
  /\ named' = Range(targets) /\ queue' = targets /\ todo' = <<>>
  /\ summarized' = FALSE /\ steady' = TRUE
  /\ code' \in {code, "none"}
  /\ late' = {}
  /\ UNCHANGED <<tree, reports, notes>>

\* -TempleOS, -LoseThos and -SparrowOS, those given, in this order.
Turn == [templeos |-> 1, losethos |-> 2, sparrowos |-> 3]

StartTrees ==
  \E targets \in SeqOf(Targets, 3) \ {<<>>} :
    /\ \A m, n \in DOMAIN targets : m < n => Turn[targets[m]] < Turn[targets[n]]
    /\ Begin("trees", targets, "target")

StartReportsOnly == Begin("reports-only", <<>>, "cross")

Keep == UNCHANGED <<world, mode, runs>>

\* A step fails or the run is interrupted; the file being written may be left
\* without its content.
Fails ==
  /\ pc \notin Ended
  /\ pc' = "failed"
  /\ code' \in {code, "nonzero"}
  /\ \/ UNCHANGED <<out, notes>>
     \/ /\ pc = "scripts" /\ todo # <<>>
        /\ out' = [out EXCEPT ![Head(queue)][Head(todo)] = Torn]
        /\ UNCHANGED notes
     \/ /\ pc = "template"
        /\ notes' = [notes EXCEPT ![Head(queue)] = "template"]
        /\ UNCHANGED out
  /\ UNCHANGED <<cross, summary, late, queue, todo, summarized>>
  /\ Keep

NextTarget ==
  /\ pc = "target"
  /\ pc' = IF queue = <<>> THEN "cross" ELSE "scripts"
  /\ todo' = IF queue = <<>> THEN <<>> ELSE Base
  /\ UNCHANGED <<reports, noted, queue, code, summarized>>
  /\ Keep

\* One script of Invoke-Target, run through Invoke-Step.
Script ==
  /\ pc = "scripts"
  /\ todo # <<>>
  /\ LET t == Head(queue)
         report == Head(todo)
     IN  /\ Runs(report)
         /\ out' = [out EXCEPT ![t][report] = Content(t, report)]
         /\ todo' = Tail(todo)
         /\ pc' = IF report = "REVERSE" THEN "count"
                   ELSE IF report = "ARCHAEOLOGY-FINDINGS" THEN "notes" ELSE "scripts"
  /\ code' = "zero"
  /\ UNCHANGED <<cross, summary, noted, queue, summarized>>
  /\ Keep

\* Get-HolyFileCount: a tree without HolyC files gets no further reports.
CountFiles ==
  /\ pc = "count"
  /\ LET t == Head(queue)
         holy == \E v \in out[t]["source-map"] : HasHoly[v]
     IN  todo' = IF holy THEN Chain \o Specific(t) \o Findings ELSE Findings
  /\ pc' = "scripts"
  /\ UNCHANGED <<reports, noted, queue, code, summarized>>
  /\ Keep

\* Write-NotesTemplate does not look for notes.
FaultyLookForNotes ==
  /\ pc = "notes"
  /\ pc' = "template"
  /\ UNCHANGED <<reports, noted, queue, todo, code, summarized>>
  /\ Keep

\* The Test-Path of Write-NotesTemplate: notes that are there are left alone.
LookForNotes ==
  /\ pc = "notes"
  /\ IF notes[Head(queue)] = "none"
       THEN pc' = "template" /\ UNCHANGED queue
       ELSE pc' = "target" /\ queue' = Tail(queue)
  /\ UNCHANGED <<reports, noted, todo, code, summarized>>
  /\ Keep

\* Its Set-Content, which overwrites what has come to be there since.
WriteTemplate ==
  /\ pc = "template"
  /\ notes' = [notes EXCEPT ![Head(queue)] = "template"]
  /\ queue' = Tail(queue)
  /\ pc' = "target"
  /\ UNCHANGED <<reports, late, todo, code, summarized>>
  /\ Keep

\* The last comparison is forgotten.
FaultyStartCross ==
  /\ pc = "cross"
  /\ LET both == CrossTargets \subseteq Targets
                 /\ \A t \in CrossTargets \cap Targets : Exists(t, "source-map")
     IN  /\ pc' = IF both THEN "compare" ELSE "summary"
         /\ todo' = IF both THEN Front(Cross) ELSE <<>>
  /\ UNCHANGED <<reports, noted, queue, code, summarized>>
  /\ Keep

\* Invoke-CrossTargetReports asks only for the two source maps.
StartCross ==
  /\ pc = "cross"
  /\ LET both == CrossTargets \subseteq Targets
                 /\ \A t \in CrossTargets \cap Targets : Exists(t, "source-map")
     IN  /\ pc' = IF both THEN "compare" ELSE "summary"
         /\ todo' = IF both THEN Cross ELSE <<>>
  /\ UNCHANGED <<reports, noted, queue, code, summarized>>
  /\ Keep

\* The exit code a script leaves: one without native commands leaves the old
\* one, and Invoke-Step takes any but zero for a failure, also none at all.
After(step) == IF code = "zero" THEN step ELSE "exited"

Compare ==
  /\ pc = "compare"
  /\ todo # <<>>
  /\ Runs(Head(todo))
  /\ \A i \in Inputs(Head(todo)) : out[i[1]][i[2]] # Torn
  /\ cross' = [cross EXCEPT ![Head(todo)] = [i \in Inputs(Head(todo)) |-> out[i[1]][i[2]]]]
  /\ todo' = Tail(todo)
  /\ pc' = After(IF Tail(todo) = <<>> THEN "summary" ELSE "compare")
  /\ UNCHANGED <<out, summary, noted, queue, code, summarized>>
  /\ Keep

\* The counts of the summary's include columns are those of the source map.
FaultySummarize ==
  /\ pc = "summary"
  /\ summary' = [t \in Targets |-> IF Exists(t, "source-map")
                                   THEN <<out[t]["source-map"], summary[t][2]>>
                                   ELSE <<None, None>>]
  /\ summarized' = TRUE
  /\ pc' = After("ok")
  /\ UNCHANGED <<out, cross, noted, queue, todo, code>>
  /\ Keep

\* summarize-archaeology.ps1: a row per source map; its include columns are
\* those of include-resolve.json if there is one.
Summarize ==
  /\ pc = "summary"
  /\ \A t \in Targets :
       Exists(t, "source-map") => Torn \notin {out[t]["source-map"], out[t]["include-resolve"]}
  /\ summary' = [t \in Targets |->
                   IF Exists(t, "source-map")
                   THEN <<out[t]["source-map"],
                          IF Exists(t, "include-resolve") THEN out[t]["include-resolve"]
                                                          ELSE out[t]["source-map"]>>
                   ELSE <<None, None>>]
  /\ summarized' = TRUE
  /\ pc' = After("ok")
  /\ UNCHANGED <<out, cross, noted, queue, todo, code>>
  /\ Keep

Step == NextTarget \/ Script \/ CountFiles \/ LookForNotes \/ WriteTemplate
        \/ StartCross \/ Compare \/ Summarize

Next == \/ StartTrees \/ StartReportsOnly \/ Step \/ Fails
        \/ \E t \in Targets : ChangeTree(t) \/ EditNotes(t)

Spec == Init /\ [][Next]_vars
-----------------------------------------------------------------------------
(* What the runs must do. *)

\* The reports that are written of a tree.
Written(t) == IF HasHoly[tree[t]] THEN Range(Pipeline(t)) ELSE Range(Base \o Findings)

\* After a run that says ok on trees that do not change meanwhile, each
\* report of each tree it was given is made from that tree as it is, and so are
\* both halves of the summary's row, whatever earlier runs left half done.  Of
\* a tree without HolyC files that goes for the reports that are written.
FreshAfterRun ==
  (pc = "ok" /\ steady) =>
    \A t \in named : /\ \A r \in Written(t) : out[t][r] = {tree[t]}
                      /\ summary[t] = <<{tree[t]}, {tree[t]}>>

\* After a run that says ok each report across targets is made from the present
\* reports of the targets: none is left over from an earlier run.
RollupsAgree ==
  (pc = "ok" /\ CrossTargets \subseteq Targets /\ \A t \in Targets : Exists(t, "source-map")) =>
    \A r \in Range(Cross) : \A i \in Inputs(r) : cross[r][i] = out[i[1]][i[2]]

\* Notes somebody wrote are lost only if they were written after the run had
\* found none: whatever was there when a run came to look is safe from it, from
\* its failures and from all later runs.
NotesKept ==
  [][\A t \in Targets : (notes[t] = "edited" /\ notes'[t] # "edited") => t \in late]_vars

\* run-archaeology.ps1: "use -ReportsOnly to refresh existing report rollups".
\* A run that does not exit with an error has done so.
RollupsRefreshed ==
  (mode = "reports-only" /\ pc \in {"ok", "exited"} /\ code # "nonzero") => summarized

\* DOCS.md: the packaged scripts "do not need the Rust workspace when run from
\* the release folder".
PackagedScriptsRun ==
  (Place = "package" /\ pc \in {"scripts", "compare"} /\ todo # <<>>) => Runs(Head(todo))
=============================================================================
