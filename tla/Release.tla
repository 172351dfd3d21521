------------------------------ MODULE Release -------------------------------
(***************************************************************************)
(* One clone's runs of scripts/release.ps1, which checks the tree, builds  *)
(* and zips the package and publishes a tag, and of package-zip.ps1 alone. *)
(* Runs fail, are interrupted and are repeated, and leave their files to   *)
(* the next run; meanwhile people edit, commit and check out, and another  *)
(* clone may publish the tag.  A revision stands for the text of a tree.   *)
(***************************************************************************)
EXTENDS Naturals

CONSTANTS Revs,     \* the revisions
          None,     \* no revision
          Failing   \* the gate step each revision does not pass, or None

GateSteps == {"fmt", "check", "test", "verify"}

ASSUME ReleaseAssumption ==
  /\ None \notin Revs
  /\ Failing \in [Revs -> GateSteps \cup {None}]

VARIABLES src,        \* the text in the working tree
          head,       \* the commit checked out
          localTag, originTag,  \* the commit the version's tag is on
          tagged,     \* history: the head when this run made the tag, or None
          built,      \* the text target/release/holytools.exe was built from
          pkg,        \* the package directory: the text each part is from
          zip,        \* the package in the zip
          sha,        \* the package in the zip the sidecar was computed for
          pc,         \* the next step of the run
          run,        \* the script started
          stops,      \* PowerShell stops at a native command that fails
          touched     \* the tree was changed since the last run started

tree == <<src, head, touched>>
tags == <<localTag, originTag, tagged>>
files == <<built, pkg, zip, sha>>
vars == <<tree, tags, files, pc, run, stops>>

Parts == {"exe", "docs", "version", "sums", "manifest"}
Package == [Parts -> Revs \cup {None}]
Empty == [part \in Parts |-> None]

Ended == {"idle", "failed", "zipped", "exists", "released"}

\* The statements a run may be at.
Packing == {"build", "clear", "copy", "docs", "version", "sums", "manifest"}
Zipping == {"zip", "verify-again", "remove-zip", "compress", "sidecar"}
Publishing == {"status", "ls-remote", "tag", "push"}
Steps == {"fetch"} \cup GateSteps \cup {"verify-package"} \cup Packing \cup Zipping \cup Publishing

Init ==
  /\ src \in Revs /\ head \in Revs /\ touched = FALSE
  /\ localTag = None /\ originTag = None /\ tagged = None
  /\ built = None /\ pkg = None /\ zip = None /\ sha = None
  /\ pc = "idle" /\ run = "release" /\ stops \in BOOLEAN
-----------------------------------------------------------------------------
(* What people do meanwhile. *)

Running == pc \notin Ended

Tree(newSrc, newHead) ==
  /\ <<newSrc, newHead>> # <<src, head>>
  /\ src' = newSrc /\ head' = newHead
  /\ touched' = TRUE
  /\ UNCHANGED <<tags, files, pc, run, stops>>

Edit == \E r \in Revs : Tree(r, head)
Commit == Tree(src, src)
Checkout == \E r \in Revs : Tree(r, r)

OtherClonePushes ==
  /\ originTag = None
  /\ originTag' \in Revs
  /\ UNCHANGED <<localTag, tagged, tree, files, pc, run, stops>>

\* The run is interrupted: Ctrl-C, a closed window, a power cut.
Interrupt == /\ Running
             /\ pc' = "failed"
             /\ UNCHANGED <<tree, tags, files, run, stops>>
-----------------------------------------------------------------------------
(* The steps of a run. *)

Start(script, first) ==
  /\ pc \in Ended
  /\ run' = script
  /\ pc' = first
  /\ touched' = FALSE
  /\ tagged' = None
  /\ UNCHANGED <<src, head, localTag, originTag, files, stops>>

StartRelease == Start("release", "fetch")
StartZip == Start("package-zip", "zip")

Go(step) == pc' = step /\ UNCHANGED <<tree, run, stops>>

Fails == Go("failed") /\ UNCHANGED <<tags, files>>

\* git fetch origin --tags refuses a tag that would move.
Fetch ==
  /\ pc = "fetch"
  /\ \/ Fails
     \/ /\ originTag = None
        /\ Go("fmt") /\ UNCHANGED <<tags, files>>
     \/ /\ originTag # None /\ localTag \in {None, originTag}
        /\ localTag' = originTag
        /\ Go("fmt") /\ UNCHANGED <<originTag, tagged, files>>

\* A step the text in the working tree passes; any may fail on the machine.
Gate(step, then) ==
  /\ pc = step
  /\ \/ Fails
     \/ Failing[src] # step /\ Go(then) /\ UNCHANGED <<tags, files>>

GateFmt == Gate("fmt", "check")
GateCheck == Gate("check", "test")
GateTest == Gate("test", "verify")
GateVerify == Gate("verify", "build")

\* cargo build: it also fails while the exe it would replace is running, and
\* an older PowerShell then goes on to the copy.
Build ==
  /\ pc = "build"
  /\ \/ /\ Failing[src] # "check"
        /\ built' = src
        /\ Go("clear") /\ UNCHANGED <<tags, pkg, zip, sha>>
     \/ stops /\ Fails
     \/ ~stops /\ Go("clear") /\ UNCHANGED <<tags, files>>

\* The old package directory is removed, or was not there, and made anew.
Clear == /\ pc = "clear"
         /\ pkg' = Empty
         /\ Go("copy") /\ UNCHANGED <<tags, built, zip, sha>>

Write(step, part, from, then) ==
  /\ pc = step
  /\ \/ from = None /\ Fails
     \/ /\ from # None
        /\ pkg' = [pkg EXCEPT ![part] = from]
        /\ Go(then) /\ UNCHANGED <<tags, built, zip, sha>>

CopyExe == Write("copy", "exe", built, "docs")
CopyDocs == Write("docs", "docs", src, "version")
WriteVersion == Write("version", "version", pkg.exe, "sums")
WriteSums == Write("sums", "sums", pkg.exe, "manifest")
WriteManifest == Write("manifest", "manifest", src,
                       IF run = "release" THEN "verify-package" ELSE "verify-again")

Complete(p) == /\ p # None
               /\ \A part \in Parts : p[part] # None
               /\ p.version = p.exe /\ p.sums = p.exe

\* The packaged exe does not do what verify.ps1 asks of it.
Misbehaves(rev) == Failing[rev] = "verify"

\* verify-package.ps1 as a step of release.ps1.
VerifyPackage ==
  /\ pc = "verify-package"
  /\ \/ Fails
     \/ /\ Complete(pkg) /\ ~Misbehaves(pkg.exe)
        /\ Go("zip") /\ UNCHANGED <<tags, files>>

StartZipStep ==
  /\ pc = "zip"
  /\ Go(IF pkg = None THEN "build" ELSE "verify-again")
  /\ UNCHANGED <<tags, files>>

\* The parts of the package are not looked for.
FaultyVerifyAgain ==
  /\ pc = "verify-again"
  /\ Go("remove-zip") /\ UNCHANGED <<tags, files>>

\* verify-package.ps1 as a line of package-zip.ps1: an exit of it for an exe
\* that fails ends only itself, unless PowerShell stops at the exe.
VerifyAgain ==
  /\ pc = "verify-again"
  /\ \/ Fails
     \/ /\ Complete(pkg)
        /\ stops => ~Misbehaves(pkg.exe)
        /\ Go("remove-zip") /\ UNCHANGED <<tags, files>>

RemoveZip == /\ pc = "remove-zip"
             /\ zip' = None
             /\ Go("compress") /\ UNCHANGED <<tags, built, pkg, sha>>

Compress == /\ pc = "compress"
            /\ zip' = pkg
            /\ Go("sidecar") /\ UNCHANGED <<tags, built, pkg, sha>>

\* A sidecar that is there is kept.
FaultySidecar ==
  /\ pc = "sidecar"
  /\ sha' = IF sha = None THEN zip ELSE sha
  /\ Go(IF run # "release" THEN "zipped"
        ELSE IF Misbehaves(pkg.exe) THEN "failed" ELSE "status")
  /\ UNCHANGED <<tags, built, pkg, zip>>

\* The end of package-zip.ps1; in release.ps1 the exit code of the last exe
\* is looked at.
Sidecar ==
  /\ pc = "sidecar"
  /\ sha' = zip
  /\ Go(IF run # "release" THEN "zipped"
        ELSE IF Misbehaves(pkg.exe) THEN "failed" ELSE "status")
  /\ UNCHANGED <<tags, built, pkg, zip>>

\* The working tree is not looked at.
FaultyCheckClean == pc = "status" /\ Go("ls-remote") /\ UNCHANGED <<tags, files>>

\* git status --short; when it fails, an older PowerShell sees no output.
CheckClean ==
  /\ pc = "status"
  /\ \/ Fails
     \/ (src = head \/ ~stops) /\ Go("ls-remote") /\ UNCHANGED <<tags, files>>

\* The tag in the clone is looked at instead.
FaultyCheckRemote ==
  /\ pc = "ls-remote"
  /\ Go(IF localTag # None THEN "exists" ELSE "tag")
  /\ UNCHANGED <<tags, files>>

\* git ls-remote; when it fails, an older PowerShell sees no output.
CheckRemote ==
  /\ pc = "ls-remote"
  /\ \/ Fails
     \/ originTag # None /\ Go("exists") /\ UNCHANGED <<tags, files>>
     \/ (originTag = None \/ ~stops) /\ Go("tag") /\ UNCHANGED <<tags, files>>

\* A tag that is there is published as it is.
FaultyTag == /\ pc = "tag"
             /\ localTag' = IF localTag = None THEN head ELSE localTag
             /\ tagged' = head
             /\ Go("push") /\ UNCHANGED <<originTag, files>>

\* git tag refuses a tag that is there.
Tag == /\ pc = "tag"
       /\ \/ Fails
          \/ /\ localTag = None
             /\ localTag' = head /\ tagged' = head
             /\ Go("push") /\ UNCHANGED <<originTag, files>>

\* git push refuses to move a tag; its answer may be lost.
Push == /\ pc = "push"
        /\ \/ Fails
           \/ /\ originTag \in {None, localTag}
              /\ originTag' = localTag
              /\ \/ Go("released")
                 \/ Go("failed")
              /\ UNCHANGED <<localTag, tagged, files>>

Step == \/ Fetch \/ GateFmt \/ GateCheck \/ GateTest \/ GateVerify
        \/ Build \/ Clear \/ CopyExe \/ CopyDocs \/ WriteVersion \/ WriteSums \/ WriteManifest
        \/ VerifyPackage \/ StartZipStep \/ VerifyAgain \/ RemoveZip \/ Compress \/ Sidecar
        \/ CheckClean \/ CheckRemote \/ Tag \/ Push

People == Edit \/ Commit \/ Checkout \/ OtherClonePushes \/ Interrupt

Next == StartRelease \/ StartZip \/ Step \/ People

Spec == Init /\ [][Next]_vars
-----------------------------------------------------------------------------
(* What the runs must do. *)

\* What is in a zip has all its parts.
TypeOK ==
  /\ src \in Revs /\ head \in Revs /\ touched \in BOOLEAN /\ stops \in BOOLEAN
  /\ {localTag, originTag, tagged, built} \subseteq Revs \cup {None}
  /\ pkg \in Package \cup {None}
  /\ {zip, sha} \subseteq [Parts -> Revs] \cup {None}
  /\ pc \in Ended \cup Steps
  /\ run \in {"release", "package-zip"}

\* A run that says "release:" on a tree nobody touched meanwhile has published
\* the commit it checked, and the zip beside it is that commit's, whatever
\* earlier runs left behind.
ReleasedWhatWasChecked ==
  (pc = "released" /\ stops /\ ~touched) =>
    /\ originTag = head /\ localTag = head
    /\ Failing[head] = None
    /\ zip = [part \in Parts |-> head]

\* A run that succeeds leaves a zip of a complete package that agrees with its
\* own version file and checksum, and a sidecar that is this zip's, whatever
\* is done to the tree meanwhile.
Succeeded == pc \in {"zipped", "exists", "released"}

ZipIsWhole ==
  Succeeded =>
    /\ Complete(zip)
    /\ sha = zip
    /\ stops => ~Misbehaves(zip.exe)

\* A run of release.ps1 that succeeds ends with the tag on origin.
SuccessMeansTagged == pc \in {"exists", "released"} => originTag # None

\* Whatever fails and whatever is checked out meanwhile, what this clone
\* publishes is the commit that was its head when the run that publishes it
\* made the tag: a tag left by a failed push is never published by a later run
\* at another commit.
PublishesItsHead ==
  [][(Push /\ originTag' # originTag) => (tagged # None /\ originTag' = tagged)]_vars
-----------------------------------------------------------------------------
(* Why it is so: what a run has seen to before each of its statements. *)

\* Nothing is zipped and no zip is published unless its package was verified,
\* however the package came to be.
Verified(package) == Complete(package) /\ (stops => ~Misbehaves(package.exe))

ZipSoFar ==
  /\ pc \in {"copy", "docs", "version", "sums", "manifest"} => pkg \in Package
  /\ pc \in {"remove-zip", "compress"} => Verified(pkg)
  /\ pc = "sidecar" => Verified(pkg) /\ zip = pkg
  /\ pc \in Publishing \cup {"zipped", "exists", "released"} => Verified(zip) /\ sha = zip

\* Only release.ps1 publishes, and what it pushes is the tag it has just made.
TagSoFar ==
  /\ pc \in Publishing \cup {"exists", "released"} => run = "release"
  /\ pc = "push" => /\ localTag # None /\ localTag = tagged
                    /\ ~touched => localTag = head
  /\ pc \in {"exists", "released"} => originTag # None
  /\ pc = "released" /\ ~touched => originTag = head /\ localTag = head

\* On a tree nobody touches, a run of release.ps1 works on one text.
CheckedSoFar ==
  run = "release" /\ stops /\ ~touched =>
    /\ pc \in {"check", "test", "verify"} => Failing[src] # "fmt"
    /\ pc \in {"test", "verify"} => Failing[src] # "check"
    /\ pc = "verify" => Failing[src] # "test"
    /\ pc \in Packing \cup {"verify-package"} \cup Zipping \cup Publishing \cup {"released"}
         => Failing[src] = None
    /\ pc \in Packing \ {"build"} => built = src
    /\ pc \in {"docs", "version", "sums", "manifest"} => pkg.exe = src
    /\ pc \in {"version", "sums", "manifest"} => pkg.docs = src
    /\ pc \in {"sums", "manifest"} => pkg.version = src
    /\ pc = "manifest" => pkg.sums = src
    /\ pc \in {"verify-package"} \cup Zipping => \A part \in Parts : pkg[part] = src
    /\ pc \in Publishing \cup {"released"} => \A part \in Parts : zip[part] = src
    /\ pc \in {"ls-remote", "tag", "push", "released"} => src = head

\* The inductive invariant of the proofs.
RInv == TypeOK /\ ZipSoFar /\ TagSoFar /\ CheckedSoFar
=============================================================================
