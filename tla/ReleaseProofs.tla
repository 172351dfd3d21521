---------------------------- MODULE ReleaseProofs ---------------------------
(***************************************************************************)
(* What release.ps1 and package-zip.ps1 leave behind, for any number of    *)
(* revisions, of runs and of failures.                                     *)
(***************************************************************************)
EXTENDS Release, TLAPS

\* Before the first run nothing is left to be relied on.
LEMMA InitOK == Init => RInv
BY ReleaseAssumption
DEF Init, RInv, TypeOK, ZipSoFar, TagSoFar, CheckedSoFar, Ended, Steps,
    GateSteps, Packing, Zipping, Publishing

\* People change the tree, which ends all that is known of a run on it; a
\* clone that publishes a tag finds none on origin.
LEMMA PeopleKeep == RInv /\ People => RInv'
<1> SUFFICES ASSUME RInv, People PROVE RInv'
  OBVIOUS
<1> USE DEF RInv
<1>1. ASSUME NEW newSrc \in Revs, NEW newHead \in Revs, Tree(newSrc, newHead)
      PROVE  RInv'
  BY <1>1
  DEF Tree, TypeOK, ZipSoFar, TagSoFar, CheckedSoFar, Verified, Complete, Misbehaves,
      tags, files
<1>2. CASE Edit \/ Commit \/ Checkout
  BY <1>1, <1>2 DEF Edit, Commit, Checkout, TypeOK
<1>3. CASE OtherClonePushes
  BY <1>3, ReleaseAssumption
  DEF OtherClonePushes, TypeOK, ZipSoFar, TagSoFar, CheckedSoFar, Verified,
      Complete, Misbehaves, tree, files
<1>4. CASE Interrupt
  BY <1>4
  DEF Interrupt, TypeOK, ZipSoFar, TagSoFar, CheckedSoFar, Verified, Complete,
      Misbehaves, tree, tags, files, Ended, Steps, Packing, Zipping, Publishing
<1> QED
  BY <1>2, <1>3, <1>4 DEF People

\* A run starts with what earlier ones left, and relies on none of it.
LEMMA StartKeeps == RInv /\ (StartRelease \/ StartZip) => RInv'
BY DEF RInv, StartRelease, StartZip, Start, TypeOK, ZipSoFar, TagSoFar, CheckedSoFar,
       Verified, Complete, Misbehaves, tags, files, Ended, Steps, Packing, Zipping,
       Publishing

\* A step at which the run ends.
LEMMA FailsKeeps == RInv /\ Fails => RInv'
BY DEF RInv, Fails, Go, TypeOK, ZipSoFar, TagSoFar, CheckedSoFar,
       Verified, Complete, Misbehaves, tree, tags, files, Ended, Steps, Packing,
       Zipping, Publishing

\* git fetch, which may bring a tag into the clone.
LEMMA FetchKeeps == RInv /\ Fetch => RInv'
<1> SUFFICES ASSUME RInv, Fetch, ~Fails PROVE RInv'
  BY FailsKeeps DEF Fetch
<1> QED
  BY DEF RInv, Fetch, Go, TypeOK, ZipSoFar, TagSoFar, CheckedSoFar, Verified, Complete,
         Misbehaves, tree, tags, files, Ended, Steps, GateSteps, Packing, Zipping, Publishing

\* Each gate step is passed by the text in the tree, or ends the run.
LEMMA GateKeeps == RInv /\ (GateFmt \/ GateCheck \/ GateTest \/ GateVerify) => RInv'
<1> SUFFICES ASSUME RInv, ~Fails, GateFmt \/ GateCheck \/ GateTest \/ GateVerify
             PROVE  RInv'
  BY FailsKeeps DEF GateFmt, GateCheck, GateTest, GateVerify, Gate
<1> USE DEF RInv
<1>1. Failing[src] \in GateSteps \cup {None}
  BY ReleaseAssumption DEF TypeOK
<1>2. /\ pc \in GateSteps /\ pc' \in {"check", "test", "verify", "build"}
      /\ Failing[src] # pc
      /\ UNCHANGED <<src, head, touched, localTag, originTag, tagged, built, pkg, zip, sha, run, stops>>
  BY DEF GateFmt, GateCheck, GateTest, GateVerify, Gate, Go, tree, tags, files, GateSteps
<1>3. TypeOK' /\ ZipSoFar' /\ TagSoFar'
  BY <1>2
  DEF TypeOK, ZipSoFar, TagSoFar, Ended, Steps, GateSteps, Packing, Zipping, Publishing
<1>4. CheckedSoFar'
  <2> SUFFICES ASSUME run' = "release", stops', ~touched'
               PROVE  CheckedSoFar'
    BY DEF CheckedSoFar
  <2>1. CASE pc = "fmt" /\ pc' = "check"
    BY <1>2, <2>1 DEF CheckedSoFar, Packing, Zipping, Publishing
  <2>2. CASE pc = "check" /\ pc' = "test"
    BY <1>2, <2>2 DEF CheckedSoFar, Packing, Zipping, Publishing
  <2>3. CASE pc = "test" /\ pc' = "verify"
    BY <1>2, <2>3 DEF CheckedSoFar, Packing, Zipping, Publishing
  <2>4. CASE pc = "verify" /\ pc' = "build"
    BY <1>1, <1>2, <2>4 DEF CheckedSoFar, GateSteps, Packing, Zipping, Publishing
  <2> QED
    BY <2>1, <2>2, <2>3, <2>4 DEF GateFmt, GateCheck, GateTest, GateVerify, Gate, Go
<1> QED
  BY <1>3, <1>4

\* Building and filling the package directory.
LEMMA PackKeeps ==
  RInv /\ (Build \/ Clear \/ CopyExe \/ CopyDocs \/ WriteVersion \/ WriteSums
             \/ WriteManifest) => RInv'
<1> SUFFICES ASSUME RInv, ~Fails,
                    \/ Build \/ Clear \/ CopyExe \/ CopyDocs \/ WriteVersion
                    \/ WriteSums \/ WriteManifest
             PROVE  RInv'
  BY FailsKeeps DEF Build, CopyExe, CopyDocs, WriteVersion, WriteSums, WriteManifest,
                    Write
<1> USE ReleaseAssumption DEF RInv
<1>1. CASE Build
  BY <1>1
  DEF Build, Go, TypeOK, ZipSoFar, TagSoFar, CheckedSoFar, Verified, tree, tags, files,
      Ended, Steps, Packing, Zipping, Publishing
<1>2. CASE Clear
  BY <1>2
  DEF Clear, Go, TypeOK, ZipSoFar, TagSoFar, CheckedSoFar, Verified, Complete, Empty,
      Package, Misbehaves, tree, tags, Ended, Steps, Packing, Zipping, Publishing
<1>3. CASE CopyExe
  BY <1>3
  DEF CopyExe, Write, Go, TypeOK, ZipSoFar, TagSoFar, CheckedSoFar, Package, Parts,
      tree, tags, Ended, Steps, Packing, Zipping, Publishing
<1>4. CASE CopyDocs
  BY <1>4
  DEF CopyDocs, Write, Go, TypeOK, ZipSoFar, TagSoFar, CheckedSoFar, Package, Parts,
      tree, tags, Ended, Steps, Packing, Zipping, Publishing
<1>5. CASE WriteVersion
  BY <1>5
  DEF WriteVersion, Write, Go, TypeOK, ZipSoFar, TagSoFar, CheckedSoFar, Package, Parts,
      tree, tags, Ended, Steps, Packing, Zipping, Publishing
<1>6. CASE WriteSums
  BY <1>6
  DEF WriteSums, Write, Go, TypeOK, ZipSoFar, TagSoFar, CheckedSoFar, Package, Parts,
      tree, tags, Ended, Steps, Packing, Zipping, Publishing
<1>7. CASE WriteManifest
  BY <1>7
  DEF WriteManifest, Write, Go, TypeOK, ZipSoFar, TagSoFar, CheckedSoFar, Package, Parts,
      tree, tags, Ended, Steps, Packing, Zipping, Publishing
<1> QED
  BY <1>1, <1>2, <1>3, <1>4, <1>5, <1>6, <1>7

\* Verifying and zipping: what is zipped has passed verify-package.ps1.
LEMMA ZipKeeps ==
  RInv /\ (VerifyPackage \/ StartZipStep \/ VerifyAgain \/ RemoveZip \/ Compress
             \/ Sidecar) => RInv'
<1> SUFFICES ASSUME RInv, ~Fails,
                    \/ VerifyPackage \/ StartZipStep \/ VerifyAgain \/ RemoveZip
                    \/ Compress \/ Sidecar
             PROVE  RInv'
  BY FailsKeeps DEF VerifyPackage, VerifyAgain
<1> USE ReleaseAssumption DEF RInv
<1>1. CASE VerifyPackage \/ StartZipStep \/ VerifyAgain
  BY <1>1
  DEF VerifyPackage, StartZipStep, VerifyAgain, Go, TypeOK, ZipSoFar, TagSoFar,
      CheckedSoFar, Verified, tree, tags, files, Ended, Steps, Packing, Zipping,
      Publishing
<1>2. CASE RemoveZip
  BY <1>2
  DEF RemoveZip, Go, TypeOK, ZipSoFar, TagSoFar, CheckedSoFar, Verified, tree, tags,
      Ended, Steps, Packing, Zipping, Publishing
<1>3. CASE Compress
  <2>1. pkg \in [Parts -> Revs]
    BY <1>3 DEF Compress, TypeOK, ZipSoFar, Verified, Complete, Package
  <2> QED
    BY <1>3, <2>1
    DEF Compress, Go, TypeOK, ZipSoFar, TagSoFar, CheckedSoFar, Verified, tree, tags,
        Ended, Steps, Packing, Zipping, Publishing
<1>4. CASE Sidecar
  BY <1>4
  DEF Sidecar, Go, TypeOK, ZipSoFar, TagSoFar, CheckedSoFar, Verified, tree, tags,
      Ended, Steps, Packing, Zipping, Publishing
<1> QED
  BY <1>1, <1>2, <1>3, <1>4

\* Publishing: the tag that is pushed was made at the head.
LEMMA PublishKeeps == RInv /\ (CheckClean \/ CheckRemote \/ Tag \/ Push) => RInv'
<1> SUFFICES ASSUME RInv, ~Fails, CheckClean \/ CheckRemote \/ Tag \/ Push
             PROVE  RInv'
  BY FailsKeeps DEF CheckClean, CheckRemote, Tag, Push
<1> USE ReleaseAssumption DEF RInv
<1>1. CASE CheckClean \/ CheckRemote
  BY <1>1
  DEF CheckClean, CheckRemote, Go, TypeOK, ZipSoFar, TagSoFar, CheckedSoFar, Verified,
      tree, tags, files, Ended, Steps, Packing, Zipping, Publishing
<1>2. CASE Tag
  BY <1>2
  DEF Tag, Go, TypeOK, ZipSoFar, TagSoFar, CheckedSoFar, Verified, tree, files,
      Ended, Steps, Packing, Zipping, Publishing
<1>3. CASE Push
  <2>1. /\ pc = "push" /\ pc' \in {"released", "failed"} /\ originTag' = localTag
        /\ UNCHANGED <<src, head, touched, localTag, tagged, built, pkg, zip, sha, run, stops>>
    BY <1>3 DEF Push, Go, tree, files
  <2>2. TypeOK' /\ ZipSoFar'
    BY <2>1 DEF TypeOK, ZipSoFar, Verified, Complete, Misbehaves, Ended, Steps, Packing,
                Zipping, Publishing
  <2>3. TagSoFar'
    BY <2>1 DEF TagSoFar, Publishing
  <2>4. CheckedSoFar'
    BY <2>1 DEF CheckedSoFar, Packing, Zipping, Publishing
  <2> QED
    BY <2>2, <2>3, <2>4
<1> QED
  BY <1>1, <1>2, <1>3

-----------------------------------------------------------------------------
\* At each statement of a run what the earlier ones have seen to still holds,
\* whatever fails and whoever changes the tree.
THEOREM ReleaseInvariant == Spec => []RInv
<1>1. RInv /\ [Next]_vars => RInv'
  <2> SUFFICES ASSUME RInv, [Next]_vars PROVE RInv'
    OBVIOUS
  <2>1. CASE UNCHANGED vars
    BY <2>1
    DEF vars, tree, tags, files, RInv, TypeOK, ZipSoFar, TagSoFar, CheckedSoFar,
        Verified, Complete, Misbehaves
  <2>2. CASE Next
    BY <2>2, StartKeeps, PeopleKeep, FetchKeeps, GateKeeps, PackKeeps, ZipKeeps,
       PublishKeeps
    DEF Next, Step
  <2> QED
    BY <2>1, <2>2
<1> QED
  BY InitOK, <1>1, PTL DEF Spec

\* A successful run leaves the zip of a verified package and its own checksum.
THEOREM ZipsAreWhole == Spec => []ZipIsWhole
<1>1. RInv => ZipIsWhole
  BY DEF RInv, ZipSoFar, ZipIsWhole, Succeeded, Verified
<1> QED
  BY <1>1, ReleaseInvariant, PTL

\* A release of an untouched tree is the text that passed the gate.
THEOREM WhatIsReleasedWasChecked == Spec => []ReleasedWhatWasChecked
<1>1. RInv => ReleasedWhatWasChecked
  <2> SUFFICES ASSUME RInv, pc = "released", stops, ~touched
               PROVE  /\ originTag = head /\ localTag = head
                      /\ Failing[head] = None
                      /\ zip = [part \in Parts |-> head]
    BY DEF ReleasedWhatWasChecked
  <2>1. originTag = head /\ localTag = head /\ src = head /\ Failing[src] = None
    BY DEF RInv, TagSoFar, CheckedSoFar
  <2>2. zip \in [Parts -> Revs] /\ \A part \in Parts : zip[part] = src
    BY DEF RInv, TypeOK, TagSoFar, ZipSoFar, CheckedSoFar, Verified, Complete
  <2> QED
    BY <2>1, <2>2
<1> QED
  BY <1>1, ReleaseInvariant, PTL

\* A run of release.ps1 that succeeds leaves the tag on origin.
THEOREM TaggedOnSuccess == Spec => []SuccessMeansTagged
<1>1. RInv => SuccessMeansTagged
  BY DEF RInv, TagSoFar, SuccessMeansTagged
<1> QED
  BY <1>1, ReleaseInvariant, PTL

\* No run publishes a tag but the one it has made itself, at the commit that
\* was checked out then, whatever fails and whoever changes the tree.
THEOREM OnlyTheHeadIsPublished == Spec => PublishesItsHead
<1>1. RInv /\ [Next]_vars
        => [(Push /\ originTag' # originTag) => (tagged # None /\ originTag' = tagged)]_vars
  <2> SUFFICES ASSUME RInv, Push, originTag' # originTag
               PROVE  tagged # None /\ originTag' = tagged
    OBVIOUS
  <2>1. pc = "push" /\ (Fails \/ originTag' = localTag)
    BY DEF Push
  <2>2. originTag' = localTag
    BY <2>1 DEF Fails, tags
  <2> QED
    BY <2>1, <2>2 DEF RInv, TagSoFar
<1> QED
  BY <1>1, ReleaseInvariant, PTL DEF Spec, PublishesItsHead
=============================================================================
