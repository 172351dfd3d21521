--------------------------- MODULE SourceMapProofs --------------------------
(***************************************************************************)
(* What a run of a tree command may say of its tree, for any tree, any     *)
(* command and any number of changes other programs make meanwhile.        *)
(***************************************************************************)
EXTENDS SourceMap, FiniteSetTheorems, TLAPS

\* A path leads to a file of any set that it is in.
LEMMA LeadsToMember ==
  ASSUME NEW paths, NEW p \in paths
  PROVE  LeadsTo(p, paths)
  BY DEF LeadsTo

LEMMA LeadsToMore ==
  ASSUME NEW less, NEW more, less \subseteq more, NEW p, LeadsTo(p, less)
  PROVE  LeadsTo(p, more)
  BY DEF LeadsTo

\* Of the files there are to read, the first is one.
LEMMA FirstIs ==
  ASSUME NEW S, S # {}, S \subseteq Places
  PROVE  First(S) \in S
<1>1. S \in (SUBSET (Places \cup {Root})) \ {{}}
  OBVIOUS
<1>2. \E p \in S : \A q \in S \ {p} : PathLess(p, q)
  BY <1>1, PathsAssumption
<1> QED
  BY <1>2 DEF First

-----------------------------------------------------------------------------
(* Paths. *)

Path(p) == p \in Seq(Range(p))

LEMMA PathsArePaths ==
  /\ \A p \in Places \cup Dirs : Path(p) /\ Above(p) \subseteq Dirs
  /\ Path(Root)
<1>1. \A p \in Places \cup Dirs \cup {Root} : Path(p)
  BY PathsAssumption DEF Path
<1>2. \A p \in Places \cup Dirs : \A n \in 0 .. Len(p) - 1 : SubSeq(p, 1, n) \in Dirs
  BY PathsAssumption
<1> QED
  BY <1>1, <1>2, Zenon DEF Above

\* A path lies below those it passes through, and below no other but itself.
LEMMA PrefixIsAbove ==
  ASSUME NEW e, NEW p, Path(e), Path(p)
  PROVE  IsPrefix(e, p) <=> e = p \/ e \in Above(p)
<1>1. Len(e) \in Nat /\ Len(p) \in Nat /\ SubSeq(e, 1, Len(e)) = e /\ SubSeq(p, 1, Len(p)) = p
  BY DEF Path
<1>2. IsPrefix(e, p) <=> Len(e) <= Len(p) /\ e = SubSeq(p, 1, Len(e))
  BY <1>1 DEF IsPrefix
<1>3. ASSUME IsPrefix(e, p) PROVE e = p \/ e \in Above(p)
  <2>1. CASE Len(e) = Len(p)
    BY <1>1, <1>2, <1>3, <2>1
  <2>2. CASE Len(e) # Len(p)
    <3>1. Len(e) <= Len(p) /\ Len(e) \in Nat /\ Len(p) \in Nat
      BY <1>1, <1>2, <1>3
    <3>2. Len(e) \in 0 .. Len(p) - 1
      BY ONLY <3>1, <2>2
    <3> QED
      BY <1>2, <1>3, <3>2 DEF Above
  <2> QED
    BY <2>1, <2>2
<1>4. ASSUME e \in Above(p) PROVE IsPrefix(e, p)
  <2>1. PICK n \in 0 .. Len(p) - 1 : e = SubSeq(p, 1, n)
    BY <1>4 DEF Above
  <2>2. Len(SubSeq(p, 1, n)) = n
    BY DEF Path
  <2> QED
    BY <1>1, <1>2, <2>1, <2>2
<1>5. IsPrefix(p, p)
  BY <1>1 DEF IsPrefix
<1> QED
  BY <1>3, <1>4, <1>5

\* What is above what is above is above.
LEMMA AboveUp ==
  ASSUME NEW p, Path(p), NEW a \in Above(p)
  PROVE  Path(a) /\ Above(a) \subseteq Above(p)
<1>1. PICK n \in 0 .. Len(p) - 1 : a = SubSeq(p, 1, n)
  BY DEF Above
<1>2. Len(p) \in Nat /\ n \in Nat /\ n < Len(p)
  BY DEF Path
<1>3. Len(a) = n /\ Path(a)
  <2>1. \A i \in 1 .. n : p[i] \in Range(p)
    BY <1>2 DEF Path, Range
  <2>2. Len(a) = n /\ \A i \in 1 .. n : a[i] = p[i]
    BY <1>1, <1>2 DEF Path
  <2>3. a \in Seq(Range(p))
    BY <1>1, <1>2 DEF Path
  <2>4. DOMAIN a = 1 .. n /\ a = [i \in 1 .. n |-> a[i]]
    BY <2>2, <2>3
  <2>5. \A i \in 1 .. n : a[i] \in Range(a)
    BY <2>4 DEF Range
  <2>6. a \in [1 .. n -> Range(a)]
    BY <2>4, <2>5
  <2> QED
    BY <1>2, <2>2, <2>6 DEF Path
<1>4. ASSUME NEW m \in 0 .. n - 1 PROVE SubSeq(a, 1, m) = SubSeq(p, 1, m) /\ m \in 0 .. Len(p) - 1
  BY <1>1, <1>2 DEF Path
<1> QED
  BY <1>3, <1>4 DEF Above

LEMMA PrefixUp ==
  ASSUME NEW p, Path(p), NEW a \in Above(p), NEW e, Path(e), IsPrefix(e, a)
  PROVE  IsPrefix(e, p)
<1>1. Path(a) /\ Above(a) \subseteq Above(p)
  BY AboveUp
<1>2. e = a \/ e \in Above(a)
  BY <1>1, PrefixIsAbove
<1> QED
  BY <1>1, <1>2, PrefixIsAbove

\* Between a path and one below it lies an entry of the first.
LEMMA NextDown ==
  ASSUME NEW e, NEW p, Path(e), Path(p), IsPrefix(e, p), e # p
  PROVE  \E d \in Above(p) \cup {p} : d # <<>> /\ Front(d) = e
<1>1. PICK n \in 0 .. Len(p) - 1 : e = SubSeq(p, 1, n)
  BY PrefixIsAbove DEF Above
<1>2. Len(p) \in Nat /\ n \in Nat /\ n + 1 <= Len(p)
  BY DEF Path
<1> DEFINE d == SubSeq(p, 1, n + 1)
<1>3. Len(d) = n + 1 /\ d # <<>>
  BY <1>2 DEF Path
<1>4. Front(d) = SubSeq(p, 1, n)
  BY <1>2, <1>3 DEF Front, Path
<1>5. d \in Above(p) \cup {p}
  <2>1. CASE n + 1 = Len(p)
    <3>1. SubSeq(p, 1, Len(p)) = p
      BY DEF Path
    <3> QED
      BY <2>1, <3>1
  <2>2. CASE n + 1 # Len(p)
    <3>1. n + 1 \in 0 .. Len(p) - 1
      BY <1>2, <2>2
    <3> QED
      BY <3>1 DEF Above
  <2> QED
    BY <2>1, <2>2
<1> QED
  BY <1>1, <1>3, <1>4, <1>5

\* What a directory may hold lies below what the directory lies below.
LEMMA InsideIsBelow ==
  ASSUME NEW d \in Dirs, NEW e \in Inside(d), NEW r, Path(r), Below(r, d)
  PROVE  Below(r, e)
<1>1. e \in Places \cup Dirs /\ e # <<>> /\ Front(e) = d /\ Path(e) /\ Path(d)
  BY PathsArePaths DEF Inside
<1>2. d \in Above(e)
  <2>1. Len(e) \in Nat /\ Len(e) # 0
    BY <1>1 DEF Path
  <2>2. Len(e) - 1 \in 0 .. Len(e) - 1
    BY <2>1
  <2> QED
    BY <1>1, <2>2 DEF Front, Above
<1> QED
  BY <1>1, <1>2, PrefixUp DEF Below
-----------------------------------------------------------------------------
(* The world. *)

\* The disk is a tree, and the histories are those of what can be seen.
WorldInv ==
  /\ IsTree(disk, dirs)
  /\ changes \in Nat
  /\ always \subseteq Visible
  /\ Visible \subseteq ever
  /\ \A p \in steady : CanOpen(p)

\* What may change between two steps of the run.
Shift ==
  /\ IsTree(disk, dirs)'
  /\ \A p \in Present \cap Present' : p \in dirs <=> p \in dirs'
  /\ changes' = changes + 1
  /\ pc \notin {"done", "failed"}
  /\ always' = always \cap Visible'
  /\ ever' = ever \cup Visible'
  /\ steady' = {p \in steady : CanOpen(p)'}
  /\ open' = [n \in DOMAIN open |-> [open[n] EXCEPT !.stayed = @ \cap Present']]
  /\ UNCHANGED <<command, pc, entry, listing, reports, asked, candidates, rows, again, printed>>

\* Other programs keep the disk a tree, and none turns a file into a directory
\* at once.
LEMMA OthersShift ==
  ASSUME IsTree(disk, dirs), Others
  PROVE  Shift
<1> DEFINE Kinds == \A p \in Present \cap Present' : p \in dirs <=> p \in dirs'
           Rest == /\ changes' = changes + 1
                   /\ pc \notin {"done", "failed"}
                   /\ always' = always \cap Visible'
                   /\ ever' = ever \cup Visible'
                   /\ steady' = {p \in steady : CanOpen(p)'}
                   /\ open' = [n \in DOMAIN open |-> [open[n] EXCEPT !.stayed = @ \cap Present']]
                   /\ UNCHANGED <<command, pc, entry, listing, reports, asked, candidates, rows,
                                  again, printed>>
<1>1. \A files, folders, shut, blocked :
        Changed(files, folders, shut, blocked) => disk' = files /\ dirs' = folders /\ Rest
  BY Zenon DEF Changed, lookups
<1> HIDE DEF Rest
<1>2. CASE Save
  <2>1. PICK p \in Places, text \in Texts :
           /\ p \notin dirs /\ Above(p) \subseteq dirs
           /\ Changed(With(disk, p, text), dirs, closed, barred)
    BY <1>2 DEF Save
  <2>2. DOMAIN disk' = DOMAIN disk \cup {p} /\ dirs' = dirs /\ Rest
    BY <1>1, <2>1 DEF With
  <2>3. IsTree(disk, dirs)'
    BY <2>1, <2>2 DEF IsTree
  <2>4. Kinds
    BY <2>2
  <2> QED
    BY <2>2, <2>3, <2>4 DEF Shift, Rest
<1>3. CASE MakeDir
  <2>1. PICK p \in Dirs \ Present : /\ Above(p) \subseteq dirs
                                     /\ Changed(disk, dirs \cup {p}, closed, barred)
    BY <1>3 DEF MakeDir
  <2>2. disk' = disk /\ dirs' = dirs \cup {p} /\ Rest
    BY <1>1, <2>1
  <2>3. IsTree(disk, dirs)'
    BY <2>1, <2>2 DEF IsTree, Present
  <2>4. Kinds
    BY <2>1, <2>2
  <2> QED
    BY <2>2, <2>3, <2>4 DEF Shift, Rest
<1>4. CASE MoveAway
  <2>1. PICK p \in Present :
          LET kept == {q \in Present : ~IsPrefix(p, q)}
          IN  Changed([q \in DOMAIN disk \cap kept |-> disk[q]], dirs \cap kept, closed, barred)
    BY <1>4 DEF MoveAway
  <2> DEFINE kept == {q \in Present : ~IsPrefix(p, q)}
  <2>2. DOMAIN disk' = DOMAIN disk \cap kept /\ dirs' = dirs \cap kept /\ Rest
    BY <1>1, <2>1
  <2>3. ASSUME NEW q \in kept PROVE Above(q) \subseteq dirs \cap kept
    <3>1. q \in Places \cup Dirs /\ p \in Places \cup Dirs /\ Above(q) \subseteq dirs
      BY DEF IsTree, Present
    <3>2. Path(q) /\ Path(p)
      BY <3>1, PathsArePaths
    <3>3. \A a \in Above(q) : ~IsPrefix(p, a)
      BY <2>3, <3>2, PrefixUp
    <3> QED
      BY <3>1, <3>3 DEF Present
  <2>4. IsTree(disk, dirs)'
    BY <2>2, <2>3 DEF IsTree, Present
  <2>5. Kinds
    BY <2>2 DEF IsTree, Present
  <2> QED
    BY <2>2, <2>4, <2>5 DEF Shift, Rest
<1>5. CASE Shut \/ Bar \/ Unlock
  <2>1. PICK shut, blocked : Changed(disk, dirs, shut, blocked)
    BY <1>5 DEF Shut, Bar, Unlock
  <2>2. disk' = disk /\ dirs' = dirs /\ Rest
    BY <1>1, <2>1
  <2>3. IsTree(disk, dirs)' /\ Kinds
    BY <2>2
  <2> QED
    BY <2>2, <2>3 DEF Shift, Rest
<1> QED
  BY <1>2, <1>3, <1>4, <1>5 DEF Others

\* The run itself changes nothing on disk.
LEMMA StepKeepsWorld ==
  ASSUME Step \/ UNCHANGED vars
  PROVE  /\ UNCHANGED <<command, disk, dirs, closed, barred, changes, always, ever, steady>>
         /\ Visible' = Visible /\ Present' = Present /\ SeenDisk' = SeenDisk
         /\ \A p : (CanSee(p)' <=> CanSee(p)) /\ (CanOpen(p)' <=> CanOpen(p))
<1>1. UNCHANGED <<command, disk, dirs, closed, barred, changes, always, ever, steady>>
  BY DEF Step, Enter, OpenDir, NextEntry, TestEntry, LoseEntry, EndDir, Retain, Read, ReadAll,
         Resolve, LookAgain, TryCandidate, ResolveAll, OrderAll, Output, Fail, Unchanged, Ask,
         vars, world
<1> QED
  BY <1>1 DEF Visible, Present, SeenDisk, CanSee, CanOpen

LEMMA InitWorld == Init => WorldInv
<1> SUFFICES ASSUME Init PROVE WorldInv
  OBVIOUS
<1>1. IsTree(disk, dirs)
  BY TreesAssumption DEF Init
<1> QED
  BY <1>1 DEF Init, WorldInv

LEMMA WorldStep == WorldInv /\ [Next]_vars => WorldInv'
<1> SUFFICES ASSUME WorldInv, [Next]_vars PROVE WorldInv'
  OBVIOUS
<1>1. CASE Others
  <2>1. Shift
    BY <1>1, OthersShift DEF WorldInv
  <2> QED
    BY <2>1 DEF WorldInv, Shift
<1>2. CASE Step \/ UNCHANGED vars
  <2>1. IsTree(disk, dirs)' = IsTree(disk, dirs)
    BY <1>2, StepKeepsWorld DEF IsTree
  <2> QED
    BY <1>2, <2>1, StepKeepsWorld DEF WorldInv
<1> QED
  BY <1>1, <1>2 DEF Next
-----------------------------------------------------------------------------
(* The walk stays under the root. *)

Frames == [dir : Dirs, left : SUBSET (Places \cup Dirs), stayed : SUBSET (Places \cup Dirs)]

Walking == {"enter", "open", "list", "test", "retain"}

\* Where the walk is and what it has found lies under the root; the call at
\* hand is on the root or on a directory, and the names that read_dir must
\* still return are there.
WalkInv ==
  /\ open \in Seq(Frames)
  /\ Below(Root, entry)
  /\ pc \in {"enter", "open"} => entry \in Dirs \cup {Root}
  /\ pc = "test" => entry \in Places \cup Dirs
  /\ pc \in {"list", "test"} => open # <<>>
  /\ pc = "retain" => open = <<>>
  /\ \A n \in DOMAIN open :
       /\ Below(Root, open[n].dir)
       /\ open[n].left \subseteq Inside(open[n].dir)
       /\ open[n].stayed \subseteq open[n].left \cap Present
  /\ \A p \in listing : p \in Places /\ p \in ever /\ Below(Root, p)

\* What the scan has read of what it has found, and when it looks things up.
ReadInv ==
  /\ pc \in Walking => DOMAIN reports = {}
  /\ pc = "read" \/ Scanned => listing \subseteq Holy
  /\ DOMAIN reports \subseteq listing
  /\ Scanned => DOMAIN reports = listing
  /\ asked # <<>> => pc \in {"resolve", "order"}

\* What the walk took for a directory or a file was one, and is one still
\* unless it was away meanwhile.
KindInv ==
  /\ pc = "open" /\ entry \in steady => entry \in dirs
  /\ \A p \in listing : p \in steady => p \in DOMAIN disk

TreeInv == WorldInv /\ WalkInv /\ ReadInv /\ KindInv

LEMMA InitTree == Init => TreeInv
<1> SUFFICES ASSUME Init PROVE TreeInv
  OBVIOUS
<1>1. WorldInv
  BY InitWorld
<1>2. Below(Root, Root)
  BY PathsArePaths, PrefixIsAbove DEF Below
<1>3. open = <<>> /\ open \in Seq(Frames) /\ DOMAIN open = {}
  BY DEF Init
<1>4. WalkInv
  BY <1>2, <1>3 DEF Init, WalkInv
<1>5. ReadInv /\ KindInv
  BY DEF Init, ReadInv, KindInv, Scanned, Walking
<1> QED
  BY <1>1, <1>4, <1>5 DEF TreeInv

LEMMA ShiftKeepsTree ==
  ASSUME TreeInv, WorldInv', Shift
  PROVE  TreeInv'
<1> USE DEF TreeInv
<1>1. open' = [n \in DOMAIN open |-> [open[n] EXCEPT !.stayed = @ \cap Present']]
  BY DEF Shift
<1>2. UNCHANGED <<pc, entry, listing, reports, asked>> /\ ever \subseteq ever'
  BY DEF Shift
<1>3. open \in Seq(Frames)
  BY DEF WalkInv
<1>4. DOMAIN open' = DOMAIN open
  BY <1>1
<1>5. ASSUME NEW n \in DOMAIN open
      PROVE  /\ open'[n].dir = open[n].dir /\ open'[n].left = open[n].left
             /\ open'[n].stayed = open[n].stayed \cap Present'
             /\ open'[n] \in Frames
  <2>1. open[n] \in Frames
    BY <1>3
  <2> QED
    BY <1>1, <2>1 DEF Frames
<1>6. open' \in Seq(Frames)
  <2>1. PICK m \in Nat : DOMAIN open = 1 .. m
    BY <1>3
  <2>2. open' \in [1 .. m -> Frames]
    BY <1>1, <1>4, <1>5, <2>1
  <2> QED
    BY <2>1, <2>2
<1>7. open = <<>> <=> open' = <<>>
  BY <1>3, <1>4, <1>6
<1>8. WalkInv'
  BY <1>2, <1>4, <1>5, <1>6, <1>7 DEF WalkInv
<1>9. ReadInv'
  BY <1>2 DEF ReadInv, Scanned
<1>10. KindInv'
  <2>1. \A p \in steady' : p \in steady /\ p \in Present /\ p \in Present'
    BY DEF Shift, WorldInv, CanOpen, CanSee
  <2>2. \A p \in Present \cap Present' : p \in dirs <=> p \in dirs'
    BY DEF Shift
  <2>3. \A p : p \in Present => (p \in DOMAIN disk <=> p \notin dirs)
    BY DEF WorldInv, IsTree, Present
  <2>4. \A p : p \in Present' => (p \in DOMAIN disk' <=> p \notin dirs')
    BY DEF WorldInv, IsTree, Present
  <2> QED
    BY <1>2, <2>1, <2>2, <2>3, <2>4 DEF KindInv
<1> QED
  BY <1>8, <1>9, <1>10

\* A frame more, a frame less, and a name less in the last.
LEMMA FramePushed ==
  ASSUME NEW s \in Seq(Frames), NEW f \in Frames
  PROVE  /\ Append(s, f) \in Seq(Frames) /\ Append(s, f) # <<>>
         /\ \A n \in DOMAIN Append(s, f) :
              \/ n \in DOMAIN s /\ Append(s, f)[n] = s[n]
              \/ Append(s, f)[n] = f
         /\ \A n \in DOMAIN s : n \in DOMAIN Append(s, f) /\ Append(s, f)[n] = s[n]
         /\ Len(s) + 1 \in DOMAIN Append(s, f) /\ Append(s, f)[Len(s) + 1] = f
  OBVIOUS

LEMMA FramePopped ==
  ASSUME NEW s \in Seq(Frames), s # <<>>
  PROVE  /\ Front(s) \in Seq(Frames)
         /\ Len(s) \in DOMAIN s /\ Last(s) = s[Len(s)] /\ Last(s) \in Frames
         /\ \A n \in DOMAIN Front(s) : n \in DOMAIN s /\ Front(s)[n] = s[n]
         /\ \A n \in DOMAIN s \ {Len(s)} : n \in DOMAIN Front(s) /\ Front(s)[n] = s[n]
<1>1. Len(s) \in Nat /\ Len(s) # 0
  OBVIOUS
<1>2. PICK m \in Nat : Len(s) = m + 1
  BY <1>1
<1>3. Front(s) = SubSeq(s, 1, m) /\ Last(s) = s[Len(s)]
  BY <1>2 DEF Front, Last
<1>4. SubSeq(s, 1, m) \in Seq(Frames) /\ Len(SubSeq(s, 1, m)) = m
  BY <1>2
<1>5. \A n \in 1 .. m : SubSeq(s, 1, m)[n] = s[n]
  BY <1>2
<1>6. DOMAIN s = 1 .. m + 1 /\ DOMAIN SubSeq(s, 1, m) = 1 .. m
  BY <1>2, <1>4
<1> QED
  BY <1>2, <1>3, <1>4, <1>5, <1>6

LEMMA FrameYields ==
  ASSUME NEW e, open \in Seq(Frames), open # <<>>, Yield(e)
  PROVE  /\ open' \in Seq(Frames) /\ open' # <<>> /\ DOMAIN open' = DOMAIN open
         /\ \A n \in DOMAIN open : /\ open'[n].dir = open[n].dir
                                   /\ open'[n].left \subseteq open[n].left
                                   /\ n # Len(open) => open'[n].stayed = open[n].stayed
                                   /\ n = Len(open) => /\ open'[n].stayed = open[n].stayed \ {e}
                                                       /\ open'[n].left = open[n].left \ {e}
<1> DEFINE m == Len(open)
           last == [open[m] EXCEPT !.left = @ \ {e}, !.stayed = @ \ {e}]
<1>1. m \in DOMAIN open /\ open[m] \in Frames
  BY FramePopped
<1>2. open' = [open EXCEPT ![m] = last]
  BY <1>1 DEF Yield
<1>3. /\ last \in Frames /\ last.dir = open[m].dir
      /\ last.left = open[m].left \ {e} /\ last.stayed = open[m].stayed \ {e}
  BY <1>1 DEF Frames
<1> HIDE DEF last
<1>4. DOMAIN open' = DOMAIN open /\ \A n \in DOMAIN open : open'[n] = IF n = m THEN last ELSE open[n]
  BY <1>1, <1>2
<1>5. open' \in Seq(Frames)
  BY <1>2, <1>3
<1>6. open' # <<>>
  BY <1>1, <1>4, <1>5
<1> QED
  BY <1>3, <1>4, <1>5, <1>6

\* Each step of the walk keeps to the tree.
LEMMA WalkStepKeeps ==
  ASSUME TreeInv, Enter \/ OpenDir \/ NextEntry \/ TestEntry \/ LoseEntry \/ EndDir \/ Retain
  PROVE  WalkInv'
<1> USE DEF TreeInv
<1>1. /\ Present' = Present /\ ever' = ever /\ Visible' = Visible
      /\ \A p \in Visible : p \in Places /\ p \in ever
  BY StepKeepsWorld DEF Step, WorldInv, IsTree, Visible
<1>2. open \in Seq(Frames)
  BY DEF WalkInv
<1>3. CASE Enter
  <2>1. UNCHANGED <<entry, open>> /\ pc = "enter"
        /\ pc' \in {"retain", "list", "open"}
        /\ (pc' = "retain" => open = <<>>) /\ (pc' = "list" => open # <<>>)
        /\ listing' \subseteq listing \cup ({entry} \cap Visible)
    BY <1>3 DEF Enter, Back
  <2> QED
    BY <1>1, <2>1 DEF WalkInv
<1>4. CASE OpenDir
  <2>1. CASE pc' = "failed"
    <3>1. UNCHANGED <<entry, open, listing>>
      BY <1>4, <2>1 DEF OpenDir, Fail, walk
    <3> QED
      BY <1>1, <2>1, <3>1 DEF WalkInv
  <2>2. CASE pc' # "failed"
    <3> DEFINE new == [dir |-> entry, left |-> Inside(entry), stayed |-> Inside(entry) \cap Present]
    <3>1. /\ entry \in dirs /\ open' = Append(open, new) /\ pc' = "list"
          /\ UNCHANGED <<entry, listing>>
      BY <1>4, <2>2 DEF OpenDir, Fail
    <3>2. new \in Frames
      BY <3>1 DEF Frames, Inside, WorldInv, IsTree
    <3>3. new.dir = entry /\ new.left = Inside(entry) /\ new.stayed = Inside(entry) \cap Present
      OBVIOUS
    <3> HIDE DEF new
    <3>4. open' \in Seq(Frames) /\ open' # <<>>
          /\ \A n \in DOMAIN open' : (n \in DOMAIN open /\ open'[n] = open[n]) \/ open'[n] = new
      BY <1>2, <3>1, <3>2, FramePushed
    <3> QED
      BY <1>1, <3>1, <3>3, <3>4 DEF WalkInv
  <2> QED
    BY <2>1, <2>2
<1>5. CASE NextEntry
  <2>1. PICK e \in Innermost.left \cap Present :
           Yield(e) /\ entry' = e /\ pc' = IF e \in dirs /\ CanSee(e) THEN "enter" ELSE "test"
    BY <1>5 DEF NextEntry
  <2>2. pc = "list" /\ listing' = listing /\ open # <<>>
    BY <1>5 DEF NextEntry, WalkInv
  <2>3. Len(open) \in DOMAIN open /\ Innermost = open[Len(open)] /\ Innermost \in Frames
    BY <1>2, <2>2, FramePopped DEF Innermost
  <2>4. e \in Inside(Innermost.dir) /\ Innermost.dir \in Dirs /\ Below(Root, Innermost.dir)
        /\ e \in Places \cup Dirs
    BY <2>1, <2>3 DEF WalkInv, Frames
  <2>5. Below(Root, e)
    BY <2>4, InsideIsBelow, PathsArePaths
  <2>6. /\ open' \in Seq(Frames) /\ open' # <<>> /\ DOMAIN open' = DOMAIN open
        /\ \A n \in DOMAIN open : /\ open'[n].dir = open[n].dir
                                  /\ open'[n].left \subseteq open[n].left
                                  /\ n # Len(open) => open'[n].stayed = open[n].stayed
    BY <1>2, <2>1, <2>2, FrameYields
  <2>7. \A n \in DOMAIN open : open'[n].stayed \subseteq open'[n].left \cap Present
    <3> SUFFICES ASSUME NEW n \in DOMAIN open
                 PROVE  open'[n].stayed \subseteq open'[n].left \cap Present
      OBVIOUS
    <3>1. open[n].stayed \subseteq open[n].left \cap Present
      BY DEF WalkInv
    <3>2. CASE n = Len(open)
      <4>1. open'[n].stayed = open[n].stayed \ {e} /\ open'[n].left = open[n].left \ {e}
        BY <1>2, <2>1, <2>2, <3>2, FrameYields
      <4> QED
        BY <3>1, <4>1
    <3>3. CASE n # Len(open)
      <4>1. open'[n] = open[n]
        BY <2>1, <3>3 DEF Yield
      <4> QED
        BY <3>1, <4>1
    <3> QED
      BY <3>2, <3>3
  <2>8. \A n \in DOMAIN open' : /\ Below(Root, open'[n].dir)
                                /\ open'[n].left \subseteq Inside(open'[n].dir)
                                /\ open'[n].stayed \subseteq open'[n].left \cap Present'
    BY <1>1, <2>6, <2>7 DEF WalkInv
  <2>9. e \in dirs => e \in Dirs
    BY DEF WorldInv, IsTree
  <2> QED
    BY <1>1, <2>1, <2>2, <2>4, <2>5, <2>6, <2>8, <2>9 DEF WalkInv
<1>6. CASE TestEntry
  <2>1. /\ pc = "test" /\ pc' = "list" /\ UNCHANGED <<entry, open>>
        /\ listing' = listing \cup ({entry} \cap Visible)
    BY <1>6 DEF TestEntry
  <2> QED
    BY <1>1, <2>1 DEF WalkInv
<1>7. CASE LoseEntry
  <2>1. pc' = "failed" /\ UNCHANGED <<entry, open, listing>>
    BY <1>7 DEF LoseEntry, Fail, walk
  <2> QED
    BY <1>1, <2>1 DEF WalkInv
<1>8. CASE EndDir
  <2>1. /\ pc = "list" /\ open' = Front(open) /\ pc' = Back(open') /\ UNCHANGED <<entry, listing>>
        /\ open # <<>>
    BY <1>8 DEF EndDir, WalkInv
  <2>2. open' \in Seq(Frames) /\ \A n \in DOMAIN open' : n \in DOMAIN open /\ open'[n] = open[n]
    BY <1>2, <2>1, FramePopped
  <2>3. pc' = IF open' = <<>> THEN "retain" ELSE "list"
    BY <2>1 DEF Back
  <2> QED
    BY <1>1, <2>1, <2>2, <2>3 DEF WalkInv
<1>9. CASE Retain
  <2>1. pc' = "read" /\ UNCHANGED <<entry, open>> /\ listing' \subseteq listing
    BY <1>9 DEF Retain
  <2> QED
    BY <1>1, <2>1 DEF WalkInv
<1> QED
  BY <1>3, <1>4, <1>5, <1>6, <1>7, <1>8, <1>9

\* What was seen as a file is one, and a path that is no file but could be
\* opened all along is a directory.
LEMMA KindStepKeeps ==
  ASSUME TreeInv, Step
  PROVE  KindInv'
<1> USE DEF TreeInv
<1>1. UNCHANGED <<disk, dirs, steady>> /\ Visible' = Visible
  BY StepKeepsWorld
<1>2. \A p \in Visible : p \in DOMAIN disk
  BY DEF Visible
<1>3. listing' \subseteq listing \cup Visible
  <2>1. CASE Enter \/ OpenDir \/ NextEntry \/ TestEntry \/ LoseEntry \/ EndDir \/ Retain
    BY <2>1 DEF Enter, OpenDir, NextEntry, TestEntry, LoseEntry, EndDir, Retain, Fail, walk
  <2>2. CASE Read \/ ReadAll \/ Resolve \/ LookAgain \/ TryCandidate \/ ResolveAll \/ OrderAll
             \/ Output
    <3>1. listing' = listing
      BY <2>2, Zenon DEF Read, ReadAll, Resolve, LookAgain, TryCandidate, ResolveAll, OrderAll,
                         Output, Fail, Ask, walk
    <3> QED
      BY <3>1
  <2> QED
    BY <2>1, <2>2 DEF Step
<1>4. pc' = "open" => pc = "enter" /\ entry' = entry /\ entry \notin Visible
  <2>1. CASE TryCandidate
    BY <2>1 DEF TryCandidate, ReadInv
  <2>2. CASE ~TryCandidate
    BY <2>2 DEF Step, Enter, OpenDir, NextEntry, TestEntry, LoseEntry, EndDir, Retain, Read,
                ReadAll, Resolve, LookAgain, ResolveAll, OrderAll, Output, Fail, Ask, Back
  <2> QED
    BY <2>1, <2>2
<1>5. entry \in steady /\ entry \notin Visible => entry \in dirs
  BY DEF WorldInv, CanOpen, CanSee, Present, Visible
<1> QED
  BY <1>1, <1>2, <1>3, <1>4, <1>5 DEF KindInv

LEMMA ReadStepKeeps ==
  ASSUME TreeInv, Step
  PROVE  ReadInv'
<1> USE DEF TreeInv, ReadInv, Scanned, Walking
<1>1. CASE Enter \/ OpenDir \/ NextEntry \/ TestEntry \/ LoseEntry \/ EndDir
  <2>1. pc \in Walking /\ UNCHANGED <<reports, asked>> /\ pc' \in Walking \cup {"failed"}
    BY <1>1 DEF Enter, OpenDir, NextEntry, TestEntry, LoseEntry, EndDir, Fail, Unchanged, Back,
                lookups
  <2>2. DOMAIN reports' = {}
    BY <2>1
  <2> QED
    BY <2>1, <2>2
<1>2. CASE Retain
  BY <1>2 DEF Retain, Unchanged, lookups
<1>3. CASE Read
  <2>1. pc = "read" /\ UNCHANGED <<listing, asked>> /\ Unread # {} /\ Unread \subseteq listing
    BY <1>3 DEF Read, Unread, Fail, walk, lookups
  <2>2. First(Unread) \in listing
    BY <2>1, FirstIs DEF WalkInv
  <2>3. CASE pc' = "failed"
    <3>1. reports' = reports
      BY <1>3, <2>1, <2>3 DEF Read, Fail
    <3> QED
      BY <2>1, <2>3, <3>1
  <2>4. CASE pc' # "failed"
    <3>1. pc' = pc /\ reports' = With(reports, First(Unread), disk[First(Unread)])
      BY <1>3, <2>4 DEF Read, Fail
    <3>2. DOMAIN reports' = DOMAIN reports \cup {First(Unread)}
      BY <3>1 DEF With
    <3> QED
      BY <2>1, <2>2, <3>1, <3>2
  <2> QED
    BY <2>3, <2>4
<1>4. CASE ReadAll
  <2>1. pc = "read" /\ UNCHANGED <<listing, reports, asked>> /\ DOMAIN reports = listing
        /\ pc' \in {"resolve", "order", "print"}
    BY <1>4 DEF ReadAll, Unchanged, Unread, walk, lookups
  <2> QED
    BY <2>1
<1>5. CASE Resolve \/ LookAgain \/ TryCandidate \/ ResolveAll \/ OrderAll \/ Output
  <2>1. UNCHANGED <<listing, reports>>
    BY <1>5, Zenon DEF Resolve, LookAgain, TryCandidate, ResolveAll, OrderAll, Output, Ask,
                       Unchanged, walk
  <2>2. CASE Resolve \/ LookAgain \/ TryCandidate
    <3>1. pc' = pc /\ (asked = <<>> => pc \in {"resolve", "order"})
      BY <2>2 DEF Resolve, LookAgain, TryCandidate, Ask
    <3> QED
      BY <2>1, <3>1
  <2>3. CASE ResolveAll \/ OrderAll \/ Output
    <3>1. Scanned /\ Scanned'
      BY <2>3 DEF ResolveAll, OrderAll, Output
    <3>2. asked' = asked /\ (pc' \notin {"resolve", "order"} => asked = <<>>)
      BY <2>3 DEF ResolveAll, OrderAll, Output, Unchanged, lookups
    <3> QED
      BY <2>1, <3>1, <3>2
  <2> QED
    BY <1>5, <2>2, <2>3
<1> QED
  BY <1>1, <1>2, <1>3, <1>4, <1>5 DEF Step

LEMMA TreeStep == TreeInv /\ [Next]_vars => TreeInv'
<1> SUFFICES ASSUME TreeInv, [Next]_vars PROVE TreeInv'
  OBVIOUS
<1>1. WorldInv'
  BY WorldStep DEF TreeInv
<1>2. CASE Others
  BY <1>1, <1>2, OthersShift, ShiftKeepsTree DEF TreeInv, WorldInv
<1>3. CASE Step
  <2>1. WalkInv'
    <3>1. CASE Enter \/ OpenDir \/ NextEntry \/ TestEntry \/ LoseEntry \/ EndDir \/ Retain
      BY <3>1, WalkStepKeeps
    <3>2. CASE Read \/ ReadAll \/ Resolve \/ LookAgain \/ TryCandidate \/ ResolveAll \/ OrderAll
               \/ Output
      <4>1. UNCHANGED <<entry, open, listing>>
        BY <3>2, Zenon DEF Read, ReadAll, Resolve, LookAgain, TryCandidate, ResolveAll, OrderAll,
                           Output, Ask, Fail, walk
      <4>3. pc' \notin Walking
        <5>1. CASE TryCandidate
          BY <5>1 DEF TryCandidate, TreeInv, ReadInv, Walking
        <5>2. CASE ~TryCandidate
          BY <3>2, <5>2 DEF Read, ReadAll, Resolve, LookAgain, ResolveAll, OrderAll, Output, Ask,
                            Fail, Walking
        <5> QED
          BY <5>1, <5>2
      <4>2. Present' = Present /\ ever' = ever
        BY <1>3, StepKeepsWorld
      <4> QED
        BY <4>1, <4>2, <4>3 DEF TreeInv, WalkInv, Walking
    <3> QED
      BY <1>3, <3>1, <3>2 DEF Step
  <2> QED
    BY <1>1, <1>3, <2>1, KindStepKeeps, ReadStepKeeps DEF TreeInv
<1>4. CASE UNCHANGED vars
  <2>1. UNCHANGED <<pc, entry, open, listing, reports, asked, ever, disk, dirs, steady>>
        /\ Present' = Present
    BY <1>4, StepKeepsWorld DEF vars, walk, lookups
  <2> QED
    BY <1>1, <2>1 DEF TreeInv, WalkInv, ReadInv, KindInv, Scanned
<1> QED
  BY <1>2, <1>3, <1>4 DEF Next
-----------------------------------------------------------------------------
(* A run that fails has a reason. *)

TreeAndReason == TreeInv /\ FailsForAReason

\* OpenDir, LoseEntry and Read fail on what cannot be opened now, and so could
\* not be opened all along; once failed nothing changes.
LEMMA FailureStep == TreeAndReason /\ [Next]_vars => FailsForAReason'
<1> SUFFICES ASSUME TreeAndReason, [Next]_vars PROVE FailsForAReason'
  OBVIOUS
<1> USE DEF TreeAndReason, TreeInv
<1>1. CASE Others
  <2>1. pc # "failed" /\ pc' = pc
    BY <1>1, OthersShift DEF WorldInv, Shift
  <2> QED
    BY <2>1 DEF FailsForAReason
<1>2. CASE UNCHANGED vars
  BY <1>2 DEF vars, walk, world, FailsForAReason
<1>3. ASSUME Step PROVE FailsForAReason'
  <2>1. steady' = steady /\ \A p \in steady : CanOpen(p)
    BY <1>3, StepKeepsWorld DEF WorldInv
  <2>2. CASE OpenDir /\ pc' = "failed"
    <3>1. /\ pc = "open" /\ ~(entry \in dirs /\ CanOpen(entry))
          /\ printed' = [blamed |-> {entry}]
      BY <2>2 DEF OpenDir, Fail
    <3>2. Below(Root, entry) /\ entry \in Dirs \cup {Root}
      BY <3>1 DEF WalkInv
    <3>3. entry \notin steady
      BY <2>1, <3>1 DEF KindInv
    <3> QED
      BY <2>1, <3>1, <3>2, <3>3 DEF FailsForAReason
  <2>3. CASE LoseEntry
    <3>1. /\ pc = "list" /\ ~CanOpen(Innermost.dir) /\ printed' = [blamed |-> {}] /\ open' = open
      BY <2>3 DEF LoseEntry, Fail, walk
    <3>2. open \in Seq(Frames) /\ open # <<>>
      BY <3>1 DEF WalkInv
    <3>3. PICK n \in DOMAIN open : Innermost = open[n] /\ open[n] \in Frames
      BY <3>2, FramePopped DEF Innermost
    <3>4. Below(Root, open[n].dir) /\ open[n].dir \in Dirs /\ open[n].dir \notin steady
      BY <2>1, <3>1, <3>3 DEF WalkInv, Frames
    <3> QED
      BY <2>1, <3>1, <3>4 DEF FailsForAReason
  <2>4. CASE Read /\ pc' = "failed"
    <3> DEFINE f == First(Unread)
    <3>1. /\ pc = "read" /\ Unread # {} /\ ~(f \in DOMAIN disk /\ CanOpen(f))
          /\ printed' = [blamed |-> {f}]
      BY <2>4 DEF Read, Fail
    <3>2. f \in listing
      BY <3>1, FirstIs DEF Unread, WalkInv
    <3> HIDE DEF f
    <3>3. Below(Root, f) /\ f \in Holy
      BY <3>1, <3>2 DEF WalkInv, ReadInv
    <3>4. f \notin steady
      BY <2>1, <3>1, <3>2 DEF KindInv
    <3> QED
      BY <2>1, <3>1, <3>3, <3>4 DEF FailsForAReason
  <2>5. CASE ~(OpenDir /\ pc' = "failed") /\ ~LoseEntry /\ ~(Read /\ pc' = "failed")
    <3>1. pc' # "failed"
      <4>1. CASE TryCandidate
        BY <4>1 DEF TryCandidate, ReadInv
      <4>2. CASE ~TryCandidate
        BY <1>3, <2>5, <4>2 DEF Step, Enter, OpenDir, NextEntry, TestEntry, LoseEntry, EndDir,
             Retain, Read, ReadAll, Resolve, LookAgain, ResolveAll, OrderAll, Output, Ask, Back
      <4> QED
        BY <4>1, <4>2
    <3> QED
      BY <3>1 DEF FailsForAReason
  <2> QED
    BY <2>2, <2>3, <2>4, <2>5
<1> QED
  BY <1>1, <1>2, <1>3 DEF Next

\* A run fails only for a reason: the root, a directory or a HolyC file below
\* it could not be opened at some time during the run.
THEOREM FailuresHaveReasons == Spec => []FailsForAReason
<1>1. Init => TreeAndReason
  BY InitTree DEF TreeAndReason, Init, FailsForAReason
<1>2. TreeAndReason /\ [Next]_vars => TreeAndReason'
  BY TreeStep, FailureStep DEF TreeAndReason
<1>3. TreeAndReason => FailsForAReason
  BY DEF TreeAndReason
<1> QED
  BY <1>1, <1>2, <1>3, PTL DEF Spec
-----------------------------------------------------------------------------
(* The scan finds every file that can be seen all along. *)

\* The walk will come to p: it is on the way to it, is testing it, or a name
\* on the way to it is still to be returned.
Ahead(p) ==
  \/ pc \in {"enter", "open"} /\ IsPrefix(entry, p)
  \/ pc = "test" /\ entry = p
  \/ \E n \in DOMAIN open : \E e \in open[n].stayed : IsPrefix(e, p)

\* While the directories are read a file that could be seen all along has been
\* found or is ahead, and after that such HolyC files have been found.
ScanInv ==
  /\ pc = "open" => entry \notin always
  /\ pc \in Walking => \A p \in always : Below(Root, p) => p \in listing \/ Ahead(p)
  /\ pc = "read" \/ Scanned =>
       \A p \in always : Below(Root, p) /\ p \in Holy => p \in listing

\* What is on the way to a file that can be seen can be seen, and is a
\* directory.
LEMMA OnTheWay ==
  ASSUME WorldInv, NEW p \in Visible, NEW e, Path(e), IsPrefix(e, p), e # p
  PROVE  e \in dirs /\ CanSee(e) /\ e \notin DOMAIN disk
<1>1. p \in DOMAIN disk /\ p \in Places /\ Above(p) \subseteq dirs /\ Above(p) \cap barred = {}
  BY DEF Visible, CanSee, WorldInv, IsTree
<1>2. Path(p)
  BY <1>1, PathsArePaths
<1>3. e \in Above(p)
  BY <1>2, PrefixIsAbove
<1>4. Above(e) \subseteq Above(p)
  BY <1>2, <1>3, AboveUp
<1> QED
  BY <1>1, <1>3, <1>4 DEF CanSee, Present, WorldInv, IsTree

LEMMA WalkPaths ==
  ASSUME TreeInv
  PROVE  /\ pc \in {"enter", "open", "test"} => Path(entry)
         /\ \A n \in DOMAIN open : \A e \in open[n].left : Path(e) /\ e \in Places \cup Dirs
         /\ \A p \in Visible : Path(p) /\ p \in Places
<1>1. pc \in {"enter", "open", "test"} => entry \in Places \cup Dirs \cup {Root}
  BY DEF TreeInv, WalkInv
<1>2. \A n \in DOMAIN open : open[n].left \subseteq Places \cup Dirs
  BY DEF TreeInv, WalkInv, Inside
<1>3. \A p \in Visible : p \in Places
  BY DEF TreeInv, WorldInv, IsTree, Visible
<1> QED
  BY <1>1, <1>2, <1>3, PathsArePaths

LEMMA ScanOthers ==
  ASSUME TreeInv, TreeInv', ScanInv, Shift
  PROVE  ScanInv'
<1>1. UNCHANGED <<pc, entry, listing>> /\ always' \subseteq always /\ always' \subseteq Visible'
  BY DEF Shift
<1>2. ASSUME NEW p \in always', Ahead(p) PROVE Ahead(p)'
  <2>1. CASE \E n \in DOMAIN open : \E e \in open[n].stayed : IsPrefix(e, p)
    <3>1. PICK n \in DOMAIN open : \E e \in open[n].stayed : IsPrefix(e, p)
      BY <2>1
    <3>2. PICK e \in open[n].stayed : IsPrefix(e, p)
      BY <3>1
    <3>3. open[n] \in Frames /\ e \in open[n].left
      BY DEF TreeInv, WalkInv
    <3>4. n \in DOMAIN open' /\ open'[n].stayed = open[n].stayed \cap Present'
      BY <3>3 DEF Shift, Frames
    <3>5. Path(e) /\ p \in Visible'
      BY <1>1, <3>3, WalkPaths
    <3>6. e = p \/ e \in Above(p)
      <4>1. p \in Places
        BY <3>5 DEF TreeInv, WorldInv, IsTree, Visible
      <4> QED
        BY <3>2, <3>5, <4>1, PathsArePaths, PrefixIsAbove
    <3>7. e \in Present'
      BY <3>5, <3>6 DEF TreeInv, WorldInv, IsTree, Visible, Present
    <3> QED
      BY <3>2, <3>4, <3>7 DEF Ahead
  <2>2. CASE ~\E n \in DOMAIN open : \E e \in open[n].stayed : IsPrefix(e, p)
    BY <1>1, <1>2, <2>2 DEF Ahead
  <2> QED
    BY <2>1, <2>2
<1> QED
  BY <1>1, <1>2 DEF ScanInv, Scanned

LEMMA ScanEnter ==
  ASSUME TreeInv, ScanInv, Enter
  PROVE  ScanInv'
<1>1. /\ always' = always /\ always \subseteq Visible /\ WorldInv
      /\ \A p \in Visible : Path(p)
  BY StepKeepsWorld, WalkPaths DEF Step, TreeInv, WorldInv
<1>2. pc = "enter" /\ UNCHANGED <<entry, open>> /\ Path(entry)
  BY WalkPaths DEF Enter
<1>3. CASE entry \in Visible
  <2>1. listing' = listing \cup {entry} /\ pc' = Back(open)
    BY <1>3 DEF Enter
  <2>2. ASSUME NEW p \in always, Below(Root, p), p \notin listing'
        PROVE  \E n \in DOMAIN open : \E e \in open[n].stayed : IsPrefix(e, p)
    <3>1. p \notin listing /\ p # entry
      BY <2>1, <2>2
    <3>2. ~IsPrefix(entry, p)
      BY <1>1, <1>2, <1>3, <3>1, OnTheWay DEF Visible
    <3> QED
      BY <1>2, <2>2, <3>1, <3>2 DEF ScanInv, Ahead, Walking
  <2>3. pc' \in {"retain", "list"}
    BY <2>1 DEF Back
  <2> QED
    BY <1>1, <1>2, <2>2, <2>3 DEF ScanInv, Ahead, Scanned, Walking
<1>4. CASE entry \notin Visible
  <2>1. pc' = "open" /\ listing' = listing
    BY <1>4 DEF Enter
  <2> QED
    BY <1>1, <1>2, <1>4, <2>1 DEF ScanInv, Ahead, Scanned, Walking
<1> QED
  BY <1>3, <1>4

LEMMA ScanOpenDir ==
  ASSUME TreeInv, ScanInv, OpenDir
  PROVE  ScanInv'
<1>1. /\ always' = always /\ always \subseteq Visible /\ WorldInv
      /\ \A p \in Visible : Path(p)
  BY StepKeepsWorld, WalkPaths DEF Step, TreeInv, WorldInv
<1>2. pc = "open" /\ Path(entry) /\ entry \notin always /\ open \in Seq(Frames)
  BY WalkPaths DEF OpenDir, ScanInv, TreeInv, WalkInv
<1>3. CASE pc' = "failed"
  BY <1>3 DEF ScanInv, Scanned, Walking
<1>4. CASE pc' # "failed"
  <2> DEFINE new == [dir |-> entry, left |-> Inside(entry), stayed |-> Inside(entry) \cap Present]
  <2>1. /\ entry \in dirs /\ open' = Append(open, new) /\ pc' = "list"
        /\ listing' = listing
    BY <1>4 DEF OpenDir, Fail
  <2>2. new \in Frames /\ new.stayed = Inside(entry) \cap Present
    BY <2>1 DEF Frames, Inside, TreeInv, WorldInv, IsTree
  <2> HIDE DEF new
  <2>3. /\ \A n \in DOMAIN open : n \in DOMAIN open' /\ open'[n] = open[n]
        /\ Len(open) + 1 \in DOMAIN open' /\ open'[Len(open) + 1] = new
    BY <1>2, <2>1, <2>2, FramePushed
  <2>4. ASSUME NEW p \in always, IsPrefix(entry, p)
        PROVE  \E e \in new.stayed : IsPrefix(e, p)
    <3>1. p # entry /\ p \in Visible /\ Path(p)
      BY <1>1, <1>2
    <3>2. PICK e \in Above(p) \cup {p} : e # <<>> /\ Front(e) = entry
      BY <1>2, <2>4, <3>1, NextDown
    <3>3. e \in Present /\ e \in Places \cup Dirs
      BY <1>1, <3>1, <3>2 DEF WorldInv, IsTree, Visible, Present
    <3>4. e \in Inside(entry)
      BY <3>2, <3>3 DEF Inside
    <3>5. IsPrefix(e, p)
      BY <3>1, <3>2, <3>3, PathsArePaths, PrefixIsAbove
    <3> QED
      BY <2>2, <3>3, <3>4, <3>5
  <2>5. ASSUME NEW p \in always, Below(Root, p), p \notin listing PROVE Ahead(p)'
    <3>1. \/ IsPrefix(entry, p)
          \/ \E n \in DOMAIN open : \E e \in open[n].stayed : IsPrefix(e, p)
      BY <1>2, <2>5 DEF ScanInv, Ahead, Walking
    <3> QED
      BY <2>3, <2>4, <3>1 DEF Ahead
  <2> QED
    BY <1>1, <2>1, <2>5 DEF ScanInv, Scanned, Walking
<1> QED
  BY <1>3, <1>4

LEMMA ScanNextEntry ==
  ASSUME TreeInv, ScanInv, NextEntry
  PROVE  ScanInv'
<1>1. /\ always' = always /\ always \subseteq Visible /\ WorldInv
      /\ \A p \in Visible : Path(p)
  BY StepKeepsWorld, WalkPaths DEF Step, TreeInv, WorldInv
<1>2. pc = "list" /\ listing' = listing /\ open \in Seq(Frames) /\ open # <<>>
  BY DEF NextEntry, TreeInv, WalkInv
<1>3. PICK e \in Innermost.left \cap Present :
         Yield(e) /\ entry' = e /\ pc' = IF e \in dirs /\ CanSee(e) THEN "enter" ELSE "test"
  BY DEF NextEntry
<1>4. Path(e)
  BY <1>2, FramePopped, WalkPaths DEF Innermost
<1>5. /\ DOMAIN open' = DOMAIN open
      /\ \A n \in DOMAIN open : open[n].stayed \ {e} \subseteq open'[n].stayed
  BY <1>2, <1>3, FrameYields
<1>6. ASSUME NEW p \in always, Below(Root, p), p \notin listing PROVE Ahead(p)'
  <2>1. PICK n \in DOMAIN open : \E d \in open[n].stayed : IsPrefix(d, p)
    BY <1>2, <1>6 DEF ScanInv, Ahead, Walking
  <2>2. PICK d \in open[n].stayed : IsPrefix(d, p)
    BY <2>1
  <2>3. CASE d # e
    BY <1>5, <2>2, <2>3 DEF Ahead
  <2>4. CASE d = e /\ e = p
    BY <1>3, <2>2, <2>4 DEF Ahead
  <2>5. CASE d = e /\ e # p
    <3>1. e \in dirs /\ CanSee(e)
      BY <1>1, <1>4, <2>2, <2>5, OnTheWay
    <3> QED
      BY <1>3, <2>2, <2>5, <3>1 DEF Ahead
  <2> QED
    BY <2>3, <2>4, <2>5
<1>7. pc' \in {"enter", "test"}
  BY <1>3
<1> QED
  BY <1>1, <1>2, <1>6, <1>7 DEF ScanInv, Scanned, Walking

LEMMA ScanEndDir ==
  ASSUME TreeInv, ScanInv, EndDir
  PROVE  ScanInv'
<1>1. always' = always
  BY StepKeepsWorld DEF Step
<1>2. /\ pc = "list" /\ Innermost.stayed = {} /\ open' = Front(open) /\ listing' = listing
      /\ pc' \in {"retain", "list"} /\ open \in Seq(Frames) /\ open # <<>>
  BY DEF EndDir, Back, TreeInv, WalkInv
<1>3. /\ Innermost = open[Len(open)]
      /\ \A n \in DOMAIN open \ {Len(open)} : n \in DOMAIN open' /\ open'[n] = open[n]
  BY <1>2, FramePopped DEF Innermost
<1>4. ASSUME NEW p \in always, Below(Root, p), p \notin listing PROVE Ahead(p)'
  <2>1. PICK n \in DOMAIN open : \E d \in open[n].stayed : IsPrefix(d, p)
    BY <1>2, <1>4 DEF ScanInv, Ahead, Walking
  <2>2. n # Len(open)
    BY <1>2, <1>3, <2>1
  <2> QED
    BY <1>3, <2>1, <2>2 DEF Ahead
<1> QED
  BY <1>1, <1>2, <1>4 DEF ScanInv, Scanned, Walking

LEMMA ScanStep ==
  ASSUME TreeInv, TreeInv', ScanInv, [Next]_vars
  PROVE  ScanInv'
<1>1. CASE Others
  BY <1>1, OthersShift, ScanOthers DEF TreeInv, WorldInv
<1>2. CASE Enter \/ OpenDir \/ NextEntry \/ EndDir
  BY <1>2, ScanEnter, ScanOpenDir, ScanNextEntry, ScanEndDir
<1>3. CASE TestEntry
  <2>1. /\ pc = "test" /\ pc' = "list" /\ UNCHANGED <<entry, open>>
        /\ listing' = listing \cup ({entry} \cap Visible)
    BY <1>3 DEF TestEntry
  <2>2. always' = always /\ always \subseteq Visible
    BY <1>3, StepKeepsWorld DEF Step, TreeInv, WorldInv
  <2> QED
    BY <2>1, <2>2 DEF ScanInv, Scanned, Walking, Ahead
<1>4. CASE LoseEntry
  <2>1. pc' = "failed"
    BY <1>4 DEF LoseEntry, Fail
  <2> QED
    BY <2>1 DEF ScanInv, Scanned, Walking
<1>5. CASE Retain
  <2>1. pc = "retain" /\ pc' = "read" /\ listing' = listing \cap Holy /\ open = <<>>
    BY <1>5 DEF Retain, TreeInv, WalkInv
  <2>2. always' = always
    BY <1>5, StepKeepsWorld DEF Step
  <2>3. \A p : ~Ahead(p)
    BY <2>1 DEF Ahead
  <2> QED
    BY <2>1, <2>2, <2>3 DEF ScanInv, Scanned, Walking
<1>6. CASE Read \/ ReadAll \/ Resolve \/ LookAgain \/ TryCandidate \/ ResolveAll \/ OrderAll
           \/ Output
  <2>1. listing' = listing
    BY <1>6, Zenon DEF Read, ReadAll, Resolve, LookAgain, TryCandidate, ResolveAll, OrderAll,
                       Output, Ask, Fail, walk
  <2>2. always' = always
    BY <1>6, StepKeepsWorld DEF Step
  <2>3. (pc = "read" \/ Scanned) /\ pc' \notin Walking
    <3>1. CASE TryCandidate
      BY <3>1 DEF TryCandidate, TreeInv, ReadInv, Walking, Scanned
    <3>2. CASE ~TryCandidate
      BY <1>6, <3>2 DEF Read, ReadAll, Resolve, LookAgain, ResolveAll, OrderAll, Output, Ask,
                        Fail, Walking, Scanned
    <3> QED
      BY <3>1, <3>2
  <2> QED
    BY <2>1, <2>2, <2>3 DEF ScanInv, Walking
<1>7. CASE UNCHANGED vars
  <2>1. UNCHANGED <<pc, entry, open, listing, always>>
    BY <1>7 DEF vars, walk, world
  <2> QED
    BY <2>1 DEF ScanInv, Scanned, Ahead
<1> QED
  BY <1>1, <1>2, <1>3, <1>4, <1>5, <1>6, <1>7 DEF Next, Step

TreeAndScan == TreeInv /\ ScanInv

LEMMA ScanInvariant == Spec => []TreeAndScan
<1>1. Init => TreeAndScan
  <2> SUFFICES ASSUME Init PROVE TreeAndScan
    OBVIOUS
  <2>1. pc = "enter" /\ entry = Root
    BY DEF Init
  <2>2. ScanInv
    BY <2>1 DEF ScanInv, Scanned, Ahead, Below
  <2> QED
    BY <2>2, InitTree DEF TreeAndScan
<1>2. TreeAndScan /\ [Next]_vars => TreeAndScan'
  BY TreeStep, ScanStep DEF TreeAndScan
<1> QED
  BY <1>1, <1>2, PTL DEF Spec

\* A scan that succeeds has read every HolyC file below the root that could be
\* seen all along, only files that could be seen, and every file it found,
\* whatever other programs did between any two calls to the file system.
THEOREM ScansAreComplete == Spec => []ScanIsComplete
<1>1. TreeAndScan => ScanIsComplete
  <2> SUFFICES ASSUME TreeAndScan, Scanned
               PROVE  /\ {p \in always \cap Holy : Below(Root, p)} \subseteq DOMAIN reports
                      /\ DOMAIN reports \subseteq ever
                      /\ DOMAIN reports = listing
    BY DEF ScanIsComplete
  <2> QED
    BY DEF TreeAndScan, TreeInv, WalkInv, ReadInv, ScanInv
<1> QED
  BY <1>1, ScanInvariant, PTL
-----------------------------------------------------------------------------
(* Every lookup can be justified by files that stayed or that were there. *)

\* LookupsAreJustified of one row.
Justified(row) ==
  LET target == reports[row.file][row.line]
      near == Front(row.file) \o target.path
      stayed(p) == LeadsTo(p, always)
  IN  /\ row.resolved # None =>
           /\ LeadsTo(row.resolved, ever)
           /\ row.resolved \in IF target.absolute THEN {target.path}
                               ELSE {near, Root \o target.path, Front(Root) \o target.path}
      /\ (~target.absolute /\ stayed(near)) => row.resolved = near
      /\ row.resolved = None =>
           IF target.absolute THEN ~stayed(target.path)
           ELSE /\ ~stayed(near)
                /\ \A base \in SureBases : ~stayed(base \o target.path)

\* What is left to try of the lookup under way: when only the path under the
\* root is left, that beside the file was no file all along.
Trying ==
  LET target == Target(asked)
      near == Front(asked[1]) \o target.path
  IN  IF target.absolute THEN candidates = <<target.path>>
      ELSE \E base \in {Root, Front(Root)} :
             /\ SureBases \subseteq {base}
             /\ \/ candidates = <<near, base \o target.path>>
                \/ candidates = <<base \o target.path>> /\ ~LeadsTo(near, always)

LookupInv ==
  /\ pc \in Walking \cup {"read"} => rows = {} /\ again = {}
  /\ asked # <<>> => Trying
  /\ \A row \in rows \cup again : Justified(row)

LEMMA OneOrTwo ==
  ASSUME NEW a, NEW b
  PROVE  /\ Head(<<a, b>>) = a /\ Tail(<<a, b>>) = <<b>> /\ Len(<<a, b>>) = 2
         /\ Head(<<a>>) = a /\ Len(<<a>>) = 1 /\ ~(Len(<<a>>) > 1)
  OBVIOUS

\* No file is at the path that stands for no path.
LEMMA NoneIsNoFile ==
  ASSUME WorldInv
  PROVE  ~IsFile(SeenDisk, None)
<1>1. \A p \in Visible : ~SameFile(p, None)
  BY PathsAssumption DEF Visible, WorldInv, IsTree
<1> QED
  BY <1>1 DEF IsFile, LeadsTo, SameFile, SeenDisk

LEMMA FileTests ==
  ASSUME WorldInv
  PROVE  /\ \A p : LeadsTo(p, always) => IsFile(SeenDisk, p)
         /\ \A p : IsFile(SeenDisk, p) => LeadsTo(p, ever)
         /\ \A p : LeadsTo(p, always) => LeadsTo(p, ever)
<1>1. DOMAIN SeenDisk = Visible /\ always \subseteq Visible /\ Visible \subseteq ever
  BY DEF SeenDisk, WorldInv
<1>2. always \subseteq ever
  BY <1>1
<1> QED
  BY <1>1, <1>2, LeadsToMore DEF IsFile

\* Whatever changes, what is known of the past is only weakened.
LEMMA LookupOthers ==
  ASSUME WorldInv, LookupInv, Shift
  PROVE  LookupInv'
<1>1. UNCHANGED <<pc, reports, asked, candidates, rows, again>>
  BY DEF Shift
<1>2. always' \subseteq always /\ ever \subseteq ever'
  BY DEF Shift
<1>3. \A p : LeadsTo(p, always') => LeadsTo(p, always)
  BY <1>2, LeadsToMore
<1>4. \A p : LeadsTo(p, ever) => LeadsTo(p, ever')
  BY <1>2, LeadsToMore
<1>5. SureBases' \subseteq SureBases
  BY <1>3, <1>4, FileTests DEF SureBases
<1>6. ASSUME NEW row, Justified(row) PROVE Justified(row)'
  BY <1>1, <1>3, <1>4, <1>5, <1>6 DEF Justified
<1>7. ASSUME Trying PROVE Trying'
  <2> DEFINE target == Target(asked)
             near == Front(asked[1]) \o target.path
  <2>1. Target(asked)' = target /\ asked' = asked
    BY <1>1 DEF Target
  <2>2. CASE target.absolute
    BY <1>1, <1>7, <2>1, <2>2 DEF Trying
  <2>3. CASE ~target.absolute
    <3>1. PICK base \in {Root, Front(Root)} :
             /\ SureBases \subseteq {base}
             /\ \/ candidates = <<near, base \o target.path>>
                \/ candidates = <<base \o target.path>> /\ ~LeadsTo(near, always)
      BY <1>7, <2>3 DEF Trying
    <3>2. SureBases' \subseteq {base}
      BY <1>5, <3>1
    <3> QED
      BY <1>1, <1>3, <2>1, <2>3, <3>1, <3>2 DEF Trying
  <2> QED
    BY <2>2, <2>3
<1> QED
  BY <1>1, <1>6, <1>7 DEF LookupInv

\* A lookup begins with all its candidates.
LEMMA AskTries ==
  ASSUME WorldInv, NEW x, Ask(x)
  PROVE  Trying' /\ rows' = rows /\ again' = again
<1>1. /\ asked' = x /\ candidates' = Candidates(SeenDisk, Root, x[1], Target(x))
      /\ UNCHANGED <<always, ever, reports, rows, again>>
  BY DEF Ask, world
<1>2. Target(asked)' = Target(x) /\ SureBases' = SureBases
  BY <1>1 DEF Target, SureBases
<1>3. SureBases \subseteq {RootDir(SeenDisk, Root)} /\ RootDir(SeenDisk, Root) \in {Root, Front(Root)}
  BY FileTests DEF SureBases, RootDir
<1> QED
  BY <1>1, <1>2, <1>3 DEF Trying, Candidates

\* The answer of a lookup is justified when it is given.
LEMMA AnswerIsJustified ==
  ASSUME WorldInv, LookupInv, asked # <<>>, NEW path, NEW row,
         row = [file |-> asked[1], line |-> asked[2], resolved |-> path],
         \/ path = Head(candidates) /\ IsFile(SeenDisk, path)
         \/ path = None /\ ~IsFile(SeenDisk, Head(candidates)) /\ Len(candidates) = 1
  PROVE  Justified(row)
<1> DEFINE target == Target(asked)
           near == Front(asked[1]) \o target.path
<1>1. row.file = asked[1] /\ row.line = asked[2] /\ row.resolved = path
      /\ reports[row.file][row.line] = target
  BY DEF Target
<1>2. Trying
  BY DEF LookupInv
<1>3. path = None <=> ~IsFile(SeenDisk, path)
  BY NoneIsNoFile
<1>4. CASE target.absolute
  <2>1. candidates = <<target.path>>
    BY <1>2, <1>4 DEF Trying
  <2>2. Head(candidates) = target.path
    BY <2>1, OneOrTwo
  <2> HIDE DEF target
  <2> QED
    BY <1>1, <1>3, <1>4, <2>2, FileTests DEF Justified
<1>5. CASE ~target.absolute
  <2>1. PICK base \in {Root, Front(Root)} :
           /\ SureBases \subseteq {base}
           /\ \/ candidates = <<near, base \o target.path>>
              \/ candidates = <<base \o target.path>> /\ ~LeadsTo(near, always)
    BY <1>2, <1>5 DEF Trying
  <2> DEFINE far == base \o target.path
  <2>3. far \in {Root \o target.path, Front(Root) \o target.path}
    BY <2>1
  <2>8. candidates = <<near, far>> \/ (candidates = <<far>> /\ ~LeadsTo(near, always))
    BY <2>1
  <2> HIDE DEF near, far
  <2>2. \/ candidates = <<near, far>> /\ Head(candidates) = near /\ Len(candidates) = 2
        \/ candidates = <<far>> /\ Head(candidates) = far /\ ~LeadsTo(near, always)
    BY <2>8, OneOrTwo
  <2>4. path = None => /\ ~LeadsTo(near, always) /\ ~LeadsTo(far, always)
    BY <1>3, <2>2, FileTests
  <2>5. LeadsTo(near, always) => path = near
    BY <1>3, <2>2, FileTests
  <2>6. path # None => LeadsTo(path, ever) /\ path \in {near, far}
    BY <1>3, <2>2, FileTests
  <2>7. path = None => \A b \in SureBases : ~LeadsTo(b \o target.path, always)
    BY <2>1, <2>4 DEF far
  <2> HIDE DEF target
  <2> QED
    BY <1>1, <1>5, <2>3, <2>4, <2>5, <2>6, <2>7 DEF Justified, near
<1> QED
  BY <1>4, <1>5

LEMMA LookupTries ==
  ASSUME TreeInv, LookupInv, TryCandidate
  PROVE  LookupInv'
<1>1. /\ UNCHANGED <<pc, reports, always, ever>> /\ asked # <<>>
      /\ pc \in {"resolve", "order"} /\ WorldInv
  BY DEF TryCandidate, world, TreeInv, ReadInv
<1>2. \A row : Justified(row)' = Justified(row)
  BY <1>1 DEF Justified, SureBases
<1>3. CASE \E path : Answer(path) /\ (\/ path = Head(candidates) /\ IsFile(SeenDisk, path)
                                      \/ /\ path = None /\ ~IsFile(SeenDisk, Head(candidates))
                                         /\ Len(candidates) = 1)
  <2>1. PICK path : Answer(path) /\ (\/ path = Head(candidates) /\ IsFile(SeenDisk, path)
                                     \/ /\ path = None /\ ~IsFile(SeenDisk, Head(candidates))
                                        /\ Len(candidates) = 1)
    BY <1>3
  <2> DEFINE row == [file |-> asked[1], line |-> asked[2], resolved |-> path]
  <2>2. Justified(row)
    BY <1>1, <2>1, AnswerIsJustified
  <2>3. rows' \cup again' \subseteq rows \cup again \cup {row} /\ asked' = <<>>
    BY <2>1 DEF Answer
  <2> HIDE DEF row
  <2> QED
    BY <1>1, <1>2, <2>2, <2>3 DEF LookupInv, Walking
<1>4. CASE /\ ~IsFile(SeenDisk, Head(candidates)) /\ Len(candidates) > 1
           /\ candidates' = Tail(candidates) /\ UNCHANGED <<asked, rows, again>>
  <2> DEFINE target == Target(asked)
             near == Front(asked[1]) \o target.path
  <2>1. Trying /\ Target(asked)' = target /\ SureBases' = SureBases
    BY <1>1, <1>4 DEF LookupInv, Target, SureBases
  <2>2. ~target.absolute
    <3> SUFFICES ASSUME target.absolute PROVE FALSE
      OBVIOUS
    <3>1. candidates = <<target.path>>
      BY <2>1 DEF Trying
    <3> QED
      BY <1>4, <3>1
  <2>3. PICK base \in {Root, Front(Root)} :
           /\ SureBases \subseteq {base}
           /\ \/ candidates = <<near, base \o target.path>>
              \/ candidates = <<base \o target.path>> /\ ~LeadsTo(near, always)
    BY <2>1, <2>2 DEF Trying
  <2> DEFINE far == base \o target.path
  <2>7. candidates = <<near, far>> \/ candidates = <<far>>
    BY <2>3
  <2> HIDE DEF near, far
  <2>4. candidates = <<near, far>>
    BY <1>4, <2>7, OneOrTwo
  <2>5. candidates' = <<far>> /\ ~LeadsTo(near, always)
    BY <1>1, <1>4, <2>4, FileTests, OneOrTwo
  <2> USE DEF near, far
  <2>6. Trying'
    BY <1>1, <1>4, <2>1, <2>2, <2>3, <2>5 DEF Trying
  <2> QED
    BY <1>1, <1>2, <1>4, <2>6 DEF LookupInv
<1> QED
  BY <1>3, <1>4 DEF TryCandidate

LEMMA LookupStep ==
  ASSUME TreeInv, LookupInv, [Next]_vars
  PROVE  LookupInv'
<1>1. CASE Others
  BY <1>1, OthersShift, LookupOthers DEF TreeInv, WorldInv
<1>2. CASE TryCandidate
  BY <1>2, LookupTries
<1>3. CASE Resolve \/ LookAgain
  <2>1. PICK x : Ask(x)
    BY <1>3 DEF Resolve, LookAgain
  <2>2. Trying' /\ rows' = rows /\ again' = again
    BY <2>1, AskTries DEF TreeInv
  <2>3. pc' = pc /\ UNCHANGED <<reports, always, ever>>
    BY <2>1 DEF Ask, world
  <2>4. \A row : Justified(row)' = Justified(row)
    BY <2>3 DEF Justified, SureBases
  <2> QED
    BY <2>2, <2>3, <2>4 DEF LookupInv
<1>4. CASE Enter \/ OpenDir \/ NextEntry \/ TestEntry \/ LoseEntry \/ EndDir \/ Retain \/ Read
           \/ ReadAll
  <2>1. pc \in Walking \cup {"read"} /\ UNCHANGED <<asked, rows, again>>
    BY <1>4 DEF Enter, OpenDir, NextEntry, TestEntry, LoseEntry, EndDir, Retain, Read, ReadAll,
                Fail, Unchanged, lookups, Walking
  <2>2. rows' = {} /\ again' = {} /\ asked' = <<>>
    BY <2>1 DEF LookupInv, TreeInv, ReadInv, Walking
  <2> QED
    BY <2>2 DEF LookupInv
<1>5. CASE ResolveAll \/ OrderAll \/ Output \/ UNCHANGED vars
  <2>1. UNCHANGED <<reports, asked, candidates, rows, again, always, ever>>
    BY <1>5 DEF ResolveAll, OrderAll, Output, Unchanged, vars, lookups, world
  <2>2. pc' \in Walking \cup {"read"} => pc' = pc
    BY <1>5 DEF ResolveAll, OrderAll, Output, vars, Walking
  <2>3. (\A row : Justified(row)' = Justified(row)) /\ Trying' = Trying
    BY <2>1 DEF Justified, Trying, Target, SureBases
  <2> QED
    BY <2>1, <2>2, <2>3 DEF LookupInv
<1> QED
  BY <1>1, <1>2, <1>3, <1>4, <1>5 DEF Next, Step

\* No row says missing of a statement with a candidate that was a file all
\* along, none leads to a file that never was or to a path that is none of its
\* statement's, and the file beside the including one goes before that under
\* the root, however the tree changes between the tests of a lookup.
THEOREM LookupsHaveReasons == Spec => []LookupsAreJustified
<1>1. Init => TreeInv /\ LookupInv
  BY InitTree DEF Init, LookupInv
<1>2. (TreeInv /\ LookupInv) /\ [Next]_vars => (TreeInv /\ LookupInv)'
  BY TreeStep, LookupStep
<1>3. LookupInv => LookupsAreJustified
  BY DEF LookupInv, LookupsAreJustified, Justified
<1> QED
  BY <1>1, <1>2, <1>3, PTL DEF Spec
-----------------------------------------------------------------------------
(* A source-map tells the same story twice on a tree nobody touches. *)

\* The row of a lookup all of whose tests are made now.
Row(f, i) == [file |-> f, line |-> i,
              resolved |-> ResolveInclude(SeenDisk, Root, f, reports[f][i])]

\* The lookup under way has tried nothing, or has found the first of two
\* candidates to be no file.
QuietlyTrying ==
  LET all == Candidates(SeenDisk, Root, asked[1], Target(asked))
  IN  \/ candidates = all
      \/ Len(all) = 2 /\ candidates = Tail(all) /\ ~IsFile(SeenDisk, Head(all))

\* While nothing changes every lookup has the answer it would have now, and
\* each of the two passes looks up all statements.
QuietInv ==
  /\ TreeInv
  /\ pc \in Walking \cup {"read"} => rows = {} /\ again = {}
  /\ changes = 0 /\ asked # <<>> => QuietlyTrying
  /\ changes = 0 => \A row \in rows \cup again : row = Row(row.file, row.line)
  /\ pc \in {"order", "print", "done"} /\ command \in Resolves => Done(rows) = Includes
  /\ pc \in {"print", "done"} /\ command \in Orders => Done(again) = Includes

\* What a lookup answers is what all its tests would answer now.
LEMMA AnswerIsRow ==
  ASSUME WorldInv, QuietlyTrying, NEW path, NEW row,
         row = [file |-> asked[1], line |-> asked[2], resolved |-> path],
         \/ path = Head(candidates) /\ IsFile(SeenDisk, path)
         \/ path = None /\ ~IsFile(SeenDisk, Head(candidates)) /\ Len(candidates) = 1
  PROVE  row = Row(row.file, row.line)
<1> DEFINE target == Target(asked)
           near == Front(asked[1]) \o target.path
           far == RootDir(SeenDisk, Root) \o target.path
           answer == ResolveInclude(SeenDisk, Root, asked[1], target)
<1>1. answer = IF target.absolute THEN FileOrNone(SeenDisk, target.path)
               ELSE IF IsFile(SeenDisk, near) THEN near ELSE FileOrNone(SeenDisk, far)
  BY DEF ResolveInclude
<1>2. Candidates(SeenDisk, Root, asked[1], target) =
        IF target.absolute THEN <<target.path>> ELSE <<near, far>>
  BY DEF Candidates
<1>3. \A p : FileOrNone(SeenDisk, p) = IF IsFile(SeenDisk, p) THEN p ELSE None
  BY DEF FileOrNone
<1> DEFINE all == Candidates(SeenDisk, Root, asked[1], target)
<1>4. \/ candidates = all
      \/ Len(all) = 2 /\ candidates = Tail(all) /\ ~IsFile(SeenDisk, Head(all))
  BY DEF QuietlyTrying
<1> HIDE DEF near, far, answer
<1>5. CASE target.absolute
  <2> DEFINE only == target.path
  <2>1. all = <<only>>
    BY <1>2, <1>5
  <2> HIDE DEF all, only
  <2>2. candidates = <<only>> /\ Head(candidates) = only
    BY <1>4, <2>1, OneOrTwo
  <2>3. answer = IF IsFile(SeenDisk, only) THEN only ELSE None
    BY <1>1, <1>3, <1>5 DEF only
  <2> QED
    BY <2>2, <2>3 DEF Row, answer, Target
<1>6. CASE ~target.absolute
  <2>1. all = <<near, far>>
    BY <1>2, <1>6
  <2> HIDE DEF all
  <2>2. \/ candidates = <<near, far>> /\ Head(candidates) = near /\ Len(candidates) = 2
        \/ candidates = <<far>> /\ Head(candidates) = far /\ ~IsFile(SeenDisk, near)
    BY <1>4, <2>1, OneOrTwo
  <2>3. answer = IF IsFile(SeenDisk, near) THEN near
                 ELSE IF IsFile(SeenDisk, far) THEN far ELSE None
    BY <1>1, <1>3, <1>6
  <2>4. path = answer
    BY <2>2, <2>3
  <2> QED
    BY <2>4 DEF Row, answer, Target
<1> QED
  BY <1>5, <1>6

\* A lookup that goes on has found the first candidate to be no file.
LEMMA QuietlyOn ==
  ASSUME QuietlyTrying, ~IsFile(SeenDisk, Head(candidates)), Len(candidates) > 1
  PROVE  LET all == Candidates(SeenDisk, Root, asked[1], Target(asked))
         IN  Len(all) = 2 /\ Tail(candidates) = Tail(all) /\ ~IsFile(SeenDisk, Head(all))
<1> DEFINE target == Target(asked)
           near == Front(asked[1]) \o target.path
           far == RootDir(SeenDisk, Root) \o target.path
           only == target.path
           all == Candidates(SeenDisk, Root, asked[1], target)
<1>1. all = <<only>> \/ all = <<near, far>>
  BY DEF Candidates
<1>2. \/ candidates = all
      \/ Len(all) = 2 /\ candidates = Tail(all) /\ ~IsFile(SeenDisk, Head(all))
  BY DEF QuietlyTrying
<1> HIDE DEF near, far, only, all
<1>5. \A x : Len(<<x>>) = 1
  OBVIOUS
<1>6. candidates # <<only>> /\ candidates # <<far>>
  <2>1. ASSUME NEW x, candidates = <<x>> PROVE FALSE
    <3>1. Len(candidates) = 1
      BY <1>5, <2>1
    <3>2. Len(candidates) > 1
      OBVIOUS
    <3> QED
      BY ONLY <3>1, <3>2
  <2> QED
    BY <2>1, Zenon
<1>7. all = <<near, far>> => Tail(all) = <<far>>
  BY OneOrTwo
<1>8. Len(<<only>>) # 2
  BY <1>5
<1>3. all = <<near, far>> /\ candidates = all
  BY <1>1, <1>2, <1>6, <1>7, <1>8
<1>4. Len(all) = 2 /\ Tail(candidates) = Tail(all) /\ ~IsFile(SeenDisk, Head(all))
  BY <1>3, OneOrTwo
<1> QED
  BY <1>4 DEF all

LEMMA QuietTries ==
  ASSUME QuietInv, TreeInv', TryCandidate
  PROVE  QuietInv'
<1>1. /\ UNCHANGED <<pc, command, reports, changes>> /\ SeenDisk' = SeenDisk /\ asked # <<>>
      /\ pc \in {"resolve", "order"} /\ WorldInv
  BY StepKeepsWorld DEF TryCandidate, Step, QuietInv, TreeInv, ReadInv
<1>2. (\A f, i : Row(f, i)' = Row(f, i)) /\ Includes' = Includes
  BY <1>1 DEF Row, Includes
<1>3. CASE \E path : Answer(path) /\ (\/ path = Head(candidates) /\ IsFile(SeenDisk, path)
                                      \/ /\ path = None /\ ~IsFile(SeenDisk, Head(candidates))
                                         /\ Len(candidates) = 1)
  <2>1. PICK path : Answer(path) /\ (\/ path = Head(candidates) /\ IsFile(SeenDisk, path)
                                     \/ /\ path = None /\ ~IsFile(SeenDisk, Head(candidates))
                                        /\ Len(candidates) = 1)
    BY <1>3
  <2> DEFINE row == [file |-> asked[1], line |-> asked[2], resolved |-> path]
  <2>2. changes = 0 => row = Row(row.file, row.line)
    BY <1>1, <2>1, AnswerIsRow DEF QuietInv
  <2>3. rows' \cup again' \subseteq rows \cup again \cup {row} /\ asked' = <<>>
        /\ (pc = "order" => rows' = rows)
    BY <2>1 DEF Answer
  <2> HIDE DEF row
  <2>4. pc = "order" => Done(rows)' = Done(rows)
    BY <2>3 DEF Done
  <2>5. changes' = 0 => \A r \in rows' \cup again' : r = Row(r.file, r.line)'
    BY <1>1, <1>2, <2>2, <2>3 DEF QuietInv
  <2> QED
    BY <1>1, <1>2, <2>3, <2>4, <2>5 DEF QuietInv, Walking
<1>4. CASE /\ ~IsFile(SeenDisk, Head(candidates)) /\ Len(candidates) > 1
           /\ candidates' = Tail(candidates) /\ UNCHANGED <<asked, rows, again>>
  <2>1. changes = 0 => QuietlyTrying'
    <3> SUFFICES ASSUME changes = 0 PROVE QuietlyTrying'
      OBVIOUS
    <3> DEFINE all == Candidates(SeenDisk, Root, asked[1], Target(asked))
    <3>1. Len(all) = 2 /\ Tail(candidates) = Tail(all) /\ ~IsFile(SeenDisk, Head(all))
      BY <1>1, <1>4, QuietlyOn DEF QuietInv
    <3>2. all' = all
      BY <1>1, <1>4 DEF Target
    <3> HIDE DEF all
    <3>3. Len(all') = 2 /\ candidates' = Tail(all') /\ ~IsFile(SeenDisk', Head(all'))
      BY <1>1, <1>4, <3>1, <3>2
    <3> QED
      BY <3>3 DEF QuietlyTrying, all
  <2>2. Done(rows)' = Done(rows) /\ Done(again)' = Done(again)
    BY <1>4 DEF Done
  <2> QED
    BY <1>1, <1>2, <1>4, <2>1, <2>2 DEF QuietInv
<1> QED
  BY <1>3, <1>4 DEF TryCandidate

LEMMA QuietStep == QuietInv /\ [Next]_vars => QuietInv'
<1> SUFFICES ASSUME QuietInv, [Next]_vars PROVE QuietInv'
  OBVIOUS
<1>0. TreeInv'
  BY TreeStep DEF QuietInv
<1>1. CASE Others
  <2>1. Shift /\ changes \in Nat
    BY <1>1, OthersShift DEF QuietInv, TreeInv, WorldInv
  <2>2. changes' # 0
    <3>1. changes' = changes + 1 /\ changes \in Nat
      BY <2>1 DEF Shift
    <3> QED
      BY <3>1
  <2>3. UNCHANGED <<command, pc, reports, rows, again>>
    BY <2>1 DEF Shift
  <2>4. Done(rows)' = Done(rows) /\ Done(again)' = Done(again) /\ Includes' = Includes
    BY <2>3 DEF Done, Includes
  <2> QED
    BY <1>0, <2>2, <2>3, <2>4 DEF QuietInv
<1>2. CASE Enter \/ OpenDir \/ NextEntry \/ TestEntry \/ LoseEntry \/ EndDir \/ Retain \/ Read
  <2>1. /\ pc \in Walking \cup {"read"} /\ pc' \in Walking \cup {"read", "failed"}
        /\ UNCHANGED <<asked, rows, again>>
    BY <1>2 DEF Enter, OpenDir, NextEntry, TestEntry, LoseEntry, EndDir, Retain, Read,
                Fail, Unchanged, lookups, Walking, Back
  <2>2. rows' = {} /\ again' = {} /\ asked' = <<>>
    BY <2>1 DEF QuietInv, TreeInv, ReadInv, Walking
  <2> QED
    BY <1>0, <2>1, <2>2 DEF QuietInv, Walking
<1>3. CASE ReadAll
  <2>1. /\ pc = "read" /\ UNCHANGED <<asked, rows, again, command, changes>>
        /\ pc' = IF command \in Resolves THEN "resolve"
                 ELSE IF command \in Orders THEN "order" ELSE "print"
    BY <1>3 DEF ReadAll, Unchanged, lookups, world
  <2>2. rows' = {} /\ again' = {} /\ asked' = <<>>
    BY <2>1 DEF QuietInv, TreeInv, ReadInv
  <2> QED
    BY <1>0, <2>1, <2>2 DEF QuietInv
<1>4. CASE Resolve \/ LookAgain
  <2>1. PICK x : Ask(x)
    BY <1>4 DEF Resolve, LookAgain
  <2>2. UNCHANGED <<pc, command, reports, changes, rows, again>> /\ SeenDisk' = SeenDisk
    BY <1>4, <2>1, StepKeepsWorld DEF Ask, Step, world
  <2>3. QuietlyTrying'
    <3>1. Target(x)' = Target(x) /\ asked' = x
      BY <2>1, <2>2 DEF Target, Ask
    <3> QED
      BY <2>1, <2>2, <3>1 DEF QuietlyTrying, Ask
  <2>4. Done(rows)' = Done(rows) /\ Done(again)' = Done(again) /\ Includes' = Includes
        /\ \A f, i : Row(f, i)' = Row(f, i)
    BY <2>2 DEF Done, Includes, Row
  <2> QED
    BY <1>0, <2>2, <2>3, <2>4 DEF QuietInv
<1>5. CASE TryCandidate
  BY <1>0, <1>5, QuietTries
<1>6. CASE ResolveAll \/ OrderAll \/ Output \/ UNCHANGED vars
  <2>1. UNCHANGED <<command, reports, changes, asked, candidates, rows, again>>
    BY <1>6 DEF ResolveAll, OrderAll, Output, Unchanged, vars, lookups, world
  <2>2. SeenDisk' = SeenDisk
    BY <1>6, StepKeepsWorld DEF Step
  <2>3. Done(rows)' = Done(rows) /\ Done(again)' = Done(again) /\ Includes' = Includes
        /\ (\A f, i : Row(f, i)' = Row(f, i)) /\ QuietlyTrying' = QuietlyTrying
    BY <2>1, <2>2 DEF Done, Includes, Row, QuietlyTrying, Target
  <2>4. \/ pc = "resolve" /\ Done(rows) = Includes /\
             pc' = (IF command \in Orders THEN "order" ELSE "print")
        \/ pc = "order" /\ Done(again) = Includes /\ pc' = "print"
        \/ pc = "print" /\ pc' = "done"
        \/ pc' = pc
    BY <1>6 DEF ResolveAll, OrderAll, Output, vars
  <2> QED
    BY <1>0, <2>1, <2>3, <2>4 DEF QuietInv, Walking
<1> QED
  BY <1>1, <1>2, <1>3, <1>4, <1>5, <1>6 DEF Next, Step

LEMMA InitQuiet == Init => QuietInv
  BY InitTree DEF Init, QuietInv

\* Lookups that each have the answer of their statement are the same when
\* they are of the same statements.
LEMMA SameLookups ==
  ASSUME NEW S, NEW T, Done(S) = Done(T),
         \A row \in S \cup T : row = Row(row.file, row.line)
  PROVE  S = T
<1>1. ASSUME NEW A, NEW B, Done(A) = Done(B), NEW r \in A,
             \A row \in A \cup B : row = Row(row.file, row.line)
      PROVE  r \in B
  <2>1. <<r.file, r.line>> \in Done(B)
    <3>1. <<r.file, r.line>> \in Done(A)
      BY DEF Done
    <3>2. Done(A) = Done(B)
      BY <1>1
    <3> QED
      BY <3>1, <3>2
  <2>2. PICK s \in B : <<r.file, r.line>> = <<s.file, s.line>>
    BY <2>1 DEF Done
  <2>3. r.file = s.file /\ r.line = s.line
    BY <2>2
  <2>4. r = Row(r.file, r.line) /\ s = Row(s.file, s.line)
    BY <1>1
  <2> QED
    BY <2>3, <2>4
<1> QED
  BY <1>1

\* The dependency order of a source-map is drawn from the same resolutions
\* as its resolved and missing counts when nothing changes during the run.
THEOREM SourceMapAgreesWithItself == Spec => []QuietLookupsAgree
<1>1. QuietInv => QuietLookupsAgree
  <2> SUFFICES ASSUME QuietInv, pc = "done", changes = 0, command = "source-map"
               PROVE  again = rows
    BY DEF QuietLookupsAgree
  <2>1. Done(rows) = Done(again)
    BY DEF QuietInv, Resolves, Orders
  <2>2. \A row \in rows \cup again : row = Row(row.file, row.line)
    BY DEF QuietInv
  <2> QED
    BY <2>1, <2>2, SameLookups
<1> QED
  BY <1>1, InitQuiet, QuietStep, PTL DEF Spec

-----------------------------------------------------------------------------
(* The commands tell one story of a tree nobody touches. *)

HolyBelow == {p \in Visible \cap Holy : Below(Root, p)}

\* While nothing changes what could be seen at the start can be seen, what is
\* found is among it, what is read is what is there, and what is printed is
\* what was found.
StoryInv ==
  /\ QuietInv /\ ScanInv
  /\ IsFiniteSet(rows)
  /\ command \in Commands
  /\ pc = "done" => printed = Result
  /\ changes = 0 => /\ always = Visible
                    /\ listing \subseteq Visible
                    /\ \A f \in DOMAIN reports : reports[f] = disk[f]

LEMMA StoryFinite ==
  ASSUME IsFiniteSet(rows), Step \/ UNCHANGED vars
  PROVE  IsFiniteSet(rows')
<1>1. CASE TryCandidate
  <2>1. \/ rows' = rows
        \/ \E row : rows' = rows \cup {row}
    BY <1>1 DEF TryCandidate, Answer
  <2> QED
    BY <2>1, FS_AddElement
<1>2. CASE ~TryCandidate
  <2>1. rows' = rows
    BY <1>2, Zenon DEF Step, Enter, OpenDir, NextEntry, TestEntry, LoseEntry, EndDir, Retain, Read,
         ReadAll, Resolve, LookAgain, ResolveAll, OrderAll, Output, Fail, Unchanged, Ask, vars,
         lookups
  <2> QED
    BY <2>1
<1> QED
  BY <1>1, <1>2

LEMMA StoryPrinted ==
  ASSUME QuietInv, pc = "done" => printed = Result, Step \/ UNCHANGED vars
  PROVE  pc' = "done" => printed' = Result'
<1>1. CASE Output \/ UNCHANGED vars
  <2>1. UNCHANGED <<command, reports, rows>>
    BY <1>1 DEF Output, lookups, vars
  <2>2. Result' = Result
    BY <2>1 DEF Result, FileCount, OrderCount, GraphEdges, ResolvedRows, MissingRows,
                EntrypointRows, ReverseEdges, Counts, Includes, Missing
  <2> QED
    BY <1>1, <2>2 DEF Output, vars
<1>2. CASE TryCandidate
  BY <1>2 DEF TryCandidate, QuietInv, TreeInv, ReadInv
<1>3. CASE Step /\ ~Output /\ ~TryCandidate
  BY <1>3 DEF Step, Enter, OpenDir, NextEntry, TestEntry, LoseEntry, EndDir, Retain, Read,
              ReadAll, Resolve, LookAgain, ResolveAll, OrderAll, Fail, Ask, Back
<1> QED
  BY <1>1, <1>2, <1>3

\* The run finds only what can be seen and reads it as it is.
LEMMA StoryReads ==
  ASSUME QuietInv, listing \subseteq Visible, \A f \in DOMAIN reports : reports[f] = disk[f],
         Step \/ UNCHANGED vars
  PROVE  /\ listing' \subseteq Visible
         /\ \A f \in DOMAIN reports' : reports'[f] = disk[f]
<1>1. CASE Enter \/ OpenDir \/ NextEntry \/ TestEntry \/ LoseEntry \/ EndDir \/ Retain
  <2>1. reports' = reports
    BY <1>1, Zenon DEF Enter, OpenDir, NextEntry, TestEntry, LoseEntry, EndDir, Retain, Fail,
                       Unchanged
  <2>2. listing' \subseteq listing \cup Visible
    BY <1>1 DEF Enter, OpenDir, NextEntry, TestEntry, LoseEntry, EndDir, Retain, Fail, walk
  <2> QED
    BY <2>1, <2>2
<1>2. CASE Read
  <2>1. listing' = listing
    BY <1>2 DEF Read, Fail, walk
  <2>2. CASE pc' = "failed"
    <3>1. reports' = reports
      BY <1>2, <2>2 DEF Read, Fail
    <3> QED
      BY <2>1, <3>1
  <2>3. CASE pc' # "failed"
    <3>1. PICK f : reports' = With(reports, f, disk[f])
      BY <1>2, <2>3 DEF Read, Fail
    <3>2. /\ DOMAIN reports' = DOMAIN reports \cup {f}
          /\ \A g \in DOMAIN reports' : reports'[g] = IF g = f THEN disk[f] ELSE reports[g]
      BY <3>1 DEF With
    <3> QED
      BY <2>1, <3>2
  <2> QED
    BY <2>2, <2>3
<1>3. CASE ReadAll \/ Resolve \/ LookAgain \/ TryCandidate \/ ResolveAll \/ OrderAll \/ Output
           \/ UNCHANGED vars
  <2>1. UNCHANGED <<listing, reports>>
    BY <1>3, Zenon DEF ReadAll, Resolve, LookAgain, TryCandidate, ResolveAll, OrderAll, Output,
                       Ask, Unchanged, walk, vars
  <2> QED
    BY <2>1
<1> QED
  BY <1>1, <1>2, <1>3 DEF Step

\* Once the disk has changed nothing is left to say; until then each step of
\* the run keeps to the tree.
LEMMA StoryStep == StoryInv /\ [Next]_vars => StoryInv'
<1> SUFFICES ASSUME StoryInv, [Next]_vars PROVE StoryInv'
  OBVIOUS
<1>1. QuietInv' /\ ScanInv'
  BY QuietStep, ScanStep DEF StoryInv, QuietInv
<1>2. CASE Others
  <2>1. Shift /\ changes \in Nat
    BY <1>2, OthersShift DEF StoryInv, QuietInv, TreeInv, WorldInv
  <2>2. changes' # 0 /\ pc' # "done" /\ UNCHANGED <<command, rows>>
    <3>1. changes' = changes + 1 /\ changes \in Nat
      BY <2>1 DEF Shift
    <3> QED
      BY <2>1, <3>1 DEF Shift
  <2> QED
    BY <1>1, <2>2 DEF StoryInv
<1>3. CASE Step \/ UNCHANGED vars
  <2>1. UNCHANGED <<command, disk, always, changes>> /\ Visible' = Visible
    BY <1>3, StepKeepsWorld
  <2>2. IsFiniteSet(rows')
    BY <1>3, StoryFinite DEF StoryInv
  <2>3. pc' = "done" => printed' = Result'
    BY <1>3, StoryPrinted DEF StoryInv
  <2>4. changes = 0 => /\ listing' \subseteq Visible
                       /\ \A f \in DOMAIN reports' : reports'[f] = disk[f]
    BY <1>3, StoryReads DEF StoryInv
  <2> QED
    BY <1>1, <2>1, <2>2, <2>3, <2>4 DEF StoryInv
<1> QED
  BY <1>2, <1>3 DEF Next

\* Where a statement of the tree may lead.
Leads(x) == {p \in Range(Candidates(SeenDisk, Root, x[1], disk[x[1]][x[2]])) :
               IsFile(SeenDisk, p)}

Lost == {x \in Includes : Leads(x) = {}}

LEMMA RangeOfPair ==
  ASSUME NEW a, NEW b
  PROVE  Range(<<a>>) = {a} /\ Range(<<a, b>>) = {a, b}
  BY DEF Range

\* What a lookup finds is where the statement leads, and it finds nothing only
\* when it leads nowhere.
LEMMA RowLeads ==
  ASSUME WorldInv, NEW f, NEW i, reports[f] = disk[f]
  PROVE  /\ Row(f, i).resolved = None <=> Leads(<<f, i>>) = {}
         /\ Row(f, i).resolved # None => Row(f, i).resolved \in Leads(<<f, i>>)
<1> DEFINE target == disk[f][i]
           near == Front(f) \o target.path
           far == RootDir(SeenDisk, Root) \o target.path
           answer == Row(f, i).resolved
<1>2. answer = IF target.absolute THEN FileOrNone(SeenDisk, target.path)
               ELSE IF IsFile(SeenDisk, near) THEN near ELSE FileOrNone(SeenDisk, far)
  BY DEF Row, ResolveInclude
<1>3. Range(Candidates(SeenDisk, Root, f, target)) =
        IF target.absolute THEN {target.path} ELSE {near, far}
  BY RangeOfPair DEF Candidates
<1>4. Leads(<<f, i>>) = {p \in (IF target.absolute THEN {target.path} ELSE {near, far}) :
                            IsFile(SeenDisk, p)}
  BY <1>3 DEF Leads
<1>5. \A p : FileOrNone(SeenDisk, p) = IF IsFile(SeenDisk, p) THEN p ELSE None
  BY DEF FileOrNone
<1>6. ~IsFile(SeenDisk, None)
  BY NoneIsNoFile
<1> HIDE DEF target, near, far, answer
<1>7. /\ answer = None <=> Leads(<<f, i>>) = {}
      /\ answer # None => answer \in Leads(<<f, i>>)
  BY <1>2, <1>4, <1>5, <1>6
<1> QED
  BY <1>7 DEF answer

\* Rows of different statements are different.
LEMMA AsManyRows ==
  ASSUME NEW S, IsFiniteSet(S), \A row \in S : row = Row(row.file, row.line)
  PROVE  Cardinality(Done(S)) = Cardinality(S)
<1> DEFINE name == [row \in S |-> <<row.file, row.line>>]
<1>1. name \in [S -> Done(S)]
  BY DEF Done
<1>2. \A r, s \in S : name[r] = name[s] => r = s
  <2> SUFFICES ASSUME NEW r \in S, NEW s \in S, name[r] = name[s] PROVE r = s
    OBVIOUS
  <2>1. r.file = s.file /\ r.line = s.line
    BY DEF name
  <2>2. r = Row(r.file, r.line) /\ s = Row(s.file, s.line)
    OBVIOUS
  <2> QED
    BY <2>1, <2>2
<1>3. \A x \in Done(S) : \E row \in S : name[row] = x
  BY DEF Done
<1>4. name \in Bijection(S, Done(S))
  BY <1>1, <1>2, <1>3 DEF Bijection, Injection, Surjection, IsInjective
<1>5. ExistsBijection(S, Done(S))
  BY <1>4 DEF ExistsBijection
<1> QED
  BY <1>5, FS_Bijection

\* A run at its end, on a tree nobody touched, has read that tree.
LEMMA QuietEnd ==
  ASSUME StoryInv, pc = "done", changes = 0
  PROVE  /\ DOMAIN reports = HolyBelow
         /\ \A f \in HolyBelow : reports[f] = disk[f]
         /\ Includes = UNION {{f} \X DOMAIN disk[f] : f \in HolyBelow}
<1>1. DOMAIN reports = listing /\ listing \subseteq Holy
  BY DEF StoryInv, QuietInv, TreeInv, ReadInv, Scanned
<1>2. listing = HolyBelow
  <2>1. always = Visible /\ Scanned /\ listing \subseteq Visible
    BY DEF StoryInv, Scanned
  <2>2. \A p \in listing : p \in Visible /\ p \in Holy /\ Below(Root, p)
    BY <1>1, <2>1 DEF StoryInv, QuietInv, TreeInv, WalkInv
  <2>3. \A p \in Visible : p \in Holy /\ Below(Root, p) => p \in listing
    BY <2>1 DEF StoryInv, ScanInv
  <2> QED
    BY <2>2, <2>3 DEF HolyBelow
<1>3. \A f \in DOMAIN reports : reports[f] = disk[f]
  BY DEF StoryInv
<1>4. Includes = UNION {{f} \X DOMAIN disk[f] : f \in HolyBelow}
  BY <1>1, <1>2, <1>3, Zenon DEF Includes
<1> QED
  BY <1>1, <1>2, <1>3, <1>4

\* A command that resolves has a row for each statement, and the rows that say
\* missing are those of the statements that lead nowhere.
LEMMA QuietRows ==
  ASSUME StoryInv, pc = "done", changes = 0, command \in Resolves
  PROVE  /\ Done(rows) = Includes
         /\ Done(Missing(rows)) = Lost
         /\ Cardinality(Missing(rows)) = Cardinality(Lost)
         /\ \A row \in rows : /\ <<row.file, row.line>> \in Includes
                              /\ row.resolved = None => <<row.file, row.line>> \in Lost
                              /\ row.resolved # None => row.resolved \in Leads(<<row.file, row.line>>)
<1>1. Done(rows) = Includes /\ \A row \in rows : row = Row(row.file, row.line)
  BY DEF StoryInv, QuietInv
<1>2. ASSUME NEW row \in rows
      PROVE  /\ <<row.file, row.line>> \in Includes
             /\ row.resolved = None <=> Leads(<<row.file, row.line>>) = {}
             /\ row.resolved # None => row.resolved \in Leads(<<row.file, row.line>>)
  <2>1. PICK f, i : f = row.file /\ i = row.line
    OBVIOUS
  <2>2. <<f, i>> \in Includes
    BY <1>1, <2>1 DEF Done
  <2>3. f \in DOMAIN reports
    BY <2>2 DEF Includes
  <2>4. reports[f] = disk[f]
    BY <2>3 DEF StoryInv
  <2>5. row.resolved = Row(f, i).resolved
    BY <1>1, <2>1
  <2>6. WorldInv
    BY DEF StoryInv, QuietInv, TreeInv
  <2>7. /\ Row(f, i).resolved = None <=> Leads(<<f, i>>) = {}
        /\ Row(f, i).resolved # None => Row(f, i).resolved \in Leads(<<f, i>>)
    BY <2>4, <2>6, RowLeads
  <2> QED
    BY <2>1, <2>2, <2>5, <2>7
<1>3. Done(Missing(rows)) = Lost
  <2>1. ASSUME NEW x \in Lost PROVE x \in Done(Missing(rows))
    <3>1. x \in Done(rows) /\ Leads(x) = {}
      BY <1>1 DEF Lost
    <3>2. PICK row \in rows : x = <<row.file, row.line>>
      BY <3>1 DEF Done
    <3> QED
      BY <1>2, <3>1, <3>2 DEF Done, Missing
  <2>2. ASSUME NEW x \in Done(Missing(rows)) PROVE x \in Lost
    BY <1>2 DEF Done, Missing, Lost
  <2> QED
    BY <2>1, <2>2
<1>4. IsFiniteSet(Missing(rows))
  BY FS_Subset DEF Missing, StoryInv
<1>5. Cardinality(Missing(rows)) = Cardinality(Lost)
  BY <1>1, <1>3, <1>4, AsManyRows DEF Missing
<1> QED
  BY <1>1, <1>2, <1>3, <1>5 DEF Lost

\* What each command prints at its end is the tree's.
LEMMA StoryTold ==
  ASSUME StoryInv
  PROVE  OneStory
<1> SUFFICES ASSUME pc = "done", changes = 0
             PROVE
    CASE command \in {"scan", "dependency-order"} -> printed.files = Cardinality(HolyBelow)
      [] command = "include-graph" -> printed.edges = Includes
      [] command = "resolve-includes" -> /\ Done(printed.rows) = Includes
                                         /\ printed.missing = Cardinality(Lost)
      [] command = "missing-includes" -> Done(printed.rows) = Lost
      [] command = "reverse-includes" ->
           /\ {<<e.from, e.line>> : e \in printed.edges} = Includes
           /\ \A e \in printed.edges : IF e.status = "missing"
                                       THEN <<e.from, e.line>> \in Lost
                                       ELSE e.target \in Leads(<<e.from, e.line>>)
      [] command = "entrypoints" ->
           /\ printed.paths \subseteq HolyBelow
           /\ \A f \in HolyBelow \ printed.paths : \E x \in Includes : f \in Leads(x)
      [] command = "source-map" -> printed.missing = Cardinality(Lost)
  BY QuietEnd, Zenon DEF OneStory, HolyBelow, Lost, Leads
<1>1. printed = Result
  BY DEF StoryInv
<1>2. command \in {"scan", "include-graph", "resolve-includes", "missing-includes",
                   "reverse-includes", "entrypoints", "dependency-order", "source-map"}
  BY CommandsAssumption DEF StoryInv
<1>3. DOMAIN reports = HolyBelow
  BY QuietEnd
<1>4. CASE command \in {"scan", "dependency-order"}
  <2>1. printed.files = Cardinality(HolyBelow)
    BY <1>1, <1>3, <1>4 DEF Result, FileCount, OrderCount
  <2> QED
    BY <1>4, <2>1
<1>5. CASE command = "include-graph"
  BY <1>1, <1>5 DEF Result, GraphEdges
<1>6. CASE command = "resolve-includes"
  <2>1. printed = ResolvedRows
    BY <1>1, <1>6 DEF Result
  <2>2. Done(printed.rows) = Includes /\ printed.missing = Cardinality(Lost)
    BY <1>6, <2>1, QuietRows DEF ResolvedRows, Resolves
  <2> QED
    BY <1>6, <2>2
<1>7. CASE command = "missing-includes"
  <2>1. printed.rows = Missing(rows)
    BY <1>1, <1>7 DEF Result, MissingRows
  <2>2. Done(printed.rows) = Lost
    BY <1>7, <2>1, QuietRows DEF Resolves
  <2> QED
    BY <1>7, <2>2
<1>8. CASE command = "reverse-includes"
  <2>1. printed.edges = ReverseEdges
    BY <1>1, <1>8 DEF Result
  <2>2. {<<e.from, e.line>> : e \in ReverseEdges} = Done(rows)
    <3> DEFINE edge(row) ==
          [target |-> IF row.resolved = None THEN reports[row.file][row.line].path
                      ELSE row.resolved,
           from |-> row.file, line |-> row.line,
           status |-> IF row.resolved = None THEN "missing" ELSE "resolved"]
    <3>1. ReverseEdges = {edge(row) : row \in rows}
      BY DEF ReverseEdges
    <3>2. \A row \in rows : edge(row).from = row.file /\ edge(row).line = row.line
      OBVIOUS
    <3> HIDE DEF edge
    <3> QED
      BY <3>1, <3>2 DEF Done
  <2>3. ASSUME NEW e \in ReverseEdges
        PROVE  IF e.status = "missing" THEN <<e.from, e.line>> \in Lost
                                       ELSE e.target \in Leads(<<e.from, e.line>>)
    <3>1. PICK row \in rows :
             /\ e.from = row.file /\ e.line = row.line
             /\ e.status = IF row.resolved = None THEN "missing" ELSE "resolved"
             /\ row.resolved # None => e.target = row.resolved
      BY DEF ReverseEdges
    <3> QED
      BY <1>8, <3>1, QuietRows DEF Resolves
  <2>4. Done(rows) = Includes
    BY <1>8, QuietRows DEF Resolves
  <2> QED
    BY <1>8, <2>1, <2>2, <2>3, <2>4
<1>9. CASE command = "entrypoints"
  <2>1. printed.paths = {f \in HolyBelow : \A row \in rows : row.resolved # f}
    BY <1>1, <1>3, <1>9 DEF Result, EntrypointRows, EntrypointFiles
  <2>2. ASSUME NEW f \in HolyBelow, f \notin printed.paths
        PROVE  \E x \in Includes : f \in Leads(x)
    <3>1. PICK row \in rows : row.resolved = f
      BY <2>1, <2>2
    <3>2. f # None
      <4>1. f \in Places
        BY DEF HolyBelow, Visible, StoryInv, QuietInv, TreeInv, WorldInv, IsTree
      <4> QED
        BY <4>1, PathsAssumption DEF SameFile
    <3> QED
      BY <1>9, <3>1, <3>2, QuietRows DEF Resolves
  <2> QED
    BY <1>9, <2>1, <2>2
<1>10. CASE command = "source-map"
  <2>1. printed.missing = Cardinality(rows) - Cardinality(rows \ Missing(rows))
    BY <1>1, <1>10 DEF Result, Counts
  <2>2. IsFiniteSet(rows) /\ rows \cap Missing(rows) = Missing(rows)
    BY DEF StoryInv, Missing
  <2>3. Cardinality(rows \ Missing(rows)) = Cardinality(rows) - Cardinality(Missing(rows))
    BY <2>2, FS_Difference
  <2>4. Cardinality(rows) \in Nat /\ Cardinality(Missing(rows)) \in Nat
    BY <2>2, FS_CardinalityType, FS_Subset DEF Missing
  <2>5. Cardinality(Missing(rows)) = Cardinality(Lost)
    BY <1>10, QuietRows DEF Resolves
  <2>6. printed.missing = Cardinality(Lost)
    BY <2>1, <2>3, <2>4, <2>5
  <2> QED
    BY <1>10, <2>6
<1> QED
  BY <1>2, <1>4, <1>5, <1>6, <1>7, <1>8, <1>9, <1>10

\* All commands tell the same of a tree nobody touches, and it is what is on
\* the disk: the statements, which of them lead nowhere and how many, and the
\* files no statement leads to.
THEOREM CommandsTellOneStory == Spec => []OneStory
<1>1. Init => StoryInv
  <2> SUFFICES ASSUME Init PROVE StoryInv
    OBVIOUS
  <2>1. QuietInv
    BY InitQuiet
  <2>2. IsFiniteSet(rows)
    BY FS_EmptySet DEF Init
  <2>3. ScanInv
    BY DEF Init, ScanInv, Scanned, Ahead, Below
  <2> QED
    BY <2>1, <2>2, <2>3 DEF Init, StoryInv
<1> QED
  BY <1>1, StoryStep, StoryTold, PTL DEF Spec
=============================================================================
