-------------------------- MODULE ArchaeologyProofs -------------------------
(***************************************************************************)
(* What runs of the archaeology pipeline leave behind, for any targets,    *)
(* versions of their trees, runs and failures.                             *)
(***************************************************************************)
EXTENDS Archaeology, SequenceLemmas

\* Taking the first of a sequence leaves the others, and nothing else.
LEMMA RangeOfTail ==
  ASSUME NEW S, NEW s \in Seq(S), s # <<>>
  PROVE  /\ Head(s) \in S /\ Head(s) = s[1] /\ Tail(s) \in Seq(S)
         /\ Range(s) = {Head(s)} \cup Range(Tail(s))
<1>1. /\ Head(s) \in S /\ Tail(s) \in Seq(S) /\ Len(Tail(s)) = Len(s) - 1
      /\ \A n \in 1 .. Len(Tail(s)) : Tail(s)[n] = s[n + 1]
  BY HeadTailProperties
<1>2. Head(s) = s[1] /\ Len(s) \in Nat \ {0}
  BY EmptySeq, LenProperties
<1>3. DOMAIN s = 1 .. Len(s) /\ DOMAIN Tail(s) = 1 .. Len(s) - 1
  BY <1>1, LenProperties
<1>4. Range(s) \subseteq {Head(s)} \cup Range(Tail(s))
  <2> SUFFICES ASSUME NEW n \in 1 .. Len(s), n # 1
               PROVE  s[n] \in Range(Tail(s))
    BY <1>2, <1>3 DEF Range
  <2>1. n - 1 \in 1 .. Len(s) - 1 /\ Tail(s)[n - 1] = s[(n - 1) + 1] /\ (n - 1) + 1 = n
    BY <1>1, <1>2
  <2> QED
    BY <1>3, <2>1 DEF Range
<1>5. {Head(s)} \cup Range(Tail(s)) \subseteq Range(s)
  <2>1. Head(s) \in Range(s)
    BY <1>2, <1>3 DEF Range
  <2>2. ASSUME NEW n \in 1 .. Len(s) - 1 PROVE Tail(s)[n] \in Range(s)
    <3>1. n + 1 \in 1 .. Len(s) /\ Tail(s)[n] = s[n + 1]
      BY <1>1, <1>2, <2>2
    <3> QED
      BY <1>3, <3>1 DEF Range
  <2> QED
    BY <1>3, <2>1, <2>2 DEF Range
<1> QED
  BY <1>1, <1>2, <1>4, <1>5

\* A concatenation has the elements of both.
LEMMA RangeOfConcat ==
  ASSUME NEW S, NEW s \in Seq(S), NEW u \in Seq(S)
  PROVE  s \o u \in Seq(S) /\ Range(s \o u) = Range(s) \cup Range(u)
<1>1. /\ s \o u \in Seq(S) /\ Len(s \o u) = Len(s) + Len(u)
      /\ \A i \in 1 .. Len(s) + Len(u) : (s \o u)[i] = IF i <= Len(s) THEN s[i] ELSE u[i - Len(s)]
  BY ConcatProperties
<1>2. /\ Len(s) \in Nat /\ Len(u) \in Nat
      /\ DOMAIN s = 1 .. Len(s) /\ DOMAIN u = 1 .. Len(u) /\ DOMAIN (s \o u) = 1 .. Len(s) + Len(u)
  BY <1>1, LenProperties
<1>3. Range(s \o u) \subseteq Range(s) \cup Range(u)
  <2> SUFFICES ASSUME NEW i \in 1 .. Len(s) + Len(u)
               PROVE  (s \o u)[i] \in Range(s) \cup Range(u)
    BY <1>2 DEF Range
  <2>1. CASE i <= Len(s)
    BY <1>1, <1>2, <2>1 DEF Range
  <2>2. CASE ~(i <= Len(s))
    <3>1. i - Len(s) \in DOMAIN u
      BY <1>2, <2>2
    <3> QED
      BY <1>1, <2>2, <3>1 DEF Range
  <2> QED
    BY <2>1, <2>2
<1>4. Range(s) \subseteq Range(s \o u)
  <2> SUFFICES ASSUME NEW i \in 1 .. Len(s) PROVE s[i] \in Range(s \o u)
    BY <1>2 DEF Range
  <2>1. i \in 1 .. Len(s) + Len(u) /\ (s \o u)[i] = s[i]
    BY <1>1, <1>2
  <2> QED
    BY <1>2, <2>1 DEF Range
<1>5. Range(u) \subseteq Range(s \o u)
  <2> SUFFICES ASSUME NEW i \in 1 .. Len(u) PROVE u[i] \in Range(s \o u)
    BY <1>2 DEF Range
  <2>1. /\ Len(s) + i \in 1 .. Len(s) + Len(u) /\ ~(Len(s) + i <= Len(s))
        /\ (Len(s) + i) - Len(s) = i
    BY <1>2
  <2>2. (s \o u)[Len(s) + i] = u[i]
    BY <1>1, <2>1
  <2> QED
    BY <1>2, <2>1, <2>2 DEF Range
<1> QED
  BY <1>1, <1>3, <1>4, <1>5

-----------------------------------------------------------------------------
\* The names of the reports.
Names ==
  {"source-map", "base-reports", "include-resolve", "REVERSE", "BOOT-CHAIN", "SPINE",
   "KERNEL-CONTRACT", "COMPILER-CONTRACT", "ADAM-MANIFEST", "DESKTOP-SURFACE",
   "ADAM-SUBSYSTEMS", "LOSETHOS-CONTRACT", "ARCHAEOLOGY-FINDINGS",
   "COMPARE", "BOOT-COMPARE", "KERNEL-ADAMK-COMPARE", "COMPILER-CMP-COMPARE",
   "COMPILER-PIPELINE", "ADAM-SURFACE", "ADAM-LAYER-COMPARE", "RESEARCH-STATE"}

\* Of the reports s names, all in S, the last one to come is last.
Ends(s, S, last) == \A n \in DOMAIN s : s[n] \in S /\ (s[n] = last => n = Len(s))

\* What is left of such a sequence is such a sequence.
LEMMA EndsTail ==
  ASSUME NEW S, NEW last, NEW s \in Seq(Names), s # <<>>, Ends(s, S, last)
  PROVE  Ends(Tail(s), S, last) /\ Head(s) \in S /\ (Head(s) = last => Tail(s) = <<>>)
<1>1. /\ Head(s) = s[1] /\ Tail(s) \in Seq(Names) /\ Len(Tail(s)) = Len(s) - 1
      /\ \A n \in 1 .. Len(Tail(s)) : Tail(s)[n] = s[n + 1]
      /\ Len(s) \in Nat \ {0} /\ DOMAIN s = 1 .. Len(s) /\ DOMAIN Tail(s) = 1 .. Len(s) - 1
  BY HeadTailProperties, EmptySeq, LenProperties, RangeOfTail
<1>2. Ends(Tail(s), S, last)
  <2> SUFFICES ASSUME NEW n \in 1 .. Len(s) - 1
               PROVE  Tail(s)[n] \in S /\ (Tail(s)[n] = last => n = Len(s) - 1)
    BY <1>1 DEF Ends
  <2>1. n + 1 \in DOMAIN s /\ Tail(s)[n] = s[n + 1]
    BY <1>1
  <2>2. s[n + 1] \in S /\ (s[n + 1] = last => n + 1 = Len(s))
    BY <2>1 DEF Ends
  <2>3. n + 1 = Len(s) => n = Len(s) - 1
    BY Len(s) \in Nat, n \in 1 .. Len(s) - 1
  <2> QED
    BY <2>1, <2>2, <2>3
<1>3. 1 \in DOMAIN s
  BY <1>1
<1>4. Head(s) = last => Len(Tail(s)) = 0
  BY <1>1, <1>3 DEF Ends
<1>5. Len(Tail(s)) = 0 => Tail(s) = <<>>
  BY <1>1, EmptySeq
<1> QED
  BY <1>1, <1>2, <1>3, <1>4, <1>5 DEF Ends

\* What the sequences of reports consist of.
LEMMA BaseIs ==
  /\ Base \in Seq(Names) /\ Base # <<>>
  /\ Range(Base) = {"source-map", "base-reports", "include-resolve", "REVERSE"}
  /\ Ends(Base, Range(Base), "REVERSE")
<1>0. Base \in Seq(Names)
  BY DEF Base, Names
<1>1. /\ DOMAIN Base = 1 .. 4
      /\ Base[1] = "source-map" /\ Base[2] = "base-reports"
      /\ Base[3] = "include-resolve" /\ Base[4] = "REVERSE"
  BY DEF Base
<1>2. 1 .. 4 = {1, 2, 3, 4}
  OBVIOUS
<1>3. Range(Base) = {Base[1], Base[2], Base[3], Base[4]}
  BY <1>1, <1>2 DEF Range
<1>4. Len(Base) = 4
  BY DEF Base
<1>5. Ends(Base, Range(Base), "REVERSE")
  BY <1>1, <1>2, <1>3, <1>4 DEF Ends
<1> QED
  BY <1>0, <1>1, <1>3, <1>5, EmptySeq

LEMMA FindingsIs ==
  /\ Findings \in Seq(Names)
  /\ Len(Findings) = 1 /\ Findings[1] = "ARCHAEOLOGY-FINDINGS"
<1>1. Findings \in Seq(Names)
  BY DEF Findings, Names
<1>2. Len(Findings) = 1 /\ Findings[1] = "ARCHAEOLOGY-FINDINGS"
  BY DEF Findings
<1> QED
  BY <1>1, <1>2

LEMMA ChainIs ==
  /\ Chain \in Seq(Names)
  /\ Chain[1] = "BOOT-CHAIN" /\ Chain[2] = "SPINE" /\ Len(Chain) = 2
<1>1. Chain \in Seq(Names)
  BY DEF Chain, Names
<1>2. Chain[1] = "BOOT-CHAIN" /\ Chain[2] = "SPINE" /\ Len(Chain) = 2
  BY DEF Chain
<1> QED
  BY <1>1, <1>2

LEMMA CrossIs == Cross \in Seq(Names)
  BY DEF Cross, Names

LEMMA SpecificIs ==
  ASSUME NEW t
  PROVE  /\ Specific(t) \in Seq(Names)
         /\ \A n \in DOMAIN Specific(t) :
              Specific(t)[n] \notin Range(Base) \cup {"ARCHAEOLOGY-FINDINGS"}
<1>1. CASE t = "templeos"
  <2>1. Specific(t) = <<"KERNEL-CONTRACT", "COMPILER-CONTRACT", "ADAM-MANIFEST",
                        "DESKTOP-SURFACE", "ADAM-SUBSYSTEMS">>
    BY <1>1, Zenon DEF Specific
  <2>2. Specific(t) \in Seq(Names)
    BY <2>1 DEF Names
  <2>3. /\ DOMAIN Specific(t) = 1 .. 5
        /\ Specific(t)[1] = "KERNEL-CONTRACT" /\ Specific(t)[2] = "COMPILER-CONTRACT"
        /\ Specific(t)[3] = "ADAM-MANIFEST" /\ Specific(t)[4] = "DESKTOP-SURFACE"
        /\ Specific(t)[5] = "ADAM-SUBSYSTEMS"
    BY <2>1
  <2>4. 1 .. 5 = {1, 2, 3, 4, 5}
    OBVIOUS
  <2> QED
    BY <2>2, <2>3, <2>4, BaseIs
<1>2. CASE t = "losethos"
  <2>1. Specific(t) = <<"LOSETHOS-CONTRACT">>
    BY <1>2, Zenon DEF Specific
  <2>2. Specific(t) \in Seq(Names)
    BY <2>1 DEF Names
  <2>3. DOMAIN Specific(t) = 1 .. 1 /\ Specific(t)[1] = "LOSETHOS-CONTRACT"
    BY <2>1
  <2>4. 1 .. 1 = {1}
    OBVIOUS
  <2> QED
    BY <2>2, <2>3, <2>4, BaseIs
<1>3. CASE t # "templeos" /\ t # "losethos"
  <2>1. Specific(t) = <<>>
    BY <1>3, Zenon DEF Specific
  <2>2. Specific(t) \in Seq(Names) /\ DOMAIN Specific(t) = {}
    BY <2>1
  <2> QED
    BY <2>2
<1> QED
  BY <1>1, <1>2, <1>3

\* Nothing but its tree, its source map and its include report makes a report.
LEMMA MadeFromIs ==
  ASSUME NEW r
  PROVE  /\ MadeFrom(r) \subseteq {"tree", "source-map", "include-resolve"}
         /\ MadeFrom(r) # {}
         /\ r \in {"source-map", "base-reports", "include-resolve"} => MadeFrom(r) = {"tree"}
  BY Zenon DEF MadeFrom

\* The reports after the first four.
Late(t) == Chain \o Specific(t) \o Findings

Others == Names \ Range(Base)

LEMMA LateIs ==
  ASSUME NEW t
  PROVE  /\ Late(t) \in Seq(Names) /\ Ends(Late(t), Others, "ARCHAEOLOGY-FINDINGS")
         /\ Ends(Findings, Others, "ARCHAEOLOGY-FINDINGS")
         /\ Range(Pipeline(t)) = Range(Base) \cup Range(Late(t))
         /\ Range(Base \o Findings) = Range(Base) \cup Range(Findings)
         /\ Range(Base \o Findings) \subseteq Range(Pipeline(t))
<1>1. /\ Base \in Seq(Names) /\ Chain \in Seq(Names) /\ Specific(t) \in Seq(Names)
      /\ Findings \in Seq(Names)
  BY BaseIs, ChainIs, SpecificIs, FindingsIs
<1> DEFINE a == Base \o Chain
           b == a \o Specific(t)
           c == Chain \o Specific(t)
<1>2. c \in Seq(Names) /\ Range(c) = Range(Chain) \cup Range(Specific(t))
  BY <1>1, RangeOfConcat
<1>3. a \in Seq(Names) /\ Range(a) = Range(Base) \cup Range(Chain)
  BY <1>1, RangeOfConcat
<1>4. Pipeline(t) = b \o Findings /\ Late(t) = c \o Findings
  BY DEF Pipeline, Late
<1> HIDE DEF a, c
<1>14. b \in Seq(Names) /\ Range(b) = Range(a) \cup Range(Specific(t))
  BY <1>1, <1>3, RangeOfConcat
<1> HIDE DEF b
<1>15. Range(Pipeline(t)) = Range(b) \cup Range(Findings)
  BY <1>1, <1>4, <1>14, RangeOfConcat
<1>5. Late(t) \in Seq(Names) /\ Range(Late(t)) = Range(c) \cup Range(Findings)
  BY <1>1, <1>2, <1>4, RangeOfConcat
<1>6. Range(Base \o Findings) = Range(Base) \cup Range(Findings)
  BY <1>1, RangeOfConcat
<1>7. \A n \in 1 .. 2 : n = 1 \/ n = 2
  OBVIOUS
<1>8. ASSUME NEW s \in Seq(Names), NEW n \in DOMAIN s PROVE s[n] \in Names
  BY <1>8, ElementOfSeq, LenProperties
<1>9. \A r \in Range(c) : r \in Others /\ r # "ARCHAEOLOGY-FINDINGS"
  <2>1. \A r \in Range(Chain) : r = "BOOT-CHAIN" \/ r = "SPINE"
    BY <1>1, <1>7, ChainIs, LenProperties DEF Range
  <2>2. \A r \in Range(Chain) : r \in Others /\ r # "ARCHAEOLOGY-FINDINGS"
    BY <2>1, BaseIs DEF Others, Names
  <2>3. \A r \in Range(Specific(t)) : r \in Others /\ r # "ARCHAEOLOGY-FINDINGS"
    BY <1>1, <1>8, SpecificIs DEF Range, Others
  <2> QED
    BY <1>2, <2>2, <2>3
<1>10. Ends(Findings, Others, "ARCHAEOLOGY-FINDINGS")
  <2>1. "ARCHAEOLOGY-FINDINGS" \in Others
    BY BaseIs DEF Others, Names
  <2>2. \A n \in DOMAIN Findings : n = 1
    BY <1>1, FindingsIs, LenProperties
  <2> QED
    BY <2>1, <2>2, FindingsIs DEF Ends
<1>11. Ends(Late(t), Others, "ARCHAEOLOGY-FINDINGS")
  <2>7. Len(c) \in Nat /\ DOMAIN c = 1 .. Len(c)
    BY <1>2, LenProperties
  <2>8. /\ Len(c \o Findings) = Len(c) + Len(Findings)
        /\ \A n \in 1 .. Len(c) + Len(Findings) :
             (c \o Findings)[n] = IF n <= Len(c) THEN c[n] ELSE Findings[n - Len(c)]
    BY <1>1, <1>2, ConcatProperties
  <2>1. /\ Len(c \o Findings) = Len(c) + 1 /\ Len(c) \in Nat /\ DOMAIN c = 1 .. Len(c)
        /\ \A n \in 1 .. Len(c) + 1 :
             (c \o Findings)[n] = IF n <= Len(c) THEN c[n] ELSE Findings[n - Len(c)]
    BY <2>7, <2>8, FindingsIs
  <2>6. /\ Len(Late(t)) = Len(c) + 1 /\ DOMAIN Late(t) = 1 .. Len(c) + 1
        /\ \A n \in 1 .. Len(c) + 1 :
             Late(t)[n] = IF n <= Len(c) THEN c[n] ELSE Findings[n - Len(c)]
    BY <1>4, <1>5, <2>1, LenProperties
  <2>2. \A n \in DOMAIN c : c[n] \in Others /\ c[n] # "ARCHAEOLOGY-FINDINGS"
    BY <1>9 DEF Range
  <2>3. "ARCHAEOLOGY-FINDINGS" \in Others
    BY BaseIs DEF Others, Names
  <2> SUFFICES ASSUME NEW n \in 1 .. Len(c) + 1
               PROVE  /\ Late(t)[n] \in Others
                      /\ Late(t)[n] = "ARCHAEOLOGY-FINDINGS" => n = Len(c) + 1
    BY <2>1, <2>6 DEF Ends
  <2>4. CASE n <= Len(c)
    <3>1. n \in DOMAIN c /\ Late(t)[n] = c[n]
      BY <2>1, <2>6, <2>4
    <3> QED
      BY <2>2, <3>1
  <2>5. CASE ~(n <= Len(c))
    <3>1. n = Len(c) + 1 /\ n - Len(c) = 1
      BY <2>1, <2>6, <2>5
    <3>2. Late(t)[n] = Findings[1]
      BY <2>1, <2>6, <2>5, <3>1
    <3> QED
      BY <2>3, <3>1, <3>2, FindingsIs
  <2> QED
    BY <2>4, <2>5
<1> QED
  BY <1>2, <1>3, <1>5, <1>6, <1>10, <1>11, <1>14, <1>15

-----------------------------------------------------------------------------
\* Every variable that is a function keeps its domain, and a run works on the
\* first of the targets still to do.
Shapes ==
  /\ tree \in [Targets -> Versions]
  /\ DOMAIN out = Targets
  /\ \A t \in Targets : DOMAIN out[t] = Range(Pipeline(t))
  /\ DOMAIN notes = Targets
  /\ DOMAIN cross = Range(Cross)
  /\ queue \in Seq(Targets)
  /\ todo \in Seq(Names)
  /\ named \subseteq Targets
  /\ pc \in {"scripts", "count", "notes", "template"} => queue # <<>>

LEMMA InitShapes == Init => Shapes
<1> SUFFICES ASSUME Init PROVE Shapes
  OBVIOUS
<1>1. 1 \in Versions
  BY ArchaeologyAssumption, EmptySeq DEF Versions
<1> QED
  BY <1>1, EmptySeq DEF Init, Shapes

\* The targets of a run are a sequence of targets.
LEMMA BeginShapes ==
  ASSUME Shapes, NEW newMode, NEW first, NEW targets \in Seq(Targets),
         Begin(newMode, targets, first),
         first \in {"target", "cross"}
  PROVE  Shapes'
<1>1. Range(targets) \subseteq Targets
  BY ElementOfSeq, LenProperties DEF Range
<1>2. targets \in Seq(Targets) /\ <<>> \in Seq(Names)
  BY EmptySeq
<1> QED
  BY <1>1, <1>2 DEF Begin, Shapes, reports, noted

LEMMA SomeTargets ==
  ASSUME NEW targets \in SeqOf(Targets, 3)
  PROVE  targets \in Seq(Targets)
<1>1. PICK n \in 0 .. 3 : targets \in [1 .. n -> Targets]
  BY DEF SeqOf
<1> QED
  BY <1>1, SeqDef

LEMMA NextShapes == Shapes /\ [Next]_vars => Shapes'
<1> SUFFICES ASSUME Shapes, [Next]_vars PROVE Shapes'
  OBVIOUS
<1>1. CASE StartTrees
  BY <1>1, BeginShapes, SomeTargets DEF StartTrees
<1>2. CASE StartReportsOnly
  <2>1. <<>> \in Seq(Targets)
    BY EmptySeq
  <2> QED
    BY <1>2, <2>1, BeginShapes DEF StartReportsOnly
<1>3. CASE NextTarget
  BY <1>3, BaseIs, EmptySeq DEF NextTarget, Keep, Shapes, reports, noted, world
<1>4. CASE Script
  <2>1. Tail(todo) \in Seq(Names)
    BY <1>4, RangeOfTail DEF Script, Shapes
  <2> QED
    BY <1>4, <2>1 DEF Script, Keep, Shapes, world, noted
<1>5. CASE CountFiles
  <2>1. todo' = Late(Head(queue)) \/ todo' = Findings
    BY <1>5 DEF CountFiles, Late
  <2>2. todo' \in Seq(Names)
    BY <2>1, LateIs, FindingsIs
  <2> QED
    BY <1>5, <2>2 DEF CountFiles, Keep, Shapes, reports, noted, world
<1>6. CASE LookForNotes \/ WriteTemplate
  <2>1. Tail(queue) \in Seq(Targets)
    BY <1>6, RangeOfTail DEF LookForNotes, WriteTemplate, Shapes
  <2> QED
    BY <1>6, <2>1 DEF LookForNotes, WriteTemplate, Keep, Shapes, reports, noted, world
<1>7. CASE StartCross
  BY <1>7, CrossIs, EmptySeq DEF StartCross, Keep, Shapes, reports, noted, world
<1>8. CASE Compare
  <2>1. Tail(todo) \in Seq(Names)
    BY <1>8, RangeOfTail DEF Compare, Shapes
  <2> QED
    BY <1>8, <2>1 DEF Compare, Keep, After, Shapes, world, noted
<1>9. CASE Summarize
  BY <1>9 DEF Summarize, Keep, After, Shapes, world, noted
<1>10. CASE Fails
  BY <1>10 DEF Fails, Keep, Shapes, world, noted
<1>11. ASSUME NEW t \in Targets, ChangeTree(t) PROVE Shapes'
  <2>1. tree[t] + 1 \in Versions
    <3>1. HasHoly \in Seq(BOOLEAN)
      BY ArchaeologyAssumption
    <3>2. Versions = 1 .. Len(HasHoly) /\ Len(HasHoly) \in Nat
      BY <3>1, LenProperties DEF Versions
    <3>3. tree[t] \in 1 .. Len(HasHoly) /\ tree[t] < Len(HasHoly)
      BY <1>11, <3>2 DEF Shapes, ChangeTree
    <3> QED
      BY <3>2, <3>3
  <2> QED
    BY <1>11, <2>1 DEF ChangeTree, Shapes, reports, noted
<1>12. ASSUME NEW t \in Targets, EditNotes(t) PROVE Shapes'
  BY <1>12 DEF EditNotes, Shapes, reports, noted, world
<1>13. CASE UNCHANGED vars
  BY <1>13 DEF vars, Shapes, reports, noted, world
<1> QED
  BY <1>1, <1>2, <1>3, <1>4, <1>5, <1>6, <1>7, <1>8, <1>9, <1>10, <1>11, <1>12, <1>13
  DEF Next, Step

-----------------------------------------------------------------------------
(* The reports across targets. *)

Agrees(r) ==
  \A i \in Inputs(r) : cross[r][i] = out[i[1]][i[2]]

\* The comparisons that have been made agree with the reports as they are.
Compared ==
  /\ pc = "compare" => /\ CrossTargets \subseteq Targets
                       /\ \A r \in Range(Cross) : r \in Range(todo) \/ Agrees(r)
  /\ pc \in {"summary", "ok"} /\ CrossTargets \subseteq Targets
       /\ (\A t \in Targets : Exists(t, "source-map"))
       => \A r \in Range(Cross) : Agrees(r)

LEMMA NextCompared == Shapes /\ Compared /\ [Next]_vars => Compared'
<1> SUFFICES ASSUME Shapes, Compared, [Next]_vars PROVE Compared'
  OBVIOUS
<1>1. CASE StartTrees \/ StartReportsOnly
  BY <1>1 DEF StartTrees, StartReportsOnly, Begin, Compared
<1>2. CASE NextTarget
  BY <1>2 DEF NextTarget, Compared
<1>3. CASE Script
  BY <1>3 DEF Script, Compared
<1>4. CASE CountFiles
  BY <1>4 DEF CountFiles, Compared
<1>5. CASE LookForNotes \/ WriteTemplate
  BY <1>5 DEF LookForNotes, WriteTemplate, Compared
<1>6. CASE StartCross
  <2> DEFINE both == /\ CrossTargets \subseteq Targets
                     /\ \A t \in CrossTargets \cap Targets : Exists(t, "source-map")
  <2>1. CASE both
    BY <1>6, <2>1 DEF StartCross, Compared
  <2>2. CASE ~both
    <3>1. pc' = "summary" /\ out' = out
      BY <1>6, <2>2 DEF StartCross, reports
    <3>2. ~ (/\ CrossTargets \subseteq Targets
             /\ \A t \in Targets : Exists(t, "source-map")')
      BY <2>2, <3>1 DEF Exists
    <3> QED
      BY <3>1, <3>2 DEF Compared
  <2> QED
    BY <2>1, <2>2
<1>7. CASE Compare
  <2>1. /\ pc = "compare" /\ out' = out /\ todo' = Tail(todo) /\ DOMAIN cross = Range(Cross)
        /\ todo \in Seq(Names) /\ todo # <<>> /\ CrossTargets \subseteq Targets
    BY <1>7 DEF Compare, Shapes, Compared
  <2>2. Range(todo) = {Head(todo)} \cup Range(todo')
    BY <2>1, RangeOfTail
  <2>3. ASSUME NEW r \in Range(Cross), r \notin Range(todo') PROVE Agrees(r)'
    <3>1. CASE r = Head(todo)
      BY <1>7, <2>1, <3>1 DEF Compare, Agrees
    <3>2. CASE r # Head(todo)
      <4>1. Agrees(r) /\ cross'[r] = cross[r]
        BY <1>7, <2>1, <2>2, <2>3, <3>2 DEF Compare, Compared
      <4> QED
        BY <2>1, <4>1 DEF Agrees
    <3> QED
      BY <3>1, <3>2
  <2>4. pc' = "compare" \/ pc' = "exited" \/ (pc' = "summary" /\ Tail(todo) = <<>>)
    BY <1>7 DEF Compare, After
  <2>5. Tail(todo) = <<>> => Range(todo') = {}
    BY <2>1 DEF Range
  <2> QED
    BY <2>1, <2>3, <2>4, <2>5 DEF Compared
<1>8. CASE Summarize
  BY <1>8 DEF Summarize, After, Compared, Agrees, Exists
<1>9. CASE Fails
  BY <1>9 DEF Fails, Compared
<1>10. ASSUME NEW t \in Targets, ChangeTree(t) \/ EditNotes(t) PROVE Compared'
  BY <1>10 DEF ChangeTree, EditNotes, Compared, Agrees, Exists, reports
<1>11. CASE UNCHANGED vars
  BY <1>11 DEF vars, Compared, Agrees, Exists, reports
<1> QED
  BY <1>1, <1>2, <1>3, <1>4, <1>5, <1>6, <1>7, <1>8, <1>9, <1>10, <1>11 DEF Next, Step

\* RollupsAgree for any targets, runs and failures: after a run that says ok
\* every report across targets was made from the present reports of the targets.
THEOREM ComparisonsAgree == Spec => []RollupsAgree
<1>1. Init => Shapes /\ Compared
  <2>1. Init => Compared
    BY DEF Init, Compared
  <2> QED
    BY <2>1, InitShapes
<1>2. Shapes /\ Compared => RollupsAgree
  BY DEF Compared, Agrees, RollupsAgree
<1> QED
  BY <1>1, <1>2, NextShapes, NextCompared, PTL DEF Spec

\* A run about to write the template has found no notes, and whoever wrote some
\* since then is noted.
NotesInv == pc = "template" => \/ notes[Head(queue)] # "edited"
                               \/ Head(queue) \in late

LEMMA NextNotes == Shapes /\ NotesInv /\ [Next]_vars => NotesInv'
<1> SUFFICES ASSUME Shapes, NotesInv, [Next]_vars, pc' = "template" PROVE NotesInv'
  BY DEF NotesInv
<1>1. CASE LookForNotes
  <2>1. notes[Head(queue)] = "none" /\ queue' = queue /\ notes' = notes
    BY <1>1 DEF LookForNotes, noted
  <2> QED
    BY <2>1 DEF NotesInv
<1>2. ASSUME NEW t \in Targets, EditNotes(t) PROVE NotesInv'
  <2>1. /\ pc = "template" /\ queue' = queue /\ notes' = [notes EXCEPT ![t] = "edited"]
        /\ late' = IF t = Head(queue) THEN late \cup {t} ELSE late
    BY <1>2 DEF EditNotes
  <2>2. DOMAIN notes = Targets
    BY DEF Shapes
  <2> QED
    BY <2>1, <2>2 DEF NotesInv
<1>3. ASSUME NEW t \in Targets, ChangeTree(t) PROVE NotesInv'
  BY <1>3 DEF ChangeTree, NotesInv, noted
<1>4. CASE UNCHANGED vars
  BY <1>4 DEF vars, NotesInv, noted
<1>5. ~StartTrees /\ ~StartReportsOnly /\ ~Fails
  BY DEF StartTrees, StartReportsOnly, Begin, Fails
<1>6. ~NextTarget /\ ~Script /\ ~CountFiles /\ ~WriteTemplate
  BY DEF NextTarget, Script, CountFiles, WriteTemplate
<1>7. ~StartCross /\ ~Compare /\ ~Summarize
  BY DEF StartCross, Compare, Summarize, After
<1> QED
  BY <1>1, <1>2, <1>3, <1>4, <1>5, <1>6, <1>7 DEF Next, Step

\* NotesKept for any targets, runs and failures: only notes written between the
\* look for them and the write of the template are lost.
THEOREM NotesAreKept == Spec => NotesKept
<1>1. ASSUME Shapes, NotesInv, [Next]_vars, NEW t \in Targets,
             notes[t] = "edited", notes'[t] # "edited"
      PROVE  t \in late
  <2>1. CASE WriteTemplate \/ Fails
    <3>1. pc = "template" /\ notes' = [notes EXCEPT ![Head(queue)] = "template"]
      BY <1>1, <2>1 DEF WriteTemplate, Fails
    <3>2. t = Head(queue)
      BY <1>1, <3>1 DEF Shapes
    <3> QED
      BY <1>1, <3>1, <3>2 DEF NotesInv
  <2>2. ASSUME NEW u \in Targets, EditNotes(u) PROVE notes'[t] = "edited"
    BY <1>1, <2>2 DEF EditNotes, Shapes
  <2>3. CASE notes' = notes
    BY <1>1, <2>3
  <2> QED
    BY <1>1, <2>1, <2>2, <2>3
    DEF Next, Step, StartTrees, StartReportsOnly, Begin, NextTarget, Script, CountFiles,
        LookForNotes, StartCross, Compare, Summarize, ChangeTree, vars, noted
<1>2. Shapes /\ NotesInv /\ [Next]_vars
        => [\A t \in Targets : (notes[t] = "edited" /\ notes'[t] # "edited") => t \in late]_vars
  BY <1>1
<1>3. Init => NotesInv
  BY DEF Init, NotesInv
<1> QED
  BY <1>2, <1>3, InitShapes, NextShapes, NextNotes, PTL DEF Spec, NotesKept

-----------------------------------------------------------------------------
(* The reports of the targets. *)

Fresh(t, r) == out[t][r] = {tree[t]}
Done(t) == \A r \in Written(t) : Fresh(t, r)

\* The first four reports of t are being written, REVERSE the last of them.
InBase(t) ==
  /\ Ends(todo, Range(Base), "REVERSE")
  /\ \A r \in Range(Base) : r \in Range(todo) \/ Fresh(t, r)

\* The first four are, and the others of t are being written.
InLate(t) ==
  /\ \A r \in Range(Base) : Fresh(t, r)
  /\ Ends(todo, Others, "ARCHAEOLOGY-FINDINGS")
  /\ \A r \in Written(t) : r \in Range(todo) \/ Fresh(t, r)

\* While the trees stay as they are, the reports this run has got to are fresh.
FreshInv ==
  (steady /\ pc \notin {"failed", "exited"}) =>
    /\ \A t \in named : t \in Range(queue) \/ Done(t)
    /\ pc = "scripts" => InBase(Head(queue)) \/ InLate(Head(queue))
    /\ pc = "count" => \A r \in Range(Base) : Fresh(Head(queue), r)
    /\ pc \in {"notes", "template"} => Done(Head(queue))
    /\ pc \in {"cross", "compare", "summary", "ok"} => queue = <<>>
    /\ pc = "ok" => \A t \in named : summary[t] = <<{tree[t]}, {tree[t]}>>

\* A report made from fresh reports is fresh.
LEMMA ContentIsFresh ==
  ASSUME NEW t, NEW r,
         \/ MadeFrom(r) = {"tree"}
         \/ Fresh(t, "source-map") /\ Fresh(t, "include-resolve")
  PROVE  Content(t, r) = {tree[t]}
<1>1. \A s \in MadeFrom(r) : (IF s = "tree" THEN {tree[t]} ELSE out[t][s]) = {tree[t]}
  BY MadeFromIs DEF Fresh
<1>2. MadeFrom(r) # {}
  BY MadeFromIs
<1>3. {IF s = "tree" THEN {tree[t]} ELSE out[t][s] : s \in MadeFrom(r)} = {{tree[t]}}
  BY <1>1, <1>2
<1> QED
  BY <1>3 DEF Content

\* The first four reports are among those written of any tree.
LEMMA WrittenIs ==
  ASSUME NEW t
  PROVE  /\ Range(Base) \subseteq Written(t)
         /\ Written(t) \subseteq Range(Pipeline(t))
         /\ HasHoly[tree[t]] => Written(t) = Range(Base) \cup Range(Late(t))
         /\ ~HasHoly[tree[t]] => Written(t) = Range(Base) \cup Range(Findings)
  BY LateIs DEF Written

\* A script writes the next report of the first target, and no other.
LEMMA ScriptWrites ==
  ASSUME Shapes, Script
  PROVE  /\ pc = "scripts" /\ todo # <<>> /\ todo \in Seq(Names) /\ todo' = Tail(todo)
         /\ Head(queue) \in Targets /\ Head(queue) \in Range(queue)
         /\ queue' = queue /\ tree' = tree /\ named' = named /\ steady' = steady
         /\ Range(todo) = {Head(todo)} \cup Range(todo')
         /\ \A t \in Targets : t # Head(queue) => out'[t] = out[t]
         /\ \A r \in Range(Pipeline(Head(queue))) :
              out'[Head(queue)][r] = IF r = Head(todo) THEN Content(Head(queue), r)
                                                       ELSE out[Head(queue)][r]
<1>1. queue # <<>> /\ queue \in Seq(Targets) /\ todo # <<>> /\ todo \in Seq(Names)
  BY DEF Script, Shapes
<1>2. Head(queue) \in Targets /\ Head(queue) \in Range(queue)
  BY <1>1, RangeOfTail
<1>3. Range(todo) = {Head(todo)} \cup Range(Tail(todo))
  BY <1>1, RangeOfTail
<1>4. DOMAIN out = Targets /\ DOMAIN out[Head(queue)] = Range(Pipeline(Head(queue)))
  BY <1>2 DEF Shapes
<1>5. out' = [out EXCEPT ![Head(queue)][Head(todo)] = Content(Head(queue), Head(todo))]
  BY DEF Script
<1> QED
  BY <1>1, <1>2, <1>3, <1>4, <1>5 DEF Script, Keep, world

\* A script keeps FreshInv: what it has read is fresh, and of the reports of
\* each kind the last one comes after all the others.
LEMMA ScriptFresh ==
  ASSUME Shapes, FreshInv, Script
  PROVE  FreshInv'
<1> SUFFICES ASSUME steady PROVE FreshInv'
  BY ScriptWrites DEF FreshInv
<1> DEFINE t == Head(queue)
           r0 == Head(todo)
<1>1. /\ pc = "scripts" /\ todo # <<>> /\ todo \in Seq(Names) /\ todo' = Tail(todo)
      /\ t \in Targets /\ t \in Range(queue) /\ queue' = queue /\ tree' = tree /\ named' = named
      /\ Range(todo) = {r0} \cup Range(todo')
      /\ \A u \in Targets : u # t => out'[u] = out[u]
      /\ \A r \in Range(Pipeline(t)) : out'[t][r] = IF r = r0 THEN Content(t, r) ELSE out[t][r]
  BY ScriptWrites
<1>2. pc' = IF r0 = "REVERSE" THEN "count"
            ELSE IF r0 = "ARCHAEOLOGY-FINDINGS" THEN "notes" ELSE "scripts"
  BY DEF Script
<1>3. \A u \in Targets : Written(u)' = Written(u)
  BY <1>1 DEF Written
<1>4. /\ Range(Base) \subseteq Written(t) /\ Written(t) \subseteq Range(Pipeline(t))
  BY WrittenIs
<1>5. \A u \in named' : u \in Range(queue') \/ Done(u)'
  <2> SUFFICES ASSUME NEW u \in named, u \notin Range(queue) PROVE Done(u)'
    BY <1>1
  <2>1. u \in Targets /\ u # t /\ Done(u)
    BY <1>1 DEF FreshInv, Shapes
  <2> QED
    BY <1>1, <1>3, <2>1 DEF Done, Fresh
<1>6. Tail(todo) = <<>> => Range(todo') = {}
  BY <1>1 DEF Range
<1>7. CASE InBase(t)
  <2>1. /\ Ends(Tail(todo), Range(Base), "REVERSE") /\ r0 \in Range(Base)
        /\ r0 = "REVERSE" => Tail(todo) = <<>>
    BY <1>1, <1>7, EndsTail DEF InBase
  <2>2. Content(t, r0) = {tree[t]}
    <3>1. CASE r0 = "REVERSE"
      <4>1. \A r \in Range(Base) : r # "REVERSE" => Fresh(t, r)
        BY <1>1, <1>6, <1>7, <2>1, <3>1 DEF InBase
      <4> QED
        BY <4>1, BaseIs, ContentIsFresh
    <3>2. CASE r0 # "REVERSE"
      <4>1. MadeFrom(r0) = {"tree"}
        BY <2>1, <3>2, BaseIs, MadeFromIs
      <4> QED
        BY <4>1, ContentIsFresh
    <3> QED
      BY <3>1, <3>2
  <2>3. \A r \in Range(Base) : r \in Range(todo') \/ Fresh(t, r)'
    BY <1>1, <1>4, <1>7, <2>2 DEF InBase, Fresh
  <2>4. InBase(t)'
    BY <1>1, <2>1, <2>3 DEF InBase
  <2>5. r0 = "REVERSE" => \A r \in Range(Base) : Fresh(t, r)'
    BY <1>6, <2>1, <2>3
  <2>6. pc' = "scripts" \/ (pc' = "count" /\ r0 = "REVERSE")
    BY <1>2, <2>1, BaseIs
  <2> QED
    BY <1>1, <1>5, <2>4, <2>5, <2>6 DEF FreshInv
<1>8. CASE InLate(t)
  <2>1. /\ Ends(Tail(todo), Others, "ARCHAEOLOGY-FINDINGS") /\ r0 \in Others
        /\ r0 = "ARCHAEOLOGY-FINDINGS" => Tail(todo) = <<>>
    BY <1>1, <1>8, EndsTail DEF InLate
  <2>2. Content(t, r0) = {tree[t]}
    BY <1>8, BaseIs, ContentIsFresh DEF InLate
  <2>3. \A r \in Range(Base) : Fresh(t, r)'
    BY <1>1, <1>4, <1>8, <2>1 DEF InLate, Fresh, Others
  <2>4. \A r \in Written(t) : r \in Range(todo') \/ Fresh(t, r)'
    BY <1>1, <1>4, <1>8, <2>2 DEF InLate, Fresh
  <2>5. InLate(t)'
    BY <1>1, <1>3, <2>1, <2>3, <2>4 DEF InLate
  <2>6. r0 = "ARCHAEOLOGY-FINDINGS" => Done(t)'
    BY <1>1, <1>3, <1>6, <2>1, <2>4 DEF Done
  <2>7. pc' = "scripts" \/ (pc' = "notes" /\ r0 = "ARCHAEOLOGY-FINDINGS")
    BY <1>2, <2>1, BaseIs DEF Others
  <2> QED
    BY <1>1, <1>5, <2>5, <2>6, <2>7 DEF FreshInv
<1> QED
  BY <1>1, <1>7, <1>8 DEF FreshInv

LEMMA NextFresh == Shapes /\ FreshInv /\ [Next]_vars => FreshInv'
<1> SUFFICES ASSUME Shapes, FreshInv, [Next]_vars PROVE FreshInv'
  OBVIOUS
<1> USE DEF FreshInv
<1>1. CASE StartTrees
  <2>1. PICK targets : Begin("trees", targets, "target")
    BY <1>1 DEF StartTrees
  <2> QED
    BY <2>1 DEF Begin
<1>2. CASE StartReportsOnly
  <2>1. Range(<<>>) = {}
    BY DEF Range
  <2> QED
    BY <1>2, <2>1 DEF StartReportsOnly, Begin
<1>3. CASE NextTarget
  <2>1. CASE queue = <<>>
    BY <1>3, <2>1 DEF NextTarget, Keep, world, reports, Done, Fresh, Written
  <2>2. CASE queue # <<>>
    <3>1. pc' = "scripts" /\ todo' = Base /\ UNCHANGED <<queue, out, tree, named, steady>>
          /\ pc = "target"
      BY <1>3, <2>2 DEF NextTarget, Keep, world, reports
    <3>2. InBase(Head(queue))'
      BY <3>1, BaseIs DEF InBase
    <3> QED
      BY <3>1, <3>2 DEF Done, Fresh, Written
  <2> QED
    BY <2>1, <2>2
<1>4. CASE Script
  BY <1>4, ScriptFresh
<1>5. CASE CountFiles
  <2> SUFFICES ASSUME steady PROVE FreshInv'
    BY <1>5 DEF CountFiles, Keep, world
  <2> DEFINE t == Head(queue)
  <2>1. /\ pc = "count" /\ pc' = "scripts"
        /\ UNCHANGED <<queue, out, tree, named, steady>>
    BY <1>5 DEF CountFiles, Keep, world, reports
  <2>2. \A r \in Range(Base) : Fresh(t, r)
    BY <2>1
  <2>3. out[t]["source-map"] = {tree[t]}
    BY <2>2, BaseIs DEF Fresh
  <2>4. todo' = IF HasHoly[tree[t]] THEN Late(t) ELSE Findings
    BY <1>5, <2>3 DEF CountFiles, Late
  <2>5. Ends(todo', Others, "ARCHAEOLOGY-FINDINGS")
    BY <2>4, LateIs
  <2>6. \A r \in Written(t) : r \in Range(todo') \/ Fresh(t, r)
    BY <2>2, <2>4, WrittenIs
  <2>7. InLate(t)'
    BY <2>1, <2>2, <2>5, <2>6 DEF InLate, Fresh, Written
  <2> QED
    BY <2>1, <2>7 DEF Done, Fresh, Written
<1>6. CASE LookForNotes \/ WriteTemplate
  <2> SUFFICES ASSUME steady PROVE FreshInv'
    BY <1>6 DEF LookForNotes, WriteTemplate, Keep, world
  <2>0. CASE pc = "notes" /\ pc' = "template"
    BY <1>6, <2>0 DEF LookForNotes, WriteTemplate, Keep, world, reports, Done, Fresh, Written
  <2> SUFFICES ASSUME ~(pc = "notes" /\ pc' = "template") PROVE FreshInv'
    BY <2>0
  <2>1. /\ pc \in {"notes", "template"} /\ pc' = "target" /\ queue # <<>>
        /\ queue' = Tail(queue)
        /\ UNCHANGED <<out, tree, named, steady>> /\ queue \in Seq(Targets)
    BY <1>6 DEF LookForNotes, WriteTemplate, Keep, world, reports, Shapes
  <2>2. Range(queue) = {Head(queue)} \cup Range(queue')
    BY <2>1, RangeOfTail
  <2>3. Done(Head(queue))
    BY <2>1
  <2>4. \A t \in named : t \in Range(queue') \/ Done(t)
    BY <2>1, <2>2, <2>3
  <2> QED
    BY <2>1, <2>4 DEF Done, Fresh, Written
<1>7. CASE StartCross
  BY <1>7 DEF StartCross, Keep, world, reports, Done, Fresh, Written
<1>8. CASE Compare
  BY <1>8 DEF Compare, Keep, After, world, Done, Fresh, Written
<1>9. CASE Summarize
  <2> SUFFICES ASSUME steady PROVE FreshInv'
    BY <1>9 DEF Summarize, Keep, world
  <2>1. /\ pc = "summary" /\ pc' \in {"ok", "exited"}
        /\ UNCHANGED <<queue, out, tree, named, steady>>
    BY <1>9 DEF Summarize, Keep, After, world
  <2>2. ASSUME NEW t \in named PROVE summary'[t] = <<{tree[t]}, {tree[t]}>>
    <3>1. t \in Targets /\ queue = <<>> /\ Done(t)
      BY <2>1 DEF Shapes, Range
    <3>2. out[t]["source-map"] = {tree[t]} /\ out[t]["include-resolve"] = {tree[t]}
      BY <3>1, BaseIs, WrittenIs DEF Done, Fresh
    <3>3. tree[t] # 0
      <4>1. HasHoly \in Seq(BOOLEAN)
        BY ArchaeologyAssumption
      <4>2. Versions = 1 .. Len(HasHoly)
        BY <4>1, LenProperties DEF Versions
      <4> QED
        BY <3>1, <4>2 DEF Shapes
    <3>4. Exists(t, "source-map") /\ Exists(t, "include-resolve")
      BY <3>2, <3>3 DEF Exists, None
    <3> QED
      BY <1>9, <3>1, <3>2, <3>4 DEF Summarize
  <2> QED
    BY <2>1, <2>2 DEF Done, Fresh, Written
<1>10. CASE Fails
  BY <1>10 DEF Fails
<1>11. ASSUME NEW t \in Targets, ChangeTree(t) PROVE FreshInv'
  BY <1>11 DEF ChangeTree
<1>12. ASSUME NEW t \in Targets, EditNotes(t) PROVE FreshInv'
  BY <1>12 DEF EditNotes, world, reports, Done, Fresh, Written, InBase, InLate
<1>13. CASE UNCHANGED vars
  BY <1>13 DEF vars, world, reports, Done, Fresh, Written, InBase, InLate
<1> QED
  BY <1>1, <1>2, <1>3, <1>4, <1>5, <1>6, <1>7, <1>8, <1>9, <1>10, <1>11, <1>12, <1>13
  DEF Next, Step

\* FreshAfterRun for any targets, versions of their trees, runs and failures:
\* whatever earlier runs left half done, a run that says ok on trees that stay
\* as they are leaves reports and summary rows made from those trees.
THEOREM RunsLeaveFreshReports == Spec => []FreshAfterRun
<1>1. Init => FreshInv
  BY DEF Init, FreshInv
<1>2. FreshInv => FreshAfterRun
  <2> SUFFICES ASSUME FreshInv, pc = "ok", steady, NEW t \in named
               PROVE  /\ \A r \in Written(t) : out[t][r] = {tree[t]}
                      /\ summary[t] = <<{tree[t]}, {tree[t]}>>
    BY DEF FreshAfterRun
  <2>1. queue = <<>> /\ (t \in Range(queue) \/ Done(t))
    BY DEF FreshInv
  <2>2. Done(t)
    BY <2>1 DEF Range
  <2> QED
    BY <2>2 DEF FreshInv, Done, Fresh
<1> QED
  BY <1>1, <1>2, InitShapes, NextShapes, NextFresh, PTL DEF Spec
=============================================================================
