----------------------- MODULE DependencyOrderProofs ------------------------
(***************************************************************************)
(* Proofs about the dependency-order walk for every set of files and every *)
(* include graph over them, and about the list it makes of a tree at rest. *)
(***************************************************************************)
EXTENDS TreeOrder, SequenceLemmas, FiniteSetTheorems

-----------------------------------------------------------------------------
\* Reachability is reflexive, and one more edge extends it.
LEMMA ReachesSelf ==
  ASSUME NEW g, NEW d
  PROVE  Reaches(g, d, d)
BY DEF Reaches

LEMMA ReachesStep ==
  ASSUME NEW g, NEW d, NEW f \in DOMAIN g, NEW e \in g[f], Reaches(g, d, f)
  PROVE  Reaches(g, d, e)
BY DEF Reaches, Closed

LEMMA GraphFacts ==
  ASSUME TypeOK
  PROVE  /\ DOMAIN Graph = Files
         /\ \A f \in Files : Graph[f] = Deps(f) /\ Deps(f) \subseteq Files
BY DEF Graph, Deps

\* The invariant, with what the last steps of each action need of the stack.
LEMMA StackFacts ==
  ASSUME TypeOK
  PROVE  /\ Len(stack) \in Nat
         /\ DOMAIN stack = 1 .. Len(stack)
         /\ \A i \in DOMAIN stack : stack[i].file \in Files
         /\ \A i \in DOMAIN stack : stack[i].todo \subseteq Files
         /\ Len(ordered) \in Nat
         /\ DOMAIN ordered = 1 .. Len(ordered)
         /\ \A i \in DOMAIN ordered : ordered[i] \in Files
<1> USE DEF TypeOK
<1>1. Len(stack) \in Nat /\ DOMAIN stack = 1 .. Len(stack)
  BY LenProperties
<1>2. \A i \in DOMAIN stack : stack[i] \in Frame
  BY <1>1, ElementOfSeq
<1>3. Len(ordered) \in Nat /\ DOMAIN ordered = 1 .. Len(ordered)
  BY LenProperties
<1>4. \A i \in DOMAIN ordered : ordered[i] \in Files
  BY <1>3, ElementOfSeq
<1> QED
  BY <1>1, <1>2, <1>3, <1>4 DEF Frame

LEMMA InitInv == ASSUME Init PROVE IInv
<1> USE DEF Init
<1>1. TypeOK
  BY EmptySeq DEF TypeOK
<1>2. DOMAIN stack = {} /\ DOMAIN ordered = {}
  OBVIOUS
<1>3. ListedOnce /\ OpenCalls /\ DepsFirst
  BY <1>2 DEF ListedOnce, OpenCalls, DepsFirst, ToSet
<1>4. HandledDeps /\ Started
  BY <1>2 DEF HandledDeps, Started
<1> QED
  BY <1>1, <1>3, <1>4 DEF IInv

-----------------------------------------------------------------------------
\* A call on a stack `rest` that has the open files of `stack` and whose
\* frames have handled their dependencies, all but perhaps f, keeps the
\* invariant.
LEMMA CallStep ==
  ASSUME IInv, NEW f \in Files, NEW rest \in Seq(Frame),
         Len(rest) = Len(stack),
         \A i \in 1 .. Len(stack) : rest[i].file = stack[i].file,
         \A i \in 1 .. Len(stack) :
            /\ rest[i].todo \subseteq Deps(rest[i].file)
            /\ \A d \in Deps(rest[i].file) \ rest[i].todo : Known(d) \/ d = f,
         stack # <<>> => f \in Deps(Last(stack).file),
         Call(f, rest),
         unstarted' \subseteq unstarted,
         unstarted \subseteq unstarted' \cup {f},
         UNCHANGED <<resolved, visited, ordered>>
  PROVE  IInv'
<1> USE DEF IInv
<1>1. /\ Len(stack) \in Nat
      /\ DOMAIN stack = 1 .. Len(stack)
      /\ DOMAIN rest = 1 .. Len(stack)
      /\ \A i \in DOMAIN stack : stack[i].file \in Files
  BY StackFacts, LenProperties
<1>2. Graph' = Graph /\ \A g : Deps(g)' = Deps(g)
  BY DEF Graph, Deps
<1>3. ListedOnce' /\ DepsFirst'
  BY <1>2 DEF ListedOnce, DepsFirst
<1>4. CASE Known(f) /\ stack' = rest /\ UNCHANGED visiting
  <2>1. TypeOK'
    BY <1>4 DEF TypeOK
  <2>2. OpenCalls'
    BY <1>1, <1>2, <1>4 DEF OpenCalls
  <2>3. HandledDeps'
    BY <1>1, <1>2, <1>4 DEF HandledDeps, Known
  <2>4. Started'
    BY <1>4 DEF Started, Known
  <2> QED
    BY <1>3, <2>1, <2>2, <2>3, <2>4
<1>5. CASE /\ ~Known(f)
           /\ stack' = Append(rest, [file |-> f, todo |-> Deps(f)])
           /\ visiting' = visiting \cup {f}
  <2> DEFINE new == [file |-> f, todo |-> Deps(f)]
  <2>1. new \in Frame
    BY DEF Frame, Deps
  <2>2. /\ stack' \in Seq(Frame)
        /\ Len(stack') = Len(stack) + 1
        /\ DOMAIN stack' = 1 .. Len(stack) + 1
        /\ \A i \in 1 .. Len(stack) : stack'[i] = rest[i]
        /\ stack'[Len(stack) + 1] = new
    BY <1>1, <1>5, <2>1, AppendProperties, LenProperties
  <2>3. TypeOK'
    BY <1>5, <2>2 DEF TypeOK
  <2>4. \A i \in 1 .. Len(stack) : stack'[i].file = stack[i].file
    BY <2>2
  <2>5. stack'[Len(stack) + 1].file = f
    BY <2>2
  <2>6. OpenCalls'
    <3>1. visiting' = {stack'[i].file : i \in DOMAIN stack'}
      BY <1>1, <1>5, <2>2, <2>4, <2>5 DEF OpenCalls
    <3>2. visiting' \cap visited' = {}
      BY <1>5 DEF OpenCalls, Known
    <3>3. \A i \in DOMAIN stack : stack[i].file # f
      BY <1>5 DEF OpenCalls, Known
    <3>4. \A i, j \in DOMAIN stack' : stack'[i].file = stack'[j].file => i = j
      BY <1>1, <2>2, <2>4, <2>5, <3>3 DEF OpenCalls
    <3>5. ASSUME NEW i \in 1 .. Len(stack)
          PROVE  Reaches(Graph, stack[i].file, f)
      <4>1. stack # <<>>
        BY <1>1, <3>5
      <4>2. /\ Last(stack) = stack[Len(stack)]
            /\ Len(stack) \in 1 .. Len(stack)
        BY <1>1, <3>5 DEF Last
      <4>3. f \in Graph[Last(stack).file] /\ Last(stack).file \in DOMAIN Graph
        BY <1>1, <4>1, <4>2, GraphFacts
      <4>4. Reaches(Graph, stack[i].file, Last(stack).file)
        BY <1>1, <3>5, <4>2, ReachesSelf DEF OpenCalls
      <4> QED
        BY <4>3, <4>4, ReachesStep
    <3>6. ASSUME NEW i \in DOMAIN stack', NEW j \in DOMAIN stack', i < j
          PROVE  Reaches(Graph', stack'[i].file, stack'[j].file)
      <4>1. CASE j = Len(stack) + 1
        <5>1. i \in 1 .. Len(stack)
          BY <1>1, <2>2, <3>6, <4>1
        <5> QED
          BY <1>2, <2>4, <2>5, <3>5, <4>1, <5>1
      <4>2. CASE j # Len(stack) + 1
        <5>1. i \in 1 .. Len(stack) /\ j \in 1 .. Len(stack)
          BY <1>1, <2>2, <3>6, <4>2
        <5> QED
          BY <1>1, <1>2, <2>4, <3>6, <5>1 DEF OpenCalls
      <4> QED
        BY <4>1, <4>2
    <3> QED
      BY <3>1, <3>2, <3>4, <3>6 DEF OpenCalls
  <2>7. HandledDeps'
    BY <1>1, <1>2, <1>5, <2>2 DEF HandledDeps, Known
  <2>8. Started'
    BY <1>5 DEF Started, Known
  <2> QED
    BY <1>3, <2>3, <2>6, <2>7, <2>8
<1> QED
  BY <1>4, <1>5 DEF Call

-----------------------------------------------------------------------------
LEMMA StartFileStep ==
  ASSUME IInv, StartFile
  PROVE  IInv'
<1> USE DEF IInv
<1> DEFINE f == Min(unstarted)
<1>1. unstarted \in SUBSET Nat /\ unstarted # {}
  BY FilesAssumption DEF TypeOK, StartFile
<1>2. f \in unstarted /\ f \in Files
  BY <1>1, MinInSet DEF TypeOK
<1>3. /\ stack = <<>>
      /\ Call(f, <<>>)
      /\ unstarted' = unstarted \ {f}
      /\ UNCHANGED <<resolved, visited, ordered>>
  BY DEF StartFile
<1>4. /\ <<>> \in Seq(Frame)
      /\ Len(<<>>) = Len(stack)
      /\ \A i \in 1 .. Len(stack) : FALSE
  BY <1>3, EmptySeq
<1>5. /\ unstarted' \subseteq unstarted
      /\ unstarted \subseteq unstarted' \cup {f}
  BY <1>3
<1> HIDE DEF f, IInv
<1> QED
  BY <1>2, <1>3, <1>4, <1>5, CallStep

LEMMA VisitDepStep ==
  ASSUME IInv, VisitDep
  PROVE  IInv'
<1> USE DEF IInv
<1> DEFINE n == Len(stack)
           d == Min(Last(stack).todo)
           rest == [stack EXCEPT ![n].todo = @ \ {d}]
<1>1. /\ n \in Nat
      /\ stack # <<>>
      /\ Last(stack).todo # {}
      /\ DOMAIN stack = 1 .. n
      /\ \A i \in 1 .. n : stack[i].file \in Files /\ stack[i].todo \subseteq Files
  BY StackFacts DEF VisitDep
<1>2. n \in 1 .. n /\ Last(stack) = stack[n]
  <2>1. stack \in Seq(Frame)
    BY DEF TypeOK
  <2>2. Len(stack) \in Nat \ {0} /\ Last(stack) = stack[Len(stack)]
    BY <1>1, <2>1, FrontLast
  <2> QED
    BY <2>2
<1>3. stack[n].todo \in SUBSET Nat
  BY <1>1, <1>2, FilesAssumption
<1>4. d \in stack[n].todo /\ d \in Deps(stack[n].file) /\ d \in Files
  BY <1>1, <1>2, <1>3, MinInSet DEF HandledDeps
<1>5. \A i \in 1 .. n : stack[i] \in Frame
  BY <1>1, ElementOfSeq DEF TypeOK
<1>6. [stack[n] EXCEPT !.todo = @ \ {d}] \in Frame
  BY <1>2, <1>5 DEF Frame
<1>7. /\ rest \in Seq(Frame)
      /\ Len(rest) = n
      /\ \A i \in 1 .. n : rest[i] = IF i = n
                                     THEN [stack[n] EXCEPT !.todo = @ \ {d}]
                                     ELSE stack[i]
  BY <1>2, <1>6, ExceptSeq DEF TypeOK
<1>8. ASSUME NEW i \in 1 .. n
      PROVE  /\ rest[i].file = stack[i].file
             /\ rest[i].todo = IF i = n THEN stack[i].todo \ {d}
                                        ELSE stack[i].todo
  <2>1. DOMAIN stack[i] = {"file", "todo"}
    BY <1>5 DEF Frame
  <2>2. CASE i = n
    BY <1>7, <2>1, <2>2
  <2>3. CASE i # n
    BY <1>7, <2>3
  <2> QED
    BY <2>2, <2>3
<1>9. \A i \in 1 .. n :
        /\ rest[i].todo \subseteq Deps(rest[i].file)
        /\ \A e \in Deps(rest[i].file) \ rest[i].todo : Known(e) \/ e = d
  BY <1>1, <1>8 DEF HandledDeps
<1>10. Call(d, rest) /\ UNCHANGED <<resolved, unstarted, visited, ordered>>
  BY DEF VisitDep
<1>11. unstarted' \subseteq unstarted /\ unstarted \subseteq unstarted' \cup {d}
  BY <1>10
<1>12. Len(rest) = Len(stack) /\ d \in Deps(Last(stack).file)
  BY <1>2, <1>4, <1>7
<1>13. /\ \A i \in 1 .. Len(stack) : rest[i].file = stack[i].file
       /\ \A i \in 1 .. Len(stack) :
            /\ rest[i].todo \subseteq Deps(rest[i].file)
            /\ \A e \in Deps(rest[i].file) \ rest[i].todo : Known(e) \/ e = d
  BY <1>8, <1>9
<1> HIDE DEF n, d, rest, IInv
<1> QED
  BY <1>4, <1>7, <1>10, <1>11, <1>12, <1>13, CallStep

LEMMA FinishStep ==
  ASSUME IInv, Finish
  PROVE  /\ IInv'
         /\ Abstract!Emit(Last(stack).file)
<1> USE DEF IInv
<1> DEFINE n == Len(stack)
           m == Len(ordered)
           f == Last(stack).file
<1>1. /\ stack # <<>>
      /\ Last(stack).todo = {}
      /\ visiting' = visiting \ {f}
      /\ visited' = visited \cup {f}
      /\ ordered' = Append(ordered, f)
      /\ stack' = Front(stack)
      /\ UNCHANGED <<resolved, unstarted>>
  BY DEF Finish
<1>2. /\ n \in Nat \ {0}
      /\ DOMAIN stack = 1 .. n
      /\ Last(stack) = stack[n]
      /\ f = stack[n].file
      /\ \A i \in 1 .. n : stack[i].file \in Files
      /\ m \in Nat
      /\ DOMAIN ordered = 1 .. m
  BY <1>1, StackFacts, FrontLast DEF TypeOK
<1>3. f \in Files
  BY <1>2
<1>4. /\ stack' \in Seq(Frame)
      /\ DOMAIN stack' = 1 .. n - 1
      /\ \A i \in 1 .. n - 1 : stack'[i] = stack[i]
  BY <1>1, <1>2, FrontLast, LenProperties DEF TypeOK
<1>5. /\ ordered' \in Seq(Files)
      /\ DOMAIN ordered' = 1 .. m + 1
      /\ \A i \in 1 .. m : ordered'[i] = ordered[i]
      /\ ordered'[m + 1] = f
  BY <1>1, <1>2, <1>3, AppendProperties, LenProperties DEF TypeOK
<1>6. ToSet(ordered') = ToSet(ordered) \cup {f}
  BY <1>1, <1>3, ToSetAppend DEF TypeOK
<1>7. Graph' = Graph /\ \A g : Deps(g)' = Deps(g)
  BY <1>1 DEF Graph, Deps
<1>8. f \in visiting /\ f \notin visited /\ f \notin ToSet(ordered)
  BY <1>2 DEF OpenCalls, ListedOnce
<1>9. TypeOK'
  BY <1>1, <1>3, <1>4, <1>5 DEF TypeOK
<1>10. ListedOnce'
  <2>1. \A i \in 1 .. m : ordered[i] # f
    BY <1>2, <1>8 DEF ToSet
  <2>2. ASSUME NEW i \in 1 .. m + 1, NEW j \in 1 .. m + 1,
               ordered'[i] = ordered'[j]
        PROVE  i = j
    <3>1. CASE i \in 1 .. m /\ j \in 1 .. m
      BY <1>2, <1>5, <2>2, <3>1 DEF ListedOnce
    <3>2. CASE i = m + 1 \/ j = m + 1
      BY <1>2, <1>5, <2>1, <2>2, <3>2
    <3> QED
      BY <1>2, <3>1, <3>2
  <2> QED
    BY <1>1, <1>5, <1>6, <2>2 DEF ListedOnce
<1>11. OpenCalls'
  <2>1. \A i \in 1 .. n - 1 : stack[i].file # f
    BY <1>2 DEF OpenCalls
  <2>2. visiting' = {stack'[i].file : i \in DOMAIN stack'}
    <3>1. ASSUME NEW g \in visiting'
          PROVE  \E i \in 1 .. n - 1 : stack[i].file = g
      <4>1. PICK i \in 1 .. n : stack[i].file = g
        BY <1>1, <1>2, <3>1 DEF OpenCalls
      <4>2. i # n
        BY <1>1, <1>2, <3>1, <4>1
      <4>3. n \in Nat
        BY <1>2
      <4> HIDE DEF n
      <4>4. i \in 1 .. n - 1
        BY <4>2, <4>3
      <4> QED
        BY <4>1, <4>4
    <3>2. ASSUME NEW i \in 1 .. n - 1
          PROVE  stack[i].file \in visiting'
      <4>1. i \in 1 .. n
        BY <1>2
      <4> QED
        BY <1>1, <1>2, <2>1, <4>1 DEF OpenCalls
    <3> QED
      BY <1>4, <3>1, <3>2
  <2>3. visiting' \cap visited' = {}
    BY <1>1 DEF OpenCalls
  <2> QED
    BY <1>2, <1>4, <1>7, <2>2, <2>3 DEF OpenCalls
<1>12. \A g : Known(g) => Known(g)'
  BY <1>1 DEF Known
<1>13. HandledDeps'
  BY <1>2, <1>4, <1>7, <1>12 DEF HandledDeps
<1>14. Started'
  BY <1>1, <1>12 DEF Started
<1>15. \A d \in Deps(f) : d \in ToSet(ordered) \/ Reaches(Graph, d, f)
  <2> SUFFICES ASSUME NEW d \in Deps(f), d \notin visited
               PROVE  Reaches(Graph, d, f)
    BY DEF ListedOnce
  <2>1. d \in visiting
    BY <1>1, <1>2 DEF HandledDeps, Known
  <2>2. PICK i \in 1 .. n : stack[i].file = d
    BY <1>2, <2>1 DEF OpenCalls
  <2> QED
    BY <1>2, <2>2, ReachesSelf DEF OpenCalls
<1>16. DepsFirst'
  <2> SUFFICES ASSUME NEW i \in 1 .. m + 1, NEW d \in Deps(ordered'[i])
               PROVE  \/ \E j \in 1 .. m + 1 : j < i /\ ordered'[j] = d
                      \/ Reaches(Graph, d, ordered'[i])
    BY <1>5, <1>7 DEF DepsFirst
  <2>1. CASE i = m + 1
    BY <1>2, <1>5, <1>15, <2>1 DEF ToSet
  <2>2. CASE i \in 1 .. m
    <3>1. \/ \E j \in 1 .. m : j < i /\ ordered[j] = d
          \/ Reaches(Graph, d, ordered[i])
      BY <1>2, <1>5, <2>2 DEF DepsFirst
    <3> QED
      BY <1>2, <1>5, <2>2, <3>1
  <2> QED
    BY <1>2, <2>1, <2>2
<1>17. Abstract!Emit(f)
  <2>1. Abstract!Ready(f)
    BY <1>3, <1>15, GraphFacts
       DEF Abstract!Ready, Abstract!ToSet, ToSet, Abstract!Reaches, Reaches,
           Abstract!Closed, Closed
  <2> QED
    BY <1>1, <1>7, <1>8, <2>1 DEF Abstract!Emit, Abstract!ToSet, ToSet
<1> QED
  BY <1>9, <1>10, <1>11, <1>13, <1>14, <1>16, <1>17

-----------------------------------------------------------------------------
LEMMA NextInv == ASSUME IInv, [Next]_vars PROVE IInv'
<1>1. CASE StartFile
  BY <1>1, StartFileStep
<1>2. CASE VisitDep
  BY <1>2, VisitDepStep
<1>3. CASE Finish
  BY <1>3, FinishStep
<1>4. CASE UNCHANGED vars
  BY <1>4 DEF IInv, vars, TypeOK, ListedOnce, OpenCalls, HandledDeps, Started,
              DepsFirst, Known, Deps, Graph
<1> QED
  BY <1>1, <1>2, <1>3, <1>4 DEF Next

\* The inductive invariant holds of every execution of the walk.
THEOREM Invariance == Spec => []IInv
BY InitInv, NextInv, PTL DEF Spec

\* The Vecs of the walk keep their types.
THEOREM TypeCorrect == Spec => []TypeOK
BY Invariance, PTL DEF IInv

\* No file is listed twice, whatever the include graph.
THEOREM NoFileTwice == Spec => []ListedOnce
BY Invariance, PTL DEF IInv

\* The recursion's `visiting` is the chain of open calls, and each call on it
\* reaches the later ones along includes.
THEOREM OpenCallsAreAChain == Spec => []OpenCalls
BY Invariance, PTL DEF IInv

\* Includes come first, except along a cycle.
THEOREM IncludesFirst == Spec => []DepsFirst
BY Invariance, PTL DEF IInv

\* Without cycles, the list is a topological order.
THEOREM Topological == Spec => []TopologicalWhenAcyclic
<1>1. ASSUME IInv PROVE TopologicalWhenAcyclic
  <2> SUFFICES ASSUME Acyclic(Graph),
                      NEW i \in DOMAIN ordered, NEW j \in DOMAIN ordered,
                      ordered[j] \in Deps(ordered[i])
               PROVE  j < i
    BY DEF TopologicalWhenAcyclic
  <2>1. ordered[i] \in Files
    BY <1>1, StackFacts DEF IInv
  <2>2. ~Reaches(Graph, ordered[j], ordered[i])
    BY <1>1, <2>1, GraphFacts DEF Acyclic, IInv
  <2>3. PICK k \in DOMAIN ordered : k < i /\ ordered[k] = ordered[j]
    BY <1>1, <2>2 DEF DepsFirst, IInv
  <2>4. k = j
    BY <1>1, <2>3 DEF ListedOnce, IInv
  <2> QED
    BY <2>3, <2>4
<1> QED
  BY <1>1, Invariance, PTL

\* A walk that returns has listed every scanned file.
THEOREM AllListed == Spec => []Complete
<1>1. ASSUME IInv PROVE Complete
  <2> SUFFICES ASSUME stack = <<>>, unstarted = {}
               PROVE  ToSet(ordered) = Files
    BY DEF Complete, Returned
  <2>1. visiting = {}
    BY <1>1 DEF OpenCalls, IInv
  <2>2. Files \subseteq visited
    BY <1>1, <2>1 DEF Started, Known, IInv
  <2> QED
    BY <1>1, <2>2 DEF ListedOnce, TypeOK, IInv
<1> QED
  BY <1>1, Invariance, PTL

\* The recursion is never deeper than there are files: the open calls are of
\* different files.
THEOREM DepthIsBounded == Spec => []DepthBounded
<1>1. ASSUME IInv PROVE DepthBounded
  <2> DEFINE fileAt == [i \in 1 .. Len(stack) |-> stack[i].file]
  <2>1. stack \in Seq(Frame) /\ Len(stack) \in Nat /\ DOMAIN stack = 1 .. Len(stack)
    BY <1>1 DEF IInv, TypeOK
  <2>2. \A i \in 1 .. Len(stack) : stack[i] \in Frame
    BY <2>1, ElementOfSeq
  <2>3. fileAt \in [1 .. Len(stack) -> Files]
    BY <2>2 DEF Frame
  <2>4. fileAt \in Injection(1 .. Len(stack), Files)
    BY <1>1, <2>1, <2>3 DEF IInv, OpenCalls, Injection, IsInjective
  <2>5. IsFiniteSet(Files)
    BY FilesAssumption
  <2>6. Cardinality(1 .. Len(stack)) <= Cardinality(Files)
    BY <2>5, <2>4, FS_Injection
  <2> QED
    BY <2>1, <2>6, FS_Interval DEF DepthBounded
<1> QED
  BY <1>1, Invariance, PTL

\* Every step of the walk is a step of the abstract ordering or leaves the
\* list alone: whatever order the recursion takes, it is one EmitOrder allows.
THEOREM ImplementsEmitOrder ==
  Spec => Abstract!Init /\ [][Abstract!Next]_(Abstract!vars)
<1>1. Init => Abstract!Init
  BY GraphFacts DEF Init, Abstract!Init, Graph, Deps
<1>2. ASSUME IInv, [Next]_vars
      PROVE  [Abstract!Next]_(Abstract!vars)
  <2>1. CASE StartFile \/ VisitDep
    BY <2>1 DEF StartFile, VisitDep, Abstract!vars, Graph, Deps
  <2>2. CASE Finish
    <3>1. Last(stack).file \in Files
      BY <1>2, <2>2, StackFacts, FrontLast DEF Finish, IInv, TypeOK, Frame
    <3> QED
      BY <1>2, <2>2, <3>1, FinishStep DEF Abstract!Next
  <2>3. CASE UNCHANGED vars
    BY <2>3 DEF vars, Abstract!vars, Graph, Deps
  <2> QED
    BY <1>2, <2>1, <2>2, <2>3 DEF Next
<1> QED
  BY <1>1, <1>2, Invariance, PTL DEF Spec
-----------------------------------------------------------------------------
(* The order of a tree at rest. *)

\* The graph of the walk is that of the tree.
TreeInv == IInv /\ resolved = [f \in Files |-> ResolvedIn(disk, f)]

\* The walk on a tree at rest is a walk, of the graph of that tree.
THEOREM TreeInvariance == TreeSpec => []TreeInv
<1>1. TreeInit => TreeInv
  BY InitInv DEF TreeInit, TreeInv
<1>2. TreeInv /\ [TreeNext]_<<vars, disk>> => TreeInv'
  <2> SUFFICES ASSUME TreeInv, [TreeNext]_<<vars, disk>> PROVE TreeInv'
    OBVIOUS
  <2>1. [Next]_vars /\ disk' = disk
    BY DEF TreeNext
  <2>2. resolved' = resolved
    BY <2>1 DEF Next, StartFile, VisitDep, Finish, vars
  <2>3. \A f : ResolvedIn(disk, f)' = ResolvedIn(disk, f)
    BY <2>1 DEF ResolvedIn
  <2>4. IInv'
    BY <2>1, NextInv DEF TreeInv
  <2> QED
    BY <2>2, <2>3, <2>4 DEF TreeInv
<1> QED
  BY <1>1, <1>2, PTL DEF TreeSpec

\* In a tree whose includes spell paths as the scan does, what a file includes
\* is what the walk takes for its dependencies.
LEMMA PlainTree ==
  ASSUME TreeInv, SpelledLikeTheScan
  PROVE  [f \in Files |-> IncludedOnDisk(f)] = Graph
<1>1. SUFFICES ASSUME NEW f \in Files, NEW g \in Files
               PROVE  g \in IncludedOnDisk(f) <=> g \in Deps(f)
  BY DEF Graph, Deps, IncludedOnDisk
<1> DEFINE found(t) == ResolveInclude(disk, Root, PathOf[f], t)
           targets == Range(disk[PathOf[f]])
           paths == {found(t) : t \in targets} \ {None}
<1>2. g \in IncludedOnDisk(f) <=>
        \E t \in targets : found(t) # None /\ SameFile(found(t), PathOf[g])
  BY DEF IncludedOnDisk
<1>3. \A t \in targets : found(t) # None /\ SameFile(found(t), PathOf[g])
                            => found(t) = PathOf[g]
  BY DEF SpelledLikeTheScan
<1>4. SameFile(PathOf[g], PathOf[g])
  BY DEF SameFile
<1>5. g \in Deps(f) <=> g \in ResolvedIn(disk, f)
  BY DEF TreeInv, Deps
<1>6. g \in ResolvedIn(disk, f) <=> PathOf[g] \in paths
  BY FilesAssumption DEF ResolvedIn
<1> HIDE DEF found, targets
<1>7. PathOf[g] \in paths <=> \E t \in targets : found(t) # None /\ found(t) = PathOf[g]
  OBVIOUS
<1> QED
  BY <1>2, <1>3, <1>4, <1>5, <1>6, <1>7

\* DOCS.md's promise on dependency-order for such a tree: without a cycle on
\* the disk, included files appear before those that depend on them.
THEOREM PlainTreesInOrder == TreeSpec => []PlainIncludesAppearFirst
<1>1. ASSUME TreeInv PROVE PlainIncludesAppearFirst
  <2> SUFFICES ASSUME SpelledLikeTheScan,
                      Acyclic(Graph),
                      NEW i \in DOMAIN ordered, NEW g \in Graph[ordered[i]]
               PROVE  \E j \in DOMAIN ordered : j < i /\ ordered[j] = g
    BY <1>1, PlainTree DEF PlainIncludesAppearFirst, IncludedFilesAppearFirst
  <2>1. ordered[i] \in Files
    BY <1>1, StackFacts DEF TreeInv, IInv
  <2>2. ordered[i] \in DOMAIN Graph /\ Graph[ordered[i]] = Deps(ordered[i])
    BY <1>1, <2>1, GraphFacts DEF TreeInv, IInv
  <2>3. ~Reaches(Graph, g, ordered[i])
    BY <2>2 DEF Acyclic
  <2> QED
    BY <1>1, <2>2, <2>3 DEF TreeInv, IInv, DepsFirst
<1> QED
  BY <1>1, TreeInvariance, PTL
=============================================================================
