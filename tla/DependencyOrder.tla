-------------------------- MODULE DependencyOrder ---------------------------
(***************************************************************************)
(* The walk behind `holytools dependency-order` and the dependency-files   *)
(* count of `holytools source-map`: dependency_order calls the recursive   *)
(* visit_dependency for every scanned file in path order.  The recursion   *)
(* is unrolled into an explicit stack; one step is one call (or its early  *)
(* return) or one return.  A file is named by its position in path order,  *)
(* so "the next one in sorted order" is a minimum.                         *)
(***************************************************************************)
EXTENDS Naturals, Sequences, SequencesExt, FiniteSetsExt, Reachability

CONSTANTS Files,     \* the paths scan_path returned, numbered in path order
          Outside    \* paths an include may resolve to that the scan did not return

ASSUME FilesAssumption ==
  /\ Files \subseteq Nat
  /\ IsFiniteSet(Files)
  /\ Files \cap Outside = {}

VARIABLES resolved,  \* what the includes of each file resolve to
          unstarted, \* files the loop of dependency_order has not reached
          stack,     \* the open calls of visit_dependency, outermost first
          visiting,  \* the Vec of that name: files whose call is open
          visited,   \* the Vec of that name, as a set
          ordered    \* the result

vars == <<resolved, unstarted, stack, visiting, visited, ordered>>

(***************************************************************************)
(* An operator named Faulty... is a slip the definition after it could     *)
(* have; the properties are tested by substituting it.                     *)
(***************************************************************************)

\* deps after retain-if-scanned, sort and dedup: order is restored by Min.
Deps(f) == resolved[f] \cap Files

Graph == [f \in Files |-> Deps(f)]

Frame == [file : Files, todo : SUBSET Files]

Init ==
  /\ resolved \in [Files -> SUBSET (Files \cup Outside)]
  /\ unstarted = Files
  /\ stack = <<>>
  /\ visiting = {}
  /\ visited = {}
  /\ ordered = <<>>

\* A finished file is walked again.
FaultyKnownVisiting(f) == f \in visiting

Known(f) == f \in visited \/ f \in visiting

\* A call of visit_dependency with `rest` the stack of its caller.
Call(f, rest) ==
  \/ /\ Known(f)
     /\ stack' = rest
     /\ UNCHANGED visiting
  \/ /\ ~Known(f)
     /\ stack' = Append(rest, [file |-> f, todo |-> Deps(f)])
     /\ visiting' = visiting \cup {f}

\* Only the first file is started.
FaultyStartFile ==
  /\ stack = <<>>
  /\ unstarted # {}
  /\ Call(Min(unstarted), <<>>)
  /\ unstarted' = {}
  /\ UNCHANGED <<resolved, visited, ordered>>

\* The loop over `all` in dependency_order.
StartFile ==
  /\ stack = <<>>
  /\ unstarted # {}
  /\ LET f == Min(unstarted)
     IN  /\ Call(f, <<>>)
         /\ unstarted' = unstarted \ {f}
  /\ UNCHANGED <<resolved, visited, ordered>>

\* A dependency stays on the list of those to visit.
FaultyVisitDep ==
  /\ stack # <<>>
  /\ Last(stack).todo # {}
  /\ Call(Min(Last(stack).todo), stack)
  /\ UNCHANGED <<resolved, unstarted, visited, ordered>>

\* Of two dependencies the last is taken, the ones before it are passed over.
FaultyVisitDepSkips ==
  /\ stack # <<>>
  /\ Last(stack).todo # {}
  /\ LET d == Max(Last(stack).todo)
     IN  Call(d, [stack EXCEPT ![Len(stack)].todo = {}])
  /\ UNCHANGED <<resolved, unstarted, visited, ordered>>

\* The loop over `deps` in visit_dependency.
VisitDep ==
  /\ stack # <<>>
  /\ Last(stack).todo # {}
  /\ LET d == Min(Last(stack).todo)
     IN  Call(d, [stack EXCEPT ![Len(stack)].todo = @ \ {d}])
  /\ UNCHANGED <<resolved, unstarted, visited, ordered>>

\* A file is listed before its last dependency was visited.
FaultyFinish ==
  /\ stack # <<>>
  /\ Cardinality(Last(stack).todo) < 2
  /\ LET f == Last(stack).file
     IN  /\ visiting' = visiting \ {f}
         /\ visited' = visited \cup {f}
         /\ ordered' = Append(ordered, f)
  /\ stack' = Front(stack)
  /\ UNCHANGED <<resolved, unstarted>>

\* The end of visit_dependency.
Finish ==
  /\ stack # <<>>
  /\ Last(stack).todo = {}
  /\ LET f == Last(stack).file
     IN  /\ visiting' = visiting \ {f}
         /\ visited' = visited \cup {f}
         /\ ordered' = Append(ordered, f)
  /\ stack' = Front(stack)
  /\ UNCHANGED <<resolved, unstarted>>

Next == StartFile \/ VisitDep \/ Finish

Spec == Init /\ [][Next]_vars /\ WF_vars(Next)

Returned == stack = <<>> /\ unstarted = {}
-----------------------------------------------------------------------------
(* What the walk must do. *)

\* Every variable keeps the type the code gives it.
TypeOK ==
  /\ resolved \in [Files -> SUBSET (Files \cup Outside)]
  /\ unstarted \subseteq Files
  /\ stack \in Seq(Frame)
  /\ visiting \subseteq Files
  /\ visited \subseteq Files
  /\ ordered \in Seq(Files)

\* A file is listed once at most, although it is reachable along many include
\* chains and is also started by the outer loop; what is listed is what
\* was visited.
ListedOnce ==
  /\ ToSet(ordered) = visited
  /\ \A i, j \in DOMAIN ordered : ordered[i] = ordered[j] => i = j

\* The early return on `visiting` is only ever taken for a file whose call is
\* open, and the open calls form an include chain.
OpenCalls ==
  /\ visiting = {stack[i].file : i \in DOMAIN stack}
  /\ visiting \cap visited = {}
  /\ \A i, j \in DOMAIN stack : stack[i].file = stack[j].file => i = j
  /\ \A i, j \in DOMAIN stack :
       i < j => Reaches(Graph, stack[i].file, stack[j].file)

\* A listed file comes after each file it includes, except after one that
\* leads back to it along an include cycle.
DepsFirst ==
  \A i \in DOMAIN ordered : \A d \in Deps(ordered[i]) :
     \/ \E j \in DOMAIN ordered : j < i /\ ordered[j] = d
     \/ Reaches(Graph, d, ordered[i])

\* Without a cycle the list is a topological order of the include graph.
TopologicalWhenAcyclic ==
  Acyclic(Graph) =>
    \A i, j \in DOMAIN ordered : ordered[j] \in Deps(ordered[i]) => j < i

\* When the walk returns, it has listed every scanned file: dependency-files
\* equals holy-files in a source-map.
Complete == Returned => ToSet(ordered) = Files

\* Every dependency an open call has already handled is listed or open.
HandledDeps ==
  \A i \in DOMAIN stack :
     /\ stack[i].todo \subseteq Deps(stack[i].file)
     /\ \A d \in Deps(stack[i].file) \ stack[i].todo : Known(d)

\* The outer loop leaves no file behind.
Started == \A f \in Files \ unstarted : Known(f)

\* At every moment, in the middle of the recursion too, what the finished part
\* of each open call has handled is listed or open, and nothing is listed
\* before its includes: the conjunction is inductive, and the proofs of the
\* properties above start from it.
IInv == /\ TypeOK
        /\ ListedOnce
        /\ OpenCalls
        /\ HandledDeps
        /\ Started
        /\ DepsFirst

\* The recursion is never deeper than there are files.
DepthBounded == Len(stack) <= Cardinality(Files)

\* The walk returns on every graph, cyclic ones and self-includes too.
Terminates == <>Returned

\* The walk implements the abstract ordering.
Abstract == INSTANCE EmitOrder WITH graph <- Graph, emitted <- ordered
Implements == Abstract!Spec
=============================================================================
