---------------------------- MODULE Reachability ----------------------------
(***************************************************************************)
(* Reachability in the include graph: a function from each scanned file to *)
(* the set of scanned files it includes.  A file d reaches a file f when   *)
(* every set of files that contains d and is closed under inclusion also   *)
(* contains f.  This form needs no recursion, so proofs can use it.        *)
(***************************************************************************)

Closed(graph, S) == \A x \in S : graph[x] \subseteq S

Reaches(graph, d, f) ==
  \A S \in SUBSET DOMAIN graph : (d \in S /\ Closed(graph, S)) => f \in S

\* No file includes, directly or not, a file that leads back to it.
Acyclic(graph) ==
  \A f \in DOMAIN graph : \A d \in graph[f] : ~Reaches(graph, d, f)
=============================================================================
