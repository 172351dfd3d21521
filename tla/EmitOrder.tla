----------------------------- MODULE EmitOrder ------------------------------
(***************************************************************************)
(* What the dependency-order command promises, whatever way it walks the   *)
(* graph: files are emitted one at a time, none twice, and a file only     *)
(* when each file it includes was emitted or is on an include cycle with   *)
(* it.  In the end every file has been emitted.                            *)
(***************************************************************************)
EXTENDS Sequences, SequencesExt, Reachability

CONSTANT Files

VARIABLES graph,    \* each scanned file's scanned includes
          emitted   \* the files printed so far, in order

vars == <<graph, emitted>>

Init == /\ graph \in [Files -> SUBSET Files]
        /\ emitted = <<>>

Ready(f) ==
  \A d \in graph[f] : d \in ToSet(emitted) \/ Reaches(graph, d, f)

Emit(f) == /\ f \notin ToSet(emitted)
           /\ Ready(f)
           /\ emitted' = Append(emitted, f)
           /\ UNCHANGED graph

Next == \E f \in Files : Emit(f)

Spec == Init /\ [][Next]_vars /\ WF_vars(Next)
=============================================================================
