---------------------------- MODULE MCTreeOrder -----------------------------
(***************************************************************************)
(* T/A/B.HC, T/B.HC and T/M.HC in path order.  Every include graph over    *)
(* them and one path outside the scan comes about, from targets that may   *)
(* be spelled as the scan spells them, with "..", or in another case.      *)
(***************************************************************************)
EXTENDS TreeOrder

MCFiles == 1..3
MCOutside == {99}
MCRoot == <<"T">>
MCPathOf == <<<<"T", "A", "B">>, <<"T", "B">>, <<"T", "M">>>>
MCFoldName(name) == IF name = "b" THEN "B" ELSE name

Rel(path) == [absolute |-> FALSE, path |-> path]
Abs(path) == [absolute |-> TRUE, path |-> path]

\* The last leads every file to T/B under a name the scan does not have.
Targets == {Rel(<<"A", "B">>), Abs(<<"T", "B">>), Rel(<<"M">>),
            Rel(<<Up, "T", "B">>)}
MCTexts == {SetToSeq(S) : S \in SUBSET Targets}
             \cup {<<Rel(<<"B">>)>>, <<Rel(<<Up, "B">>), Rel(<<"A", "B">>)>>,
                   <<Rel(<<"b">>)>>}
=============================================================================
