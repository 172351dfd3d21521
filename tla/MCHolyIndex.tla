---------------------------- MODULE MCHolyIndex -----------------------------
(***************************************************************************)
(* Texts put together from the pieces that start, end and hide statements: *)
(* i stands for include, c for class, r for return, a for any name.        *)
(***************************************************************************)
EXTENDS HolyIndex

MCSpace == {" "}
MCLetters == {"a", "c", "i", "r"}
MCDigits == {"1"}
MCSymbols == {"#", "("}
MCPairs == {}
MCInclude == <<"i">>
MCClass == <<"c">>
MCAsm == <<"r">>
MCControl == {<<"r">>}
MCKeywords == {<<"c">>, <<"r">>}

\* Pieces of include statements, and what hides them: either kind of comment, a
\* string that is not closed.
StatementPieces ==
  {<<"#", "i">>, <<"#">>, <<"i">>, <<"\"", "a", "\"">>, <<"a">>}
BlockComment == {<<"/", "*">>, <<"*", "/">>}
LineComment == {<<"/", "/">>, <<LF>>}
IncludePieces == StatementPieces \cup BlockComment \cup LineComment \cup {<<"\"">>}

\* Pieces of declarations, calls and classes.
SymbolPieces ==
  {<<"c", " ">>, <<"r", " ">>, <<"a">>, <<" ">>, <<"(">>, <<"/", "*">>, <<"*", "/">>}

\* Pieces of numbers beside names.
NumberPieces ==
  {<<"#", "i", " ">>, <<"c", " ">>, <<"a">>, <<"1">>, <<Dot>>, <<"(">>, <<"*", "/">>}

Joined(n, pieces) == UNION {[1 .. k -> pieces] : k \in 0 .. n}

MCTexts == {FlattenSeq(text) : text \in Joined(4, IncludePieces)
                                        \cup Joined(5, StatementPieces \cup BlockComment)
                                        \cup Joined(5, StatementPieces \cup LineComment)
                                        \cup Joined(5, SymbolPieces)
                                        \cup Joined(4, NumberPieces)}
=============================================================================
