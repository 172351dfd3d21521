----------------------------- MODULE MCHolyLex ------------------------------
(* Short texts over one character of each class, and longer ones of what *)
(* opens, closes and escapes.                                            *)
EXTENDS HolyLex

Strings(alphabet, n) == UNION {[1 .. k -> alphabet] : k \in 0 .. n}

MCSpace == {" "}
MCLetters == {"a"}
MCDigits == {"0"}
MCSymbols == {"="}
MCPairs == {<<"=", "=">>, <<"/", "=">>, <<"*", "=">>}
MCKeywords == {<<"a", "a">>}

MCShortTexts == Strings({LF, CR, Bom, " ", "a", "0", "=", Dot, "/", "*", "\"", "?"}, 4)

MCNestedTexts == Strings({LF, "/", "*", "\"", "'", "\\"}, 6)

MCTexts == MCShortTexts \cup MCNestedTexts
=============================================================================
