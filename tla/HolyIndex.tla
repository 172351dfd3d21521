----------------------------- MODULE HolyIndex ------------------------------
(***************************************************************************)
(* scan_file_report of crates/holyindex on one text: the lexer runs to the *)
(* end, then collect_symbols and collect_includes go over the tokens that  *)
(* are left without blanks and line ends.  A row is the position in the    *)
(* text of the token it reports, whose line and column it carries.         *)
(***************************************************************************)
EXTENDS HolyLex

CONSTANTS IncludeWord,   \* the word include
          ClassWord,     \* the keyword class
          AsmWord,       \* the keyword asm
          ControlWords   \* the words of is_control_keyword

\* What passes for nothing between two tokens.
Blanks == Space \cup {LF, CR, Bom}

\* A character is a blank, of a word, a quote or a symbol; # and the parenthesis
\* stand alone.
ASSUME ClassesAssumption ==
  /\ Letters \cap Digits = {}
  /\ Blanks \cap WordChars = {}
  /\ (Blanks \cup WordChars) \cap (SymbolStart \cup {"#", "(", "\"", "'"}) = {}
  /\ \A pair \in Pairs : pair[1] \notin {"#", "("}
                         /\ pair[2] \notin Blanks \cup WordChars \cup {"#", "("}

ASSUME WordsAssumption ==
  /\ IncludeWord # <<>> /\ IncludeWord[1] \in Letters
  /\ ClassWord # <<>> /\ ClassWord \in Keywords

VARIABLES pc,        \* which loop runs
          next,      \* its `index`, from 1
          symbols, includes,
          asmCount

indexVars == <<pc, next, symbols, includes, asmCount>>

Trivia == {"Whitespace", "Newline"}

\* visible_tokens; comments stay.
Visible ==
  LET visible[k \in 0 .. Len(tokens)] ==
        IF k = 0 THEN <<>>
        ELSE IF tokens[k].kind \in Trivia THEN visible[k - 1]
        ELSE Append(visible[k - 1], tokens[k])
  IN  visible[Len(tokens)]

Lexeme(t) == SubSeq(chars, t.from, t.to - 1)

At(k, kind) == k <= Len(Visible) /\ Visible[k].kind = kind
Reads(k, word) == k <= Len(Visible) /\ Lexeme(Visible[k]) = word

IndexInit == /\ Init
             /\ pc = "lex"
             /\ next = 1
             /\ symbols = <<>>
             /\ includes = <<>>
             /\ asmCount = 0

LexStep == pc = "lex" /\ Next /\ UNCHANGED indexVars

LexDone == /\ pc = "lex"
           /\ ~More
           /\ pc' = "symbols"
           /\ UNCHANGED <<vars, next, symbols, includes, asmCount>>

Symbol(kind, k) == [kind |-> kind, from |-> Visible[k].from,
                    line |-> Visible[k].line, column |-> Visible[k].column]

IsTypeLike(k) == At(k, "Keyword") \/ At(k, "Ident")

ClassAt(k) == /\ At(k, "Keyword") /\ Reads(k, ClassWord)
              /\ At(k + 1, "Ident")

FunctionAt(k) == /\ IsTypeLike(k)
                 /\ At(k + 1, "Ident")
                 /\ Reads(k + 2, <<"(">>)
                 /\ Lexeme(Visible[k]) \notin ControlWords

\* A control word is passed over without going on to the next token.
FaultyCollectSymbol ==
  /\ pc = "symbols"
  /\ next <= Len(Visible)
  /\ Lexeme(Visible[next]) \notin ControlWords
  /\ next' = next + 1
  /\ UNCHANGED <<vars, pc, symbols, includes, asmCount>>

\* One turn of the loop of collect_symbols: the name may be a class, a
\* function, or both.
CollectSymbol ==
  /\ pc = "symbols"
  /\ next <= Len(Visible)
  /\ symbols' = symbols
       \o (IF ClassAt(next) THEN <<Symbol("class", next + 1)>> ELSE <<>>)
       \o (IF FunctionAt(next) THEN <<Symbol("function", next + 1)>> ELSE <<>>)
  /\ next' = next + 1
  /\ UNCHANGED <<vars, pc, includes, asmCount>>

\* A stable sort by line and column (the name is that of the place): each row
\* goes after those that come before it.
InOrder(rows) ==
  LET before(a, b) == \/ rows[a].line < rows[b].line
                      \/ rows[a].line = rows[b].line /\ rows[a].column < rows[b].column
      first(a) == {b \in DOMAIN rows : before(b, a) \/ (~before(a, b) /\ b < a)}
  IN  [k \in DOMAIN rows |-> rows[CHOOSE a \in DOMAIN rows : Cardinality(first(a)) = k - 1]]

\* The rows at the given places, in order.
Only(rows, kept) ==
  [k \in 1 .. Cardinality(kept) |->
     rows[CHOOSE a \in kept : Cardinality({b \in kept : b < a}) = k - 1]]

\* Rows of one place are merged whatever their kind.
FaultyDedup(rows) ==
  Only(rows, {k \in DOMAIN rows : k = 1 \/ rows[k].from # rows[k - 1].from})

\* dedup_by: a row equal to the one before it goes.
Dedup(rows) == Only(rows, {k \in DOMAIN rows : k = 1 \/ rows[k] # rows[k - 1]})

SymbolsDone ==
  /\ pc = "symbols"
  /\ next > Len(Visible)
  /\ symbols' = Dedup(InOrder(symbols))
  /\ pc' = "includes"
  /\ next' = 1
  /\ UNCHANGED <<vars, includes, asmCount>>

IncludeAt(k) == /\ Reads(k, <<"#">>)
                /\ Reads(k + 1, IncludeWord)
                /\ At(k + 2, "String") \/ At(k + 2, "Ident")

\* The token after a statement is skipped too.
FaultyCollectInclude ==
  /\ pc = "includes"
  /\ next + 2 <= Len(Visible)
  /\ includes' = IF IncludeAt(next)
                 THEN Append(includes, Symbol("include", next)) ELSE includes
  /\ next' = IF IncludeAt(next) THEN next + 4 ELSE next + 1
  /\ UNCHANGED <<vars, pc, symbols, asmCount>>

\* One turn of the loop of collect_includes.
CollectInclude ==
  /\ pc = "includes"
  /\ next + 2 <= Len(Visible)
  /\ includes' = IF IncludeAt(next)
                 THEN Append(includes, Symbol("include", next)) ELSE includes
  /\ next' = IF IncludeAt(next) THEN next + 3 ELSE next + 1
  /\ UNCHANGED <<vars, pc, symbols, asmCount>>

IncludesDone ==
  /\ pc = "includes"
  /\ next + 2 > Len(Visible)
  /\ asmCount' = Cardinality({k \in DOMAIN Visible : Reads(k, AsmWord)})
  /\ pc' = "done"
  /\ UNCHANGED <<vars, next, symbols, includes>>

IndexNext == \/ LexStep \/ LexDone \/ CollectSymbol \/ SymbolsDone
             \/ CollectInclude \/ IncludesDone

IndexSpec == /\ IndexInit
             /\ [][IndexNext]_<<vars, indexVars>>
             /\ WF_<<vars, indexVars>>(IndexNext)
-----------------------------------------------------------------------------
(***************************************************************************)
(* The same rows read off the text by Inside, the reader of HolyLex that   *)
(* goes over it character by character, and by one that tells words from   *)
(* numbers.                                                                *)
(***************************************************************************)

InCode(p) == Inside[p] = "code"

PastBlanks(p) == RunEnd(p, Blanks)

\* What p is in the middle of, after what p - 1 was: a number goes on over
\* letters and dots, a word over letters and digits.
RunAfter(run, p) ==
  IF run = "number" /\ chars[p] \in NumberChars THEN "number"
  ELSE IF chars[p] \in Letters \/ (run = "word" /\ chars[p] \in Digits) THEN "word"
  ELSE IF chars[p] \in Digits THEN "number"
  ELSE "none"

Words ==
  LET run[p \in 0 .. Size] == IF p = 0 THEN "none" ELSE RunAfter(run[p - 1], p)
  IN  run

WordStart(p) == Words[p] = "word" /\ Words[p - 1] # "word"
WordAt(p) == SubSeq(chars, p, RunEnd(p, WordChars) - 1)
NameAt(p) == p <= Size /\ InCode(p) /\ WordStart(p) /\ WordAt(p) \notin Keywords

\* The word before p, with only blanks between; <<>> if something else is there.
WordBefore(p) ==
  LET solid == {q \in 1 .. p - 1 : chars[q] \notin Blanks}
      q == Max(solid)
  IN  IF solid # {} /\ InCode(q) /\ Words[q] = "word"
      THEN WordAt(Max({w \in 1 .. q : WordStart(w)})) ELSE <<>>

IncludeStatements ==
  {p \in 1 .. Size : /\ InCode(p) /\ chars[p] = "#"
                     /\ LET word == PastBlanks(p + 1)
                            target == PastBlanks(RunEnd(word, WordChars))
                        IN  /\ WordAt(word) = IncludeWord
                            /\ Peek(target, "\"") \/ NameAt(target)}

ClassNames == {p \in 1 .. Size : NameAt(p) /\ WordBefore(p) = ClassWord}

FunctionNames ==
  {p \in 1 .. Size : /\ NameAt(p)
                     /\ WordBefore(p) \notin ControlWords \cup {<<>>}
                     /\ Peek(PastBlanks(RunEnd(p, WordChars)), "(")}

From(rows, kind) == {row.from : row \in {r \in Range(rows) : r.kind = kind}}
-----------------------------------------------------------------------------
(* What the index must be. *)

Row == [kind : {"class", "function", "include"}, from : 1 .. Size, line : Nat, column : Nat]

\* Each include statement outside comments and literals is reported once, in
\* text order, and nothing else is; skipping the three tokens of one
\* statement loses no other.  A comment inside a statement hides it.
IncludesMatchText ==
  pc = "done" =>
    /\ From(includes, "include") = IncludeStatements
    /\ \A i, j \in DOMAIN includes : i < j => includes[i].from < includes[j].from

\* The symbols are the names after a word, before a parenthesis or after the
\* keyword class, outside comments and literals; a name that is both gets two
\* rows, the class first, and the sort and the dedup keep them all.
SymbolsMatchText ==
  pc = "done" =>
    /\ From(symbols, "class") = ClassNames
    /\ From(symbols, "function") = FunctionNames
    /\ \A i, j \in DOMAIN symbols :
         i < j => \/ symbols[i].from < symbols[j].from
                  \/ /\ symbols[i].from = symbols[j].from
                     /\ symbols[i].kind = "class" /\ symbols[j].kind = "function"

\* Every text gets a report: the scan of a file cannot fail once it is read.
Reported == <>(pc = "done")
=============================================================================
