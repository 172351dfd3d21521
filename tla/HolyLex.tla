------------------------------ MODULE HolyLex -------------------------------
(***************************************************************************)
(* The tokenizer of crates/holylex: one step is one turn of the loop of    *)
(* lex_all.  A token is the interval of the text it covers, its kind and   *)
(* the line and column it is reported at; its lexeme is the text of the    *)
(* interval.  Characters are told apart as far as the lexer does.          *)
(***************************************************************************)
EXTENDS Naturals, Sequences, SequencesExt, FiniteSetsExt

CONSTANTS Texts,     \* the source texts
          Space,     \* whitespace other than CR and LF
          Letters,   \* ASCII letters and _
          Digits,    \* ASCII digits
          Symbols,   \* the other characters of is_symbol_start
          Pairs,     \* the two-character symbols, as pairs
          Keywords   \* the words of is_keyword, as sequences

ASSUME TextsAreSequences == \A text \in Texts : text \in Seq(Range(text))

\* No class has the characters that open comments and literals, and the second
\* of a pair opens nothing.
ASSUME CharactersAreApart ==
  /\ (Space \cup Letters \cup Digits) \cap {"/", "\"", "'"} = {}
  /\ Symbols \cap {"\"", "'"} = {}
  /\ \A pair \in Pairs : pair[2] \notin {"/", "\"", "'"}

LF == "\n"
CR == "\r"
Bom == "BOM"
Dot == "."

VARIABLES chars,   \* the text
          index,   \* the position of the next character, from 1
          line, column,
          tokens

vars == <<chars, index, line, column, tokens>>

Init == /\ chars \in Texts
        /\ index = 1
        /\ line = 1
        /\ column = 1
        /\ tokens = <<>>
-----------------------------------------------------------------------------
(* Where a token that starts at i ends: the position after it. *)

Size == Len(chars)

Peek(i, c) == i <= Size /\ chars[i] = c

\* The first position from i on whose character is not one of S.
RunEnd(i, S) == Min({j \in i .. Size + 1 : j = Size + 1 \/ chars[j] \notin S})

WordChars == Letters \cup Digits
NumberChars == Letters \cup Digits \cup {Dot}

\* Only a line feed ends a line comment.
FaultyLineCommentEnd(i) == Min({j \in i .. Size + 1 : j = Size + 1 \/ chars[j] = LF})

LineCommentEnd(i) == Min({j \in i .. Size + 1 : j = Size + 1 \/ chars[j] \in {CR, LF}})

\* The star of the opening may also be the star of the closing.
FaultyBlockCommentEnd(i) ==
  Min({j \in i + 3 .. Size + 1 : chars[j - 2] = "*" /\ chars[j - 1] = "/"} \cup {Size + 1})

\* The body starts two characters on; "/*/" closes nothing.
BlockCommentEnd(i) ==
  Min({j \in i + 4 .. Size + 1 : chars[j - 2] = "*" /\ chars[j - 1] = "/"} \cup {Size + 1})

\* The variable `escaped` of lex_quoted when it reads position k of a literal
\* that starts at i.
Escaped(i) ==
  LET esc[k \in i + 1 .. Size] == k > i + 1 /\ chars[k - 1] = "\\" /\ ~esc[k - 1]
  IN  esc

QuotedEnd(i) ==
  Min({j \in i + 2 .. Size + 1 : chars[j - 1] = chars[i] /\ ~Escaped(i)[j - 1]} \cup {Size + 1})

SymbolEnd(i) == IF i < Size /\ <<chars[i], chars[i + 1]>> \in Pairs THEN i + 2 ELSE i + 1
-----------------------------------------------------------------------------
(* Emitting a token and bumping over its characters. *)

Emit(kind, end) ==
  tokens' = Append(tokens, [kind |-> kind, from |-> index, to |-> end,
                            line |-> line, column |-> column])

LineFeeds(from, to) == {p \in from .. to - 1 : chars[p] = LF}

\* The column is not reset by a line feed.
FaultyBumpNoReset(end) ==
  /\ index' = end
  /\ line' = line + Cardinality(LineFeeds(index, end))
  /\ column' = column + (end - index)
  /\ UNCHANGED chars

\* bump, from the next character up to `end`: a line feed starts a line, any
\* other character, a CR too, is one column.
BumpTo(end) ==
  LET feeds == LineFeeds(index, end)
  IN  /\ index' = end
      /\ line' = line + Cardinality(feeds)
      /\ column' = IF feeds = {} THEN column + (end - index) ELSE end - Max(feeds)
      /\ UNCHANGED chars

Lex(kind, end) == Emit(kind, end) /\ BumpTo(end)

More == index <= Size

\* The byte order mark is not stepped over.
FaultySkipBom ==
  /\ More
  /\ chars[index] = Bom
  /\ UNCHANGED vars

\* A byte order mark between tokens is dropped and takes no column.
SkipBom ==
  /\ More
  /\ chars[index] = Bom
  /\ index' = index + 1
  /\ UNCHANGED <<chars, line, column, tokens>>

\* A CR always takes the next character with it.
FaultyNewlineSwallow ==
  /\ More
  /\ chars[index] \in {CR, LF}
  /\ Emit("Newline", index + 1)
  /\ index' = IF chars[index] = CR /\ index < Size THEN index + 2 ELSE index + 1
  /\ line' = line + 1
  /\ column' = 1
  /\ UNCHANGED chars

LexNewline ==
  /\ More
  /\ chars[index] \in {CR, LF}
  /\ LET end == IF chars[index] = CR /\ Peek(index + 1, LF) THEN index + 2 ELSE index + 1
     IN  /\ Emit("Newline", end)
         /\ index' = end
  /\ line' = line + 1
  /\ column' = 1
  /\ UNCHANGED chars

LexWhitespace ==
  /\ More
  /\ chars[index] \in Space
  /\ Lex("Whitespace", RunEnd(index, Space))

AtLineComment == Peek(index, "/") /\ Peek(index + 1, "/")
AtBlockComment == Peek(index, "/") /\ Peek(index + 1, "*")

LexLineComment == More /\ AtLineComment /\ Lex("Comment", LineCommentEnd(index))

LexBlockComment == More /\ AtBlockComment /\ Lex("Comment", BlockCommentEnd(index))

LexQuoted ==
  /\ More
  /\ chars[index] \in {"\"", "'"}
  /\ Lex(IF chars[index] = "'" THEN "Char" ELSE "String", QuotedEnd(index))

LexIdentOrKeyword ==
  /\ More
  /\ chars[index] \in Letters
  /\ LET end == RunEnd(index, WordChars)
         word == SubSeq(chars, index, end - 1)
     IN  Lex(IF word \in Keywords THEN "Keyword" ELSE "Ident", end)

LexNumber ==
  /\ More
  /\ chars[index] \in Digits
  /\ Lex("Number", RunEnd(index, NumberChars))

SymbolStart == Symbols \cup {"/", "*", Dot}

LexSymbol ==
  /\ More
  /\ chars[index] \in SymbolStart
  /\ ~AtLineComment /\ ~AtBlockComment
  /\ Lex("Symbol", SymbolEnd(index))

LexUnknown ==
  /\ More
  /\ chars[index] \notin {CR, LF, Bom, "\"", "'"} \cup Space \cup WordChars \cup SymbolStart
  /\ Lex("Unknown", index + 1)

Next == \/ SkipBom \/ LexNewline \/ LexWhitespace \/ LexLineComment
        \/ LexBlockComment \/ LexQuoted \/ LexIdentOrKeyword \/ LexNumber
        \/ LexSymbol \/ LexUnknown

Spec == Init /\ [][Next]_vars /\ WF_vars(Next)
-----------------------------------------------------------------------------
(* What the tokens must be. *)

Kinds == {"Ident", "Keyword", "Number", "String", "Char", "Comment", "Symbol",
          "Whitespace", "Newline", "Unknown"}

Token == [kind : Kinds, from : Nat, to : Nat, line : Nat, column : Nat]

TypeOK ==
  /\ chars \in Texts
  /\ index \in 1 .. Size + 1
  /\ line \in Nat \ {0} /\ column \in Nat \ {0}
  /\ tokens \in Seq(Token)

\* Where the text after the first k tokens starts.
Reached(k) == IF k = 0 THEN 1 ELSE tokens[k].to

\* The tokens cut the text up to `index` into non-empty pieces, in order and
\* without overlap; between two of them only byte order marks are dropped.
Tiling ==
  /\ \A k \in DOMAIN tokens :
       /\ Reached(k - 1) <= tokens[k].from
       /\ tokens[k].from < tokens[k].to
       /\ \A p \in Reached(k - 1) .. tokens[k].from - 1 : chars[p] = Bom
  /\ Reached(Len(tokens)) <= index
  /\ \A p \in Reached(Len(tokens)) .. index - 1 : chars[p] = Bom

\* The token is a run of characters of S and stops only where the run does.
WholeRun(t, S) ==
  /\ \A p \in t.from .. t.to - 1 : chars[p] \in S
  /\ t.to = Size + 1 \/ chars[t.to] \notin S

\* The token goes up to the first character of S and does not take it.
UpTo(t, S) ==
  /\ \A p \in t.from .. t.to - 1 : chars[p] \notin S
  /\ t.to = Size + 1 \/ chars[t.to] \in S

\* The token goes through the first of the positions `closings`, or to the end
\* of a text that has none.
Through(t, closings) ==
  /\ \A p \in closings : t.to <= p + 1
  /\ t.to = Size + 1 \/ t.to - 1 \in closings

StarSlashes(i) == {p \in i + 3 .. Size : chars[p - 1] = "*" /\ chars[p] = "/"}
ClosingQuotes(i) == {p \in i + 1 .. Size : chars[p] = chars[i] /\ ~Escaped(i)[p]}
PairAt(i) == i < Size /\ <<chars[i], chars[i + 1]>> \in Pairs

Whole(t) ==
  \/ t.kind \in {"Ident", "Keyword"} /\ WholeRun(t, WordChars)
  \/ t.kind = "Number" /\ WholeRun(t, NumberChars)
  \/ t.kind = "Whitespace" /\ WholeRun(t, Space)
  \/ /\ t.kind = "Newline"
     /\ t.to = t.from + (IF chars[t.from] = CR /\ Peek(t.from + 1, LF) THEN 2 ELSE 1)
  \/ t.kind = "Comment" /\ Peek(t.from + 1, "/") /\ UpTo(t, {CR, LF})
  \/ t.kind = "Comment" /\ Peek(t.from + 1, "*") /\ Through(t, StarSlashes(t.from))
  \/ t.kind \in {"String", "Char"} /\ Through(t, ClosingQuotes(t.from))
  \/ /\ t.kind = "Symbol"
     /\ t.to = t.from + (IF PairAt(t.from) THEN 2 ELSE 1)
     /\ chars[t.from] = "/" => ~Peek(t.from + 1, "/") /\ ~Peek(t.from + 1, "*")
  \/ t.kind = "Unknown" /\ t.to = t.from + 1

\* Each token is as long as its kind allows and no longer: no word, number, run
\* of blanks, CR LF or two-character symbol is cut in two, a line comment goes
\* to the end of its line and not past it, and a block comment or a literal
\* goes through the first thing that closes it, or to the end of the text.
LongestMatch == \A k \in DOMAIN tokens : Whole(tokens[k])

\* The place an editor shows for position p of a text whose line ends are LF
\* or CR LF: the byte order marks the lexer dropped take no column.
LinesBefore(p) == LineFeeds(1, p)
LineStart(p) == IF LinesBefore(p) = {} THEN 1 ELSE Max(LinesBefore(p)) + 1
Covered(p) == \E k \in DOMAIN tokens : p \in tokens[k].from .. tokens[k].to - 1
Dropped(p) == {q \in LineStart(p) .. p - 1 : ~Covered(q)}

OrdinaryLineEnds == \A p \in 1 .. Size : chars[p] = CR => Peek(p + 1, LF)

PlacesAreExact ==
  OrdinaryLineEnds =>
    \A k \in DOMAIN tokens :
      LET t == tokens[k]
      IN  /\ t.line = 1 + Cardinality(LinesBefore(t.from))
          /\ t.column = t.from - LineStart(t.from) + 1 - Cardinality(Dropped(t.from))

\* A reader that goes over the text once, character by character, and only
\* remembers what it is inside of: the mode at p after the mode at p - 1.
Opens(p) ==
  CASE Peek(p, "/") /\ Peek(p + 1, "/") -> "line"
    [] Peek(p, "/") /\ Peek(p + 1, "*") -> "slash"
    [] Peek(p, "\"") -> "string"
    [] Peek(p, "'") -> "char"
    [] OTHER -> "code"

InLiteral(mode, escape, quote, p) ==
  CASE Peek(p, "\\") -> escape
    [] Peek(p, quote) -> "end"
    [] OTHER -> mode

ModeAfter(m, p) ==
  CASE m = "slash" -> "star"
    [] m \in {"star", "block"} -> IF Peek(p, "*") /\ Peek(p + 1, "/")
                                  THEN "closing" ELSE "block"
    [] m = "closing" -> "end"
    [] m = "line" -> IF chars[p] \in {CR, LF} THEN "code" ELSE "line"
    [] m = "string" -> InLiteral("string", "string-escape", "\"", p)
    [] m = "char" -> InLiteral("char", "char-escape", "'", p)
    [] m = "string-escape" -> "string"
    [] m = "char-escape" -> "char"
    [] OTHER -> Opens(p)

Inside ==
  LET mode[p \in 0 .. Size] == IF p = 0 THEN "code" ELSE ModeAfter(mode[p - 1], p)
  IN  mode

\* What is inside comments and literals for that reader is inside Comment,
\* String and Char tokens for the lexer, and nothing else is.
CommentsAndLiteralsAgree ==
  LET mode == Inside
  IN  \A k \in DOMAIN tokens : \A p \in tokens[k].from .. tokens[k].to - 1 :
        mode[p] = "code" <=> tokens[k].kind \notin {"Comment", "String", "Char"}

\* The whole text is consumed.
Terminates == <>(index = Size + 1)
=============================================================================
