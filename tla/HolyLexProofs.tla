--------------------------- MODULE HolyLexProofs ----------------------------
(***************************************************************************)
(* Proofs about the tokenizer, and the indexer that reads its tokens, for  *)
(* every text.                                                             *)
(***************************************************************************)
EXTENDS HolyIndex, SequenceLemmas, FiniteSetTheorems

\* A text is a function on 1 .. Size.
LEMMA TextFacts ==
  ASSUME chars \in Texts
  PROVE  /\ chars \in Seq(Range(chars))
         /\ Size \in Nat
         /\ DOMAIN chars = 1 .. Size
BY TextsAreSequences, LenProperties DEF Size

-----------------------------------------------------------------------------
\* Every token function ends after its start and within the text.
LEMMA RunEndBounds ==
  ASSUME Size \in Nat, NEW i \in 1 .. Size, NEW S, chars[i] \in S
  PROVE  /\ RunEnd(i, S) \in i + 1 .. Size + 1
         /\ RunEnd(i, S) = Size + 1 \/ chars[RunEnd(i, S)] \notin S
<1> DEFINE E == {j \in i .. Size + 1 : j = Size + 1 \/ chars[j] \notin S}
<1>1. E \in SUBSET Nat /\ Size + 1 \in E
  OBVIOUS
<1>2. Min(E) \in E
  BY <1>1, MinInSet
<1>3. i \notin E
  OBVIOUS
<1> QED
  BY <1>2, <1>3 DEF RunEnd

LEMMA LineCommentEndBounds ==
  ASSUME Size \in Nat, NEW i \in 1 .. Size, chars[i] \notin {CR, LF}
  PROVE  LineCommentEnd(i) \in i + 1 .. Size + 1
<1> DEFINE E == {j \in i .. Size + 1 : j = Size + 1 \/ chars[j] \in {CR, LF}}
<1>1. E \in SUBSET Nat /\ Size + 1 \in E
  OBVIOUS
<1>2. Min(E) \in E
  BY <1>1, MinInSet
<1>3. i \notin E
  OBVIOUS
<1> QED
  BY <1>2, <1>3 DEF LineCommentEnd

LEMMA BlockCommentEndBounds ==
  ASSUME Size \in Nat, NEW i \in 1 .. Size
  PROVE  BlockCommentEnd(i) \in i + 1 .. Size + 1
<1> DEFINE E == {j \in i + 4 .. Size + 1 : chars[j - 2] = "*" /\ chars[j - 1] = "/"}
                  \cup {Size + 1}
<1>1. E \in SUBSET Nat /\ E # {}
  OBVIOUS
<1>2. Min(E) \in E
  BY <1>1, MinInSet
<1> QED
  BY <1>2 DEF BlockCommentEnd

LEMMA QuotedEndBounds ==
  ASSUME Size \in Nat, NEW i \in 1 .. Size
  PROVE  QuotedEnd(i) \in i + 1 .. Size + 1
<1> DEFINE E == {j \in i + 2 .. Size + 1 : chars[j - 1] = chars[i] /\ ~Escaped(i)[j - 1]}
                  \cup {Size + 1}
<1>1. E \in SUBSET Nat /\ E # {}
  OBVIOUS
<1>2. Min(E) \in E
  BY <1>1, MinInSet
<1> QED
  BY <1>2 DEF QuotedEnd

LEMMA SymbolEndBounds ==
  ASSUME Size \in Nat, NEW i \in 1 .. Size
  PROVE  /\ SymbolEnd(i) \in i + 1 .. Size + 1
         /\ SymbolEnd(i) = i + (IF PairAt(i) THEN 2 ELSE 1)
BY DEF SymbolEnd, PairAt

\* And where the token must end.
LEMMA RunIsWhole ==
  ASSUME Size \in Nat, NEW i \in 1 .. Size, NEW S, chars[i] \in S, NEW t,
         t.from = i, t.to = RunEnd(i, S)
  PROVE  RunEnd(i, S) \in i + 1 .. Size + 1 /\ WholeRun(t, S)
<1> DEFINE E == {j \in i .. Size + 1 : j = Size + 1 \/ chars[j] \notin S}
<1>1. E \in SUBSET Nat /\ Size + 1 \in E
  OBVIOUS
<1> PICK m : m = Min(E)
  OBVIOUS
<1>2. m \in E /\ \A y \in E : m <= y
  BY <1>1, MinInSet
<1>3. i \notin E /\ RunEnd(i, S) = m
  BY DEF RunEnd
<1>4. m \in i + 1 .. Size + 1 /\ (m = Size + 1 \/ chars[m] \notin S)
  BY <1>2, <1>3
<1>5. ASSUME NEW p \in i .. m - 1 PROVE chars[p] \in S
  BY <1>2, <1>4
<1> HIDE DEF E
<1> QED
  BY <1>3, <1>4, <1>5 DEF WholeRun

LEMMA LineIsWhole ==
  ASSUME Size \in Nat, NEW i \in 1 .. Size, chars[i] \notin {CR, LF}, NEW t,
         t.from = i, t.to = LineCommentEnd(i)
  PROVE  LineCommentEnd(i) \in i + 1 .. Size + 1 /\ UpTo(t, {CR, LF})
<1> DEFINE E == {j \in i .. Size + 1 : j = Size + 1 \/ chars[j] \in {CR, LF}}
<1>1. E \in SUBSET Nat /\ Size + 1 \in E
  OBVIOUS
<1> PICK m : m = Min(E)
  OBVIOUS
<1>2. m \in E /\ \A y \in E : m <= y
  BY <1>1, MinInSet
<1>3. i \notin E /\ LineCommentEnd(i) = m
  BY DEF LineCommentEnd
<1>4. m \in i + 1 .. Size + 1 /\ (m = Size + 1 \/ chars[m] \in {CR, LF})
  BY <1>2, <1>3
<1>5. ASSUME NEW p \in i .. m - 1 PROVE chars[p] \notin {CR, LF}
  BY <1>2, <1>4
<1> HIDE DEF E
<1> QED
  BY <1>3, <1>4, <1>5 DEF UpTo

LEMMA BlockIsWhole ==
  ASSUME Size \in Nat, NEW i \in 1 .. Size, NEW t,
         t.from = i, t.to = BlockCommentEnd(i)
  PROVE  BlockCommentEnd(i) \in i + 1 .. Size + 1 /\ Through(t, StarSlashes(i))
<1> DEFINE E == {j \in i + 4 .. Size + 1 : chars[j - 2] = "*" /\ chars[j - 1] = "/"}
                  \cup {Size + 1}
<1>1. E \in SUBSET Nat /\ E # {}
  OBVIOUS
<1> PICK m : m = Min(E)
  OBVIOUS
<1>2. m \in E /\ \A y \in E : m <= y
  BY <1>1, MinInSet
<1>3. BlockCommentEnd(i) = m
  BY DEF BlockCommentEnd
<1>4. m \in i + 1 .. Size + 1
  BY <1>2
<1>5. ASSUME NEW p \in StarSlashes(i) PROVE m <= p + 1
  <2>1. /\ p \in i + 3 .. Size /\ chars[p - 1] = "*" /\ chars[p] = "/"
        /\ (p + 1) - 2 = p - 1 /\ (p + 1) - 1 = p
    BY DEF StarSlashes
  <2>2. p + 1 \in E
    BY <2>1
  <2> QED
    BY <1>2, <2>2
<1>6. m = Size + 1 \/ m - 1 \in StarSlashes(i)
  <2>1. CASE m # Size + 1
    <3>1. /\ m \in i + 4 .. Size + 1 /\ chars[m - 2] = "*" /\ chars[m - 1] = "/"
          /\ (m - 1) - 1 = m - 2 /\ m - 1 \in i + 3 .. Size
      BY <1>2, <2>1
    <3> QED
      BY <3>1 DEF StarSlashes
  <2> QED
    BY <2>1
<1> HIDE DEF E
<1> QED
  BY <1>3, <1>4, <1>5, <1>6 DEF Through

LEMMA QuoteIsWhole ==
  ASSUME Size \in Nat, NEW i \in 1 .. Size, NEW t,
         t.from = i, t.to = QuotedEnd(i)
  PROVE  QuotedEnd(i) \in i + 1 .. Size + 1 /\ Through(t, ClosingQuotes(i))
<1> DEFINE E == {j \in i + 2 .. Size + 1 : chars[j - 1] = chars[i] /\ ~Escaped(i)[j - 1]}
                  \cup {Size + 1}
<1>1. E \in SUBSET Nat /\ E # {}
  OBVIOUS
<1> PICK m : m = Min(E)
  OBVIOUS
<1>2. m \in E /\ \A y \in E : m <= y
  BY <1>1, MinInSet
<1>3. QuotedEnd(i) = m
  BY DEF QuotedEnd
<1>4. m \in i + 1 .. Size + 1
  BY <1>2
<1>5. ASSUME NEW p \in ClosingQuotes(i) PROVE m <= p + 1
  <2>1. /\ p \in i + 1 .. Size /\ chars[p] = chars[i] /\ ~Escaped(i)[p]
        /\ (p + 1) - 1 = p
    BY DEF ClosingQuotes
  <2>2. p + 1 \in E
    BY <2>1
  <2> QED
    BY <1>2, <2>2
<1>6. m = Size + 1 \/ m - 1 \in ClosingQuotes(i)
  <2>1. CASE m # Size + 1
    <3>1. /\ m - 1 \in i + 1 .. Size /\ chars[m - 1] = chars[i] /\ ~Escaped(i)[m - 1]
      BY <1>2, <2>1
    <3> QED
      BY <3>1 DEF ClosingQuotes
  <2> QED
    BY <2>1
<1> HIDE DEF E
<1> QED
  BY <1>3, <1>4, <1>5, <1>6 DEF Through

\* What makes a token whole is in the text alone.
LEMMA WholeKeeps ==
  ASSUME UNCHANGED chars, NEW CONSTANT t
  PROVE  Whole(t)' <=> Whole(t)
<1>1. Size' = Size
  BY DEF Size
<1>2. \A i : Escaped(i)' = Escaped(i)
  BY <1>1 DEF Escaped
<1>3. \A i : ClosingQuotes(i)' = ClosingQuotes(i)
  BY <1>1, <1>2 DEF ClosingQuotes
<1>4. \A i : StarSlashes(i)' = StarSlashes(i)
  BY <1>1 DEF StarSlashes
<1> QED
  BY <1>1, <1>3, <1>4 DEF Whole, WholeRun, UpTo, Through, PairAt, Peek

-----------------------------------------------------------------------------
IInv == TypeOK /\ Tiling /\ LongestMatch

\* Bumping to a later position keeps line and column positive.
LEMMA BumpPlaces ==
  ASSUME TypeOK, More, NEW end \in index + 1 .. Size + 1, BumpTo(end)
  PROVE  line' \in Nat \ {0} /\ column' \in Nat \ {0}
<1> DEFINE feeds == LineFeeds(index, end)
<1>1. index \in Nat /\ end \in Nat /\ Size \in Nat /\ index >= 1
  BY TextFacts DEF TypeOK
<1>2. feeds \subseteq index .. end - 1
  BY DEF LineFeeds
<1>3. IsFiniteSet(index .. end - 1)
  BY <1>1, FS_Interval
<1>4. IsFiniteSet(feeds)
  BY <1>2, <1>3, FS_Subset
<1>5. Cardinality(feeds) \in Nat
  BY <1>4, FS_CardinalityType
<1>6. line' = line + Cardinality(feeds)
  BY DEF BumpTo
<1>7. line' \in Nat \ {0}
  BY <1>5, <1>6 DEF TypeOK
<1>8. CASE feeds = {}
  <2>1. column' = column + (end - index)
    BY <1>8 DEF BumpTo
  <2> QED
    BY <1>1, <1>7, <2>1 DEF TypeOK
<1>9. CASE feeds # {}
  <2>1. column' = end - Max(feeds)
    BY <1>9 DEF BumpTo
  <2>2. feeds \in SUBSET Nat /\ \A x \in feeds : x <= end
    BY <1>1, <1>2
  <2>3. Max(feeds) \in feeds
    BY <1>1, <1>9, <2>2, MaxInSet
  <2>4. Max(feeds) \in index .. end - 1
    BY <1>2, <2>3
  <2> QED
    BY <1>1, <1>7, <2>1, <2>4
<1> QED
  BY <1>8, <1>9

\* The token a step appends, and where it leaves the tokens and the text.
LEMMA EmitKeeps ==
  ASSUME IInv, More, NEW kind \in Kinds, NEW end \in index + 1 .. Size + 1,
         Emit(kind, end), index' = end, UNCHANGED chars,
         line' \in Nat \ {0}, column' \in Nat \ {0},
         Whole([kind |-> kind, from |-> index, to |-> end,
                line |-> line, column |-> column])
  PROVE  IInv'
<1> DEFINE t == [kind |-> kind, from |-> index, to |-> end,
                 line |-> line, column |-> column]
<1>1. /\ index \in 1 .. Size /\ end \in Nat /\ Size \in Nat
      /\ chars \in Texts /\ tokens \in Seq(Token)
  BY TextFacts DEF IInv, TypeOK, More
<1>2. t \in Token
  BY <1>1 DEF Token, IInv, TypeOK
<1>3. tokens' = Append(tokens, t)
  BY DEF Emit
<1> PICK n \in Nat : n = Len(tokens)
  BY <1>1, LenProperties
<1>4. /\ n = Len(tokens)
      /\ DOMAIN tokens = 1 .. n
      /\ tokens' \in Seq(Token)
      /\ DOMAIN tokens' = 1 .. n + 1
      /\ Len(tokens') = n + 1
      /\ \A k \in 1 .. n : tokens'[k] = tokens[k]
      /\ tokens'[n + 1] = t
  BY <1>1, <1>2, <1>3, AppendProperties, LenProperties
<1>5. Size' = Size
  BY DEF Size
<1>6. TypeOK'
  BY <1>1, <1>4, <1>5 DEF TypeOK, IInv
<1>7. \A k \in 0 .. n : Reached(k)' = Reached(k)
  BY <1>4 DEF Reached
<1>8. Reached(n + 1)' = end
  BY <1>4 DEF Reached
<1>9. Tiling'
  <2>1. ASSUME NEW k \in 1 .. n + 1
        PROVE  /\ Reached(k - 1)' <= tokens'[k].from
               /\ tokens'[k].from < tokens'[k].to
               /\ \A p \in Reached(k - 1)' .. tokens'[k].from - 1 : chars[p] = Bom
    <3>1. CASE k \in 1 .. n
      <4>1. tokens'[k] = tokens[k] /\ Reached(k - 1)' = Reached(k - 1)
        BY <1>4, <1>7, <3>1
      <4> QED
        BY <1>4, <3>1, <4>1 DEF IInv, Tiling
    <3>2. CASE k = n + 1
      <4>1. Reached(k - 1)' = Reached(n)
        BY <1>4, <1>7, <3>2
      <4>2. tokens'[k].from = index /\ tokens'[k].to = end
        BY <1>4, <3>2
      <4>3. /\ Reached(n) <= index
            /\ \A p \in Reached(n) .. index - 1 : chars[p] = Bom
        BY DEF IInv, Tiling
      <4> QED
        BY <1>1, <4>1, <4>2, <4>3
    <3> QED
      BY <1>4, <3>1, <3>2
  <2>2. Reached(Len(tokens))' = end
    BY <1>4, <1>8
  <2>3. Reached(Len(tokens))' <= index'
    BY <1>1, <2>2
  <2>4. \A p \in Reached(Len(tokens))' .. index' - 1 : chars'[p] = Bom
    BY <1>1, <2>2
  <2> QED
    BY <1>4, <2>1, <2>3, <2>4 DEF Tiling
<1>10. LongestMatch'
  <2>1. ASSUME NEW k \in 1 .. n + 1 PROVE Whole(tokens[k])'
    <3> PICK u : u = tokens'[k]
      OBVIOUS
    <3>1. Whole(u)
      <4>1. CASE k \in 1 .. n
        <5>1. u = tokens[k] /\ k \in DOMAIN tokens
          BY <1>4, <4>1
        <5> QED
          BY <5>1 DEF IInv, LongestMatch
      <4>2. CASE k = n + 1
        BY <1>4, <4>2
      <4> QED
        BY <1>4, <4>1, <4>2
    <3>2. Whole(u)'
      BY <3>1, WholeKeeps
    <3> QED
      BY <3>2
  <2> QED
    BY <1>4, <2>1 DEF LongestMatch
<1> QED
  BY <1>6, <1>9, <1>10 DEF IInv

\* The same for the actions that bump over their token.
LEMMA LexKeeps ==
  ASSUME IInv, More, NEW kind \in Kinds \ {"Newline"}, NEW end \in index + 1 .. Size + 1,
         Lex(kind, end),
         Whole([kind |-> kind, from |-> index, to |-> end,
                line |-> line, column |-> column])
  PROVE  IInv'
<1>1. Emit(kind, end) /\ BumpTo(end) /\ index' = end /\ UNCHANGED chars
  BY DEF Lex, BumpTo
<1>2. line' \in Nat \ {0} /\ column' \in Nat \ {0}
  BY <1>1, BumpPlaces DEF IInv
<1> QED
  BY <1>1, <1>2, EmitKeeps

-----------------------------------------------------------------------------
LEMMA InitInv == ASSUME Init PROVE IInv
<1>1. Size \in Nat
  BY TextFacts DEF Init
<1>2. TypeOK
  BY <1>1, EmptySeq DEF Init, TypeOK
<1>3. DOMAIN tokens = {} /\ Len(tokens) = 0
  BY DEF Init
<1>4. Tiling
  BY <1>3 DEF Init, Tiling, Reached
<1>5. LongestMatch
  BY <1>3 DEF LongestMatch
<1> QED
  BY <1>2, <1>4, <1>5 DEF IInv

LEMMA SkipBomStep == ASSUME IInv, SkipBom PROVE IInv'
<1>1. index \in 1 .. Size /\ Size \in Nat /\ Len(tokens) \in Nat
  BY TextFacts, LenProperties DEF IInv, TypeOK, SkipBom, More
<1>2. TypeOK'
  BY <1>1 DEF IInv, TypeOK, SkipBom, Size
<1>3. \A k : Reached(k)' = Reached(k)
  BY DEF SkipBom, Reached
<1>4. Reached(Len(tokens)) \in Nat
  <2>1. CASE Len(tokens) = 0
    BY <2>1 DEF Reached
  <2>2. CASE Len(tokens) # 0
    <3>1. Len(tokens) \in 1 .. Len(tokens)
      BY <1>1, <2>2
    <3>2. tokens[Len(tokens)] \in Token
      BY <3>1, ElementOfSeq DEF IInv, TypeOK
    <3> QED
      BY <2>2, <3>2 DEF Reached, Token
  <2> QED
    BY <2>1, <2>2
<1>5. Tiling'
  BY <1>1, <1>3, <1>4 DEF IInv, Tiling, SkipBom
<1>6. LongestMatch'
  <2>1. ASSUME NEW k \in DOMAIN tokens PROVE Whole(tokens[k])'
    <3> PICK u : u = tokens[k]
      OBVIOUS
    <3>1. Whole(u)'
      BY WholeKeeps DEF IInv, LongestMatch, SkipBom
    <3> QED
      BY <3>1 DEF SkipBom
  <2> QED
    BY <2>1 DEF LongestMatch, SkipBom
<1> QED
  BY <1>2, <1>5, <1>6 DEF IInv

LEMMA LexNewlineStep == ASSUME IInv, LexNewline PROVE IInv'
<1> DEFINE end == IF chars[index] = CR /\ Peek(index + 1, LF) THEN index + 2 ELSE index + 1
<1>1. index \in 1 .. Size /\ Size \in Nat
  BY TextFacts DEF IInv, TypeOK, LexNewline, More
<1>2. end \in index + 1 .. Size + 1
  BY <1>1 DEF Peek
<1>3. /\ Emit("Newline", end) /\ index' = end /\ UNCHANGED chars
      /\ line' \in Nat \ {0} /\ column' \in Nat \ {0}
  BY DEF LexNewline, IInv, TypeOK
<1>4. Whole([kind |-> "Newline", from |-> index, to |-> end,
             line |-> line, column |-> column])
  BY DEF Whole
<1>5. "Newline" \in Kinds /\ More
  BY DEF Kinds, LexNewline
<1> HIDE DEF end
<1> QED
  BY <1>2, <1>3, <1>4, <1>5, EmitKeeps

LEMMA NextInv == ASSUME IInv, [Next]_vars PROVE IInv'
<1>1. More => index \in 1 .. Size /\ Size \in Nat
  BY TextFacts DEF IInv, TypeOK, More
<1>2. CASE SkipBom
  BY <1>2, SkipBomStep
<1>3. CASE LexNewline
  BY <1>3, LexNewlineStep
<1>4. CASE LexWhitespace
  <2> DEFINE end == RunEnd(index, Space)
  <2>1. More /\ Lex("Whitespace", end) /\ chars[index] \in Space
    BY <1>4 DEF LexWhitespace
  <2> DEFINE t == [kind |-> "Whitespace", from |-> index, to |-> end,
                   line |-> line, column |-> column]
  <2>2. end \in index + 1 .. Size + 1 /\ WholeRun(t, Space)
    BY <1>1, <2>1, RunIsWhole
  <2>3. Whole(t)
    BY <2>2 DEF Whole
  <2> HIDE DEF end
  <2> QED
    BY <2>1, <2>2, <2>3, LexKeeps DEF Kinds
<1>5. CASE LexLineComment
  <2> DEFINE end == LineCommentEnd(index)
             t == [kind |-> "Comment", from |-> index, to |-> end,
                   line |-> line, column |-> column]
  <2>1. More /\ Lex("Comment", end) /\ chars[index] = "/" /\ Peek(index + 1, "/")
    BY <1>5 DEF LexLineComment, AtLineComment, Peek
  <2>2. end \in index + 1 .. Size + 1 /\ UpTo(t, {CR, LF})
    BY <1>1, <2>1, LineIsWhole DEF CR, LF
  <2>3. Whole(t)
    BY <2>1, <2>2 DEF Whole
  <2> HIDE DEF end
  <2> QED
    BY <2>1, <2>2, <2>3, LexKeeps DEF Kinds
<1>6. CASE LexBlockComment
  <2> DEFINE end == BlockCommentEnd(index)
             t == [kind |-> "Comment", from |-> index, to |-> end,
                   line |-> line, column |-> column]
  <2>1. More /\ Lex("Comment", end) /\ Peek(index + 1, "*")
    BY <1>6 DEF LexBlockComment, AtBlockComment
  <2>2. end \in index + 1 .. Size + 1 /\ Through(t, StarSlashes(index))
    BY <1>1, <2>1, BlockIsWhole
  <2>3. Whole(t)
    BY <2>1, <2>2 DEF Whole
  <2> HIDE DEF end
  <2> QED
    BY <2>1, <2>2, <2>3, LexKeeps DEF Kinds
<1>7. CASE LexQuoted
  <2> DEFINE end == QuotedEnd(index)
             kind == IF chars[index] = "'" THEN "Char" ELSE "String"
             t == [kind |-> kind, from |-> index, to |-> end,
                   line |-> line, column |-> column]
  <2>1. More /\ Lex(kind, end)
    BY <1>7 DEF LexQuoted
  <2>2. end \in index + 1 .. Size + 1 /\ Through(t, ClosingQuotes(index))
    BY <1>1, <2>1, QuoteIsWhole
  <2>3. kind \in {"Char", "String"}
    OBVIOUS
  <2> HIDE DEF kind
  <2>4. Whole(t)
    BY <2>2, <2>3 DEF Whole
  <2> HIDE DEF end
  <2> QED
    BY <2>1, <2>2, <2>3, <2>4, LexKeeps DEF Kinds
<1>8. CASE LexIdentOrKeyword
  <2> DEFINE end == RunEnd(index, WordChars)
             kind == IF SubSeq(chars, index, end - 1) \in Keywords THEN "Keyword" ELSE "Ident"
             t == [kind |-> kind, from |-> index, to |-> end,
                   line |-> line, column |-> column]
  <2>1. More /\ Lex(kind, end) /\ chars[index] \in WordChars
    BY <1>8 DEF LexIdentOrKeyword, WordChars
  <2>2. end \in index + 1 .. Size + 1 /\ WholeRun(t, WordChars)
    BY <1>1, <2>1, RunIsWhole
  <2>3. kind \in {"Keyword", "Ident"}
    OBVIOUS
  <2> HIDE DEF kind
  <2>4. Whole(t)
    BY <2>2, <2>3 DEF Whole
  <2> HIDE DEF end
  <2> QED
    BY <2>1, <2>2, <2>3, <2>4, LexKeeps DEF Kinds
<1>9. CASE LexNumber
  <2> DEFINE end == RunEnd(index, NumberChars)
             t == [kind |-> "Number", from |-> index, to |-> end,
                   line |-> line, column |-> column]
  <2>1. More /\ Lex("Number", end) /\ chars[index] \in NumberChars
    BY <1>9 DEF LexNumber, NumberChars
  <2>2. end \in index + 1 .. Size + 1 /\ WholeRun(t, NumberChars)
    BY <1>1, <2>1, RunIsWhole
  <2>3. Whole(t)
    BY <2>2 DEF Whole
  <2> HIDE DEF end
  <2> QED
    BY <2>1, <2>2, <2>3, LexKeeps DEF Kinds
<1>10. CASE LexSymbol
  <2> DEFINE end == SymbolEnd(index)
             t == [kind |-> "Symbol", from |-> index, to |-> end,
                   line |-> line, column |-> column]
  <2>1. More /\ Lex("Symbol", end) /\ ~AtLineComment /\ ~AtBlockComment
    BY <1>10 DEF LexSymbol
  <2>2. /\ end \in index + 1 .. Size + 1
        /\ t.to = t.from + (IF PairAt(t.from) THEN 2 ELSE 1)
    BY <1>1, <2>1, SymbolEndBounds
  <2>3. chars[index] = "/" => ~Peek(index + 1, "/") /\ ~Peek(index + 1, "*")
    BY <2>1 DEF AtLineComment, AtBlockComment, More, Peek
  <2>4. Whole(t)
    BY <2>2, <2>3 DEF Whole
  <2> HIDE DEF end
  <2> QED
    BY <2>1, <2>2, <2>4, LexKeeps DEF Kinds
<1>11. CASE LexUnknown
  <2> DEFINE end == index + 1
             t == [kind |-> "Unknown", from |-> index, to |-> end,
                   line |-> line, column |-> column]
  <2>1. More /\ Lex("Unknown", end)
    BY <1>11 DEF LexUnknown
  <2>2. end \in index + 1 .. Size + 1
    BY <1>1, <2>1
  <2>3. Whole(t)
    BY DEF Whole
  <2> HIDE DEF end
  <2> QED
    BY <2>1, <2>2, <2>3, LexKeeps DEF Kinds
<1>12. CASE UNCHANGED vars
  <2>1. TypeOK' /\ Tiling'
    BY <1>12 DEF IInv, vars, TypeOK, Tiling, Reached, Size
  <2>2. ASSUME NEW k \in DOMAIN tokens PROVE Whole(tokens[k])'
    <3> PICK u : u = tokens[k]
      OBVIOUS
    <3>1. Whole(u)'
      BY <1>12, WholeKeeps DEF IInv, LongestMatch, vars
    <3> QED
      BY <1>12, <3>1 DEF vars
  <2>3. LongestMatch'
    BY <1>12, <2>2 DEF LongestMatch, vars
  <2> QED
    BY <2>1, <2>3 DEF IInv
<1> QED
  BY <1>2, <1>3, <1>4, <1>5, <1>6, <1>7, <1>8, <1>9, <1>10, <1>11, <1>12 DEF Next

\* The lexer never leaves the text, and lines and columns stay positive.
THEOREM TypeCorrect == Spec => []TypeOK
BY InitInv, NextInv, PTL DEF Spec, IInv

\* Whatever the text, the tokens cut it into non-empty pieces in order and
\* lose nothing but byte order marks.
THEOREM NothingLost == Spec => []Tiling
BY InitInv, NextInv, PTL DEF Spec, IInv

\* Whatever the text, every token, comments and literals too, is as long as its
\* kind allows and no longer.
THEOREM TokensAreLongest == Spec => []LongestMatch
BY InitInv, NextInv, PTL DEF Spec, IInv

-----------------------------------------------------------------------------
(* Lines and columns. *)

\* The line and the column are those of position p.
Exact(p, l, c) ==
  /\ l = 1 + Cardinality(LinesBefore(p))
  /\ c = p - LineStart(p) + 1 - Cardinality(Dropped(p))

\* The next character is where line and column say, and so was each token's
\* first, none of which the tokens after it have changed.
PlacesInv ==
  /\ IInv
  /\ OrdinaryLineEnds =>
       /\ Exact(index, line, column)
       /\ \A k \in DOMAIN tokens : /\ tokens[k].from \in 1 .. Size /\ tokens[k].to <= index
                                   /\ Exact(tokens[k].from, tokens[k].line, tokens[k].column)

\* The largest of a set.
LEMMA MaxIs ==
  ASSUME NEW S \in SUBSET Nat, NEW m \in S, \A x \in S : x <= m
  PROVE  Max(S) = m
<1>1. Max(S) \in S /\ \A y \in S : y <= Max(S)
  BY MaxInSet
<1>2. Max(S) <= m /\ m <= Max(S) /\ m \in Nat /\ Max(S) \in Nat
  BY <1>1
<1> QED
  BY <1>2

\* What lies before a position.
LEMMA LineFacts ==
  ASSUME Size \in Nat, NEW p \in 1 .. Size + 1
  PROVE  /\ LinesBefore(p) \subseteq 1 .. p - 1
         /\ IsFiniteSet(LinesBefore(p)) /\ Cardinality(LinesBefore(p)) \in Nat
         /\ LineStart(p) \in 1 .. p
         /\ \A q \in LinesBefore(p) : q < LineStart(p)
         /\ Dropped(p) \subseteq LineStart(p) .. p - 1
         /\ IsFiniteSet(Dropped(p)) /\ Cardinality(Dropped(p)) \in Nat
<1>1. LinesBefore(p) \subseteq 1 .. p - 1
  BY DEF LinesBefore, LineFeeds
<1>2. p \in Nat /\ p >= 1
  OBVIOUS
<1>3. LineStart(p) \in 1 .. p /\ \A q \in LinesBefore(p) : q < LineStart(p)
  <2>1. CASE LinesBefore(p) = {}
    BY <1>2, <2>1 DEF LineStart
  <2>2. CASE LinesBefore(p) # {}
    <3>1. LinesBefore(p) \in SUBSET Nat /\ \A x \in LinesBefore(p) : x <= p
      BY <1>1, <1>2
    <3>2. Max(LinesBefore(p)) \in LinesBefore(p)
          /\ \A y \in LinesBefore(p) : y <= Max(LinesBefore(p))
      BY <1>2, <2>2, <3>1, MaxInSet
    <3>3. PICK m : m = Max(LinesBefore(p))
      OBVIOUS
    <3>4. LineStart(p) = m + 1 /\ m \in 1 .. p - 1
      BY <1>1, <2>2, <3>2, <3>3 DEF LineStart
    <3>5. \A q \in LinesBefore(p) : q \in Nat /\ q <= m
      BY <3>1, <3>2, <3>3
    <3> QED
      BY <1>2, <3>4, <3>5
  <2> QED
    BY <2>1, <2>2
<1>4. Dropped(p) \subseteq LineStart(p) .. p - 1
  BY DEF Dropped
<1>5. IsFiniteSet(1 .. p - 1)
  BY <1>2, FS_Interval
<1>6. LineStart(p) .. p - 1 \subseteq 1 .. p - 1
  BY <1>2, <1>3
<1>7. IsFiniteSet(LinesBefore(p)) /\ IsFiniteSet(Dropped(p))
  BY <1>1, <1>4, <1>5, <1>6, FS_Subset
<1> QED
  BY <1>1, <1>3, <1>4, <1>7, FS_CardinalityType

\* A token takes up what it covers.
LEMMA LexPlaces ==
  ASSUME PlacesInv, IInv', OrdinaryLineEnds, More, NEW kind,
         NEW end \in index + 1 .. Size + 1, Lex(kind, end)
  PROVE  PlacesInv'
<1>1. /\ index \in 1 .. Size /\ Size \in Nat /\ chars' = chars /\ Size' = Size
      /\ index' = end /\ end \in 1 .. Size + 1 /\ end > index
  BY TextFacts DEF PlacesInv, IInv, TypeOK, More, Lex, BumpTo, Size
<1>2. /\ tokens' = Append(tokens, [kind |-> kind, from |-> index, to |-> end,
                                   line |-> line, column |-> column])
      /\ tokens \in Seq(Token) /\ tokens' \in Seq(Token)
  BY DEF PlacesInv, IInv, TypeOK, Lex, Emit
<1> PICK n \in Nat : n = Len(tokens)
  BY <1>2, LenProperties
<1>3. /\ DOMAIN tokens = 1 .. n /\ DOMAIN tokens' = 1 .. n + 1
      /\ \A k \in 1 .. n : tokens'[k] = tokens[k]
      /\ tokens'[n + 1].from = index /\ tokens'[n + 1].to = end
      /\ tokens'[n + 1].line = line /\ tokens'[n + 1].column = column
  BY <1>2, AppendProperties, LenProperties
<1>4. \A p \in 1 .. Size + 1 : LinesBefore(p)' = LinesBefore(p) /\ LineStart(p)' = LineStart(p)
  BY <1>1 DEF LinesBefore, LineFeeds, LineStart
<1>5. \A q \in 1 .. Size : Covered(q)' <=> (Covered(q) \/ q \in index .. end - 1)
  BY <1>3 DEF Covered
<1>6. \A p \in 1 .. index : Dropped(p)' = Dropped(p)
  <2> SUFFICES ASSUME NEW p \in 1 .. index PROVE Dropped(p)' = Dropped(p)
    OBVIOUS
  <2>1. p \in 1 .. Size + 1 /\ LineStart(p) \in 1 .. p
    BY <1>1, LineFacts
  <2>2. \A q \in LineStart(p) .. p - 1 : q \in 1 .. Size /\ q \notin index .. end - 1
    BY <1>1, <2>1
  <2> QED
    BY <1>4, <1>5, <2>1, <2>2 DEF Dropped
<1>7. \A p \in 1 .. index : \A l, c : Exact(p, l, c)' <=> Exact(p, l, c)
  <2>1. \A p \in 1 .. index : p \in 1 .. Size + 1
    BY <1>1
  <2> QED
    BY <1>4, <1>6, <2>1 DEF Exact
<1>8. Exact(index, line, column)'
  <2> PICK feeds, before, after : /\ feeds = LineFeeds(index, end)
                                  /\ before = LinesBefore(index)
                                  /\ after = LinesBefore(end)
    OBVIOUS
  <2>1. after = before \cup feeds /\ before \cap feeds = {} /\ feeds \subseteq index .. end - 1
    BY <1>1 DEF LinesBefore, LineFeeds
  <2>2. /\ IsFiniteSet(before) /\ Cardinality(before) \in Nat
        /\ before \subseteq 1 .. index - 1
        /\ IsFiniteSet(after) /\ Cardinality(after) \in Nat
        /\ LineStart(index) \in 1 .. index /\ IsFiniteSet(Dropped(index))
        /\ Cardinality(Dropped(index)) \in Nat
        /\ Dropped(index) \subseteq LineStart(index) .. index - 1
    BY <1>1, LineFacts
  <2>3. Exact(index, line, column)
    BY DEF PlacesInv
  <2>4. /\ line' = line + Cardinality(feeds)
        /\ column' = IF feeds = {} THEN column + (end - index) ELSE end - Max(feeds)
    BY DEF Lex, BumpTo
  <2>5. IsFiniteSet(feeds) /\ Cardinality(feeds) \in Nat
        /\ Cardinality(after) = Cardinality(before) + Cardinality(feeds)
    <3>1. IsFiniteSet(feeds)
      BY <2>1, <2>2, FS_Subset
    <3>2. Cardinality(feeds) \in Nat
      BY <3>1, FS_CardinalityType
    <3>3. Cardinality(after) = Cardinality(before) + Cardinality(feeds) - Cardinality(before \cap feeds)
      BY <2>1, <2>2, <3>1, FS_Union
    <3>4. Cardinality(before \cap feeds) = 0
      BY <2>1, FS_EmptySet
    <3>5. Cardinality(before) \in Nat
      BY <2>2
    <3> QED
      BY ONLY <3>1, <3>2, <3>3, <3>4, <3>5
  <2>6. line' = 1 + Cardinality(after)
    BY <2>2, <2>3, <2>4, <2>5 DEF Exact
  <2>7. LinesBefore(index)' = after
    BY <1>1 DEF LinesBefore, LineFeeds
  <2>8. LineStart(index)' = LineStart(end)
    BY <1>1 DEF LineStart, LinesBefore, LineFeeds
  <2>9. Dropped(index)' = {q \in LineStart(end) .. end - 1 : ~Covered(q)'}
    BY <1>1, <2>8 DEF Dropped
  <2>10. \E dropped : /\ dropped = Dropped(index)'
                      /\ column' = end - LineStart(end) + 1 - Cardinality(dropped)
    <3>1. CASE feeds = {}
      <4>1. LineStart(end) = LineStart(index)
        BY <2>1, <3>1 DEF LineStart
      <4>2. Dropped(index)' = Dropped(index)
        <5>1. \A q \in LineStart(index) .. end - 1 :
                 /\ q \in 1 .. Size
                 /\ q \in LineStart(index) .. index - 1 \/ q \in index .. end - 1
                 /\ ~(q \in LineStart(index) .. index - 1 /\ q \in index .. end - 1)
          BY <1>1, <2>2
        <5>2. LineStart(index) .. index - 1 \subseteq LineStart(index) .. end - 1
          BY <1>1, <2>2
        <5> QED
          BY <1>5, <2>9, <4>1, <5>1, <5>2 DEF Dropped
      <4>3. column = index - LineStart(index) + 1 - Cardinality(Dropped(index))
        BY <2>3 DEF Exact
      <4>4. column' = column + (end - index)
        BY <2>4, <3>1
      <4>5. PICK c1, c2, st, d : c1 = column /\ c2 = column' /\ st = LineStart(index)
                                 /\ d = Cardinality(Dropped(index))
        OBVIOUS
      <4>6. /\ c1 = index - st + 1 - d /\ c2 = c1 + (end - index)
            /\ index \in Int /\ end \in Int /\ st \in Int /\ d \in Int
        BY <1>1, <2>2, <4>3, <4>4, <4>5
      <4>7. c2 = end - st + 1 - d
        BY ONLY <4>6
      <4> QED
        BY <4>1, <4>2, <4>5, <4>7
    <3>2. CASE feeds # {}
      <4>1. feeds \in SUBSET Nat /\ (\A x \in feeds : x <= end) /\ end \in Nat
        BY <1>1, <2>1
      <4>2. Max(feeds) \in feeds /\ \A y \in feeds : y <= Max(feeds)
        BY <3>2, <4>1, MaxInSet
      <4> PICK m : m = Max(feeds)
        OBVIOUS
      <4>3. m \in index .. end - 1 /\ m \in feeds
        BY <2>1, <4>2
      <4>4. \A x \in after : x \in Nat /\ x <= m
        <5>1. \A x \in before : x \in Nat /\ x <= index
          BY <1>1, <2>2
        <5> QED
          BY <1>1, <2>1, <4>1, <4>2, <4>3, <5>1
      <4>5. Max(after) = m
        <5>1. after \in SUBSET Nat /\ m \in after
          BY <2>1, <4>3, <4>4
        <5> QED
          BY <4>4, <5>1, MaxIs
      <4>6. LineStart(end) = m + 1
        BY <2>1, <3>2, <4>5 DEF LineStart
      <4>7. Dropped(index)' = {}
        <5>1. \A q \in m + 1 .. end - 1 : q \in 1 .. Size /\ q \in index .. end - 1
          BY <1>1, <4>3
        <5> QED
          BY <1>5, <2>9, <4>6, <5>1
      <4>8. column' = end - m
        BY <2>4, <3>2
      <4>9. m \in Int /\ end \in Int
        BY <1>1, <4>3
      <4>10. end - m = end - (m + 1) + 1 - 0
        BY ONLY <4>9
      <4> QED
        BY <4>6, <4>7, <4>8, <4>10, FS_EmptySet
    <3> QED
      BY <3>1, <3>2
  <2> QED
    BY <1>1, <2>6, <2>7, <2>8, <2>10 DEF Exact
<1>9. Exact(index, line, column)
  BY DEF PlacesInv
<1>10. ASSUME NEW k \in 1 .. n + 1
       PROVE  /\ tokens'[k].from \in 1 .. Size /\ tokens'[k].to <= end
              /\ Exact(tokens[k].from, tokens[k].line, tokens[k].column)'
  <2> PICK t : t = tokens'[k]
    OBVIOUS
  <2>1. t.from \in 1 .. index /\ t.from \in 1 .. Size /\ t.to <= end
        /\ Exact(t.from, t.line, t.column)
    <3>1. CASE k \in 1 .. n
      <4>1. /\ t = tokens[k] /\ t.from \in 1 .. Size /\ t.to <= index
            /\ Exact(t.from, t.line, t.column)
            /\ t \in Token /\ t.from < t.to
        BY <1>2, <1>3, <3>1, ElementOfSeq DEF PlacesInv, IInv, Tiling
      <4> QED
        BY <1>1, <4>1 DEF Token
    <3>2. CASE k = n + 1
      BY <1>1, <1>3, <1>9, <3>2
    <3> QED
      BY <3>1, <3>2
  <2>2. Exact(t.from, t.line, t.column)'
    BY <1>7, <2>1
  <2>3. LinesBefore(tokens[k].from)' = LinesBefore(t.from)'
    BY DEF LinesBefore, LineFeeds
  <2>4. LineStart(tokens[k].from)' = LineStart(t.from)'
    BY DEF LineStart, LinesBefore, LineFeeds
  <2>5. Dropped(tokens[k].from)' = Dropped(t.from)'
    BY <2>4 DEF Dropped
  <2> QED
    BY <2>1, <2>2, <2>3, <2>4, <2>5 DEF Exact
<1> QED
  BY <1>1, <1>3, <1>8, <1>10 DEF PlacesInv

\* But for what has to do with line ends and the byte order mark, a step is a
\* token and a walk over it.
LEMMA StepsLex ==
  ASSUME IInv, Next
  PROVE  \/ SkipBom
         \/ LexNewline
         \/ More /\ \E kind \in Kinds, end \in index + 1 .. Size + 1 : Lex(kind, end)
<1>1. More => index \in 1 .. Size /\ Size \in Nat
  BY TextFacts DEF IInv, TypeOK, More
<1>2. CASE LexWhitespace
  BY <1>1, <1>2, RunEndBounds DEF LexWhitespace, Kinds
<1>3. CASE LexLineComment
  <2>1. chars[index] = "/"
    BY <1>3 DEF LexLineComment, AtLineComment, Peek
  <2> QED
    BY <1>1, <1>3, <2>1, LineCommentEndBounds DEF LexLineComment, Kinds, CR, LF
<1>4. CASE LexBlockComment
  BY <1>1, <1>4, BlockCommentEndBounds DEF LexBlockComment, Kinds
<1>5. CASE LexQuoted
  BY <1>1, <1>5, QuotedEndBounds DEF LexQuoted, Kinds
<1>6. CASE LexIdentOrKeyword
  <2>1. More /\ chars[index] \in WordChars
    BY <1>6 DEF LexIdentOrKeyword, WordChars
  <2> QED
    BY <1>1, <1>6, <2>1, RunEndBounds DEF LexIdentOrKeyword, Kinds
<1>7. CASE LexNumber
  <2>1. More /\ chars[index] \in NumberChars
    BY <1>7 DEF LexNumber, NumberChars
  <2> QED
    BY <1>1, <1>7, <2>1, RunEndBounds DEF LexNumber, Kinds
<1>8. CASE LexSymbol
  BY <1>1, <1>8, SymbolEndBounds DEF LexSymbol, Kinds
<1>9. CASE LexUnknown
  <2>1. More /\ Lex("Unknown", index + 1)
    BY <1>9 DEF LexUnknown
  <2>2. index + 1 \in index + 1 .. Size + 1 /\ "Unknown" \in Kinds
    BY <1>1, <2>1 DEF Kinds
  <2> QED
    BY <2>1, <2>2
<1> QED
  BY <1>2, <1>3, <1>4, <1>5, <1>6, <1>7, <1>8, <1>9 DEF Next

\* Where every CR is before an LF, a line end is walked over as other tokens
\* are: both of its characters, the last of which starts a line.
LEMMA OrdinaryNewline ==
  ASSUME IInv, OrdinaryLineEnds, LexNewline
  PROVE  \E end \in index + 1 .. Size + 1 : Lex("Newline", end)
<1>1. index \in 1 .. Size /\ Size \in Nat
  BY TextFacts DEF IInv, TypeOK, LexNewline, More
<1>2. PICK end : end = IF chars[index] = CR /\ Peek(index + 1, LF) THEN index + 2 ELSE index + 1
  OBVIOUS
<1>3. /\ chars[index] \in {CR, LF} /\ CR # LF
      /\ Emit("Newline", end) /\ index' = end /\ line' = line + 1 /\ column' = 1
      /\ UNCHANGED chars
  BY <1>2 DEF LexNewline, CR, LF
<1>4. PICK last : end = last + 1 /\ last \in index .. Size /\ LineFeeds(index, end) = {last}
  <2>1. CASE chars[index] = CR
    <3>1. Peek(index + 1, LF) /\ end = index + 2
      BY <1>1, <1>2, <2>1 DEF OrdinaryLineEnds
    <3>2. index + 1 <= Size /\ chars[index + 1] = LF
      BY <3>1 DEF Peek
    <3>3. \A p \in index .. end - 1 : p = index \/ p = index + 1
      BY <1>1, <3>1
    <3>4. LineFeeds(index, end) = {index + 1}
      BY <1>1, <1>3, <2>1, <3>1, <3>2, <3>3 DEF LineFeeds
    <3>5. end = (index + 1) + 1 /\ index + 1 \in index .. Size
      BY <1>1, <3>1, <3>2
    <3> QED
      BY <3>4, <3>5
  <2>2. CASE chars[index] = LF
    <3>1. end = index + 1
      BY <1>2, <1>3, <2>2
    <3>2. LineFeeds(index, end) = {index}
      BY <1>1, <2>2, <3>1 DEF LineFeeds
    <3> QED
      BY <1>1, <3>1, <3>2
  <2> QED
    BY <1>3, <2>1, <2>2
<1>5. Max(LineFeeds(index, end)) = last /\ Cardinality(LineFeeds(index, end)) = 1
  <2>1. LineFeeds(index, end) \in SUBSET Nat /\ last \in LineFeeds(index, end)
        /\ \A x \in LineFeeds(index, end) : x <= last
    BY <1>1, <1>4
  <2> QED
    BY <1>4, <2>1, MaxIs, FS_Singleton
<1>6. end - last = 1 /\ end \in index + 1 .. Size + 1
  BY <1>1, <1>4
<1>7. BumpTo(end)
  BY <1>3, <1>4, <1>5, <1>6 DEF BumpTo
<1> QED
  BY <1>3, <1>6, <1>7 DEF Lex

\* A byte order mark takes no column.
LEMMA SkipBomPlaces ==
  ASSUME PlacesInv, IInv', OrdinaryLineEnds, SkipBom
  PROVE  PlacesInv'
<1>1. /\ index \in 1 .. Size /\ Size \in Nat /\ chars' = chars /\ Size' = Size
      /\ index' = index + 1 /\ chars[index] # LF
      /\ UNCHANGED <<line, column, tokens>>
  BY TextFacts DEF PlacesInv, IInv, TypeOK, More, SkipBom, Size, LF, Bom
<1>2. LinesBefore(index)' = LinesBefore(index)
  BY <1>1 DEF LinesBefore, LineFeeds
<1>3. LineStart(index)' = LineStart(index)
  BY <1>2 DEF LineStart
<1>4. ~Covered(index)
  <2> SUFFICES ASSUME NEW k \in DOMAIN tokens, index \in tokens[k].from .. tokens[k].to - 1
               PROVE  FALSE
    BY DEF Covered
  <2>1. tokens[k].to <= index
    BY DEF PlacesInv
  <2>2. tokens[k] \in Token
    BY ElementOfSeq, LenProperties DEF PlacesInv, IInv, TypeOK
  <2> QED
    BY <1>1, <2>1, <2>2 DEF Token
<1>5. \A q : Covered(q)' <=> Covered(q)
  BY <1>1 DEF Covered
<1>6. LineStart(index) \in 1 .. index /\ IsFiniteSet(Dropped(index))
      /\ Cardinality(Dropped(index)) \in Nat
      /\ Dropped(index) \subseteq LineStart(index) .. index - 1
  BY <1>1, LineFacts
<1>7. Dropped(index)' = Dropped(index) \cup {index}
  <2>1. Dropped(index)' = {q \in LineStart(index) .. index : ~Covered(q)}
    <3>1. index' - 1 = index
      BY <1>1
    <3> QED
      BY <1>3, <1>5, <3>1 DEF Dropped
  <2>2. LineStart(index) .. index = (LineStart(index) .. index - 1) \cup {index}
    BY <1>1, <1>6
  <2> QED
    BY <1>4, <2>1, <2>2 DEF Dropped
<1>8. Cardinality(Dropped(index)') = Cardinality(Dropped(index)) + 1
  <2>1. index \notin Dropped(index)
    BY <1>1, <1>6
  <2> QED
    BY <1>6, <1>7, <2>1, FS_AddElement
<1>9. Exact(index, line, column)'
  <2>1. PICK st, d : st = LineStart(index) /\ d = Cardinality(Dropped(index))
    OBVIOUS
  <2>2. index \in Int /\ st \in Int /\ d \in Int
    BY <1>1, <1>6, <2>1
  <2>3. index - st + 1 - d = (index + 1) - st + 1 - (d + 1)
    BY ONLY <2>2
  <2>4. line = 1 + Cardinality(LinesBefore(index)) /\ column = index - st + 1 - d
    BY <2>1 DEF PlacesInv, Exact
  <2>5. line' = 1 + Cardinality(LinesBefore(index)')
    BY <1>1, <1>2, <2>4
  <2>6. column' = index' - LineStart(index)' + 1 - Cardinality(Dropped(index)')
    BY <1>1, <1>3, <1>8, <2>1, <2>3, <2>4
  <2> QED
    BY <2>5, <2>6 DEF Exact
<1>10. ASSUME NEW k \in DOMAIN tokens
       PROVE  Exact(tokens[k].from, tokens[k].line, tokens[k].column)'
  <2>1. LinesBefore(tokens[k].from)' = LinesBefore(tokens[k].from)
        /\ LineStart(tokens[k].from)' = LineStart(tokens[k].from)
        /\ Dropped(tokens[k].from)' = Dropped(tokens[k].from)
    BY <1>1 DEF LinesBefore, LineFeeds, LineStart, Dropped, Covered
  <2> QED
    BY <1>1, <2>1 DEF PlacesInv, Exact
<1>11. \A k \in DOMAIN tokens : tokens[k].from \in 1 .. Size /\ tokens[k].to <= index + 1
  <2> SUFFICES ASSUME NEW k \in DOMAIN tokens
               PROVE  tokens[k].from \in 1 .. Size /\ tokens[k].to <= index + 1
    OBVIOUS
  <2>1. tokens[k].from \in 1 .. Size /\ tokens[k].to <= index
    BY DEF PlacesInv
  <2>2. tokens[k] \in Token
    BY ElementOfSeq, LenProperties DEF PlacesInv, IInv, TypeOK
  <2> QED
    BY <1>1, <2>1, <2>2 DEF Token
<1> QED
  BY <1>1, <1>9, <1>10, <1>11 DEF PlacesInv

\* No step moves a token's place.
LEMMA PlacesStep == PlacesInv /\ [Next]_vars => PlacesInv'
<1> SUFFICES ASSUME PlacesInv, [Next]_vars PROVE PlacesInv'
  OBVIOUS
<1>1. IInv /\ IInv'
  BY NextInv DEF PlacesInv
<1>2. CASE ~OrdinaryLineEnds
  <2>1. chars' = chars
    BY DEF Next, SkipBom, LexNewline, LexWhitespace, LexLineComment, LexBlockComment,
           LexQuoted, LexIdentOrKeyword, LexNumber, LexSymbol, LexUnknown, Lex, BumpTo, vars
  <2>2. ~OrdinaryLineEnds'
    BY <1>2, <2>1 DEF OrdinaryLineEnds, Peek, Size
  <2> QED
    BY <1>1, <2>2 DEF PlacesInv
<1>3. CASE OrdinaryLineEnds /\ SkipBom
  BY <1>1, <1>3, SkipBomPlaces
<1>4. CASE OrdinaryLineEnds /\ LexNewline
  <2>1. PICK end \in index + 1 .. Size + 1 : Lex("Newline", end)
    BY <1>1, <1>4, OrdinaryNewline
  <2>2. More
    BY <1>4 DEF LexNewline
  <2> QED
    BY <1>1, <1>4, <2>1, <2>2, LexPlaces
<1>5. CASE OrdinaryLineEnds /\ More
           /\ \E kind \in Kinds, end \in index + 1 .. Size + 1 : Lex(kind, end)
  BY <1>1, <1>5, LexPlaces
<1>6. CASE UNCHANGED vars
  <2>1. UNCHANGED <<chars, index, line, column, tokens>>
    BY <1>6 DEF vars
  <2>2. OrdinaryLineEnds' = OrdinaryLineEnds /\ Size' = Size
    BY <2>1 DEF OrdinaryLineEnds, Peek, Size
  <2>3. Exact(index, line, column)' = Exact(index, line, column)
    BY <2>1 DEF Exact, LinesBefore, LineFeeds, LineStart, Dropped, Covered
  <2>4. ASSUME NEW k
        PROVE  Exact(tokens[k].from, tokens[k].line, tokens[k].column)'
                 = Exact(tokens[k].from, tokens[k].line, tokens[k].column)
    BY <2>1 DEF Exact, LinesBefore, LineFeeds, LineStart, Dropped, Covered
  <2> QED
    BY <1>1, <2>1, <2>2, <2>3, <2>4 DEF PlacesInv
<1> QED
  BY <1>1, <1>2, <1>3, <1>4, <1>5, <1>6, StepsLex

\* In a text whose line ends are LF or CR LF every token is reported at the
\* line and column an editor shows for its first character.
THEOREM PlacesAreWhereTheyAre == Spec => []PlacesAreExact
<1>1. Init => PlacesInv
  <2> SUFFICES ASSUME Init PROVE PlacesInv
    OBVIOUS
  <2>1. IInv /\ Size \in Nat
    BY InitInv, TextFacts DEF Init
  <2>2. index = 1 /\ line = 1 /\ column = 1 /\ DOMAIN tokens = {}
    BY DEF Init
  <2>3. LinesBefore(1) = {} /\ LineStart(1) = 1 /\ Dropped(1) = {}
    BY DEF LinesBefore, LineFeeds, LineStart, Dropped
  <2>4. Exact(index, line, column)
    BY <2>2, <2>3, FS_EmptySet DEF Exact
  <2> QED
    BY <2>1, <2>2, <2>4 DEF PlacesInv
<1>2. PlacesInv => PlacesAreExact
  BY DEF PlacesInv, PlacesAreExact, Exact
<1> QED
  BY <1>1, <1>2, PlacesStep, PTL DEF Spec

-----------------------------------------------------------------------------
(* Comments and literals: the lexer, which jumps from token to token, and the *)
(* reader, which goes from character to character.                            *)

\* There is such a reader.
LEMMA ReaderIs ==
  ASSUME Size \in Nat
  PROVE  /\ Inside[0] = "code"
         /\ \A p \in 1 .. Size : Inside[p] = ModeAfter(Inside[p - 1], p)
<1> DEFINE Follows(f, n) == f = [p \in 0 .. n |-> IF p = 0 THEN "code" ELSE ModeAfter(f[p - 1], p)]
           S == {n \in Nat : \E f : Follows(f, n)}
<1>1. 0 \in S
  <2>1. Follows([p \in 0 .. 0 |-> "code"], 0)
    <3>1. \A p \in 0 .. 0 : p = 0
      OBVIOUS
    <3> QED
      BY <3>1
  <2> QED
    BY <2>1
<1>2. ASSUME NEW n \in 0 .. Size, n \in S PROVE n + 1 \in S
  <2>1. PICK f : Follows(f, n)
    BY <1>2
  <2> DEFINE g == [p \in 0 .. n + 1 |-> IF p = n + 1 THEN ModeAfter(f[n], n + 1) ELSE f[p]]
  <2>2. \A p \in 0 .. n : g[p] = f[p]
    OBVIOUS
  <2>3. \A p \in 0 .. n : f[p] = IF p = 0 THEN "code" ELSE ModeAfter(f[p - 1], p)
    BY <2>1
  <2>4. ASSUME NEW p \in 0 .. n + 1
        PROVE  g[p] = IF p = 0 THEN "code" ELSE ModeAfter(g[p - 1], p)
    <3>1. CASE p = n + 1
      <4>1. p # 0 /\ p - 1 = n /\ n \in 0 .. n
        BY <3>1
      <4> QED
        BY <2>2, <3>1, <4>1
    <3>2. CASE p # n + 1
      <4>1. p \in 0 .. n /\ (p # 0 => p - 1 \in 0 .. n)
        BY <3>2
      <4> QED
        BY <2>2, <2>3, <4>1
    <3> QED
      BY <3>1, <3>2
  <2>5. Follows(g, n + 1)
    BY <2>4
  <2> HIDE DEF Follows, g
  <2>6. \E h : Follows(h, n + 1)
    BY <2>5
  <2> QED
    BY <2>6
<1> HIDE DEF S
<1>3. Size \in S
  BY <1>1, <1>2, Climb
<1>4. \E f : Follows(f, Size)
  BY <1>3 DEF S
<1>5. Follows(Inside, Size)
  <2>1. Inside = CHOOSE f : Follows(f, Size)
    BY DEF Inside
  <2> HIDE DEF Follows
  <2> QED
    BY <1>4, <2>1
<1> QED
  BY <1>5

\* At p, the reader is in the middle of nothing, but for a line comment that
\* ends there.
Neutral(p) ==
  \/ Inside[p - 1] \in {"code", "end"}
  \/ Inside[p - 1] = "line" /\ chars[p] \in {CR, LF}

\* With it the agreement holds of the tokens to come as of those there are.
AgreeInv ==
  /\ IInv
  /\ index = Size + 1 \/ Neutral(index)
  /\ CommentsAndLiteralsAgree

\* What begins there is then what the character says.
LEMMA NeutralOpens ==
  ASSUME Size \in Nat, NEW p \in 1 .. Size, Neutral(p)
  PROVE  Inside[p] = Opens(p)
<1>1. Inside[p] = ModeAfter(Inside[p - 1], p)
  BY ReaderIs
<1>2. CASE Inside[p - 1] \in {"code", "end"}
  BY <1>1, <1>2 DEF ModeAfter
<1>3. CASE Inside[p - 1] = "line" /\ chars[p] \in {CR, LF}
  <2>1. Inside[p] = "code"
    BY <1>1, <1>3 DEF ModeAfter
  <2>2. Opens(p) = "code"
    BY <1>3 DEF Opens, Peek, CR, LF
  <2> QED
    BY <2>1, <2>2
<1> QED
  BY <1>2, <1>3 DEF Neutral

\* A token of code has no character that opens anything.
LEMMA CodeStays ==
  ASSUME Size \in Nat, NEW i \in 1 .. Size, Neutral(i), NEW end \in i + 1 .. Size + 1,
         \A p \in i .. end - 1 : Opens(p) = "code"
  PROVE  /\ \A p \in i .. end - 1 : Inside[p] = "code"
         /\ Neutral(end)
<1> DEFINE S == {p \in i .. end - 1 : Inside[p] = "code"}
<1>1. i \in S
  BY NeutralOpens
<1> PICK last \in Nat : end = last + 1
  OBVIOUS
<1>2. end - 1 = last /\ last \in i .. Size
  OBVIOUS
<1>3. ASSUME NEW p \in i .. last, p \in S, p # last
      PROVE  p + 1 \in S
  <2>1. p + 1 \in 1 .. Size /\ p + 1 \in i .. end - 1 /\ (p + 1) - 1 = p
    BY <1>2, <1>3
  <2>2. Neutral(p + 1)
    BY <1>3, <2>1 DEF Neutral
  <2>3. Inside[p + 1] = Opens(p + 1)
    BY <2>1, <2>2, NeutralOpens
  <2> QED
    BY <2>1, <2>3
<1> HIDE DEF S
<1>4. \A p \in i .. last : p \in S
  BY <1>1, <1>3, Climb
<1>5. \A p \in i .. end - 1 : Inside[p] = "code"
  BY <1>2, <1>4 DEF S
<1>6. Neutral(end)
  BY <1>2, <1>5 DEF Neutral
<1> QED
  BY <1>5, <1>6

\* What a run passes over.
LEMMA RunIs ==
  ASSUME Size \in Nat, NEW i \in 1 .. Size, NEW S
  PROVE  \A p \in i .. RunEnd(i, S) - 1 : p \in i .. Size /\ chars[p] \in S
<1> DEFINE E == {j \in i .. Size + 1 : j = Size + 1 \/ chars[j] \notin S}
<1>1. E \in SUBSET Nat /\ Size + 1 \in E
  OBVIOUS
<1>2. Min(E) \in E /\ \A y \in E : Min(E) <= y
  BY <1>1, MinInSet
<1> PICK m : m = Min(E)
  OBVIOUS
<1>3. m \in i .. Size + 1 /\ \A y \in E : m <= y
  BY <1>2
<1>4. RunEnd(i, S) = m
  BY DEF RunEnd
<1> SUFFICES ASSUME NEW p \in i .. m - 1 PROVE p \in i .. Size /\ chars[p] \in S
  BY <1>4
<1>5. p \in i .. Size /\ ~(m <= p)
  BY <1>3
<1>6. p \notin E
  BY <1>3, <1>5
<1> QED
  BY <1>5, <1>6

\* A line comment ends before the first line end.
LEMMA LineCommentIs ==
  ASSUME Size \in Nat, NEW i \in 1 .. Size, NEW end, end = LineCommentEnd(i)
  PROVE  /\ end \in i .. Size + 1
         /\ \A p \in i .. end - 1 : p \in i .. Size /\ chars[p] \notin {CR, LF}
         /\ end = Size + 1 \/ chars[end] \in {CR, LF}
<1> DEFINE E == {j \in i .. Size + 1 : j = Size + 1 \/ chars[j] \in {CR, LF}}
<1>1. E \in SUBSET Nat /\ Size + 1 \in E
  OBVIOUS
<1>2. Min(E) \in E /\ \A y \in E : Min(E) <= y
  BY <1>1, MinInSet
<1>3. end = Min(E)
  BY DEF LineCommentEnd
<1>4. end \in i .. Size + 1 /\ end \in E /\ \A y \in E : end <= y
  BY <1>2, <1>3
<1>5. ASSUME NEW p \in i .. end - 1 PROVE p \in i .. Size /\ chars[p] \notin {CR, LF}
  <2>1. p \in i .. Size /\ ~(end <= p)
    BY <1>4
  <2>2. p \notin E
    BY <1>4, <2>1
  <2> QED
    BY <2>1, <2>2
<1> QED
  BY <1>4, <1>5

\* The reader is in the line comment all along it.
LEMMA LineCommentAgrees ==
  ASSUME Size \in Nat, NEW i \in 1 .. Size, Neutral(i), Opens(i) = "line",
         NEW end \in i + 1 .. Size + 1, end = LineCommentEnd(i)
  PROVE  /\ \A p \in i .. end - 1 : Inside[p] = "line"
         /\ end = Size + 1 \/ Neutral(end)
<1> DEFINE S == {p \in i .. end - 1 : Inside[p] = "line"}
<1>1. i \in S
  BY NeutralOpens
<1>2. /\ \A p \in i .. end - 1 : p \in i .. Size /\ chars[p] \notin {CR, LF}
      /\ end = Size + 1 \/ chars[end] \in {CR, LF}
  BY LineCommentIs
<1> PICK last \in Nat : end = last + 1
  OBVIOUS
<1>3. end - 1 = last /\ last \in i .. Size
  OBVIOUS
<1>4. ASSUME NEW p \in i .. last, p \in S, p # last
      PROVE  p + 1 \in S
  <2>1. p + 1 \in 1 .. Size /\ p + 1 \in i .. end - 1 /\ (p + 1) - 1 = p
    BY <1>3, <1>4
  <2>2. Inside[p + 1] = ModeAfter(Inside[p], p + 1)
    BY <2>1, ReaderIs
  <2>3. Inside[p] = "line" /\ chars[p + 1] \notin {CR, LF}
    BY <1>2, <1>4, <2>1
  <2>4. Inside[p + 1] = "line"
    BY <2>2, <2>3 DEF ModeAfter
  <2> QED
    BY <2>1, <2>4
<1> HIDE DEF S
<1>5. \A p \in i .. last : p \in S
  BY <1>1, <1>4, Climb
<1>6. \A p \in i .. end - 1 : Inside[p] = "line"
  BY <1>3, <1>5 DEF S
<1>7. end = Size + 1 \/ Neutral(end)
  BY <1>2, <1>3, <1>6 DEF Neutral
<1> QED
  BY <1>6, <1>7

\* A block comment ends after the first star and slash of its body, or at the
\* end of the text.
LEMMA BlockCommentIs ==
  ASSUME Size \in Nat, NEW i \in 1 .. Size, NEW end, end = BlockCommentEnd(i)
  PROVE  /\ end \in i + 1 .. Size + 1
         /\ \A p \in i + 2 .. Size : p + 2 < end => ~(chars[p] = "*" /\ chars[p + 1] = "/")
         /\ \/ \E p \in i + 2 .. Size : end = p + 2 /\ chars[p] = "*" /\ chars[p + 1] = "/"
            \/ /\ end = Size + 1
               /\ \A p \in i + 2 .. Size : p < Size => ~(chars[p] = "*" /\ chars[p + 1] = "/")
<1> DEFINE C == {j \in i + 4 .. Size + 1 : chars[j - 2] = "*" /\ chars[j - 1] = "/"}
           E == C \cup {Size + 1}
<1>1. E \in SUBSET Nat /\ E # {}
  OBVIOUS
<1>2. Min(E) \in E /\ \A y \in E : Min(E) <= y
  BY <1>1, MinInSet
<1>3. end = Min(E)
  BY DEF BlockCommentEnd
<1>4. ASSUME NEW p \in i + 2 .. Size, p + 2 \in i + 4 .. Size + 1
      PROVE  p + 2 \in C <=> chars[p] = "*" /\ chars[p + 1] = "/"
  <2>1. (p + 2) - 2 = p /\ (p + 2) - 1 = p + 1
    OBVIOUS
  <2> QED
    BY <1>4, <2>1
<1>5. end \in i + 1 .. Size + 1
  BY <1>2, <1>3
<1>6. ASSUME NEW p \in i + 2 .. Size, p + 2 < end PROVE ~(chars[p] = "*" /\ chars[p + 1] = "/")
  <2>1. p + 2 \in i + 4 .. Size + 1 /\ ~(end <= p + 2)
    BY <1>5, <1>6
  <2>2. p + 2 \notin E
    BY <1>2, <1>3, <2>1
  <2> QED
    BY <1>4, <2>1, <2>2
<1>7. CASE end \in C
  <2>1. PICK p \in i + 2 .. Size : end = p + 2
    <3>1. end \in i + 4 .. Size + 1
      BY <1>7
    <3>2. end - 2 \in i + 2 .. Size /\ end = (end - 2) + 2
      BY <3>1
    <3> QED
      BY <3>2
  <2>2. p + 2 \in i + 4 .. Size + 1
    BY <1>5, <2>1
  <2>3. chars[p] = "*" /\ chars[p + 1] = "/"
    BY <1>4, <1>7, <2>1, <2>2
  <2> QED
    BY <1>5, <1>6, <2>1, <2>3
<1>8. CASE end \notin C
  <2>1. end = Size + 1
    BY <1>2, <1>3, <1>8
  <2>2. ASSUME NEW p \in i + 2 .. Size, p < Size PROVE ~(chars[p] = "*" /\ chars[p + 1] = "/")
    <3>1. CASE p + 2 = Size + 1
      <4>1. p + 2 \in i + 4 .. Size + 1 /\ p + 2 \notin C
        BY <1>8, <2>1, <3>1
      <4> QED
        BY <1>4, <4>1
    <3>2. CASE p + 2 # Size + 1
      <4>1. p + 2 < end
        BY <2>1, <2>2, <3>2
      <4> QED
        BY <1>6, <4>1
    <3> QED
      BY <3>1, <3>2
  <2> QED
    BY <1>5, <1>6, <2>1, <2>2
<1> QED
  BY <1>7, <1>8

\* Inside the comment the reader has seen the opening or waits for the end.
LEMMA BlockCommentAgrees ==
  ASSUME Size \in Nat, NEW i \in 1 .. Size, Neutral(i), Opens(i) = "slash",
         i + 1 <= Size, NEW end \in i + 1 .. Size + 1, end = BlockCommentEnd(i)
  PROVE  /\ \A p \in i .. end - 1 : Inside[p] # "code"
         /\ end = Size + 1 \/ Neutral(end)
<1> DEFINE waits == {"star", "block"}
<1>1. Inside[i] = "slash"
  BY NeutralOpens
<1>2. Inside[i + 1] = "star"
  <2>1. (i + 1) - 1 = i /\ i + 1 \in 1 .. Size
    OBVIOUS
  <2>2. Inside[i + 1] = ModeAfter(Inside[i], i + 1)
    BY <2>1, ReaderIs
  <2> QED
    BY <1>1, <2>2 DEF ModeAfter
<1>3. ASSUME NEW last \in i + 1 .. Size,
             \A p \in i + 2 .. last : ~(p < Size /\ chars[p] = "*" /\ chars[p + 1] = "/")
      PROVE  \A p \in i + 1 .. last : Inside[p] \in waits
  <2> DEFINE S == {p \in i + 1 .. last : Inside[p] \in waits}
  <2>1. i + 1 \in S
    BY <1>2
  <2>2. ASSUME NEW p \in i + 1 .. last, p \in S, p # last PROVE p + 1 \in S
    <3>1. /\ p + 1 \in 1 .. Size /\ p + 1 \in i + 1 .. last /\ (p + 1) - 1 = p
          /\ p + 1 \in i + 2 .. last
      BY <1>3, <2>2
    <3>2. Inside[p + 1] = ModeAfter(Inside[p], p + 1)
      BY <3>1, ReaderIs
    <3>3. ~(Peek(p + 1, "*") /\ Peek((p + 1) + 1, "/"))
      BY <1>3, <3>1 DEF Peek
    <3>4. Inside[p + 1] = "block"
      BY <2>2, <3>2, <3>3 DEF ModeAfter
    <3> QED
      BY <3>1, <3>4
  <2> HIDE DEF S
  <2>3. i + 1 \in Nat /\ last \in Nat
    BY <1>3
  <2>4. \A p \in i + 1 .. last : p \in S
    BY <2>1, <2>2, <2>3, Climb
  <2> QED
    BY <2>4 DEF S
<1>4. CASE \E p \in i + 2 .. Size : end = p + 2 /\ chars[p] = "*" /\ chars[p + 1] = "/"
  <2>1. PICK p \in i + 2 .. Size : end = p + 2 /\ chars[p] = "*" /\ chars[p + 1] = "/"
    BY <1>4
  <2>2. PICK q \in Nat : p = q + 1 /\ q \in i + 1 .. Size
    <3>1. p - 1 \in Nat /\ p = (p - 1) + 1 /\ p - 1 \in i + 1 .. Size
      BY <2>1
    <3> QED
      BY <3>1
  <2>3. \A r \in i + 2 .. q : ~(r < Size /\ chars[r] = "*" /\ chars[r + 1] = "/")
    <3>1. \A r \in i + 2 .. q : r \in i + 2 .. Size /\ r + 2 < end
      BY <2>1, <2>2
    <3> QED
      BY <3>1, BlockCommentIs
  <2>4. \A r \in i + 1 .. q : Inside[r] \in waits
    BY <1>3, <2>2, <2>3
  <2>5. Inside[p] = "closing"
    <3>1. p \in 1 .. Size /\ p - 1 = q /\ q \in i + 1 .. q /\ p + 1 <= Size
      BY <2>1, <2>2
    <3>2. Inside[p] = ModeAfter(Inside[q], p)
      BY <3>1, ReaderIs
    <3>3. Peek(p, "*") /\ Peek(p + 1, "/")
      BY <2>1, <3>1 DEF Peek
    <3>4. Inside[q] \in waits
      BY <2>4, <3>1
    <3> QED
      BY <3>2, <3>3, <3>4 DEF ModeAfter
  <2>6. Inside[p + 1] = "end"
    <3>1. p + 1 \in 1 .. Size /\ (p + 1) - 1 = p
      BY <2>1, <2>2
    <3>2. Inside[p + 1] = ModeAfter(Inside[p], p + 1)
      BY <3>1, ReaderIs
    <3> QED
      BY <2>5, <3>2 DEF ModeAfter
  <2>7. ASSUME NEW r \in i .. end - 1 PROVE Inside[r] # "code"
    <3>1. r = i \/ r \in i + 1 .. q \/ r = p \/ r = p + 1
      BY <2>1, <2>2, <2>7
    <3> QED
      BY <1>1, <2>4, <2>5, <2>6, <3>1
  <2>8. Neutral(end)
    <3>1. end - 1 = p + 1
      BY <2>1
    <3> QED
      BY <2>6, <3>1 DEF Neutral
  <2> QED
    BY <2>7, <2>8
<1>5. CASE /\ end = Size + 1
           /\ \A p \in i + 2 .. Size : p < Size => ~(chars[p] = "*" /\ chars[p + 1] = "/")
  <2>1. \A p \in i + 1 .. Size : Inside[p] \in waits
    BY <1>3, <1>5
  <2>2. ASSUME NEW p \in i .. end - 1 PROVE Inside[p] # "code"
    <3>1. p = i \/ p \in i + 1 .. Size
      BY <1>5, <2>2
    <3> QED
      BY <1>1, <2>1, <3>1
  <2> QED
    BY <1>5, <2>2
<1> QED
  BY <1>4, <1>5, BlockCommentIs

\* Nothing is escaped at the start of a literal, and later what follows a
\* backslash that is not escaped itself.
LEMMA EscapedIs ==
  ASSUME Size \in Nat, NEW i \in 1 .. Size
  PROVE  \A k \in i + 1 .. Size :
           Escaped(i)[k] = (k > i + 1 /\ chars[k - 1] = "\\" /\ ~Escaped(i)[k - 1])
<1> DEFINE Equation(f, n) ==
             f = [k \in i + 1 .. n |-> k > i + 1 /\ chars[k - 1] = "\\" /\ ~f[k - 1]]
           S == {n \in Nat : \E f : Equation(f, n)}
<1>1. i \in S
  <2>1. \A k : k \notin i + 1 .. i
    OBVIOUS
  <2>2. Equation([k \in i + 1 .. i |-> FALSE], i)
    BY <2>1
  <2> QED
    BY <2>2
<1>2. ASSUME NEW n \in i .. Size, n \in S PROVE n + 1 \in S
  <2>1. PICK f : Equation(f, n)
    BY <1>2
  <2> DEFINE g == [k \in i + 1 .. n + 1 |->
                     IF k = n + 1 THEN k > i + 1 /\ chars[k - 1] = "\\" /\ ~f[k - 1] ELSE f[k]]
  <2>2. \A k \in i + 1 .. n : g[k] = f[k]
    OBVIOUS
  <2>3. \A k \in i + 1 .. n : f[k] = (k > i + 1 /\ chars[k - 1] = "\\" /\ ~f[k - 1])
    BY <2>1
  <2>4. ASSUME NEW k \in i + 1 .. n + 1
        PROVE  g[k] = (k > i + 1 /\ chars[k - 1] = "\\" /\ ~g[k - 1])
    <3>1. CASE k = i + 1
      <4>1. ~(k > i + 1)
        BY <3>1
      <4> QED
        BY <2>3, <4>1
    <3>2. CASE k # i + 1
      <4>1. k - 1 \in i + 1 .. n
        BY <3>2
      <4>2. g[k - 1] = f[k - 1]
        BY <2>2, <4>1
      <4> QED
        BY <2>2, <2>3, <4>2
    <3> QED
      BY <3>1, <3>2
  <2>5. Equation(g, n + 1)
    BY <2>4
  <2> HIDE DEF Equation, g
  <2>6. \E h : Equation(h, n + 1)
    BY <2>5
  <2> QED
    BY <2>6
<1> HIDE DEF S
<1>3. Size \in S
  BY <1>1, <1>2, Climb
<1>4. \E f : Equation(f, Size)
  BY <1>3 DEF S
<1>5. Equation(Escaped(i), Size)
  <2>1. Escaped(i) = CHOOSE f : Equation(f, Size)
    BY DEF Escaped
  <2> HIDE DEF Equation
  <2> QED
    BY <1>4, <2>1
<1> QED
  BY <1>5

\* A literal ends after the first quote of its body that is not escaped, or at
\* the end of the text.
LEMMA QuotedIs ==
  ASSUME Size \in Nat, NEW i \in 1 .. Size, NEW end, end = QuotedEnd(i)
  PROVE  /\ end \in i + 1 .. Size + 1
         /\ \A p \in i + 1 .. Size : p + 1 < end => ~(chars[p] = chars[i] /\ ~Escaped(i)[p])
         /\ \/ \E p \in i + 1 .. Size : end = p + 1 /\ chars[p] = chars[i] /\ ~Escaped(i)[p]
            \/ /\ end = Size + 1
               /\ \A p \in i + 1 .. Size : ~(chars[p] = chars[i] /\ ~Escaped(i)[p])
<1> DEFINE C == {j \in i + 2 .. Size + 1 : chars[j - 1] = chars[i] /\ ~Escaped(i)[j - 1]}
           E == C \cup {Size + 1}
<1>1. E \in SUBSET Nat /\ E # {}
  OBVIOUS
<1>2. Min(E) \in E /\ \A y \in E : Min(E) <= y
  BY <1>1, MinInSet
<1>3. end = Min(E)
  BY DEF QuotedEnd
<1>4. ASSUME NEW p \in i + 1 .. Size
      PROVE  p + 1 \in C <=> chars[p] = chars[i] /\ ~Escaped(i)[p]
  <2>1. (p + 1) - 1 = p /\ p + 1 \in i + 2 .. Size + 1
    OBVIOUS
  <2> QED
    BY <2>1
<1>5. end \in i + 1 .. Size + 1 /\ end \in E /\ \A y \in E : end <= y
  BY <1>2, <1>3
<1> HIDE DEF C
<1>6. ASSUME NEW p \in i + 1 .. Size, p + 1 < end PROVE ~(chars[p] = chars[i] /\ ~Escaped(i)[p])
  <2>1. ~(end <= p + 1)
    BY <1>5, <1>6
  <2>2. p + 1 \notin C
    BY <1>5, <2>1
  <2> QED
    BY <1>4, <2>2
<1>7. CASE end \in C
  <2>1. PICK p \in i + 1 .. Size : end = p + 1
    <3>1. end \in i + 2 .. Size + 1
      BY <1>7 DEF C
    <3>2. end - 1 \in i + 1 .. Size /\ end = (end - 1) + 1
      BY <3>1
    <3> QED
      BY <3>2
  <2>2. chars[p] = chars[i] /\ ~Escaped(i)[p]
    BY <1>4, <1>7, <2>1
  <2> QED
    BY <1>5, <1>6, <2>1, <2>2
<1>8. CASE end \notin C
  <2>1. end = Size + 1
    BY <1>5, <1>8
  <2>2. ASSUME NEW p \in i + 1 .. Size PROVE ~(chars[p] = chars[i] /\ ~Escaped(i)[p])
    <3>1. CASE p + 1 = end
      BY <1>4, <1>8, <3>1
    <3>2. CASE p + 1 # end
      <4>1. p + 1 < end
        BY <2>1, <3>2
      <4> QED
        BY <1>6, <4>1
    <3> QED
      BY <3>1, <3>2
  <2> QED
    BY <1>5, <1>6, <2>1, <2>2
<1> QED
  BY <1>7, <1>8

Quotes == {"\"", "'"}

\* Inside the literal the reader has an escape open where the lexer has.
LEMMA QuotedAgrees ==
  ASSUME Size \in Nat, NEW i \in 1 .. Size, Neutral(i), chars[i] \in Quotes,
         NEW end \in i + 1 .. Size + 1, end = QuotedEnd(i)
  PROVE  /\ \A p \in i .. end - 1 : Inside[p] # "code"
         /\ end = Size + 1 \/ Neutral(end)
<1> PICK quote, plain, escape :
      /\ quote = chars[i]
      /\ plain = IF quote = "'" THEN "char" ELSE "string"
      /\ escape = IF quote = "'" THEN "char-escape" ELSE "string-escape"
  OBVIOUS
<1>1. /\ plain \notin {"code", "end", escape} /\ escape \notin {"code", "end"}
      /\ quote # "\\"
  BY DEF Quotes
<1>2. Inside[i] = plain
  <2>1. i <= Size
    OBVIOUS
  <2>2. Opens(i) = plain
    <3>1. CASE chars[i] = "'"
      BY <2>1, <3>1 DEF Opens, Peek
    <3>2. CASE chars[i] # "'"
      <4>1. chars[i] = "\""
        BY <3>2 DEF Quotes
      <4> QED
        BY <2>1, <3>2, <4>1 DEF Opens, Peek
    <3> QED
      BY <3>1, <3>2
  <2> QED
    BY <2>2, NeutralOpens
<1>3. ASSUME NEW p \in 1 .. Size
      PROVE  /\ ModeAfter(plain, p) = IF chars[p] = "\\" THEN escape
                                      ELSE IF chars[p] = quote THEN "end" ELSE plain
             /\ ModeAfter(escape, p) = plain
  <2>1. p <= Size
    OBVIOUS
  <2>2. CASE quote = "'"
    BY <1>1, <2>1, <2>2 DEF ModeAfter, InLiteral, Peek
  <2>3. CASE quote # "'"
    <3>1. quote = "\""
      BY <2>3 DEF Quotes
    <3> QED
      BY <1>1, <2>1, <2>3, <3>1 DEF ModeAfter, InLiteral, Peek
  <2> QED
    BY <2>2, <2>3
<1>4. \A k \in i + 1 .. Size :
        Escaped(i)[k] = (k > i + 1 /\ chars[k - 1] = "\\" /\ ~Escaped(i)[k - 1])
  BY EscapedIs
<1>5. ASSUME NEW last \in i .. Size,
             \A p \in i + 1 .. last : ~(chars[p] = quote /\ ~Escaped(i)[p])
      PROVE  \A p \in i .. last :
               /\ Inside[p] \in {plain, escape}
               /\ p + 1 <= Size => (Inside[p] = escape <=> Escaped(i)[p + 1])
  <2> DEFINE S == {p \in i .. last :
                     /\ Inside[p] \in {plain, escape}
                     /\ p + 1 <= Size => (Inside[p] = escape <=> Escaped(i)[p + 1])}
  <2>1. i \in S
    <3>1. i + 1 <= Size => i + 1 \in i + 1 .. Size /\ ~(i + 1 > i + 1)
      OBVIOUS
    <3>2. i + 1 <= Size => ~Escaped(i)[i + 1]
      BY <1>4, <3>1
    <3>3. i \in i .. last
      BY <1>5
    <3> QED
      BY <1>1, <1>2, <3>2, <3>3
  <2>2. ASSUME NEW p \in i .. last, p \in S, p # last PROVE p + 1 \in S
    <3>1. /\ p + 1 \in 1 .. Size /\ p + 1 \in i .. last /\ (p + 1) - 1 = p
          /\ p + 1 \in i + 1 .. last /\ p + 1 <= Size
      BY <1>5, <2>2
    <3> PICK q \in Nat : q = p + 1
      BY <3>1
    <3>2. Inside[q] = ModeAfter(Inside[p], q)
      BY <3>1, ReaderIs
    <3>3. Inside[p] \in {plain, escape} /\ (Inside[p] = escape <=> Escaped(i)[q])
      BY <2>2, <3>1
    <3>4. ~(chars[q] = quote /\ ~Escaped(i)[q])
      BY <1>5, <3>1
    <3>5. Inside[q] = IF Escaped(i)[q] THEN plain ELSE IF chars[q] = "\\" THEN escape ELSE plain
      BY <1>1, <1>3, <3>1, <3>2, <3>3, <3>4
    <3>6. q + 1 <= Size => (Escaped(i)[q + 1] <=> chars[q] = "\\" /\ ~Escaped(i)[q])
      <4>1. SUFFICES ASSUME q + 1 <= Size
                     PROVE  Escaped(i)[q + 1] <=> chars[q] = "\\" /\ ~Escaped(i)[q]
        OBVIOUS
      <4>2. q + 1 \in i + 1 .. Size /\ q + 1 > i + 1 /\ (q + 1) - 1 = q
        BY <3>1, <4>1
      <4> QED
        BY <1>4, <4>2
    <3> QED
      BY <1>1, <3>1, <3>5, <3>6
  <2> HIDE DEF S
  <2>3. last \in Nat
    BY <1>5
  <2>4. \A p \in i .. last : p \in S
    BY <2>1, <2>2, <2>3, Climb
  <2> QED
    BY <2>4 DEF S
<1>6. CASE \E p \in i + 1 .. Size : end = p + 1 /\ chars[p] = quote /\ ~Escaped(i)[p]
  <2>1. PICK p \in i + 1 .. Size : end = p + 1 /\ chars[p] = quote /\ ~Escaped(i)[p]
    BY <1>6
  <2>2. PICK q \in Nat : p = q + 1 /\ q \in i .. Size
    <3>1. p - 1 \in Nat /\ p = (p - 1) + 1 /\ p - 1 \in i .. Size
      BY <2>1
    <3> QED
      BY <3>1
  <2>3. \A r \in i + 1 .. q : ~(chars[r] = quote /\ ~Escaped(i)[r])
    <3>1. \A r \in i + 1 .. q : r \in i + 1 .. Size /\ r + 1 < end
      BY <2>1, <2>2
    <3> QED
      BY <3>1, QuotedIs
  <2>4. \A r \in i .. q : /\ Inside[r] \in {plain, escape}
                          /\ r + 1 <= Size => (Inside[r] = escape <=> Escaped(i)[r + 1])
    BY <1>5, <2>2, <2>3
  <2>5. Inside[p] = "end"
    <3>1. p \in 1 .. Size /\ p - 1 = q /\ q \in i .. q /\ q + 1 <= Size
      BY <2>1, <2>2
    <3>2. Inside[p] = ModeAfter(Inside[q], p)
      BY <3>1, ReaderIs
    <3>3. Inside[q] = plain
      BY <2>1, <2>2, <2>4, <3>1
    <3> QED
      BY <1>1, <1>3, <2>1, <3>1, <3>2, <3>3
  <2>6. ASSUME NEW r \in i .. end - 1 PROVE Inside[r] # "code"
    <3>1. r \in i .. q \/ r = p
      BY <2>1, <2>2, <2>6
    <3> QED
      BY <1>1, <2>4, <2>5, <3>1
  <2>7. Neutral(end)
    <3>1. end - 1 = p
      BY <2>1
    <3> QED
      BY <2>5, <3>1 DEF Neutral
  <2> QED
    BY <2>6, <2>7
<1>7. CASE end = Size + 1 /\ \A p \in i + 1 .. Size : ~(chars[p] = quote /\ ~Escaped(i)[p])
  <2>1. \A p \in i .. Size : Inside[p] \in {plain, escape}
    BY <1>5, <1>7
  <2>2. end - 1 = Size
    BY <1>7
  <2> QED
    BY <1>1, <1>7, <2>1, <2>2
<1> QED
  BY <1>6, <1>7, QuotedIs

\* What opens nothing.
LEMMA OpensNothing ==
  ASSUME NEW p, chars[p] \notin Quotes, chars[p] = "/" => ~Peek(p + 1, "/") /\ ~Peek(p + 1, "*")
  PROVE  Opens(p) = "code"
BY Zenon DEF Opens, Peek, Quotes

\* Characters of blanks, words and numbers open nothing.
LEMMA RunsOpenNothing ==
  ASSUME Size \in Nat, NEW i \in 1 .. Size, Neutral(i), NEW S, S \cap {"/", "\"", "'"} = {},
         chars[i] \in S
  PROVE  /\ \A p \in i .. RunEnd(i, S) - 1 : Inside[p] = "code"
         /\ Neutral(RunEnd(i, S))
<1>1. \A c \in S : c \notin Quotes /\ c # "/"
  BY DEF Quotes
<1>2. ASSUME NEW p \in i .. RunEnd(i, S) - 1 PROVE Opens(p) = "code"
  <2>1. chars[p] \in S
    BY RunIs
  <2> QED
    BY <1>1, <2>1, OpensNothing
<1>3. RunEnd(i, S) \in i + 1 .. Size + 1
  BY RunEndBounds
<1> QED
  BY <1>2, <1>3, CodeStays

\* Nor does a character that is a token of its own, or the first of a pair
\* whose second opens nothing.
LEMMA FewOpenNothing ==
  ASSUME Size \in Nat, NEW i \in 1 .. Size, Neutral(i), Opens(i) = "code",
         NEW end \in {i + 1, i + 2}, end = i + 2 => i < Size /\ Opens(i + 1) = "code"
  PROVE  /\ end \in i + 1 .. Size + 1
         /\ \A p \in i .. end - 1 : Inside[p] = "code"
         /\ Neutral(end)
<1>1. end \in i + 1 .. Size + 1
  OBVIOUS
<1>2. ASSUME NEW p \in i .. end - 1 PROVE Opens(p) = "code"
  <2>1. p = i \/ (end = i + 2 /\ p = i + 1)
    BY <1>2
  <2> QED
    BY <2>1
<1> QED
  BY <1>1, <1>2, CodeStays

\* So no symbol opens anything.
LEMMA SymbolsOpenNothing ==
  ASSUME Size \in Nat, NEW i \in 1 .. Size, Neutral(i), chars[i] \in SymbolStart,
         chars[i] = "/" => ~Peek(i + 1, "/") /\ ~Peek(i + 1, "*")
  PROVE  /\ SymbolEnd(i) \in i + 1 .. Size + 1
         /\ \A p \in i .. SymbolEnd(i) - 1 : Inside[p] = "code"
         /\ Neutral(SymbolEnd(i))
<1>1. \A c \in SymbolStart : c \notin Quotes
  BY CharactersAreApart DEF SymbolStart, Quotes, Dot
<1>2. Opens(i) = "code"
  BY <1>1, OpensNothing
<1>3. ASSUME i < Size, <<chars[i], chars[i + 1]>> \in Pairs PROVE Opens(i + 1) = "code"
  <2>1. \A pair \in Pairs : pair[2] \notin Quotes /\ pair[2] # "/"
    BY CharactersAreApart DEF Quotes
  <2>2. <<chars[i], chars[i + 1]>>[2] = chars[i + 1]
    OBVIOUS
  <2>3. chars[i + 1] \notin Quotes /\ chars[i + 1] # "/"
    BY <1>3, <2>1, <2>2
  <2> QED
    BY <2>3, OpensNothing
<1>4. SymbolEnd(i) \in {i + 1, i + 2}
  BY DEF SymbolEnd
<1>5. SymbolEnd(i) = i + 2 => i < Size /\ <<chars[i], chars[i + 1]>> \in Pairs
  BY DEF SymbolEnd
<1> QED
  BY <1>2, <1>3, <1>4, <1>5, FewOpenNothing

\* A line end is code for the reader too.
LEMMA NewlineOpensNothing ==
  ASSUME IInv, LexNewline, Neutral(index)
  PROVE  \E end \in index + 1 .. Size + 1 :
           /\ Emit("Newline", end) /\ index' = end /\ UNCHANGED chars
           /\ \A p \in index .. end - 1 : Inside[p] = "code"
           /\ Neutral(end)
<1>1. index \in 1 .. Size /\ Size \in Nat /\ chars[index] \in {CR, LF}
  BY TextFacts DEF IInv, TypeOK, LexNewline, More
<1> PICK end : end = IF chars[index] = CR /\ Peek(index + 1, LF) THEN index + 2 ELSE index + 1
  OBVIOUS
<1>2. Emit("Newline", end) /\ index' = end /\ UNCHANGED chars
  BY DEF LexNewline
<1>3. \A c \in {CR, LF} : c \notin Quotes /\ c # "/"
  BY DEF CR, LF, Quotes
<1>4. Opens(index) = "code"
  BY <1>1, <1>3, OpensNothing
<1>5. ASSUME end = index + 2 PROVE index < Size /\ Opens(index + 1) = "code"
  <2>1. index + 1 <= Size /\ chars[index + 1] = LF
    BY <1>1, <1>5 DEF Peek
  <2>2. Opens(index + 1) = "code"
    BY <1>3, <2>1, OpensNothing
  <2> QED
    BY <1>1, <2>1, <2>2
<1>6. end \in {index + 1, index + 2}
  OBVIOUS
<1> QED
  BY <1>1, <1>2, <1>4, <1>5, <1>6, FewOpenNothing

Opaque == {"Comment", "String", "Char"}

\* The token over index .. end - 1 is what the reader finds there.
Agrees(kind, end) ==
  /\ Emit(kind, end) /\ index' = end /\ UNCHANGED chars
  /\ \A p \in index .. end - 1 : Inside[p] = "code" <=> kind \notin Opaque
  /\ end = Size + 1 \/ Neutral(end)

\* A token of code, and one that is a comment or a literal.
LEMMA CodeAgrees ==
  ASSUME NEW kind, NEW end, Lex(kind, end), kind \notin Opaque,
         \A p \in index .. end - 1 : Inside[p] = "code", Neutral(end)
  PROVE  Agrees(kind, end)
BY Zenon DEF Agrees, Lex, BumpTo

LEMMA OpaqueAgrees ==
  ASSUME NEW kind, NEW end, Lex(kind, end), kind \in Opaque,
         \A p \in index .. end - 1 : Inside[p] # "code",
         end = Size + 1 \/ Neutral(end)
  PROVE  Agrees(kind, end)
BY Zenon DEF Agrees, Lex, BumpTo

\* Every step but the one over a byte order mark agrees with the reader.
LEMMA StepsAgree ==
  ASSUME IInv, Next, Neutral(index)
  PROVE  \/ SkipBom
         \/ \E kind \in Kinds, end \in index + 1 .. Size + 1 : Agrees(kind, end)
<1>1. index \in 1 .. Size /\ Size \in Nat
  <2>1. More
    BY DEF Next, SkipBom, LexNewline, LexWhitespace, LexLineComment, LexBlockComment,
           LexQuoted, LexIdentOrKeyword, LexNumber, LexSymbol, LexUnknown
  <2> QED
    BY <2>1, TextFacts DEF IInv, TypeOK, More
<1>2. \A kind \in {"Newline", "Whitespace", "Ident", "Keyword", "Number", "Symbol", "Unknown"} :
        kind \in Kinds /\ kind \notin Opaque
  BY DEF Kinds, Opaque
<1>3. \A kind \in {"Comment", "String", "Char"} : kind \in Kinds /\ kind \in Opaque
  BY DEF Kinds, Opaque
<1>4. CASE LexNewline
  <2>1. PICK end \in index + 1 .. Size + 1 :
           /\ Emit("Newline", end) /\ index' = end /\ UNCHANGED chars
           /\ \A p \in index .. end - 1 : Inside[p] = "code"
           /\ Neutral(end)
    BY <1>4, NewlineOpensNothing
  <2>2. Agrees("Newline", end)
    BY <1>2, <2>1 DEF Agrees
  <2> QED
    BY <1>2, <2>2
<1>5. ASSUME NEW S, S \cap {"/", "\"", "'"} = {}, chars[index] \in S,
             NEW kind, kind \in Kinds /\ kind \notin Opaque, Lex(kind, RunEnd(index, S))
      PROVE  \E end \in index + 1 .. Size + 1 : Agrees(kind, end)
  <2>1. RunEnd(index, S) \in index + 1 .. Size + 1
    BY <1>1, <1>5, RunEndBounds
  <2>2. /\ \A p \in index .. RunEnd(index, S) - 1 : Inside[p] = "code"
        /\ Neutral(RunEnd(index, S))
    BY <1>1, <1>5, RunsOpenNothing
  <2>3. Agrees(kind, RunEnd(index, S))
    BY <1>5, <2>2, CodeAgrees
  <2> QED
    BY <2>1, <2>3
<1>6. CASE LexWhitespace
  <2>1. Space \cap {"/", "\"", "'"} = {}
    BY Zenon, CharactersAreApart
  <2>2. chars[index] \in Space /\ Lex("Whitespace", RunEnd(index, Space))
    BY <1>6 DEF LexWhitespace
  <2> QED
    BY <1>2, <1>5, <2>1, <2>2
<1>7. CASE LexIdentOrKeyword
  <2>1. WordChars \cap {"/", "\"", "'"} = {}
    BY Zenon, CharactersAreApart DEF WordChars
  <2>2. chars[index] \in WordChars
    BY <1>7 DEF LexIdentOrKeyword, WordChars
  <2>3. PICK kind \in {"Ident", "Keyword"} : Lex(kind, RunEnd(index, WordChars))
    BY <1>7 DEF LexIdentOrKeyword
  <2> QED
    BY <1>2, <1>5, <2>1, <2>2, <2>3
<1>8. CASE LexNumber
  <2>1. NumberChars \cap {"/", "\"", "'"} = {}
    BY CharactersAreApart DEF NumberChars, Dot
  <2>2. chars[index] \in NumberChars /\ Lex("Number", RunEnd(index, NumberChars))
    BY <1>8 DEF LexNumber, NumberChars
  <2> QED
    BY <1>2, <1>5, <2>1, <2>2
<1>9. CASE LexSymbol
  <2>1. /\ chars[index] \in SymbolStart /\ Lex("Symbol", SymbolEnd(index))
        /\ chars[index] = "/" => ~Peek(index + 1, "/") /\ ~Peek(index + 1, "*")
    BY <1>9 DEF LexSymbol, AtLineComment, AtBlockComment, Peek, More
  <2>2. /\ SymbolEnd(index) \in index + 1 .. Size + 1
        /\ \A p \in index .. SymbolEnd(index) - 1 : Inside[p] = "code"
        /\ Neutral(SymbolEnd(index))
    BY <1>1, <2>1, SymbolsOpenNothing
  <2>3. Agrees("Symbol", SymbolEnd(index))
    BY <1>2, <2>1, <2>2, CodeAgrees
  <2> QED
    BY <1>2, <2>2, <2>3
<1>10. CASE LexUnknown
  <2>1. Lex("Unknown", index + 1) /\ chars[index] \notin Quotes /\ chars[index] # "/"
    BY <1>10 DEF LexUnknown, Quotes, SymbolStart
  <2>2. Opens(index) = "code"
    BY <2>1, OpensNothing
  <2>3. ~(index + 1 = index + 2)
    BY <1>1
  <2>4. /\ index + 1 \in index + 1 .. Size + 1
        /\ \A p \in index .. (index + 1) - 1 : Inside[p] = "code"
        /\ Neutral(index + 1)
    BY <1>1, <2>2, <2>3, FewOpenNothing
  <2>5. Agrees("Unknown", index + 1)
    BY <1>2, <2>1, <2>4, CodeAgrees
  <2> QED
    BY <1>2, <2>4, <2>5
<1>11. CASE LexLineComment
  <2>1. /\ chars[index] = "/" /\ Peek(index + 1, "/") /\ Peek(index, "/")
        /\ Lex("Comment", LineCommentEnd(index))
    BY <1>11 DEF LexLineComment, AtLineComment, Peek
  <2>2. LineCommentEnd(index) \in index + 1 .. Size + 1
    BY <1>1, <2>1, LineCommentEndBounds DEF CR, LF
  <2>3. Opens(index) = "line"
    <3>1. ~Peek(index + 1, "*") /\ ~Peek(index, "\"") /\ ~Peek(index, "'")
      BY <2>1 DEF Peek
    <3> QED
      BY <2>1, <3>1 DEF Opens
  <2>4. /\ \A p \in index .. LineCommentEnd(index) - 1 : Inside[p] = "line"
        /\ LineCommentEnd(index) = Size + 1 \/ Neutral(LineCommentEnd(index))
    BY <1>1, <2>2, <2>3, LineCommentAgrees
  <2>5. Agrees("Comment", LineCommentEnd(index))
    BY <1>3, <2>1, <2>4, OpaqueAgrees
  <2> QED
    BY <1>3, <2>2, <2>5
<1>12. CASE LexBlockComment
  <2>1. /\ Peek(index + 1, "*") /\ Peek(index, "/")
        /\ Lex("Comment", BlockCommentEnd(index))
    BY <1>12 DEF LexBlockComment, AtBlockComment
  <2>2. BlockCommentEnd(index) \in index + 1 .. Size + 1
    BY <1>1, BlockCommentEndBounds
  <2>3. Opens(index) = "slash"
    <3>1. ~Peek(index + 1, "/") /\ ~Peek(index, "\"") /\ ~Peek(index, "'")
      BY <2>1 DEF Peek
    <3> QED
      BY <2>1, <3>1 DEF Opens
  <2>4. index + 1 <= Size
    BY <2>1 DEF Peek
  <2>5. /\ \A p \in index .. BlockCommentEnd(index) - 1 : Inside[p] # "code"
        /\ BlockCommentEnd(index) = Size + 1 \/ Neutral(BlockCommentEnd(index))
    BY <1>1, <2>2, <2>3, <2>4, BlockCommentAgrees
  <2>6. Agrees("Comment", BlockCommentEnd(index))
    BY <1>3, <2>1, <2>5, OpaqueAgrees
  <2> QED
    BY <1>3, <2>2, <2>6
<1>13. CASE LexQuoted
  <2>1. PICK kind \in {"Char", "String"} : Lex(kind, QuotedEnd(index))
    BY <1>13 DEF LexQuoted
  <2>2. chars[index] \in Quotes
    BY <1>13 DEF LexQuoted, Quotes
  <2>3. QuotedEnd(index) \in index + 1 .. Size + 1
    BY <1>1, QuotedEndBounds
  <2>4. /\ \A p \in index .. QuotedEnd(index) - 1 : Inside[p] # "code"
        /\ QuotedEnd(index) = Size + 1 \/ Neutral(QuotedEnd(index))
    BY <1>1, <2>2, <2>3, QuotedAgrees
  <2>5. Agrees(kind, QuotedEnd(index))
    BY <1>3, <2>1, <2>4, OpaqueAgrees
  <2> QED
    BY <1>3, <2>1, <2>3, <2>5
<1> QED
  BY <1>4, <1>6, <1>7, <1>8, <1>9, <1>10, <1>11, <1>12, <1>13 DEF Next

\* What is agreed on stays so, for the text does not change.
LEMMA AgreedStays ==
  ASSUME AgreeInv, IInv', NEW kind, NEW end \in index + 1 .. Size + 1, Agrees(kind, end)
  PROVE  AgreeInv'
<1>1. /\ Size \in Nat /\ index \in Nat /\ tokens \in Seq(Token) /\ tokens' \in Seq(Token)
      /\ chars' = chars /\ index' = end
      /\ tokens' = Append(tokens, [kind |-> kind, from |-> index, to |-> end,
                                   line |-> line, column |-> column])
  BY TextFacts DEF AgreeInv, IInv, TypeOK, Agrees, Emit
<1>2. Size' = Size /\ Inside' = Inside
  BY <1>1 DEF Size, Inside, ModeAfter, InLiteral, Opens, Peek
<1> PICK n \in Nat : n = Len(tokens)
  BY <1>1, LenProperties
<1>3. /\ DOMAIN tokens = 1 .. n /\ DOMAIN tokens' = 1 .. n + 1
      /\ \A k \in 1 .. n : tokens'[k] = tokens[k]
      /\ tokens'[n + 1].from = index /\ tokens'[n + 1].to = end /\ tokens'[n + 1].kind = kind
  BY <1>1, AppendProperties, LenProperties
<1>4. ASSUME NEW k \in 1 .. n + 1, NEW p \in tokens'[k].from .. tokens'[k].to - 1
      PROVE  Inside[p] = "code" <=> tokens'[k].kind \notin {"Comment", "String", "Char"}
  <2>1. CASE k \in 1 .. n
    BY <1>3, <1>4, <2>1 DEF AgreeInv, CommentsAndLiteralsAgree
  <2>2. CASE k = n + 1
    BY <1>3, <1>4, <2>2 DEF Agrees, Opaque
  <2> QED
    BY <2>1, <2>2
<1>5. CommentsAndLiteralsAgree'
  BY <1>2, <1>3, <1>4 DEF CommentsAndLiteralsAgree
<1>6. index' = Size' + 1 \/ Neutral(index)'
  BY <1>1, <1>2 DEF Agrees, Neutral
<1> QED
  BY <1>5, <1>6 DEF AgreeInv

\* Dropping a byte order mark leaves the reader in code.
LEMMA SkipBomAgrees ==
  ASSUME AgreeInv, IInv', SkipBom
  PROVE  AgreeInv'
<1>1. /\ Size \in Nat /\ index \in 1 .. Size /\ chars' = chars /\ index' = index + 1
      /\ tokens' = tokens /\ chars[index] = Bom
  BY TextFacts DEF AgreeInv, IInv, TypeOK, SkipBom, More
<1>2. Size' = Size /\ Inside' = Inside
  BY <1>1 DEF Size, Inside, ModeAfter, InLiteral, Opens, Peek
<1>3. Neutral(index)
  BY <1>1 DEF AgreeInv
<1>4. Opens(index) = "code"
  BY <1>1, OpensNothing DEF Bom, Quotes
<1>5. Inside[index] = "code" /\ (index + 1) - 1 = index
  BY <1>1, <1>3, <1>4, NeutralOpens
<1>6. Neutral(index)'
  BY <1>1, <1>2, <1>5 DEF Neutral
<1>7. CommentsAndLiteralsAgree'
  BY <1>1, <1>2 DEF AgreeInv, CommentsAndLiteralsAgree
<1> QED
  BY <1>6, <1>7 DEF AgreeInv

\* At the start the two agree,
LEMMA AgreeInit == ASSUME Init PROVE AgreeInv
<1>1. IInv /\ Size \in Nat
  BY InitInv, TextFacts DEF Init
<1>2. index - 1 = 0 /\ DOMAIN tokens = {}
  BY DEF Init
<1>3. Neutral(index)
  BY <1>1, <1>2, ReaderIs DEF Neutral
<1> QED
  BY <1>1, <1>2, <1>3 DEF AgreeInv, CommentsAndLiteralsAgree

\* and every step keeps it so.
LEMMA AgreeStep == ASSUME AgreeInv, [Next]_vars PROVE AgreeInv'
<1>1. IInv /\ IInv'
  BY NextInv DEF AgreeInv
<1>2. CASE UNCHANGED vars
  <2>1. UNCHANGED <<chars, index, tokens>>
    BY <1>2 DEF vars
  <2>2. Size' = Size /\ Inside' = Inside
    BY <2>1 DEF Size, Inside, ModeAfter, InLiteral, Opens, Peek
  <2> QED
    BY <1>1, <2>1, <2>2 DEF AgreeInv, CommentsAndLiteralsAgree, Neutral
<1>3. CASE Next
  <2>1. Neutral(index)
    <3>1. More
      BY <1>3 DEF Next, SkipBom, LexNewline, LexWhitespace, LexLineComment, LexBlockComment,
                  LexQuoted, LexIdentOrKeyword, LexNumber, LexSymbol, LexUnknown
    <3>2. index # Size + 1
      BY <1>1, <3>1, TextFacts DEF IInv, TypeOK, More
    <3> QED
      BY <3>2 DEF AgreeInv
  <2> QED
    BY <1>1, <1>3, <2>1, StepsAgree, AgreedStays, SkipBomAgrees
<1> QED
  BY <1>2, <1>3

\* A character is inside a comment or a literal for a reader that goes over the
\* text once exactly when the lexer has it in a Comment, String or Char token.
THEOREM CommentsAndLiteralsAreFound == Spec => []CommentsAndLiteralsAgree
<1>1. Init => AgreeInv
  BY AgreeInit
<1>2. AgreeInv /\ [Next]_vars => AgreeInv'
  BY AgreeStep
<1> QED
  BY <1>1, <1>2, PTL DEF Spec, AgreeInv

-----------------------------------------------------------------------------
(* The indexer.  First what its rows depend on in the tokens: of which        *)
(* characters a token is, by its kind.                                        *)
\* What the characters of a token are, by its kind.
Shaped(t) ==
  /\ t.kind = "Newline" => \A p \in t.from .. t.to - 1 : chars[p] \in {CR, LF}
  /\ t.kind = "Whitespace" => \A p \in t.from .. t.to - 1 : chars[p] \in Space
  /\ t.kind \in {"Ident", "Keyword"} =>
       /\ chars[t.from] \in Letters
       /\ \A p \in t.from .. t.to - 1 : chars[p] \in WordChars
       /\ t.kind = "Keyword" <=> SubSeq(chars, t.from, t.to - 1) \in Keywords
  /\ t.kind = "Number" => /\ chars[t.from] \in Digits
                          /\ \A p \in t.from .. t.to - 1 : chars[p] \in NumberChars
  /\ t.kind = "String" => chars[t.from] = "\""
  /\ t.kind = "Char" => chars[t.from] = "'"
  /\ t.kind = "Comment" => chars[t.from] = "/"
  /\ t.kind = "Symbol" => chars[t.from] \in SymbolStart /\ t.to = SymbolEnd(t.from)
  /\ t.kind = "Unknown" => /\ t.to = t.from + 1
                           /\ chars[t.from] \notin Blanks \cup WordChars \cup SymbolStart \cup Quotes
  /\ t.kind \in Opaque => \/ t.to = Size + 1
                          \/ chars[t.to - 1] \in {"/"} \cup Quotes
                          \/ chars[t.to] \in {CR, LF}

\* A step emits such a token.
Shapes(kind, end) ==
  /\ Emit(kind, end) /\ index' = end /\ UNCHANGED chars
  /\ Shaped([kind |-> kind, from |-> index, to |-> end, line |-> line, column |-> column])

\* Every step but the one over a byte order mark does.
LEMMA StepsShape ==
  ASSUME IInv, Next
  PROVE  \/ SkipBom
         \/ \E kind \in Kinds, end \in index + 1 .. Size + 1 : Shapes(kind, end)
<1>1. index \in 1 .. Size /\ Size \in Nat
  <2>1. More
    BY DEF Next, SkipBom, LexNewline, LexWhitespace, LexLineComment, LexBlockComment,
           LexQuoted, LexIdentOrKeyword, LexNumber, LexSymbol, LexUnknown
  <2> QED
    BY <2>1, TextFacts DEF IInv, TypeOK, More
<1> DEFINE tok(kind, end) == [kind |-> kind, from |-> index, to |-> end,
                              line |-> line, column |-> column]
<1>2. \A kind, end : /\ tok(kind, end).kind = kind /\ tok(kind, end).from = index
                     /\ tok(kind, end).to = end
  OBVIOUS
<1>3. ASSUME NEW kind \in Kinds, NEW end \in index + 1 .. Size + 1, Lex(kind, end),
             Shaped(tok(kind, end))
      PROVE  \E k2 \in Kinds, e2 \in index + 1 .. Size + 1 : Shapes(k2, e2)
  <2>1. Shapes(kind, end)
    BY <1>3 DEF Shapes, Lex, BumpTo
  <2> QED
    BY <2>1
<1> HIDE DEF tok
<1>4. CASE LexNewline
  <2> PICK end : end = IF chars[index] = CR /\ Peek(index + 1, LF) THEN index + 2 ELSE index + 1
    OBVIOUS
  <2>1. end \in index + 1 .. Size + 1 /\ Emit("Newline", end) /\ index' = end /\ UNCHANGED chars
    BY <1>1, <1>4 DEF LexNewline, Peek
  <2>2. \A p \in index .. end - 1 : chars[p] \in {CR, LF}
    BY <1>1, <1>4 DEF LexNewline, Peek
  <2>3. Shaped(tok("Newline", end))
    <3> PICK t : t = tok("Newline", end)
      OBVIOUS
    <3>1. t.kind = "Newline" /\ t.from = index /\ t.to = end
      BY <1>2
    <3>2. Shaped(t)
      BY <3>1, <2>2 DEF Shaped, Opaque
    <3> QED
      BY <3>2
  <2>4. "Newline" \in Kinds
    BY DEF Kinds
  <2>5. Shapes("Newline", end)
    BY <2>1, <2>3 DEF Shapes, tok
  <2> QED
    BY <2>1, <2>4, <2>5
<1>5. CASE LexWhitespace
  <2> PICK end : end = RunEnd(index, Space)
    OBVIOUS
  <2>1. Lex("Whitespace", end) /\ chars[index] \in Space
    BY <1>5 DEF LexWhitespace
  <2>2. end \in index + 1 .. Size + 1 /\ \A p \in index .. end - 1 : chars[p] \in Space
    BY <1>1, <2>1, RunEndBounds, RunIs
  <2>3. Shaped(tok("Whitespace", end))
    <3> PICK t : t = tok("Whitespace", end)
      OBVIOUS
    <3>1. t.kind = "Whitespace" /\ t.from = index /\ t.to = end
      BY <1>2
    <3>2. Shaped(t)
      BY <3>1, <2>2 DEF Shaped, Opaque
    <3> QED
      BY <3>2
  <2> QED
    BY <1>3, <2>1, <2>2, <2>3 DEF Kinds
<1>6. CASE LexLineComment
  <2> PICK end : end = LineCommentEnd(index)
    OBVIOUS
  <2>1. Lex("Comment", end) /\ chars[index] = "/"
    BY <1>6 DEF LexLineComment, AtLineComment, Peek
  <2>2. end \in index + 1 .. Size + 1 /\ (end = Size + 1 \/ chars[end] \in {CR, LF})
    BY <1>1, <2>1, LineCommentEndBounds, LineCommentIs DEF CR, LF
  <2>3. Shaped(tok("Comment", end))
    <3> PICK t : t = tok("Comment", end)
      OBVIOUS
    <3>1. t.kind = "Comment" /\ t.from = index /\ t.to = end
      BY <1>2
    <3>2. Shaped(t)
      BY <3>1, <2>1, <2>2 DEF Shaped
    <3> QED
      BY <3>2
  <2> QED
    BY <1>3, <2>1, <2>2, <2>3 DEF Kinds
<1>7. CASE LexBlockComment
  <2> PICK end : end = BlockCommentEnd(index)
    OBVIOUS
  <2>1. Lex("Comment", end) /\ chars[index] = "/"
    BY <1>7 DEF LexBlockComment, AtBlockComment, Peek
  <2>2. end \in index + 1 .. Size + 1 /\ (end = Size + 1 \/ chars[end - 1] = "/")
    <3>1. /\ end \in index + 1 .. Size + 1
          /\ \/ \E p \in index + 2 .. Size : end = p + 2 /\ chars[p] = "*" /\ chars[p + 1] = "/"
             \/ end = Size + 1
      BY <1>1, BlockCommentIs
    <3>2. \A p \in index + 2 .. Size : (p + 2) - 1 = p + 1
      BY <1>1
    <3> QED
      BY <3>1, <3>2
  <2>3. Shaped(tok("Comment", end))
    <3> PICK t : t = tok("Comment", end)
      OBVIOUS
    <3>1. t.kind = "Comment" /\ t.from = index /\ t.to = end
      BY <1>2
    <3>2. Shaped(t)
      BY <3>1, <2>1, <2>2 DEF Shaped
    <3> QED
      BY <3>2
  <2> QED
    BY <1>3, <2>1, <2>2, <2>3 DEF Kinds
<1>8. CASE LexQuoted
  <2> PICK end : end = QuotedEnd(index)
    OBVIOUS
  <2> PICK kind : kind = IF chars[index] = "'" THEN "Char" ELSE "String"
    OBVIOUS
  <2>1. Lex(kind, end) /\ chars[index] \in Quotes
    BY <1>8 DEF LexQuoted, Quotes
  <2>2. end \in index + 1 .. Size + 1 /\ (end = Size + 1 \/ chars[end - 1] = chars[index])
    <3>1. /\ end \in index + 1 .. Size + 1
          /\ \/ \E p \in index + 1 .. Size : end = p + 1 /\ chars[p] = chars[index]
             \/ end = Size + 1
      BY <1>1, QuotedIs
    <3>2. \A p \in index + 1 .. Size : (p + 1) - 1 = p
      BY <1>1
    <3> QED
      BY <3>1, <3>2
  <2>3. kind \in {"Char", "String"} /\ (kind = "Char" => chars[index] = "'")
        /\ (kind = "String" => chars[index] = "\"")
    BY <2>1 DEF Quotes
  <2>4. Shaped(tok(kind, end))
    <3> PICK t : t = tok(kind, end)
      OBVIOUS
    <3>1. t.kind = kind /\ t.from = index /\ t.to = end
      BY <1>2
    <3>2. Shaped(t)
      BY <3>1, <2>1, <2>2, <2>3 DEF Shaped
    <3> QED
      BY <3>2
  <2> QED
    BY <1>3, <2>1, <2>2, <2>3, <2>4 DEF Kinds
<1>9. CASE LexIdentOrKeyword
  <2> PICK end : end = RunEnd(index, WordChars)
    OBVIOUS
  <2> PICK kind : kind = IF SubSeq(chars, index, end - 1) \in Keywords THEN "Keyword" ELSE "Ident"
    OBVIOUS
  <2>1. Lex(kind, end) /\ chars[index] \in Letters
    BY <1>9 DEF LexIdentOrKeyword
  <2>2. end \in index + 1 .. Size + 1 /\ \A p \in index .. end - 1 : chars[p] \in WordChars
    BY <1>1, <2>1, RunEndBounds, RunIs DEF WordChars
  <2>3. /\ kind \in {"Ident", "Keyword"}
        /\ kind = "Keyword" <=> SubSeq(chars, index, end - 1) \in Keywords
    OBVIOUS
  <2>4. Shaped(tok(kind, end))
    <3> PICK t : t = tok(kind, end)
      OBVIOUS
    <3>1. t.kind = kind /\ t.from = index /\ t.to = end
      BY <1>2
    <3>2. Shaped(t)
      BY <3>1, <2>1, <2>2, <2>3 DEF Shaped, Opaque
    <3> QED
      BY <3>2
  <2> QED
    BY <1>3, <2>1, <2>2, <2>3, <2>4 DEF Kinds
<1>10. CASE LexNumber
  <2> PICK end : end = RunEnd(index, NumberChars)
    OBVIOUS
  <2>1. Lex("Number", end) /\ chars[index] \in Digits
    BY <1>10 DEF LexNumber
  <2>2. end \in index + 1 .. Size + 1 /\ \A p \in index .. end - 1 : chars[p] \in NumberChars
    BY <1>1, <2>1, RunEndBounds, RunIs DEF NumberChars
  <2>3. Shaped(tok("Number", end))
    <3> PICK t : t = tok("Number", end)
      OBVIOUS
    <3>1. t.kind = "Number" /\ t.from = index /\ t.to = end
      BY <1>2
    <3>2. Shaped(t)
      BY <3>1, <2>1, <2>2 DEF Shaped, Opaque
    <3> QED
      BY <3>2
  <2> QED
    BY <1>3, <2>1, <2>2, <2>3 DEF Kinds
<1>11. CASE LexSymbol
  <2> PICK end : end = SymbolEnd(index)
    OBVIOUS
  <2>1. Lex("Symbol", end) /\ chars[index] \in SymbolStart
    BY <1>11 DEF LexSymbol
  <2>2. end \in index + 1 .. Size + 1
    BY <1>1, SymbolEndBounds
  <2>3. Shaped(tok("Symbol", end))
    <3> PICK t : t = tok("Symbol", end)
      OBVIOUS
    <3>1. t.kind = "Symbol" /\ t.from = index /\ t.to = end
      BY <1>2
    <3>2. Shaped(t)
      BY <3>1, <2>1 DEF Shaped, Opaque
    <3> QED
      BY <3>2
  <2> QED
    BY <1>3, <2>1, <2>2, <2>3 DEF Kinds
<1>12. CASE LexUnknown
  <2> PICK end : end = index + 1
    OBVIOUS
  <2>1. /\ Lex("Unknown", end)
        /\ chars[index] \notin {CR, LF, Bom, "\"", "'"} \cup Space \cup WordChars \cup SymbolStart
    BY <1>12 DEF LexUnknown
  <2>2. end \in index + 1 .. Size + 1
    BY <1>1
  <2>3. Shaped(tok("Unknown", end))
    <3> PICK t : t = tok("Unknown", end)
      OBVIOUS
    <3>1. t.kind = "Unknown" /\ t.from = index /\ t.to = end
      BY <1>2
    <3>2. Shaped(t)
      BY <3>1, <2>1 DEF Shaped, Opaque, Blanks, Quotes
    <3> QED
      BY <3>2
  <2> QED
    BY <1>3, <2>1, <2>2, <2>3 DEF Kinds
<1> QED
  BY <1>4, <1>5, <1>6, <1>7, <1>8, <1>9, <1>10, <1>11, <1>12 DEF Next

-----------------------------------------------------------------------------
(* The second reader, which tells words from numbers.                         *)
\* There is a reader that tells words from numbers.
LEMMA WordsIs ==
  ASSUME Size \in Nat
  PROVE  /\ Words[0] = "none"
         /\ \A p \in 1 .. Size : Words[p] = RunAfter(Words[p - 1], p)
<1> DEFINE Follows(f, n) == f = [p \in 0 .. n |-> IF p = 0 THEN "none" ELSE RunAfter(f[p - 1], p)]
           S == {n \in Nat : \E f : Follows(f, n)}
<1>1. 0 \in S
  <2>1. Follows([p \in 0 .. 0 |-> "none"], 0)
    <3>1. \A p \in 0 .. 0 : p = 0
      OBVIOUS
    <3> QED
      BY <3>1
  <2> QED
    BY <2>1
<1>2. ASSUME NEW n \in 0 .. Size, n \in S PROVE n + 1 \in S
  <2>1. PICK f : Follows(f, n)
    BY <1>2
  <2> DEFINE g == [p \in 0 .. n + 1 |-> IF p = n + 1 THEN RunAfter(f[n], n + 1) ELSE f[p]]
  <2>2. \A p \in 0 .. n : g[p] = f[p]
    OBVIOUS
  <2>3. \A p \in 0 .. n : f[p] = IF p = 0 THEN "none" ELSE RunAfter(f[p - 1], p)
    BY <2>1
  <2>4. ASSUME NEW p \in 0 .. n + 1
        PROVE  g[p] = IF p = 0 THEN "none" ELSE RunAfter(g[p - 1], p)
    <3>1. CASE p = n + 1
      <4>1. p # 0 /\ p - 1 = n /\ n \in 0 .. n
        BY <3>1
      <4> QED
        BY <2>2, <3>1, <4>1
    <3>2. CASE p # n + 1
      <4>1. p \in 0 .. n /\ (p # 0 => p - 1 \in 0 .. n)
        BY <3>2
      <4> QED
        BY <2>2, <2>3, <4>1
    <3> QED
      BY <3>1, <3>2
  <2>5. Follows(g, n + 1)
    BY <2>4
  <2> HIDE DEF Follows, g
  <2>6. \E h : Follows(h, n + 1)
    BY <2>5
  <2> QED
    BY <2>6
<1> HIDE DEF S
<1>3. Size \in S
  BY <1>1, <1>2, Climb
<1>4. \E f : Follows(f, Size)
  BY <1>3 DEF S
<1>5. Follows(Words, Size)
  <2>1. Words = CHOOSE f : Follows(f, Size)
    BY DEF Words
  <2> HIDE DEF Follows
  <2> QED
    BY <1>4, <2>1
<1> QED
  BY <1>5

\* Whatever stands before p ends before it.
Calm(p) ==
  /\ Words[p - 1] = "word" => chars[p] \notin WordChars
  /\ Words[p - 1] = "number" => chars[p] \notin NumberChars

\* The reader finds a word where the lexer does, and a number.
Spells(t) ==
  /\ t.kind \in {"Ident", "Keyword"} => /\ Words[t.from - 1] # "word"
                                        /\ \A p \in t.from .. t.to - 1 : Words[p] = "word"
  /\ t.kind \notin Opaque \cup {"Ident", "Keyword"} =>
       \A p \in t.from .. t.to - 1 : Words[p] # "word"

\* Of what the characters are told apart by.
LEMMA CharFacts ==
  /\ \A x \in Blanks : x \notin NumberChars
  /\ \A x \in SymbolStart \ {Dot} : x \notin NumberChars
  /\ \A x \in SymbolStart : x \notin WordChars
  /\ \A x \in {"/"} \cup Quotes : x \notin NumberChars
  /\ \A x \in WordChars : x \in NumberChars
  /\ \A x \in Letters : x \in WordChars /\ x \notin Digits
  /\ \A x \in Digits : x \in WordChars /\ x \notin Letters
  /\ CR \in Blanks /\ LF \in Blanks /\ Bom \in Blanks
<1>1. \A x \in Blanks : x \notin WordChars /\ x \notin SymbolStart
  BY ClassesAssumption
<1>2. Dot \in SymbolStart /\ "/" \in SymbolStart /\ Dot # "/" /\ Dot \notin Quotes
  BY DEF SymbolStart, Dot, Quotes
<1>3. \A x \in SymbolStart \cup Quotes : x \notin WordChars
  BY ClassesAssumption DEF Quotes
<1> QED
  BY <1>1, <1>2, <1>3, ClassesAssumption DEF NumberChars, WordChars, Blanks

\* Over a token the reader goes as its kind says, and after it nothing goes on.
LEMMA ShapedSpells ==
  ASSUME Size \in Nat, NEW t, t.from \in 1 .. Size, t.to \in t.from + 1 .. Size + 1,
         t.kind \in Kinds, Shaped(t), Calm(t.from),
         t.to = Size + 1 \/ /\ t.kind \in {"Ident", "Keyword"} => chars[t.to] \notin WordChars
                            /\ t.kind = "Number" => chars[t.to] \notin NumberChars
  PROVE  Spells(t) /\ (t.to = Size + 1 \/ Calm(t.to))
<1> PICK i \in 1 .. Size, end \in 1 .. Size + 1 : i = t.from /\ end = t.to /\ end \in i + 1 .. Size + 1
  OBVIOUS
<1> PICK last \in 1 .. Size : last = end - 1 /\ i <= last
  OBVIOUS
<1>1. i \in Nat /\ last \in Nat
  OBVIOUS
<1>2. /\ Words[0] = "none"
      /\ \A p \in 1 .. Size : Words[p] = RunAfter(Words[p - 1], p)
  BY WordsIs
<1>3. /\ \A p \in 1 .. Size : chars[p] \notin NumberChars => Words[p] = "none"
      /\ \A p \in 1 .. Size : Words[p] \in {"word", "number", "none"}
  BY <1>2, CharFacts DEF RunAfter
<1>4. \A p \in 0 .. Size : Words[p] \in {"word", "number", "none"}
  BY <1>2, <1>3
<1>5. chars[i] \in WordChars => Words[i - 1] = "none"
  BY <1>4, CharFacts DEF Calm
<1>6. CASE t.kind \in {"Ident", "Keyword"}
  <2>1. /\ chars[i] \in Letters /\ \A p \in i .. last : chars[p] \in WordChars
    BY <1>6 DEF Shaped
  <2>2. Words[i - 1] = "none" /\ Words[i] = "word"
    BY <1>2, <1>5, <2>1, CharFacts DEF RunAfter
  <2> DEFINE S == {p \in Nat : Words[p] = "word"}
  <2>3. i \in S
    BY <2>2
  <2>4. ASSUME NEW p \in i .. last, p \in S, p # last PROVE p + 1 \in S
    <3>1. p + 1 \in 1 .. Size /\ (p + 1) - 1 = p /\ p + 1 \in i .. last
      BY <2>4
    <3>2. Words[p + 1] = RunAfter("word", p + 1) /\ chars[p + 1] \in Letters \cup Digits
      BY <1>2, <2>1, <2>4, <3>1 DEF WordChars
    <3> QED
      BY <3>2 DEF RunAfter
  <2> HIDE DEF S
  <2>5. \A p \in i .. last : p \in S
    BY <1>1, <2>3, <2>4, Climb
  <2>6. \A p \in i .. last : Words[p] = "word"
    BY <2>5 DEF S
  <2>7. Words[end - 1] = "word"
    BY <2>6
  <2>8. t.kind \notin Opaque
    BY <1>6 DEF Opaque
  <2>9. Spells(t)
    BY <1>6, <2>2, <2>6 DEF Spells
  <2> QED
    BY <1>6, <2>7, <2>9 DEF Calm
<1>7. CASE t.kind = "Number"
  <2>1. /\ chars[i] \in Digits /\ \A p \in i .. last : chars[p] \in NumberChars
    BY <1>7 DEF Shaped
  <2>2. Words[i] = "number"
    BY <1>2, <1>5, <2>1, CharFacts DEF RunAfter
  <2> DEFINE S == {p \in Nat : Words[p] = "number"}
  <2>3. i \in S
    BY <2>2
  <2>4. ASSUME NEW p \in i .. last, p \in S, p # last PROVE p + 1 \in S
    <3>1. p + 1 \in 1 .. Size /\ (p + 1) - 1 = p /\ p + 1 \in i .. last
      BY <2>4
    <3>2. Words[p + 1] = RunAfter("number", p + 1) /\ chars[p + 1] \in NumberChars
      BY <1>2, <2>1, <2>4, <3>1
    <3> QED
      BY <3>2 DEF RunAfter
  <2> HIDE DEF S
  <2>5. \A p \in i .. last : p \in S
    BY <1>1, <2>3, <2>4, Climb
  <2>6. \A p \in i .. last : Words[p] = "number"
    BY <2>5 DEF S
  <2>7. Words[end - 1] = "number"
    BY <2>6
  <2>8. Spells(t)
    BY <1>7, <2>6 DEF Spells
  <2> QED
    BY <1>7, <2>7, <2>8 DEF Calm
<1>8. CASE t.kind \in Opaque
  <2>1. Spells(t)
    BY <1>8 DEF Spells, Opaque
  <2>2. \/ end = Size + 1
        \/ chars[last] \in {"/"} \cup Quotes
        \/ chars[end] \in {CR, LF}
    BY <1>8 DEF Shaped
  <2>3. CASE chars[last] \in {"/"} \cup Quotes
    <3>1. Words[end - 1] = "none"
      BY <1>3, <2>3, CharFacts
    <3> QED
      BY <2>1, <3>1 DEF Calm
  <2>4. CASE chars[end] \in {CR, LF}
    <3>1. chars[end] \notin NumberChars
      BY <2>4, CharFacts
    <3> QED
      BY <2>1, <3>1, CharFacts DEF Calm
  <2> QED
    BY <2>1, <2>2, <2>3, <2>4
<1>9. CASE t.kind \in {"Newline", "Whitespace", "Symbol", "Unknown"}
  <2>1. \A p \in i .. last : Words[p] = "none"
    <3>1. CASE t.kind \in {"Newline", "Whitespace"}
      <4>1. \A p \in i .. last : chars[p] \in Blanks
        BY <3>1 DEF Shaped, Blanks
      <4>2. \A p \in i .. last : chars[p] \notin NumberChars /\ p \in 1 .. Size
        BY <4>1, CharFacts
      <4> QED
        BY <1>3, <4>2
    <3>2. CASE t.kind \in {"Symbol", "Unknown"}
      <4>1. chars[i] \notin WordChars
        BY <3>2, CharFacts DEF Shaped
      <4>2. Words[i] = "none"
        <5>1. Words[i] = RunAfter(Words[i - 1], i)
          BY <1>2
        <5> QED
          BY <4>1, <5>1, CharFacts DEF RunAfter, Calm, WordChars
      <4>3. CASE end = i + 1
        BY <4>2, <4>3
      <4>4. CASE end # i + 1
        <5>1. end = i + 2 /\ <<chars[i], chars[i + 1]>> \in Pairs
          BY <3>2, <4>4 DEF Shaped, SymbolEnd
        <5>2. chars[i + 1] \notin WordChars
          BY <5>1, ClassesAssumption
        <5>3. i + 1 \in 1 .. Size /\ (i + 1) - 1 = i
          BY <5>1
        <5>4. Words[i + 1] = RunAfter("none", i + 1)
          BY <1>2, <4>2, <5>3
        <5>5. Words[i + 1] = "none"
          BY <5>2, <5>4, CharFacts DEF RunAfter, WordChars
        <5>6. \A p \in i .. last : p = i \/ p = i + 1
          BY <5>1
        <5> QED
          BY <4>2, <5>5, <5>6
      <4> QED
        BY <4>3, <4>4
    <3> QED
      BY <1>9, <3>1, <3>2
  <2>2. Words[end - 1] = "none"
    BY <2>1
  <2>3. Spells(t)
    BY <1>9, <2>1 DEF Spells
  <2> QED
    BY <2>2, <2>3 DEF Calm
<1> QED
  BY <1>6, <1>7, <1>8, <1>9 DEF Kinds, Opaque

-----------------------------------------------------------------------------
(* All of it is kept by every step of the lexer.                              *)
\* A place is before another if it is in an earlier line, or earlier in the line.
Before(a, b) == a.line < b.line \/ (a.line = b.line /\ a.column < b.column)

Here == [line |-> line, column |-> column]

\* Everything about the tokens that the indexer's rows depend on.
TextInv ==
  /\ AgreeInv
  /\ index = Size + 1 \/ Calm(index)
  /\ \A k \in DOMAIN tokens : Shaped(tokens[k]) /\ Spells(tokens[k])
  /\ \A k \in DOMAIN tokens : Before(tokens[k], Here)
  /\ \A j, k \in DOMAIN tokens : j < k => Before(tokens[j], tokens[k])

\* Steps go on in the text.
LEMMA StepsGoOn ==
  ASSUME IInv, Next, ~SkipBom
  PROVE  Before(Here, Here')
<1>1. line \in Nat /\ column \in Nat /\ index \in Nat /\ Size \in Nat
  BY TextFacts DEF IInv, TypeOK
<1>2. CASE LexNewline
  BY <1>1, <1>2 DEF LexNewline, Before, Here
<1>3. ASSUME NEW kind, NEW end \in index + 1 .. Size + 1, Lex(kind, end)
      PROVE  Before(Here, Here')
  <2> DEFINE feeds == LineFeeds(index, end)
  <2>1. CASE feeds = {}
    <3>1. column' = column + (end - index) /\ line' = line + Cardinality({})
      BY <1>3, <2>1 DEF Lex, BumpTo
    <3>2. line' = line
      BY <1>1, <3>1, FS_EmptySet
    <3> QED
      BY <1>1, <3>1, <3>2 DEF Before, Here
  <2>2. CASE feeds # {}
    <3>1. feeds \subseteq index .. end - 1 /\ IsFiniteSet(index .. end - 1)
      BY <1>1, FS_Interval DEF LineFeeds
    <3>2. Cardinality(feeds) \in Nat /\ Cardinality(feeds) # 0
      BY <2>2, <3>1, FS_Subset, FS_EmptySet, FS_CardinalityType
    <3>3. line' = line + Cardinality(feeds)
      BY <1>3 DEF Lex, BumpTo
    <3> QED
      BY <1>1, <3>2, <3>3 DEF Before, Here
  <2> QED
    BY <2>1, <2>2
<1> QED
  BY <1>2, <1>3, StepsLex

\* A token more.
LEMMA TextStays ==
  ASSUME TextInv, AgreeInv', NEW kind \in Kinds, NEW end \in index + 1 .. Size + 1,
         Shapes(kind, end), Before(Here, Here'), index \in 1 .. Size
  PROVE  TextInv'
<1> DEFINE t == [kind |-> kind, from |-> index, to |-> end, line |-> line, column |-> column]
<1>1. /\ Size \in Nat /\ tokens \in Seq(Token) /\ tokens' \in Seq(Token) /\ IInv'
      /\ chars' = chars /\ index' = end /\ tokens' = Append(tokens, t) /\ Size' = Size
      /\ line \in Nat /\ column \in Nat /\ line' \in Nat /\ column' \in Nat
  BY TextFacts DEF TextInv, AgreeInv, IInv, TypeOK, Shapes, Emit, Size
<1>2. /\ t.kind = kind /\ t.from = index /\ t.to = end /\ t.line = line /\ t.column = column
  OBVIOUS
<1>3. t \in Token
  <2>1. index \in Nat /\ end \in Nat
    BY <1>1
  <2> QED
    BY <1>1, <2>1 DEF Token
<1>4. Shaped(t)
  BY DEF Shapes
<1> HIDE DEF t
<1> PICK n \in Nat : n = Len(tokens)
  BY <1>1, LenProperties
<1>5. /\ DOMAIN tokens = 1 .. n /\ DOMAIN tokens' = 1 .. n + 1
       /\ \A k \in 1 .. n : tokens'[k] = tokens[k]
  BY <1>1, <1>3, AppendProperties, LenProperties
<1>6. tokens'[n + 1] = t
  BY <1>1, <1>3, AppendProperties
<1>7. \A k \in 1 .. n : tokens[k].line \in Nat /\ tokens[k].column \in Nat
  <2>1. \A k \in 1 .. n : tokens[k] \in Token
    BY <1>1
  <2> QED
    BY <2>1 DEF Token
<1>8. Words' = Words
  BY <1>1 DEF Words, RunAfter
<1>9. /\ \A u : Shaped(u)' = Shaped(u) /\ Spells(u)' = Spells(u)
      /\ \A p : Calm(p)' = Calm(p)
  BY <1>1, <1>8 DEF Shaped, Spells, Calm, SymbolEnd
<1>10. Calm(index)
  BY <1>1 DEF TextInv
<1>11. \/ end = Size + 1
      \/ /\ kind \in {"Ident", "Keyword"} => chars[end] \notin WordChars
         /\ kind = "Number" => chars[end] \notin NumberChars
  <2>1. n + 1 \in DOMAIN tokens'
    BY <1>5, <1>7
  <2> QED
    BY <1>1, <1>6, <1>2, <2>1 DEF IInv, LongestMatch, Whole, WholeRun, WordChars, NumberChars
<1>12. Spells(t) /\ (end = Size + 1 \/ Calm(end))
  BY <1>1, <1>2, <1>4, <1>10, <1>11, ShapedSpells
<1>13. \A k \in 1 .. n + 1 : (Shaped(tokens[k]))' /\ (Spells(tokens[k]))'
  <2> SUFFICES ASSUME NEW k \in 1 .. n + 1
               PROVE  (Shaped(tokens[k]))' /\ (Spells(tokens[k]))'
    OBVIOUS
  <2> PICK u : u = tokens'[k]
    OBVIOUS
  <2>1. Shaped(u) /\ Spells(u)
    <3>1. CASE k \in 1 .. n
      <4>1. u = tokens[k] /\ k \in DOMAIN tokens
        BY <1>5, <3>1
      <4> QED
        BY <4>1 DEF TextInv
    <3>2. CASE k = n + 1
      <4>1. u = t
        BY <1>6, <3>2
      <4> QED
        BY <1>4, <1>12, <4>1
    <3> QED
      BY <3>1, <3>2
  <2> QED
    BY <1>9, <2>1
<1>14. index' = Size' + 1 \/ Calm(index)'
  BY <1>1, <1>9, <1>12
<1>15. \A k \in 1 .. n + 1 : Before(tokens'[k], Here')
  <2>1. ASSUME NEW k \in 1 .. n PROVE Before(tokens'[k], Here')
    <3>1. Before(tokens[k], Here)
      BY <1>5, <1>7 DEF TextInv
    <3> QED
      BY <1>1, <1>5, <1>7, <3>1 DEF Before, Here
  <2>2. Before(t, Here')
    BY <1>2 DEF Before, Here
  <2>3. \A k \in 1 .. n + 1 : k \in 1 .. n \/ k = n + 1
    OBVIOUS
  <2>4. Before(tokens'[n + 1], Here')
    BY <1>6, <2>2
  <2> QED
    BY <2>1, <2>3, <2>4
<1>16. \A j, k \in 1 .. n + 1 : j < k => Before(tokens'[j], tokens'[k])
  <2> SUFFICES ASSUME NEW j \in 1 .. n + 1, NEW k \in 1 .. n + 1, j < k
               PROVE  Before(tokens'[j], tokens'[k])
    OBVIOUS
  <2>1. j \in 1 .. n /\ tokens'[j] = tokens[j]
    BY <1>5, <1>7
  <2>2. CASE k \in 1 .. n
    <3>1. tokens'[k] = tokens[k] /\ Before(tokens[j], tokens[k])
      BY <1>5, <2>1, <2>2 DEF TextInv
    <3> QED
      BY <2>1, <3>1
  <2>3. CASE k = n + 1
    <3>1. tokens'[k] = t
      BY <1>6, <2>3
    <3>2. Before(tokens[j], Here)
      BY <1>5, <2>1 DEF TextInv
    <3>3. Before(tokens[j], t)
      BY <1>2, <3>2 DEF Before, Here
    <3> QED
      BY <2>1, <3>1, <3>3
  <2> QED
    BY <2>2, <2>3
<1> QED
  BY <1>1, <1>5, <1>13, <1>14, <1>15, <1>16 DEF TextInv, Before

LEMMA TextInit == ASSUME Init PROVE TextInv
<1>1. AgreeInv /\ Size \in Nat
  BY AgreeInit, TextFacts DEF Init
<1>2. index - 1 = 0 /\ DOMAIN tokens = {}
  BY DEF Init
<1>3. Calm(index)
  BY <1>1, <1>2, WordsIs DEF Calm
<1> QED
  BY <1>1, <1>2, <1>3 DEF TextInv

LEMMA TextStep == ASSUME TextInv, [Next]_vars PROVE TextInv'
<1>1. IInv /\ IInv' /\ AgreeInv /\ AgreeInv'
  BY AgreeStep DEF TextInv, AgreeInv
<1>2. CASE UNCHANGED vars
  <2>1. UNCHANGED <<chars, index, tokens, line, column>>
    BY <1>2 DEF vars
  <2>2. Size' = Size /\ Words' = Words
    BY <2>1 DEF Size, Words, RunAfter
  <2>3. /\ \A u : Shaped(u)' = Shaped(u) /\ Spells(u)' = Spells(u)
        /\ \A p : Calm(p)' = Calm(p)
    BY <2>1, <2>2 DEF Shaped, Spells, Calm, SymbolEnd
  <2> QED
    BY <1>1, <2>1, <2>2, <2>3 DEF TextInv, Before, Here
<1>3. CASE SkipBom
  <2>1. /\ chars' = chars /\ tokens' = tokens /\ line' = line /\ column' = column
        /\ index' = index + 1 /\ chars[index] = Bom /\ index \in 1 .. Size /\ Size \in Nat
    BY <1>1, <1>3, TextFacts DEF IInv, TypeOK, SkipBom, More
  <2>2. Size' = Size /\ Words' = Words
    BY <2>1 DEF Size, Words, RunAfter
  <2>3. /\ \A u : Shaped(u)' = Shaped(u) /\ Spells(u)' = Spells(u)
        /\ \A p : Calm(p)' = Calm(p)
    BY <2>1, <2>2 DEF Shaped, Spells, Calm, SymbolEnd
  <2>4. Words[index] = RunAfter(Words[index - 1], index)
    BY <2>1, WordsIs
  <2>5. chars[index] \notin NumberChars /\ chars[index] \notin Letters /\ chars[index] \notin Digits
    BY <2>1, CharFacts DEF NumberChars
  <2>6. Words[index] = "none" /\ (index + 1) - 1 = index
    BY <2>1, <2>4, <2>5 DEF RunAfter
  <2>7. Calm(index + 1)
    BY <2>6 DEF Calm
  <2> QED
    BY <1>1, <2>1, <2>2, <2>3, <2>7 DEF TextInv, Before, Here
<1>4. CASE Next /\ ~SkipBom
  <2>1. PICK kind \in Kinds, end \in index + 1 .. Size + 1 : Shapes(kind, end)
    BY <1>1, <1>4, StepsShape
  <2>2. Before(Here, Here')
    BY <1>1, <1>4, StepsGoOn
  <2>3. index \in 1 .. Size
    <3>1. More
      BY <1>4 DEF Next, SkipBom, LexNewline, LexWhitespace, LexLineComment, LexBlockComment,
                  LexQuoted, LexIdentOrKeyword, LexNumber, LexSymbol, LexUnknown
    <3> QED
      BY <1>1, <3>1, TextFacts DEF IInv, TypeOK, More
  <2> QED
    BY <1>1, <2>1, <2>2, <2>3, TextStays
<1> QED
  BY <1>2, <1>3, <1>4

-----------------------------------------------------------------------------
(* When the lexer has read the whole text: where its tokens are, and which of *)
(* them the indexer sees.                                                     *)
\* The lexer has gone over the whole text.
Settled == TextInv /\ index = Size + 1

\* The tokens of a text that has been read: where they are,
LEMMA TokenFacts ==
  ASSUME Settled
  PROVE  /\ Size \in Nat /\ tokens \in Seq(Token)
         /\ \A k \in DOMAIN tokens :
              /\ k \in Nat /\ tokens[k].kind \in Kinds
              /\ tokens[k].from \in 1 .. Size
              /\ tokens[k].to \in tokens[k].from + 1 .. Size + 1
<1>1. /\ Size \in Nat /\ tokens \in Seq(Token) /\ TypeOK /\ Tiling
  BY TextFacts DEF Settled, TextInv, AgreeInv, IInv, TypeOK
<1> PICK n \in Nat : n = Len(tokens) /\ DOMAIN tokens = 1 .. n
  BY <1>1, LenProperties
<1>2. \A k \in 1 .. n : tokens[k] \in Token
  BY <1>1
<1>3. \A k \in 1 .. n : /\ tokens[k].kind \in Kinds /\ tokens[k].from \in Nat
                        /\ tokens[k].to \in Nat /\ tokens[k].from < tokens[k].to
                        /\ Reached(k - 1) <= tokens[k].from
  BY <1>1, <1>2 DEF Token, Tiling
<1>4. \A k \in 0 .. n : Reached(k) \in Nat /\ Reached(k) >= 1
  <2> DEFINE S == {k \in Nat : Reached(k) \in Nat /\ Reached(k) >= 1}
  <2>1. 0 \in S
    BY DEF Reached
  <2>2. ASSUME NEW k \in 0 .. n, k \in S, k # n PROVE k + 1 \in S
    <3>1. k + 1 \in 1 .. n /\ (k + 1) - 1 = k /\ k + 1 # 0
      BY <2>2
    <3>2. Reached(k + 1) = tokens[k + 1].to
      BY <3>1 DEF Reached
    <3>3. tokens[k + 1].to \in Nat /\ tokens[k + 1].to > tokens[k + 1].from
          /\ Reached(k) <= tokens[k + 1].from /\ tokens[k + 1].from \in Nat
      BY <1>3, <3>1
    <3> QED
      BY <2>2, <3>1, <3>2, <3>3
  <2> HIDE DEF S
  <2>3. \A k \in 0 .. n : k \in S
    BY <2>1, <2>2, Climb
  <2> QED
    BY <2>3 DEF S
<1>5. ASSUME NEW k \in 1 .. n PROVE tokens[k].from >= 1 /\ tokens[k].to <= Size + 1
  <2>1. k - 1 \in 0 .. n /\ tokens[k].from >= 1
    BY <1>3, <1>4
  <2> DEFINE S == {j \in Nat : tokens[k].to <= Reached(j)}
  <2>2. k \in S
    BY <1>3 DEF Reached
  <2>3. ASSUME NEW j \in k .. n, j \in S, j # n PROVE j + 1 \in S
    <3>1. j + 1 \in 1 .. n /\ (j + 1) - 1 = j /\ j + 1 # 0
      BY <2>3
    <3>2. Reached(j + 1) = tokens[j + 1].to
      BY <3>1 DEF Reached
    <3>3. /\ tokens[j + 1].to \in Nat /\ tokens[j + 1].to > tokens[j + 1].from
          /\ Reached(j) <= tokens[j + 1].from /\ tokens[j + 1].from \in Nat
          /\ Reached(j) \in Nat /\ tokens[k].to \in Nat
      BY <1>3, <1>4, <3>1
    <3> QED
      BY <2>3, <3>1, <3>2, <3>3
  <2> HIDE DEF S
  <2>4. k \in Nat /\ n \in Nat
    OBVIOUS
  <2>5. \A j \in k .. n : j \in S
    BY <2>2, <2>3, <2>4, Climb
  <2>6. tokens[k].to <= Reached(n)
    BY <2>5 DEF S
  <2>7. Reached(n) <= Size + 1
    BY <1>1 DEF Tiling, Settled
  <2> QED
    BY <1>1, <1>3, <1>4, <2>1, <2>6, <2>7
<1> QED
  BY <1>1, <1>3, <1>5

\* that they do not overlap,
LEMMA TokensApart ==
  ASSUME Settled, NEW i \in DOMAIN tokens, NEW k \in DOMAIN tokens, i < k
  PROVE  tokens[i].to <= tokens[k].from
<1>1. /\ Size \in Nat /\ tokens \in Seq(Token) /\ Tiling
      /\ \A j \in DOMAIN tokens : /\ tokens[j].from \in Nat /\ tokens[j].to \in Nat
                                  /\ tokens[j].from < tokens[j].to
  BY TokenFacts DEF Settled, TextInv, AgreeInv, IInv
<1> PICK n \in Nat : n = Len(tokens) /\ DOMAIN tokens = 1 .. n
  BY <1>1, LenProperties
<1>2. ASSUME NEW j \in 2 .. n PROVE tokens[j - 1].to <= tokens[j].from
  <2>1. j \in DOMAIN tokens /\ j - 1 # 0
    OBVIOUS
  <2>2. Reached(j - 1) <= tokens[j].from
    BY <1>1, <2>1 DEF Tiling
  <2> QED
    BY <2>1, <2>2 DEF Reached
<1> DEFINE S == {j \in Nat : tokens[i].to <= tokens[j].to}
<1>3. i \in S
  BY <1>1
<1>4. ASSUME NEW j \in i .. n, j \in S, j # n PROVE j + 1 \in S
  <2>1. j \in 1 .. n /\ j + 1 \in 2 .. n /\ (j + 1) - 1 = j /\ j + 1 \in 1 .. n
    BY <1>4
  <2>2. tokens[j].to <= tokens[j + 1].from /\ tokens[j + 1].from < tokens[j + 1].to
    BY <1>1, <1>2, <2>1
  <2> QED
    BY <1>1, <1>4, <2>1, <2>2
<1> HIDE DEF S
<1>5. i \in Nat /\ n \in Nat
  OBVIOUS
<1>6. \A j \in i .. n : j \in S
  BY <1>3, <1>4, <1>5, Climb
<1>7. k - 1 \in i .. n /\ k \in 2 .. n /\ k - 1 \in 1 .. n
  OBVIOUS
<1>8. tokens[i].to <= tokens[k - 1].to /\ tokens[k - 1].to <= tokens[k].from
  BY <1>2, <1>6, <1>7 DEF S
<1> QED
  BY <1>1, <1>7, <1>8

\* and that nothing but byte order marks lies between them.
LEMMA TokensCover ==
  ASSUME Settled, NEW p \in 1 .. Size, chars[p] # Bom
  PROVE  \E k \in DOMAIN tokens : p \in tokens[k].from .. tokens[k].to - 1
<1>1. /\ Size \in Nat /\ tokens \in Seq(Token) /\ Tiling
      /\ \A k \in DOMAIN tokens : tokens[k].from \in Nat /\ tokens[k].to \in Nat
  BY TokenFacts DEF Settled, TextInv, AgreeInv, IInv
<1> PICK n \in Nat : n = Len(tokens) /\ DOMAIN tokens = 1 .. n
  BY <1>1, LenProperties
<1> SUFFICES ASSUME \A k \in 1 .. n : ~(p \in tokens[k].from .. tokens[k].to - 1)
             PROVE  FALSE
  OBVIOUS
<1> DEFINE S == {k \in Nat : Reached(k) <= p}
<1>2. 0 \in S
  BY DEF Reached
<1>3. ASSUME NEW k \in 0 .. n, k \in S, k # n PROVE k + 1 \in S
  <2>1. k + 1 \in 1 .. n /\ (k + 1) - 1 = k /\ k + 1 # 0
    BY <1>3
  <2>2. Reached(k) <= p /\ \A q \in Reached(k) .. tokens[k + 1].from - 1 : chars[q] = Bom
    BY <1>1, <1>3, <2>1 DEF Tiling
  <2>3. tokens[k + 1].from \in Nat /\ tokens[k + 1].to \in Nat
    BY <1>1, <2>1
  <2>4. Reached(k) \in Nat
    BY <1>1, <1>3 DEF Reached
  <2>5. tokens[k + 1].from <= p
    BY <2>2, <2>3, <2>4
  <2>6. tokens[k + 1].to <= p
    BY <2>1, <2>3, <2>5
  <2> QED
    BY <2>1, <2>6 DEF Reached
<1> HIDE DEF S
<1>4. \A k \in 0 .. n : k \in S
  BY <1>2, <1>3, Climb
<1>5. Reached(n) <= p /\ Reached(n) \in Nat
  BY <1>1, <1>4 DEF S, Reached
<1>6. \A q \in Reached(n) .. Size : chars[q] = Bom
  BY <1>1 DEF Tiling, Settled
<1> QED
  BY <1>5, <1>6

\* No token begins before p and ends after it.
Edge(p) == \A k \in DOMAIN tokens : tokens[k].from < p => tokens[k].to <= p

LEMMA EdgeAfter ==
  ASSUME Settled, NEW k \in DOMAIN tokens
  PROVE  Edge(tokens[k].to) /\ Edge(tokens[k].from)
<1>1. \A i \in DOMAIN tokens : /\ i \in Nat /\ tokens[i].from \in Nat /\ tokens[i].to \in Nat
                               /\ tokens[i].from < tokens[i].to
  BY TokenFacts
<1>2. \A i, j \in DOMAIN tokens : i < j => tokens[i].to <= tokens[j].from
  BY TokensApart
<1>3. ASSUME NEW i \in DOMAIN tokens
      PROVE  /\ tokens[i].from < tokens[k].to => tokens[i].to <= tokens[k].to
             /\ tokens[i].from < tokens[k].from => tokens[i].to <= tokens[k].from
  <2>1. CASE i = k
    BY <1>1, <2>1
  <2>2. CASE i < k
    BY <1>1, <1>2, <2>2
  <2>3. CASE k < i
    BY <1>1, <1>2, <2>3
  <2> QED
    BY <1>1, <2>1, <2>2, <2>3
<1> QED
  BY <1>3 DEF Edge

\* What the first character of a token says of its kind.
LEMMA KindByFirst ==
  ASSUME Settled, NEW k \in DOMAIN tokens
  PROVE  LET t == tokens[k]
             x == chars[t.from]
         IN  /\ t.kind \in Trivia <=> x \in Blanks
             /\ t.kind \in Trivia => \A p \in t.from .. t.to - 1 : chars[p] \in Blanks
             /\ t.kind \in {"Ident", "Keyword"} <=> x \in Letters
             /\ t.kind = "Number" <=> x \in Digits
             /\ t.kind = "String" <=> x = "\""
             /\ x \in {"#", "("} => t.kind \notin Opaque /\ t.to = t.from + 1
             /\ t.kind \in {"Symbol", "Unknown"} =>
                  /\ x \notin WordChars /\ x \notin Blanks
                  /\ \A p \in t.from + 1 .. t.to - 1 : chars[p] \notin {"#", "("}
<1> PICK t : t = tokens[k]
  OBVIOUS
<1> PICK x : x = chars[t.from]
  OBVIOUS
<1>1. /\ Shaped(t) /\ t.kind \in Kinds /\ Size \in Nat /\ t.from \in 1 .. Size
      /\ t.to \in t.from + 1 .. Size + 1
  BY TokenFacts DEF Settled, TextInv
<1>2. /\ x \in Blanks => x \notin WordChars \cup SymbolStart \cup Quotes \cup {"#", "("}
      /\ x \in Letters => x \in WordChars /\ x \notin Digits
      /\ x \in Digits => x \in WordChars
      /\ x \in WordChars => x \notin SymbolStart \cup Quotes \cup {"#", "("} /\ x \in Letters \cup Digits
      /\ x \in SymbolStart => x \notin Quotes
      /\ "/" \in SymbolStart /\ "/" # "#" /\ "/" # "(" /\ {"#", "("} \cap Quotes = {}
      /\ Quotes = {"\"", "'"}
  <2>1. x \in SymbolStart => x \notin Quotes
    BY CharactersAreApart DEF SymbolStart, Quotes, Dot
  <2> QED
    BY <2>1, ClassesAssumption DEF SymbolStart, Quotes, WordChars
<1>3. CASE t.kind \in Trivia
  <2>1. \A p \in t.from .. t.to - 1 : chars[p] \in Blanks
    BY <1>1, <1>3 DEF Shaped, Trivia, Blanks
  <2>2. x \in Blanks /\ t.kind \notin {"Ident", "Keyword", "Number", "String", "Symbol", "Unknown"} \cup Opaque
    BY <1>1, <1>3, <2>1 DEF Trivia, Opaque
  <2> QED
    BY <1>2, <1>3, <2>1, <2>2
<1>4. CASE t.kind \in {"Ident", "Keyword"}
  <2>1. x \in Letters /\ t.kind \notin Trivia \cup Opaque \cup {"Number", "String", "Symbol", "Unknown"}
    BY <1>1, <1>4 DEF Shaped, Trivia, Opaque
  <2> QED
    BY <1>2, <1>4, <2>1
<1>5. CASE t.kind = "Number"
  <2>1. x \in Digits /\ t.kind \notin Trivia \cup Opaque \cup {"Ident", "Keyword", "String", "Symbol", "Unknown"}
    BY <1>1, <1>5 DEF Shaped, Trivia, Opaque
  <2> QED
    BY <1>2, <1>5, <2>1
<1>6. CASE t.kind \in Opaque
  <2>1. /\ t.kind \notin Trivia \cup {"Ident", "Keyword", "Number", "Symbol", "Unknown"}
        /\ x \in {"/"} \cup Quotes /\ (t.kind = "String" <=> x = "\"")
    BY <1>1, <1>6 DEF Shaped, Trivia, Opaque, Quotes
  <2> QED
    BY <1>2, <1>6, <2>1
<1>7. CASE t.kind \in {"Symbol", "Unknown"}
  <2>1. t.kind \notin Trivia \cup {"Ident", "Keyword", "Number", "String"} \cup Opaque
    BY <1>7 DEF Trivia, Opaque
  <2>2. x \notin Blanks \cup WordChars \cup Quotes
    BY <1>1, <1>2, <1>7 DEF Shaped
  <2>3. /\ x \in {"#", "("} => t.to = t.from + 1
        /\ \A p \in t.from + 1 .. t.to - 1 : chars[p] \notin {"#", "("}
    <3>1. CASE t.to = t.from + 1
      BY <1>1, <3>1
    <3>2. CASE t.to # t.from + 1
      <4>1. t.to = t.from + 2 /\ <<x, chars[t.from + 1]>> \in Pairs
        BY <1>1, <1>7, <3>2 DEF Shaped, SymbolEnd
      <4>2. x \notin {"#", "("} /\ chars[t.from + 1] \notin {"#", "("}
        BY <4>1, ClassesAssumption
      <4>3. \A p \in t.from + 1 .. t.to - 1 : p = t.from + 1
        BY <1>1, <4>1
      <4> QED
        BY <4>2, <4>3
    <3> QED
      BY <3>1, <3>2
  <2> QED
    BY <1>2, <1>7, <2>1, <2>2, <2>3
<1> QED
  BY <1>1, <1>3, <1>4, <1>5, <1>6, <1>7 DEF Kinds, Trivia, Opaque

\* Where a run ends, from any position and also from the end of the text.
LEMMA RunFacts ==
  ASSUME Size \in Nat, NEW i \in 1 .. Size + 1, NEW S
  PROVE  /\ RunEnd(i, S) \in i .. Size + 1
         /\ RunEnd(i, S) = Size + 1 \/ chars[RunEnd(i, S)] \notin S
         /\ \A p \in i .. RunEnd(i, S) - 1 : p \in i .. Size /\ chars[p] \in S
         /\ \A q \in i .. Size + 1 :
              /\ q = Size + 1 \/ chars[q] \notin S
              /\ \A p \in i .. q - 1 : chars[p] \in S
              => RunEnd(i, S) = q
<1> DEFINE E == {j \in i .. Size + 1 : j = Size + 1 \/ chars[j] \notin S}
<1>1. E \in SUBSET Nat /\ Size + 1 \in E
  OBVIOUS
<1>2. Min(E) \in E /\ \A y \in E : Min(E) <= y
  BY <1>1, MinInSet
<1> PICK m : m = Min(E)
  OBVIOUS
<1>3. m \in i .. Size + 1 /\ (m = Size + 1 \/ chars[m] \notin S) /\ \A y \in E : m <= y
  BY <1>2
<1>4. RunEnd(i, S) = m
  BY DEF RunEnd
<1>5. ASSUME NEW p \in i .. m - 1 PROVE p \in i .. Size /\ chars[p] \in S
  <2>1. p \in i .. Size /\ ~(m <= p)
    BY <1>3, <1>5
  <2>2. p \notin E
    BY <1>3, <2>1
  <2> QED
    BY <2>1, <2>2
<1>6. ASSUME NEW q \in i .. Size + 1, q = Size + 1 \/ chars[q] \notin S,
             \A p \in i .. q - 1 : chars[p] \in S
      PROVE  m = q
  <2>1. q \in E
    BY <1>6
  <2>2. m <= q
    BY <1>3, <2>1
  <2>3. CASE m # q
    <3>1. m \in i .. q - 1 /\ m # Size + 1
      BY <1>3, <2>2, <2>3
    <3> QED
      BY <1>3, <1>6, <3>1
  <2> QED
    BY <2>3
<1> QED
  BY <1>3, <1>4, <1>5, <1>6

\* From the end of a token on, the first character that is no blank starts one.
LEMMA NextSolid ==
  ASSUME Settled, NEW p \in 1 .. Size + 1, Edge(p), NEW q, q = PastBlanks(p)
  PROVE  /\ q \in p .. Size + 1
         /\ q # Size + 1 =>
              \E k \in DOMAIN tokens : tokens[k].from = q /\ tokens[k].kind \notin Trivia
         /\ \A k \in DOMAIN tokens :
              tokens[k].kind \notin Trivia /\ tokens[k].from >= p => tokens[k].from >= q
<1>1. /\ Size \in Nat
      /\ \A k \in DOMAIN tokens : /\ tokens[k].from \in 1 .. Size
                                  /\ tokens[k].to \in tokens[k].from + 1 .. Size + 1
  BY TokenFacts
<1>2. /\ q \in p .. Size + 1
      /\ q = Size + 1 \/ chars[q] \notin Blanks
      /\ \A x \in p .. q - 1 : chars[x] \in Blanks
  BY <1>1, RunFacts DEF PastBlanks
<1>3. ASSUME NEW k \in DOMAIN tokens, tokens[k].kind \notin Trivia, tokens[k].from >= p
      PROVE  tokens[k].from >= q
  <2>1. chars[tokens[k].from] \notin Blanks
    BY <1>3, KindByFirst
  <2> QED
    BY <1>1, <1>2, <1>3, <2>1
<1>4. ASSUME q # Size + 1
      PROVE  \E k \in DOMAIN tokens : tokens[k].from = q /\ tokens[k].kind \notin Trivia
  <2>1. q \in 1 .. Size /\ chars[q] \notin Blanks /\ Bom \in Blanks
    BY <1>1, <1>2, <1>4, CharFacts
  <2>2. PICK k \in DOMAIN tokens : q \in tokens[k].from .. tokens[k].to - 1
    BY <2>1, TokensCover
  <2>3. tokens[k].kind \notin Trivia
    BY <2>1, <2>2, KindByFirst
  <2> PICK from \in 1 .. Size, to \in 1 .. Size + 1 : from = tokens[k].from /\ to = tokens[k].to
    BY <1>1
  <2>4. to > q /\ from <= q /\ p <= q /\ q \in Nat /\ p \in Nat
    BY <1>1, <1>2, <2>1, <2>2
  <2>5. from < p => to <= p
    BY DEF Edge
  <2>6. from >= p
    BY <2>4, <2>5
  <2>7. from >= q
    BY <1>3, <2>3, <2>6
  <2>8. from = q
    BY <2>4, <2>7
  <2> QED
    BY <2>3, <2>8
<1> QED
  BY <1>2, <1>3, <1>4

\* s has the tokens of the places d that are no blanks, in their order.
Solids(s, d) ==
  /\ s \in Seq(Token)
  /\ \A i \in 1 .. Len(s) : \E k \in d : tokens[k] = s[i] /\ tokens[k].kind \notin Trivia
  /\ \A k \in d : tokens[k].kind \notin Trivia => \E i \in 1 .. Len(s) : s[i] = tokens[k]
  /\ \A i, j \in 1 .. Len(s) :
       i < j => \E k, l \in d : k < l /\ tokens[k] = s[i] /\ tokens[l] = s[j]

\* The visible tokens are the tokens that are no blanks, in their order.
LEMMA VisibleFacts ==
  ASSUME Settled
  PROVE  /\ Visible \in Seq(Token)
         /\ \A i \in 1 .. Len(Visible) :
              \E k \in DOMAIN tokens : tokens[k] = Visible[i] /\ tokens[k].kind \notin Trivia
         /\ \A k \in DOMAIN tokens :
              tokens[k].kind \notin Trivia => \E i \in 1 .. Len(Visible) : Visible[i] = tokens[k]
         /\ \A i, j \in 1 .. Len(Visible) :
              i < j => \E k, l \in DOMAIN tokens :
                         k < l /\ tokens[k] = Visible[i] /\ tokens[l] = Visible[j]
<1>1. tokens \in Seq(Token)
  BY TokenFacts
<1> PICK n \in Nat : n = Len(tokens) /\ DOMAIN tokens = 1 .. n
  BY <1>1, LenProperties
<1>2. 0 \in Nat /\ n \in Nat
  OBVIOUS
<1>3. \A k \in 1 .. n : tokens[k] \in Token
  BY <1>1
<1> DEFINE Adds(s, k) == IF tokens[k].kind \in Trivia THEN s ELSE Append(s, tokens[k])
           Collects(f, m) == f = [k \in 0 .. m |-> IF k = 0 THEN <<>>
                                   ELSE IF tokens[k].kind \in Trivia THEN f[k - 1]
                                   ELSE Append(f[k - 1], tokens[k])]
           S == {m \in Nat : \E f : Collects(f, m)}
<1>4. 0 \in S
  <2>1. Collects([k \in 0 .. 0 |-> <<>>], 0)
    <3>1. \A k \in 0 .. 0 : k = 0
      OBVIOUS
    <3> QED
      BY <3>1
  <2> QED
    BY <2>1
<1>5. ASSUME NEW m \in 0 .. n, m \in S PROVE m + 1 \in S
  <2>1. PICK f : Collects(f, m)
    BY <1>5
  <2> DEFINE g == [k \in 0 .. m + 1 |-> IF k = m + 1 THEN Adds(f[m], m + 1) ELSE f[k]]
  <2>2. \A k \in 0 .. m : g[k] = f[k]
    OBVIOUS
  <2>3. \A k \in 0 .. m : f[k] = IF k = 0 THEN <<>> ELSE Adds(f[k - 1], k)
    BY <2>1
  <2>4. g[m + 1] = Adds(f[m], m + 1)
    OBVIOUS
  <2>5. DOMAIN g = 0 .. m + 1 /\ g = [k \in 0 .. m + 1 |-> g[k]]
    OBVIOUS
  <2>6. ASSUME NEW k \in 0 .. m + 1
        PROVE  g[k] = IF k = 0 THEN <<>> ELSE Adds(g[k - 1], k)
    <3>1. CASE k = m + 1
      <4>1. k # 0 /\ k - 1 = m /\ m \in 0 .. m
        BY <3>1
      <4> HIDE DEF Adds, g
      <4> QED
        BY <2>2, <2>4, <3>1, <4>1
    <3>2. CASE k # m + 1
      <4>1. k \in 0 .. m /\ (k # 0 => k - 1 \in 0 .. m)
        BY <3>2
      <4> HIDE DEF Adds, g
      <4> QED
        BY <2>2, <2>3, <4>1
    <3> QED
      BY <3>1, <3>2
  <2> HIDE DEF g
  <2>7. Collects(g, m + 1)
    BY <2>6, <2>5
  <2> HIDE DEF Collects
  <2>8. \E h : Collects(h, m + 1)
    BY <2>7
  <2> QED
    BY <2>8
<1> HIDE DEF S
<1>6. n \in S
  BY <1>2, <1>4, <1>5, Climb
<1>7. \E f : Collects(f, n)
  BY <1>6 DEF S
<1> DEFINE F == CHOOSE f : Collects(f, n)
<1>8. Visible = F[n] /\ Collects(F, n)
  <2>1. Visible = F[n]
    BY DEF Visible
  <2>2. Collects(F, n)
    <3> HIDE DEF Collects
    <3> QED
      BY <1>7
  <2> QED
    BY <2>1, <2>2
<1> PICK f : f = F
  OBVIOUS
<1>9. /\ Visible = f[n] /\ f[0] = <<>>
      /\ \A k \in 1 .. n : f[k] = Adds(f[k - 1], k)
  <2>1. Collects(f, n)
    <3> HIDE DEF Collects, F
    <3> QED
      BY <1>8
  <2>2. Visible = f[n]
    BY <1>8
  <2>3. 0 \in 0 .. n /\ \A k \in 1 .. n : k \in 0 .. n /\ k # 0
    OBVIOUS
  <2>4. \A k \in 0 .. n : f[k] = IF k = 0 THEN <<>> ELSE Adds(f[k - 1], k)
    BY <2>1
  <2> HIDE DEF Adds, Collects, F
  <2> QED
    BY <2>2, <2>3, <2>4
<1> HIDE DEF F, Collects
<1> DEFINE T == {m \in Nat : Solids(f[m], 1 .. m)}
<1> HIDE DEF Adds
<1>10. 0 \in T
  <2>1. Solids(<<>>, 1 .. 0)
    BY DEF Solids
  <2> QED
    BY <1>9, <2>1
<1>11. ASSUME NEW m \in 0 .. n, m \in T, m # n PROVE m + 1 \in T
  <2>1. m + 1 \in 1 .. n /\ (m + 1) - 1 = m /\ m + 1 \in Nat
    BY <1>11
  <2> PICK s : s = f[m]
    OBVIOUS
  <2> PICK t : t = tokens[m + 1]
    OBVIOUS
  <2>2. Solids(s, 1 .. m) /\ f[m + 1] = Adds(s, m + 1) /\ t \in Token
    BY <1>3, <1>9, <1>11, <2>1
  <2>3. \A k \in 1 .. m + 1 : k \in 1 .. m \/ k = m + 1
    OBVIOUS
  <2>4. \A k \in 1 .. m : k \in 1 .. m + 1 /\ k < m + 1
    OBVIOUS
  <2>5. /\ s \in Seq(Token)
        /\ \A i \in 1 .. Len(s) : \E k \in 1 .. m : tokens[k] = s[i] /\ tokens[k].kind \notin Trivia
        /\ \A k \in 1 .. m : tokens[k].kind \notin Trivia => \E i \in 1 .. Len(s) : s[i] = tokens[k]
        /\ \A i, j \in 1 .. Len(s) :
             i < j => \E k, l \in 1 .. m : k < l /\ tokens[k] = s[i] /\ tokens[l] = s[j]
    BY <2>2 DEF Solids
  <2>6. CASE t.kind \in Trivia
    <3>1. f[m + 1] = s
      BY <2>2, <2>6 DEF Adds
    <3>2. \A i \in 1 .. Len(s) :
            \E k \in 1 .. m + 1 : tokens[k] = s[i] /\ tokens[k].kind \notin Trivia
      BY <2>4, <2>5
    <3>3. \A k \in 1 .. m + 1 :
            tokens[k].kind \notin Trivia => \E i \in 1 .. Len(s) : s[i] = tokens[k]
      BY <2>3, <2>5, <2>6
    <3>4. \A i, j \in 1 .. Len(s) :
            i < j => \E k, l \in 1 .. m + 1 : k < l /\ tokens[k] = s[i] /\ tokens[l] = s[j]
      BY <2>4, <2>5
    <3>5. Solids(s, 1 .. m + 1)
      BY <2>5, <3>2, <3>3, <3>4 DEF Solids
    <3> QED
      BY <2>1, <3>1, <3>5
  <2>7. CASE t.kind \notin Trivia
    <3>1. f[m + 1] = Append(s, t)
      BY <2>2, <2>7 DEF Adds
    <3> PICK w : w = Append(s, t)
      OBVIOUS
    <3> PICK c \in Nat : c = Len(s)
      BY <2>5, LenProperties
    <3>2. /\ w \in Seq(Token) /\ Len(w) = c + 1 /\ w[c + 1] = t
          /\ \A i \in 1 .. c : w[i] = s[i]
      BY <2>2, <2>5, AppendProperties
    <3>3. /\ \A i \in 1 .. Len(w) : i \in 1 .. c \/ i = c + 1
          /\ \A i \in 1 .. c : i \in 1 .. Len(w) /\ i < c + 1
          /\ c + 1 \in 1 .. Len(w)
      BY <3>2
    <3>4. ASSUME NEW i \in 1 .. Len(w)
          PROVE  \E k \in 1 .. m + 1 : tokens[k] = w[i] /\ tokens[k].kind \notin Trivia
      <4>1. CASE i = c + 1
        <5>1. m + 1 \in 1 .. m + 1
          OBVIOUS
        <5>2. w[i] = t /\ tokens[m + 1] = t
          BY <3>2, <4>1
        <5> QED
          BY <2>7, <5>1, <5>2
      <4>2. CASE i \in 1 .. c
        BY <2>4, <2>5, <3>2, <4>2
      <4> QED
        BY <3>3, <4>1, <4>2
    <3>5. ASSUME NEW k \in 1 .. m + 1, tokens[k].kind \notin Trivia
          PROVE  \E i \in 1 .. Len(w) : w[i] = tokens[k]
      <4>1. CASE k = m + 1
        BY <3>2, <3>3, <4>1
      <4>2. CASE k \in 1 .. m
        <5>1. PICK i \in 1 .. c : s[i] = tokens[k]
          BY <2>5, <3>5, <4>2
        <5> QED
          BY <3>2, <3>3, <5>1
      <4> QED
        BY <2>3, <4>1, <4>2
    <3>6. ASSUME NEW i \in 1 .. Len(w), NEW j \in 1 .. Len(w), i < j
          PROVE  \E k, l \in 1 .. m + 1 : k < l /\ tokens[k] = w[i] /\ tokens[l] = w[j]
      <4>1. i \in 1 .. c
        BY <3>2, <3>6
      <4>2. CASE j = c + 1
        <5>1. PICK k \in 1 .. m : tokens[k] = s[i]
          BY <2>5, <4>1
        <5>2. k < m + 1 /\ k \in 1 .. m + 1 /\ m + 1 \in 1 .. m + 1
          OBVIOUS
        <5> QED
          BY <3>2, <4>1, <4>2, <5>1, <5>2
      <4>3. CASE j \in 1 .. c
        <5>1. PICK k \in 1 .. m, l \in 1 .. m : k < l /\ tokens[k] = s[i] /\ tokens[l] = s[j]
          BY <2>5, <3>6, <4>1, <4>3
        <5> QED
          BY <2>4, <3>2, <4>1, <4>3, <5>1
      <4> QED
        BY <3>3, <4>2, <4>3
    <3>7. Solids(w, 1 .. m + 1)
      BY <3>2, <3>4, <3>5, <3>6 DEF Solids
    <3> QED
      BY <2>1, <3>1, <3>7
  <2> QED
    BY <2>6, <2>7
<1> HIDE DEF T
<1>12. n \in T
  BY <1>2, <1>10, <1>11, Climb
<1>13. Solids(Visible, DOMAIN tokens)
  BY <1>9, <1>12 DEF T
<1> QED
  BY <1>13 DEF Solids

WordKinds == {"Ident", "Keyword"}

\* What the readers of the text read at a visible token.
Told(t) ==
  /\ t.kind \in Kinds \ Trivia /\ t.from \in 1 .. Size /\ t.to \in t.from + 1 .. Size + 1
  /\ Edge(t.from) /\ Edge(t.to)
  /\ chars[t.from] \notin Blanks
  /\ Lexeme(t) # <<>> /\ Lexeme(t)[1] = chars[t.from]
  /\ \A c \in {"#", "("} : Lexeme(t) = <<c>> <=> chars[t.from] = c
  /\ chars[t.from] = "#" => t.kind \notin Opaque /\ t.to = t.from + 1
  /\ \A p \in t.from .. t.to - 1 : InCode(p) <=> t.kind \notin Opaque
  /\ \A p \in t.from .. t.to - 1 : InCode(p) => (Words[p] = "word" <=> t.kind \in WordKinds)
  /\ \A p \in t.from + 1 .. t.to - 1 : InCode(p) => chars[p] # "#"
  /\ t.kind \in WordKinds <=> chars[t.from] \in Letters
  /\ t.kind \in WordKinds => /\ RunEnd(t.from, WordChars) = t.to
                             /\ WordAt(t.from) = Lexeme(t)
                             /\ WordStart(t.from)
                             /\ t.kind = "Keyword" <=> Lexeme(t) \in Keywords
  /\ NameAt(t.from) <=> t.kind = "Ident"
  /\ t.kind = "String" <=> Peek(t.from, "\"")

LEMMA TokenIsTold ==
  ASSUME Settled, NEW k \in DOMAIN tokens, tokens[k].kind \notin Trivia
  PROVE  Told(tokens[k])
<1>1. /\ Size \in Nat /\ tokens[k].kind \in Kinds /\ tokens[k].from \in 1 .. Size
      /\ tokens[k].to \in tokens[k].from + 1 .. Size + 1
      /\ chars \in Seq(Range(chars)) /\ DOMAIN chars = 1 .. Size
  BY TokenFacts, TextFacts DEF Settled, TextInv, AgreeInv, IInv, TypeOK
<1>2. Edge(tokens[k].from) /\ Edge(tokens[k].to)
  BY EdgeAfter
<1>3. Shaped(tokens[k]) /\ Spells(tokens[k])
  BY DEF Settled, TextInv
<1> PICK t : t = tokens[k]
  OBVIOUS
<1> PICK i \in 1 .. Size, end \in 1 .. Size + 1 : i = t.from /\ end = t.to
  BY <1>1
<1>4. end \in i + 1 .. Size + 1 /\ t.kind \in Kinds /\ t.kind \notin Trivia
  BY <1>1
<1>5. \A p \in i .. end - 1 : InCode(p) <=> t.kind \notin Opaque
  BY DEF Settled, TextInv, AgreeInv, CommentsAndLiteralsAgree, InCode, Opaque
<1> PICK x : x = chars[i]
  OBVIOUS
<1>6. /\ x \notin Blanks
      /\ t.kind \in WordKinds <=> x \in Letters
      /\ t.kind = "Number" <=> x \in Digits
      /\ t.kind = "String" <=> x = "\""
      /\ x \in {"#", "("} => t.kind \notin Opaque /\ end = i + 1
      /\ t.kind \in {"Symbol", "Unknown"} => \A p \in i + 1 .. end - 1 : chars[p] \notin {"#", "("}
  BY KindByFirst, <1>4 DEF WordKinds
<1>7. Lexeme(t) # <<>> /\ Lexeme(t)[1] = x /\ (end = i + 1 => Lexeme(t) = <<x>>)
  <2> PICK R : R = Range(chars)
    OBVIOUS
  <2>1. /\ i \in Int /\ end - 1 \in Int
        /\ \A j \in i .. end - 1 : chars[j] \in R
    BY <1>1, <1>4 DEF Range
  <2> PICK w : w = SubSeq(chars, i, end - 1)
    OBVIOUS
  <2>2. /\ w \in Seq(R)
        /\ Len(w) = IF i <= end - 1 THEN (end - 1) - i + 1 ELSE 0
        /\ \A j \in 1 .. (end - 1) - i + 1 : w[j] = chars[i + j - 1]
    BY <2>1, SubSeqProperties
  <2>3. Len(w) = end - i /\ end - i \in Nat \ {0} /\ w[1] = chars[i]
    <3>1. i <= end - 1 /\ (end - 1) - i + 1 = end - i /\ 1 \in 1 .. (end - 1) - i + 1 /\ i + 1 - 1 = i
      BY <1>4
    <3> QED
      BY <2>2, <3>1
  <2>4. w # <<>>
    BY <2>3
  <2>5. end = i + 1 => w = <<x>>
    <3>1. ASSUME end = i + 1 PROVE w = <<x>>
      <4>1. i \in Nat /\ (i + 1) - i = 1
        BY <1>1
      <4>2. w[1] = x
        BY <2>3
      <4>3. end - i = 1 /\ w[1] = x
        BY ONLY <3>1, <4>1, <4>2
      <4>4. Len(w) = 1
        BY ONLY <2>3, <4>3
      <4> QED
        BY ONLY <2>2, <4>3, <4>4
    <3> QED
      BY <3>1
  <2> QED
    BY <2>3, <2>4, <2>5 DEF Lexeme
<1>8. \A c \in {"#", "("} : Lexeme(t) = <<c>> <=> x = c
  <2> SUFFICES ASSUME NEW c \in {"#", "("} PROVE Lexeme(t) = <<c>> <=> x = c
    OBVIOUS
  <2>1. Lexeme(t) = <<c>> => x = c
    BY <1>7
  <2>2. x = c => Lexeme(t) = <<c>>
    BY <1>6, <1>7
  <2> QED
    BY <2>1, <2>2
<1>9. \A p \in i .. end - 1 : InCode(p) => (Words[p] = "word" <=> t.kind \in WordKinds)
  BY <1>3, <1>5 DEF Spells, WordKinds
<1>10. \A p \in i + 1 .. end - 1 : InCode(p) => chars[p] # "#"
  <2> SUFFICES ASSUME NEW p \in i + 1 .. end - 1, InCode(p) PROVE chars[p] # "#"
    OBVIOUS
  <2>1. t.kind \notin Opaque
    <3>1. p \in i .. end - 1
      OBVIOUS
    <3> QED
      BY <1>5, <3>1
  <2>2. t.kind \in {"Symbol", "Unknown", "Number"} \cup WordKinds
    BY <1>4, <2>1 DEF Kinds, Trivia, Opaque, WordKinds
  <2>3. "#" \notin NumberChars
    BY ClassesAssumption DEF NumberChars, WordChars, Dot
  <2>4. CASE t.kind = "Number"
    <3>1. chars[p] \in NumberChars
      BY <1>3, <2>4 DEF Shaped
    <3> QED
      BY <2>3, <3>1
  <2>5. CASE t.kind \in WordKinds
    <3>1. p \in t.from .. t.to - 1
      OBVIOUS
    <3>2. chars[p] \in WordChars
      BY <1>3, <2>5, <3>1 DEF Shaped, WordKinds
    <3> QED
      BY <2>3, <3>2, CharFacts
  <2> QED
    BY <1>6, <2>2, <2>4, <2>5
<1>11. ASSUME t.kind \in WordKinds
       PROVE  /\ RunEnd(i, WordChars) = end /\ WordAt(i) = Lexeme(t)
              /\ WordStart(i) /\ (t.kind = "Keyword" <=> Lexeme(t) \in Keywords)
  <2>1. \A p \in i .. end - 1 : chars[p] \in WordChars
    BY <1>3, <1>11 DEF Shaped, WordKinds
  <2>2. end = Size + 1 \/ chars[end] \notin WordChars
    BY <1>11 DEF Settled, TextInv, AgreeInv, IInv, LongestMatch, Whole, WholeRun, WordKinds
  <2>3. RunEnd(i, WordChars) = end
    <3>1. i \in 1 .. Size + 1 /\ end \in i .. Size + 1
      BY <1>1, <1>4
    <3> QED
      BY <1>1, <2>1, <2>2, <3>1, RunFacts
  <2>4. WordAt(i) = Lexeme(t)
    BY <2>3 DEF WordAt, Lexeme
  <2>5. Words[i] = "word" /\ Words[i - 1] # "word"
    <3>1. i \in i .. end - 1
      BY <1>4
    <3> QED
      BY <1>3, <1>11, <3>1 DEF Spells, WordKinds
  <2>6. t.kind = "Keyword" <=> Lexeme(t) \in Keywords
    BY <1>3, <1>11 DEF Shaped, WordKinds, Lexeme
  <2> QED
    BY <2>3, <2>4, <2>5, <2>6 DEF WordStart
<1>12. NameAt(i) <=> t.kind = "Ident"
  <2>1. i \in i .. end - 1 /\ i <= Size
    BY <1>1, <1>4
  <2>2. CASE t.kind \in WordKinds
    <3>1. InCode(i)
      BY <1>5, <2>1, <2>2 DEF WordKinds, Opaque
    <3> QED
      BY <1>11, <2>1, <2>2, <3>1 DEF NameAt, WordKinds
  <2>3. CASE t.kind \notin WordKinds
    BY <1>9, <2>1, <2>3 DEF NameAt, WordStart, WordKinds
  <2> QED
    BY <2>2, <2>3
<1>13. t.kind = "String" <=> Peek(i, "\"")
  <2>1. i <= Size
    BY <1>1
  <2> QED
    BY <1>6, <2>1 DEF Peek
<1>14. Told(t)
  BY <1>2, <1>4, <1>5, <1>6, <1>7, <1>8, <1>9, <1>10, <1>11, <1>12, <1>13 DEF Told
<1> QED
  BY <1>14

\* The visible tokens: where they are and in which order.
LEMMA VisibleTold ==
  ASSUME Settled
  PROVE  /\ Visible \in Seq(Token) /\ Len(Visible) \in Nat /\ DOMAIN Visible = 1 .. Len(Visible)
         /\ \A i \in 1 .. Len(Visible) : Told(Visible[i])
         /\ \A i, j \in 1 .. Len(Visible) :
              i < j => /\ Visible[i].to <= Visible[j].from
                       /\ Before(Visible[i], Visible[j])
<1>1. Visible \in Seq(Token)
  BY VisibleFacts
<1>2. ASSUME NEW i \in 1 .. Len(Visible) PROVE Told(Visible[i])
  <2>1. PICK k \in DOMAIN tokens : tokens[k] = Visible[i] /\ tokens[k].kind \notin Trivia
    BY VisibleFacts
  <2>2. Told(tokens[k])
    BY <2>1, TokenIsTold
  <2> QED
    BY <2>1, <2>2
<1>3. ASSUME NEW i \in 1 .. Len(Visible), NEW j \in 1 .. Len(Visible), i < j
      PROVE  Visible[i].to <= Visible[j].from /\ Before(Visible[i], Visible[j])
  <2>1. PICK k \in DOMAIN tokens, l \in DOMAIN tokens :
          k < l /\ tokens[k] = Visible[i] /\ tokens[l] = Visible[j]
    BY <1>3, VisibleFacts
  <2>2. tokens[k].to <= tokens[l].from
    BY <2>1, TokensApart
  <2>3. Before(tokens[k], tokens[l])
    BY <2>1 DEF Settled, TextInv
  <2> QED
    BY <2>1, <2>2, <2>3
<1> QED
  BY <1>1, <1>2, <1>3, LenProperties

\* Whatever is no blank lies in a visible token; a name and a hash of the code
\* begin one.
LEMMA SolidIsVisible ==
  ASSUME Settled, NEW p \in 1 .. Size
  PROVE  /\ chars[p] \notin Blanks =>
              \E i \in 1 .. Len(Visible) : p \in Visible[i].from .. Visible[i].to - 1
         /\ NameAt(p) => \E i \in 1 .. Len(Visible) : p = Visible[i].from
         /\ InCode(p) /\ chars[p] = "#" => \E i \in 1 .. Len(Visible) : p = Visible[i].from
<1>1. Size \in Nat
  BY TokenFacts
<1>2. ASSUME chars[p] \notin Blanks
      PROVE  \E i \in 1 .. Len(Visible) : p \in Visible[i].from .. Visible[i].to - 1
  <2>1. PICK k \in DOMAIN tokens : p \in tokens[k].from .. tokens[k].to - 1
    BY <1>2, TokensCover, CharFacts
  <2>2. tokens[k].kind \notin Trivia
    BY <1>2, <2>1, KindByFirst
  <2>3. PICK i \in 1 .. Len(Visible) : Visible[i] = tokens[k]
    BY <2>2, VisibleFacts
  <2> QED
    BY <2>1, <2>3
<1>3. ASSUME NEW i \in 1 .. Len(Visible), p \in Visible[i].from .. Visible[i].to - 1
      PROVE  /\ NameAt(p) => p = Visible[i].from
             /\ InCode(p) /\ chars[p] = "#" => p = Visible[i].from
  <2> PICK t : t = Visible[i]
    OBVIOUS
  <2>1. Told(t) /\ p \in t.from .. t.to - 1
    BY <1>3, VisibleTold
  <2> PICK from \in 1 .. Size, to \in 1 .. Size + 1 : from = t.from /\ to = t.to
    <3>1. t.from \in 1 .. Size /\ t.to \in t.from + 1 .. Size + 1
      BY <2>1 DEF Told
    <3> QED
      BY <1>1, <3>1
  <2>2. (p # from => p \in from + 1 .. to - 1) /\ (p # from => p - 1 \in from .. to - 1)
    BY <1>1, <2>1
  <2>3. ASSUME NameAt(p) PROVE p = t.from
    <3>1. InCode(p) /\ Words[p] = "word" /\ Words[p - 1] # "word"
      BY <2>3 DEF NameAt, WordStart
    <3>2. t.kind \in WordKinds /\ t.kind \notin Opaque
      BY <2>1, <3>1 DEF Told
    <3>3. p # t.from => InCode(p - 1) /\ Words[p - 1] = "word"
      BY <2>1, <2>2, <3>2 DEF Told
    <3> QED
      BY <3>1, <3>3
  <2>4. ASSUME InCode(p), chars[p] = "#" PROVE p = t.from
    BY <2>1, <2>2, <2>4 DEF Told
  <2> QED
    BY <2>3, <2>4
<1>4. NameAt(p) => chars[p] \notin Blanks
  <2>1. NameAt(p) => Words[p] = "word"
    BY DEF NameAt, WordStart
  <2>2. Words[p] = RunAfter(Words[p - 1], p)
    BY <1>1, WordsIs
  <2>3. Words[p] = "word" => chars[p] \in WordChars
    BY <2>2 DEF RunAfter, WordChars
  <2> QED
    BY <2>1, <2>3, ClassesAssumption
<1>5. chars[p] = "#" => chars[p] \notin Blanks
  BY ClassesAssumption
<1> QED
  BY <1>2, <1>3, <1>4, <1>5

\* The visible token after one begins where the blanks after it end.
LEMMA NextVisible ==
  ASSUME Settled, NEW i \in 1 .. Len(Visible), NEW q, q = PastBlanks(Visible[i].to)
  PROVE  /\ q \in 1 .. Size + 1
         /\ q <= Size <=> i + 1 <= Len(Visible)
         /\ q <= Size => Visible[i + 1].from = q
<1>1. Size \in Nat /\ Len(Visible) \in Nat
  BY TokenFacts, VisibleTold
<1> PICK m \in Nat : m = Len(Visible)
  BY <1>1
<1> DEFINE from(j) == Visible[j].from
           to(j) == Visible[j].to
<1>2. \A j \in 1 .. m : from(j) \in 1 .. Size /\ to(j) \in 1 .. Size + 1 /\ from(j) < to(j)
  <2> SUFFICES ASSUME NEW j \in 1 .. m
               PROVE  from(j) \in 1 .. Size /\ to(j) \in 1 .. Size + 1 /\ from(j) < to(j)
    OBVIOUS
  <2>1. from(j) \in 1 .. Size /\ to(j) \in from(j) + 1 .. Size + 1
    BY VisibleTold DEF Told
  <2> HIDE DEF from, to
  <2> QED
    BY <1>1, <2>1
<1>3. \A j, k \in 1 .. m : j < k => to(j) <= from(k)
  BY VisibleTold
<1>4. Edge(to(i))
  BY VisibleTold DEF Told
<1>5. /\ q \in to(i) .. Size + 1
      /\ q # Size + 1 =>
           \E k \in DOMAIN tokens : tokens[k].from = q /\ tokens[k].kind \notin Trivia
      /\ \A k \in DOMAIN tokens :
           tokens[k].kind \notin Trivia /\ tokens[k].from >= to(i) => tokens[k].from >= q
  BY <1>2, <1>4, NextSolid
<1>6. \A j \in 1 .. m : from(j) >= to(i) => from(j) >= q
  <2> SUFFICES ASSUME NEW j \in 1 .. m, from(j) >= to(i) PROVE from(j) >= q
    OBVIOUS
  <2>1. PICK k \in DOMAIN tokens : tokens[k] = Visible[j] /\ tokens[k].kind \notin Trivia
    BY VisibleFacts
  <2> QED
    BY <1>5, <2>1
<1>7. q # Size + 1 => \E j \in 1 .. m : from(j) = q
  BY <1>5, VisibleFacts
<1> HIDE DEF from, to
<1>8. q \in 1 .. Size + 1 /\ to(i) <= q /\ q \in Nat
  BY <1>1, <1>2, <1>5
<1>9. ASSUME i < m PROVE q <= Size
  <2>1. i + 1 \in 1 .. m /\ i < i + 1
    BY <1>9
  <2>2. from(i + 1) >= to(i) /\ from(i + 1) \in 1 .. Size
    BY <1>2, <1>3, <2>1
  <2>3. from(i + 1) >= q
    BY <1>6, <2>1, <2>2
  <2> QED
    BY <1>1, <1>8, <2>2, <2>3
<1>10. ASSUME q <= Size PROVE i < m /\ from(i + 1) = q
  <2>1. PICK j \in 1 .. m : from(j) = q
    BY <1>1, <1>7, <1>8, <1>10
  <2>2. i < j
    <3>1. CASE j = i
      BY <1>2, <1>8, <2>1, <3>1
    <3>2. CASE j < i
      BY <1>2, <1>3, <1>8, <2>1, <3>2
    <3> QED
      BY <3>1, <3>2
  <2>3. i + 1 \in 1 .. m /\ i < i + 1 /\ (j # i + 1 => i + 1 < j)
    BY <2>2
  <2>4. from(i + 1) >= q /\ from(i + 1) \in Nat /\ to(i + 1) \in Nat /\ from(i + 1) < to(i + 1)
    BY <1>2, <1>3, <1>6, <2>3
  <2>5. j # i + 1 => to(i + 1) <= q
    BY <1>3, <2>1, <2>3
  <2>6. j = i + 1
    BY <1>8, <2>4, <2>5
  <2> QED
    BY <2>1, <2>2, <2>6
<1>11. q <= Size <=> i + 1 <= m
  BY <1>9, <1>10
<1> QED
  BY <1>8, <1>10, <1>11 DEF from

-----------------------------------------------------------------------------
(* What the indexer looks for among the visible tokens is what the readers    *)
(* see in the text.                                                           *)
\* Where a word begins is read off its first character.
LEMMA WordBegins ==
  ASSUME Size \in Nat, DOMAIN chars = 1 .. Size, NEW p \in 1 .. Size + 1,
         WordAt(p) # <<>>
  PROVE  p \in 1 .. Size /\ WordAt(p)[1] = chars[p]
<1> PICK e \in p .. Size + 1 : e = RunEnd(p, WordChars)
  BY RunFacts
<1> PICK R : R = Range(chars)
  OBVIOUS
<1> PICK w : w = SubSeq(chars, p, e - 1)
  OBVIOUS
<1>1. WordAt(p) = w
  BY DEF WordAt
<1>2. \A j \in p .. e - 1 : j \in DOMAIN chars
  OBVIOUS
<1>3. p \in Int /\ e - 1 \in Int /\ \A j \in p .. e - 1 : chars[j] \in R
  BY <1>2 DEF Range
<1>4. /\ w \in Seq(R)
      /\ Len(w) = IF p <= e - 1 THEN (e - 1) - p + 1 ELSE 0
      /\ \A j \in 1 .. (e - 1) - p + 1 : w[j] = chars[p + j - 1]
  BY <1>3, SubSeqProperties
<1>5. CASE p <= e - 1
  <2>1. p \in 1 .. Size /\ 1 \in 1 .. (e - 1) - p + 1 /\ p + 1 - 1 = p
    BY <1>5
  <2>2. w[1] = chars[p]
    BY <1>4, <2>1
  <2> QED
    BY <1>1, <2>1, <2>2
<1>6. CASE ~(p <= e - 1)
  <2>1. Len(w) = 0
    BY <1>4, <1>6
  <2>2. w = <<>>
    BY ONLY <1>4, <2>1
  <2> QED
    BY <1>1, <2>2
<1> QED
  BY <1>5, <1>6

\* The token that follows.
LEMMA NextIs ==
  ASSUME Settled, NEW i \in 1 .. Len(Visible), NEW q, q = PastBlanks(Visible[i].to)
  PROVE  \/ q = Size + 1 /\ ~(i + 1 <= Len(Visible))
         \/ /\ q \in 1 .. Size /\ i + 1 \in 1 .. Len(Visible)
            /\ Visible[i + 1].from = q /\ Told(Visible[i + 1])
<1>1. Size \in Nat /\ Len(Visible) \in Nat
  BY TokenFacts, VisibleTold
<1>2. /\ q \in 1 .. Size + 1
      /\ q <= Size <=> i + 1 <= Len(Visible)
      /\ q <= Size => Visible[i + 1].from = q
  BY NextVisible
<1>3. CASE q <= Size
  <2>1. q \in 1 .. Size /\ i + 1 \in 1 .. Len(Visible)
    BY <1>1, <1>2, <1>3
  <2> QED
    BY <1>2, <1>3, <2>1, VisibleTold
<1>4. CASE ~(q <= Size)
  BY <1>1, <1>2, <1>4
<1> QED
  BY <1>3, <1>4

\* The indexer finds an include statement where the readers of the text do.
LEMMA IncludeAtMatches ==
  ASSUME Settled, NEW k \in 1 .. Len(Visible)
  PROVE  IncludeAt(k) <=> Visible[k].from \in IncludeStatements
<1>1. Size \in Nat /\ Len(Visible) \in Nat /\ DOMAIN chars = 1 .. Size
  BY TokenFacts, VisibleTold, TextFacts DEF Settled, TextInv, AgreeInv, IInv, TypeOK
<1> PICK m \in Nat : m = Len(Visible)
  BY <1>1
<1> PICK t : t = Visible[k]
  OBVIOUS
<1>2. Told(t)
  BY VisibleTold
<1> PICK p \in 1 .. Size : p = t.from
  BY <1>2 DEF Told
<1>3. Lexeme(t) = <<"#">> <=> chars[p] = "#"
  BY <1>2 DEF Told
<1>4. Reads(k, <<"#">>) <=> Lexeme(t) = <<"#">>
  <2>1. k <= Len(Visible)
    BY <1>1
  <2> QED
    BY <2>1 DEF Reads
<1>5. p \in 1 .. Size /\ (Reads(k, <<"#">>) <=> chars[p] = "#")
  BY <1>3, <1>4
<1>6. chars[p] = "#" => InCode(p) /\ p + 1 = t.to
  <2> PICK to : to = t.to
    OBVIOUS
  <2>1. to \in p + 1 .. Size + 1
    BY <1>2 DEF Told
  <2>2. p \in p .. to - 1
    BY <1>1, <2>1
  <2> QED
    BY <1>2, <2>2 DEF Told
<1> PICK word : word = PastBlanks(p + 1)
  OBVIOUS
<1> PICK target : target = PastBlanks(RunEnd(word, WordChars))
  OBVIOUS
<1>7. p \in IncludeStatements <=>
        /\ chars[p] = "#" /\ InCode(p) /\ WordAt(word) = IncludeWord
        /\ Peek(target, "\"") \/ NameAt(target)
  BY <1>5 DEF IncludeStatements
<1>8. ASSUME chars[p] = "#", k + 1 \in 1 .. m, Visible[k + 1].from = word, Told(Visible[k + 1]),
             IncludeWord = WordAt(word) \/ IncludeWord = Lexeme(Visible[k + 1])
      PROVE  /\ IncludeWord = WordAt(word) /\ IncludeWord = Lexeme(Visible[k + 1])
             /\ target = PastBlanks(Visible[k + 1].to)
  <2> PICK u : u = Visible[k + 1]
    OBVIOUS
  <2>1. Told(u) /\ u.from = word
    BY <1>8
  <2>2. Lexeme(u) = IncludeWord => chars[word] \in Letters
    BY <2>1, WordsAssumption DEF Told
  <2>3. WordAt(word) = IncludeWord => chars[word] \in Letters
    <3>1. word \in 1 .. Size
      BY <2>1 DEF Told
    <3>2. word \in 1 .. Size + 1
      BY <1>1, <3>1
    <3> QED
      BY <1>1, <3>2, WordBegins, WordsAssumption
  <2>4. u.kind \in WordKinds
    BY <1>8, <2>1, <2>2, <2>3 DEF Told
  <2>5. RunEnd(word, WordChars) = u.to /\ WordAt(word) = Lexeme(u)
    BY <2>1, <2>4 DEF Told
  <2> QED
    BY <1>8, <2>5
<1>9. ASSUME NEW j \in 1 .. m, Told(Visible[j]), Visible[j].from = target
      PROVE  At(j, "String") \/ At(j, "Ident") <=> Peek(target, "\"") \/ NameAt(target)
  <2>1. j <= Len(Visible)
    OBVIOUS
  <2>2. /\ Visible[j].kind = "Ident" <=> NameAt(target)
        /\ Visible[j].kind = "String" <=> Peek(target, "\"")
    BY <1>9 DEF Told
  <2> QED
    BY <2>1, <2>2 DEF At
<1>10. (k + 1) + 1 = k + 2 /\ k + 1 \in Nat /\ k \in Nat
  OBVIOUS
<1>11. ASSUME IncludeAt(k) PROVE p \in IncludeStatements
  <2>1. chars[p] = "#" /\ k + 1 <= m /\ Lexeme(Visible[k + 1]) = IncludeWord
        /\ (At(k + 2, "String") \/ At(k + 2, "Ident"))
    BY <1>5, <1>11 DEF IncludeAt, Reads
  <2>2. k + 1 \in 1 .. m /\ Visible[k + 1].from = word /\ Told(Visible[k + 1])
    <3>1. word = PastBlanks(Visible[k].to)
      BY <1>6, <2>1
    <3> QED
      BY <2>1, <3>1, NextIs
  <2>3. WordAt(word) = IncludeWord /\ target = PastBlanks(Visible[k + 1].to)
    BY <1>8, <2>1, <2>2
  <2>4. k + 2 <= m
    BY <2>1 DEF At
  <2>5. k + 2 \in 1 .. m /\ Visible[k + 2].from = target /\ Told(Visible[k + 2])
    BY <1>10, <2>2, <2>3, <2>4, NextIs
  <2>6. Peek(target, "\"") \/ NameAt(target)
    BY <1>9, <2>1, <2>5
  <2> QED
    BY <1>6, <1>7, <2>1, <2>3, <2>6
<1>12. ASSUME p \in IncludeStatements PROVE IncludeAt(k)
  <2>1. chars[p] = "#" /\ WordAt(word) = IncludeWord /\ (Peek(target, "\"") \/ NameAt(target))
    BY <1>7, <1>12
  <2>2. word = PastBlanks(Visible[k].to)
    BY <1>6, <2>1
  <2>3. word \in 1 .. Size + 1
    BY <1>1, <2>2, NextIs
  <2>4. word \in 1 .. Size
    BY <1>1, <2>1, <2>3, WordBegins, WordsAssumption
  <2>5. k + 1 \in 1 .. m /\ Visible[k + 1].from = word /\ Told(Visible[k + 1])
    BY <1>1, <2>2, <2>4, NextIs
  <2>6. Lexeme(Visible[k + 1]) = IncludeWord /\ target = PastBlanks(Visible[k + 1].to)
    BY <1>8, <2>1, <2>5
  <2>7. target <= Size
    BY <2>1 DEF Peek, NameAt
  <2>8. k + 2 \in 1 .. m /\ Visible[k + 2].from = target /\ Told(Visible[k + 2])
    BY <1>1, <1>10, <2>5, <2>6, <2>7, NextIs
  <2>9. At(k + 2, "String") \/ At(k + 2, "Ident")
    BY <1>9, <2>1, <2>8
  <2>10. Reads(k + 1, IncludeWord)
    BY <2>5, <2>6 DEF Reads
  <2> QED
    BY <1>5, <2>1, <2>9, <2>10 DEF IncludeAt
<1> QED
  BY <1>11, <1>12

\* The statements do not overlap.
LEMMA IncludesApart ==
  ASSUME Settled, NEW k \in 1 .. Len(Visible), IncludeAt(k)
  PROVE  /\ k + 2 \in 1 .. Len(Visible)
         /\ ~IncludeAt(k + 1) /\ ~IncludeAt(k + 2)
<1>1. Len(Visible) \in Nat
  BY VisibleTold
<1>2. k + 2 <= Len(Visible)
  BY DEF IncludeAt, At
<1>3. k + 1 \in 1 .. Len(Visible) /\ k + 2 \in 1 .. Len(Visible)
  BY <1>1, <1>2
<1>4. \A j \in 1 .. Len(Visible) : Told(Visible[j])
  BY VisibleTold
<1>5. Letters \cap {"#"} = {} /\ "\"" # "#"
  BY ClassesAssumption DEF WordChars
<1>6. Lexeme(Visible[k + 1]) # <<"#">>
  <2>1. Lexeme(Visible[k + 1]) = IncludeWord
    BY DEF IncludeAt, Reads
  <2>2. IncludeWord # <<"#">>
    BY <1>5, WordsAssumption
  <2> QED
    BY <2>1, <2>2
<1>7. Lexeme(Visible[k + 2]) # <<"#">>
  <2> PICK t : t = Visible[k + 2]
    OBVIOUS
  <2>1. Told(t) /\ (t.kind = "String" \/ t.kind = "Ident")
    BY <1>3, <1>4 DEF IncludeAt, At
  <2>2. chars[t.from] # "#"
    BY <1>5, <2>1 DEF Told, Peek, WordKinds
  <2> QED
    BY <2>1, <2>2 DEF Told
<1> QED
  BY <1>3, <1>6, <1>7 DEF IncludeAt, Reads

\* The word before a token is the token before it, if that is a word.
LEMMA WordBeforeIs ==
  ASSUME Settled, NEW j \in 1 .. Len(Visible), NEW p, p = Visible[j].from
  PROVE  /\ j = 1 => WordBefore(p) = <<>>
         /\ j > 1 => WordBefore(p) = IF Visible[j - 1].kind \in WordKinds
                                     THEN Lexeme(Visible[j - 1]) ELSE <<>>
<1> PICK m \in Nat : m = Len(Visible)
  BY VisibleTold
<1>1. /\ \A i \in 1 .. m : Told(Visible[i])
      /\ \A i, l \in 1 .. m : i < l => Visible[i].to <= Visible[l].from
      /\ Size \in Nat
  BY VisibleTold, TokenFacts
<1>2. p \in 1 .. Size
  BY <1>1 DEF Told
<1> DEFINE solid == {q \in 1 .. p - 1 : chars[q] \notin Blanks}
<1>3. WordBefore(p) = IF solid # {} /\ InCode(Max(solid)) /\ Words[Max(solid)] = "word"
                      THEN WordAt(Max({w \in 1 .. Max(solid) : WordStart(w)})) ELSE <<>>
  BY DEF WordBefore
<1>4. ASSUME NEW q \in solid
      PROVE  \E i \in 1 .. m : i < j /\ q \in Visible[i].from .. Visible[i].to - 1
  <2>1. q \in 1 .. Size /\ q < p /\ chars[q] \notin Blanks
    BY <1>1, <1>2
  <2>2. PICK i \in 1 .. m : q \in Visible[i].from .. Visible[i].to - 1
    BY <2>1, SolidIsVisible
  <2> PICK from \in 1 .. Size, to \in Nat : from = Visible[i].from /\ to = Visible[i].to
    <3>1. Visible[i].from \in 1 .. Size /\ Visible[i].to \in Visible[i].from + 1 .. Size + 1
      BY <1>1 DEF Told
    <3> PICK a \in 1 .. Size : a = Visible[i].from
      BY <3>1
    <3>2. Visible[i].to \in Nat
      BY <1>1, <3>1
    <3> QED
      BY <3>2
  <2>3. from <= q /\ from \in Nat /\ q \in Nat /\ p \in Nat
    BY <1>1, <1>2, <2>1, <2>2
  <2>4. i # j
    BY <2>1, <2>3
  <2>5. ~(j < i)
    <3>1. j < i => Visible[j].to <= from
      BY <1>1
    <3>2. Visible[j].to \in Nat /\ p < Visible[j].to
      <4>1. Visible[j].to \in p + 1 .. Size + 1
        BY <1>1 DEF Told
      <4> QED
        BY <1>1, <1>2, <4>1
    <3> QED
      BY <2>1, <2>3, <3>1, <3>2
  <2>6. i < j
    BY <2>4, <2>5
  <2> QED
    BY <2>2, <2>6
<1>5. ASSUME j = 1 PROVE WordBefore(p) = <<>>
  <2>1. solid = {}
    <3> HIDE DEF solid
    <3> QED
      BY <1>4, <1>5
  <2> HIDE DEF solid
  <2> QED
    BY <1>3, <2>1
<1>6. ASSUME j > 1
      PROVE  WordBefore(p) = IF Visible[j - 1].kind \in WordKinds
                             THEN Lexeme(Visible[j - 1]) ELSE <<>>
  <2>1. j - 1 \in 1 .. m /\ j - 1 < j /\ j \in 1 .. m
    BY <1>6
  <2> PICK t : t = Visible[j - 1]
    OBVIOUS
  <2>2. Told(t) /\ t.to <= p
    BY <1>1, <2>1
  <2> PICK from \in 1 .. Size, to \in 1 .. Size + 1 : from = t.from /\ to = t.to /\ from < to
    <3>1. t.from \in 1 .. Size /\ t.to \in t.from + 1 .. Size + 1
      BY <2>2 DEF Told
    <3> PICK a \in 1 .. Size : a = t.from
      BY <3>1
    <3>2. t.to \in 1 .. Size + 1 /\ a < t.to
      BY <1>1, <3>1
    <3> QED
      BY <3>2
  <2>3. from \in solid
    <3>1. from \in 1 .. p - 1
      BY <1>1, <1>2, <2>2
    <3> QED
      BY <2>2, <3>1 DEF Told
  <2>4. Max(solid) \in solid /\ \A y \in solid : y <= Max(solid)
    <3>1. solid \in SUBSET Nat /\ solid # {} /\ p \in Nat /\ \A x \in solid : x <= p
      BY <1>1, <1>2, <2>3
    <3> HIDE DEF solid
    <3> QED
      BY <3>1, MaxInSet
  <2> PICK q : q = Max(solid)
    OBVIOUS
  <2>5. q \in solid /\ from <= q /\ q \in 1 .. Size
    <3>1. q \in solid /\ from <= q
      BY <2>3, <2>4
    <3> QED
      BY <1>1, <1>2, <3>1
  <2>6. q \in from .. to - 1
    <3> HIDE DEF solid
    <3>1. PICK i \in 1 .. m : i < j /\ q \in Visible[i].from .. Visible[i].to - 1
      BY <1>4, <2>5
    <3>2. CASE i = j - 1
      BY <3>1, <3>2
    <3>3. CASE i # j - 1
      <4>1. i < j - 1
        BY <2>1, <3>1, <3>3
      <4>2. Visible[i].to <= from
        BY <1>1, <2>1, <4>1
      <4>3. Visible[i].to \in Nat
        <5>1. Visible[i].from \in 1 .. Size /\ Visible[i].to \in Visible[i].from + 1 .. Size + 1
          BY <1>1 DEF Told
        <5> QED
          BY <1>1, <5>1
      <4>4. Visible[i].from \in Nat
        <5>1. Visible[i].from \in 1 .. Size
          BY <1>1 DEF Told
        <5> QED
          BY <1>1, <5>1
      <4>5. q < Visible[i].to
        BY <3>1, <4>3, <4>4
      <4> QED
        BY <2>5, <4>2, <4>3, <4>5
    <3> QED
      BY <3>2, <3>3
  <2>7. InCode(q) <=> t.kind \notin Opaque
    BY <2>2, <2>6 DEF Told
  <2>8. InCode(q) => (Words[q] = "word" <=> t.kind \in WordKinds)
    BY <2>2, <2>6 DEF Told
  <2>9. CASE t.kind \notin WordKinds
    <3> HIDE DEF solid
    <3> QED
      BY <1>3, <2>8, <2>9
  <2>10. CASE t.kind \in WordKinds
    <3>1. t.kind \notin Opaque
      BY <2>10 DEF WordKinds, Opaque
    <3>2. InCode(q) /\ Words[q] = "word" /\ solid # {}
      BY <2>5, <2>7, <2>8, <2>10, <3>1
    <3> DEFINE starts == {w \in 1 .. q : WordStart(w)}
    <3>3. from \in starts
      <4>1. WordStart(from)
        BY <2>2, <2>10 DEF Told
      <4>2. from \in 1 .. q
        BY <1>1, <2>5
      <4> QED
        BY <4>1, <4>2
    <3>4. ASSUME NEW w \in starts PROVE w <= from
      <4>1. CASE w > from
        <5>1. w - 1 \in from .. to - 1
          BY <2>5, <2>6, <4>1
        <5>2. InCode(w - 1)
          BY <2>2, <3>1, <5>1 DEF Told
        <5>3. Words[w - 1] = "word"
          BY <2>2, <2>10, <5>1, <5>2 DEF Told
        <5> QED
          BY <5>3 DEF WordStart
      <4> QED
        BY <2>5, <4>1
    <3>5. Max(starts) = from
      <4>1. starts \in SUBSET Nat
        BY <2>5
      <4> HIDE DEF starts
      <4> QED
        BY <3>3, <3>4, <4>1, MaxIs
    <3>6. WordBefore(p) = WordAt(Max(starts))
      <4> HIDE DEF solid
      <4> QED
        BY <1>3, <3>2
    <3>7. WordAt(from) = Lexeme(t)
      BY <2>2, <2>10 DEF Told
    <3> HIDE DEF starts
    <3> QED
      BY <2>10, <3>5, <3>6, <3>7
  <2> QED
    BY <2>9, <2>10
<1> QED
  BY <1>5, <1>6

\* The indexer finds classes and functions where the readers of the text do.
LEMMA SymbolsAtMatch ==
  ASSUME Settled, NEW k \in 1 .. Len(Visible)
  PROVE  /\ ClassAt(k) <=> k + 1 <= Len(Visible) /\ Visible[k + 1].from \in ClassNames
         /\ FunctionAt(k) <=> k + 1 <= Len(Visible) /\ Visible[k + 1].from \in FunctionNames
<1> PICK m \in Nat : m = Len(Visible)
  BY VisibleTold
<1>1. \A i \in 1 .. m : Told(Visible[i])
  BY VisibleTold
<1>2. CASE ~(k + 1 <= m)
  BY <1>2 DEF ClassAt, FunctionAt, At
<1>3. CASE k + 1 <= m
  <2>1. k + 1 \in 1 .. m /\ k + 1 > 1 /\ (k + 1) - 1 = k /\ k \in 1 .. m
    BY <1>3
  <2> PICK t : t = Visible[k]
    OBVIOUS
  <2> PICK u : u = Visible[k + 1]
    OBVIOUS
  <2>2. Told(t) /\ Told(u)
    BY <1>1, <2>1
  <2> PICK p \in 1 .. Size : p = u.from
    BY <2>2 DEF Told
  <2>3. WordBefore(p) = IF t.kind \in WordKinds THEN Lexeme(t) ELSE <<>>
    BY <2>1, WordBeforeIs
  <2>4. NameAt(p) <=> At(k + 1, "Ident")
    BY <1>3, <2>2 DEF Told, At
  <2>5. At(k + 1, "Ident") => RunEnd(p, WordChars) = u.to
    <3>1. At(k + 1, "Ident") => u.kind \in WordKinds
      BY DEF At, WordKinds
    <3> QED
      BY <2>2, <3>1 DEF Told
  <2>6. /\ At(k, "Keyword") <=> t.kind \in WordKinds /\ Lexeme(t) \in Keywords
        /\ IsTypeLike(k) <=> t.kind \in WordKinds
        /\ Reads(k, ClassWord) <=> Lexeme(t) = ClassWord
    <3>1. k <= Len(Visible)
      BY <2>1
    <3>2. t.kind = "Keyword" <=> t.kind \in WordKinds /\ Lexeme(t) \in Keywords
      BY <2>2 DEF Told, WordKinds
    <3> QED
      BY <3>1, <3>2 DEF At, Reads, IsTypeLike, WordKinds
  <2>7. Lexeme(t) # <<>>
    BY <2>2 DEF Told
  <2>8. ClassAt(k) <=> NameAt(p) /\ WordBefore(p) = ClassWord
    BY <2>3, <2>4, <2>6, <2>7, WordsAssumption DEF ClassAt
  <2>9. At(k + 1, "Ident") =>
          (Reads(k + 2, <<"(">>) <=> Peek(PastBlanks(RunEnd(p, WordChars)), "("))
    <3> SUFFICES ASSUME At(k + 1, "Ident")
                 PROVE  Reads(k + 2, <<"(">>) <=> Peek(PastBlanks(RunEnd(p, WordChars)), "(")
      OBVIOUS
    <3> PICK q : q = PastBlanks(u.to)
      OBVIOUS
    <3>1. PastBlanks(RunEnd(p, WordChars)) = q
      BY <2>5
    <3>2. (k + 1) + 1 = k + 2
      OBVIOUS
    <3>3. \/ q = Size + 1 /\ ~(k + 2 <= m)
          \/ q \in 1 .. Size /\ k + 2 \in 1 .. m /\ Visible[k + 2].from = q /\ Told(Visible[k + 2])
      BY <2>1, <3>2, NextIs
    <3>4. Size \in Nat
      BY TokenFacts
    <3>5. CASE q = Size + 1 /\ ~(k + 2 <= m)
      <4>1. ~(q <= Size)
        BY <3>4, <3>5
      <4> QED
        BY <3>1, <3>5, <4>1 DEF Reads, Peek
    <3>6. CASE q \in 1 .. Size /\ k + 2 \in 1 .. m /\ Visible[k + 2].from = q /\ Told(Visible[k + 2])
      <4>1. q <= Size /\ k + 2 <= Len(Visible)
        BY <3>4, <3>6
      <4>2. Lexeme(Visible[k + 2]) = <<"(">> <=> chars[q] = "("
        BY <3>6 DEF Told
      <4> QED
        BY <3>1, <4>1, <4>2 DEF Reads, Peek
    <3> QED
      BY <3>3, <3>5, <3>6
  <2>10. FunctionAt(k) <=> /\ NameAt(p) /\ WordBefore(p) \notin ControlWords \cup {<<>>}
                           /\ Peek(PastBlanks(RunEnd(p, WordChars)), "(")
    BY <2>3, <2>4, <2>6, <2>7, <2>9 DEF FunctionAt
  <2> QED
    BY <1>3, <2>8, <2>10 DEF ClassNames, FunctionNames
<1> QED
  BY <1>2, <1>3

\* The names are visible tokens, after another one.
LEMMA NamesAreVisible ==
  ASSUME Settled, NEW p \in ClassNames \cup FunctionNames
  PROVE  \E k \in 1 .. Len(Visible) : k + 1 <= Len(Visible) /\ p = Visible[k + 1].from
<1>1. p \in 1 .. Size /\ NameAt(p) /\ WordBefore(p) # <<>>
  BY WordsAssumption DEF ClassNames, FunctionNames
<1>2. PICK j \in 1 .. Len(Visible) : p = Visible[j].from
  BY <1>1, SolidIsVisible
<1>3. j # 1
  BY <1>1, <1>2, WordBeforeIs
<1>4. Len(Visible) \in Nat
  BY VisibleTold
<1>5. j - 1 \in 1 .. Len(Visible) /\ (j - 1) + 1 = j /\ j <= Len(Visible)
  BY <1>3, <1>4
<1> QED
  BY <1>2, <1>5

-----------------------------------------------------------------------------
(* The order of the rows.                                                     *)
\* The order of the symbols: that of the text, and of one name the class first.
Ahead(a, b) ==
  \/ a.from < b.from /\ Before(a, b)
  \/ /\ a.from = b.from /\ a.line = b.line /\ a.column = b.column
     /\ a.kind = "class" /\ b.kind = "function"

Ascending(rows) == \A i, j \in DOMAIN rows : i < j => Ahead(rows[i], rows[j])

\* Rows that are in order stay where they are when they are sorted,
LEMMA SortKeeps ==
  ASSUME NEW rows \in Seq(Row), Ascending(rows)
  PROVE  InOrder(rows) = rows
<1> PICK n \in Nat : n = Len(rows) /\ DOMAIN rows = 1 .. n
  BY LenProperties
<1>1. \A k \in 1 .. n : rows[k].line \in Nat /\ rows[k].column \in Nat
  <2>1. \A k \in 1 .. n : rows[k] \in Row
    OBVIOUS
  <2> QED
    BY <2>1 DEF Row
<1> DEFINE before(a, b) == \/ rows[a].line < rows[b].line
                           \/ rows[a].line = rows[b].line /\ rows[a].column < rows[b].column
           first(a) == {b \in DOMAIN rows : before(b, a) \/ (~before(a, b) /\ b < a)}
           place(k) == CHOOSE a \in DOMAIN rows : Cardinality(first(a)) = k - 1
<1>2. InOrder(rows) = [k \in DOMAIN rows |-> rows[place(k)]]
  BY DEF InOrder
<1>3. \A a, b \in 1 .. n : a < b => ~before(b, a)
  <2> SUFFICES ASSUME NEW a \in 1 .. n, NEW b \in 1 .. n, a < b PROVE ~before(b, a)
    OBVIOUS
  <2>1. Ahead(rows[a], rows[b])
    BY DEF Ascending
  <2> QED
    BY <1>1, <2>1 DEF Ahead, Before
<1>4. \A a \in 1 .. n : ~before(a, a)
  BY <1>1
<1> HIDE DEF before
<1>5. ASSUME NEW a \in 1 .. n PROVE Cardinality(first(a)) = a - 1
  <2>1. \A b \in 1 .. n : b \in first(a) <=> b < a
    <3> SUFFICES ASSUME NEW b \in 1 .. n PROVE b \in first(a) <=> b < a
      OBVIOUS
    <3>1. a < b \/ a = b \/ b < a
      OBVIOUS
    <3>2. CASE a < b
      BY <1>3, <3>2
    <3>3. CASE a = b
      BY <1>4, <3>3
    <3>4. CASE b < a
      BY <1>3, <3>4
    <3> QED
      BY <3>1, <3>2, <3>3, <3>4
  <2>2. first(a) = 1 .. a - 1
    <3>1. \A b : b \in 1 .. a - 1 <=> b \in 1 .. n /\ b < a
      OBVIOUS
    <3>2. \A b \in first(a) : b \in 1 .. n
      OBVIOUS
    <3> HIDE DEF first
    <3> QED
      BY <2>1, <3>1, <3>2
  <2>3. Cardinality(1 .. a - 1) = a - 1
    <3>1. 1 \in Int /\ a - 1 \in Int /\ (a - 1) - 1 + 1 = a - 1 /\ (1 > a - 1 => a - 1 = 0)
      OBVIOUS
    <3> QED
      BY <3>1, FS_Interval
  <2> QED
    BY <2>2, <2>3
<1> HIDE DEF first
<1>6. ASSUME NEW k \in 1 .. n PROVE place(k) = k
  <2>1. \E a \in 1 .. n : Cardinality(first(a)) = k - 1
    BY <1>5
  <2>2. place(k) \in 1 .. n /\ Cardinality(first(place(k))) = k - 1
    BY <2>1
  <2> PICK a \in 1 .. n : a = place(k)
    BY <2>2
  <2>3. a - 1 = k - 1
    BY <1>5, <2>2
  <2> QED
    BY <2>3
<1> HIDE DEF place
<1>7. InOrder(rows) = [k \in 1 .. n |-> rows[k]]
  BY <1>2, <1>6
<1>8. rows = [k \in 1 .. n |-> rows[k]]
  <2>1. rows \in [1 .. n -> Row]
    BY LenProperties, SeqDef
  <2> QED
    BY <2>1
<1> QED
  BY <1>7, <1>8

\* and none of them goes when equal neighbours do.
LEMMA DedupKeeps ==
  ASSUME NEW rows \in Seq(Row), Ascending(rows)
  PROVE  Dedup(rows) = rows
<1> PICK n \in Nat : n = Len(rows) /\ DOMAIN rows = 1 .. n
  BY LenProperties
<1>1. \A k \in 1 .. n : rows[k].from \in Nat
  <2>1. \A k \in 1 .. n : rows[k] \in Row
    OBVIOUS
  <2> QED
    BY <2>1 DEF Row
<1> DEFINE kept == {k \in DOMAIN rows : k = 1 \/ rows[k] # rows[k - 1]}
<1>2. kept = 1 .. n
  <2>1. ASSUME NEW k \in 1 .. n, k # 1 PROVE rows[k] # rows[k - 1]
    <3>1. k - 1 \in 1 .. n /\ k - 1 < k
      BY <2>1
    <3>2. Ahead(rows[k - 1], rows[k])
      BY <3>1 DEF Ascending
    <3>3. CASE rows[k - 1].from < rows[k].from
      BY <1>1, <3>1, <3>3
    <3>4. CASE rows[k - 1].kind = "class" /\ rows[k].kind = "function"
      BY <3>4
    <3> QED
      BY <3>2, <3>3, <3>4 DEF Ahead
  <2> QED
    BY <2>1
<1> HIDE DEF kept
<1> DEFINE place(k) == CHOOSE a \in kept : Cardinality({b \in kept : b < a}) = k - 1
<1>3. Dedup(rows) = [k \in 1 .. Cardinality(kept) |-> rows[place(k)]]
  BY DEF Dedup, Only, kept
<1>4. Cardinality(kept) = n
  <2>1. 1 \in Int /\ n \in Int /\ n - 1 + 1 = n /\ (1 > n => n = 0)
    OBVIOUS
  <2> QED
    BY <1>2, <2>1, FS_Interval
<1>5. ASSUME NEW a \in 1 .. n PROVE Cardinality({b \in kept : b < a}) = a - 1
  <2>1. {b \in kept : b < a} = 1 .. a - 1
    BY <1>2
  <2>2. 1 \in Int /\ a - 1 \in Int /\ (a - 1) - 1 + 1 = a - 1 /\ (1 > a - 1 => a - 1 = 0)
    OBVIOUS
  <2> QED
    BY <2>1, <2>2, FS_Interval
<1>6. ASSUME NEW k \in 1 .. n PROVE place(k) = k
  <2>1. \E a \in kept : Cardinality({b \in kept : b < a}) = k - 1
    BY <1>2, <1>5
  <2>2. place(k) \in kept /\ Cardinality({b \in kept : b < place(k)}) = k - 1
    BY <2>1
  <2> PICK a \in 1 .. n : a = place(k)
    BY <1>2, <2>2
  <2>3. a - 1 = k - 1
    BY <1>5, <2>2
  <2>4. a = k
    BY ONLY <2>3, a \in 1 .. n, k \in 1 .. n, n \in Nat
  <2> HIDE DEF place
  <2> QED
    BY <2>4
<1> HIDE DEF place
<1>7. Dedup(rows) = [k \in 1 .. n |-> rows[k]]
  BY <1>3, <1>4, <1>6
<1>8. rows = [k \in 1 .. n |-> rows[k]]
  <2>1. rows \in [1 .. n -> Row]
    BY LenProperties, SeqDef
  <2> QED
    BY <2>1
<1> QED
  BY <1>7, <1>8

-----------------------------------------------------------------------------
(* The loops of collect_symbols and collect_includes.                         *)
\* The symbols of the tokens before n.
SymbolAt(row, k) == \/ ClassAt(k) /\ row = Symbol("class", k + 1)
                    \/ FunctionAt(k) /\ row = Symbol("function", k + 1)

SymbolsUpTo(rows, n) ==
  /\ rows \in Seq(Row)
  /\ Ascending(rows)
  /\ \A i \in DOMAIN rows : \E k \in DOMAIN Visible : k < n /\ SymbolAt(rows[i], k)
  /\ \A k \in DOMAIN Visible : k < n =>
       /\ ClassAt(k) => \E i \in DOMAIN rows : rows[i] = Symbol("class", k + 1)
       /\ FunctionAt(k) => \E i \in DOMAIN rows : rows[i] = Symbol("function", k + 1)

\* The include statements that begin before n.
IncludesUpTo(rows, n) ==
  /\ rows \in Seq(Row)
  /\ \A i, j \in DOMAIN rows : i < j => rows[i].from < rows[j].from
  /\ \A i \in DOMAIN rows :
       \E k \in DOMAIN Visible : k < n /\ IncludeAt(k) /\ rows[i] = Symbol("include", k)
  /\ \A k \in DOMAIN Visible :
       k < n /\ IncludeAt(k) => \E i \in DOMAIN rows : rows[i] = Symbol("include", k)

\* The rows of a visible token.
LEMMA RowsOfTokens ==
  ASSUME Settled, NEW k \in DOMAIN Visible, NEW kind \in {"class", "function", "include"}
  PROVE  /\ Symbol(kind, k) \in Row
         /\ Symbol(kind, k).kind = kind /\ Symbol(kind, k).from = Visible[k].from
         /\ Symbol(kind, k).line = Visible[k].line /\ Symbol(kind, k).column = Visible[k].column
<1>1. Visible[k] \in Token /\ Told(Visible[k])
  BY VisibleTold
<1> PICK t : t = Visible[k]
  OBVIOUS
<1>2. t.from \in 1 .. Size /\ t.line \in Nat /\ t.column \in Nat
  BY <1>1 DEF Token, Told
<1>3. Symbol(kind, k) = [kind |-> kind, from |-> t.from, line |-> t.line, column |-> t.column]
  BY DEF Symbol
<1> QED
  BY <1>2, <1>3 DEF Row

\* A row after all the others.
LEMMA RowAppended ==
  ASSUME NEW rows \in Seq(Row), NEW row \in Row
  PROVE  /\ Append(rows, row) \in Seq(Row)
         /\ DOMAIN Append(rows, row) = 1 .. Len(rows) + 1 /\ DOMAIN rows = 1 .. Len(rows)
         /\ Len(rows) \in Nat
         /\ \A i \in 1 .. Len(rows) : Append(rows, row)[i] = rows[i]
         /\ Append(rows, row)[Len(rows) + 1] = row
BY AppendProperties, LenProperties

LEMMA SymbolAppended ==
  ASSUME NEW rows \in Seq(Row), NEW row \in Row, Ascending(rows),
         \A i \in DOMAIN rows : Ahead(rows[i], row)
  PROVE  Ascending(Append(rows, row))
<1> PICK n \in Nat : n = Len(rows)
  BY RowAppended
<1> PICK w : w = Append(rows, row)
  OBVIOUS
<1>1. /\ DOMAIN w = 1 .. n + 1 /\ DOMAIN rows = 1 .. n
      /\ \A i \in 1 .. n : w[i] = rows[i]
      /\ w[n + 1] = row
  BY RowAppended
<1>2. ASSUME NEW i \in 1 .. n + 1, NEW j \in 1 .. n + 1, i < j PROVE Ahead(w[i], w[j])
  <2>1. i \in 1 .. n /\ (j \in 1 .. n \/ j = n + 1)
    BY <1>2
  <2>2. CASE j = n + 1
    BY <1>1, <2>1, <2>2
  <2>3. CASE j \in 1 .. n
    BY <1>1, <1>2, <2>1, <2>3 DEF Ascending
  <2> QED
    BY <2>1, <2>2, <2>3
<1>3. Ascending(w)
  BY <1>1, <1>2 DEF Ascending
<1> QED
  BY <1>3

\* One turn of the loop of collect_symbols.
LEMMA SymbolTurn ==
  ASSUME Settled, NEW rows, NEW k \in DOMAIN Visible, SymbolsUpTo(rows, k)
  PROVE  SymbolsUpTo(rows \o (IF ClassAt(k) THEN <<Symbol("class", k + 1)>> ELSE <<>>)
                          \o (IF FunctionAt(k) THEN <<Symbol("function", k + 1)>> ELSE <<>>),
                     k + 1)
<1> PICK m \in Nat : m = Len(Visible) /\ DOMAIN Visible = 1 .. m
  BY VisibleTold
<1> DEFINE class == Symbol("class", k + 1)
           function == Symbol("function", k + 1)
<1>1. \A j \in 1 .. m : j < k + 1 <=> j < k \/ j = k
  OBVIOUS
<1>2. ASSUME ClassAt(k) \/ FunctionAt(k)
      PROVE  /\ class \in Row /\ function \in Row /\ Ahead(class, function)
             /\ \A i \in DOMAIN rows : Ahead(rows[i], class) /\ Ahead(rows[i], function)
  <2>1. k + 1 \in 1 .. m
    BY <1>2 DEF ClassAt, FunctionAt, At
  <2>2. /\ class \in Row /\ function \in Row
        /\ class.kind = "class" /\ function.kind = "function"
        /\ class.from = Visible[k + 1].from /\ function.from = Visible[k + 1].from
        /\ class.line = Visible[k + 1].line /\ function.line = Visible[k + 1].line
        /\ class.column = Visible[k + 1].column /\ function.column = Visible[k + 1].column
    BY <2>1, RowsOfTokens
  <2>3. Ahead(class, function)
    BY <2>2 DEF Ahead
  <2>4. ASSUME NEW i \in DOMAIN rows
        PROVE  Ahead(rows[i], class) /\ Ahead(rows[i], function)
    <3>1. PICK j \in 1 .. m : j < k /\ SymbolAt(rows[i], j)
      BY DEF SymbolsUpTo
    <3>2. j + 1 \in 1 .. m /\ j + 1 < k + 1
      BY <3>1
    <3>3. rows[i].from = Visible[j + 1].from /\ rows[i].line = Visible[j + 1].line
          /\ rows[i].column = Visible[j + 1].column
      BY <3>1, <3>2, RowsOfTokens DEF SymbolAt
    <3> PICK t : t = Visible[j + 1]
      OBVIOUS
    <3> PICK u : u = Visible[k + 1]
      OBVIOUS
    <3>4. Told(t) /\ Told(u) /\ t.to <= u.from /\ Before(t, u)
      BY <2>1, <3>2, VisibleTold
    <3>5. t.from < u.from
      <4>1. t.from \in 1 .. Size /\ t.to \in t.from + 1 .. Size + 1 /\ u.from \in 1 .. Size
        BY <3>4 DEF Told
      <4>2. Size \in Nat
        BY TokenFacts
      <4> PICK a \in 1 .. Size, b \in 1 .. Size : a = t.from /\ b = u.from
        BY <4>1
      <4> PICK c \in a + 1 .. Size + 1 : c = t.to
        BY <4>1
      <4>3. a \in Nat /\ b \in Nat /\ c \in Nat /\ a < c /\ c <= b
        <5>1. a \in Nat /\ b \in Nat
          BY <4>2
        <5>2. c \in a + 1 .. Size + 1
          OBVIOUS
        <5>3. c \in Nat /\ a < c
          BY ONLY <4>2, <5>1, <5>2
        <5>4. c <= b
          BY <3>4
        <5> QED
          BY <5>1, <5>3, <5>4
      <4>4. a < b
        BY ONLY <4>3
      <4> QED
        BY <4>4
    <3> HIDE DEF class, function
    <3> QED
      BY <2>2, <3>3, <3>4, <3>5 DEF Ahead, Before
  <2> QED
    BY <2>2, <2>3, <2>4
<1> HIDE DEF class, function
<1>3. /\ rows \in Seq(Row) /\ Ascending(rows)
      /\ \A i \in DOMAIN rows : \E j \in 1 .. m : j < k /\ SymbolAt(rows[i], j)
      /\ \A j \in 1 .. m : j < k =>
           /\ ClassAt(j) => \E i \in DOMAIN rows : rows[i] = Symbol("class", j + 1)
           /\ FunctionAt(j) => \E i \in DOMAIN rows : rows[i] = Symbol("function", j + 1)
  BY DEF SymbolsUpTo
<1> PICK mid : mid = rows \o (IF ClassAt(k) THEN <<class>> ELSE <<>>)
  OBVIOUS
<1>4. /\ mid \in Seq(Row) /\ Ascending(mid)
      /\ \A i \in DOMAIN mid : \E j \in 1 .. m : j < k + 1 /\ SymbolAt(mid[i], j)
      /\ \A j \in 1 .. m : j < k => \A row \in Row :
           (\E i \in DOMAIN rows : rows[i] = row) => \E i \in DOMAIN mid : mid[i] = row
      /\ ClassAt(k) => \E i \in DOMAIN mid : mid[i] = class
      /\ FunctionAt(k) => \A i \in DOMAIN mid : Ahead(mid[i], function)
  <2>1. CASE ~ClassAt(k)
    <3>1. mid = rows
      BY <1>3, <2>1, ConcatEmptySeq
    <3> QED
      BY <1>1, <1>2, <1>3, <2>1, <3>1
  <2>2. CASE ClassAt(k)
    <3>1. mid = Append(rows, class)
      BY <1>2, <1>3, <2>2, AppendIsConcat
    <3> PICK n \in Nat : n = Len(rows)
      BY <1>3, RowAppended, <1>2, <2>2
    <3>2. /\ mid \in Seq(Row) /\ DOMAIN mid = 1 .. n + 1 /\ DOMAIN rows = 1 .. n
          /\ \A i \in 1 .. n : mid[i] = rows[i]
          /\ mid[n + 1] = class
      BY <1>2, <1>3, <2>2, <3>1, RowAppended
    <3>3. Ascending(mid)
      BY <1>2, <1>3, <2>2, <3>1, SymbolAppended
    <3>4. \A i \in 1 .. n + 1 : i \in 1 .. n \/ i = n + 1
      OBVIOUS
    <3>5. \A i \in 1 .. n : i \in 1 .. n + 1
      OBVIOUS
    <3>6. n + 1 \in 1 .. n + 1
      OBVIOUS
    <3>7. SymbolAt(class, k)
      BY <2>2 DEF SymbolAt, class
    <3>8. ASSUME NEW i \in 1 .. n + 1
          PROVE  \E j \in 1 .. m : j < k + 1 /\ SymbolAt(mid[i], j)
      BY <1>1, <1>3, <3>2, <3>4, <3>7
    <3>9. ASSUME NEW row \in Row, NEW i \in 1 .. n, rows[i] = row
          PROVE  \E l \in 1 .. n + 1 : mid[l] = row
      BY <3>2, <3>5, <3>9
    <3>10. \A i \in 1 .. n + 1 : Ahead(mid[i], function)
      BY <1>2, <2>2, <3>2, <3>4
    <3> QED
      BY <3>2, <3>3, <3>6, <3>8, <3>9, <3>10
  <2> QED
    BY <2>1, <2>2
<1> PICK new : new = mid \o (IF FunctionAt(k) THEN <<function>> ELSE <<>>)
  OBVIOUS
<1>5. /\ new \in Seq(Row) /\ Ascending(new)
      /\ \A i \in DOMAIN new : \E j \in 1 .. m : j < k + 1 /\ SymbolAt(new[i], j)
      /\ \A row \in Row : (\E i \in DOMAIN mid : mid[i] = row) => \E i \in DOMAIN new : new[i] = row
      /\ FunctionAt(k) => \E i \in DOMAIN new : new[i] = function
  <2>1. CASE ~FunctionAt(k)
    <3>1. new = mid
      BY <1>4, <2>1, ConcatEmptySeq
    <3> QED
      BY <1>4, <2>1, <3>1
  <2>2. CASE FunctionAt(k)
    <3>1. new = Append(mid, function)
      BY <1>2, <1>4, <2>2, AppendIsConcat
    <3> PICK n \in Nat : n = Len(mid)
      BY <1>4, RowAppended, <1>2, <2>2
    <3>2. /\ new \in Seq(Row) /\ DOMAIN new = 1 .. n + 1 /\ DOMAIN mid = 1 .. n
          /\ \A i \in 1 .. n : new[i] = mid[i]
          /\ new[n + 1] = function
      BY <1>2, <1>4, <2>2, <3>1, RowAppended
    <3>3. Ascending(new)
      BY <1>2, <1>4, <2>2, <3>1, SymbolAppended
    <3>4. \A i \in 1 .. n + 1 : i \in 1 .. n \/ i = n + 1
      OBVIOUS
    <3>5. \A i \in 1 .. n : i \in 1 .. n + 1
      OBVIOUS
    <3>6. n + 1 \in 1 .. n + 1
      OBVIOUS
    <3>7. SymbolAt(function, k)
      BY <2>2 DEF SymbolAt, function
    <3>8. ASSUME NEW i \in 1 .. n + 1
          PROVE  \E j \in 1 .. m : j < k + 1 /\ SymbolAt(new[i], j)
      <4>1. CASE i = n + 1
        BY <1>1, <3>2, <3>7, <4>1
      <4>2. CASE i \in 1 .. n
        BY <1>4, <3>2, <4>2
      <4> QED
        BY <3>4, <4>1, <4>2
    <3>9. ASSUME NEW row \in Row, NEW i \in 1 .. n, mid[i] = row
          PROVE  \E l \in 1 .. n + 1 : new[l] = row
      BY <3>2, <3>5, <3>9
    <3> QED
      BY <3>2, <3>3, <3>6, <3>8, <3>9
  <2> QED
    BY <2>1, <2>2
<1>6. ASSUME NEW j \in 1 .. m, j < k + 1
      PROVE  /\ ClassAt(j) => \E i \in DOMAIN new : new[i] = Symbol("class", j + 1)
             /\ FunctionAt(j) => \E i \in DOMAIN new : new[i] = Symbol("function", j + 1)
  <2>1. CASE j = k
    <3>1. ClassAt(k) => class \in Row
      BY <1>2
    <3> QED
      BY <1>4, <1>5, <2>1, <3>1 DEF class, function
  <2>2. CASE j < k
    <3>1. ClassAt(j) \/ FunctionAt(j) => j + 1 \in 1 .. m
      BY <2>2
    <3>2. j + 1 \in 1 .. m => Symbol("class", j + 1) \in Row /\ Symbol("function", j + 1) \in Row
      BY RowsOfTokens
    <3>3. ClassAt(j) => \E i \in DOMAIN new : new[i] = Symbol("class", j + 1)
      <4> SUFFICES ASSUME ClassAt(j) PROVE \E i \in DOMAIN new : new[i] = Symbol("class", j + 1)
        OBVIOUS
      <4> PICK row : row = Symbol("class", j + 1)
        OBVIOUS
      <4>1. row \in Row /\ \E i \in DOMAIN rows : rows[i] = row
        BY <1>3, <2>2, <3>1, <3>2
      <4>2. \E i \in DOMAIN mid : mid[i] = row
        BY <1>4, <2>2, <4>1
      <4> QED
        BY <1>5, <4>1, <4>2
    <3>4. FunctionAt(j) => \E i \in DOMAIN new : new[i] = Symbol("function", j + 1)
      <4> SUFFICES ASSUME FunctionAt(j) PROVE \E i \in DOMAIN new : new[i] = Symbol("function", j + 1)
        OBVIOUS
      <4> PICK row : row = Symbol("function", j + 1)
        OBVIOUS
      <4>1. row \in Row /\ \E i \in DOMAIN rows : rows[i] = row
        BY <1>3, <2>2, <3>1, <3>2
      <4>2. \E i \in DOMAIN mid : mid[i] = row
        BY <1>4, <2>2, <4>1
      <4> QED
        BY <1>5, <4>1, <4>2
    <3> QED
      BY <3>3, <3>4
  <2> QED
    BY <1>1, <1>6, <2>1, <2>2
<1>7. SymbolsUpTo(new, k + 1)
  BY <1>5, <1>6 DEF SymbolsUpTo
<1> QED
  BY <1>7 DEF class, function

\* One turn of the loop of collect_includes: after a statement its other two
\* tokens are passed over, and neither begins one.
LEMMA IncludeTurn ==
  ASSUME Settled, NEW rows, NEW k \in DOMAIN Visible, IncludesUpTo(rows, k)
  PROVE  /\ IncludeAt(k) => IncludesUpTo(Append(rows, Symbol("include", k)), k + 3)
         /\ ~IncludeAt(k) => IncludesUpTo(rows, k + 1)
<1> PICK m \in Nat : m = Len(Visible) /\ DOMAIN Visible = 1 .. m
  BY VisibleTold
<1>1. \A j \in 1 .. m : /\ j < k + 1 <=> j < k \/ j = k
                        /\ j < k + 3 <=> j < k \/ j = k \/ j = k + 1 \/ j = k + 2
  OBVIOUS
<1>2. CASE ~IncludeAt(k)
  <2>1. \A j \in 1 .. m : j < k => j < k + 1
    OBVIOUS
  <2> QED
    BY <1>1, <1>2, <2>1 DEF IncludesUpTo
<1>3. CASE IncludeAt(k)
  <2> PICK row : row = Symbol("include", k)
    OBVIOUS
  <2>1. row \in Row /\ row.from = Visible[k].from
    BY RowsOfTokens
  <2>2. ~IncludeAt(k + 1) /\ ~IncludeAt(k + 2)
    BY <1>3, IncludesApart
  <2>3. rows \in Seq(Row)
    BY DEF IncludesUpTo
  <2> PICK n \in Nat : n = Len(rows)
    BY <2>1, <2>3, RowAppended
  <2> PICK new : new = Append(rows, row)
    OBVIOUS
  <2>4. /\ new \in Seq(Row) /\ DOMAIN new = 1 .. n + 1 /\ DOMAIN rows = 1 .. n
        /\ \A i \in 1 .. n : new[i] = rows[i]
        /\ new[n + 1] = row
    BY <2>1, <2>3, RowAppended
  <2>5. \A i \in 1 .. n + 1 : i \in 1 .. n \/ i = n + 1
    OBVIOUS
  <2>6. ASSUME NEW i \in 1 .. n PROVE rows[i].from < row.from
    <3>1. PICK j \in 1 .. m : j < k /\ rows[i] = Symbol("include", j)
      BY <2>4 DEF IncludesUpTo
    <3>2. rows[i].from = Visible[j].from
      BY <3>1, RowsOfTokens
    <3> PICK t : t = Visible[j]
      OBVIOUS
    <3> PICK u : u = Visible[k]
      OBVIOUS
    <3>3. Told(t) /\ Told(u) /\ t.to <= u.from
      BY <3>1, VisibleTold
    <3>4. t.from \in 1 .. Size /\ t.to \in t.from + 1 .. Size + 1 /\ u.from \in 1 .. Size
      BY <3>3 DEF Told
    <3>5. Size \in Nat
      BY TokenFacts
    <3> PICK a \in 1 .. Size, b \in 1 .. Size : a = t.from /\ b = u.from
      BY <3>4
    <3> PICK c \in a + 1 .. Size + 1 : c = t.to
      BY <3>4
    <3>6. a \in Nat /\ b \in Nat /\ c \in Nat /\ a < c /\ c <= b
      BY <3>3, <3>5
    <3>7. a < b
      BY ONLY <3>6
    <3> QED
      BY <2>1, <3>2, <3>7
  <2>7. ASSUME NEW i \in 1 .. n + 1, NEW j \in 1 .. n + 1, i < j PROVE new[i].from < new[j].from
    <3>1. i \in 1 .. n
      BY <2>7
    <3>2. CASE j = n + 1
      BY <2>4, <2>6, <3>1, <3>2
    <3>3. CASE j \in 1 .. n
      BY <2>4, <2>7, <3>1, <3>3 DEF IncludesUpTo
    <3> QED
      BY <2>5, <3>2, <3>3
  <2>8. ASSUME NEW i \in 1 .. n + 1
        PROVE  \E j \in 1 .. m : j < k + 3 /\ IncludeAt(j) /\ new[i] = Symbol("include", j)
    <3>1. CASE i = n + 1
      BY <1>1, <1>3, <2>4, <3>1
    <3>2. CASE i \in 1 .. n
      <4>1. PICK j \in 1 .. m : j < k /\ IncludeAt(j) /\ rows[i] = Symbol("include", j)
        BY <2>4, <3>2 DEF IncludesUpTo
      <4> QED
        BY <1>1, <2>4, <3>2, <4>1
    <3> QED
      BY <2>5, <3>1, <3>2
  <2>9. ASSUME NEW j \in 1 .. m, j < k + 3, IncludeAt(j)
        PROVE  \E i \in 1 .. n + 1 : new[i] = Symbol("include", j)
    <3>1. j < k \/ j = k
      BY <1>1, <2>2, <2>9
    <3>2. CASE j = k
      BY <2>4, <3>2
    <3>3. CASE j < k
      <4>1. PICK i \in 1 .. n : rows[i] = Symbol("include", j)
        BY <2>4, <2>9, <3>3 DEF IncludesUpTo
      <4>2. i \in 1 .. n + 1
        OBVIOUS
      <4> QED
        BY <2>4, <4>1, <4>2
    <3> QED
      BY <3>1, <3>2, <3>3
  <2>10. /\ new \in Seq(Row)
         /\ \A i, j \in DOMAIN new : i < j => new[i].from < new[j].from
    BY <2>4, <2>7
  <2>11. \A i \in DOMAIN new : \E j \in DOMAIN Visible :
           j < k + 3 /\ IncludeAt(j) /\ new[i] = Symbol("include", j)
    BY <2>4, <2>8
  <2>12. \A j \in DOMAIN Visible :
           j < k + 3 /\ IncludeAt(j) => \E i \in DOMAIN new : new[i] = Symbol("include", j)
    BY <2>4, <2>9
  <2>13. IncludesUpTo(new, k + 3)
    BY <2>10, <2>11, <2>12 DEF IncludesUpTo
  <2> QED
    BY <1>3, <2>13
<1> QED
  BY <1>2, <1>3

\* The rows of a finished loop are those of the whole text.
LEMMA SymbolsInFull ==
  ASSUME Settled, SymbolsUpTo(symbols, Len(Visible) + 1)
  PROVE  /\ From(symbols, "class") = ClassNames
         /\ From(symbols, "function") = FunctionNames
         /\ \A i, j \in DOMAIN symbols :
              i < j => \/ symbols[i].from < symbols[j].from
                       \/ /\ symbols[i].from = symbols[j].from
                          /\ symbols[i].kind = "class" /\ symbols[j].kind = "function"
<1> PICK m \in Nat : m = Len(Visible) /\ DOMAIN Visible = 1 .. m
  BY VisibleTold
<1>1. \A k \in 1 .. m : k < Len(Visible) + 1 /\ k <= Len(Visible)
  OBVIOUS
<1>2. \A row : row \in Range(symbols) <=> \E i \in DOMAIN symbols : row = symbols[i]
  BY DEF Range
<1>3. \A k \in 1 .. m : /\ ClassAt(k) <=> k + 1 <= m /\ Visible[k + 1].from \in ClassNames
                        /\ FunctionAt(k) <=> k + 1 <= m /\ Visible[k + 1].from \in FunctionNames
  BY SymbolsAtMatch
<1>4. ASSUME NEW k \in 1 .. m, k + 1 <= m
      PROVE  /\ Symbol("class", k + 1).kind = "class" /\ Symbol("function", k + 1).kind = "function"
             /\ Symbol("class", k + 1).from = Visible[k + 1].from
             /\ Symbol("function", k + 1).from = Visible[k + 1].from
  <2>1. k + 1 \in 1 .. m
    BY <1>4
  <2> QED
    BY <2>1, RowsOfTokens
<1>5. ASSUME NEW p PROVE p \in From(symbols, "class") <=> p \in ClassNames
  <2>1. ASSUME p \in From(symbols, "class") PROVE p \in ClassNames
    <3>1. PICK i \in DOMAIN symbols : symbols[i].kind = "class" /\ p = symbols[i].from
      BY <1>2, <2>1 DEF From
    <3>2. PICK k \in 1 .. m : SymbolAt(symbols[i], k)
      BY DEF SymbolsUpTo
    <3>3. k + 1 <= m
      BY <1>3, <3>2 DEF SymbolAt
    <3> QED
      BY <1>3, <1>4, <3>1, <3>2, <3>3 DEF SymbolAt
  <2>2. ASSUME p \in ClassNames PROVE p \in From(symbols, "class")
    <3>1. PICK k \in 1 .. m : k + 1 <= m /\ p = Visible[k + 1].from
      BY <2>2, NamesAreVisible
    <3>2. ClassAt(k)
      BY <1>3, <2>2, <3>1
    <3>3. PICK i \in DOMAIN symbols : symbols[i] = Symbol("class", k + 1)
      BY <1>1, <3>2 DEF SymbolsUpTo
    <3> QED
      BY <1>2, <1>4, <3>1, <3>3 DEF From
  <2> QED
    BY <2>1, <2>2
<1>6. ASSUME NEW p PROVE p \in From(symbols, "function") <=> p \in FunctionNames
  <2>1. ASSUME p \in From(symbols, "function") PROVE p \in FunctionNames
    <3>1. PICK i \in DOMAIN symbols : symbols[i].kind = "function" /\ p = symbols[i].from
      BY <1>2, <2>1 DEF From
    <3>2. PICK k \in 1 .. m : SymbolAt(symbols[i], k)
      BY DEF SymbolsUpTo
    <3>3. k + 1 <= m
      BY <1>3, <3>2 DEF SymbolAt
    <3> QED
      BY <1>3, <1>4, <3>1, <3>2, <3>3 DEF SymbolAt
  <2>2. ASSUME p \in FunctionNames PROVE p \in From(symbols, "function")
    <3>1. PICK k \in 1 .. m : k + 1 <= m /\ p = Visible[k + 1].from
      BY <2>2, NamesAreVisible
    <3>2. FunctionAt(k)
      BY <1>3, <2>2, <3>1
    <3>3. PICK i \in DOMAIN symbols : symbols[i] = Symbol("function", k + 1)
      BY <1>1, <3>2 DEF SymbolsUpTo
    <3> QED
      BY <1>2, <1>4, <3>1, <3>3 DEF From
  <2> QED
    BY <2>1, <2>2
<1>7. From(symbols, "class") = ClassNames /\ From(symbols, "function") = FunctionNames
  BY <1>5, <1>6
<1> QED
  BY <1>7 DEF SymbolsUpTo, Ascending, Ahead

LEMMA IncludesInFull ==
  ASSUME Settled, NEW n \in Nat, IncludesUpTo(includes, n), n + 2 > Len(Visible)
  PROVE  /\ From(includes, "include") = IncludeStatements
         /\ \A i, j \in DOMAIN includes : i < j => includes[i].from < includes[j].from
<1> PICK m \in Nat : m = Len(Visible) /\ DOMAIN Visible = 1 .. m
  BY VisibleTold
<1>1. \A row : row \in Range(includes) <=> \E i \in DOMAIN includes : row = includes[i]
  BY DEF Range
<1>2. ASSUME NEW k \in 1 .. m
      PROVE  /\ IncludeAt(k) <=> Visible[k].from \in IncludeStatements
             /\ Symbol("include", k).kind = "include" /\ Symbol("include", k).from = Visible[k].from
             /\ IncludeAt(k) => k < n
  <2>1. IncludeAt(k) => k + 2 \in 1 .. m
    BY IncludesApart
  <2>2. k + 2 \in 1 .. m => k < n
    OBVIOUS
  <2>3. IncludeAt(k) <=> Visible[k].from \in IncludeStatements
    BY IncludeAtMatches
  <2>4. Symbol("include", k).kind = "include" /\ Symbol("include", k).from = Visible[k].from
    BY RowsOfTokens
  <2> QED
    BY <2>1, <2>2, <2>3, <2>4
<1>3. ASSUME NEW p PROVE p \in From(includes, "include") <=> p \in IncludeStatements
  <2>1. ASSUME p \in From(includes, "include") PROVE p \in IncludeStatements
    <3>1. PICK i \in DOMAIN includes : p = includes[i].from
      BY <1>1, <2>1 DEF From
    <3>2. PICK k \in 1 .. m : IncludeAt(k) /\ includes[i] = Symbol("include", k)
      BY DEF IncludesUpTo
    <3> QED
      BY <1>2, <3>1, <3>2
  <2>2. ASSUME p \in IncludeStatements PROVE p \in From(includes, "include")
    <3>1. p \in 1 .. Size /\ InCode(p) /\ chars[p] = "#"
      BY <2>2 DEF IncludeStatements
    <3>2. PICK k \in 1 .. m : p = Visible[k].from
      BY <3>1, SolidIsVisible
    <3>3. IncludeAt(k) /\ k < n
      BY <1>2, <2>2, <3>2
    <3>4. PICK i \in DOMAIN includes : includes[i] = Symbol("include", k)
      BY <3>3 DEF IncludesUpTo
    <3> QED
      BY <1>1, <1>2, <3>2, <3>4 DEF From
  <2> QED
    BY <2>1, <2>2
<1>4. From(includes, "include") = IncludeStatements
  BY <1>3
<1> QED
  BY <1>4 DEF IncludesUpTo

\* What the two loops have found so far.
IndexInv ==
  /\ TextInv
  /\ pc \in {"lex", "symbols", "includes", "done"}
  /\ next \in Nat \ {0}
  /\ pc = "lex" => symbols = <<>> /\ includes = <<>> /\ next = 1
  /\ pc # "lex" => index = Size + 1
  /\ pc = "symbols" => includes = <<>> /\ SymbolsUpTo(symbols, next)
  /\ pc \in {"includes", "done"} => SymbolsUpTo(symbols, Len(Visible) + 1)
  /\ pc \in {"includes", "done"} => IncludesUpTo(includes, next)
  /\ pc = "done" => next + 2 > Len(Visible)

LEMMA IndexInitInv == ASSUME IndexInit PROVE IndexInv
<1>1. TextInv
  BY TextInit DEF IndexInit
<1> QED
  BY <1>1 DEF IndexInit, IndexInv

\* Nothing has been found before the first token.
LEMMA NothingYet ==
  ASSUME Settled
  PROVE  SymbolsUpTo(<<>>, 1) /\ IncludesUpTo(<<>>, 1)
<1>1. DOMAIN Visible = 1 .. Len(Visible) /\ Len(Visible) \in Nat
  BY VisibleTold
<1>2. \A k \in DOMAIN Visible : ~(k < 1)
  BY <1>1
<1>3. <<>> \in Seq(Row) /\ DOMAIN (<<>>) = {}
  OBVIOUS
<1>4. Ascending(<<>>)
  BY <1>3 DEF Ascending
<1> QED
  BY <1>2, <1>3, <1>4 DEF SymbolsUpTo, IncludesUpTo

\* The text and its tokens stay, and with them what the loops should find.
LEMMA TextKept ==
  ASSUME UNCHANGED vars
  PROVE  /\ chars' = chars /\ tokens' = tokens /\ index' = index
         /\ Size' = Size /\ Visible' = Visible
         /\ \A rows, n : SymbolsUpTo(rows, n)' = SymbolsUpTo(rows, n)
         /\ \A rows, n : IncludesUpTo(rows, n)' = IncludesUpTo(rows, n)
<1>1. chars' = chars /\ tokens' = tokens /\ index' = index
  BY DEF vars
<1>2. Size' = Size /\ Visible' = Visible
  BY <1>1 DEF Size, Visible
<1>3. Row' = Row /\ \A kind, k : Symbol(kind, k)' = Symbol(kind, k)
  BY <1>2 DEF Row, Symbol
<1>4. \A k, word : Reads(k, word)' = Reads(k, word) /\ At(k, word)' = At(k, word)
  BY <1>1, <1>2 DEF Reads, At, Lexeme
<1>5. \A k : ClassAt(k)' = ClassAt(k) /\ IncludeAt(k)' = IncludeAt(k)
             /\ IsTypeLike(k)' = IsTypeLike(k)
  BY <1>4 DEF ClassAt, IncludeAt, IsTypeLike
<1>6. \A k : FunctionAt(k)' = FunctionAt(k)
  BY <1>1, <1>2, <1>4, <1>5 DEF FunctionAt, Lexeme
<1>7. \A row, k : SymbolAt(row, k)' = SymbolAt(row, k)
  BY <1>3, <1>5, <1>6 DEF SymbolAt
<1>8. \A rows : Ascending(rows)' = Ascending(rows)
  BY DEF Ascending, Ahead, Before
<1>9. \A rows, n : SymbolsUpTo(rows, n)' = SymbolsUpTo(rows, n)
  BY <1>2, <1>3, <1>5, <1>6, <1>7, <1>8 DEF SymbolsUpTo
<1>10. \A rows, n : IncludesUpTo(rows, n)' = IncludesUpTo(rows, n)
  BY <1>2, <1>3, <1>5 DEF IncludesUpTo
<1> QED
  BY <1>1, <1>2, <1>9, <1>10

LEMMA IndexStep ==
  ASSUME IndexInv, [IndexNext]_<<vars, indexVars>>
  PROVE  IndexInv'
<1>1. CASE LexStep
  <2>1. TextInv'
    BY <1>1, TextStep DEF IndexInv, LexStep
  <2> QED
    BY <1>1, <2>1 DEF IndexInv, LexStep, indexVars
<1>2. CASE ~LexStep
  <2>1. UNCHANGED vars
    BY <1>2 DEF IndexNext, LexDone, CollectSymbol, SymbolsDone, CollectInclude, IncludesDone
  <2>2. /\ TextInv' /\ index' = index /\ Size' = Size /\ Visible' = Visible
        /\ \A rows, n : SymbolsUpTo(rows, n)' = SymbolsUpTo(rows, n)
        /\ \A rows, n : IncludesUpTo(rows, n)' = IncludesUpTo(rows, n)
    BY <2>1, TextStep, TextKept DEF IndexInv
  <2>3. ASSUME pc # "lex" PROVE Settled /\ (index = Size + 1)'
    BY <2>2, <2>3 DEF IndexInv, Settled
  <2>4. ASSUME Settled
        PROVE  Len(Visible) \in Nat /\ DOMAIN Visible = 1 .. Len(Visible)
    BY <2>4, VisibleTold
  <2> PICK s, i, n, v : s = symbols' /\ i = includes' /\ n = next' /\ v = Visible
    OBVIOUS
  <2>5. ASSUME pc' \in {"symbols", "includes", "done"}, n \in Nat \ {0}, (index = Size + 1)',
               pc' = "symbols" => i = <<>> /\ SymbolsUpTo(s, n),
               pc' \in {"includes", "done"} => SymbolsUpTo(s, Len(v) + 1) /\ IncludesUpTo(i, n),
               pc' = "done" => n + 2 > Len(v)
        PROVE  IndexInv'
    <3>1. (pc = "symbols" => includes = <<>> /\ SymbolsUpTo(symbols, next))'
      BY <2>2, <2>5
    <3>2. (pc \in {"includes", "done"} => SymbolsUpTo(symbols, Len(Visible) + 1))'
      BY <2>2, <2>5
    <3>3. (pc \in {"includes", "done"} => IncludesUpTo(includes, next))'
      BY <2>2, <2>5
    <3>4. (pc = "done" => next + 2 > Len(Visible))'
      BY <2>2, <2>5
    <3> QED
      BY <2>2, <2>5, <3>1, <3>2, <3>3, <3>4 DEF IndexInv
  <2>6. CASE LexDone
    <3>1. index \in 1 .. Size + 1 /\ Size \in Nat /\ ~(index <= Size)
      BY <2>6, TextFacts DEF IndexInv, TextInv, AgreeInv, IInv, TypeOK, LexDone, More
    <3>2. Settled
      BY <3>1 DEF Settled, IndexInv
    <3>3. SymbolsUpTo(<<>>, 1)
      BY <3>2, NothingYet
    <3>4. pc' = "symbols" /\ s = <<>> /\ i = <<>> /\ n = 1 /\ (index = Size + 1)'
      BY <2>2, <2>6, <3>2 DEF LexDone, IndexInv, Settled
    <3> QED
      BY <2>5, <3>3, <3>4
  <2>7. CASE CollectSymbol
    <3>1. pc = "symbols" /\ Settled /\ (index = Size + 1)' /\ next \in Nat \ {0}
          /\ next <= Len(Visible) /\ SymbolsUpTo(symbols, next) /\ includes = <<>>
      BY <2>3, <2>7 DEF CollectSymbol, IndexInv
    <3>2. next \in DOMAIN Visible
      BY <2>4, <3>1
    <3>3. SymbolsUpTo(s, next + 1)
      BY <2>7, <3>1, <3>2, SymbolTurn DEF CollectSymbol
    <3>4. pc' = "symbols" /\ i = <<>> /\ n = next + 1 /\ n \in Nat \ {0}
      BY <2>7, <3>1 DEF CollectSymbol
    <3> QED
      BY <2>5, <3>1, <3>3, <3>4
  <2>8. CASE SymbolsDone
    <3>1. pc = "symbols" /\ Settled /\ (index = Size + 1)' /\ next \in Nat \ {0}
          /\ next > Len(Visible) /\ SymbolsUpTo(symbols, next) /\ includes = <<>>
      BY <2>3, <2>8 DEF SymbolsDone, IndexInv
    <3>2. symbols \in Seq(Row) /\ Ascending(symbols)
      BY <3>1 DEF SymbolsUpTo
    <3>3. s = symbols
      BY <2>8, <3>2, SortKeeps, DedupKeeps DEF SymbolsDone
    <3>4. \A k \in DOMAIN Visible : k < next /\ k < Len(Visible) + 1
      BY <2>4, <3>1
    <3>5. SymbolsUpTo(s, Len(v) + 1)
      BY <3>1, <3>3, <3>4 DEF SymbolsUpTo
    <3>6. IncludesUpTo(<<>>, 1)
      BY <3>1, NothingYet
    <3>7. pc' = "includes" /\ i = <<>> /\ n = 1
      BY <2>8, <3>1 DEF SymbolsDone
    <3> QED
      BY <2>5, <3>1, <3>5, <3>6, <3>7
  <2>9. CASE CollectInclude
    <3>1. pc = "includes" /\ Settled /\ (index = Size + 1)' /\ next \in Nat \ {0}
          /\ next + 2 <= Len(Visible) /\ IncludesUpTo(includes, next)
          /\ SymbolsUpTo(symbols, Len(Visible) + 1)
      BY <2>3, <2>9 DEF CollectInclude, IndexInv
    <3>2. next \in DOMAIN Visible /\ next + 1 \in Nat \ {0} /\ next + 3 \in Nat \ {0}
      BY <2>4, <3>1
    <3>3. /\ IncludeAt(next) => i = Append(includes, Symbol("include", next)) /\ n = next + 3
          /\ ~IncludeAt(next) => i = includes /\ n = next + 1
          /\ pc' = "includes" /\ s = symbols
      BY <2>9 DEF CollectInclude
    <3>4. IncludesUpTo(i, n)
      BY <3>1, <3>2, <3>3, IncludeTurn
    <3> QED
      BY <2>5, <3>1, <3>2, <3>3, <3>4
  <2>10. CASE IncludesDone
    <3>1. pc = "includes" /\ Settled /\ (index = Size + 1)' /\ next \in Nat \ {0}
          /\ next + 2 > Len(Visible) /\ IncludesUpTo(includes, next)
          /\ SymbolsUpTo(symbols, Len(Visible) + 1)
      BY <2>3, <2>10 DEF IncludesDone, IndexInv
    <3>2. pc' = "done" /\ s = symbols /\ i = includes /\ n = next
      BY <2>10 DEF IncludesDone
    <3> QED
      BY <2>5, <3>1, <3>2
  <2>11. CASE UNCHANGED <<vars, indexVars>>
    <3>1. pc' = pc /\ s = symbols /\ i = includes /\ n = next
      BY <2>11 DEF indexVars
    <3>2. CASE pc = "lex"
      BY <2>2, <3>1, <3>2 DEF IndexInv
    <3>3. CASE pc # "lex"
      BY <2>3, <2>5, <3>1, <3>3 DEF IndexInv
    <3> QED
      BY <3>2, <3>3
  <2> QED
    BY <1>2, <2>6, <2>7, <2>8, <2>9, <2>10, <2>11 DEF IndexNext
<1> QED
  BY <1>1, <1>2

LEMMA IndexHolds == IndexSpec => []IndexInv
<1>1. IndexInit => IndexInv
  BY IndexInitInv
<1>2. IndexInv /\ [IndexNext]_<<vars, indexVars>> => IndexInv'
  BY IndexStep
<1> QED
  BY <1>1, <1>2, PTL DEF IndexSpec

\* Each include statement of a text, whatever its tokens are, is reported once
\* and in order by scan_file_report, and nothing else is.
THEOREM IncludesAreReported == IndexSpec => []IncludesMatchText
<1>1. IndexInv => IncludesMatchText
  <2> SUFFICES ASSUME IndexInv, pc = "done"
               PROVE  /\ From(includes, "include") = IncludeStatements
                      /\ \A i, j \in DOMAIN includes : i < j => includes[i].from < includes[j].from
    BY DEF IncludesMatchText
  <2>1. Settled /\ next \in Nat /\ IncludesUpTo(includes, next) /\ next + 2 > Len(Visible)
    BY DEF IndexInv, Settled
  <2> QED
    BY <2>1, IncludesInFull
<1> QED
  BY <1>1, IndexHolds, PTL

\* So is each class and each function, and the sort and the dedup at the end of
\* collect_symbols change nothing.
THEOREM SymbolsAreReported == IndexSpec => []SymbolsMatchText
<1>1. IndexInv => SymbolsMatchText
  <2> SUFFICES ASSUME IndexInv, pc = "done" PROVE SymbolsMatchText
    BY DEF SymbolsMatchText
  <2>1. Settled /\ SymbolsUpTo(symbols, Len(Visible) + 1)
    BY DEF IndexInv, Settled
  <2> QED
    BY <2>1, SymbolsInFull DEF SymbolsMatchText
<1> QED
  BY <1>1, IndexHolds, PTL
=============================================================================
