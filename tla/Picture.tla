------------------------------ MODULE Picture -------------------------------
(***************************************************************************)
(* The pictures of TOSZ: device contexts, copying one onto another, and    *)
(* the run-length code of the BMP files it writes.                         *)
(***************************************************************************)
EXTENDS Integers, Sequences, SequencesExt

CONSTANT BYTE_MAX    \* the longest run: 255

ASSUME PictureAssumption == BYTE_MAX \in Nat /\ BYTE_MAX > 1

\* A CDC; body gives a row for every y from the top, pixels from the left.
Blank(width, height) ==
  [width |-> width, height |-> height,
   body |-> [y \in 0 .. height - 1 |-> [x \in 0 .. width - 1 |-> 0]]]

\* A picture: that many rows of that many pixels each.
IsPicture(img) == /\ img.width \in Nat /\ img.height \in Nat
                  /\ img.body \in [0 .. img.height - 1 -> [0 .. img.width - 1 -> Nat]]

\* GrBlot: the rows h1 .. h2 - 1 and columns w1 .. w2 - 1 of img that lie on
\* dc are copied to (x, y), if there are any.
GrBlot(dc, x, y, img) ==
  LET w1 == IF x < 0 THEN -x ELSE 0
      h1 == IF y < 0 THEN -y ELSE 0
      w2 == IF x + img.width > dc.width THEN dc.width - x ELSE img.width
      h2 == IF y + img.height > dc.height THEN dc.height - y ELSE img.height
      copied(i, j) == w1 <= i /\ i < w2 /\ h1 <= j /\ j < h2
  IN  IF w1 < w2 /\ w2 <= img.width /\ h1 < h2 /\ h2 <= img.height
      THEN [dc EXCEPT !.body =
              [j \in DOMAIN dc.body |->
                 [i \in DOMAIN dc.body[j] |->
                    IF copied(i - x, j - y)
                    THEN img.body[j - y][i - x] ELSE dc.body[j][i]]]]
      ELSE dc

-----------------------------------------------------------------------------
\* A pair of bytes: a count and two pixels that take turns.
Pair(cnt, first, second) == [cnt |-> cnt, first |-> first, second |-> second]
EndOfLine == Pair(0, 0, 0)

\* How far the pixel at x goes on, a byte's worth at most.
RunFrom(row, w, x) ==
  CHOOSE n \in 1 .. w - x :
    /\ n <= BYTE_MAX /\ \A i \in x .. x + n - 1 : row[i] = row[x]
    /\ x + n = w \/ n = BYTE_MAX \/ row[x + n] # row[x]

\* One row: a run of one pixel, or else the next two whatever they are, of
\* which the second may lie past the end and is not counted.
Row(row, w) ==
  LET pairs[x \in 0 .. w + 1] ==
        IF x >= w THEN <<>>
        ELSE IF x + 1 < w /\ row[x] = row[x + 1]
        THEN <<Pair(RunFrom(row, w, x), row[x], row[x])>>
                \o pairs[x + RunFrom(row, w, x)]
        ELSE <<IF x + 1 < w THEN Pair(2, row[x], row[x + 1])
                            ELSE Pair(1, row[x], 0)>>
                \o pairs[x + 2]
  IN  pairs[0]

\* BMPRLE4To: the rows from the bottom up.
BMPRLE4To(dc) ==
  LET rows[y \in -1 .. dc.height - 1] ==
        IF y = -1 THEN <<>>
        ELSE Row(dc.body[y], dc.width) \o <<EndOfLine>> \o rows[y - 1]
  IN  [width |-> dc.width, height |-> dc.height, pairs |-> rows[dc.height - 1]]

-----------------------------------------------------------------------------
\* What a viewer makes of the file: the reference the encoder is held to.
Pixels(pair) == [i \in 1 .. pair.cnt |-> IF i % 2 = 1 THEN pair.first ELSE pair.second]

\* A pair goes on with the last line, or ends it.
Read(lines, pair) == IF pair.cnt = 0
                     THEN Append(lines, <<>>)
                     ELSE [lines EXCEPT ![Len(lines)] = @ \o Pixels(pair)]

Decoded(bmp) ==
  LET lines[n \in 0 .. Len(bmp.pairs)] ==
        IF n = 0 THEN << <<>> >> ELSE Read(lines[n - 1], bmp.pairs[n])
      all == lines[Len(bmp.pairs)]
  IN  [y \in 0 .. bmp.height - 1 |-> all[bmp.height - y]]

Shown(dc) == [y \in 0 .. dc.height - 1 |-> [x \in 1 .. dc.width |-> dc.body[y][x - 1]]]
=============================================================================
