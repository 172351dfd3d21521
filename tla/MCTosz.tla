------------------------------- MODULE MCTosz -------------------------------
(***************************************************************************)
(* Small instances of TOSZ: characters of one or two bits, codes of up to  *)
(* four, bytes of three; a screen of five by two points; days of eight     *)
(* ticks.                                                                  *)
(***************************************************************************)
EXTENDS Tosz

CONSTANT MaxText

MCShift == [n \in 0 .. ARC_MAX_BITS |-> 2^n]

MCWithoutZ(name) == IF name = "f.Z" THEN "f" ELSE name
MCEndsInZ(name) == name = "f.Z"

Nothing == [edition |-> "Linux", args |-> <<>>, text |-> <<>>, shots |-> <<>>,
            numbered |-> TRUE, notes |-> <<>>, snds |-> <<>>,
            files |-> [f \in {"f.Z", "f", "g", "h", "-bmp"} |-> Absent]]

\* Calls to expand a file.
ToExpand(t, args, kind) ==
  [Nothing EXCEPT !.args = args, !.text = t,
                  !.files["f.Z"] = [kind |-> kind, text |-> t],
                  !.files["g"] = Plain(<<0>>)]

\* Every short text, and texts long enough to use up the codes of the table,
\* in which old strings come back after their entries were given up.
ShortTexts == UNION {[1 .. n -> 0 .. 1] : n \in 0 .. MaxText}
WideTexts == UNION {[1 .. n -> 0 .. 3] : n \in 1 .. 4}
Repeated(word, n) == [at \in 1 .. n |-> word[1 + ((at - 1) % Len(word))]]
Irregular(a, b, n) == [at \in 1 .. n |-> ((a * at * at + b * at) \div 7) % 2]
LongTexts ==
  {Repeated(w, n) : w \in UNION {[1 .. m -> 0 .. 1] : m \in 1 .. 3}, n \in {30, 47}}
  \cup {Irregular(a, b, 60) : a \in 1 .. 4, b \in 0 .. 4}
  \cup {Repeated(<<0>>, 18) \o Repeated(<<1>>, 12) \o Repeated(<<0, 0, 1>>, 18),
        Repeated(<<0, 1, 1>>, 20) \o Repeated(<<0, 0, 1>>, 20),
        Repeated(<<3, 0, 2>>, 24) \o Repeated(<<3, 1>>, 12)}
  \cup {[at \in 1 .. 80 |-> IF at % 9 = 0 THEN 3 ELSE Irregular(a, 1, 80)[at]] : a \in 1 .. 4}
MCTexts == ShortTexts \cup WideTexts \cup LongTexts

ExpandJobs ==
  {ToExpand(t, <<"f.Z">>, "packed") : t \in MCTexts}
  \cup {ToExpand(t, args, kind) :
          t \in {<<>>, <<2, 1, 3, 1>>, <<1, 1>>},
          args \in {<<"f.Z", "g">>, <<"f.Z", "g", "h">>, <<"-ascii", "f.Z">>,
                    <<"-ascii", "f.Z", "g">>, <<"h">>},
          kind \in {"packed", "plain"}}
  \cup {Nothing, [Nothing EXCEPT !.args = <<"-ascii">>],
        [Nothing EXCEPT !.args = <<"-bmp", "VID.MV">>, !.edition = "Downloads"]}

\* "TOSZ f.Z g".
OutNameJobs == {ToExpand(<<0, 1>>, <<"f.Z", "g">>, "packed")}

\* "TOSZ f.Z" only, for every text.
EveryTextJobs == {ToExpand(t, <<"f.Z">>, "packed") : t \in ShortTexts}

-----------------------------------------------------------------------------
Image(rows) ==
  [width |-> Len(rows[1]), height |-> Len(rows),
   body |-> [y \in 0 .. Len(rows) - 1 |-> [x \in 0 .. Len(rows[1]) - 1 |-> rows[y + 1][x + 1]]]]

\* Parts of the screen: all of it, a point inside, one off the left upper
\* corner, one off the lower right, and one that is not on it.
Parts ==
  <<[x0 |-> 0, y0 |-> 0, img |-> Image(<<<<1, 1, 1, 1, 2>>, <<2, 1, 2, 2, 2>>>>)],
    [x0 |-> 3, y0 |-> 1, img |-> Image(<<<<3>>>>)],
    [x0 |-> -1, y0 |-> -1, img |-> Image(<<<<4, 4, 4>>, <<4, 5, 4>>>>)],
    [x0 |-> 3, y0 |-> 1, img |-> Image(<<<<6, 5, 6>>, <<6, 6, 6>>>>)],
    [x0 |-> 5, y0 |-> 0, img |-> Image(<<<<7>>, <<7>>>>)]>>

Shot(p, time) == [cdt |-> Date(time), x0 |-> Parts[p].x0,
                      y0 |-> Parts[p].y0, img |-> Parts[p].img]

\* The parts shown, and when; the day ends at tick 8.
Taken(which, times) == [n \in 1 .. Len(which) |-> Shot(which[n], times[n])]

ShortRecordings == {Taken(<<a, b>>, <<t, t + d>>) :
                      a, b \in 1 .. 5, t \in {0, 7}, d \in {0, 1, 9}}
LongRecordings == {Taken(<<1, b, 4, 2>>, <<4, 4 + d, 4 + d + e, 13>>) :
                      b \in {2, 3}, d \in {1, 3}, e \in {1, 4}}

Score3 == {<<[cdt |-> 5, ona |-> a], [cdt |-> 5 + d, ona |-> b],
             [cdt |-> 5 + d + e, ona |-> 9]>> : a, b \in {1, 9}, d, e \in {0, 1, 3}}
Scores == {<<>>, <<[cdt |-> 3, ona |-> 1]>>,
           <<[cdt |-> 0, ona |-> 1], [cdt |-> 12, ona |-> 2], [cdt |-> 13, ona |-> 9]>>}
          \cup Score3

VideoJobs ==
  {[Nothing EXCEPT !.args = <<"-bmp", "VID%03d.MV">>, !.shots = s] :
     s \in ShortRecordings \cup LongRecordings \cup {<<>>}}
  \cup {[Nothing EXCEPT !.args = <<"-bmp", "VID.MV">>, !.numbered = FALSE, !.shots = s] :
     s \in LongRecordings}
SoundJobs ==
  {[Nothing EXCEPT !.args = <<"-snd">>, !.snds = <<<<1, 2>>, <<3>>>>]}
FilmJobs ==
  {[Nothing EXCEPT !.edition = "Downloads", !.args = <<"-mp4">>, !.notes = n,
                   !.shots = Taken(<<1, 3>>, <<0, 4>>)] : n \in Scores}
  \cup {[Nothing EXCEPT !.edition = "Downloads", !.args = <<"-mp4">>,
                   !.notes = <<[cdt |-> 5, ona |-> 1], [cdt |-> 9, ona |-> 9]>>,
                   !.shots = s] : s \in LongRecordings \cup {<<>>}}
  \cup {[Nothing EXCEPT !.args = <<"-mp4">>, !.snds = <<<<1, 2>>, <<3>>>>,
                   !.shots = s] : s \in {<<>>, Taken(<<1, 2>>, <<6, 9>>)}}

MCJobs == ExpandJobs \cup VideoJobs \cup SoundJobs \cup FilmJobs

\* What another call finds: less than was there, or more.
MCRecordings ==
  {[shots |-> Taken(<<2, 1>>, <<0, 3>>),
    notes |-> <<[cdt |-> 0, ona |-> 2], [cdt |-> 3, ona |-> 9]>>],
   [shots |-> <<>>, notes |-> <<>>]}
=============================================================================
