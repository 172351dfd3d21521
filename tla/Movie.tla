-------------------------------- MODULE Movie -------------------------------
(***************************************************************************)
(* From screen shots to a video: GR2MV of TempleOS (Adam/Gr/ScrnCast.HC)   *)
(* merges the shots, each a part of the screen and the time it was taken,  *)
(* into MV files of limited size; MV2BMPLst of TOSZ plays the files and    *)
(* writes the screen to a BMP file at every tick of the frame rate, and    *)
(* has ffmpeg make a clip of every MV file and join the clips.             *)
(*                                                                         *)
(* BMP files lie in a directory per MV file until the end of the run; a    *)
(* run that is broken off leaves them to the next one.                     *)
(***************************************************************************)
EXTENDS Picture

CONSTANTS GR_WIDTH, GR_HEIGHT,
          GR_FILE_MAX, MV_FILE_MAX,  \* the sizes of a shot and of an MV file
          Day,          \* 1 << 32, what CDate.time counts up to
          FrameStep,    \* (DWORD)(CDATE_FREQ/fps)
          MaxLost       \* how many BMP files a call may fail to write

ASSUME MovieAssumption ==
  /\ GR_WIDTH \in Nat \ {0} /\ GR_HEIGHT \in Nat \ {0} /\ MaxLost \in Nat
  /\ GR_FILE_MAX \in Nat \ {0} /\ MV_FILE_MAX \in Nat /\ MV_FILE_MAX >= GR_FILE_MAX
  /\ FrameStep \in Nat \ {0} /\ Day \in Nat /\ Day > FrameStep

VARIABLES shots,       \* the GR files in the order they are merged
          dc_base,     \* the screen as the merging knows it
          shot,        \* how many were merged
          part, size,  \* the MV file in the making and its bytes
          movies,      \* the MV files
          vpc,
          edition,     \* which TOSZ.CPP
          numbered,    \* the name of the MV files has a number in it
          num, pos,    \* the MV file and the dc of it that is played
          base,        \* the screen as it is played
          clock,       \* cdt, the time of the next frame
          bmp_num,
          bmps,        \* TOSZTEMPnnn: for every MV file its BMP files
          wrote,       \* history: how many of them this run wrote
          lost,        \* history: how many it did not write, or not whole
          left,        \* history: files of a broken off run were there
          clips,       \* TOSZTEMPVIDnnn.MP4, named in the list
          video        \* what ffmpeg made of the list, if it could

recordVars == <<dc_base, shot, part, size, movies>>
playVars == <<num, pos, base, clock, bmp_num>>
fileVars == <<bmps, wrote, lost, clips, video>>
movieVars == <<shots, recordVars, vpc, edition, numbered, playVars, fileVars, left>>

Ticks(cdt) == cdt.date * Day + cdt.time
Date(ticks) == [date |-> ticks \div Day, time |-> ticks % Day]
Never == [date |-> -1, time |-> 0]    \* INT_MIN, LONG_LONG_MIN
NoVideo == <<>>

\* A number that no BMP file has, below one that some file has.
NoBmp == [width |-> 0, height |-> 0, pairs |-> <<>>]

\* Shots on the screen or off it, none taken before the one before it.
IsRecording(taken) ==
  /\ taken \in Seq(Range(taken))
  /\ \A n \in DOMAIN taken :
        /\ taken[n].cdt \in [date : Nat, time : 0 .. Day - 1]
        /\ taken[n].x0 \in Int /\ taken[n].y0 \in Int /\ IsPicture(taken[n].img)
  /\ \A m, n \in DOMAIN taken : m < n => Ticks(taken[m].cdt) <= Ticks(taken[n].cdt)

MovieInit(taken, of, many) ==
  /\ shots = taken
  /\ edition = of
  /\ numbered = many
  /\ dc_base = Blank(GR_WIDTH, GR_HEIGHT)
  /\ shot = 0 /\ part = <<>> /\ size = 0 /\ movies = <<>>
  /\ vpc = "merge"
  /\ num = 0 /\ pos = 0 /\ base = Blank(0, 0) /\ clock = Never /\ bmp_num = 0
  /\ bmps = <<>> /\ wrote = <<>> /\ lost = 0 /\ left = FALSE
  /\ clips = <<>> /\ video = NoVideo

-----------------------------------------------------------------------------
\* A shot may be as large as its limit, which is not reckoned with.
FaultyPartFull == size + 1 > MV_FILE_MAX

PartFull == size + GR_FILE_MAX > MV_FILE_MAX

\* The first dc of an MV file but the first is the whole screen.
FirstOfPart(dc) == [cdt |-> dc.cdt, x0 |-> 0, y0 |-> 0,
                    img |-> GrBlot(dc_base, dc.x0, dc.y0, dc.img)]

\* One turn of the loop of GR2MV.
MergeShot ==
  /\ vpc = "merge"
  /\ shot < Len(shots)
  /\ shot' = shot + 1
  /\ LET dc == shots[shot']
     IN  /\ dc_base' = GrBlot(dc_base, dc.x0, dc.y0, dc.img)
         /\ \E bytes \in 1 .. GR_FILE_MAX :
              IF PartFull
              THEN /\ movies' = Append(movies, part)
                   /\ part' = <<FirstOfPart(dc)>>
                   /\ size' = bytes
              ELSE /\ part' = Append(part, dc)
                   /\ size' = size + bytes
                   /\ UNCHANGED movies
  /\ UNCHANGED <<shots, vpc, edition, numbered, playVars, fileVars, left>>

MergeEnd ==
  /\ vpc = "merge"
  /\ shot = Len(shots)
  /\ movies' = IF part # <<>> THEN Append(movies, part) ELSE movies
  /\ part' = <<>>
  /\ vpc' = "open"
  /\ UNCHANGED <<shots, dc_base, shot, size, edition, numbered, playVars,
                 fileVars, left>>

-----------------------------------------------------------------------------
\* The head of the loop of MV2BMPLst; mkdir leaves a directory that is
\* already there as it is.
OpenMovie ==
  /\ vpc = "open"
  /\ num < Len(movies)
  /\ bmps' = IF num < Len(bmps) THEN bmps ELSE Append(bmps, <<>>)
  /\ base' = Blank(GR_WIDTH, GR_HEIGHT)
  /\ pos' = 1
  /\ bmp_num' = 0
  /\ vpc' = "load"
  /\ UNCHANGED <<shots, recordVars, edition, numbered, num, clock, wrote, lost,
                 clips, video, left>>

Drawn(dc) == GrBlot(base, dc.x0, dc.y0, dc.img)

\* DCLoad and GrBlot; the clock starts with the first dc of all.
LoadDC ==
  /\ vpc = "load"
  /\ pos <= Len(movies[num + 1])
  /\ LET dc == movies[num + 1][pos]
     IN  /\ base' = Drawn(dc)
         /\ clock' = IF clock = Never THEN dc.cdt ELSE clock
  /\ vpc' = "frames"
  /\ UNCHANGED <<shots, recordVars, edition, numbered, num, pos, bmp_num,
                 fileVars, left>>

\* A frame that ends the day carries one frame too late.
FaultyNextDate(cdt) ==
  [date |-> IF cdt.time > Day - FrameStep THEN cdt.date + 1 ELSE cdt.date,
   time |-> (cdt.time + FrameStep) % Day]

\* The two halves of the time apart, in 32 bits: DWORD_MAX is Day - 1.
NextDate(cdt) ==
  [date |-> IF cdt.time >= (Day - 1) - FrameStep + 1 THEN cdt.date + 1 ELSE cdt.date,
   time |-> (cdt.time + FrameStep) % Day]

\* The time in 64 bits.
Next64(cdt) == Date(Ticks(cdt) + FrameStep)

FrameDue == Ticks(clock) <= Ticks(movies[num + 1][pos].cdt)

Numbered(files_, n, file) ==
  IF n < Len(files_) THEN [files_ EXCEPT ![n + 1] = file] ELSE Append(files_, file)

\* What there is in the place of a BMP file when fopen fails, or when fwrite
\* takes a part of it: how large a part makes no difference.
Spoilt(files_, n, bmp) ==
  {IF n < Len(files_) THEN files_[n + 1] ELSE NoBmp, [bmp EXCEPT !.pairs = <<>>]}

BMPWrite(bmp) ==
  LET old == bmps[num + 1]
      write(file) == bmps' = [bmps EXCEPT ![num + 1] = Numbered(old, bmp_num, file)]
  IN  \/ write(bmp) /\ UNCHANGED lost
      \/ /\ lost < MaxLost
         /\ lost' = lost + 1
         /\ \E file \in Spoilt(old, bmp_num, bmp) : write(file)

\* The frame that is due.  Clock and number go on whatever came of it.
WriteFrame ==
  /\ vpc = "frames"
  /\ FrameDue
  /\ BMPWrite(BMPRLE4To(base))
  /\ clock' = IF edition = "Linux" THEN NextDate(clock) ELSE Next64(clock)
  /\ bmp_num' = bmp_num + 1
  /\ UNCHANGED <<shots, recordVars, vpc, edition, numbered, num, pos, base,
                 wrote, clips, video, left>>

FramesDone ==
  /\ vpc = "frames"
  /\ ~FrameDue
  /\ pos' = pos + 1
  /\ vpc' = "load"
  /\ UNCHANGED <<shots, recordVars, edition, numbered, num, base, clock, bmp_num,
                 fileVars, left>>

\* The end of an MV file: ffmpeg makes a clip of the BMP files in the
\* directory, counting from 0 as long as there is a next one, and the clip is
\* put on the list.
MakeClip ==
  /\ vpc = "load"
  /\ pos > Len(movies[num + 1])
  /\ \E n \in 0 .. Len(bmps[num + 1]) :
       /\ \A m \in 1 .. n : bmps[num + 1][m] # NoBmp
       /\ n < Len(bmps[num + 1]) => bmps[num + 1][n + 1] = NoBmp
       /\ clips' = Append(clips, SubSeq(bmps[num + 1], 1, n))
  /\ wrote' = Append(wrote, bmp_num)
  /\ num' = num + 1
  /\ vpc' = IF numbered THEN "open" ELSE "concat"
  /\ UNCHANGED <<shots, recordVars, edition, numbered, pos, base, clock, bmp_num,
                 bmps, lost, video, left>>

NoMoreMovies ==
  /\ vpc = "open"
  /\ num = Len(movies)
  /\ vpc' = "concat"
  /\ UNCHANGED <<shots, recordVars, edition, numbered, playVars, fileVars, left>>

Missing == {i \in 1 .. Len(clips) : clips[i] = <<>>}

\* ffmpeg makes no clip of no frames; a list with a clip missing it joins up
\* to there, or it makes nothing and leaves what had that name.  Then
\* rm -R TOSZTEMP*.
Concat ==
  /\ vpc = "concat"
  /\ IF num > 0 /\ Missing = {}
     THEN video' = clips
     ELSE video' \in {video} \cup {SubSeq(clips, 1, n) : n \in
                           {m \in 1 .. Len(clips) : \A i \in Missing : m < i}}
  /\ bmps' = <<>>
  /\ vpc' = "played"
  /\ UNCHANGED <<shots, recordVars, edition, numbered, playVars, wrote, lost, clips,
                 left>>

\* The run is broken off, and another converts another recording.
BreakOff(taken) ==
  /\ vpc \in {"open", "load", "frames", "concat", "played"}
  /\ shots' = taken
  /\ dc_base' = Blank(GR_WIDTH, GR_HEIGHT)
  /\ shot' = 0 /\ part' = <<>> /\ size' = 0 /\ movies' = <<>>
  /\ vpc' = "merge"
  /\ num' = 0 /\ pos' = 0 /\ base' = Blank(0, 0) /\ clock' = Never /\ bmp_num' = 0
  /\ wrote' = <<>> /\ lost' = 0 /\ clips' = <<>>
  /\ left' = (left \/ video # NoVideo \/ \E i \in 1 .. Len(bmps) : bmps[i] # <<>>)
  /\ UNCHANGED <<edition, numbered, bmps, video>>

GR2MV == MergeShot \/ MergeEnd

MV2BMPLst == OpenMovie \/ LoadDC \/ WriteFrame \/ FramesDone \/ MakeClip
               \/ NoMoreMovies \/ Concat

-----------------------------------------------------------------------------
\* The screen after n shots: of every point, what the last shot showed that
\* had it on it.
ScreenAfter(n) ==
  LET at(dc, x, y) == dc.img.body[y - dc.y0][x - dc.x0]
      has(dc, x, y) == /\ y - dc.y0 \in 0 .. dc.img.height - 1
                       /\ x - dc.x0 \in 0 .. dc.img.width - 1
      seen(x, y) == {k \in 1 .. n : has(shots[k], x, y)}
  IN  [y \in 0 .. GR_HEIGHT - 1 |->
         [x \in 1 .. GR_WIDTH |->
            IF seen(x - 1, y) = {} THEN 0
            ELSE at(shots[CHOOSE k \in seen(x - 1, y) :
                            \A j \in seen(x - 1, y) : j <= k], x - 1, y)]]

\* The frames of the recording: at every tick the screen as the first shot
\* showed it that was not taken before.
Recorded ==
  LET t(k) == Ticks(shots[k].cdt)
      first(time) == CHOOSE k \in 1 .. Len(shots) :
                       t(k) >= time /\ \A j \in 1 .. k - 1 : t(j) < time
  IN  IF shots = <<>> THEN <<>>
      ELSE [n \in 1 .. (t(Len(shots)) - t(1)) \div FrameStep + 1 |->
              ScreenAfter(first(t(1) + (n - 1) * FrameStep))]

Frames(clip, n) == [i \in 1 .. n |-> Decoded(clip[i])]

Played == FlattenSeq([i \in 1 .. Len(video) |-> Frames(video[i], wrote[i])])

\* The video shows the recording, unless a BMP file could not be written,
\* which BMPWrite does not tell: frame by frame the screen at that time,
\* across the ends of MV files and of days, with nothing left out; and it
\* stops short only where some MV file had no shot at any tick.  Whatever was
\* written, no clip has a picture too many, except that after a run that was
\* broken off it may go on with pictures of that one.
VideoShowsRecording ==
  vpc = "played" /\ numbered =>
    /\ lost = 0 /\ movies # <<>> /\ (\A i \in 1 .. Len(wrote) : wrote[i] > 0)
         => Len(video) = Len(wrote) /\ Played = Recorded
    /\ ~left => \A i \in 1 .. Len(video) : Len(video[i]) <= wrote[i]
    /\ lost = 0 /\ ~left => /\ \A i \in 1 .. Len(video) : Len(video[i]) = wrote[i]
                            /\ IsPrefix(Played, Recorded)
=============================================================================
