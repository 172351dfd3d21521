------------------------------ MODULE ToszProofs ------------------------------
(***************************************************************************)
(* TOSZ does nothing to an archive but what Archive describes, whatever    *)
(* else it does, so that all that is proved of archives holds of it; it    *)
(* loses no file; the sound track it makes is the score, and the video is  *)
(* the recording.                                                          *)
(***************************************************************************)
EXTENDS Tosz, ArchiveProofs

-----------------------------------------------------------------------------
\* TOSZ, with its other modes, its files and its broken-off calls, implements
\* the compressor and the expander: every step of its is one of theirs or
\* leaves all they work on alone.
THEOREM ToszImplementsArchive == Spec => ArchiveSpec
<1>1. ToszInit => ArchiveInit
  BY JobsAssumption DEF ToszInit, ArchiveInit
<1>2. [Next]_toszVars => [ArchiveNext]_archiveVars
  <2> SUFFICES ASSUME [Next]_toszVars
               PROVE  ArchiveNext \/ UNCHANGED archiveVars
    OBVIOUS
  <2>1. CASE Pack
    BY <2>1 DEF Pack, ArchiveNext
  <2>2. CASE Expand
    BY <2>2 DEF Expand, ArchiveNext
  <2>3. CASE Merge \/ Main \/ CvtFails \/ CvtWrite \/ RemoveInput
    BY <2>3 DEF Merge, Main, CvtFails, CvtWrite, RemoveInput
  <2>4. CASE PlayVideo \/ PlaySound \/ JoinFilm \/ Ends \/ Break
    BY <2>4 DEF PlayVideo, PlaySound, JoinFilm, Ends, Break
  <2>5. CASE UNCHANGED toszVars
    BY <2>5 DEF toszVars
  <2> QED
    BY <2>1, <2>2, <2>3, <2>4, <2>5 DEF Next
<1> QED
  BY <1>1, <1>2, PTL DEF Spec, ArchiveSpec

-----------------------------------------------------------------------------
\* What TOSZ is given has been compressed with a sound table, in codes wide
\* enough, each the only one for its string, and the search of a full table for
\* an entry to use again ended: ArcCompressBuf and ArcEntryGet, for every
\* text, every call and every interruption.
THEOREM ToszCompressorIsSound ==
  Spec => [](TableIsSound /\ WidthSuffices /\ OneMatch /\ LeafToGiveUp)
BY ToszImplementsArchive, CompressorTableIsSound, CodesFit, OnlyOneMatch,
   SearchEnds, PTL
\* All of it holds of TOSZ, whatever else it is called for and however often it is
\* broken off.
THEOREM ToszRoundTrips ==
  Spec => [](/\ RoundTrip /\ ReadsWhatWasWritten
             /\ ExpanderTableIsSound /\ StackFits)
BY ToszImplementsArchive, TextsComeBack, CodesAreReadAsWritten,
   BothTablesAreSound, StackStaysSmall, PTL
-----------------------------------------------------------------------------
\* Until something is written the files are those of the call, and what is then
\* written is the text, unless the disk took a part of it or the archive had a
\* byte too many.
FilesInv ==
  LET in == InName(job.args)
      made == files[OutName(job.args)] = Plain(Converted(job.args, text))
  IN  /\ job \in Jobs
      /\ Mode(job.edition, job.args) = "expand" =>
           /\ stage \in {"start", "expand", "okay", "exit"}
           /\ stage \in {"start", "expand"} => files = job.files
           /\ stage = "okay" /\ ~cut /\ ~Overran => made
           /\ stage = "okay" => DOMAIN files = DOMAIN job.files
           /\ stage = "exit" /\ ~cut /\ ~Overran => files[in] = job.files[in] \/ made
           /\ stage = "exit" => DOMAIN files = DOMAIN job.files

\* What is out in the end is the text.
LEMMA OutIsText ==
  ASSUME CompressorInv, RoundTrip, pc = "done", ~Overran
  PROVE  out = text
<1>1. text \in Seq(Chars) /\ out = SubSeq(text, 1, Len(out)) /\ Len(out) = Len(text)
  BY DEF CompressorInv, RoundTrip, Size
<1>2. SubSeq(text, 1, Len(text)) = text
  BY <1>1
<1> QED
  BY <1>1, <1>2

\* The name the output has when the input goes is not the input's.
LEMMA InputIsNotOutput ==
  ASSUME job \in Jobs, Mode(job.edition, job.args) = "expand", DelIn(job.args)
  PROVE  OutName(job.args) # InName(job.args)
BY FilesAssumption DEF DelIn, OutName, Arg

\* A step that leaves alone what the invariant is about.
LEMMA FilesAlone ==
  ASSUME FilesInv, UNCHANGED <<job, stage, files, cut>>,
         stage \in {"okay", "exit"} => text' = text /\ arc' = arc
  PROVE  FilesInv'
<1>1. job' = job /\ stage' = stage /\ files' = files /\ cut' = cut
  OBVIOUS
<1>2. stage \in {"okay", "exit"} => Overran' = Overran /\ text' = text
  BY DEF Overran, Size
<1> QED
  BY <1>1, <1>2 DEF FilesInv

\* Cvt writes what was expanded, all or a part of it, or nothing.
LEMMA WriteKeepsFiles ==
  ASSUME FilesInv, CompressorInv, RoundTrip, CvtWrite
  PROVE  FilesInv'
<1> PICK name : name = OutName(job.args)
  OBVIOUS
<1> PICK whole : whole = Converted(job.args, out)
  OBVIOUS
<1>1. /\ job' = job /\ text' = text /\ arc' = arc /\ pc = "done" /\ stage = "expand"
      /\ \/ files' = [files EXCEPT ![name] = Plain(whole)] /\ stage' = "okay"
         \/ /\ \E n \in 0 .. Len(whole) - 1 :
                  files' = [files EXCEPT ![name] = Plain(SubSeq(whole, 1, n))]
            /\ stage' = "okay" /\ cut' = TRUE
         \/ stage' = "exit" /\ files' = files /\ cut' = cut
  BY DEF CvtWrite, archiveVars
<1>2. Overran' = Overran
  BY <1>1 DEF Overran, Size
<1>3. job \in Jobs
  BY DEF FilesInv
<1>4. ASSUME Mode(job.edition, job.args) = "expand"
      PROVE  /\ files = job.files /\ name \in DOMAIN files
             /\ stage' = "okay" /\ ~cut' /\ ~Overran =>
                  files'[name] = Plain(Converted(job.args, text))
             /\ stage' \in {"okay", "exit"}
             /\ DOMAIN files' = DOMAIN files
             /\ stage' = "exit" => files' = files
  <2>1. files = job.files /\ name \in DOMAIN files
    BY <1>1, <1>3, <1>4, FilesAssumption DEF FilesInv
  <2>2. ~Overran => whole = Converted(job.args, text)
    BY <1>1, OutIsText
  <2> QED
    BY <1>1, <2>1, <2>2
<1> QED
  BY <1>1, <1>2, <1>3, <1>4 DEF FilesInv

\* What main removes is the input, and only after Cvt wrote another file.
LEMMA RemoveKeepsFiles ==
  ASSUME FilesInv, RemoveInput
  PROVE  FilesInv'
<1> PICK name, in : name = OutName(job.args) /\ in = InName(job.args)
  OBVIOUS
<1>1. /\ job' = job /\ text' = text /\ arc' = arc /\ cut' = cut
      /\ stage = "okay" /\ stage' = "exit"
      /\ files' = IF DelIn(job.args) THEN [files EXCEPT ![in] = Absent] ELSE files
  BY DEF RemoveInput, CvtSaidYes, archiveVars
<1>2. Overran' = Overran
  BY <1>1 DEF Overran, Size
<1>3. job \in Jobs
  BY DEF FilesInv
<1>4. ASSUME Mode(job.edition, job.args) = "expand"
      PROVE  files'[name] = files[name] /\ DOMAIN files' = DOMAIN files
  <2>1. DelIn(job.args) => name # in
    BY <1>3, <1>4, InputIsNotOutput
  <2> QED
    BY <1>1, <2>1
<1> QED
  BY <1>1, <1>2, <1>3, <1>4 DEF FilesInv

\* When TOSZ ends, the input is as it was or the output holds all of its text,
\* unless a write fell short or the archive had a byte too many: what Cvt
\* wrote before main removes the input is what had been compressed.
THEOREM NothingIsLost == Spec => []NothingLost
<1>1. ToszInit => FilesInv
  BY DEF ToszInit, FilesInv
<1>2. FilesInv /\ CompressorInv /\ RoundTrip /\ [Next]_toszVars => FilesInv'
  <2> SUFFICES ASSUME FilesInv, CompressorInv, RoundTrip, [Next]_toszVars
               PROVE  FilesInv'
    OBVIOUS
  <2>1. CASE Pack \/ Merge \/ Expand \/ PlayVideo \/ PlaySound
    <3>1. UNCHANGED <<job, stage, files, cut>> /\ stage \notin {"okay", "exit"}
      BY <2>1 DEF Pack, Merge, Expand, PlayVideo, PlaySound
    <3> QED
      BY <3>1, FilesAlone
  <2>2. CASE Main
    BY <2>2 DEF Main, FilesInv, archiveVars
  <2>3. CASE CvtFails
    BY <2>3 DEF CvtFails, FilesInv, archiveVars
  <2>4. CASE CvtWrite
    BY <2>4, WriteKeepsFiles
  <2>5. CASE RemoveInput
    BY <2>5, RemoveKeepsFiles
  <2>6. CASE JoinFilm \/ Ends \/ Break
    <3>1. job' = job /\ stage \in {"film", "video", "sound", "usage"}
      BY <2>6 DEF JoinFilm, Ends, Break
    <3> QED
      BY <3>1 DEF FilesInv
  <2>7. CASE UNCHANGED toszVars
    BY <2>7, FilesAlone DEF toszVars, archiveVars
  <2> QED
    BY <2>1, <2>2, <2>3, <2>4, <2>5, <2>6, <2>7 DEF Next
<1>3. FilesInv => NothingLost
  <2> SUFFICES ASSUME FilesInv, stage = "exit", Mode(job.edition, job.args) = "expand",
                      ~cut, ~Overran
               PROVE  \/ InFile = job.files[InName(job.args)]
                      \/ \E f \in DOMAIN files : files[f] = Plain(Converted(job.args, text))
    BY DEF NothingLost
  <2>1. OutName(job.args) \in DOMAIN files
    BY FilesAssumption DEF FilesInv
  <2> QED
    BY <2>1 DEF FilesInv, InFile
<1>4. Spec => []CompressorInv /\ []RoundTrip
  BY ToszImplementsArchive, CompressorCorrect, TextsComeBack, PTL
<1> QED
  BY <1>1, <1>2, <1>3, <1>4, PTL DEF Spec
-----------------------------------------------------------------------------
(***************************************************************************)
(* The sound.  The score is a sequence of samples, the buffer becomes it   *)
(* note by note, and the pieces are cut from a buffer whose front they     *)
(* overwrite.  The invariant says what stands in the buffer at every turn, *)
(* and whose the pieces are, as long as every one was written.             *)
(***************************************************************************)
\* How many files were not written.
Counted == lost \in 0 .. MaxLost /\ torn \in 0 .. MaxTorn

\* They are counted up to the bounds, anew in every call.
LEMMA CountedHolds == Spec => []Counted
<1>1. ToszInit => Counted
  BY MovieAssumption, SoundAssumption DEF ToszInit, MovieInit, SoundInit, Counted
<1>2. Counted /\ [Next]_toszVars => Counted'
  <2> SUFFICES ASSUME Counted, [Next]_toszVars PROVE Counted'
    OBVIOUS
  <2>1. lost' \in {lost, 0} \/ (lost < MaxLost /\ lost' = lost + 1)
    <3>1. CASE UNCHANGED movieVars
      BY <3>1 DEF movieVars, fileVars
    <3>2. CASE GR2MV
      BY <3>2 DEF GR2MV, MergeShot, MergeEnd, fileVars
    <3>3. CASE WriteFrame
      BY <3>3 DEF WriteFrame, BMPWrite
    <3>4. CASE OpenMovie \/ LoadDC \/ FramesDone \/ MakeClip \/ NoMoreMovies \/ Concat
      BY <3>4 DEF OpenMovie, LoadDC, FramesDone, MakeClip, NoMoreMovies, Concat, fileVars
    <3>5. CASE Break
      BY <3>5 DEF Break, BreakOff
    <3>6. \/ UNCHANGED movieVars \/ GR2MV \/ MV2BMPLst \/ Break
      BY DEF Next, Pack, Merge, Main, Expand, CvtFails, CvtWrite, RemoveInput, PlayVideo,
             PlaySound, JoinFilm, Ends, toszVars
    <3> QED
      BY <3>1, <3>2, <3>3, <3>4, <3>5, <3>6 DEF MV2BMPLst
  <2>2. torn' \in {torn, 0} \/ (torn < MaxTorn /\ torn' = torn + 1)
    <3>1. CASE UNCHANGED soundVars
      BY <3>1 DEF soundVars
    <3>2. CASE PlayVideo
      BY <3>2 DEF PlayVideo
    <3>3. CASE WritePiece
      BY <3>3 DEF WritePiece
    <3>4. CASE AURead \/ SndFileBegin \/ AddWave \/ WaveDone \/ PiecesDone \/ SND2MP4Lst
      BY <3>4 DEF AURead, SndFileBegin, AddWave, WaveDone, PiecesDone, SND2MP4Lst
    <3>5. CASE Break
      BY <3>5 DEF Break
    <3>6. UNCHANGED soundVars \/ PlayVideo \/ SoundStep \/ Break
      BY DEF Next, Pack, Merge, Main, Expand, CvtFails, CvtWrite, RemoveInput,
             PlaySound, JoinFilm, Ends, toszVars
    <3> QED
      BY <3>1, <3>2, <3>3, <3>4, <3>5, <3>6 DEF SoundStep
  <2>3. MaxLost \in Nat /\ MaxTorn \in Nat
    BY MovieAssumption, SoundAssumption
  <2> QED
    BY <2>1, <2>2, <2>3 DEF Counted
<1> QED
  BY <1>1, <1>2, PTL DEF Spec

\* The score as it is heard: in every sample the last note that had begun.
Score ==
  LET at(n) == Sample(notes[n].cdt - notes[1].cdt)
      last == Len(notes)
      begun(s) == {n \in 1 .. last : at(n) <= s}
      heard(s) == CHOOSE n \in begun(s) : \A m \in begun(s) : m <= n
  IN  IF notes = <<>> \/ notes[last].cdt = notes[1].cdt THEN <<>>
      ELSE [s \in 1 .. at(last) + 1 |->
              IF s = at(last) + 1 THEN Silence ELSE Ona2Freq(notes[heard(s - 1)].ona)]

\* The sample a note begins at, and whether the score takes any time.
Begins(n) == Sample(notes[n].cdt - notes[1].cdt)
Lasting == notes # <<>> /\ notes[Len(notes)].cdt # notes[1].cdt

\* The notes as AURead queues them.
Listed == list = [n \in 1 .. Len(notes) |->
                    [tS |-> notes[n].cdt - notes[1].cdt, ona |-> notes[n].ona]]

\* The n-th piece of the score; the last one may be shorter.
PieceLen(n) == IF n * SND_FILE_MAX <= Len(Score) THEN SND_FILE_MAX
               ELSE Len(Score) - (n - 1) * SND_FILE_MAX
Piece(n) == [s \in 1 .. PieceLen(n) |-> Score[(n - 1) * SND_FILE_MAX + s]]
Pieces(n) == [m \in 1 .. n |-> Piece(m)]

\* The pieces are this call's: the video has swept away the others, or there
\* is none.
Alone == vpc = "played" \/ Mode(job.edition, job.args) = "sound"

\* The notes before the next one are in the buffer, and after them silence.
Waving ==
  /\ Lasting
  /\ note \in 2 .. Len(notes) + 1
  /\ k = Begins(note - 1) /\ i = k
  /\ file_num = 0 /\ cnt2 = Len(Score)
  /\ body = [s \in 1 .. Len(Score) |-> IF s <= k THEN Score[s] ELSE Silence]

\* What is still to be written stands in the buffer where it was, although the
\* pieces before were copied to its front.
Cutting ==
  /\ Lasting
  /\ file_num \in Nat
  /\ file_num # 0 => (file_num - 1) * SND_FILE_MAX < Len(Score)
  /\ cnt2 = IF file_num * SND_FILE_MAX <= Len(Score)
            THEN Len(Score) - file_num * SND_FILE_MAX ELSE 0
  /\ DOMAIN body = 1 .. Len(Score)
  /\ body = [s \in DOMAIN body |-> body[s]]
  /\ \A s \in file_num * SND_FILE_MAX + 1 .. Len(Score) : body[s] = Score[s]
  /\ torn = 0 => snds = Pieces(file_num)

Whole == /\ Lasting
         /\ file_num \in Nat \ {0}
         /\ (file_num - 1) * SND_FILE_MAX < Len(Score)
         /\ Len(Score) <= file_num * SND_FILE_MAX
         /\ torn = 0 => snds = Pieces(file_num)

ScoreKnown == notes \in {played.notes : played \in Jobs \cup Recordings}

TuneInv ==
  /\ spc \in {"read", "create", "wave"} /\ Alone => snds = <<>>
  /\ spc # "read" => Alone
  /\ spc \in {"create", "wave"} => Listed
  /\ spc = "wave" => Waving
  /\ spc = "write" => Cutting
  /\ spc = "list" => Whole \/ (~Lasting /\ snds = <<>>)
  /\ spc = "heard" /\ Lasting /\ torn = 0 => FlattenSeq(audio) = Score

SoundInv ==
  /\ job \in Jobs
  /\ ScoreKnown
  /\ given \in {j.snds : j \in Jobs}
  /\ stage \in {"video", "sound", "film"} => Mode(job.edition, job.args) = stage
  /\ given # <<>> => /\ spc \in {"list", "heard"} /\ snds = given
                     /\ spc = "heard" => audio = given
  /\ given = <<>> => TuneInv

\* The sample of a time is the one it is in or, at a whole number of samples,
\* the one before.
LEMMA SampleIs ==
  ASSUME NEW x \in Nat
  PROVE  /\ Sample(x) \in Nat
         /\ CDATE_FREQ * Sample(x) <= x * SNDFILE_SAMPLE_RATE
         /\ x * SNDFILE_SAMPLE_RATE <= CDATE_FREQ * Sample(x) + CDATE_FREQ
         /\ x * SNDFILE_SAMPLE_RATE = CDATE_FREQ * Sample(x) + CDATE_FREQ => x \in Early
<1> PICK r \in Nat, f \in Nat : r = SNDFILE_SAMPLE_RATE /\ f = CDATE_FREQ /\ f > 0 /\ r > 0
  BY SoundAssumption
<1> PICK t \in Nat : t = x * r
  OBVIOUS
<1> PICK q \in Nat, m \in Nat : q = t \div f /\ m = t % f /\ t = f * q + m /\ m < f
  <2> DEFINE q == t \div f
             m == t % f
  <2>1. q \in Nat /\ m \in 0 .. f - 1 /\ t = f * q + m
    BY ONLY t \in Nat, f \in Nat, f > 0
  <2> QED
    BY <2>1
<1>1. CASE x \notin Early
  <2>1. Sample(x) = q
    BY <1>1 DEF Sample
  <2> PICK g \in Nat : g = f * q
    OBVIOUS
  <2>2. g <= t /\ t < g + f
    OBVIOUS
  <2> QED
    BY <2>1, <2>2
<1>2. CASE x \in Early
  <2>1. x > 0 /\ m = 0
    BY <1>2, SoundAssumption
  <2>2. Sample(x) = q - 1
    BY <1>2 DEF Sample
  <2>3. q # 0
    <3> SUFFICES ASSUME q = 0 PROVE FALSE
      OBVIOUS
    <3>1. t = 0
      BY <2>1
    <3>2. x * r >= 1 * r
      BY <2>1
    <3> QED
      BY <3>1, <3>2
  <2> PICK p \in Nat : q = p + 1
    <3>1. q - 1 \in Nat /\ q = (q - 1) + 1
      BY <2>3
    <3> QED
      BY <3>1
  <2>4. f * (p + 1) = f * p + f
    OBVIOUS
  <2> PICK g \in Nat : g = f * p
    OBVIOUS
  <2>5. t = g + f
    BY <2>1, <2>4
  <2>6. Sample(x) = p
    BY <2>2
  <2> QED
    BY <1>2, <2>5, <2>6
<1> QED
  BY <1>1, <1>2

\* A later tick is in no earlier sample.
LEMMA SampleMonotone ==
  ASSUME NEW x \in Nat, NEW y \in Nat, x <= y
  PROVE  Sample(x) \in Nat /\ Sample(y) \in Nat /\ Sample(x) <= Sample(y) /\ Sample(0) = 0
<1> PICK r \in Nat, f \in Nat : r = SNDFILE_SAMPLE_RATE /\ f = CDATE_FREQ /\ f > 0 /\ r > 0
  BY SoundAssumption
<1> PICK a \in Nat, b \in Nat : a = Sample(x) /\ b = Sample(y)
  BY SampleIs
<1> PICK p \in Nat, q \in Nat, g \in Nat, h \in Nat :
      p = x * r /\ q = y * r /\ g = f * a /\ h = f * b
  OBVIOUS
<1>1. g <= p /\ p <= g + f /\ h <= q /\ q <= h + f /\ (q = h + f => y \in Early)
      /\ (p = g + f => x \in Early)
  BY SampleIs
<1>2. x = y => a <= b
  BY ONLY a \in Nat, b \in Nat, a = Sample(x), b = Sample(y)
<1>3. ASSUME x < y PROVE a <= b
  <2>1. p < q
    <3>1. x + 1 <= y
      BY <1>3
    <3>2. (x + 1) * r <= y * r /\ (x + 1) * r = x * r + r
      BY <3>1
    <3> QED
      BY <3>2
  <2>2. g < h + f
    BY ONLY <1>1, <2>1, p \in Nat, q \in Nat, g \in Nat, h \in Nat, f \in Nat
  <2>3. a > b => f * a >= f * b + f
    <3> SUFFICES ASSUME a > b PROVE f * a >= f * (b + 1) /\ f * (b + 1) = f * b + f
      OBVIOUS
    <3> QED
      OBVIOUS
  <2>4. a > b => g >= h + f
    BY <2>3
  <2> QED
    BY ONLY <2>2, <2>4, a \in Nat, b \in Nat, g \in Nat, h \in Nat, f \in Nat
<1>4. Sample(0) = 0
  <2> PICK z \in Nat : z = Sample(0)
    BY SampleIs
  <2>1. 0 * r = 0 /\ f * z <= 0
    BY SampleIs
  <2>2. z >= 1 => f * z >= f * 1
    OBVIOUS
  <2> QED
    BY <2>1, <2>2
<1> QED
  BY <1>2, <1>3, <1>4

\* A score that a call may play.
LEMMA NotesFacts ==
  ASSUME ScoreKnown
  PROVE  /\ notes \in Seq(Range(notes)) /\ Len(notes) \in Nat /\ DOMAIN notes = 1 .. Len(notes)
         /\ notes # <<>> => Len(notes) >= 1
         /\ \A n \in 1 .. Len(notes) : notes[n].cdt \in Int
         /\ \A m, n \in 1 .. Len(notes) : m <= n => notes[m].cdt <= notes[n].cdt
<1>1. /\ notes \in Seq(Range(notes))
      /\ \A n \in DOMAIN notes : notes[n].cdt \in Int
      /\ \A m, n \in DOMAIN notes : m < n => notes[m].cdt <= notes[n].cdt
  BY ScoresAssumption DEF ScoreKnown
<1>2. Len(notes) \in Nat /\ DOMAIN notes = 1 .. Len(notes)
  BY <1>1, LenProperties
<1>3. notes # <<>> => Len(notes) >= 1
  BY <1>1, EmptySeq
<1>4. ASSUME NEW m \in 1 .. Len(notes), NEW n \in 1 .. Len(notes), m <= n
      PROVE  notes[m].cdt <= notes[n].cdt
  <2>1. CASE m = n
    BY <1>1, <1>2, <2>1
  <2>2. CASE m # n
    <3>1. m < n
      BY <1>2, <1>4, <2>2
    <3> QED
      BY <1>1, <1>2, <3>1
  <2> QED
    BY <2>1, <2>2
<1> QED
  BY <1>1, <1>2, <1>3, <1>4

\* No note begins in a sample before the one of the note before it.
LEMMA BeginsFacts ==
  ASSUME ScoreKnown, NEW m \in 1 .. Len(notes), NEW n \in 1 .. Len(notes), m <= n
  PROVE  /\ Begins(m) \in Nat /\ Begins(n) \in Nat /\ Begins(m) <= Begins(n)
         /\ Begins(1) = 0
<1>1. 1 \in 1 .. Len(notes) /\ 1 <= m
  BY NotesFacts
<1>2. /\ notes[1].cdt \in Int /\ notes[m].cdt \in Int /\ notes[n].cdt \in Int
      /\ notes[1].cdt <= notes[m].cdt /\ notes[m].cdt <= notes[n].cdt
  BY <1>1, NotesFacts
<1>4. \A u, v, w \in Int : u <= v /\ v <= w => /\ v - u \in Nat /\ w - u \in Nat
                                              /\ v - u <= w - u
  OBVIOUS
<1>5. /\ notes[m].cdt - notes[1].cdt \in Nat /\ notes[n].cdt - notes[1].cdt \in Nat
      /\ notes[m].cdt - notes[1].cdt <= notes[n].cdt - notes[1].cdt
  BY <1>2, <1>4, Zenon
<1> PICK x \in Nat, y \in Nat : /\ x = notes[m].cdt - notes[1].cdt
                                /\ y = notes[n].cdt - notes[1].cdt /\ x <= y
  BY <1>5, Zenon
<1>3. notes[1].cdt - notes[1].cdt = 0
  BY <1>2
<1> QED
  BY <1>3, SampleMonotone DEF Begins

\* Between the beginnings of two notes sounds the first of them, and the last
\* sample of all is silent.
LEMMA ScoreFacts ==
  ASSUME ScoreKnown, Lasting
  PROVE  /\ Len(Score) \in Nat /\ Len(Score) = Begins(Len(notes)) + 1
         /\ Score = [s \in 1 .. Len(Score) |-> Score[s]]
         /\ Score[Len(Score)] = Silence
         /\ \A n \in 1 .. Len(notes) - 1, s \in 1 .. Len(Score) :
              Begins(n) < s /\ s <= Begins(n + 1) => Score[s] = Ona2Freq(notes[n].ona)
<1> PICK last \in Nat : last = Len(notes) /\ last >= 1
  BY NotesFacts DEF Lasting
<1>1. last \in 1 .. Len(notes)
  OBVIOUS
<1>2. \A m, n \in 1 .. last : m <= n => Begins(m) <= Begins(n) /\ Begins(m) \in Nat /\ Begins(n) \in Nat
  BY BeginsFacts
<1> DEFINE N == Begins(last) + 1
           begun(s) == {n \in 1 .. last : Begins(n) <= s}
           heard(s) == CHOOSE n \in begun(s) : \A m \in begun(s) : m <= n
<1>3. N \in Nat
  BY <1>1, <1>2
<1>4. Score = [s \in 1 .. N |-> IF s = N THEN Silence ELSE Ona2Freq(notes[heard(s - 1)].ona)]
  BY DEF Score, Begins, Lasting
<1>5. DOMAIN Score = 1 .. N /\ Len(Score) = N
  BY <1>3, <1>4
<1>6. Score[N] = Silence
  <2>1. N \in 1 .. N
    BY <1>1, <1>2
  <2> HIDE DEF N
  <2> QED
    BY <1>4, <2>1
<1>7. ASSUME NEW n \in 1 .. last - 1, NEW s \in 1 .. N, Begins(n) < s, s <= Begins(n + 1)
      PROVE  Score[s] = Ona2Freq(notes[n].ona)
  <2>1. n \in 1 .. last /\ n + 1 \in 1 .. last /\ n <= n + 1 /\ n + 1 <= last
    BY <1>7
  <2>2. /\ Begins(n) \in Nat /\ Begins(n + 1) \in Nat /\ Begins(last) \in Nat
        /\ Begins(n + 1) <= Begins(last)
    BY <1>1, <1>2, <2>1
  <2>3. s # N
    BY <1>7, <2>2
  <2>4. n \in begun(s - 1)
    BY <1>7, <2>1, <2>2
  <2>5. \A m \in begun(s - 1) : m <= n
    <3> SUFFICES ASSUME NEW m \in 1 .. last, Begins(m) <= s - 1, ~(m <= n) PROVE FALSE
      OBVIOUS
    <3>1. n + 1 <= m
      BY <2>1
    <3>2. Begins(n + 1) <= Begins(m) /\ Begins(m) \in Nat
      BY <1>2, <2>1, <3>1
    <3> QED
      BY <1>7, <2>2, <3>2
  <2>6. heard(s - 1) = n
    <3>1. \A x, y \in begun(s - 1) : x <= y /\ y <= x => x = y
      OBVIOUS
    <3> HIDE DEF begun
    <3>2. heard(s - 1) \in begun(s - 1) /\ \A m \in begun(s - 1) : m <= heard(s - 1)
      BY <2>4, <2>5
    <3> QED
      BY <2>4, <2>5, <3>1, <3>2
  <2> HIDE DEF N, heard
  <2> QED
    BY <1>4, <2>3, <2>6
<1>8. Score = [s \in 1 .. N |-> Score[s]]
  <2> HIDE DEF N, heard
  <2> QED
    BY <1>4
<1> QED
  BY <1>3, <1>5, <1>6, <1>7, <1>8

\* So the score has every note in its sample, or in the one before.
LEMMA ScoreFollows ==
  ASSUME ScoreKnown, Lasting
  PROVE  FollowsScore(Score)
<1> PICK R \in Nat, F \in Nat : R = SNDFILE_SAMPLE_RATE /\ F = CDATE_FREQ
  BY SoundAssumption
<1> PICK last \in Nat : last = Len(notes) /\ last >= 1 /\ last \in 1 .. last
  BY NotesFacts DEF Lasting
<1>1. ASSUME NEW n \in 1 .. last
      PROVE  /\ Begins(n) \in Nat /\ Starts(n) \in Nat
             /\ Begins(n) * F <= Starts(n) /\ Starts(n) <= Begins(n) * F + F
  <2>1. 1 \in 1 .. last /\ 1 <= n
    OBVIOUS
  <2> PICK x \in Nat : x = notes[n].cdt - notes[1].cdt
    BY <2>1, NotesFacts
  <2> PICK b \in Nat : b = Begins(n) /\ b = Sample(x)
    BY SampleIs DEF Begins
  <2>2. F * b <= x * R /\ x * R <= F * b + F
    BY SampleIs
  <2>3. Starts(n) = x * R /\ F * b = b * F
    BY DEF Starts
  <2> QED
    BY <2>2, <2>3
<1> PICK N \in Nat : N = Len(Score) /\ N = Begins(last) + 1
  BY ScoreFacts
<1>2. N > 0 /\ Score[N] = Silence
  BY <1>1, ScoreFacts
<1>3. (N - 1) * F <= Takes /\ Takes <= N * F
  <2> PICK b \in Nat : b = Begins(last) /\ N - 1 = b /\ N = b + 1
    BY <1>1
  <2>1. Takes = Starts(last)
    BY DEF Takes, Lasting
  <2>2. (b + 1) * F = b * F + F
    OBVIOUS
  <2> QED
    BY <1>1, <2>1, <2>2
<1> DEFINE begun(s) == {n \in 1 .. last : Begins(n) <= s}
           heard(s) == CHOOSE n \in begun(s) : \A m \in begun(s) : m <= n
<1>4. Score = [s \in 1 .. N |-> IF s = N THEN Silence ELSE Ona2Freq(notes[heard(s - 1)].ona)]
  <2> DEFINE K == Begins(last) + 1
  <2>1. Score = [s \in 1 .. K |-> IF s = K THEN Silence ELSE Ona2Freq(notes[heard(s - 1)].ona)]
    BY DEF Score, Begins, Lasting
  <2>2. K = N
    OBVIOUS
  <2> HIDE DEF K, heard
  <2> QED
    BY <2>1, <2>2
<1>5. ASSUME NEW s \in 1 .. N - 1 PROVE Score[s] \in Heard(s)
  <2>1. s - 1 \in Nat /\ s # N /\ s \in 1 .. N /\ s \in Nat
    OBVIOUS
  <2>2. 1 \in begun(s - 1)
    BY <2>1, BeginsFacts
  <2> PICK h \in begun(s - 1) : h = heard(s - 1) /\ \A m \in begun(s - 1) : m <= h
    <3>1. begun(s - 1) \in SUBSET (1 .. last) /\ begun(s - 1) # {}
      BY <2>2
    <3> PICK top \in begun(s - 1) : \A m \in begun(s - 1) : m <= top
      <4>1. begun(s - 1) \in SUBSET Nat /\ \A m \in begun(s - 1) : m <= last
        OBVIOUS
      <4> HIDE DEF begun
      <4> QED
        BY <3>1, <4>1, MaxInSet
    <3> HIDE DEF begun
    <3> QED
      OBVIOUS
  <2> HIDE DEF heard
  <2>3. h \in 1 .. last /\ Begins(h) <= s - 1
    OBVIOUS
  <2>4. Starts(h) <= s * F
    <3> PICK b \in Nat : b = Begins(h) /\ b + 1 <= s
      BY <1>1, <2>1, <2>3
    <3>1. (b + 1) * F <= s * F /\ (b + 1) * F = b * F + F
      BY ONLY b \in Nat, b + 1 <= s, s \in Nat, F \in Nat
    <3>2. Starts(h) \in Nat /\ Starts(h) <= b * F + F
      BY <1>1, <2>3
    <3> PICK x \in Nat, y \in Nat, u \in Nat : x = b * F + F /\ y = s * F /\ u = (b + 1) * F
      <4>1. s \in Nat
        BY <2>1
      <4>2. b * F + F \in Nat /\ s * F \in Nat /\ (b + 1) * F \in Nat
        BY ONLY <4>1, b \in Nat, F \in Nat
      <4> QED
        BY <4>2, Zenon
    <3> PICK z \in Nat : z = Starts(h)
      BY <3>2, Zenon
    <3>3. u <= y /\ u = x /\ z <= x
      BY <3>1, <3>2, Zenon
    <3>4. z <= y
      BY ONLY <3>3, x \in Nat, y \in Nat, u \in Nat, z \in Nat
    <3> QED
      BY <3>4, Zenon
  <2>5. ASSUME NEW later \in h + 1 .. last PROVE Starts(later) >= s * F
    <3>1. later \in 1 .. last /\ ~(later <= h)
      BY <2>3
    <3>2. later \notin begun(s - 1)
      BY <3>1
    <3> PICK b \in Nat : b = Begins(later) /\ s <= b
      BY <1>1, <2>1, <3>1, <3>2
    <3>3. s * F <= b * F
      BY ONLY b \in Nat, s <= b, s \in Nat, F \in Nat
    <3>4. Starts(later) \in Nat /\ b * F <= Starts(later)
      BY <1>1, <3>1
    <3> PICK x \in Nat : x = s * F
      BY ONLY s \in Nat, F \in Nat
    <3> PICK y \in Nat : y = b * F
      BY ONLY b \in Nat, F \in Nat
    <3> PICK z \in Nat : z = Starts(later)
      BY <3>4, Zenon
    <3>5. x <= y /\ y <= z
      BY <3>3, <3>4, Zenon
    <3>6. z >= x
      BY ONLY <3>5, x \in Nat, y \in Nat, z \in Nat
    <3> QED
      BY <3>6, Zenon
  <2>6. Score[s] = Ona2Freq(notes[h].ona)
    BY <1>4, <2>1
  <2> QED
    BY <2>3, <2>4, <2>5, <2>6 DEF Heard
<1> QED
  BY <1>2, <1>3, <1>5 DEF FollowsScore

\* A score that takes no time has no sample.
LEMMA TakesTime == ASSUME ScoreKnown, Takes # 0 PROVE Lasting
<1> SUFFICES ASSUME notes # <<>>, notes[Len(notes)].cdt = notes[1].cdt PROVE FALSE
  BY DEF Takes, Lasting
<1>1. 1 \in 1 .. Len(notes)
  BY NotesFacts
<1>2. notes[1].cdt - notes[1].cdt = 0
  BY <1>1, NotesFacts
<1>3. 0 * SNDFILE_SAMPLE_RATE = 0
  BY SoundAssumption
<1> QED
  BY <1>2, <1>3 DEF Takes, Starts

\* What is defined by the notes alone stays when they do.
LEMMA ScoreStays ==
  ASSUME notes' = notes
  PROVE  /\ Score' = Score /\ Lasting' = Lasting
         /\ \A n : Begins(n)' = Begins(n)
         /\ \A n : Pieces(n)' = Pieces(n)
BY DEF Score, Lasting, Begins, Pieces, Piece, PieceLen

\* AURead queues the notes as they are.
LEMMA ReadTune ==
  ASSUME TuneInv, Alone, Alone', AURead
  PROVE  TuneInv'
<1>1. /\ spc = "read" /\ spc' = "create" /\ snds' = snds /\ notes' = notes
      /\ Listed'
  BY DEF AURead, Listed
<1> QED
  BY <1>1 DEF TuneInv

\* What is in the queue.
LEMMA ListedFacts ==
  ASSUME ScoreKnown, Listed
  PROVE  /\ Len(list) = Len(notes) /\ (list = <<>> <=> notes = <<>>)
         /\ \A n \in 1 .. Len(notes) : /\ Sample(list[n].tS) = Begins(n)
                                       /\ list[n].ona = notes[n].ona
         /\ Lasts = 0 <=> ~Lasting
         /\ Lasting => Sample(Lasts) = Begins(Len(notes))
<1> PICK last \in Nat : last = Len(notes) /\ (notes # <<>> => last >= 1)
  BY NotesFacts
<1>1. /\ Len(list) = last /\ DOMAIN list = 1 .. last
      /\ \A n \in 1 .. last : /\ list[n].tS = notes[n].cdt - notes[1].cdt
                              /\ list[n].ona = notes[n].ona
  BY DEF Listed
<1>2. \A n \in 1 .. last : notes[n].cdt \in Int
  BY NotesFacts
<1>3. list = <<>> <=> notes = <<>>
  <2>1. list = <<>> => last = 0
    BY <1>1
  <2>2. notes = <<>> => last = 0
    OBVIOUS
  <2>3. last = 0 => list = <<>>
    BY DEF Listed
  <2> QED
    BY <2>1, <2>2, <2>3
<1>4. ASSUME notes # <<>>
      PROVE  Lasts = notes[last].cdt - notes[1].cdt
  <2>1. 1 \in 1 .. last /\ last \in 1 .. last
    BY <1>4
  <2>2. Lasts = list[last].tS - list[1].tS
    BY <1>1, <1>3, <1>4 DEF Lasts
  <2>3. list[1].tS = 0
    BY <1>1, <1>2, <2>1
  <2> QED
    BY <1>1, <1>2, <2>1, <2>2, <2>3
<1>5. notes = <<>> => Lasts = 0
  BY <1>3 DEF Lasts
<1>6. Lasts = 0 <=> ~Lasting
  <2>1. CASE notes = <<>>
    BY <1>5, <2>1 DEF Lasting
  <2>2. CASE notes # <<>>
    <3>1. 1 \in 1 .. last /\ last \in 1 .. last
      BY <2>2
    <3>2. notes[1].cdt \in Int /\ notes[last].cdt \in Int
      BY <1>2, <3>1
    <3>3. Lasts = notes[last].cdt - notes[1].cdt
      BY <1>4, <2>2
    <3> QED
      BY <2>2, <3>2, <3>3 DEF Lasting
  <2> QED
    BY <2>1, <2>2
<1>7. Lasting => Sample(Lasts) = Begins(last)
  BY <1>4 DEF Lasting, Begins
<1> QED
  BY <1>1, <1>3, <1>6, <1>7 DEF Begins

\* The buffer begins as silence, as long as the score.
LEMMA BeginTune ==
  ASSUME ScoreKnown, TuneInv, Alone, Alone', SndFileBegin
  PROVE  TuneInv'
<1>1. /\ spc = "create" /\ snds' = snds /\ snds = <<>> /\ Listed
      /\ notes' = notes /\ k' = 0 /\ note' = 2 /\ file_num' = 0
  BY DEF SndFileBegin, TuneInv
<1>2. CASE Lasts = 0
  <2>1. spc' = "list" /\ ~Lasting'
    BY <1>1, <1>2, ListedFacts, ScoreStays DEF SndFileBegin
  <2> QED
    BY <1>1, <2>1 DEF TuneInv
<1>3. CASE Lasts # 0
  <2>1. /\ list' = list /\ spc' = "wave" /\ cnt2' = Count /\ i' = Sample(list[1].tS)
        /\ body' = [n \in 1 .. Count |-> Silence]
    BY <1>3 DEF SndFileBegin
  <2>2. Lasting /\ Len(notes) \in Nat /\ Len(notes) >= 1
    BY <1>1, <1>3, ListedFacts, NotesFacts DEF Lasting
  <2>3. Count = Len(Score) /\ Len(Score) \in Nat
    BY <1>1, <2>2, ListedFacts, ScoreFacts DEF Count
  <2>4. 1 \in 1 .. Len(notes) /\ Begins(1) = 0
    BY <2>2, BeginsFacts
  <2>5. i' = 0
    BY <1>1, <2>1, <2>4, ListedFacts
  <2>6. body' = [s \in 1 .. Len(Score) |-> IF s <= 0 THEN Score[s] ELSE Silence]
    BY <2>1, <2>3
  <2>7. Waving'
    <3>1. note' - 1 = 1 /\ note' \in 2 .. Len(notes) + 1
      BY <1>1, <2>2
    <3> QED
      BY <1>1, <2>1, <2>2, <2>3, <2>4, <2>5, <2>6, <3>1, ScoreStays DEF Waving
  <2>8. Listed'
    BY <1>1, <2>1 DEF Listed
  <2> QED
    BY <1>1, <2>1, <2>7, <2>8 DEF TuneInv
<1> QED
  BY <1>2, <1>3

\* A note sounds until the next one begins; there is always room for it.
LEMMA WaveTune ==
  ASSUME ScoreKnown, TuneInv, Alone, Alone', AddWave
  PROVE  TuneInv'
<1>1. /\ spc = "wave" /\ spc' = spc /\ snds' = snds /\ snds = <<>> /\ Listed /\ Waving
      /\ notes' = notes /\ list' = list /\ note' = note + 1 /\ note <= Len(list)
      /\ file_num' = file_num /\ cnt2' = cnt2
  BY DEF AddWave, TuneInv
<1> PICK last \in Nat : last = Len(notes) /\ last >= 1
  BY <1>1, NotesFacts DEF Waving, Lasting
<1> PICK m \in 1 .. last : note = m + 1 /\ m + 1 \in 1 .. last
  <2>1. note \in 2 .. last + 1 /\ note <= last
    BY <1>1, ListedFacts DEF Waving
  <2>2. note - 1 \in 1 .. last /\ note = (note - 1) + 1
    BY <2>1
  <2> QED
    BY <2>1, <2>2
<1> PICK N \in Nat : N = Len(Score)
  BY <1>1, ScoreFacts DEF Waving
<1> PICK b0, b1 : b0 = Begins(m) /\ b1 = Begins(m + 1)
  OBVIOUS
<1>2. /\ b0 \in Nat /\ b1 \in Nat /\ b0 <= b1 /\ b1 < N
  <2>1. m <= m + 1 /\ m + 1 <= last /\ last \in 1 .. last
    OBVIOUS
  <2>2. /\ b0 \in Nat /\ b1 \in Nat /\ b0 <= b1 /\ b1 <= Begins(last) /\ Begins(last) \in Nat
    BY <2>1, BeginsFacts
  <2>3. N = Begins(last) + 1
    BY <1>1, ScoreFacts DEF Waving
  <2> QED
    BY <2>2, <2>3
<1>3. /\ k = b0 /\ i = b0 /\ note - 1 = m
      /\ body = [s \in 1 .. N |-> IF s <= b0 THEN Score[s] ELSE Silence]
  <2>1. note - 1 = m
    OBVIOUS
  <2> QED
    BY <1>1, <2>1 DEF Waving
<1>4. Len(body) = N /\ DOMAIN body = 1 .. N
  BY <1>3
<1>5. Sample(list[note].tS) = b1 /\ Sounding = notes[m].ona
  <2>1. note - 1 = m
    OBVIOUS
  <2> QED
    BY <1>1, <2>1, ListedFacts DEF Sounding
<1>6. ASSUME NEW s \in 1 .. N, b0 < s, s <= b1
      PROVE  Score[s] = Ona2Freq(notes[m].ona)
  <2>1. m \in 1 .. Len(notes) - 1
    OBVIOUS
  <2> QED
    BY <1>1, <1>6, <2>1, ScoreFacts DEF Waving
<1>7. /\ k' = b1 /\ i' = b1
      /\ body' = [s \in 1 .. N |-> IF s <= b1 THEN Score[s] ELSE Silence]
  <2>1. CASE b1 = b0
    <3>1. ~(b1 - b0 > 0)
      BY <1>2, <2>1
    <3>2. UNCHANGED <<body, k, i>>
      BY <1>3, <1>5, <3>1 DEF AddWave
    <3> QED
      BY <1>3, <2>1, <3>2
  <2>2. CASE b1 # b0
    <3>1. b1 - b0 > 0 /\ ~(b1 - b0 > N - b0) /\ b1 - b0 \in Nat
      BY <1>2, <2>2
    <3>2. /\ body' = SndWaveAddBuf(body, b0, b1 - b0, Ona2Freq(Sounding))
          /\ k' = b0 + (b1 - b0) /\ i' = b0 + (b1 - b0)
      BY <1>3, <1>4, <1>5, <3>1 DEF AddWave
    <3>3. b0 + (b1 - b0) = b1
      BY <1>2
    <3> PICK freq : freq = Ona2Freq(notes[m].ona)
      OBVIOUS
    <3>4. body' = [s \in 1 .. N |-> IF s <= b1 THEN Score[s] ELSE Silence]
      <4>1. CASE freq = Silence
        <5>1. body' = body
          BY <1>5, <3>2, <4>1 DEF SndWaveAddBuf
        <5>2. \A s \in 1 .. N : (IF s <= b0 THEN Score[s] ELSE Silence)
                                  = (IF s <= b1 THEN Score[s] ELSE Silence)
          BY <1>2, <1>6, <4>1
        <5> QED
          BY <1>3, <5>1, <5>2
      <4>2. CASE freq # Silence
        <5>1. body' = [s \in 1 .. N |-> IF b0 < s /\ s <= b1 THEN freq ELSE body[s]]
          BY <1>4, <1>5, <3>2, <3>3, <4>2 DEF SndWaveAddBuf
        <5>2. \A s \in 1 .. N : (IF b0 < s /\ s <= b1 THEN freq ELSE body[s])
                                  = (IF s <= b1 THEN Score[s] ELSE Silence)
          BY <1>2, <1>3, <1>6
        <5> QED
          BY <5>1, <5>2
      <4> QED
        BY <4>1, <4>2
    <3> QED
      BY <3>2, <3>3, <3>4
  <2> QED
    BY <2>1, <2>2
<1>8. Waving'
  <2>1. note' - 1 = m + 1 /\ note' \in 2 .. last + 1
    BY <1>1
  <2> QED
    BY <1>1, <1>7, <2>1, ScoreStays DEF Waving
<1>9. Listed'
  BY <1>1 DEF Listed
<1> QED
  BY <1>1, <1>8, <1>9 DEF TuneInv

\* With the last note's silence the buffer is the score.
LEMMA DoneTune ==
  ASSUME ScoreKnown, TuneInv, Alone, Alone', WaveDone
  PROVE  TuneInv'
<1>1. /\ spc = "wave" /\ spc' = "write" /\ snds' = snds /\ snds = <<>> /\ Listed /\ Waving
      /\ notes' = notes /\ ~(note <= Len(list))
      /\ file_num' = file_num /\ cnt2' = cnt2 /\ body' = [body EXCEPT ![Len(body)] = Silence]
      /\ torn' = torn
  <2>1. Waving /\ Listed
    BY DEF WaveDone, TuneInv
  <2>2. note \in Nat /\ Len(list) \in Nat
    BY <2>1, NotesFacts, ListedFacts DEF Waving
  <2> QED
    BY <2>1, <2>2 DEF WaveDone, TuneInv
<1> PICK last \in Nat : last = Len(notes) /\ last >= 1
  BY <1>1, NotesFacts DEF Waving, Lasting
<1> PICK N \in Nat : N = Len(Score)
  BY <1>1, ScoreFacts DEF Waving
<1>2. note - 1 = last
  BY <1>1, ListedFacts DEF Waving
<1>3. k = N - 1 /\ N \in 1 .. N
  <2>1. last \in 1 .. Len(notes)
    OBVIOUS
  <2>2. N = Begins(last) + 1 /\ Begins(last) \in Nat
    BY <1>1, <2>1, ScoreFacts, BeginsFacts DEF Waving
  <2> QED
    BY <1>1, <1>2, <2>2 DEF Waving
<1>4. body = [s \in 1 .. N |-> IF s <= N - 1 THEN Score[s] ELSE Silence]
  BY <1>1, <1>3 DEF Waving
<1>5. body' = [s \in 1 .. N |-> Score[s]]
  <2>1. Len(body) = N
    BY <1>4
  <2>2. Score[N] = Silence
    BY <1>1, ScoreFacts DEF Waving
  <2>3. body' = [s \in 1 .. N |-> IF s = N THEN Silence ELSE body[s]]
    BY <1>1, <1>4, <2>1
  <2>4. \A s \in 1 .. N : (IF s = N THEN Silence ELSE body[s]) = Score[s]
    BY <1>4, <2>2
  <2> QED
    BY <2>3, <2>4
<1>6. file_num' = 0 /\ cnt2' = N /\ Lasting
  BY <1>1 DEF Waving
<1>7. snds' = Pieces(0)
  BY <1>1 DEF Pieces
<1>8. Cutting'
  <2>1. 0 * SND_FILE_MAX = 0
    BY SoundAssumption
  <2>2. DOMAIN body' = 1 .. N /\ body' = [s \in DOMAIN body' |-> body'[s]]
        /\ \A s \in 1 .. N : body'[s] = Score[s]
    BY <1>5
  <2> QED
    BY <1>1, <1>6, <1>7, <2>1, <2>2, ScoreStays DEF Cutting
<1> QED
  BY <1>1, <1>8 DEF TuneInv

\* The piece that is copied to the front is the next of the score: the pieces
\* before were copied over what had been written.
LEMMA PieceTune ==
  ASSUME ScoreKnown, Counted, TuneInv, Alone, Alone', WritePiece
  PROVE  TuneInv'
<1>1. /\ spc = "write" /\ spc' = spc /\ Cutting /\ Lasting /\ notes' = notes /\ cnt2 > 0
      /\ file_num' = file_num + 1 /\ file_num \in Nat
  BY DEF WritePiece, TuneInv, Cutting
<1> PICK f \in Nat, M \in Nat : f = file_num /\ M = SND_FILE_MAX /\ M > 0
  BY <1>1, SoundAssumption
<1> PICK p \in Nat : p = f * M /\ (f + 1) * M = p + M /\ PieceAt = p
  BY DEF PieceAt
<1> PICK N \in Nat : N = Len(Score)
  BY <1>1, ScoreFacts
<1> PICK n : n = IF cnt2 > M THEN M ELSE cnt2
  OBVIOUS
<1> PICK rest : rest = cnt2
  OBVIOUS
<1>2. /\ p < N /\ rest = N - p /\ n \in 1 .. M /\ p + n <= N
      /\ n = IF p + M <= N THEN M ELSE N - p
  <2>1. rest = IF p <= N THEN N - p ELSE 0
    BY <1>1 DEF Cutting
  <2>2. rest > 0 /\ n = IF rest > M THEN M ELSE rest
    BY <1>1
  <2>3. p < N /\ rest = N - p
    BY ONLY <2>1, <2>2, p \in Nat, N \in Nat
  <2>4. n \in 1 .. M /\ p + n <= N /\ n = IF p + M <= N THEN M ELSE N - p
    BY ONLY <2>2, <2>3, p \in Nat, N \in Nat, M \in Nat, M > 0
  <2> QED
    BY <2>3, <2>4
<1>3. /\ DOMAIN body = 1 .. N /\ Len(body) = N
      /\ \A s \in p + 1 .. N : body[s] = Score[s]
  <2>1. DOMAIN body = 1 .. N /\ body = [s \in DOMAIN body |-> body[s]]
        /\ \A s \in p + 1 .. N : body[s] = Score[s]
    BY <1>1 DEF Cutting
  <2> QED
    BY <2>1
<1>4. /\ body' = [s \in 1 .. N |-> IF s <= n THEN body[p + s] ELSE body[s]]
      /\ torn' = 0 => torn = 0 /\ snds' = Replaced(snds, f, SubSeq(body', 1, n))
      /\ cnt2' = rest - n
  <2>1. torn \in Nat
    BY SoundAssumption DEF Counted
  <2>2. /\ body' = [s \in 1 .. N |-> IF s <= n THEN body[p + s] ELSE body[s]]
        /\ cnt2' = rest - n
        /\ \/ snds' = Replaced(snds, f, SubSeq(body', 1, n)) /\ torn' = torn
           \/ torn' = torn + 1
    BY <1>3 DEF WritePiece
  <2> QED
    BY <2>1, <2>2
<1>5. \A s \in (p + M) + 1 .. N : body'[s] = Score[s]
  <2> SUFFICES ASSUME NEW s \in (p + M) + 1 .. N PROVE body'[s] = Score[s]
    OBVIOUS
  <2>1. s \in 1 .. N /\ ~(s <= n) /\ s \in p + 1 .. N
    BY <1>2
  <2> QED
    BY <1>3, <1>4, <2>1
<1>6. SubSeq(body', 1, n) = [s \in 1 .. n |-> Score[p + s]]
  <2>1. \A s \in 1 .. n : body'[s] = Score[p + s]
    <3> SUFFICES ASSUME NEW s \in 1 .. n PROVE body'[s] = Score[p + s]
      OBVIOUS
    <3>1. s \in 1 .. N /\ p + s \in p + 1 .. N /\ s <= n
      BY <1>2
    <3> QED
      BY <1>3, <1>4, <3>1
  <2>2. n \in Nat
    BY <1>2
  <2>3. SubSeq(body', 1, n) = [s \in 1 .. n |-> body'[s]]
    <3> PICK b : b = body'
      OBVIOUS
    <3>1. \A s \in 1 .. n : b[s] \in {b[r] : r \in 1 .. n}
      OBVIOUS
    <3>2. /\ SubSeq(b, 1, n) \in Seq({b[r] : r \in 1 .. n})
          /\ Len(SubSeq(b, 1, n)) = n
          /\ \A s \in 1 .. n : SubSeq(b, 1, n)[s] = b[s]
      <4>1. /\ SubSeq(b, 1, n) \in Seq({b[r] : r \in 1 .. n})
            /\ Len(SubSeq(b, 1, n)) = IF 1 <= n THEN n - 1 + 1 ELSE 0
            /\ \A s \in 1 .. n - 1 + 1 : SubSeq(b, 1, n)[s] = b[1 + s - 1]
        <5>1. 1 \in Int /\ n \in Int
          BY <2>2
        <5> QED
          BY ONLY <3>1, <5>1, SubSeqProperties
      <4>2. n - 1 + 1 = n /\ 1 <= n /\ \A s \in 1 .. n : 1 + s - 1 = s
        BY <1>2, <2>2
      <4> QED
        BY <4>1, <4>2
    <3>3. [s \in 1 .. n |-> b[s]] \in Seq({b[r] : r \in 1 .. n})
          /\ Len([s \in 1 .. n |-> b[s]]) = n
      BY <2>2, <3>1
    <3>4. SubSeq(b, 1, n) = [s \in 1 .. n |-> b[s]]
      BY <2>2, <3>2, <3>3, SeqEqual
    <3> QED
      BY <3>4
  <2> QED
    BY <2>1, <2>3
<1>7. Piece(f + 1) = [s \in 1 .. n |-> Score[p + s]]
  <2>1. (f + 1) - 1 = f
    OBVIOUS
  <2>2. PieceLen(f + 1) = n
    BY <1>2, <2>1 DEF PieceLen
  <2> QED
    BY <2>1, <2>2 DEF Piece
<1>8. ASSUME torn' = 0 PROVE snds' = Pieces(f + 1)
  <2>1. snds = Pieces(f) /\ Len(snds) = f /\ DOMAIN snds = 1 .. f
    BY <1>1, <1>4, <1>8 DEF Cutting, Pieces
  <2>2. snds' = Append(snds, Piece(f + 1))
    <3>1. snds' = Replaced(snds, f, Piece(f + 1))
      BY <1>4, <1>6, <1>7, <1>8
    <3>2. ~(f < Len(snds))
      BY <2>1
    <3> QED
      BY <3>1, <3>2 DEF Replaced
  <2>3. \A m \in 1 .. f : snds[m] = Piece(m)
    BY <2>1 DEF Pieces
  <2> HIDE DEF Piece
  <2>4. snds' = [m \in 1 .. f + 1 |-> IF m = f + 1 THEN Piece(f + 1) ELSE snds[m]]
    <3>1. snds \in Seq({Piece(m) : m \in 1 .. f + 1})
      <4>1. \A m \in 1 .. f : Piece(m) \in {Piece(r) : r \in 1 .. f + 1}
        OBVIOUS
      <4> QED
        BY <2>1, <4>1 DEF Pieces
    <3>2. Piece(f + 1) \in {Piece(m) : m \in 1 .. f + 1}
      OBVIOUS
    <3> QED
      BY <2>1, <2>2, <3>1, <3>2
  <2>5. \A m \in 1 .. f + 1 : (IF m = f + 1 THEN Piece(f + 1) ELSE snds[m]) = Piece(m)
    BY <2>3
  <2> QED
    BY <2>4, <2>5 DEF Pieces
<1>9. Cutting'
  <2>1. cnt2' = IF p + M <= N THEN N - (p + M) ELSE 0
    BY <1>2, <1>4
  <2>2. (f + 1) - 1 = f
    OBVIOUS
  <2>3. DOMAIN body' = 1 .. N /\ body' = [s \in DOMAIN body' |-> body'[s]]
    BY <1>4
  <2>4. /\ file_num' = f + 1 /\ f + 1 \in Nat /\ file_num' * M = p + M
        /\ Score' = Score /\ Lasting' = Lasting /\ Pieces(f + 1)' = Pieces(f + 1)
    BY <1>1, ScoreStays
  <2>5. file_num' # 0 => (file_num' - 1) * M < N
    BY <1>2, <2>2, <2>4
  <2>6. Pieces(file_num)' = Pieces(f + 1)
    BY <2>4, ScoreStays
  <2>7. \A s \in file_num' * M + 1 .. N : body'[s] = Score[s]
    BY <1>5, <2>4
  <2> QED
    BY <1>1, <1>8, <2>1, <2>3, <2>4, <2>5, <2>6, <2>7 DEF Cutting
<1> QED
  BY <1>1, <1>9 DEF TuneInv

\* When nothing is left to be written, the pieces are all of the score.
LEMMA CutTune ==
  ASSUME ScoreKnown, TuneInv, Alone, Alone', PiecesDone
  PROVE  TuneInv'
<1>1. /\ spc = "write" /\ spc' = "list" /\ Cutting /\ Lasting /\ notes' = notes /\ ~(cnt2 > 0)
      /\ file_num' = file_num /\ snds' = snds /\ torn' = torn /\ file_num \in Nat
  <2>1. /\ spc = "write" /\ spc' = "list" /\ Cutting /\ Lasting /\ notes' = notes /\ cnt2 <= 0
        /\ file_num' = file_num /\ snds' = snds /\ torn' = torn /\ file_num \in Nat
    BY DEF PiecesDone, TuneInv, Cutting
  <2>2. Len(Score) \in Nat /\ file_num * SND_FILE_MAX \in Nat
    BY <2>1, SoundAssumption, ScoreFacts
  <2>3. cnt2 \in Int
    BY <2>1, <2>2 DEF Cutting
  <2> QED
    BY <2>1, <2>3
<1> PICK p \in Nat, N \in Nat : p = file_num * SND_FILE_MAX /\ N = Len(Score) /\ N >= 1
  <2>1. Len(notes) \in 1 .. Len(notes)
    BY <1>1, NotesFacts DEF Lasting
  <2>2. Begins(Len(notes)) \in Nat
    BY <2>1, BeginsFacts
  <2>3. file_num * SND_FILE_MAX \in Nat
    BY <1>1, SoundAssumption
  <2>4. Len(Score) \in Nat /\ Len(Score) >= 1
    BY <1>1, <2>2, ScoreFacts
  <2> QED
    BY <2>3, <2>4
<1>2. N <= p
  BY <1>1 DEF Cutting
<1>3. file_num # 0
  BY <1>2, SoundAssumption
<1>4. Whole
  BY <1>1, <1>2, <1>3 DEF Cutting, Whole
<1>5. Whole'
  BY <1>1, <1>4, ScoreStays DEF Whole
<1> QED
  BY <1>1, <1>5 DEF TuneInv

\* One after the other the pieces are the score, and there is something in each.
LEMMA PiecesMakeScore ==
  ASSUME ScoreKnown, Whole, torn = 0
  PROVE  /\ FlattenSeq(snds) = Score
         /\ Len(snds) \in Nat \ {0} /\ \A m \in 1 .. Len(snds) : snds[m] # NoSnd
<1> PICK F \in Nat, M \in Nat : F = file_num /\ M = SND_FILE_MAX /\ M > 0 /\ F >= 1
  BY SoundAssumption DEF Whole
<1> PICK N \in Nat : N = Len(Score)
  BY ScoreFacts DEF Whole
<1>1. Score = [s \in 1 .. N |-> Score[s]]
  BY ScoreFacts DEF Whole
<1>2. (F - 1) * M < N /\ N <= F * M
  BY DEF Whole
<1> HIDE DEF Piece
<1>3. snds = [m \in 1 .. F |-> Piece(m)]
  BY DEF Whole, Pieces
<1>4. snds \in Seq({Piece(m) : m \in 1 .. F}) /\ Len(snds) = F /\ snds # <<>>
  BY <1>3
<1> PICK f : /\ f[1] = snds[1]
             /\ \A m \in 1 .. F - 1 : f[m + 1] = f[m] \o snds[m + 1]
             /\ FlattenSeq(snds) = f[F]
  BY <1>4, FlattenIs
<1> DEFINE Samples(m) == IF m * M <= N THEN m * M ELSE N
           UpTo(m) == [s \in 1 .. Samples(m) |-> Score[s]]
           S == {m \in 1 .. F : f[m] = UpTo(m)}
<1>5. 1 \in S
  <2>1. f[1] = Piece(1) /\ 1 * M = M /\ (1 - 1) * M = 0
    BY <1>3
  <2> PICK z : z = (1 - 1) * M
    OBVIOUS
  <2>2. PieceLen(1) = IF M <= N THEN M ELSE N
    <3>1. PieceLen(1) = IF M <= N THEN M ELSE N - z
      BY ONLY <2>1, M = SND_FILE_MAX, N = Len(Score), z = (1 - 1) * M DEF PieceLen
    <3> QED
      BY <2>1, <3>1
  <2>3. Samples(1) = PieceLen(1)
    BY <2>1, <2>2
  <2>4. \A s \in Int : z + s = s
    BY <2>1
  <2>5. Piece(1) = [s \in 1 .. PieceLen(1) |-> Score[z + s]]
    BY DEF Piece
  <2>6. Piece(1) = UpTo(1)
    <3> HIDE DEF Samples
    <3> QED
      BY <2>3, <2>4, <2>5
  <2> QED
    BY <2>1, <2>6
<1>6. ASSUME NEW m \in 1 .. F, m \in S, m # F PROVE m + 1 \in S
  <2> PICK p \in Nat : p = m * M /\ (m + 1) * M = p + M /\ (m + 1) - 1 = m
    OBVIOUS
  <2>1. p < N
    <3>1. m <= F - 1 /\ F - 1 \in Nat
      BY <1>6
    <3>2. m * M <= (F - 1) * M
      BY <3>1
    <3> PICK q \in Nat : q = (F - 1) * M
      BY <3>1
    <3> QED
      BY <1>2, <3>2
  <2> PICK n \in Nat : n = IF p + M <= N THEN M ELSE N - p
    <3>1. p + M \in Nat /\ N - p \in Nat
      BY ONLY <2>1, p \in Nat, N \in Nat, M \in Nat
    <3> QED
      BY <3>1
  <2>2. Samples(m) = p /\ Samples(m + 1) = p + n /\ PieceLen(m + 1) = n
    <3>1. PieceLen(m + 1) = n
      BY DEF PieceLen
    <3>2. Samples(m) = IF p <= N THEN p ELSE N
      OBVIOUS
    <3>3. Samples(m + 1) = IF p + M <= N THEN p + M ELSE N
      OBVIOUS
    <3> HIDE DEF Samples
    <3>4. p <= N /\ (~(p + M <= N) => p + n = N) /\ (p + M <= N => p + n = p + M)
      BY ONLY <2>1, p \in Nat, N \in Nat, M \in Nat, n = IF p + M <= N THEN M ELSE N - p
    <3> QED
      BY <3>1, <3>2, <3>3, <3>4
  <2>3. f[m] = [s \in 1 .. p |-> Score[s]]
    BY <1>6, <2>2
  <2>4. snds[m + 1] = [s \in 1 .. n |-> Score[p + s]]
    <3>1. m + 1 \in 1 .. F
      BY <1>6
    <3> QED
      BY <1>3, <2>2, <3>1 DEF Piece
  <2>5. f[m] \o snds[m + 1] = [s \in 1 .. p + n |-> Score[s]]
    <3>1. [s \in 1 .. p |-> Score[s]] \o [s \in 1 .. n |-> Score[p + s]]
            = [s \in 1 .. p + n |-> Score[s]]
      BY ONLY p \in Nat, n \in Nat, ConcatIs
    <3> QED
      BY <2>3, <2>4, <3>1
  <2>6. f[m + 1] = UpTo(m + 1)
    <3>1. m \in 1 .. F - 1
      BY <1>6
    <3> QED
      BY <2>2, <2>5, <3>1
  <2>7. m + 1 \in 1 .. F
    BY <1>6
  <2> QED
    BY <2>6, <2>7
<1>7. F \in S
  <2> HIDE DEF S
  <2>1. F \in 1 .. F /\ 1 \in Nat
    OBVIOUS
  <2>2. \A m \in 1 .. F : m \in S /\ m # F => m + 1 \in S
    BY <1>6
  <2>3. \A m \in 1 .. F : m \in S
    BY <1>5, <2>1, <2>2, Climb
  <2> QED
    BY <2>1, <2>3
<1>8. Samples(F) = N
  <2> PICK q \in Nat : q = F * M
    OBVIOUS
  <2> QED
    BY <1>2
<1>9. ASSUME NEW m \in 1 .. F PROVE snds[m] # NoSnd
  <2> PICK l \in Nat : m = l + 1 /\ l <= F - 1
    <3>1. m - 1 \in Nat /\ m = (m - 1) + 1 /\ m - 1 <= F - 1
      OBVIOUS
    <3> QED
      BY <3>1
  <2> PICK p \in Nat : p = l * M /\ (l + 1) * M = p + M /\ (l + 1) - 1 = l
    OBVIOUS
  <2>1. p < N
    <3>1. F - 1 \in Nat /\ l * M <= (F - 1) * M
      OBVIOUS
    <3> PICK q \in Nat : q = (F - 1) * M
      BY <3>1
    <3> QED
      BY <1>2, <3>1
  <2> PICK n \in Nat \ {0} : n = PieceLen(m)
    <3>1. PieceLen(l + 1) = IF p + M <= N THEN M ELSE N - p
      BY DEF PieceLen
    <3>2. (IF p + M <= N THEN M ELSE N - p) \in Nat \ {0}
      BY ONLY <2>1, p \in Nat, N \in Nat, M \in Nat, M > 0
    <3> QED
      BY <3>1, <3>2
  <2>2. DOMAIN Piece(m) = 1 .. n
    BY DEF Piece
  <2>3. 1 \in 1 .. n /\ DOMAIN NoSnd = {}
    BY DEF NoSnd
  <2> QED
    BY <1>3, <2>2, <2>3
<1>10. Len(snds) \in Nat \ {0}
  BY <1>4
<1>11. FlattenSeq(snds) = Score
  BY <1>1, <1>7, <1>8
<1>12. \A m \in 1 .. Len(snds) : snds[m] # NoSnd
  BY <1>4, <1>9
<1> QED
  BY <1>10, <1>11, <1>12

\* ffmpeg joins all the pieces if there is something in each.
LEMMA AllJoined ==
  ASSUME SND2MP4Lst, Len(snds) \in Nat \ {0}, \A m \in 1 .. Len(snds) : snds[m] # NoSnd
  PROVE  audio' = snds
<1> PICK len \in Nat \ {0} : len = Len(snds)
  OBVIOUS
<1> PICK n \in 0 .. len : /\ n < len => snds[n + 1] = NoSnd
                          /\ audio' \in IF n = 0 THEN {audio}
                                        ELSE IF n = len THEN {snds}
                                        ELSE {audio, SubSeq(snds, 1, n)}
  BY DEF SND2MP4Lst
<1>1. n < len => n + 1 \in 1 .. len
  OBVIOUS
<1>2. n = len /\ n # 0
  BY <1>1
<1> QED
  BY <1>2

\* Joined, the clips are the score.
LEMMA HearTune ==
  ASSUME ScoreKnown, given = <<>>, TuneInv, Alone, Alone', SND2MP4Lst
  PROVE  TuneInv'
<1>1. spc = "list" /\ spc' = "heard" /\ notes' = notes /\ torn' = torn
  BY DEF SND2MP4Lst
<1>2. Lasting /\ torn = 0 => audio' = snds /\ FlattenSeq(snds) = Score
  BY <1>1, PiecesMakeScore, AllJoined DEF TuneInv
<1>3. Lasting' /\ torn' = 0 => FlattenSeq(audio)' = Score'
  BY <1>1, <1>2, ScoreStays
<1> QED
  BY <1>1, <1>3 DEF TuneInv

\* A step of the sound keeps what is known of it.
LEMMA SoundStepTune ==
  ASSUME SoundInv, Counted, PlaySound
  PROVE  SoundInv'
<1>1. /\ SoundStep /\ job' = job /\ stage' = stage /\ vpc' = vpc
      /\ notes' = notes /\ given' = given /\ stage \in {"sound", "film"}
      /\ (stage = "film" => vpc = "played")
  BY DEF PlaySound, movieVars, playVars, SoundStep, AURead, SndFileBegin, AddWave, WaveDone,
         WritePiece, PiecesDone, SND2MP4Lst
<1>2. Alone /\ Alone'
  BY <1>1 DEF SoundInv, Alone
<1>3. ScoreKnown /\ ScoreKnown'
  BY <1>1 DEF SoundInv, ScoreKnown
<1>4. CASE given = <<>>
  <2>1. TuneInv
    BY <1>4 DEF SoundInv
  <2>2. TuneInv'
    BY <1>1, <1>2, <1>3, <1>4, <2>1, ReadTune, BeginTune, WaveTune, DoneTune, PieceTune,
       CutTune, HearTune DEF SoundStep
  <2> QED
    BY <1>1, <1>3, <1>4, <2>2 DEF SoundInv
<1>5. CASE given # <<>>
  <2>1. spc \in {"list", "heard"} /\ snds = given
    BY <1>5 DEF SoundInv
  <2>2. SND2MP4Lst
    BY <1>1, <2>1 DEF SoundStep, AURead, SndFileBegin, AddWave, WaveDone, WritePiece,
                      PiecesDone
  <2>3. Len(given) \in Nat \ {0} /\ \A m \in 1 .. Len(given) : given[m] # NoSnd
    <3>1. given \in Seq(Range(given)) /\ NoSnd \notin Range(given)
      BY SoundsAssumption DEF SoundInv
    <3>2. Len(given) \in Nat /\ DOMAIN given = 1 .. Len(given)
      BY <3>1, LenProperties
    <3>3. Len(given) # 0
      BY <1>5, <3>1, EmptySeq
    <3> QED
      BY <3>1, <3>2, <3>3 DEF Range
  <2>4. spc' = "heard" /\ snds' = given /\ audio' = given
    BY <2>1, <2>2, <2>3, AllJoined DEF SND2MP4Lst
  <2> QED
    BY <1>1, <1>3, <1>5, <2>4 DEF SoundInv
<1> QED
  BY <1>4, <1>5

\* What leaves the sound alone keeps it.
LEMMA SilentTune ==
  ASSUME SoundInv, UNCHANGED <<soundVars, vpc, job>>,
         stage' \in {"video", "sound", "film"} => Mode(job.edition, job.args) = stage'
  PROVE  SoundInv'
<1>1. /\ job' = job /\ vpc' = vpc /\ notes' = notes /\ given' = given /\ spc' = spc
      /\ list' = list /\ note' = note /\ body' = body /\ i' = i /\ k' = k
      /\ file_num' = file_num /\ cnt2' = cnt2 /\ snds' = snds /\ audio' = audio
      /\ torn' = torn
  BY DEF soundVars, waveVars
<1>2. Alone' = Alone /\ ScoreKnown' = ScoreKnown
  BY <1>1 DEF Alone, ScoreKnown
<1>3. Listed' = Listed /\ Waving' = Waving /\ Cutting' = Cutting /\ Whole' = Whole
      /\ Score' = Score /\ Lasting' = Lasting
  <2>1. \A n : Begins(n)' = Begins(n) /\ Pieces(n)' = Pieces(n)
    BY <1>1, ScoreStays
  <2>2. Score' = Score /\ Lasting' = Lasting
    BY <1>1, ScoreStays
  <2>3. Waving' = Waving
    BY <1>1, <2>2 DEF Waving, Begins
  <2>4. Cutting' = Cutting /\ Whole' = Whole
    BY <1>1, <2>2 DEF Cutting, Whole, Pieces, Piece, PieceLen
  <2> QED
    BY <1>1, <2>2, <2>3, <2>4 DEF Listed
<1>4. TuneInv' = TuneInv
  BY <1>1, <1>2, <1>3 DEF TuneInv
<1> QED
  BY <1>1, <1>2, <1>4 DEF SoundInv

\* While the video is made, no sound of this call is.
LEMMA VideoTune ==
  ASSUME SoundInv, PlayVideo
  PROVE  SoundInv'
<1>1. /\ job' = job /\ stage' = stage /\ notes' = notes /\ given' = given /\ spc' = spc
      /\ audio' = audio /\ torn' = torn /\ snds' = (IF vpc' = "played" THEN given ELSE snds)
      /\ stage \in {"video", "film"} /\ vpc # "played"
  BY DEF PlayVideo, Swept
<1>2. ~Alone /\ (Alone' => vpc' = "played")
  BY <1>1 DEF SoundInv, Alone
<1>3. ScoreKnown'
  BY <1>1 DEF SoundInv, ScoreKnown
<1>4. CASE given = <<>>
  <2>1. spc = "read"
    BY <1>2, <1>4 DEF SoundInv, TuneInv
  <2>2. TuneInv'
    BY <1>1, <1>2, <1>4, <2>1 DEF TuneInv
  <2> QED
    BY <1>1, <1>3, <1>4, <2>2 DEF SoundInv
<1>5. CASE given # <<>>
  <2>1. snds' = given
    BY <1>1, <1>5 DEF SoundInv
  <2> QED
    BY <1>1, <1>3, <1>5, <2>1 DEF SoundInv
<1> QED
  BY <1>4, <1>5

\* No more while it is recorded.
LEMMA MergeTune ==
  ASSUME SoundInv, Merge
  PROVE  SoundInv'
<1>1. /\ job' = job /\ stage' = stage /\ stage = "start" /\ notes' = notes /\ given' = given
      /\ spc' = spc /\ snds' = snds /\ audio' = audio
      /\ Mode(job.edition, job.args) \in {"video", "film"}
      /\ vpc = "merge" /\ vpc' \in {"merge", "open"}
  BY DEF Merge, GR2MV, MergeShot, MergeEnd, soundVars
<1>2. ~Alone /\ ~Alone'
  BY <1>1 DEF Alone
<1>3. ScoreKnown'
  BY <1>1 DEF SoundInv, ScoreKnown
<1>4. given = <<>> => TuneInv'
  BY <1>1, <1>2 DEF SoundInv, TuneInv
<1> QED
  BY <1>1, <1>3, <1>4 DEF SoundInv

\* A call that is made again begins with other notes, and knows nothing of the
\* pieces that the one before had left.
LEMMA BreakTune ==
  ASSUME SoundInv, Break
  PROVE  SoundInv'
<1>1. /\ job' = job /\ stage' = "start" /\ stage \in {"video", "film"} /\ given' = given
      /\ spc' = (IF given = <<>> THEN "read" ELSE "list")
      /\ snds' = snds /\ audio' = audio
      /\ vpc' = "merge"
      /\ notes' \in {played.notes : played \in Jobs \cup Recordings}
  BY DEF Break, BreakOff
<1>2. ~Alone'
  BY <1>1 DEF SoundInv, Alone
<1>3. ScoreKnown'
  BY <1>1 DEF ScoreKnown
<1>4. given = <<>> => TuneInv'
  BY <1>1, <1>2 DEF TuneInv
<1> QED
  BY <1>1, <1>3, <1>4 DEF SoundInv

\* Every step keeps what is known of the sound.
LEMMA SoundInvHolds == Spec => []SoundInv
<1>1. ToszInit => SoundInv
  <2> SUFFICES ASSUME ToszInit PROVE SoundInv
    OBVIOUS
  <2>1. /\ job \in Jobs /\ stage = "start" /\ notes = job.notes /\ given = job.snds
        /\ spc = (IF given = <<>> THEN "read" ELSE "list") /\ snds = given
    BY DEF ToszInit, SoundInit
  <2> QED
    BY <2>1 DEF SoundInv, ScoreKnown, TuneInv
<1>2. SoundInv /\ Counted /\ [Next]_toszVars => SoundInv'
  <2> SUFFICES ASSUME SoundInv, Counted, [Next]_toszVars PROVE SoundInv'
    OBVIOUS
  <2>1. CASE Pack
    BY <2>1, SilentTune DEF Pack, movieVars, SoundInv
  <2>2. CASE Merge
    BY <2>2, MergeTune
  <2>3. CASE Main
    BY <2>3, SilentTune DEF Main, movieVars
  <2>4. CASE Expand \/ CvtFails \/ CvtWrite \/ RemoveInput
    BY <2>4, SilentTune DEF Expand, CvtFails, CvtWrite, RemoveInput, movieVars
  <2>5. CASE PlayVideo
    BY <2>5, VideoTune
  <2>6. CASE PlaySound
    BY <2>6, SoundStepTune
  <2>7. CASE JoinFilm \/ Ends
    BY <2>7, SilentTune DEF JoinFilm, Ends, movieVars
  <2>8. CASE Break
    BY <2>8, BreakTune
  <2>9. CASE UNCHANGED toszVars
    BY <2>9, SilentTune DEF toszVars, movieVars, SoundInv
  <2> QED
    BY <2>1, <2>2, <2>3, <2>4, <2>5, <2>6, <2>7, <2>8, <2>9 DEF Next
<1> QED
  BY <1>1, <1>2, CountedHolds, PTL DEF Spec

\* The sound track is the score, every note from its sample or the one before,
\* unless a piece could not be written: although the pieces are cut from a
\* buffer they are copied over, and although a call that was broken off may
\* have left pieces of another score (SndFileCreate, SND2MP4Lst).
THEOREM ScoreIsHeard == Spec => []SoundFollowsScore
<1>1. SoundInv => SoundFollowsScore
  <2> SUFFICES ASSUME SoundInv, spc = "heard",
                      given = <<>>, Takes # 0, torn = 0
               PROVE  FollowsScore(FlattenSeq(audio))
    BY DEF SoundInv, SoundFollowsScore
  <2>1. Lasting /\ FlattenSeq(audio) = Score
    BY TakesTime DEF SoundInv, TuneInv
  <2> QED
    BY <2>1, ScoreFollows DEF SoundInv
<1> QED
  BY <1>1, SoundInvHolds, PTL

-----------------------------------------------------------------------------
(***************************************************************************)
(* The video.  First the pictures: a viewer of the run-length code sees    *)
(* what was encoded, whatever the picture; GrBlot draws what Over says;    *)
(* and the screen after so many shots (Canvas) is each time the one before *)
(* with the next shot on it.  Then the time: so many frames are due by a   *)
(* shot (Due), and either edition's clock ticks from one to the next.      *)
(* VideoInv then follows the merging and the playing: the MV files split   *)
(* the recording at some ends e, and up to where it is played the          *)
(* directories and clips show just the frames that were due.               *)
(***************************************************************************)
Lines == Seq(Seq(Nat))
Pairs == [cnt : Nat, first : Nat, second : Nat]

\* The lines more, after some pairs were read that go on from the lines so far.
Reads(lines, pairs, more) ==
  \E f : /\ f[0] = lines
         /\ \A n \in 1 .. Len(pairs) : f[n] = Read(f[n - 1], pairs[n])
         /\ f[Len(pairs)] = more

Extended(lines, s) == [lines EXCEPT ![Len(lines)] = @ \o s]

\* No pairs, and the lines stay as they are.
LEMMA ReadsNothing == ASSUME NEW L PROVE Reads(L, <<>>, L)
<1> DEFINE f == [n \in 0 .. 0 |-> L]
<1>1. f[0] = L
  OBVIOUS
<1>2. Len(<<>>) = 0
  OBVIOUS
<1> HIDE DEF f
<1>3. f[0] = L /\ f[Len(<<>>)] = L /\ \A n \in 1 .. Len(<<>>) : f[n] = Read(f[n - 1], (<<>>)[n])
  BY <1>1, <1>2
<1> QED
  BY <1>3 DEF Reads

\* One pair.
LEMMA ReadsOne == ASSUME NEW L, NEW S, NEW p \in S PROVE Reads(L, <<p>>, Read(L, p))
<1> DEFINE f == [n \in 0 .. 1 |-> IF n = 0 THEN L ELSE Read(L, p)]
<1>1. f[0] = L /\ f[1] = Read(L, p)
  OBVIOUS
<1>2. Len(<<p>>) = 1 /\ (<<p>>)[1] = p
  OBVIOUS
<1> HIDE DEF f
<1>3. \A n \in 1 .. 1 : n = 1 /\ n - 1 = 0
  OBVIOUS
<1>4. f[0] = L /\ f[Len(<<p>>)] = Read(L, p) /\ \A n \in 1 .. Len(<<p>>) : f[n] = Read(f[n - 1], (<<p>>)[n])
  BY <1>1, <1>2, <1>3
<1> QED
  BY <1>4 DEF Reads

\* Pairs are read in parts.
LEMMA ReadsOn ==
  ASSUME NEW S, NEW p \in Seq(S), NEW q \in Seq(S), NEW L, NEW M, NEW N,
         Reads(L, p, M), Reads(M, q, N)
  PROVE  Reads(L, p \o q, N)
<1> PICK a \in Nat, b \in Nat : a = Len(p) /\ b = Len(q)
  BY LenProperties
<1> PICK r : r = p \o q
  OBVIOUS
<1>1. /\ Len(r) = a + b
      /\ \A n \in 1 .. a : r[n] = p[n]
      /\ \A n \in 1 .. b : r[a + n] = q[n]
  <2>1. Len(r) = a + b /\ \A n \in 1 .. a + b : r[n] = IF n <= a THEN p[n] ELSE q[n - a]
    BY ConcatProperties
  <2>2. \A n \in 1 .. a : n \in 1 .. a + b /\ n <= a
    OBVIOUS
  <2>3. \A n \in 1 .. b : a + n \in 1 .. a + b /\ ~(a + n <= a) /\ (a + n) - a = n
    OBVIOUS
  <2> QED
    BY <2>1, <2>2, <2>3
<1>2. PICK f : /\ f[0] = L /\ f[a] = M
               /\ \A n \in 1 .. a : f[n] = Read(f[n - 1], p[n])
  BY DEF Reads
<1>3. PICK g : /\ g[0] = M /\ g[b] = N
               /\ \A n \in 1 .. b : g[n] = Read(g[n - 1], q[n])
  BY DEF Reads
<1> DEFINE h == [n \in 0 .. a + b |-> IF n <= a THEN f[n] ELSE g[n - a]]
<1>4. \A n \in 0 .. a : h[n] = f[n]
  OBVIOUS
<1>5. \A n \in 0 .. b : h[a + n] = g[n]
  <2> SUFFICES ASSUME NEW n \in 0 .. b PROVE h[a + n] = g[n]
    OBVIOUS
  <2>1. a + n \in 0 .. a + b /\ (a + n) - a = n
    OBVIOUS
  <2>2. CASE n = 0
    <3>1. a + n = a
      BY <2>2
    <3> QED
      BY <1>2, <1>3, <1>4, <2>2, <3>1
  <2>3. CASE n # 0
    <3>1. ~(a + n <= a)
      BY <2>3
    <3> QED
      BY <2>1, <3>1
  <2> QED
    BY <2>2, <2>3
<1> HIDE DEF h
<1>6. ASSUME NEW n \in 1 .. a + b PROVE h[n] = Read(h[n - 1], r[n])
  <2>1. CASE n \in 1 .. a
    <3>1. n \in 0 .. a /\ n - 1 \in 0 .. a
      BY <2>1
    <3> QED
      BY <1>1, <1>2, <1>4, <2>1, <3>1
  <2>2. CASE n \notin 1 .. a
    <3> PICK m \in 1 .. b : n = a + m
      <4>1. n - a \in 1 .. b /\ n = a + (n - a)
        BY <2>2
      <4> QED
        BY <4>1
    <3>1. m \in 0 .. b /\ m - 1 \in 0 .. b /\ n - 1 = a + (m - 1)
      OBVIOUS
    <3>2. h[n] = g[m] /\ h[n - 1] = g[m - 1]
      BY <1>5, <3>1
    <3>3. r[n] = q[m] /\ g[m] = Read(g[m - 1], q[m])
      BY <1>1, <1>3
    <3> QED
      BY <3>2, <3>3
  <2> QED
    BY <2>1, <2>2
<1>7. h[0] = L /\ h[a + b] = N
  <2>1. 0 \in 0 .. a /\ b \in 0 .. b
    OBVIOUS
  <2>2. h[0] = f[0]
    BY <1>4, <2>1
  <2>3. h[a + b] = g[b]
    BY <1>5, <2>1
  <2> QED
    BY <1>2, <1>3, <2>2, <2>3
<1>8. Reads(L, r, N)
  BY <1>1, <1>6, <1>7 DEF Reads
<1> QED
  BY <1>8

\* The last line is extended piece by piece.
LEMMA ExtendedTwice ==
  ASSUME NEW L \in Lines, L # <<>>, NEW s \in Seq(Nat), NEW t \in Seq(Nat)
  PROVE  /\ Extended(L, s) \in Lines /\ Extended(L, s) # <<>>
         /\ Extended(Extended(L, s), t) = Extended(L, s \o t)
<1> PICK n \in Nat : n = Len(L) /\ n # 0
  BY EmptySeq, LenProperties DEF Lines
<1>1. L \in [1 .. n -> Seq(Nat)] /\ n \in 1 .. n
  BY LenProperties DEF Lines
<1> PICK u \in Seq(Nat) : u = L[n]
  BY <1>1
<1> PICK E : E = Extended(L, s)
  OBVIOUS
<1>2. E = [L EXCEPT ![n] = u \o s] /\ u \o s \in Seq(Nat)
  BY ConcatProperties DEF Extended
<1>3. E \in [1 .. n -> Seq(Nat)] /\ E[n] = u \o s /\ \A l \in 1 .. n : l # n => E[l] = L[l]
  BY <1>1, <1>2
<1>4. E \in Lines /\ Len(E) = n /\ E # <<>>
  <2> PICK T : T = Seq(Nat)
    OBVIOUS
  <2>1. L \in Seq(T) /\ n \in 1 .. Len(L)
    BY DEF Lines
  <2>2. [L EXCEPT ![n] = u \o s] \in Seq(T) /\ Len([L EXCEPT ![n] = u \o s]) = Len(L)
    BY <1>2, <2>1, ExceptSeq
  <2>3. E \in Seq(T) /\ Len(E) = n
    BY <1>2, <2>2
  <2> QED
    BY <2>3, EmptySeq DEF Lines
<1>5. (u \o s) \o t = u \o (s \o t)
  BY ONLY u \in Seq(Nat), s \in Seq(Nat), t \in Seq(Nat), ConcatAssociative
<1>6. Extended(E, t) = [E EXCEPT ![n] = (u \o s) \o t]
  BY <1>3, <1>4 DEF Extended
<1>7. Extended(L, s \o t) = [L EXCEPT ![n] = u \o (s \o t)]
  BY DEF Extended
<1>8. [E EXCEPT ![n] = (u \o s) \o t] = [L EXCEPT ![n] = (u \o s) \o t]
  BY <1>1, <1>3
<1> QED
  BY <1>4, <1>5, <1>6, <1>7, <1>8

LEMMA ExtendedNothing ==
  ASSUME NEW L \in Lines, L # <<>>
  PROVE  Extended(L, <<>>) = L
<1> PICK n \in Nat : n = Len(L) /\ n # 0
  BY EmptySeq, LenProperties DEF Lines
<1>1. L \in [1 .. n -> Seq(Nat)] /\ n \in 1 .. n
  BY LenProperties DEF Lines
<1> PICK u \in Seq(Nat) : u = L[n]
  BY <1>1
<1>2. u \o <<>> = u
  BY ConcatEmptySeq
<1>3. Extended(L, <<>>) = [L EXCEPT ![n] = u]
  BY <1>2 DEF Extended
<1> QED
  BY <1>1, <1>3

\* The pixels of a pair are numbers.
LEMMA PixelsAre ==
  ASSUME NEW cnt \in Nat, NEW a \in Nat, NEW b \in Nat
  PROVE  Pixels(Pair(cnt, a, b)) \in Seq(Nat)
<1>1. Pixels(Pair(cnt, a, b)) = [e \in 1 .. cnt |-> IF e % 2 = 1 THEN a ELSE b]
  BY DEF Pixels, Pair
<1>2. [e \in 1 .. cnt |-> IF e % 2 = 1 THEN a ELSE b] \in [1 .. cnt -> Nat]
  OBVIOUS
<1>3. [e \in 1 .. cnt |-> IF e % 2 = 1 THEN a ELSE b] \in Seq(Nat)
  BY <1>2, SeqDef
<1> QED
  BY <1>1, <1>3

\* The longest run that fits a byte is there.
LEMMA RunFromIs ==
  ASSUME NEW w \in Nat, NEW row \in [0 .. w - 1 -> Nat], NEW x \in 0 .. w - 1
  PROVE  /\ RunFrom(row, w, x) \in 1 .. w - x
         /\ \A e \in x .. x + RunFrom(row, w, x) - 1 : row[e] = row[x]
<1> DEFINE Same(n) == n <= BYTE_MAX /\ \A e \in x .. x + n - 1 : row[e] = row[x]
           S == {n \in 1 .. w - x : Same(n)}
<1>1. S \in SUBSET Nat /\ \A n \in S : n <= w
  OBVIOUS
<1>2. 1 \in S
  <2>1. \A e \in x .. x + 1 - 1 : e = x
    OBVIOUS
  <2>2. 1 \in 1 .. w - x /\ 1 <= BYTE_MAX
    BY PictureAssumption
  <2> QED
    BY <2>1, <2>2
<1> PICK m : m = Max(S)
  OBVIOUS
<1>3. m \in S /\ \A n \in S : n <= m
  <2> HIDE DEF S
  <2> QED
    BY <1>1, <1>2, MaxInSet
<1>4. m \in 1 .. w - x /\ Same(m) /\ m \in Nat
  <2> HIDE DEF Same
  <2>1. m \in 1 .. w - x /\ Same(m)
    BY <1>3
  <2>2. m \in Nat
    BY <2>1
  <2> QED
    BY <2>1, <2>2
<1>5. x + m = w \/ m = BYTE_MAX \/ row[x + m] # row[x]
  <2> SUFFICES ASSUME x + m # w, m # BYTE_MAX, row[x + m] = row[x] PROVE FALSE
    OBVIOUS
  <2>0. m \in 1 .. w - x /\ m <= BYTE_MAX
    BY <1>4
  <2> PICK B \in Nat : B = BYTE_MAX
    BY PictureAssumption
  <2>4. /\ w \in Nat /\ x \in 0 .. w - 1 /\ B \in Nat
        /\ m \in 1 .. w - x /\ m <= B /\ x + m # w /\ m # B
    BY <2>0, Zenon
  <2>5. m + 1 \in 1 .. w - x /\ m + 1 <= B /\ ~(m + 1 <= m)
    BY ONLY <2>4
  <2>1. m + 1 \in 1 .. w - x /\ m + 1 <= BYTE_MAX /\ ~(m + 1 <= m)
    BY <2>5, Zenon
  <2>2. \A e \in x .. x + (m + 1) - 1 : e \in x .. x + m - 1 \/ e = x + m
    BY ONLY <1>4, x \in 0 .. w - 1, w \in Nat
  <2>3. Same(m + 1)
    BY <1>4, <2>1, <2>2
  <2> QED
    BY <1>3, <2>1, <2>3
<1> DEFINE Run(n) == Same(n) /\ (x + n = w \/ n = BYTE_MAX \/ row[x + n] # row[x])
<1>6. \E n \in 1 .. w - x : Run(n)
  BY <1>4, <1>5
<1>7. RunFrom(row, w, x) = CHOOSE n \in 1 .. w - x : Run(n)
  BY DEF RunFrom
<1> HIDE DEF Run
<1>8. RunFrom(row, w, x) \in 1 .. w - x /\ Run(RunFrom(row, w, x))
  BY <1>6, <1>7
<1> QED
  BY <1>8 DEF Run

\* A chain of elements, each of which names the place of the next.
IsChain(f, w, head, next) ==
  f = [x \in 0 .. w + 1 |-> IF x >= w THEN <<>> ELSE <<head[x]>> \o f[next[x]]]

\* The recursion of Row has a solution: at every turn it goes on further right.
LEMMA Chained ==
  ASSUME NEW w \in Nat, NEW head, NEW next, \A x \in 0 .. w - 1 : next[x] \in x + 1 .. w + 1
  PROVE  \E f : IsChain(f, w, head, next)
<1> DEFINE Equation(f, m) ==
             f = [x \in w + 1 - m .. w + 1 |-> IF x >= w THEN <<>> ELSE <<head[x]>> \o f[next[x]]]
           T == {m \in Nat : \E f : Equation(f, m)}
<1>1. 0 \in T
  <2> DEFINE g == [x \in w + 1 - 0 .. w + 1 |-> <<>>]
  <2>1. \A x \in w + 1 - 0 .. w + 1 : x >= w
    OBVIOUS
  <2>2. Equation(g, 0)
    BY <2>1
  <2> HIDE DEF Equation, g
  <2>3. \E f : Equation(f, 0)
    BY <2>2
  <2> QED
    BY <2>3
<1>2. ASSUME NEW m \in 0 .. w + 1, m \in T, m # w + 1 PROVE m + 1 \in T
  <2>1. PICK f : Equation(f, m)
    BY <1>2
  <2> PICK z \in 0 .. w : z = w - m
    BY <1>2
  <2>2. w + 1 - m = z + 1 /\ w + 1 - (m + 1) = z
    OBVIOUS
  <2> DEFINE g == [x \in z .. w + 1 |-> IF x = z THEN IF z >= w THEN <<>> ELSE <<head[z]>> \o f[next[z]]
                                                 ELSE f[x]]
  <2>3. \A x \in z + 1 .. w + 1 : g[x] = f[x]
    OBVIOUS
  <2>4. \A x \in z + 1 .. w + 1 : f[x] = IF x >= w THEN <<>> ELSE <<head[x]>> \o f[next[x]]
    BY <2>1, <2>2
  <2>5. ASSUME NEW x \in z .. w + 1
        PROVE  g[x] = IF x >= w THEN <<>> ELSE <<head[x]>> \o g[next[x]]
    <3>1. x < w => next[x] \in z + 1 .. w + 1
      OBVIOUS
    <3>2. x < w => g[next[x]] = f[next[x]]
      BY <2>3, <3>1
    <3>3. g[x] = IF x >= w THEN <<>> ELSE <<head[x]>> \o f[next[x]]
      <4>1. CASE x = z
        BY <4>1
      <4>2. CASE x # z
        <5>1. x \in z + 1 .. w + 1
          BY <4>2
        <5> QED
          BY <2>3, <2>4, <5>1
      <4> QED
        BY <4>1, <4>2
    <3>4. x >= w \/ x < w
      OBVIOUS
    <3> HIDE DEF g
    <3> QED
      BY <3>2, <3>3, <3>4
  <2>6. Equation(g, m + 1)
    BY <2>2, <2>5
  <2> HIDE DEF Equation, g
  <2>7. \E h : Equation(h, m + 1)
    BY <2>6
  <2> QED
    BY <2>7
<1> HIDE DEF T
<1>3. w + 1 \in T
  <2>1. \A m \in 0 .. w + 1 : m \in T /\ m # w + 1 => m + 1 \in T
    BY <1>2
  <2>2. 0 \in Nat /\ w + 1 \in Nat
    OBVIOUS
  <2>3. \A m \in 0 .. w + 1 : m \in T
    BY <1>1, <2>1, <2>2, Climb
  <2> QED
    BY <2>2, <2>3
<1>4. \E f : Equation(f, w + 1)
  BY <1>3 DEF T
<1>5. w + 1 - (w + 1) = 0
  OBVIOUS
<1> QED
  BY <1>4, <1>5 DEF IsChain

\* The pixels of a row from x on.
Rest(row, w, x) == [e \in 1 .. w - x |-> row[x + e - 1]]

LEMMA RestIs ==
  ASSUME NEW w \in Nat, NEW row \in [0 .. w - 1 -> Nat], NEW x \in 0 .. w + 1
  PROVE  /\ Rest(row, w, x) \in Seq(Nat)
         /\ x >= w => Rest(row, w, x) = <<>>
<1>1. CASE x >= w
  <2>1. 1 .. w - x = {}
    BY <1>1
  <2>2. Rest(row, w, x) = <<>>
    BY <2>1 DEF Rest
  <2> QED
    BY <2>2, EmptySeq
<1>2. CASE ~(x >= w)
  <2>1. w - x \in Nat /\ \A e \in 1 .. w - x : x + e - 1 \in 0 .. w - 1
    BY <1>2
  <2>2. Rest(row, w, x) \in [1 .. w - x -> Nat]
    BY <2>1 DEF Rest
  <2>3. Rest(row, w, x) \in Seq(Nat)
    BY <2>1, <2>2, SeqDef
  <2> QED
    BY <1>2, <2>3
<1> QED
  BY <1>1, <1>2

\* The next n pixels and the rest of the row.
LEMMA RestSplits ==
  ASSUME NEW w \in Nat, NEW row \in [0 .. w - 1 -> Nat], NEW x \in 0 .. w - 1, NEW n \in 1 .. w - x
  PROVE  [e \in 1 .. n |-> row[x + e - 1]] \o Rest(row, w, x + n) = Rest(row, w, x)
<1> DEFINE g == [s \in 1 .. w - x |-> row[x + s - 1]]
<1> PICK p \in Nat, q \in Nat : p = n /\ q = w - x - n /\ p + q = w - x
  <2>1. n \in Nat /\ w - x - n \in Nat /\ n + (w - x - n) = w - x
    OBVIOUS
  <2> QED
    BY <2>1
<1>1. [s \in 1 .. p |-> g[s]] \o [s \in 1 .. q |-> g[p + s]] = [s \in 1 .. p + q |-> g[s]]
  BY ConcatIs
<1>2. [s \in 1 .. p |-> g[s]] = [e \in 1 .. n |-> row[x + e - 1]]
  <2>1. \A s \in 1 .. p : s \in 1 .. w - x
    OBVIOUS
  <2> QED
    BY <2>1
<1>3. [s \in 1 .. q |-> g[p + s]] = Rest(row, w, x + n)
  <2>1. w - (x + n) = q
    OBVIOUS
  <2>2. \A s \in 1 .. q : p + s \in 1 .. w - x /\ x + (p + s) - 1 = (x + n) + s - 1
    OBVIOUS
  <2>3. \A s \in 1 .. q : g[p + s] = row[(x + n) + s - 1]
    BY <2>2
  <2> HIDE DEF g
  <2> QED
    BY <2>1, <2>3 DEF Rest
<1>4. [s \in 1 .. p + q |-> g[s]] = Rest(row, w, x)
  BY DEF Rest
<1> QED
  BY <1>1, <1>2, <1>3, <1>4

\* A row's pairs, and that they read as the row.
LEMMA RowReads ==
  ASSUME NEW w \in Nat, NEW row \in [0 .. w - 1 -> Nat]
  PROVE  /\ Row(row, w) \in Seq(Pairs)
         /\ \A L \in Lines : L # <<>> => Reads(L, Row(row, w), Extended(L, Rest(row, w, 0)))
<1> DEFINE R(x) == RunFrom(row, w, x)
           same(x) == x + 1 < w /\ row[x] = row[x + 1]
           head == [x \in 0 .. w - 1 |->
                      IF same(x) THEN Pair(R(x), row[x], row[x])
                      ELSE IF x + 1 < w THEN Pair(2, row[x], row[x + 1]) ELSE Pair(1, row[x], 0)]
           next == [x \in 0 .. w - 1 |-> IF same(x) THEN x + R(x) ELSE x + 2]
<1>1. \A x \in 0 .. w - 1 : R(x) \in 1 .. w - x /\ \A e \in x .. x + R(x) - 1 : row[e] = row[x]
  BY RunFromIs
<1>2. \A x \in 0 .. w - 1 : next[x] \in x + 1 .. w + 1
  <2> SUFFICES ASSUME NEW x \in 0 .. w - 1 PROVE next[x] \in x + 1 .. w + 1
    OBVIOUS
  <2> PICK r \in 1 .. w - x : r = R(x)
    BY <1>1
  <2>1. next[x] = IF same(x) THEN x + r ELSE x + 2
    OBVIOUS
  <2>2. x + r \in x + 1 .. w + 1 /\ x + 2 \in x + 1 .. w + 1
    OBVIOUS
  <2> QED
    BY <2>1, <2>2
<1>3. ASSUME NEW f, NEW x \in 0 .. w + 1
      PROVE  (IF x >= w THEN <<>> ELSE <<head[x]>> \o f[next[x]])
               = IF x >= w THEN <<>>
                 ELSE IF x + 1 < w /\ row[x] = row[x + 1]
                 THEN <<Pair(RunFrom(row, w, x), row[x], row[x])>> \o f[x + RunFrom(row, w, x)]
                 ELSE <<IF x + 1 < w THEN Pair(2, row[x], row[x + 1])
                                     ELSE Pair(1, row[x], 0)>> \o f[x + 2]
  <2>1. CASE x >= w
    BY <2>1
  <2>2. CASE ~(x >= w)
    <3>1. x \in 0 .. w - 1
      BY <2>2
    <3>2. CASE same(x)
      <4>1. head[x] = Pair(R(x), row[x], row[x]) /\ next[x] = x + R(x)
        BY <3>1, <3>2
      <4> HIDE DEF head, next
      <4> QED
        BY <2>2, <3>2, <4>1
    <3>3. CASE ~same(x)
      <4>1. /\ head[x] = IF x + 1 < w THEN Pair(2, row[x], row[x + 1]) ELSE Pair(1, row[x], 0)
            /\ next[x] = x + 2
        BY <3>1, <3>3
      <4> HIDE DEF head, next
      <4> QED
        BY <2>2, <3>3, <4>1
    <3> QED
      BY <3>2, <3>3
  <2> QED
    BY <2>1, <2>2
<1>4. ASSUME NEW x \in 0 .. w - 1
      PROVE  \E n \in 1 .. w - x :
               /\ head[x] \in Pairs /\ head[x].cnt # 0
               /\ Pixels(head[x]) = [e \in 1 .. n |-> row[x + e - 1]]
               /\ next[x] = x + n \/ (x + n = w /\ next[x] = w + 1)
  <2> PICK r \in 1 .. w - x : r = R(x) /\ \A e \in x .. x + r - 1 : row[e] = row[x]
    BY <1>1
  <2> PICK a \in Nat : a = row[x]
    OBVIOUS
  <2>1. CASE same(x)
    <3>1. head[x] = Pair(r, a, a) /\ next[x] = x + r
      BY <2>1
    <3> HIDE DEF head, next
    <3>2. r \in Nat /\ r # 0
      OBVIOUS
    <3>3. Pixels(head[x]) = [e \in 1 .. r |-> a]
      <4>1. Pixels(Pair(r, a, a)) = [e \in 1 .. r |-> IF e % 2 = 1 THEN a ELSE a]
        BY DEF Pixels, Pair
      <4>2. Pixels(Pair(r, a, a)) = [e \in 1 .. r |-> a]
        BY <4>1
      <4> QED
        BY <3>1, <4>2
    <3>4. \A e \in 1 .. r : x + e - 1 \in x .. x + r - 1
      OBVIOUS
    <3>5. \A e \in 1 .. r : row[x + e - 1] = a
      BY <3>4
    <3>6. Pixels(head[x]) = [e \in 1 .. r |-> row[x + e - 1]]
      BY <3>3, <3>5
    <3>7. head[x] \in Pairs /\ head[x].cnt # 0
      BY <3>1, <3>2 DEF Pair, Pairs
    <3> WITNESS r \in 1 .. w - x
    <3> QED
      BY <3>1, <3>6, <3>7
  <2>2. CASE ~same(x) /\ x + 1 < w
    <3> PICK b \in Nat : b = row[x + 1]
      BY <2>2
    <3>1. head[x] = Pair(2, a, b) /\ next[x] = x + 2
      BY <2>2
    <3> HIDE DEF head, next
    <3>2. Pixels(head[x]) = [e \in 1 .. 2 |-> IF e % 2 = 1 THEN a ELSE b]
      <4>1. Pixels(Pair(2, a, b)) = [e \in 1 .. 2 |-> IF e % 2 = 1 THEN a ELSE b]
        BY DEF Pixels, Pair
      <4> QED
        BY <3>1, <4>1
    <3>3. \A e \in 1 .. 2 : (IF e % 2 = 1 THEN a ELSE b) = row[x + e - 1]
      <4>1. \A e \in 1 .. 2 : e = 1 \/ e = 2
        OBVIOUS
      <4>2. 1 % 2 = 1 /\ 2 % 2 = 0 /\ x + 1 - 1 = x /\ x + 2 - 1 = x + 1
        OBVIOUS
      <4>3. (IF 1 % 2 = 1 THEN a ELSE b) = row[x + 1 - 1]
        BY <4>2
      <4>4. (IF 2 % 2 = 1 THEN a ELSE b) = row[x + 2 - 1]
        BY <4>2
      <4> QED
        BY <4>1, <4>3, <4>4
    <3>4. Pixels(head[x]) = [e \in 1 .. 2 |-> row[x + e - 1]]
      BY <3>2, <3>3
    <3>5. head[x] \in Pairs /\ head[x].cnt # 0
      BY <3>1 DEF Pair, Pairs
    <3>6. 2 \in 1 .. w - x
      BY <2>2
    <3> WITNESS 2 \in 1 .. w - x
    <3> QED
      BY <3>1, <3>4, <3>5, <3>6
  <2>3. CASE ~same(x) /\ ~(x + 1 < w)
    <3>1. head[x] = Pair(1, a, 0) /\ next[x] = x + 2 /\ x + 1 = w
      BY <2>3
    <3> HIDE DEF head, next
    <3>2. Pixels(head[x]) = [e \in 1 .. 1 |-> IF e % 2 = 1 THEN a ELSE 0]
      <4>1. Pixels(Pair(1, a, 0)) = [e \in 1 .. 1 |-> IF e % 2 = 1 THEN a ELSE 0]
        BY DEF Pixels, Pair
      <4> QED
        BY <3>1, <4>1
    <3>3. \A e \in 1 .. 1 : (IF e % 2 = 1 THEN a ELSE 0) = row[x + e - 1]
      <4>1. \A e \in 1 .. 1 : e = 1
        OBVIOUS
      <4>2. 1 % 2 = 1 /\ x + 1 - 1 = x
        OBVIOUS
      <4>3. (IF 1 % 2 = 1 THEN a ELSE 0) = row[x + 1 - 1]
        BY <4>2
      <4> QED
        BY <4>1, <4>3
    <3>4. Pixels(head[x]) = [e \in 1 .. 1 |-> row[x + e - 1]]
      BY <3>2, <3>3
    <3>5. head[x] \in Pairs /\ head[x].cnt # 0
      BY <3>1 DEF Pair, Pairs
    <3>6. 1 \in 1 .. w - x /\ x + 2 = w + 1
      BY <3>1
    <3> WITNESS 1 \in 1 .. w - x
    <3> QED
      BY <3>1, <3>4, <3>5, <3>6
  <2> QED
    BY <2>1, <2>2, <2>3
<1> HIDE DEF head, next, R, same
<1> DEFINE pairs == CHOOSE f : IsChain(f, w, head, next)
<1>5. Row(row, w) = pairs[0]
  <2>1. ASSUME NEW f
        PROVE  [x \in 0 .. w + 1 |-> IF x >= w THEN <<>> ELSE <<head[x]>> \o f[next[x]]]
                 = [x \in 0 .. w + 1 |->
                      IF x >= w THEN <<>>
                      ELSE IF x + 1 < w /\ row[x] = row[x + 1]
                      THEN <<Pair(RunFrom(row, w, x), row[x], row[x])>> \o f[x + RunFrom(row, w, x)]
                      ELSE <<IF x + 1 < w THEN Pair(2, row[x], row[x + 1])
                                          ELSE Pair(1, row[x], 0)>> \o f[x + 2]]
    BY <1>3
  <2> QED
    BY <2>1 DEF Row, IsChain
<1>6. IsChain(pairs, w, head, next)
  <2>1. \E f : IsChain(f, w, head, next)
    BY <1>2, Chained
  <2> QED
    BY <2>1
<1> HIDE DEF pairs
<1>7. \A x \in 0 .. w + 1 : x >= w => pairs[x] = <<>>
  BY <1>6 DEF IsChain
<1>8. \A x \in 0 .. w - 1 : pairs[x] = <<head[x]>> \o pairs[next[x]]
  <2>1. \A x \in 0 .. w - 1 : x \in 0 .. w + 1 /\ ~(x >= w)
    OBVIOUS
  <2> QED
    BY <1>6, <2>1 DEF IsChain
<1> DEFINE Good(x) == /\ pairs[x] \in Seq(Pairs)
                      /\ \A L \in Lines : L # <<>> => Reads(L, pairs[x], Extended(L, Rest(row, w, x)))
<1>9. ASSUME NEW x \in 0 .. w + 1, x >= w PROVE Good(x)
  <2>1. pairs[x] = <<>> /\ Rest(row, w, x) = <<>>
    BY <1>7, <1>9, RestIs
  <2>2. ASSUME NEW L \in Lines, L # <<>> PROVE Reads(L, <<>>, Extended(L, <<>>))
    BY <2>2, ExtendedNothing, ReadsNothing
  <2>3. <<>> \in Seq(Pairs)
    BY EmptySeq
  <2> QED
    BY <2>1, <2>2, <2>3
<1>10. ASSUME NEW x \in 0 .. w - 1, Good(next[x]) PROVE Good(x)
  <2> PICK n \in 1 .. w - x, y \in 0 .. w + 1, p \in Pairs :
        /\ y = next[x] /\ p = head[x] /\ p.cnt # 0
        /\ Pixels(p) = [e \in 1 .. n |-> row[x + e - 1]]
        /\ y = x + n \/ (x + n = w /\ y = w + 1)
    <3>1. next[x] \in 0 .. w + 1
      BY <1>2
    <3> QED
      BY <1>4, <3>1
  <2>1. pairs[x] = <<p>> \o pairs[y]
    BY <1>8
  <2>2. <<p>> \in Seq(Pairs) /\ pairs[y] \in Seq(Pairs)
    BY <1>10
  <2>3. Rest(row, w, y) = Rest(row, w, x + n)
    <3>1. CASE y = x + n
      BY <3>1
    <3>2. CASE x + n = w /\ y = w + 1
      <4>1. x + n \in 0 .. w + 1 /\ x + n >= w /\ y >= w
        BY <3>2
      <4> QED
        BY <4>1, RestIs
    <3> QED
      BY <3>1, <3>2
  <2>4. Pixels(p) \o Rest(row, w, y) = Rest(row, w, x)
    BY <2>3, RestSplits
  <2>5. Pixels(p) \in Seq(Nat) /\ Rest(row, w, y) \in Seq(Nat)
    <3>1. p = Pair(p.cnt, p.first, p.second) /\ p.cnt \in Nat /\ p.first \in Nat /\ p.second \in Nat
      BY DEF Pairs, Pair
    <3>2. Pixels(Pair(p.cnt, p.first, p.second)) \in Seq(Nat)
      BY <3>1, PixelsAre
    <3> QED
      BY <3>1, <3>2, RestIs
  <2>6. ASSUME NEW L \in Lines, L # <<>> PROVE Reads(L, pairs[x], Extended(L, Rest(row, w, x)))
    <3> PICK M : M = Extended(L, Pixels(p))
      OBVIOUS
    <3>1. M \in Lines /\ M # <<>> /\ Extended(M, Rest(row, w, y)) = Extended(L, Rest(row, w, x))
      <4> PICK s \in Seq(Nat), t \in Seq(Nat) : s = Pixels(p) /\ t = Rest(row, w, y)
        BY <2>5
      <4>1. M \in Lines /\ M # <<>> /\ Extended(M, t) = Extended(L, s \o t)
        BY <2>6, ExtendedTwice
      <4> QED
        BY <2>4, <4>1
    <3>2. Reads(M, pairs[y], Extended(L, Rest(row, w, x)))
      BY <1>10, <3>1
    <3>3. Reads(L, <<p>>, M)
      <4>1. Read(L, p) = M
        BY DEF Read, Extended
      <4> QED
        BY <4>1, ReadsOne
    <3>4. Reads(L, <<p>> \o pairs[y], Extended(L, Rest(row, w, x)))
      BY <2>2, <3>2, <3>3, ReadsOn
    <3> QED
      BY <2>1, <3>4
  <2>7. pairs[x] \in Seq(Pairs)
    BY <2>1, <2>2, ConcatProperties
  <2> QED
    BY <2>6, <2>7
<1> HIDE DEF Good
<1> DEFINE T == {m \in Nat : \A x \in 0 .. w + 1 : x + m >= w => Good(x)}
<1>11. 0 \in T
  <2>1. \A x \in 0 .. w + 1 : x + 0 >= w => x >= w
    OBVIOUS
  <2> QED
    BY <1>9, <2>1
<1>12. ASSUME NEW m \in 0 .. w, m \in T, m # w PROVE m + 1 \in T
  <2> SUFFICES ASSUME NEW x \in 0 .. w + 1, x + (m + 1) >= w PROVE Good(x)
    OBVIOUS
  <2>1. CASE x >= w
    BY <1>9, <2>1
  <2>2. CASE ~(x >= w)
    <3>1. x \in 0 .. w - 1
      BY <2>2
    <3> PICK y \in 0 .. w + 1 : y = next[x] /\ y \in x + 1 .. w + 1
      <4>1. next[x] \in x + 1 .. w + 1
        BY <1>2, <3>1
      <4>2. next[x] \in 0 .. w + 1
        BY <4>1
      <4> QED
        BY <4>1, <4>2
    <3>2. y + m >= w
      OBVIOUS
    <3>3. Good(y)
      BY <1>12, <3>2
    <3> QED
      BY <1>10, <3>1, <3>3
  <2> QED
    BY <2>1, <2>2
<1> HIDE DEF T
<1>13. w \in T
  <2>1. \A m \in 0 .. w : m \in T /\ m # w => m + 1 \in T
    BY <1>12
  <2>2. 0 \in Nat /\ w \in 0 .. w
    OBVIOUS
  <2>3. \A m \in 0 .. w : m \in T
    BY <1>11, <2>1, <2>2, Climb
  <2> QED
    BY <2>2, <2>3
<1>14. Good(0)
  <2>1. 0 \in 0 .. w + 1 /\ 0 + w >= w
    OBVIOUS
  <2>2. \A x \in 0 .. w + 1 : x + w >= w => Good(x)
    BY <1>13 DEF T
  <2> QED
    BY <2>1, <2>2
<1> QED
  BY <1>5, <1>14 DEF Good

\* Elements one before the other, down to -1.
IsStack(f, h, item) ==
  f = [y \in -1 .. h - 1 |-> IF y = -1 THEN <<>> ELSE item[y] \o f[y - 1]]

\* The recursion of BMPRLE4To has a solution.
LEMMA Stacked == ASSUME NEW h \in Nat, NEW item PROVE \E f : IsStack(f, h, item)
<1> DEFINE T == {m \in Nat : \E f : IsStack(f, m, item)}
<1>1. 0 \in T
  <2> DEFINE g == [y \in -1 .. 0 - 1 |-> <<>>]
  <2>1. \A y \in -1 .. 0 - 1 : y = -1
    OBVIOUS
  <2>2. IsStack(g, 0, item)
    BY <2>1 DEF IsStack
  <2> HIDE DEF g
  <2> QED
    BY <2>2
<1>2. ASSUME NEW m \in 0 .. h, m \in T, m # h PROVE m + 1 \in T
  <2>1. PICK f : IsStack(f, m, item)
    BY <1>2
  <2> DEFINE g == [y \in -1 .. m |-> IF y = m THEN item[m] \o f[m - 1] ELSE f[y]]
  <2>2. \A y \in -1 .. m - 1 : g[y] = f[y]
    OBVIOUS
  <2>3. \A y \in -1 .. m - 1 : f[y] = IF y = -1 THEN <<>> ELSE item[y] \o f[y - 1]
    BY <2>1 DEF IsStack
  <2>4. ASSUME NEW y \in -1 .. m PROVE g[y] = IF y = -1 THEN <<>> ELSE item[y] \o g[y - 1]
    <3>1. CASE y = m
      <4>1. y # -1 /\ m - 1 \in -1 .. m - 1 /\ m \in -1 .. m
        BY <3>1
      <4>2. g[m] = item[m] \o f[m - 1]
        BY <4>1
      <4>3. g[m - 1] = f[m - 1]
        BY <2>2, <4>1
      <4> HIDE DEF g
      <4> QED
        BY <3>1, <4>1, <4>2, <4>3
    <3>2. CASE y # m
      <4>1. y \in -1 .. m - 1 /\ (y # -1 => y - 1 \in -1 .. m - 1)
        BY <3>2
      <4> HIDE DEF g
      <4> QED
        BY <2>2, <2>3, <4>1
    <3> QED
      BY <3>1, <3>2
  <2>5. (m + 1) - 1 = m /\ m + 1 \in Nat
    OBVIOUS
  <2>6. g = [y \in -1 .. m |-> IF y = -1 THEN <<>> ELSE item[y] \o g[y - 1]]
    BY <2>4
  <2> HIDE DEF g
  <2>7. IsStack(g, m + 1, item)
    BY <2>5, <2>6 DEF IsStack
  <2> QED
    BY <2>5, <2>7
<1> HIDE DEF T
<1>3. h \in T
  <2>1. \A m \in 0 .. h : m \in T /\ m # h => m + 1 \in T
    BY <1>2
  <2>2. 0 \in Nat /\ h \in 0 .. h
    OBVIOUS
  <2>3. \A m \in 0 .. h : m \in T
    BY <1>1, <2>1, <2>2, Climb
  <2> QED
    BY <2>2, <2>3
<1> QED
  BY <1>3 DEF T

\* The last line, empty till now, and an empty one after it.
NextLine(L, s) == Append(Extended(L, s), <<>>)

Fresh(L) == L \in Lines /\ L # <<>> /\ L[Len(L)] = <<>>

\* After the end of a line the next one is empty.
LEMMA NextLineIs ==
  ASSUME NEW L, Fresh(L), NEW s \in Seq(Nat)
  PROVE  /\ Fresh(NextLine(L, s))
         /\ Len(NextLine(L, s)) = Len(L) + 1
         /\ NextLine(L, s)[Len(L)] = s
         /\ \A e \in 1 .. Len(L) - 1 : NextLine(L, s)[e] = L[e]
<1> PICK T : T = Seq(Nat)
  OBVIOUS
<1> PICK n \in Nat : n = Len(L) /\ n # 0
  BY EmptySeq, LenProperties DEF Lines, Fresh
<1> PICK E : E = [L EXCEPT ![n] = s]
  OBVIOUS
<1>1. Extended(L, s) = E
  <2>1. <<>> \o s = s
    BY ConcatEmptySeq
  <2> QED
    BY <2>1 DEF Extended, Fresh
<1>2. E \in Seq(T) /\ Len(E) = n /\ \A e \in 1 .. n : E[e] = IF e = n THEN s ELSE L[e]
  <2>1. L \in Seq(T) /\ n \in 1 .. Len(L)
    BY DEF Lines, Fresh
  <2> QED
    BY <2>1, ExceptSeq
<1>3. <<>> \in T
  BY EmptySeq
<1> PICK N : N = Append(E, <<>>)
  OBVIOUS
<1>4. /\ N \in Seq(T) /\ Len(N) = n + 1
      /\ \A e \in 1 .. n : N[e] = E[e]
      /\ N[n + 1] = <<>>
  BY <1>2, <1>3, AppendProperties
<1>5. N # <<>>
  <2>1. Len(<<>>) = 0 /\ n + 1 # 0
    OBVIOUS
  <2> QED
    BY <1>4, <2>1
<1>6. N = NextLine(L, s)
  BY <1>1 DEF NextLine
<1>7. Fresh(N)
  BY <1>4, <1>5 DEF Fresh, Lines
<1>8. N[n] = s /\ \A e \in 1 .. n - 1 : N[e] = L[e]
  <2>1. n \in 1 .. n /\ \A e \in 1 .. n - 1 : e \in 1 .. n /\ e # n
    OBVIOUS
  <2> QED
    BY <1>2, <1>4, <2>1
<1> QED
  BY <1>4, <1>6, <1>7, <1>8

\* One row with the end of its line.
LEMMA LineReads ==
  ASSUME NEW w \in Nat, NEW row \in [0 .. w - 1 -> Nat], NEW L, Fresh(L)
  PROVE  /\ Row(row, w) \o <<EndOfLine>> \in Seq(Pairs)
         /\ Reads(L, Row(row, w) \o <<EndOfLine>>, NextLine(L, Rest(row, w, 0)))
<1> PICK s \in Seq(Nat) : s = Rest(row, w, 0)
  <2>1. 0 \in 0 .. w + 1
    OBVIOUS
  <2> QED
    BY <2>1, RestIs
<1>1. Row(row, w) \in Seq(Pairs) /\ Reads(L, Row(row, w), Extended(L, s))
  BY RowReads DEF Fresh
<1>2. EndOfLine \in Pairs /\ EndOfLine.cnt = 0
  BY DEF EndOfLine, Pair, Pairs
<1>3. <<EndOfLine>> \in Seq(Pairs)
  BY <1>2
<1>4. Read(Extended(L, s), EndOfLine) = NextLine(L, s)
  BY <1>2 DEF Read, NextLine
<1>5. Reads(Extended(L, s), <<EndOfLine>>, NextLine(L, s))
  BY <1>2, <1>4, ReadsOne
<1>6. Reads(L, Row(row, w) \o <<EndOfLine>>, NextLine(L, s))
  BY <1>1, <1>3, <1>5, ReadsOn
<1>7. Row(row, w) \o <<EndOfLine>> \in Seq(Pairs)
  BY <1>1, <1>3, ConcatProperties
<1> QED
  BY <1>6, <1>7

\* The file of a picture, read from its beginning: the rows from the bottom up.
LEMMA PairsRead ==
  ASSUME NEW cv, IsPicture(cv)
  PROVE  /\ BMPRLE4To(cv).pairs \in Seq(Pairs)
         /\ \E M : /\ Reads(<< <<>> >>, BMPRLE4To(cv).pairs, M)
                   /\ \A y \in 0 .. cv.height - 1 : M[cv.height - y] = Rest(cv.body[y], cv.width, 0)
<1> PICK rows_of : rows_of = cv.body
  OBVIOUS
<1> PICK w \in Nat, h \in Nat : w = cv.width /\ h = cv.height
  BY DEF IsPicture
<1>1. \A y \in 0 .. h - 1 : rows_of[y] \in [0 .. w - 1 -> Nat]
  BY DEF IsPicture
<1> DEFINE Line(y) == Rest(rows_of[y], w, 0)
           item == [y \in 0 .. h - 1 |-> Row(rows_of[y], w) \o <<EndOfLine>>]
           rows == CHOOSE f : IsStack(f, h, item)
<1>2. BMPRLE4To(cv).pairs = rows[h - 1]
  <2>1. ASSUME NEW f, NEW y \in -1 .. h - 1
        PROVE  (IF y = -1 THEN <<>> ELSE item[y] \o f[y - 1])
                 = IF y = -1 THEN <<>> ELSE Row(rows_of[y], w) \o <<EndOfLine>> \o f[y - 1]
    <3>1. y # -1 => y \in 0 .. h - 1
      OBVIOUS
    <3> QED
      BY <3>1
  <2>2. ASSUME NEW f
        PROVE  [y \in -1 .. h - 1 |-> IF y = -1 THEN <<>> ELSE item[y] \o f[y - 1]]
                 = [y \in -1 .. cv.height - 1 |->
                     IF y = -1 THEN <<>>
                     ELSE Row(cv.body[y], cv.width) \o <<EndOfLine>> \o f[y - 1]]
    BY <2>1
  <2> HIDE DEF item
  <2>3. BMPRLE4To(cv).pairs = (CHOOSE f : f = [y \in -1 .. cv.height - 1 |->
                     IF y = -1 THEN <<>>
                     ELSE Row(cv.body[y], cv.width) \o <<EndOfLine>> \o f[y - 1]])[cv.height - 1]
    BY DEF BMPRLE4To
  <2> QED
    BY <2>2, <2>3 DEF IsStack
<1>3. IsStack(rows, h, item)
  <2> HIDE DEF item
  <2>1. \E f : IsStack(f, h, item)
    BY Stacked
  <2> QED
    BY <2>1
<1> HIDE DEF rows
<1>4. \A y \in 0 .. h - 1 : rows[y] = item[y] \o rows[y - 1]
  <2>1. \A y \in 0 .. h - 1 : y \in -1 .. h - 1 /\ y # -1
    OBVIOUS
  <2> HIDE DEF item
  <2> QED
    BY <1>3, <2>1 DEF IsStack
<1>5. rows[-1] = <<>>
  <2>1. -1 \in -1 .. h - 1
    OBVIOUS
  <2> HIDE DEF item
  <2> QED
    BY <1>3, <2>1 DEF IsStack
<1>6. ASSUME NEW y \in 0 .. h - 1
      PROVE  /\ item[y] \in Seq(Pairs) /\ Line(y) \in Seq(Nat)
             /\ \A L : Fresh(L) => Reads(L, item[y], NextLine(L, Line(y)))
  <2> PICK row \in [0 .. w - 1 -> Nat] : row = rows_of[y]
    BY <1>1
  <2>1. item[y] = Row(row, w) \o <<EndOfLine>>
    OBVIOUS
  <2>2. Fresh(<< <<>> >>)
    <3> PICK T : T = Seq(Nat)
      OBVIOUS
    <3>1. <<>> \in T
      BY EmptySeq
    <3>2. << <<>> >> \in Seq(T) /\ Len(<< <<>> >>) = 1 /\ << <<>> >>[1] = <<>> /\ << <<>> >> # <<>>
      BY <3>1
    <3> QED
      BY <3>2 DEF Fresh, Lines
  <2> HIDE DEF item
  <2>3. item[y] \in Seq(Pairs)
    BY <2>1, <2>2, LineReads
  <2>4. 0 \in 0 .. w + 1
    OBVIOUS
  <2>5. Line(y) \in Seq(Nat)
    BY <2>4, RestIs
  <2>6. ASSUME NEW L, Fresh(L) PROVE Reads(L, item[y], NextLine(L, Line(y)))
    BY <2>1, <2>6, LineReads
  <2> QED
    BY <2>3, <2>5, <2>6
<1> HIDE DEF item, Line
<1> DEFINE Below(L, M, y) ==
             /\ \A e \in 1 .. Len(L) - 1 : M[e] = L[e]
             /\ \A j \in 0 .. y : M[Len(L) + j] = Line(y - j)
           Good(y) == /\ rows[y] \in Seq(Pairs)
                      /\ \A L : Fresh(L) => \E M : Reads(L, rows[y], M) /\ Below(L, M, y)
<1>7. Good(-1)
  <2>1. ASSUME NEW L PROVE Reads(L, rows[-1], L) /\ Below(L, L, -1)
    <3>1. 0 .. -1 = {}
      OBVIOUS
    <3> QED
      BY <1>5, <3>1, ReadsNothing
  <2>2. rows[-1] \in Seq(Pairs)
    BY <1>5, EmptySeq
  <2> QED
    BY <2>1, <2>2
<1>8. ASSUME NEW y \in 0 .. h - 1, Good(y - 1) PROVE Good(y)
  <2>1. ASSUME NEW L, Fresh(L) PROVE \E M : Reads(L, rows[y], M) /\ Below(L, M, y)
    <3> PICK s \in Seq(Nat) : s = Line(y)
      BY <1>6
    <3> PICK N : N = NextLine(L, s)
      OBVIOUS
    <3> PICK n \in Nat : n = Len(L) /\ n # 0
      BY <2>1, EmptySeq, LenProperties DEF Lines, Fresh
    <3>1. Fresh(N) /\ Len(N) = n + 1 /\ N[n] = s /\ \A e \in 1 .. n - 1 : N[e] = L[e]
      BY <2>1, NextLineIs
    <3>0. \E M : Reads(N, rows[y - 1], M) /\ Below(N, M, y - 1)
      <4> HIDE DEF Below
      <4> QED
        BY <1>8, <3>1
    <3> PICK M : Reads(N, rows[y - 1], M) /\ Below(N, M, y - 1)
      BY <3>0
    <3>2. Reads(L, item[y], N)
      BY <1>6, <2>1
    <3>3. Reads(L, item[y] \o rows[y - 1], M)
      BY <1>6, <1>8, <3>2, ReadsOn
    <3>4. \A e \in 1 .. n : M[e] = N[e]
      <4>1. \A e \in 1 .. n : e \in 1 .. (n + 1) - 1
        OBVIOUS
      <4> QED
        BY <3>1, <4>1
    <3>5. \A e \in 1 .. n - 1 : M[e] = L[e]
      <4>1. \A e \in 1 .. n - 1 : e \in 1 .. n
        OBVIOUS
      <4> QED
        BY <3>1, <3>4, <4>1
    <3>6. \A j \in 0 .. y - 1 : M[(n + 1) + j] = Line((y - 1) - j)
      BY <3>1
    <3>7. ASSUME NEW j \in 0 .. y PROVE M[n + j] = Line(y - j)
      <4>1. CASE j = 0
        <5>1. n + j = n /\ y - j = y /\ n \in 1 .. n
          BY <4>1
        <5> QED
          BY <3>1, <3>4, <5>1
      <4>2. CASE j # 0
        <5>1. j - 1 \in 0 .. y - 1 /\ (n + 1) + (j - 1) = n + j /\ (y - 1) - (j - 1) = y - j
          BY <4>2
        <5> QED
          BY <3>6, <5>1
      <4> QED
        BY <4>1, <4>2
    <3>8. Below(L, M, y)
      BY <3>5, <3>7
    <3> HIDE DEF Below
    <3> QED
      BY <1>4, <3>3, <3>8
  <2>2. rows[y] \in Seq(Pairs)
    BY <1>4, <1>6, <1>8, ConcatProperties
  <2> HIDE DEF Below
  <2> QED
    BY <2>1, <2>2
<1> HIDE DEF Good
<1> DEFINE T == {m \in Nat : Good(m - 1)}
<1>9. h \in T
  <2>1. 0 \in T
    BY <1>7
  <2>2. ASSUME NEW m \in 0 .. h, m \in T, m # h PROVE m + 1 \in T
    <3>1. m \in 0 .. h - 1 /\ (m + 1) - 1 = m /\ m + 1 \in Nat
      BY <2>2
    <3> QED
      BY <1>8, <2>2, <3>1
  <2> HIDE DEF T
  <2>3. \A m \in 0 .. h : m \in T /\ m # h => m + 1 \in T
    BY <2>2
  <2>4. 0 \in Nat /\ h \in 0 .. h
    OBVIOUS
  <2>5. \A m \in 0 .. h : m \in T
    BY <2>1, <2>3, <2>4, Climb
  <2> QED
    BY <2>4, <2>5
<1>10. Good(h - 1)
  BY <1>9
<1>11. Fresh(<< <<>> >>) /\ Len(<< <<>> >>) = 1
  <2> PICK S : S = Seq(Nat)
    OBVIOUS
  <2>1. <<>> \in S
    BY EmptySeq
  <2>2. << <<>> >> \in Seq(S) /\ Len(<< <<>> >>) = 1 /\ << <<>> >>[1] = <<>> /\ << <<>> >> # <<>>
    BY <2>1
  <2> QED
    BY <2>2 DEF Fresh, Lines
<1>12. PICK M : Reads(<< <<>> >>, rows[h - 1], M) /\ Below(<< <<>> >>, M, h - 1)
  <2> HIDE DEF Below
  <2> QED
    BY <1>10, <1>11 DEF Good
<1>13. \A y \in 0 .. h - 1 : M[h - y] = Line(y)
  <2>1. \A j \in 0 .. h - 1 : M[1 + j] = Line((h - 1) - j)
    BY <1>11, <1>12
  <2> SUFFICES ASSUME NEW y \in 0 .. h - 1 PROVE M[h - y] = Line(y)
    OBVIOUS
  <2>2. (h - 1) - y \in 0 .. h - 1 /\ 1 + ((h - 1) - y) = h - y /\ (h - 1) - ((h - 1) - y) = y
    OBVIOUS
  <2> QED
    BY <2>1, <2>2
<1>14. rows[h - 1] \in Seq(Pairs)
  BY <1>10 DEF Good
<1> QED
  BY <1>2, <1>12, <1>13, <1>14 DEF Line

\* What a viewer makes of a picture's file is the picture.
LEMMA BmpShows ==
  ASSUME NEW cv, IsPicture(cv)
  PROVE  Decoded(BMPRLE4To(cv)) = Shown(cv)
<1> PICK rows_of : rows_of = cv.body
  OBVIOUS
<1> PICK w \in Nat, h \in Nat : w = cv.width /\ h = cv.height
  BY DEF IsPicture
<1> PICK pairs \in Seq(Pairs) : pairs = BMPRLE4To(cv).pairs
  BY PairsRead
<1> PICK M :
      /\ Reads(<< <<>> >>, pairs, M)
      /\ \A y \in 0 .. h - 1 : M[h - y] = Rest(rows_of[y], w, 0)
  BY PairsRead
<1> PICK n \in Nat : n = Len(pairs)
  BY LenProperties
<1> PICK f : /\ f[0] = << <<>> >> /\ f[n] = M
             /\ \A m \in 1 .. n : f[m] = Read(f[m - 1], pairs[m])
  BY DEF Reads
<1> DEFINE Equation(g) == g = [m \in 0 .. n |-> IF m = 0 THEN << <<>> >> ELSE Read(g[m - 1], pairs[m])]
           lines == CHOOSE g : Equation(g)
<1>1. Equation(lines)
  <2> DEFINE g == [m \in 0 .. n |-> f[m]]
  <2>1. ASSUME NEW m \in 0 .. n PROVE f[m] = IF m = 0 THEN << <<>> >> ELSE Read(g[m - 1], pairs[m])
    <3>1. CASE m = 0
      BY <3>1
    <3>2. CASE m # 0
      <4>1. m \in 1 .. n /\ m - 1 \in 0 .. n
        BY <3>2
      <4>2. g[m - 1] = f[m - 1]
        BY <4>1
      <4> HIDE DEF g
      <4> QED
        BY <3>2, <4>1, <4>2
    <3> QED
      BY <3>1, <3>2
  <2>2. Equation(g)
    BY <2>1
  <2> HIDE DEF Equation, g
  <2>3. \E e : Equation(e)
    BY <2>2
  <2> QED
    BY <2>3
<1>2. Decoded(BMPRLE4To(cv)) = [y \in 0 .. h - 1 |-> lines[n][h - y]]
  <2>1. BMPRLE4To(cv).height = h
    BY DEF BMPRLE4To
  <2> QED
    BY <2>1 DEF Decoded
<1> HIDE DEF lines
<1>3. \A m \in 0 .. n : lines[m] = f[m]
  <2> DEFINE T == {m \in 0 .. n : lines[m] = f[m]}
  <2>1. 0 \in T
    <3>1. 0 \in 0 .. n
      OBVIOUS
    <3>2. lines[0] = << <<>> >>
      BY <1>1, <3>1
    <3> QED
      BY <3>1, <3>2
  <2>2. ASSUME NEW m \in 0 .. n, m \in T, m # n PROVE m + 1 \in T
    <3>1. m + 1 \in 0 .. n /\ m + 1 # 0 /\ (m + 1) - 1 = m /\ m + 1 \in 1 .. n
      BY <2>2
    <3>2. lines[m + 1] = Read(lines[m], pairs[m + 1])
      BY <1>1, <3>1
    <3>3. f[m + 1] = Read(f[m], pairs[m + 1])
      BY <3>1
    <3> QED
      BY <2>2, <3>1, <3>2, <3>3
  <2> HIDE DEF T
  <2>3. \A m \in 0 .. n : m \in T
    <3>1. \A m \in 0 .. n : m \in T /\ m # n => m + 1 \in T
      BY <2>2
    <3>2. 0 \in Nat
      OBVIOUS
    <3> QED
      BY <2>1, <3>1, <3>2, Climb
  <2> QED
    BY <2>3 DEF T
<1>4. lines[n] = M
  <2>1. n \in 0 .. n
    OBVIOUS
  <2> QED
    BY <1>3, <2>1
<1>5. Shown(cv) = [y \in 0 .. h - 1 |-> Rest(rows_of[y], w, 0)]
  <2>1. ASSUME NEW y \in 0 .. h - 1
        PROVE  [x \in 1 .. w |-> rows_of[y][x - 1]] = Rest(rows_of[y], w, 0)
    <3>1. w - 0 = w /\ \A x \in 1 .. w : 0 + x - 1 = x - 1
      OBVIOUS
    <3> QED
      BY <3>1 DEF Rest
  <2>2. Shown(cv) = [y \in 0 .. h - 1 |-> [x \in 1 .. w |-> rows_of[y][x - 1]]]
    BY DEF Shown
  <2> QED
    BY <2>1, <2>2
<1> HIDE DEF Equation
<1> QED
  BY <1>2, <1>4, <1>5

IsBody(W, H, b) == b \in [0 .. H - 1 -> [0 .. W - 1 -> Nat]]

Screen(W, H, b) == [width |-> W, height |-> H, body |-> b]

\* Rows of a screen with a picture on them: where it has a point, it is shown.
Over(W, H, b, x, y, img) ==
  [j \in 0 .. H - 1 |-> [e \in 0 .. W - 1 |->
     IF j - y \in 0 .. img.height - 1 /\ e - x \in 0 .. img.width - 1
     THEN img.body[j - y][e - x] ELSE b[j][e]]]

\* GrBlot with its clipping at all four sides is what Over says.
LEMMA GrBlotIs ==
  ASSUME NEW W \in Nat, NEW H \in Nat, NEW b, IsBody(W, H, b),
         NEW x \in Int, NEW y \in Int, NEW img, IsPicture(img)
  PROVE  GrBlot(Screen(W, H, b), x, y, img) = Screen(W, H, Over(W, H, b, x, y, img))
<1>0. b \in [0 .. H - 1 -> [0 .. W - 1 -> Nat]]
  BY DEF IsBody
<1> PICK dc : dc = [width |-> W, height |-> H, body |-> b]
  OBVIOUS
<1> PICK B : B = img.body
  OBVIOUS
<1> PICK w \in Nat, h \in Nat : w = img.width /\ h = img.height
  BY DEF IsPicture
<1> DEFINE w1 == IF x < 0 THEN -x ELSE 0
           h1 == IF y < 0 THEN -y ELSE 0
           w2 == IF x + w > W THEN W - x ELSE w
           h2 == IF y + h > H THEN H - y ELSE h
           copied(e, j) == w1 <= e /\ e < w2 /\ h1 <= j /\ j < h2
           some == w1 < w2 /\ w2 <= w /\ h1 < h2 /\ h2 <= h
           new == [j \in 0 .. H - 1 |-> [e \in 0 .. W - 1 |->
                     IF j - y \in 0 .. h - 1 /\ e - x \in 0 .. w - 1 THEN B[j - y][e - x] ELSE b[j][e]]]
<1>1. DOMAIN b = 0 .. H - 1 /\ \A j \in 0 .. H - 1 : DOMAIN b[j] = 0 .. W - 1
  BY <1>0
<1>2. GrBlot(dc, x, y, img) =
        IF some
        THEN [dc EXCEPT !.body =
               [j \in 0 .. H - 1 |-> [e \in 0 .. W - 1 |->
                  IF copied(e - x, j - y) THEN B[j - y][e - x] ELSE b[j][e]]]]
        ELSE dc
  <2>1. GrBlot(dc, x, y, img) =
        IF some
        THEN [dc EXCEPT !.body =
               [j \in DOMAIN b |-> [e \in DOMAIN b[j] |->
                  IF copied(e - x, j - y) THEN B[j - y][e - x] ELSE b[j][e]]]]
        ELSE dc
    BY DEF GrBlot
  <2> HIDE DEF some, copied
  <2>2. [j \in DOMAIN b |-> [e \in DOMAIN b[j] |->
                  IF copied(e - x, j - y) THEN B[j - y][e - x] ELSE b[j][e]]]
         = [j \in 0 .. H - 1 |-> [e \in 0 .. W - 1 |->
                  IF copied(e - x, j - y) THEN B[j - y][e - x] ELSE b[j][e]]]
    BY <1>1
  <2> QED
    BY <2>1, <2>2
<1>5. new = Over(W, H, b, x, y, img)
  BY DEF Over
<1>3. CASE some
  <2>1. ASSUME NEW j \in 0 .. H - 1, NEW e \in 0 .. W - 1
        PROVE  copied(e - x, j - y) <=> j - y \in 0 .. h - 1 /\ e - x \in 0 .. w - 1
    <3>1. w1 <= e - x /\ e - x < w2 <=> e - x \in 0 .. w - 1
      BY ONLY x \in Int, w \in Nat, W \in Nat, e \in 0 .. W - 1
    <3>2. h1 <= j - y /\ j - y < h2 <=> j - y \in 0 .. h - 1
      BY ONLY y \in Int, h \in Nat, H \in Nat, j \in 0 .. H - 1
    <3> QED
      BY <3>1, <3>2
  <2> HIDE DEF copied, some
  <2>2. [j \in 0 .. H - 1 |-> [e \in 0 .. W - 1 |->
                  IF copied(e - x, j - y) THEN B[j - y][e - x] ELSE b[j][e]]] = new
    BY <2>1
  <2> HIDE DEF new
  <2>3. GrBlot(dc, x, y, img) = [dc EXCEPT !.body = new]
    BY <1>2, <1>3, <2>2
  <2>4. [dc EXCEPT !.body = new] = [width |-> W, height |-> H, body |-> new]
    OBVIOUS
  <2> QED
    BY <1>5, <2>3, <2>4 DEF Screen
<1>4. CASE ~some
  <2>1. ASSUME NEW j \in 0 .. H - 1, NEW e \in 0 .. W - 1
        PROVE  ~(j - y \in 0 .. h - 1 /\ e - x \in 0 .. w - 1)
    <3>1. e - x \in 0 .. w - 1 => w1 < w2 /\ w2 <= w
      BY ONLY x \in Int, w \in Nat, W \in Nat, e \in 0 .. W - 1
    <3>2. j - y \in 0 .. h - 1 => h1 < h2 /\ h2 <= h
      BY ONLY y \in Int, h \in Nat, H \in Nat, j \in 0 .. H - 1
    <3> QED
      BY <1>4, <3>1, <3>2
  <2>2. new = b
    <3>1. new = [j \in 0 .. H - 1 |-> [e \in 0 .. W - 1 |-> b[j][e]]]
      BY <2>1
    <3> QED
      BY <1>0, <3>1
  <2> HIDE DEF some, copied, new
  <2>3. GrBlot(dc, x, y, img) = [width |-> W, height |-> H, body |-> new]
    BY <1>2, <1>4, <2>2
  <2> QED
    BY <1>5, <2>3 DEF Screen
<1> QED
  BY <1>3, <1>4

-----------------------------------------------------------------------------
\* The shots that have a point, and what is seen there after so many shots.
Seen(n, x, y) == {l \in 1 .. n : /\ y - shots[l].y0 \in 0 .. shots[l].img.height - 1
                                 /\ x - shots[l].x0 \in 0 .. shots[l].img.width - 1}
OfLast(seen, x, y) ==
  IF seen = {} THEN 0
  ELSE LET dc == shots[CHOOSE l \in seen : \A j \in seen : j <= l]
       IN  dc.img.body[y - dc.y0][x - dc.x0]
Point(n, x, y) == OfLast(Seen(n, x, y), x, y)

\* The screen after so many shots, as a picture.
Canvas(n) == [width |-> GR_WIDTH, height |-> GR_HEIGHT,
              body |-> [y \in 0 .. GR_HEIGHT - 1 |-> [x \in 0 .. GR_WIDTH - 1 |-> Point(n, x, y)]]]

\* A viewer is shown the screen as the recording has it.
LEMMA ScreenIs == ASSUME NEW n PROVE Shown(Canvas(n)) = ScreenAfter(n)
<1>1. Shown(Canvas(n)) = [y \in 0 .. GR_HEIGHT - 1 |-> [x \in 1 .. GR_WIDTH |-> Point(n, x - 1, y)]]
  <2>1. ASSUME NEW y \in 0 .. GR_HEIGHT - 1, NEW x \in 1 .. GR_WIDTH
        PROVE  Canvas(n).body[y][x - 1] = Point(n, x - 1, y)
    <3>1. x - 1 \in 0 .. GR_WIDTH - 1
      BY MovieAssumption
    <3> QED
      BY <3>1 DEF Canvas
  <2>2. Canvas(n).width = GR_WIDTH /\ Canvas(n).height = GR_HEIGHT
    BY DEF Canvas
  <2> QED
    BY <2>1, <2>2 DEF Shown
<1>2. ScreenAfter(n) = [y \in 0 .. GR_HEIGHT - 1 |-> [x \in 1 .. GR_WIDTH |-> Point(n, x - 1, y)]]
  BY DEF ScreenAfter, Point, OfLast, Seen
<1> QED
  BY <1>1, <1>2

\* A shot changes the points it has and no other.
LEMMA PointIs ==
  ASSUME IsRecording(shots), NEW n \in 0 .. Len(shots), NEW x \in Int, NEW y \in Int
  PROVE  /\ Point(n, x, y) \in Nat
         /\ n = 0 => Point(n, x, y) = 0
         /\ n # 0 => Point(n, x, y) = IF n \in Seen(n, x, y)
                                     THEN shots[n].img.body[y - shots[n].y0][x - shots[n].x0]
                                     ELSE Point(n - 1, x, y)
<1>1. Len(shots) \in Nat /\ DOMAIN shots = 1 .. Len(shots)
  BY LenProperties DEF IsRecording
<1>2. n \in Nat
  BY <1>1
<1> DEFINE S == Seen(n, x, y)
           Last_(l) == l \in S /\ \A j \in S : j <= l
           top == CHOOSE l \in S : \A j \in S : j <= l
           at(l) == shots[l].img.body[y - shots[l].y0][x - shots[l].x0]
<1>3. S \in SUBSET Nat /\ S \subseteq 1 .. n /\ \A l \in S : l <= n
  BY <1>2 DEF Seen
<1>4. S # {} => Last_(top)
  <2> SUFFICES ASSUME S # {} PROVE Last_(top)
    OBVIOUS
  <2> HIDE DEF S
  <2>1. Max(S) \in S /\ \A l \in S : l <= Max(S)
    BY <1>2, <1>3, MaxInSet
  <2> QED
    BY <2>1
<1>5. Point(n, x, y) = IF S = {} THEN 0 ELSE at(top)
  BY DEF Point, OfLast
<1>6. ASSUME NEW l \in S PROVE at(l) \in Nat
  <2>1. /\ y - shots[l].y0 \in 0 .. shots[l].img.height - 1
        /\ x - shots[l].x0 \in 0 .. shots[l].img.width - 1
    BY <1>6 DEF Seen
  <2>2. IsPicture(shots[l].img)
    <3>1. l \in DOMAIN shots
      BY <1>1, <1>2, <1>3
    <3> QED
      BY <3>1 DEF IsRecording
  <2> PICK u, v, img : img = shots[l].img /\ u = y - shots[l].y0 /\ v = x - shots[l].x0
    OBVIOUS
  <2>3. img.body \in [0 .. img.height - 1 -> [0 .. img.width - 1 -> Nat]]
    BY <2>2 DEF IsPicture
  <2>4. img.body[u][v] \in Nat
    BY <2>1, <2>3
  <2> QED
    BY <2>4
<1> HIDE DEF top
<1>7. Point(n, x, y) \in Nat
  <2> HIDE DEF at, S
  <2> QED
    BY <1>4, <1>5, <1>6
<1>8. n = 0 => Point(n, x, y) = 0
  <2> HIDE DEF at
  <2>1. n = 0 => S = {}
    BY <1>3
  <2> QED
    BY <1>5, <2>1
<1>9. ASSUME n # 0
      PROVE Point(n, x, y) = IF n \in S THEN at(n) ELSE Point(n - 1, x, y)
  <2>1. CASE n \in S
    <3>1. S # {} /\ \A j \in S : j <= n
      BY <1>3, <2>1
    <3>2. top = n
      <4>1. top \in S /\ n <= top /\ top <= n
        BY <1>3, <1>4, <2>1
      <4> QED
        BY <1>2, <1>3, <4>1
    <3> HIDE DEF at
    <3> QED
      BY <1>5, <2>1, <3>1, <3>2
  <2>2. CASE n \notin S
    <3>1. Seen(n - 1, x, y) = S
      <4>1. \A l \in S : l # n
        BY <2>2
      <4>2. \A l : l \in 1 .. n /\ l # n <=> l \in 1 .. n - 1
        BY <1>2, <1>9
      <4> QED
        BY <4>1, <4>2 DEF Seen
    <3>2. Point(n - 1, x, y) = Point(n, x, y)
      <4>1. Seen(n - 1, x, y) = Seen(n, x, y)
        BY <3>1
      <4> QED
        BY ONLY <4>1 DEF Point
    <3> HIDE DEF S
    <3> QED
      BY <2>2, <3>2
  <2> QED
    BY <2>1, <2>2
<1> QED
  BY <1>7, <1>8, <1>9

\* The screen after so many shots is a picture, and its file shows it; before
\* the first shot it is blank.
LEMMA CanvasIs ==
  ASSUME IsRecording(shots), NEW n \in 0 .. Len(shots)
  PROVE  /\ IsPicture(Canvas(n))
         /\ Decoded(BMPRLE4To(Canvas(n))) = ScreenAfter(n)
         /\ n = 0 => Canvas(n) = Blank(GR_WIDTH, GR_HEIGHT)
<1>1. \A x \in 0 .. GR_WIDTH - 1, y \in 0 .. GR_HEIGHT - 1 :
        Point(n, x, y) \in Nat /\ (n = 0 => Point(n, x, y) = 0)
  <2>1. \A x \in 0 .. GR_WIDTH - 1, y \in 0 .. GR_HEIGHT - 1 : x \in Int /\ y \in Int
    BY MovieAssumption
  <2> QED
    BY <2>1, PointIs
<1>2. IsPicture(Canvas(n))
  <2>1. [y \in 0 .. GR_HEIGHT - 1 |-> [x \in 0 .. GR_WIDTH - 1 |-> Point(n, x, y)]]
          \in [0 .. GR_HEIGHT - 1 -> [0 .. GR_WIDTH - 1 -> Nat]]
    BY <1>1
  <2> QED
    BY <2>1, MovieAssumption DEF IsPicture, Canvas
<1>3. ASSUME n = 0 PROVE Canvas(n) = Blank(GR_WIDTH, GR_HEIGHT)
  <2>1. [y \in 0 .. GR_HEIGHT - 1 |-> [x \in 0 .. GR_WIDTH - 1 |-> Point(n, x, y)]]
          = [y \in 0 .. GR_HEIGHT - 1 |-> [x \in 0 .. GR_WIDTH - 1 |-> 0]]
    BY <1>1, <1>3
  <2> QED
    BY <2>1 DEF Blank, Canvas
<1>4. Decoded(BMPRLE4To(Canvas(n))) = ScreenAfter(n)
  BY <1>2, BmpShows, ScreenIs
<1> QED
  BY <1>2, <1>3, <1>4

\* The next shot, drawn on the screen, gives the next screen.
LEMMA CanvasNext ==
  ASSUME IsRecording(shots), NEW n \in 1 .. Len(shots)
  PROVE  GrBlot(Canvas(n - 1), shots[n].x0, shots[n].y0, shots[n].img) = Canvas(n)
<1>1. Len(shots) \in Nat /\ DOMAIN shots = 1 .. Len(shots)
  BY LenProperties DEF IsRecording
<1>2. n - 1 \in 0 .. Len(shots) /\ n \in 0 .. Len(shots) /\ n # 0 /\ n \in 1 .. n
  BY <1>1
<1> PICK x0 \in Int, y0 \in Int : x0 = shots[n].x0 /\ y0 = shots[n].y0
  BY <1>1 DEF IsRecording
<1> PICK img : img = shots[n].img /\ IsPicture(img)
  BY <1>1 DEF IsRecording
<1> PICK W \in Nat, H \in Nat : W = GR_WIDTH /\ H = GR_HEIGHT
  BY MovieAssumption
<1> DEFINE b == [y \in 0 .. H - 1 |-> [x \in 0 .. W - 1 |-> Point(n - 1, x, y)]]
           on(x, y) == y - y0 \in 0 .. img.height - 1 /\ x - x0 \in 0 .. img.width - 1
<1>3. b \in [0 .. H - 1 -> [0 .. W - 1 -> Nat]]
  <2>1. ASSUME NEW x \in 0 .. W - 1, NEW y \in 0 .. H - 1 PROVE Point(n - 1, x, y) \in Nat
    <3>1. x \in Int /\ y \in Int
      OBVIOUS
    <3> QED
      BY <1>2, <3>1, PointIs
  <2> QED
    BY <2>1
<1>4. ASSUME NEW x \in 0 .. W - 1, NEW y \in 0 .. H - 1
      PROVE  Point(n, x, y) = IF y - y0 \in 0 .. img.height - 1 /\ x - x0 \in 0 .. img.width - 1
                              THEN img.body[y - y0][x - x0] ELSE b[y][x]
  <2>1. n \in Seen(n, x, y) <=> on(x, y)
    BY <1>2 DEF Seen
  <2>2. x \in Int /\ y \in Int
    OBVIOUS
  <2>3. Point(n, x, y) = IF n \in Seen(n, x, y)
                          THEN shots[n].img.body[y - shots[n].y0][x - shots[n].x0]
                          ELSE Point(n - 1, x, y)
    <3>1. n \in 0 .. Len(shots) /\ n # 0
      BY <1>2, Zenon
    <3>2. n # 0 => Point(n, x, y) = IF n \in Seen(n, x, y)
                                    THEN shots[n].img.body[y - shots[n].y0][x - shots[n].x0]
                                    ELSE Point(n - 1, x, y)
      BY ONLY <2>2, <3>1, IsRecording(shots), PointIs
    <3> QED
      BY <3>1, <3>2, Zenon
  <2> QED
    BY <2>1, <2>3
<1>5. Canvas(n - 1) = Screen(W, H, b)
  BY DEF Canvas, Screen
<1> HIDE DEF b
<1>6. GrBlot(Canvas(n - 1), x0, y0, img) = Screen(W, H, Over(W, H, b, x0, y0, img))
  <2>1. IsBody(W, H, b)
    BY <1>3 DEF IsBody
  <2>2. GrBlot(Screen(W, H, b), x0, y0, img) = Screen(W, H, Over(W, H, b, x0, y0, img))
    BY <2>1, GrBlotIs
  <2> QED
    BY <1>5, <2>2
<1>7. Over(W, H, b, x0, y0, img) = [y \in 0 .. H - 1 |-> [x \in 0 .. W - 1 |-> Point(n, x, y)]]
  <2>1. Over(W, H, b, x0, y0, img)
          = [y \in 0 .. H - 1 |-> [x \in 0 .. W - 1 |->
               IF y - y0 \in 0 .. img.height - 1 /\ x - x0 \in 0 .. img.width - 1
               THEN img.body[y - y0][x - x0] ELSE b[y][x]]]
    BY DEF Over
  <2> DEFINE blotted(y) == [x \in 0 .. W - 1 |->
                  IF y - y0 \in 0 .. img.height - 1 /\ x - x0 \in 0 .. img.width - 1
                  THEN img.body[y - y0][x - x0] ELSE b[y][x]]
             shown(y) == [x \in 0 .. W - 1 |-> Point(n, x, y)]
  <2>2. ASSUME NEW y \in 0 .. H - 1
        PROVE  blotted(y) = shown(y)
    BY <1>4
  <2>3. Over(W, H, b, x0, y0, img) = [y \in 0 .. H - 1 |-> blotted(y)]
    BY <2>1, Zenon
  <2>4. [y \in 0 .. H - 1 |-> blotted(y)] = [y \in 0 .. H - 1 |-> shown(y)]
    <3> HIDE DEF blotted, shown
    <3> QED
      BY <2>2
  <2> QED
    BY <2>3, <2>4, Zenon
<1> HIDE DEF on
<1> QED
  BY <1>6, <1>7 DEF Canvas, Screen

\* The whole screen drawn on a blank one.
LEMMA CanvasWhole ==
  ASSUME IsRecording(shots), NEW n \in 0 .. Len(shots)
  PROVE  GrBlot(Blank(GR_WIDTH, GR_HEIGHT), 0, 0, Canvas(n)) = Canvas(n)
<1> PICK W \in Nat, H \in Nat : W = GR_WIDTH /\ H = GR_HEIGHT
  BY MovieAssumption
<1> PICK img : img = Canvas(n)
  OBVIOUS
<1> DEFINE b == [y \in 0 .. H - 1 |-> [x \in 0 .. W - 1 |-> 0]]
<1>1. IsPicture(img)
  BY CanvasIs
<1>2. img.width = W /\ img.height = H /\ img = [width |-> W, height |-> H, body |-> img.body]
  BY DEF Canvas
<1>3. b \in [0 .. H - 1 -> [0 .. W - 1 -> Nat]]
  OBVIOUS
<1>4. Blank(W, H) = Screen(W, H, b)
  BY DEF Blank, Screen
<1> HIDE DEF b
<1>5. 0 \in Int
  OBVIOUS
<1>6. GrBlot(Blank(W, H), 0, 0, img) = Screen(W, H, Over(W, H, b, 0, 0, img))
  <2>1. IsBody(W, H, b)
    BY <1>3 DEF IsBody
  <2>2. GrBlot(Screen(W, H, b), 0, 0, img) = Screen(W, H, Over(W, H, b, 0, 0, img))
    BY <1>1, <1>5, <2>1, GrBlotIs
  <2> QED
    BY <1>4, <2>2
<1>7. ASSUME NEW x \in 0 .. W - 1, NEW y \in 0 .. H - 1
      PROVE  (IF y - 0 \in 0 .. img.height - 1 /\ x - 0 \in 0 .. img.width - 1
              THEN img.body[y - 0][x - 0] ELSE b[y][x]) = img.body[y][x]
  BY <1>2
<1>8. Over(W, H, b, 0, 0, img) = [y \in 0 .. H - 1 |-> [x \in 0 .. W - 1 |-> img.body[y][x]]]
  <2>1. Over(W, H, b, 0, 0, img)
          = [y \in 0 .. H - 1 |-> [x \in 0 .. W - 1 |->
               IF y - 0 \in 0 .. img.height - 1 /\ x - 0 \in 0 .. img.width - 1
               THEN img.body[y - 0][x - 0] ELSE b[y][x]]]
    BY DEF Over
  <2>2. ASSUME NEW y \in 0 .. H - 1
        PROVE  [x \in 0 .. W - 1 |->
                  IF y - 0 \in 0 .. img.height - 1 /\ x - 0 \in 0 .. img.width - 1
                  THEN img.body[y - 0][x - 0] ELSE b[y][x]]
                 = [x \in 0 .. W - 1 |-> img.body[y][x]]
    BY <1>7
  <2> QED
    BY <2>1, <2>2
<1>9. img.body = [y \in 0 .. H - 1 |-> [x \in 0 .. W - 1 |-> img.body[y][x]]]
  BY <1>1, <1>2 DEF IsPicture
<1> QED
  BY <1>2, <1>6, <1>8, <1>9 DEF Screen

Times == [date : Nat, time : 0 .. Day - 1]

\* When a shot was taken; and how many frames are due until then.
At(n) == Ticks(shots[n].cdt)
Due(n) == IF n = 0 THEN 0 ELSE (At(n) - At(1)) \div FrameStep + 1

\* A time is a number of ticks, and the clock that has not started is none.
LEMMA TicksAre ==
  ASSUME NEW cdt \in Times
  PROVE  Ticks(cdt) \in Nat /\ cdt # Never
<1> PICK d \in Nat, t \in Nat : d = cdt.date /\ t = cdt.time
  BY MovieAssumption DEF Times
<1> PICK D \in Nat : D = Day
  BY MovieAssumption
<1>1. d * D \in Nat
  OBVIOUS
<1>2. Ticks(cdt) \in Nat
  BY <1>1 DEF Ticks
<1>3. Never.date = -1 /\ d # -1
  BY DEF Never
<1> QED
  BY <1>2, <1>3

\* What is known of every shot.
LEMMA ShotIs ==
  ASSUME IsRecording(shots)
  PROVE  /\ Len(shots) \in Nat /\ DOMAIN shots = 1 .. Len(shots)
         /\ \A n \in 1 .. Len(shots) :
              /\ shots[n].cdt \in Times /\ shots[n].x0 \in Int /\ shots[n].y0 \in Int
              /\ IsPicture(shots[n].img)
              /\ At(n) \in Nat
         /\ \A m, n \in 1 .. Len(shots) : m <= n => At(m) <= At(n)
<1>1. Len(shots) \in Nat /\ DOMAIN shots = 1 .. Len(shots)
  BY LenProperties DEF IsRecording
<1>2. ASSUME NEW n \in 1 .. Len(shots)
      PROVE  /\ shots[n].cdt \in Times /\ shots[n].x0 \in Int /\ shots[n].y0 \in Int
             /\ IsPicture(shots[n].img)
             /\ At(n) \in Nat
  <2>1. /\ shots[n].cdt \in Times /\ shots[n].x0 \in Int /\ shots[n].y0 \in Int
        /\ IsPicture(shots[n].img)
    BY <1>1 DEF IsRecording, Times
  <2> QED
    BY <2>1, TicksAre DEF At
<1>3. ASSUME NEW m \in 1 .. Len(shots), NEW n \in 1 .. Len(shots), m <= n PROVE At(m) <= At(n)
  <2>1. CASE m = n
    BY <1>2, <2>1
  <2>2. CASE m # n
    <3>1. m < n
      BY <1>1, <1>3, <2>2
    <3> QED
      BY <1>1, <3>1 DEF IsRecording, At
  <2> QED
    BY <2>1, <2>2
<1> QED
  BY <1>1, <1>2, <1>3

\* How often a step fits into a time: at n + 1 ticks, from 0 on, up to it.
LEMMA Fits ==
  ASSUME NEW time \in Nat, NEW n \in Nat
  PROVE  /\ time \div FrameStep \in Nat
         /\ n < time \div FrameStep + 1 <=> n * FrameStep <= time
<1> PICK F \in Nat : F = FrameStep /\ F # 0
  BY MovieAssumption
<1> DEFINE q == time \div F
           r == time % F
<1>1. q \in Nat /\ r \in 0 .. F - 1 /\ time = F * q + r
  OBVIOUS
<1> HIDE DEF q, r
<1> PICK p \in Nat, s \in Nat : p = q * F /\ s = n * F
  BY <1>1
<1>2. time = p + r
  BY <1>1
<1>3. n <= q => s <= p
  BY <1>1, TimesMonotone
<1>4. ~(n <= q) => p + F <= s
  <2> SUFFICES ASSUME ~(n <= q) PROVE p + F <= s
    OBVIOUS
  <2>1. q + 1 <= n /\ q + 1 \in Nat
    BY <1>1
  <2>2. (q + 1) * F <= n * F
    BY <2>1, TimesMonotone
  <2>3. (q + 1) * F = p + F
    BY <1>1
  <2> QED
    BY <2>2, <2>3
<1>5. n < q + 1 <=> s <= time
  <2>1. n <= q \/ ~(n <= q)
    OBVIOUS
  <2>2. n < q + 1 <=> n <= q
    BY <1>1
  <2>3. n <= q => s <= time
    BY <1>1, <1>2, <1>3
  <2>4. ~(n <= q) => ~(s <= time)
    BY <1>1, <1>2, <1>4
  <2> QED
    BY <2>1, <2>2, <2>3, <2>4
<1> QED
  BY <1>1, <1>5 DEF q

\* A frame is due by a shot if its tick is not after the shot.
LEMMA DueIs ==
  ASSUME IsRecording(shots), NEW m \in 0 .. Len(shots)
  PROVE  /\ Due(m) \in Nat
         /\ m = 0 => Due(m) = 0
         /\ m # 0 => \A n \in Nat : /\ n * FrameStep \in Nat
                                    /\ n < Due(m) <=> At(1) + n * FrameStep <= At(m)
<1>1. Len(shots) \in Nat
  BY ShotIs
<1>2. CASE m = 0
  BY <1>2 DEF Due
<1>3. CASE m # 0
  <2>1. 1 \in 1 .. Len(shots) /\ m \in 1 .. Len(shots) /\ 1 <= m
    BY <1>1, <1>3
  <2> PICK a \in Nat, b \in Nat : a = At(1) /\ b = At(m) /\ a <= b
    BY <2>1, ShotIs
  <2> PICK time \in Nat : time = b - a
    <3>1. b - a \in Nat
      OBVIOUS
    <3> QED
      BY <3>1
  <2>2. Due(m) = time \div FrameStep + 1
    BY <1>3 DEF Due
  <2>3. time \div FrameStep \in Nat
    BY Fits
  <2>4. ASSUME NEW n \in Nat
        PROVE  /\ n * FrameStep \in Nat
               /\ n < Due(m) <=> At(1) + n * FrameStep <= At(m)
    <3> PICK F \in Nat : F = FrameStep
      BY MovieAssumption
    <3> PICK p \in Nat : p = n * FrameStep
      <4>1. n * F \in Nat
        OBVIOUS
      <4> QED
        BY <4>1
    <3>1. n < Due(m) <=> p <= time
      BY <2>2, Fits
    <3>2. p <= time <=> a + p <= b
      OBVIOUS
    <3> QED
      BY <3>1, <3>2
  <2>5. Due(m) \in Nat
    BY <2>2, <2>3
  <2> QED
    BY <1>3, <2>4, <2>5
<1> QED
  BY <1>2, <1>3

\* Later shots have no fewer frames due.
LEMMA DueMonotone ==
  ASSUME IsRecording(shots), NEW m \in 0 .. Len(shots), NEW n \in 0 .. Len(shots), m <= n
  PROVE  Due(m) <= Due(n)
<1>1. Len(shots) \in Nat
  BY ShotIs
<1> PICK a \in Nat, b \in Nat : a = Due(m) /\ b = Due(n)
  BY DueIs
<1>2. CASE m = 0
  BY <1>2, DueIs
<1>3. CASE m # 0
  <2> SUFFICES ASSUME ~(a <= b) PROVE FALSE
    OBVIOUS
  <2>1. b < a /\ ~(b < b) /\ n # 0 /\ m \in 1 .. Len(shots) /\ n \in 1 .. Len(shots)
    BY <1>1, <1>3
  <2>2. At(1) + b * FrameStep <= At(m)
    BY <1>3, <2>1, DueIs
  <2>3. ~(At(1) + b * FrameStep <= At(n))
    BY <2>1, DueIs
  <2>4. At(m) <= At(n) /\ At(m) \in Nat /\ At(n) \in Nat /\ At(1) \in Nat
    <3>1. 1 \in 1 .. Len(shots)
      BY <1>1, <2>1
    <3> QED
      BY <2>1, <3>1, ShotIs
  <2> PICK p \in Nat : p = At(1) + b * FrameStep
    <3>1. b * FrameStep \in Nat
      BY <1>3, DueIs
    <3> QED
      BY <2>4, <3>1
  <2> QED
    BY <2>2, <2>3, <2>4
<1> QED
  BY <1>2, <1>3

\* The recording has the frames that are due until its last shot, and each
\* shows the screen after the first shot it is due at.
LEMMA RecordedIs ==
  ASSUME IsRecording(shots)
  PROVE  /\ Recorded = [n \in 1 .. Due(Len(shots)) |-> Recorded[n]]
         /\ \A m \in 1 .. Len(shots), n \in Nat :
              Due(m - 1) <= n /\ n < Due(m) => Recorded[n + 1] = ScreenAfter(m)
<1> PICK L \in Nat : L = Len(shots)
  BY ShotIs
<1>1. shots = <<>> <=> L = 0
  BY EmptySeq DEF IsRecording
<1>2. CASE L = 0
  <2>1. Recorded = <<>> /\ Due(L) = 0
    BY <1>1, <1>2 DEF Recorded, Due
  <2>2. 1 .. 0 = {}
    OBVIOUS
  <2>3. <<>> = [n \in 1 .. 0 |-> Recorded[n]]
    BY <2>2
  <2>4. 1 .. Len(shots) = {}
    BY <1>2
  <2> QED
    BY <2>1, <2>3, <2>4
<1>3. CASE L # 0
  <2> DEFINE first(time) == CHOOSE l \in 1 .. Len(shots) :
                              At(l) >= time /\ \A j \in 1 .. l - 1 : At(j) < time
  <2>1. Recorded = [n \in 1 .. (At(Len(shots)) - At(1)) \div FrameStep + 1 |->
                      ScreenAfter(first(At(1) + (n - 1) * FrameStep))]
    BY <1>1, <1>3 DEF Recorded, At
  <2>2. Due(L) = (At(L) - At(1)) \div FrameStep + 1
    BY <1>3 DEF Due
  <2> HIDE DEF first
  <2>3. Recorded = [n \in 1 .. Due(L) |-> ScreenAfter(first(At(1) + (n - 1) * FrameStep))]
    BY <2>1, <2>2
  <2>4. ASSUME NEW m \in 1 .. L, NEW n \in Nat, Due(m - 1) <= n, n < Due(m)
        PROVE  Recorded[n + 1] = ScreenAfter(m)
    <3>1. m \in 0 .. L /\ m # 0 /\ m - 1 \in 0 .. L /\ m <= L /\ L \in 0 .. L
      OBVIOUS
    <3>2. n + 1 \in 1 .. Due(L) /\ (n + 1) - 1 = n
      <4> PICK a \in Nat, b \in Nat : a = Due(m) /\ b = Due(L)
        BY <3>1, DueIs
      <4>1. a <= b
        BY <3>1, DueMonotone
      <4> QED
        BY <2>4, <4>1
    <3> PICK time : time = At(1) + n * FrameStep
      OBVIOUS
    <3>3. At(m) >= time
      <4>1. time <= At(m)
        BY <2>4, <3>1, DueIs
      <4>2. time \in Nat /\ At(m) \in Nat
        <5>1. 1 \in 1 .. L /\ n * FrameStep \in Nat
          BY <1>3, <3>1, DueIs
        <5> QED
          BY <5>1, ShotIs
      <4> QED
        BY <4>1, <4>2
    <3>4. time \in Nat
      <4>1. 1 \in 1 .. L /\ n * FrameStep \in Nat
        BY <1>3, <3>1, DueIs
      <4> QED
        BY <4>1, ShotIs
    <3>5. ASSUME NEW j \in 1 .. m - 1 PROVE At(j) < time
      <4>1. j \in 0 .. L /\ j # 0 /\ j <= m - 1 /\ j \in 1 .. L
        OBVIOUS
      <4> PICK a \in Nat, b \in Nat : a = Due(j) /\ b = Due(m - 1)
        BY <3>1, <4>1, DueIs
      <4>2. a <= b
        BY <3>1, <4>1, DueMonotone
      <4>3. ~(n < Due(j))
        BY <2>4, <4>2
      <4>4. ~(time <= At(j))
        BY <4>1, <4>3, DueIs
      <4>5. At(j) \in Nat
        BY <4>1, ShotIs
      <4> QED
        BY <3>4, <4>4, <4>5
    <3>6. ASSUME NEW l \in 1 .. L, At(l) >= time, \A j \in 1 .. l - 1 : At(j) < time PROVE l = m
      <4>1. CASE l < m
        <5>1. l \in 1 .. m - 1
          BY <4>1
        <5>2. At(l) < time /\ At(l) \in Nat
          BY <3>5, <5>1, ShotIs
        <5> QED
          BY <3>4, <3>6, <5>2
      <4>2. CASE m < l
        <5>1. m \in 1 .. l - 1
          BY <4>2
        <5>2. At(m) < time /\ At(m) \in Nat
          BY <3>6, <5>1, ShotIs
        <5> QED
          BY <3>3, <3>4, <5>2
      <4> QED
        BY <4>1, <4>2
    <3>7. first(time) = m
      <4> DEFINE First(l) == At(l) >= time /\ \A j \in 1 .. l - 1 : At(j) < time
      <4>1. First(m)
        BY <3>3, <3>5
      <4>2. \A l \in 1 .. L : First(l) => l = m
        BY <3>6
      <4>3. first(time) = CHOOSE l \in 1 .. L : First(l)
        BY DEF first
      <4> HIDE DEF First
      <4> QED
        BY <4>1, <4>2, <4>3
    <3> QED
      BY <2>3, <3>2, <3>7
  <2>5. Recorded = [n \in 1 .. Due(L) |-> Recorded[n]]
    BY <2>3
  <2> QED
    BY <2>4, <2>5
<1> QED
  BY <1>2, <1>3

\* The clock goes on by one frame, whichever edition.
LEMMA ClockGoesOn ==
  ASSUME NEW cdt \in Times
  PROVE  /\ NextDate(cdt) \in Times /\ Ticks(NextDate(cdt)) = Ticks(cdt) + FrameStep
         /\ Next64(cdt) \in Times /\ Ticks(Next64(cdt)) = Ticks(cdt) + FrameStep
<1> PICK D \in Nat, F \in Nat : D = Day /\ F = FrameStep /\ D > F /\ F # 0
  BY MovieAssumption
<1> PICK d \in Nat, t \in Nat : d = cdt.date /\ t = cdt.time /\ t < D
  BY DEF Times
<1> PICK dD \in Nat : dD = d * D
  OBVIOUS
<1>1. Ticks(cdt) = dD + t
  BY DEF Ticks
<1>2. (d + 1) * D = dD + D
  OBVIOUS
<1>3. NextDate(cdt) \in Times /\ Ticks(NextDate(cdt)) = Ticks(cdt) + FrameStep
  <2>1. CASE t + F >= D
    <3>1. (t + F) % D = t + F - D
      <4> PICK e \in Nat : e = t + F - D /\ e < D
        <5>1. t + F - D \in Nat /\ t + F - D < D
          BY <2>1
        <5> QED
          BY <5>1
      <4>1. t + F = D * 1 + e
        OBVIOUS
      <4>2. (D * 1 + e) % D = e
        OBVIOUS
      <4> QED
        BY <4>1, <4>2
    <3>2. NextDate(cdt) = [date |-> d + 1, time |-> t + F - D]
      <4>1. t >= (D - 1) - F + 1
        BY <2>1
      <4> QED
        BY <3>1, <4>1 DEF NextDate
    <3>3. t + F - D \in 0 .. D - 1 /\ d + 1 \in Nat
      BY <2>1
    <3>4. NextDate(cdt) \in Times
      BY <3>2, <3>3 DEF Times
    <3>5. Ticks(NextDate(cdt)) = (dD + D) + (t + F - D)
      BY <1>2, <3>2 DEF Ticks
    <3> QED
      BY <1>1, <3>4, <3>5
  <2>2. CASE ~(t + F >= D)
    <3>1. (t + F) % D = t + F
      <4> PICK e \in Nat : e = t + F /\ e < D
        BY <2>2
      <4> DEFINE q == e \div D
                 r == e % D
      <4>1. D \in Nat /\ D >= 1
        OBVIOUS
      <4>2. q \in Nat /\ r \in 0 .. D - 1 /\ e = D * q + r
        BY ONLY <4>1, e \in Nat
      <4> HIDE DEF q, r
      <4>3. q = 0
        <5> SUFFICES ASSUME q # 0 PROVE FALSE
          OBVIOUS
        <5>1. 1 <= q
          BY <4>2
        <5>2. 1 * D <= q * D
          BY <4>2, <5>1, TimesMonotone
        <5> PICK p \in Nat : p = q * D /\ p = D * q
          BY <4>2
        <5> QED
          BY <4>2, <5>2
      <4>4. D * q = 0
        BY <4>3
      <4>5. r = e
        BY <4>2, <4>4
      <4> QED
        BY <4>5 DEF r
    <3>2. NextDate(cdt) = [date |-> d, time |-> t + F]
      <4>1. ~(t >= (D - 1) - F + 1)
        BY <2>2
      <4> QED
        BY <3>1, <4>1 DEF NextDate
    <3>3. t + F \in 0 .. D - 1
      BY <2>2
    <3>4. NextDate(cdt) \in Times
      BY <3>2, <3>3 DEF Times
    <3>5. Ticks(NextDate(cdt)) = dD + (t + F)
      BY <3>2 DEF Ticks
    <3> QED
      BY <1>1, <3>4, <3>5
  <2> QED
    BY <2>1, <2>2
<1>4. Next64(cdt) \in Times /\ Ticks(Next64(cdt)) = Ticks(cdt) + FrameStep
  <2> PICK e \in Nat : e = Ticks(cdt) + F
    BY <1>1
  <2> DEFINE q == e \div D
             r == e % D
  <2>0. D \in Nat /\ D >= 1
    OBVIOUS
  <2>1. q \in Nat /\ r \in 0 .. D - 1 /\ e = D * q + r
    BY ONLY <2>0, e \in Nat
  <2>2. Next64(cdt) = [date |-> q, time |-> r]
    BY DEF Next64, Date
  <2> HIDE DEF q, r
  <2>3. Next64(cdt) \in Times
    BY <2>1, <2>2 DEF Times
  <2>4. Ticks(Next64(cdt)) = q * D + r
    BY <2>2 DEF Ticks
  <2>5. D * q = q * D
    BY <2>1
  <2> QED
    BY <2>1, <2>3, <2>4, <2>5
<1> QED
  BY <1>3, <1>4

IsSeq(s) == \E S : s \in Seq(S)

\* An MV file of the shots after the one and up to the other: drawn one after
\* the other from a blank screen, they give the screen after each.
Holds(movie, from, to) ==
  /\ from < to
  /\ IsSeq(movie) /\ Len(movie) = to - from
  /\ \A p \in 1 .. to - from :
       /\ movie[p].cdt = shots[from + p].cdt
       /\ GrBlot(IF p = 1 THEN Blank(GR_WIDTH, GR_HEIGHT) ELSE Canvas(from + p - 1),
                 movie[p].x0, movie[p].y0, movie[p].img) = Canvas(from + p)

\* Where the MV files end.
Split(e) ==
  /\ IsSeq(movies)
  /\ e \in [0 .. Len(movies) -> 0 .. Len(shots)]
  /\ e[0] = 0
  /\ \A m \in 1 .. Len(movies) : Holds(movies[m], e[m - 1], e[m])

\* What earlier runs left: nothing after the first n directories, if nothing
\* was broken off that had made something.
Files(n) ==
  /\ IsSeq(bmps)
  /\ \A m \in 1 .. Len(bmps) : IsSeq(bmps[m])
  /\ ~left => video = NoVideo /\ \A m \in n + 1 .. Len(bmps) : bmps[m] = <<>>

Merging(e) ==
  /\ vpc = "merge"
  /\ shot \in 0 .. Len(shots)
  /\ dc_base = Canvas(shot)
  /\ size \in 0 .. MV_FILE_MAX
  /\ IF part = <<>> THEN shot = 0 /\ size = 0 /\ e[Len(movies)] = 0
                    ELSE Holds(part, e[Len(movies)], shot)
  /\ num = 0 /\ clock = Never /\ wrote = <<>> /\ clips = <<>>
  /\ Files(0)

\* BMP files of which the first n, if all were written, show the recording from
\* some frame on.
ShowsFrames(files_, from, n) ==
  /\ IsSeq(files_)
  /\ ~left => Len(files_) <= n
  /\ lost = 0 => /\ Len(files_) >= n
                 /\ \A f \in 1 .. n : /\ files_[f] # NoBmp
                                       /\ Decoded(files_[f]) = Recorded[from + f]

Clocked(frames) == clock \in Times /\ Ticks(clock) = At(1) + frames * FrameStep

Playing(e) ==
  /\ e[Len(movies)] = Len(shots)
  /\ num \in 0 .. Len(movies)
  /\ IsSeq(wrote) /\ Len(wrote) = num
  /\ IsSeq(clips) /\ Len(clips) = num
  /\ \A m \in 1 .. num : /\ wrote[m] \in Nat
                         /\ Due(e[m - 1]) + wrote[m] = Due(e[m])
                         /\ ShowsFrames(clips[m], Due(e[m - 1]), wrote[m])

AtOpen(e) ==
  /\ vpc = "open"
  /\ Files(num) /\ Len(bmps) >= num
  /\ IF num = 0 THEN clock = Never ELSE Clocked(Due(e[num]))

InMovie(e) ==
  /\ num < Len(movies)
  /\ Files(num + 1) /\ Len(bmps) > num
  /\ bmp_num \in Nat
  /\ ShowsFrames(bmps[num + 1], Due(e[num]), bmp_num)

AtLoad(e) ==
  /\ vpc = "load"
  /\ InMovie(e)
  /\ pos \in 1 .. Len(movies[num + 1]) + 1
  /\ Due(e[num]) + bmp_num = Due(e[num] + pos - 1)
  /\ base = IF pos = 1 THEN Blank(GR_WIDTH, GR_HEIGHT) ELSE Canvas(e[num] + pos - 1)
  /\ IF num = 0 /\ pos = 1 THEN clock = Never ELSE Clocked(Due(e[num]) + bmp_num)

AtFrames(e) ==
  /\ vpc = "frames"
  /\ InMovie(e)
  /\ pos \in 1 .. Len(movies[num + 1])
  /\ Due(e[num]) + bmp_num \in Due(e[num] + pos - 1) .. Due(e[num] + pos)
  /\ base = Canvas(e[num] + pos)
  /\ Clocked(Due(e[num]) + bmp_num)

\* The clips that are joined: all of them if each has a frame, and none was
\* lost; otherwise, and if nothing was left, the first so many.
Joined ==
  /\ lost = 0 /\ num > 0 /\ (\A m \in 1 .. num : wrote[m] > 0) => video = clips
  /\ ~left => /\ IsSeq(video) /\ Len(video) <= num
              /\ \A m \in 1 .. Len(video) : video[m] = clips[m]

AtEnd ==
  /\ vpc \in {"concat", "played"}
  /\ numbered => num = Len(movies)
  /\ IsSeq(bmps) /\ \A m \in 1 .. Len(bmps) : IsSeq(bmps[m])
  /\ vpc = "concat" /\ ~left => video = NoVideo
  /\ vpc = "played" => Joined
  /\ clock \in Times \cup {Never}

VideoInv ==
  /\ IsRecording(shots)
  /\ \E e : /\ Split(e)
            /\ \/ Merging(e)
               \/ Playing(e) /\ (AtOpen(e) \/ AtLoad(e) \/ AtFrames(e) \/ AtEnd)

LEMMA IsSeqIs ==
  ASSUME NEW s, IsSeq(s)
  PROVE  Len(s) \in Nat /\ DOMAIN s = 1 .. Len(s) /\ (s = <<>> <=> Len(s) = 0)
<1> PICK S : s \in Seq(S)
  BY DEF IsSeq
<1>1. Len(s) \in Nat /\ DOMAIN s = 1 .. Len(s)
  BY LenProperties
<1>2. s # <<>> => Len(s) # 0
  BY EmptySeq
<1>3. Len(<<>>) = 0
  OBVIOUS
<1> QED
  BY <1>1, <1>2, <1>3

LEMMA NothingIsSeq == IsSeq(<<>>)
<1>1. <<>> \in Seq({})
  BY EmptySeq
<1> QED
  BY <1>1 DEF IsSeq

LEMMA AppendIs ==
  ASSUME NEW s, IsSeq(s), NEW x
  PROVE  /\ IsSeq(Append(s, x)) /\ Append(s, x) # <<>>
         /\ Len(Append(s, x)) = Len(s) + 1
         /\ \A n \in 1 .. Len(s) : Append(s, x)[n] = s[n]
         /\ Append(s, x)[Len(s) + 1] = x
<1> PICK S : s \in Seq(S)
  BY DEF IsSeq
<1> PICK T : T = S \cup {x}
  OBVIOUS
<1>1. s \in Seq(T) /\ x \in T
  <2>1. S \subseteq T
    OBVIOUS
  <2> QED
    BY <2>1, SeqMonotonic
<1> PICK t : t = Append(s, x)
  OBVIOUS
<1>2. /\ t \in Seq(T)
      /\ Len(t) = Len(s) + 1
      /\ \A n \in 1 .. Len(s) : t[n] = s[n]
      /\ t[Len(s) + 1] = x
  BY <1>1, AppendProperties
<1>3. IsSeq(t)
  BY <1>2 DEF IsSeq
<1>4. t # <<>>
  BY <1>2, <1>3, IsSeqIs
<1> QED
  BY <1>2, <1>3, <1>4

Changed(s, n, x) == [s EXCEPT ![n] = x]

LEMMA ReplacedIs ==
  ASSUME NEW s, IsSeq(s), NEW n \in 1 .. Len(s), NEW x
  PROVE  /\ IsSeq(Changed(s, n, x))
         /\ Len(Changed(s, n, x)) = Len(s)
         /\ \A m \in 1 .. Len(s) : Changed(s, n, x)[m] = IF m = n THEN x ELSE s[m]
<1> PICK S : s \in Seq(S)
  BY DEF IsSeq
<1> PICK T : T = S \cup {x}
  OBVIOUS
<1>1. s \in Seq(T) /\ x \in T
  <2>1. S \subseteq T
    OBVIOUS
  <2> QED
    BY <2>1, SeqMonotonic
<1> PICK t : t = Changed(s, n, x)
  OBVIOUS
<1>2. /\ t \in Seq(T)
      /\ Len(t) = Len(s)
      /\ \A m \in 1 .. Len(s) : t[m] = IF m = n THEN x ELSE s[m]
  BY <1>1, ExceptSeq DEF Changed
<1>3. IsSeq(t)
  BY <1>2 DEF IsSeq
<1> QED
  BY <1>2, <1>3

LEMMA BeginningIs ==
  ASSUME NEW s, IsSeq(s), NEW n \in 0 .. Len(s)
  PROVE  /\ IsSeq(SubSeq(s, 1, n)) /\ Len(SubSeq(s, 1, n)) = n
         /\ \A m \in 1 .. n : SubSeq(s, 1, n)[m] = s[m]
<1> PICK S : s \in Seq(S)
  BY DEF IsSeq
<1> PICK L \in Nat : L = Len(s)
  BY IsSeqIs
<1>1. n \in Nat /\ n <= L
  OBVIOUS
<1>2. \A m \in 1 .. n : s[m] \in S
  <2>1. \A m \in 1 .. n : m \in 1 .. L
    BY <1>1
  <2> QED
    BY <2>1, ElementOfSeq
<1>3. SubSeq(s, 1, n) = [m \in 1 .. n |-> s[m]]
  <2>1. SubSeq(s, 1, n) = [m \in 1 .. n - 1 + 1 |-> s[1 + m - 1]]
    BY <1>1
  <2> QED
    BY <1>1, <2>1
<1>4. [m \in 1 .. n |-> s[m]] \in Seq(S) /\ Len([m \in 1 .. n |-> s[m]]) = n
  BY <1>1, <1>2
<1>5. IsSeq(SubSeq(s, 1, n))
  BY <1>3, <1>4 DEF IsSeq
<1> QED
  BY <1>3, <1>4, <1>5

\* The same shots make the same recording.
LEMMA SameShots ==
  ASSUME shots' = shots
  PROVE  /\ IsRecording(shots)' <=> IsRecording(shots)
         /\ \A n : Canvas(n)' = Canvas(n)
         /\ \A n : Due(n)' = Due(n)
         /\ \A n : At(n)' = At(n)
         /\ Recorded' = Recorded
<1>1. \A n : At(n)' = At(n)
  BY DEF At, Ticks
<1>2. \A n : Due(n)' = Due(n)
  BY <1>1 DEF Due
<1>3. \A n : Canvas(n)' = Canvas(n)
  BY DEF Canvas, Point, OfLast, Seen
<1>4. Recorded' = Recorded
  BY DEF Recorded, ScreenAfter, Ticks
<1>5. IsRecording(shots)' <=> IsRecording(shots)
  BY DEF IsRecording
<1> QED
  BY <1>1, <1>2, <1>3, <1>4, <1>5

LEMMA ShowsStays ==
  ASSUME NEW f, NEW from, NEW n, ShowsFrames(f, from, n), UNCHANGED <<shots, left>>,
         lost' = 0 => lost = 0
  PROVE  ShowsFrames(f, from, n)'
<1>1. Recorded' = Recorded
  BY SameShots
<1> QED
  BY <1>1 DEF ShowsFrames

LEMMA SplitStays ==
  ASSUME NEW e, Split(e), UNCHANGED <<shots, movies>>
  PROVE  Split(e)'
<1>1. \A n : Canvas(n)' = Canvas(n)
  BY SameShots
<1>2. ASSUME NEW m \in 1 .. Len(movies) PROVE Holds(movies[m], e[m - 1], e[m])'
  <2>1. Holds(movies[m], e[m - 1], e[m])
    BY DEF Split
  <2> QED
    BY <1>1, <2>1 DEF Holds
<1> QED
  BY <1>2 DEF Split

LEMMA PlayingStays ==
  ASSUME NEW e, Playing(e), UNCHANGED <<shots, movies, left, num, wrote, clips>>,
         lost' = 0 => lost = 0
  PROVE  Playing(e)'
<1>1. \A n : Due(n)' = Due(n)
  BY SameShots
<1>2. ASSUME NEW m \in 1 .. num
      PROVE  (/\ wrote[m] \in Nat
              /\ Due(e[m - 1]) + wrote[m] = Due(e[m])
              /\ ShowsFrames(clips[m], Due(e[m - 1]), wrote[m]))'
  <2>1. /\ wrote[m] \in Nat
        /\ Due(e[m - 1]) + wrote[m] = Due(e[m])
        /\ ShowsFrames(clips[m], Due(e[m - 1]), wrote[m])
    BY DEF Playing
  <2>2. ShowsFrames(clips[m], Due(e[m - 1]), wrote[m])'
    <3> PICK f, from, n : f = clips[m] /\ from = Due(e[m - 1]) /\ n = wrote[m]
      OBVIOUS
    <3>1. ShowsFrames(f, from, n)'
      BY <2>1, ShowsStays
    <3>2. clips'[m] = f /\ Due(e[m - 1])' = from /\ wrote'[m] = n
      BY <1>1
    <3> QED
      BY <3>1, <3>2
  <2> QED
    BY <1>1, <2>1, <2>2
<1> QED
  BY <1>2 DEF Playing

\* Where the MV file that is played begins and ends.
LEMMA EndsAre ==
  ASSUME IsRecording(shots), NEW e, Split(e), NEW m \in 1 .. Len(movies)
  PROVE  /\ Len(movies) \in Nat /\ Len(shots) \in Nat
         /\ e[m - 1] \in 0 .. Len(shots) /\ e[m] \in 0 .. Len(shots)
         /\ Len(movies[m]) = e[m] - e[m - 1] /\ e[m - 1] < e[m]
         /\ \A p \in 1 .. Len(movies[m]) : /\ e[m - 1] + p \in 1 .. Len(shots)
                                           /\ e[m - 1] + p - 1 \in 0 .. Len(shots)
<1>1. Len(movies) \in Nat /\ Len(shots) \in Nat
  BY IsSeqIs, ShotIs DEF Split
<1>2. m - 1 \in 0 .. Len(movies) /\ m \in 0 .. Len(movies)
  BY <1>1
<1>3. e[m - 1] \in 0 .. Len(shots) /\ e[m] \in 0 .. Len(shots)
  BY <1>2 DEF Split
<1>4. Len(movies[m]) = e[m] - e[m - 1] /\ e[m - 1] < e[m]
  BY DEF Split, Holds
<1> PICK a \in Nat, b \in Nat, L \in Nat : a = e[m - 1] /\ b = e[m] /\ L = Len(shots) /\ b <= L /\ a < b
  BY <1>1, <1>3, <1>4
<1>5. \A p \in 1 .. b - a : a + p \in 1 .. L /\ a + p - 1 \in 0 .. L
  <2>1. a \in Nat /\ b \in Nat /\ L \in Nat /\ b <= L
    OBVIOUS
  <2> QED
    BY ONLY <2>1
<1> QED
  BY <1>1, <1>3, <1>4, <1>5

\* A part of one shot, or with one more.
LEMMA PartGrows ==
  ASSUME IsRecording(shots), NEW e, Split(e), Merging(e), MergeShot
  PROVE  VideoInv'
<1>0. /\ shots' = shots /\ shot < Len(shots) /\ shot' = shot + 1 /\ vpc' = vpc /\ left' = left
      /\ num' = num /\ clock' = clock /\ wrote' = wrote /\ clips' = clips
      /\ bmps' = bmps /\ video' = video
  BY DEF MergeShot, playVars, fileVars
<1> PICK L \in Nat : L = Len(shots)
  BY ShotIs
<1> PICK n \in Nat : n = shot /\ n < L
  <2>1. shot \in 0 .. L
    BY DEF Merging
  <2> QED
    BY <1>0, <2>1
<1> PICK dc : dc = shots[n + 1]
  OBVIOUS
<1>1. /\ n + 1 \in 1 .. L /\ n \in 0 .. L /\ n + 1 \in 0 .. L /\ (n + 1) - 1 = n
      /\ n + 1 # 0 /\ n < n + 1 /\ (n + 1) - n = 1
  OBVIOUS
<1>2. GrBlot(Canvas(n), dc.x0, dc.y0, dc.img) = Canvas(n + 1)
  BY <1>1, CanvasNext
<1>3. GrBlot(dc_base, dc.x0, dc.y0, dc.img) = Canvas(n + 1)
  BY <1>2 DEF Merging
<1>4. dc_base' = Canvas(n + 1)
  BY <1>0, <1>3 DEF MergeShot
<1>5. GrBlot(Blank(GR_WIDTH, GR_HEIGHT), 0, 0, Canvas(n + 1)) = Canvas(n + 1)
  BY <1>1, CanvasWhole
<1>6. /\ \A m : Canvas(m)' = Canvas(m)
      /\ IsRecording(shots)'
  BY <1>0, SameShots
<1> PICK bytes \in 1 .. GR_FILE_MAX :
      IF PartFull
      THEN /\ movies' = Append(movies, part)
           /\ part' = <<FirstOfPart(dc)>>
           /\ size' = bytes
      ELSE /\ part' = Append(part, dc)
           /\ size' = size + bytes
           /\ UNCHANGED movies
  BY <1>0 DEF MergeShot
<1> PICK G \in Nat, F \in Nat : G = GR_FILE_MAX /\ F = MV_FILE_MAX /\ F >= G
  BY MovieAssumption
<1> PICK M \in Nat : M = Len(movies)
  BY IsSeqIs DEF Split
<1>7. e \in [0 .. M -> 0 .. L] /\ e[0] = 0 /\ M \in 0 .. M
  BY DEF Split
<1>8. Files(0)'
  BY <1>0 DEF Files, Merging
<1>9. CASE PartFull
  <2>1. part # <<>>
    <3>1. part = <<>> => size = 0
      BY DEF Merging
    <3>2. size # 0
      BY <1>9 DEF PartFull
    <3> QED
      BY <3>1, <3>2
  <2>2. Holds(part, e[M], n) /\ IsSeq(part)
    BY <2>1 DEF Merging, Holds
  <2> DEFINE now == [m \in 0 .. M + 1 |-> IF m = M + 1 THEN n ELSE e[m]]
  <2>3. /\ IsSeq(movies') /\ Len(movies') = M + 1
        /\ \A m \in 1 .. M : movies'[m] = movies[m]
        /\ movies'[M + 1] = part
    <3>1. IsSeq(movies)
      BY DEF Split
    <3>2. /\ IsSeq(Append(movies, part))
          /\ Len(Append(movies, part)) = Len(movies) + 1
          /\ \A m \in 1 .. Len(movies) : Append(movies, part)[m] = movies[m]
          /\ Append(movies, part)[Len(movies) + 1] = part
      BY <3>1, AppendIs
    <3>3. movies' = Append(movies, part)
      BY <1>9
    <3> QED
      BY <3>2, <3>3
  <2>4. /\ now \in [0 .. M + 1 -> 0 .. L] /\ now[M + 1] = n /\ now[M] = e[M]
        /\ \A m \in 0 .. M : now[m] = e[m]
    BY <1>1, <1>7
  <2> HIDE DEF now
  <2>5. ASSUME NEW m \in 1 .. M + 1 PROVE Holds(movies'[m], now[m - 1], now[m])
    <3>1. CASE m = M + 1
      <4>1. m - 1 = M
        BY <3>1
      <4> QED
        BY <2>2, <2>3, <2>4, <3>1, <4>1
    <3>2. CASE m # M + 1
      <4>1. m \in 1 .. M /\ m \in 0 .. M /\ m - 1 \in 0 .. M
        BY <3>2
      <4>2. Holds(movies[m], e[m - 1], e[m])
        BY <4>1 DEF Split
      <4> QED
        BY <2>3, <2>4, <4>1, <4>2
    <3> QED
      BY <3>1, <3>2
  <2>6. ASSUME NEW m \in 1 .. M + 1 PROVE Holds(movies[m], now[m - 1], now[m])'
    <3>1. Holds(movies'[m], now[m - 1], now[m])
      BY <2>5
    <3> QED
      BY <1>0, <1>6, <3>1 DEF Holds
  <2>7. Split(now)'
    <3>1. now[0] = 0
      BY <1>7, <2>4
    <3> QED
      BY <1>0, <2>3, <2>4, <2>6, <3>1 DEF Split
  <2> PICK first : first = FirstOfPart(dc)
    OBVIOUS
  <2>8. part' = <<first>> /\ part' # <<>> /\ IsSeq(part') /\ Len(part') = 1 /\ part'[1] = first
    <3>1. part' = <<first>>
      BY <1>9
    <3>2. <<first>> \in Seq({first}) /\ Len(<<first>>) = 1 /\ <<first>>[1] = first /\ <<first>> # <<>>
      OBVIOUS
    <3> QED
      BY <3>1, <3>2 DEF IsSeq
  <2>9. /\ first.cdt = shots[n + 1].cdt
        /\ GrBlot(Blank(GR_WIDTH, GR_HEIGHT), first.x0, first.y0, first.img) = Canvas(n + 1)
    <3>1. first = [cdt |-> dc.cdt, x0 |-> 0, y0 |-> 0, img |-> Canvas(n + 1)]
      BY <1>3 DEF FirstOfPart
    <3> QED
      BY <1>5, <3>1
  <2>10. Holds(part, n, n + 1)'
    <3>1. \A p \in 1 .. 1 : p = 1
      OBVIOUS
    <3>2. ASSUME NEW p \in 1 .. 1
          PROVE  /\ part'[p].cdt = shots'[n + p].cdt
                 /\ GrBlot(IF p = 1 THEN Blank(GR_WIDTH, GR_HEIGHT) ELSE Canvas(n + p - 1)',
                           part'[p].x0, part'[p].y0, part'[p].img) = Canvas(n + p)'
      <4>1. p = 1
        BY <3>1
      <4> QED
        BY <1>0, <1>6, <2>8, <2>9, <4>1
    <3> QED
      BY <1>1, <2>8, <3>2 DEF Holds
  <2>11. size' \in 0 .. F
    BY <1>9
  <2>12. Merging(now)'
    BY <1>0, <1>1, <1>4, <1>6, <1>8, <2>3, <2>4, <2>8, <2>10, <2>11 DEF Merging
  <2> QED
    BY <1>6, <2>7, <2>12 DEF VideoInv
<1>10. CASE ~PartFull
  <2>1. Split(e)'
    BY <1>0, <1>10, SplitStays
  <2>2. IsSeq(part)
    BY NothingIsSeq DEF Merging, Holds
  <2> PICK P \in Nat : P = Len(part)
    BY <2>2, IsSeqIs
  <2>3. /\ IsSeq(part') /\ part' # <<>> /\ Len(part') = P + 1
        /\ \A p \in 1 .. P : part'[p] = part[p]
        /\ part'[P + 1] = dc
    <3>1. /\ IsSeq(Append(part, dc)) /\ Append(part, dc) # <<>>
          /\ Len(Append(part, dc)) = Len(part) + 1
          /\ \A p \in 1 .. Len(part) : Append(part, dc)[p] = part[p]
          /\ Append(part, dc)[Len(part) + 1] = dc
      BY <2>2, AppendIs
    <3>2. part' = Append(part, dc)
      BY <1>10
    <3> QED
      BY <3>1, <3>2
  <2> PICK from \in Nat : from = e[M]
    BY <1>7
  <2>4. from + P = n
    <3>1. CASE part = <<>>
      <4>1. P = 0 /\ from = 0 /\ n = 0
        BY <2>2, <3>1, IsSeqIs DEF Merging
      <4> QED
        BY <4>1
    <3>2. CASE part # <<>>
      <4>1. Holds(part, from, n)
        BY <3>2 DEF Merging
      <4>2. P = n - from
        BY <4>1 DEF Holds
      <4> QED
        BY <4>2
    <3> QED
      BY <3>1, <3>2
  <2>5. ASSUME NEW p \in 1 .. P
        PROVE  /\ part[p].cdt = shots[from + p].cdt
               /\ GrBlot(IF p = 1 THEN Blank(GR_WIDTH, GR_HEIGHT) ELSE Canvas(from + p - 1),
                         part[p].x0, part[p].y0, part[p].img) = Canvas(from + p)
    <3>1. part # <<>>
      BY <2>2, IsSeqIs
    <3>2. Holds(part, from, n)
      BY <3>1 DEF Merging
    <3>3. n - from = P
      BY <2>4
    <3> QED
      BY <3>2, <3>3 DEF Holds
  <2>6. ASSUME NEW p \in 1 .. P + 1
        PROVE  /\ part'[p].cdt = shots[from + p].cdt
               /\ GrBlot(IF p = 1 THEN Blank(GR_WIDTH, GR_HEIGHT) ELSE Canvas(from + p - 1),
                         part'[p].x0, part'[p].y0, part'[p].img) = Canvas(from + p)
    <3>1. CASE p = P + 1
      <4>0. from + p = n + 1 /\ from + p - 1 = n
        BY ONLY <2>4, <3>1, from \in Nat, P \in Nat, n \in Nat
      <4>1. part'[p] = dc
        BY <2>3, <3>1
      <4>2. p = 1 => Canvas(n) = Blank(GR_WIDTH, GR_HEIGHT)
        <5> SUFFICES ASSUME p = 1 PROVE Canvas(n) = Blank(GR_WIDTH, GR_HEIGHT)
          OBVIOUS
        <5>1. part = <<>>
          BY <2>2, <3>1, IsSeqIs
        <5>2. n = 0
          BY <5>1 DEF Merging
        <5> QED
          BY <1>1, <5>2, CanvasIs
      <4> QED
        BY <1>2, <4>0, <4>1, <4>2
    <3>2. CASE p # P + 1
      <4>1. p \in 1 .. P
        BY ONLY <3>2, p \in 1 .. P + 1, P \in Nat
      <4>2. part'[p] = part[p]
        BY <2>3, <4>1
      <4> QED
        BY <2>5, <4>1, <4>2
    <3> QED
      BY <3>1, <3>2
  <2>7. Holds(part, from, n + 1)'
    <3>1. (n + 1) - from = P + 1 /\ from < n + 1
      BY <2>4
    <3>2. ASSUME NEW p \in 1 .. P + 1
          PROVE  /\ part'[p].cdt = shots'[from + p].cdt
                 /\ GrBlot(IF p = 1 THEN Blank(GR_WIDTH, GR_HEIGHT) ELSE Canvas(from + p - 1)',
                           part'[p].x0, part'[p].y0, part'[p].img) = Canvas(from + p)'
      BY <1>0, <1>6, <2>6
    <3> QED
      BY <2>3, <3>1, <3>2 DEF Holds
  <2>8. size' \in 0 .. F
    <3>1. size \in 0 .. F /\ size + G <= F /\ size' = size + bytes
      <4>1. size \in 0 .. F
        BY DEF Merging
      <4> QED
        BY <1>10, <4>1 DEF PartFull
    <3> QED
      BY <3>1
  <2>9. Merging(e)'
    BY <1>0, <1>1, <1>4, <1>6, <1>8, <1>10, <2>3, <2>7, <2>8 DEF Merging
  <2> QED
    BY <1>6, <2>1, <2>9 DEF VideoInv
<1> QED
  BY <1>9, <1>10

\* The last part, if there is one, ends with the last shot.
LEMMA MergeEnds ==
  ASSUME IsRecording(shots), NEW e, Split(e), Merging(e), MergeEnd
  PROVE  VideoInv'
<1>0. /\ shots' = shots /\ shot = Len(shots) /\ vpc' = "open" /\ left' = left
      /\ num' = num /\ clock' = clock /\ wrote' = wrote /\ clips' = clips
      /\ bmps' = bmps /\ video' = video
      /\ movies' = IF part # <<>> THEN Append(movies, part) ELSE movies
  BY DEF MergeEnd, playVars, fileVars
<1> PICK L \in Nat : L = Len(shots)
  BY ShotIs
<1> PICK M \in Nat : M = Len(movies)
  BY IsSeqIs DEF Split
<1>1. /\ \A m : Canvas(m)' = Canvas(m)
      /\ IsRecording(shots)'
  BY <1>0, SameShots
<1>2. e \in [0 .. M -> 0 .. L] /\ e[0] = 0 /\ M \in 0 .. M
  BY DEF Split
<1>3. \E now : Split(now)' /\ now[Len(movies')] = L
  <2>1. CASE part = <<>>
    <3>1. movies' = movies /\ e[M] = L
      BY <1>0, <2>1 DEF Merging
    <3> QED
      BY <1>0, <3>1, SplitStays
  <2>2. CASE part # <<>>
    <3>1. Holds(part, e[M], L) /\ IsSeq(part)
      BY <1>0, <2>2 DEF Merging, Holds
    <3> DEFINE now == [m \in 0 .. M + 1 |-> IF m = M + 1 THEN L ELSE e[m]]
    <3>2. /\ IsSeq(movies') /\ Len(movies') = M + 1
          /\ \A m \in 1 .. M : movies'[m] = movies[m]
          /\ movies'[M + 1] = part
      <4>1. IsSeq(movies)
        BY DEF Split
      <4>2. /\ IsSeq(Append(movies, part))
            /\ Len(Append(movies, part)) = Len(movies) + 1
            /\ \A m \in 1 .. Len(movies) : Append(movies, part)[m] = movies[m]
            /\ Append(movies, part)[Len(movies) + 1] = part
        BY <4>1, AppendIs
      <4>3. movies' = Append(movies, part)
        BY <1>0, <2>2
      <4> QED
        BY <4>2, <4>3
    <3>3. /\ now \in [0 .. M + 1 -> 0 .. L] /\ now[M + 1] = L /\ now[M] = e[M]
          /\ \A m \in 0 .. M : now[m] = e[m]
      BY <1>2
    <3> HIDE DEF now
    <3>4. ASSUME NEW m \in 1 .. M + 1 PROVE Holds(movies'[m], now[m - 1], now[m])
      <4>1. CASE m = M + 1
        <5>1. m - 1 = M
          BY <4>1
        <5> QED
          BY <3>1, <3>2, <3>3, <4>1, <5>1
      <4>2. CASE m # M + 1
        <5>1. m \in 1 .. M /\ m \in 0 .. M /\ m - 1 \in 0 .. M
          BY <4>2
        <5>2. Holds(movies[m], e[m - 1], e[m])
          BY <5>1 DEF Split
        <5> QED
          BY <3>2, <3>3, <5>1, <5>2
      <4> QED
        BY <4>1, <4>2
    <3>5. ASSUME NEW m \in 1 .. M + 1 PROVE Holds(movies[m], now[m - 1], now[m])'
      <4>1. Holds(movies'[m], now[m - 1], now[m])
        BY <3>4
      <4> QED
        BY <1>0, <1>1, <4>1 DEF Holds
    <3>6. Split(now)'
      <4>1. now[0] = 0
        BY <1>2, <3>3
      <4> QED
        BY <1>0, <3>2, <3>3, <3>5, <4>1 DEF Split
    <3> QED
      BY <3>2, <3>3, <3>6
  <2> QED
    BY <2>1, <2>2
<1> PICK now : Split(now)' /\ now[Len(movies')] = L
  BY <1>3
<1>4. num' = 0 /\ clock' = Never /\ wrote' = <<>> /\ clips' = <<>>
  BY <1>0 DEF Merging
<1>5. Len(movies') \in Nat /\ 0 \in 0 .. Len(movies')
  <2>1. IsSeq(movies')
    BY DEF Split
  <2>2. Len(movies') \in Nat
    BY <2>1, IsSeqIs
  <2> QED
    BY <2>2
<1>6. Playing(now)'
  <2>1. IsSeq(<<>>) /\ Len(<<>>) = 0 /\ 1 .. 0 = {}
    BY NothingIsSeq
  <2> QED
    BY <1>0, <1>4, <1>5, <2>1 DEF Playing
<1>7. AtOpen(now)'
  <2>1. Files(0)'
    BY <1>0 DEF Files, Merging
  <2>2. Len(bmps) \in Nat /\ bmps' = bmps
    BY <1>0, IsSeqIs DEF Merging, Files
  <2>3. Files(num)'
    BY <1>4, <2>1 DEF Files
  <2> QED
    BY <1>0, <1>4, <2>2, <2>3 DEF AtOpen
<1> QED
  BY <1>1, <1>6, <1>7 DEF VideoInv

-----------------------------------------------------------------------------
\* OpenMovie: the directory of the next MV file is new, or one of a run that
\* was broken off.
LEMMA OpenVideo ==
  ASSUME IsRecording(shots), NEW e, Split(e), Playing(e), AtOpen(e), OpenMovie
  PROVE  VideoInv'
<1>0. /\ shots' = shots /\ movies' = movies /\ num' = num /\ wrote' = wrote /\ clips' = clips
      /\ left' = left /\ video' = video /\ clock' = clock /\ lost' = lost
      /\ num < Len(movies)
      /\ bmps' = IF num < Len(bmps) THEN bmps ELSE Append(bmps, <<>>)
      /\ base' = Blank(GR_WIDTH, GR_HEIGHT) /\ pos' = 1 /\ bmp_num' = 0 /\ vpc' = "load"
  BY DEF OpenMovie, recordVars
<1>1. Split(e)' /\ Playing(e)'
  BY <1>0, SplitStays, PlayingStays
<1> PICK n \in Nat : n = num
  BY DEF Playing
<1> PICK M \in Nat : M = Len(movies)
  BY IsSeqIs DEF Split
<1>2. n + 1 \in 1 .. M /\ (n + 1) - 1 = n /\ n < M
  BY <1>0
<1>3. /\ Len(movies[n + 1]) \in Nat
      /\ e[n] \in 0 .. Len(shots)
  <2>1. IsSeq(movies[n + 1])
    BY <1>2 DEF Split, Holds
  <2> QED
    BY <1>2, <2>1, EndsAre, IsSeqIs
<1> PICK from \in Nat : from = e[n]
  <2>1. Len(shots) \in Nat
    BY ShotIs
  <2> QED
    BY <1>3, <2>1
<1>4. Due(from) \in Nat
  BY <1>3, DueIs
<1>5. \A m : Due(m)' = Due(m)
  BY <1>0, SameShots
<1>6. /\ IsSeq(bmps) /\ Len(bmps) \in Nat /\ Len(bmps) >= n
      /\ \A m \in 1 .. Len(bmps) : IsSeq(bmps[m])
      /\ ~left => video = NoVideo /\ \A m \in n + 1 .. Len(bmps) : bmps[m] = <<>>
  BY IsSeqIs DEF AtOpen, Files
<1>7. /\ IsSeq(bmps') /\ Len(bmps') \in Nat /\ Len(bmps') > n
      /\ \A m \in 1 .. Len(bmps') : IsSeq(bmps'[m])
      /\ ~left => \A m \in n + 1 .. Len(bmps') : bmps'[m] = <<>>
  <2>1. CASE n < Len(bmps)
    BY <1>0, <1>6, <2>1
  <2>2. CASE ~(n < Len(bmps))
    <3>1. Len(bmps) = n
      BY <1>6, <2>2
    <3>2. /\ IsSeq(Append(bmps, <<>>)) /\ Len(Append(bmps, <<>>)) = n + 1
          /\ \A m \in 1 .. n : Append(bmps, <<>>)[m] = bmps[m]
          /\ Append(bmps, <<>>)[n + 1] = <<>>
      BY <1>6, <3>1, AppendIs
    <3>3. bmps' = Append(bmps, <<>>)
      BY <1>0, <2>2
    <3>4. \A m \in 1 .. n + 1 : m \in 1 .. n \/ m = n + 1
      OBVIOUS
    <3>5. \A m \in n + 1 .. n + 1 : m = n + 1
      OBVIOUS
    <3>6. \A m \in 1 .. n + 1 : IsSeq(bmps'[m])
      BY <1>6, <3>1, <3>2, <3>3, <3>4, NothingIsSeq
    <3>7. n + 1 \in Nat /\ n + 1 > n
      OBVIOUS
    <3> QED
      BY <3>2, <3>3, <3>5, <3>6, <3>7
  <2> QED
    BY <2>1, <2>2
<1>8. InMovie(e)'
  <2>1. n + 1 \in 1 .. Len(bmps') /\ n + 1 \in n + 1 .. Len(bmps')
    BY <1>7
  <2> PICK old : old = bmps'[n + 1]
    OBVIOUS
  <2>2. IsSeq(old) /\ Len(old) \in Nat /\ (~left => Len(old) = 0)
    BY <1>7, <2>1, IsSeqIs
  <2>3. 1 .. 0 = {}
    OBVIOUS
  <2>4. ShowsFrames(bmps[num + 1], Due(e[num]), bmp_num)'
    <3>1. bmps'[num' + 1] = old /\ bmp_num' = 0 /\ (left' <=> left)
      BY <1>0
    <3>2. Len(old) >= 0 /\ (~left' => Len(old) <= 0)
      BY <2>2, <3>1
    <3>3. \A m \in 1 .. 0 : old[m] # NoBmp /\ Decoded(old[m]) = Recorded'[Due(e[num])' + m]
      BY <2>3
    <3> QED
      BY <2>2, <3>1, <3>2, <3>3 DEF ShowsFrames
  <2>5. Files(num + 1)'
    <3>1. ASSUME NEW m \in (n + 1) + 1 .. Len(bmps') PROVE m \in n + 1 .. Len(bmps')
      BY <1>7
    <3> QED
      BY <1>0, <1>6, <1>7, <3>1 DEF Files
  <2> QED
    BY <1>0, <1>2, <1>7, <2>4, <2>5 DEF InMovie
<1>9. AtLoad(e)'
  <2>1. from + 1 - 1 = from /\ Due(from) + 0 = Due(from)
    BY <1>4
  <2>2. IF num = 0 THEN clock = Never ELSE Clocked(Due(e[num]))
    BY DEF AtOpen
  <2>3. 1 \in 1 .. Len(movies[n + 1]) + 1
    BY <1>3
  <2>4. IF num' = 0 /\ pos' = 1 THEN clock' = Never ELSE Clocked(Due(e[num]) + bmp_num)'
    <3>1. CASE num = 0
      BY <1>0, <2>2, <3>1
    <3>2. CASE num # 0
      <4>1. Clocked(Due(from))
        BY <2>2, <3>2
      <4>2. clock \in Times /\ Ticks(clock) = At(1) + Due(from) * FrameStep
        BY <4>1 DEF Clocked
      <4>3. Ticks(clock)' = Ticks(clock) /\ At(1)' = At(1)
        BY <1>0, SameShots DEF Ticks
      <4>4. (Due(e[num]) + bmp_num)' = Due(from)
        BY <1>0, <1>5, <2>1
      <4>5. Clocked(Due(e[num]) + bmp_num)'
        BY <1>0, <4>2, <4>3, <4>4 DEF Clocked
      <4> QED
        BY <1>0, <3>2, <4>5
    <3> QED
      BY <3>1, <3>2
  <2>5. (Due(e[num]) + bmp_num)' = Due(e[num] + pos - 1)'
    BY <1>0, <1>5, <2>1
  <2> QED
    BY <1>0, <1>8, <2>3, <2>4, <2>5 DEF AtLoad
<1>10. IsRecording(shots)'
  BY <1>0, SameShots
<1> QED
  BY <1>1, <1>9, <1>10 DEF VideoInv

\* The next dc of an MV file, and where it stands in the recording.
LEMMA DCIs ==
  ASSUME IsRecording(shots), NEW e, Split(e), NEW m \in 1 .. Len(movies),
         NEW p \in 1 .. Len(movies[m])
  PROVE  /\ e[m - 1] \in Nat /\ e[m - 1] + p \in 1 .. Len(shots)
         /\ e[m - 1] + p - 1 \in 0 .. Len(shots)
         /\ (e[m - 1] + p) - 1 = e[m - 1] + p - 1
         /\ movies[m][p].cdt = shots[e[m - 1] + p].cdt
         /\ GrBlot(IF p = 1 THEN Blank(GR_WIDTH, GR_HEIGHT) ELSE Canvas(e[m - 1] + p - 1),
                   movies[m][p].x0, movies[m][p].y0, movies[m][p].img) = Canvas(e[m - 1] + p)
<1>1. /\ Len(shots) \in Nat /\ e[m - 1] \in 0 .. Len(shots)
      /\ Len(movies[m]) = e[m] - e[m - 1]
      /\ e[m - 1] + p \in 1 .. Len(shots) /\ e[m - 1] + p - 1 \in 0 .. Len(shots)
  BY EndsAre
<1>2. Holds(movies[m], e[m - 1], e[m])
  BY DEF Split
<1>3. /\ movies[m][p].cdt = shots[e[m - 1] + p].cdt
      /\ GrBlot(IF p = 1 THEN Blank(GR_WIDTH, GR_HEIGHT) ELSE Canvas(e[m - 1] + p - 1),
                movies[m][p].x0, movies[m][p].y0, movies[m][p].img) = Canvas(e[m - 1] + p)
  BY <1>1, <1>2 DEF Holds
<1>4. e[m - 1] \in Nat
  BY <1>1
<1>5. (e[m - 1] + p) - 1 = e[m - 1] + p - 1
  <2>1. p \in Int
    <3>1. IsSeq(movies[m])
      BY <1>2 DEF Holds
    <3> QED
      BY <3>1, IsSeqIs
  <2> QED
    BY ONLY <1>4, <2>1
<1> QED
  BY <1>1, <1>3, <1>4, <1>5

\* What a state in the middle of an MV file says of the next one.
LEMMA InMovieStays ==
  ASSUME NEW e, InMovie(e), UNCHANGED <<shots, movies, left, num, bmp_num, bmps, video, lost>>
  PROVE  InMovie(e)'
<1>1. Files(num + 1)'
  BY DEF InMovie, Files
<1>2. ShowsFrames(bmps[num + 1], Due(e[num]), bmp_num)'
  <2>1. \A n : Due(n)' = Due(n)
    BY SameShots
  <2> PICK f, from, n : f = bmps[num + 1] /\ from = Due(e[num]) /\ n = bmp_num
    OBVIOUS
  <2>2. ShowsFrames(f, from, n)
    BY DEF InMovie
  <2>3. ShowsFrames(f, from, n)'
    BY <2>2, ShowsStays
  <2>4. bmps'[num' + 1] = f /\ Due(e[num])' = from /\ bmp_num' = n
    BY <2>1
  <2> QED
    BY <2>3, <2>4
<1> QED
  BY <1>1, <1>2 DEF InMovie

\* LoadDC: the screen is drawn on, and the clock starts with the first shot.
LEMMA LoadVideo ==
  ASSUME IsRecording(shots), NEW e, Split(e), Playing(e), AtLoad(e), LoadDC
  PROVE  VideoInv'
<1>0. /\ shots' = shots /\ movies' = movies /\ num' = num /\ wrote' = wrote /\ clips' = clips
      /\ left' = left /\ video' = video /\ bmps' = bmps /\ bmp_num' = bmp_num /\ pos' = pos
      /\ lost' = lost
      /\ pos <= Len(movies[num + 1])
      /\ base' = GrBlot(base, movies[num + 1][pos].x0, movies[num + 1][pos].y0,
                        movies[num + 1][pos].img)
      /\ clock' = IF clock = Never THEN movies[num + 1][pos].cdt ELSE clock
      /\ vpc' = "frames"
  BY DEF LoadDC, recordVars, fileVars, Drawn
<1>1. Split(e)' /\ Playing(e)' /\ InMovie(e)' /\ IsRecording(shots)'
  BY <1>0, SplitStays, PlayingStays, InMovieStays, SameShots DEF AtLoad
<1> PICK n \in Nat, M \in Nat : n = num /\ M = Len(movies) /\ n < M
  <2>1. Len(movies) \in Nat
    BY IsSeqIs DEF Split
  <2>2. num \in Nat /\ num < Len(movies)
    BY <2>1 DEF Playing, AtLoad, InMovie
  <2> QED
    BY <2>1, <2>2
<1>2. n + 1 \in 1 .. M /\ (n + 1) - 1 = n
  OBVIOUS
<1> PICK p \in Nat : p = pos /\ p \in 1 .. Len(movies[n + 1])
  <2>1. IsSeq(movies[n + 1])
    BY <1>2 DEF Split, Holds
  <2>2. pos \in 1 .. Len(movies[n + 1]) + 1 /\ Len(movies[n + 1]) \in Nat
    BY <2>1, IsSeqIs DEF AtLoad
  <2>3. pos \in Nat /\ pos \in 1 .. Len(movies[n + 1])
    BY <1>0, <2>2
  <2> QED
    BY <2>3
<1> PICK m : m = n + 1
  OBVIOUS
<1>2m. m \in 1 .. Len(movies) /\ p \in 1 .. Len(movies[m]) /\ m - 1 = n
  BY <1>2
<1> PICK from \in Nat : from = e[m - 1] /\ from = e[n]
  <2>1. e[m - 1] \in Nat
    BY <1>2m, DCIs
  <2> QED
    BY <1>2m, <2>1
<1>3. /\ from + p \in 1 .. Len(shots) /\ from + p - 1 \in 0 .. Len(shots)
      /\ from + p \in 0 .. Len(shots) /\ from + p - 1 <= from + p /\ Len(shots) \in Nat
      /\ movies[n + 1][p].cdt = shots[from + p].cdt
      /\ GrBlot(IF p = 1 THEN Blank(GR_WIDTH, GR_HEIGHT) ELSE Canvas(from + p - 1),
                movies[n + 1][p].x0, movies[n + 1][p].y0, movies[n + 1][p].img) = Canvas(from + p)
  <2>1. Len(shots) \in Nat
    BY ShotIs
  <2>2. /\ from + p \in 1 .. Len(shots) /\ from + p - 1 \in 0 .. Len(shots)
        /\ movies[n + 1][p].cdt = shots[from + p].cdt
        /\ GrBlot(IF p = 1 THEN Blank(GR_WIDTH, GR_HEIGHT) ELSE Canvas(from + p - 1),
                  movies[n + 1][p].x0, movies[n + 1][p].y0, movies[n + 1][p].img) = Canvas(from + p)
    <3>1. /\ from + p \in 1 .. Len(shots) /\ from + p - 1 \in 0 .. Len(shots)
          /\ movies[m][p].cdt = shots[from + p].cdt
          /\ GrBlot(IF p = 1 THEN Blank(GR_WIDTH, GR_HEIGHT) ELSE Canvas(from + p - 1),
                    movies[m][p].x0, movies[m][p].y0, movies[m][p].img) = Canvas(from + p)
      BY <1>2m, DCIs
    <3> QED
      BY <3>1
  <2>3. from + p \in 0 .. Len(shots) /\ from + p - 1 <= from + p
    BY <2>1, <2>2
  <2> QED
    BY <2>1, <2>2, <2>3
<1>4. base' = Canvas(from + p)'
  <2>1. base = IF p = 1 THEN Blank(GR_WIDTH, GR_HEIGHT) ELSE Canvas(from + p - 1)
    BY DEF AtLoad
  <2>2. base' = Canvas(from + p)
    BY <1>0, <1>3, <2>1
  <2> QED
    BY <1>0, <2>2, SameShots
<1>5. Due(from) + bmp_num = Due(from + p - 1) /\ bmp_num \in Nat
  BY DEF AtLoad, InMovie
<1>6. Due(from) + bmp_num \in Due(from + p - 1) .. Due(from + p)
  <2>1. Due(from + p - 1) \in Nat /\ Due(from + p) \in Nat /\ Due(from + p - 1) <= Due(from + p)
    BY <1>3, DueIs, DueMonotone
  <2> QED
    BY <1>5, <2>1
<1>7. Clocked(Due(from) + bmp_num)'
  <2>1. Clocked(Due(from) + bmp_num) \/ clock = Never
    BY DEF AtLoad
  <2>2. At(1)' = At(1) /\ Due(from)' = Due(from) /\ FrameStep \in Nat
    BY <1>0, SameShots, MovieAssumption
  <2>3. CASE clock # Never
    <3>1. clock' = clock /\ clock \in Times /\ Ticks(clock) = At(1) + (Due(from) + bmp_num) * FrameStep
      BY <1>0, <2>1, <2>3 DEF Clocked
    <3>2. Ticks(clock)' = Ticks(clock)
      BY <3>1 DEF Ticks
    <3> QED
      BY <1>0, <2>2, <3>1, <3>2 DEF Clocked
  <2>4. CASE clock = Never
    <3>1. n = 0 /\ p = 1
      <4>1. ~Clocked(Due(from) + bmp_num)
        BY <2>4, TicksAre DEF Clocked
      <4> QED
        BY <4>1 DEF AtLoad
    <3>2. from = 0 /\ from + p - 1 = 0 /\ from + p = 1
      <4>1. from = 0
        BY <3>1 DEF Split
      <4> QED
        BY <3>1, <4>1
    <3>3. Due(from) = 0 /\ bmp_num = 0
      <4>1. Due(0) = 0
        BY DEF Due
      <4> QED
        BY <1>5, <3>2, <4>1
    <3>4. clock' = shots[1].cdt
      BY <1>0, <1>3, <2>4, <3>2
    <3>5. clock' \in Times /\ At(1) \in Nat
      <4>1. 1 \in 1 .. Len(shots)
        BY <1>3, <3>2
      <4> QED
        BY <3>4, <4>1, ShotIs
    <3>6. Ticks(clock)' = At(1)
      BY <3>4 DEF Ticks, At
    <3>7. At(1) + (Due(from) + bmp_num) * FrameStep = At(1)
      <4>1. (Due(from) + bmp_num) * FrameStep = 0
        BY <2>2, <3>3
      <4> QED
        BY <3>5, <4>1
    <3> QED
      BY <1>0, <2>2, <3>5, <3>6, <3>7 DEF Clocked
  <2> QED
    BY <2>3, <2>4
<1>8. AtFrames(e)'
  <2>1. \A l : Due(l)' = Due(l)
    BY <1>0, SameShots
  <2>2. p \in 1 .. Len(movies'[n + 1])
    BY <1>0
  <2> QED
    BY <1>0, <1>1, <1>4, <1>6, <1>7, <2>1, <2>2 DEF AtFrames
<1> QED
  BY <1>1, <1>8 DEF VideoInv

\* FramesDone: what was due by this shot has been written.
LEMMA DoneVideo ==
  ASSUME IsRecording(shots), NEW e, Split(e), Playing(e), AtFrames(e), FramesDone
  PROVE  VideoInv'
<1>0. /\ shots' = shots /\ movies' = movies /\ num' = num /\ wrote' = wrote /\ clips' = clips
      /\ left' = left /\ video' = video /\ bmps' = bmps /\ bmp_num' = bmp_num
      /\ lost' = lost
      /\ pos' = pos + 1 /\ base' = base /\ clock' = clock /\ vpc' = "load"
      /\ ~(Ticks(clock) <= Ticks(movies[num + 1][pos].cdt))
  BY DEF FramesDone, recordVars, fileVars, FrameDue
<1>1. Split(e)' /\ Playing(e)' /\ InMovie(e)' /\ IsRecording(shots)'
  BY <1>0, SplitStays, PlayingStays, InMovieStays, SameShots DEF AtFrames
<1> PICK n \in Nat, M \in Nat : n = num /\ M = Len(movies) /\ n < M
  <2>1. Len(movies) \in Nat
    BY IsSeqIs DEF Split
  <2>2. num \in Nat /\ num < Len(movies)
    BY <2>1 DEF Playing, AtFrames, InMovie
  <2> QED
    BY <2>1, <2>2
<1>2. n + 1 \in 1 .. M /\ (n + 1) - 1 = n
  OBVIOUS
<1> PICK p \in Nat : p = pos /\ p \in 1 .. Len(movies[n + 1])
  BY DEF AtFrames
<1> PICK from \in Nat : from = e[n]
  BY <1>2, DCIs
<1>3. /\ from + p \in 1 .. Len(shots) /\ from + p \in 0 .. Len(shots) /\ from + p # 0
      /\ from + p - 1 \in 0 .. Len(shots)
      /\ movies[n + 1][p].cdt = shots[from + p].cdt
  <2>1. /\ from + p \in 1 .. Len(shots) /\ from + p - 1 \in 0 .. Len(shots)
        /\ movies[n + 1][p].cdt = shots[from + p].cdt
    BY <1>2, DCIs
  <2>2. Len(shots) \in Nat
    BY ShotIs
  <2> QED
    BY <2>1, <2>2
<1> PICK a \in Nat, b \in Nat : a = Due(from) + bmp_num /\ b = Due(from + p) /\ a <= b
  <2>1. Due(from) + bmp_num \in Due(from + p - 1) .. Due(from + p)
    BY DEF AtFrames
  <2>2. Due(from + p) \in Nat /\ Due(from + p - 1) \in Nat
    BY <1>3, DueIs
  <2> QED
    BY <2>1, <2>2
<1>4. clock \in Times /\ Ticks(clock) = At(1) + a * FrameStep
  BY DEF AtFrames, Clocked
<1>5. a = b
  <2>1. ~(At(1) + a * FrameStep <= At(from + p))
    BY <1>0, <1>3, <1>4 DEF At
  <2>2. ~(a < b)
    BY <1>3, <2>1, DueIs
  <2> QED
    BY <2>2
<1>6. Clocked(Due(from) + bmp_num)'
  <2>1. At(1)' = At(1) /\ Due(from)' = Due(from) /\ Ticks(clock)' = Ticks(clock)
    BY <1>0, SameShots DEF Ticks
  <2> QED
    BY <1>0, <1>4, <2>1 DEF Clocked
<1>7. AtLoad(e)'
  <2>1. (\A m : Due(m)' = Due(m)) /\ (\A m : Canvas(m)' = Canvas(m))
    BY <1>0, SameShots
  <2>2. /\ p + 1 \in 1 .. Len(movies'[n + 1]) + 1 /\ p + 1 # 1
        /\ from + (p + 1) - 1 = from + p
    <3> PICK L \in Nat : L = Len(movies[n + 1])
      <4>1. IsSeq(movies[n + 1])
        BY <1>2 DEF Split, Holds
      <4> QED
        BY <4>1, IsSeqIs
    <3>1. p + 1 \in 1 .. L + 1 /\ p + 1 # 1
      OBVIOUS
    <3> QED
      BY <1>0, <3>1
  <2>3. base' = Canvas(from + p)'
    BY <1>0, <2>1 DEF AtFrames
  <2>4. (Due(from) + bmp_num)' = Due(from + p)'
    BY <1>0, <1>5, <2>1
  <2> QED
    BY <1>0, <1>1, <1>6, <2>2, <2>3, <2>4 DEF AtLoad
<1> QED
  BY <1>1, <1>7 DEF VideoInv

LEMMA OneMore ==
  ASSUME NEW n \in Nat, NEW b \in Nat
  PROVE  n * b \in Nat /\ (n + 1) * b = n * b + b
OBVIOUS

\* A directory with one more picture in it shows one more frame, if it is the
\* right one.
LEMMA ShowsMore ==
  ASSUME NEW old, NEW from \in Nat, NEW n \in Nat, ShowsFrames(old, from, n),
         UNCHANGED <<shots, left>>, NEW file,
         lost' = 0 => /\ lost = 0 /\ file # NoBmp
                      /\ Decoded(file) = Recorded[from + n + 1]
  PROVE  ShowsFrames(Numbered(old, n, file), from, n + 1)'
<1> PICK new : new = Numbered(old, n, file)
  OBVIOUS
<1>1. /\ IsSeq(old) /\ (~left => Len(old) <= n) /\ Len(old) \in Nat
      /\ lost' = 0 => /\ Len(old) >= n
                      /\ \A f \in 1 .. n : old[f] # NoBmp /\ Decoded(old[f]) = Recorded[from + f]
  BY IsSeqIs DEF ShowsFrames
<1> PICK L \in Nat : L = Len(old)
  BY <1>1
<1>2. /\ IsSeq(new) /\ (~left => Len(new) <= n + 1)
      /\ L >= n => /\ Len(new) >= n + 1
                   /\ \A f \in 1 .. n : new[f] = old[f]
                   /\ new[n + 1] = file
  <2>1. CASE n < L
    <3>0. IsSeq(old) /\ n + 1 \in 1 .. Len(old)
      BY <1>1, <2>1
    <3>1. n + 1 \in 1 .. L /\ \A f \in 1 .. n : f # n + 1 /\ f \in 1 .. L
      BY <2>1
    <3>2. /\ IsSeq(Changed(old, n + 1, file))
          /\ Len(Changed(old, n + 1, file)) = Len(old)
          /\ \A m \in 1 .. Len(old) : Changed(old, n + 1, file)[m] = IF m = n + 1 THEN file ELSE old[m]
      BY <3>0, ReplacedIs
    <3>3. new = Changed(old, n + 1, file)
      BY <2>1 DEF Changed, Numbered
    <3>4. left /\ L >= n + 1
      BY <1>1, <2>1
    <3> QED
      BY <3>1, <3>2, <3>3, <3>4
  <2>2. CASE ~(n < L)
    <3>0. IsSeq(old)
      BY <1>1
    <3>2. /\ IsSeq(Append(old, file)) /\ Len(Append(old, file)) = Len(old) + 1
          /\ \A f \in 1 .. Len(old) : Append(old, file)[f] = old[f]
          /\ Append(old, file)[Len(old) + 1] = file
      BY <3>0, AppendIs
    <3>3. new = Append(old, file)
      BY <2>2 DEF Numbered
    <3>4. L + 1 <= n + 1 /\ (L >= n => L = n)
      BY <2>2
    <3> QED
      BY <3>2, <3>3, <3>4
  <2> QED
    BY <2>1, <2>2
<1>3. ASSUME lost' = 0, NEW f \in 1 .. n + 1
      PROVE  new[f] # NoBmp /\ Decoded(new[f]) = Recorded[from + f]
  <2>0. L >= n
    BY <1>1, <1>3
  <2>1. CASE f \in 1 .. n
    BY <1>1, <1>2, <1>3, <2>0, <2>1
  <2>2. CASE f \notin 1 .. n
    <3>1. f = n + 1 /\ from + f = from + n + 1
      BY <2>2
    <3> QED
      BY <1>2, <1>3, <2>0, <3>1
  <2> QED
    BY <2>1, <2>2
<1>4. lost' = 0 => Len(new) >= n + 1
  BY <1>1, <1>2
<1>5. Recorded' = Recorded
  BY SameShots
<1>6. ShowsFrames(new, from, n + 1)'
  BY <1>2, <1>3, <1>4, <1>5 DEF ShowsFrames
<1>7. Numbered(old, n, file)' = new
  BY DEF Numbered
<1> QED
  BY <1>6, <1>7

\* WriteFrame: the frame is the next of the recording, if it can be written, and
\* the clock goes on.
LEMMA WriteVideo ==
  ASSUME IsRecording(shots), NEW e, Split(e), Playing(e), AtFrames(e), WriteFrame,
         lost \in Nat
  PROVE  VideoInv'
<1> PICK bmp, old : bmp = BMPRLE4To(base) /\ old = bmps[num + 1]
  OBVIOUS
<1> PICK file : /\ bmps' = [bmps EXCEPT ![num + 1] = Numbered(old, bmp_num, file)]
                /\ lost' = 0 => lost = 0 /\ file = bmp
  <2>1. CASE UNCHANGED lost /\ bmps' = [bmps EXCEPT ![num + 1] = Numbered(old, bmp_num, bmp)]
    BY <2>1
  <2>2. CASE /\ lost' = lost + 1
             /\ \E file : bmps' = [bmps EXCEPT ![num + 1] = Numbered(old, bmp_num, file)]
    <3>1. lost' # 0
      BY <2>2
    <3> QED
      BY <2>2, <3>1
  <2>3. BMPWrite(bmp)
    BY DEF WriteFrame
  <2> QED
    BY <2>1, <2>2, <2>3 DEF BMPWrite
<1> PICK new : new = Numbered(old, bmp_num, file)
  OBVIOUS
<1>0. /\ shots' = shots /\ movies' = movies /\ num' = num /\ wrote' = wrote /\ clips' = clips
      /\ left' = left /\ video' = video /\ bmp_num' = bmp_num + 1
      /\ bmps' = [bmps EXCEPT ![num + 1] = new]
      /\ pos' = pos /\ base' = base /\ vpc' = "frames"
      /\ clock' = IF edition = "Linux" THEN NextDate(clock) ELSE Next64(clock)
      /\ Ticks(clock) <= Ticks(movies[num + 1][pos].cdt)
  BY DEF WriteFrame, recordVars, FrameDue
<1>1. Split(e)' /\ Playing(e)' /\ IsRecording(shots)'
  BY <1>0, SplitStays, PlayingStays, SameShots
<1> PICK n \in Nat, M \in Nat : n = num /\ M = Len(movies) /\ n < M
  <2>1. Len(movies) \in Nat
    BY IsSeqIs DEF Split
  <2>2. num \in Nat /\ num < Len(movies)
    BY <2>1 DEF Playing, AtFrames, InMovie
  <2> QED
    BY <2>1, <2>2
<1> PICK m : m = n + 1
  OBVIOUS
<1> PICK p \in Nat : p = pos /\ p \in 1 .. Len(movies[n + 1])
  BY DEF AtFrames
<1>2. m \in 1 .. Len(movies) /\ p \in 1 .. Len(movies[m]) /\ m - 1 = n
  OBVIOUS
<1> PICK from \in Nat : from = e[m - 1] /\ from = e[n]
  <2>1. e[m - 1] \in Nat
    BY <1>2, DCIs
  <2> QED
    BY <1>2, <2>1
<1>3. /\ from + p \in 1 .. Len(shots) /\ from + p \in 0 .. Len(shots) /\ from + p # 0
      /\ from \in 0 .. Len(shots)
      /\ from + p - 1 \in 0 .. Len(shots) /\ (from + p) - 1 = from + p - 1
      /\ movies[n + 1][p].cdt = shots[from + p].cdt
  <2>1. /\ from + p \in 1 .. Len(shots) /\ from + p - 1 \in 0 .. Len(shots)
        /\ (from + p) - 1 = from + p - 1
        /\ movies[m][p].cdt = shots[from + p].cdt
    BY <1>2, DCIs
  <2>2. Len(shots) \in Nat
    BY ShotIs
  <2> PICK L \in Nat : L = Len(shots)
    BY <2>2
  <2>5. from + p \in 1 .. L /\ from \in Nat /\ p \in Nat
    BY <2>1, Zenon
  <2>6. \A x, y, z \in Nat : x + y \in 1 .. z => x + y \in 0 .. z /\ x + y # 0 /\ x \in 0 .. z
    OBVIOUS
  <2>3. from + p \in 1 .. L /\ from + p \in 0 .. L /\ from + p # 0 /\ from \in 0 .. L
    BY <2>5, <2>6, Zenon
  <2>4. movies[n + 1][p].cdt = shots[from + p].cdt
    BY <2>1
  <2> QED
    BY <2>1, <2>3, <2>4
<1> PICK w \in Nat, d \in Nat, a \in Nat, b \in Nat :
      w = bmp_num /\ d = Due(from) /\ a = d + w /\ b = Due(from + p) /\ a <= b
  <2>1. Due(from) + bmp_num \in Due(from + p - 1) .. Due(from + p) /\ bmp_num \in Nat
    BY DEF AtFrames, InMovie
  <2>2. Due(from + p) \in Nat /\ Due(from + p - 1) \in Nat /\ Due(from) \in Nat
    BY <1>3, DueIs
  <2>3. Due(from) + bmp_num \in Nat /\ Due(from) + bmp_num <= Due(from + p)
    BY <2>1, <2>2
  <2> QED
    BY <2>1, <2>2, <2>3
<1>4. Due(from + p - 1) <= a /\ Due(from + p - 1) \in Nat
  <2>1. Due(from) + bmp_num \in Due(from + p - 1) .. Due(from + p)
    BY DEF AtFrames
  <2>2. Due(from + p - 1) \in Nat
    BY <1>3, DueIs
  <2> QED
    BY <2>1, <2>2
<1>5. clock \in Times /\ Ticks(clock) = At(1) + a * FrameStep
  BY DEF AtFrames, Clocked
<1>6. a < b
  <2>1. At(1) + a * FrameStep <= At(from + p)
    BY <1>0, <1>3, <1>5 DEF At
  <2> QED
    BY <1>3, <2>1, DueIs
<1>7. Decoded(bmp) = Recorded[d + w + 1]
  <2> PICK j : j = from + p
    OBVIOUS
  <2>1. Recorded[a + 1] = ScreenAfter(j)
    <3>1. Due(j - 1) <= a /\ a < Due(j) /\ j \in 1 .. Len(shots)
      BY <1>3, <1>4, <1>6
    <3> QED
      BY <3>1, RecordedIs
  <2>2. base = Canvas(j) /\ Decoded(BMPRLE4To(Canvas(j))) = ScreenAfter(j)
    <3>1. j \in 0 .. Len(shots)
      BY <1>3
    <3> QED
      BY <3>1, CanvasIs DEF AtFrames
  <2> QED
    BY <2>1, <2>2
<1>8. ShowsFrames(new, d, w + 1)'
  <2>1. ShowsFrames(old, d, w)
    BY DEF AtFrames, InMovie
  <2>2. bmp # NoBmp
    <3>1. bmp.height = GR_HEIGHT /\ NoBmp.height = 0
      BY DEF BMPRLE4To, AtFrames, Canvas, NoBmp
    <3> QED
      BY <3>1, MovieAssumption
  <2>3. ShowsFrames(Numbered(old, w, file), d, w + 1)'
    BY <1>0, <1>7, <2>1, <2>2, ShowsMore
  <2>4. Numbered(old, w, file)' = new
    BY DEF Numbered
  <2> QED
    BY <2>3, <2>4
<1>9. /\ IsSeq(bmps') /\ Len(bmps') = Len(bmps) /\ Len(bmps) \in Nat /\ n + 1 \in 1 .. Len(bmps)
      /\ \A l \in 1 .. Len(bmps) : bmps'[l] = IF l = n + 1 THEN new ELSE bmps[l]
  <2>1. IsSeq(bmps) /\ Len(bmps) > n
    BY DEF AtFrames, InMovie, Files
  <2>2. Len(bmps) \in Nat
    BY <2>1, IsSeqIs
  <2>3. n + 1 \in 1 .. Len(bmps)
    BY <2>1, <2>2
  <2>0. IsSeq(bmps)
    BY <2>1
  <2>4. /\ IsSeq(Changed(bmps, n + 1, new)) /\ Len(Changed(bmps, n + 1, new)) = Len(bmps)
        /\ \A l \in 1 .. Len(bmps) : Changed(bmps, n + 1, new)[l] = IF l = n + 1 THEN new ELSE bmps[l]
    BY ONLY <2>0, <2>3, ReplacedIs
  <2>5. bmps' = Changed(bmps, n + 1, new)
    BY <1>0 DEF Changed
  <2> QED
    BY <2>2, <2>3, <2>4, <2>5
<1>10. InMovie(e)'
  <2>1. Files(num + 1)'
    <3>1. /\ \A l \in 1 .. Len(bmps) : IsSeq(bmps[l])
          /\ ~left => video = NoVideo /\ \A l \in (n + 1) + 1 .. Len(bmps) : bmps[l] = <<>>
      BY DEF AtFrames, InMovie, Files
    <3>2. \A l \in 1 .. Len(bmps) : IsSeq(bmps'[l])
      <4>1. IsSeq(new)
        BY <1>8 DEF ShowsFrames
      <4> QED
        BY <1>9, <3>1, <4>1
    <3>3. \A l \in (n + 1) + 1 .. Len(bmps) : l \in 1 .. Len(bmps) /\ l # n + 1
      BY <1>9
    <3>4. ~left => \A l \in (n + 1) + 1 .. Len(bmps) : bmps'[l] = <<>>
      BY <1>9, <3>1, <3>3
    <3> QED
      BY <1>0, <1>9, <3>1, <3>2, <3>4 DEF Files
  <2>3. bmps'[num' + 1] = new /\ Due(e[num])' = d /\ bmp_num' = w + 1
    <3>1. Due(from)' = Due(from) /\ Due(e[num])' = Due(from)'
      BY <1>0, SameShots
    <3>2. bmps'[n + 1] = new
      BY <1>9
    <3> QED
      BY <1>0, <3>1, <3>2
  <2>4. ShowsFrames(bmps[num + 1], Due(e[num]), bmp_num)'
    BY <1>8, <2>3
  <2>5. num' < Len(movies') /\ Len(bmps') > num' /\ bmp_num' \in Nat
    <3>1. Len(bmps') > num'
      BY <1>0, <1>9 DEF AtFrames, InMovie
    <3>2. w + 1 \in Nat /\ bmp_num' = w + 1
      <4>1. w \in Nat /\ w = bmp_num
        OBVIOUS
      <4>2. w + 1 \in Nat
        BY ONLY <4>1
      <4> QED
        BY <1>0, <4>1, <4>2, Zenon
    <3>3. num' = n /\ Len(movies') = M
      BY <1>0
    <3> QED
      BY <3>1, <3>2, <3>3
  <2> QED
    BY <2>1, <2>4, <2>5 DEF InMovie
<1>11. Clocked(Due(from) + bmp_num)'
  <2>1. clock' \in Times /\ Ticks(clock') = Ticks(clock) + FrameStep
    BY <1>0, <1>5, ClockGoesOn
  <2>2. Ticks(clock)' = Ticks(clock')
    BY DEF Ticks
  <2>3. At(1)' = At(1) /\ Due(from)' = d
    BY <1>0, SameShots
  <2>4. At(1) + (d + (w + 1)) * FrameStep = (At(1) + a * FrameStep) + FrameStep
    <3> PICK F \in Nat : F = FrameStep
      BY MovieAssumption
    <3> PICK t \in Nat : t = At(1)
      <4>1. 1 \in 1 .. Len(shots)
        <5>1. Len(shots) \in Nat
          BY ShotIs
        <5> QED
          BY <1>3, <5>1
      <4> QED
        BY <4>1, ShotIs
    <3>0. d \in Nat /\ w \in Nat /\ a = d + w
      OBVIOUS
    <3>1. d + (w + 1) = a + 1
      BY ONLY <3>0
    <3>2. (a + 1) * F = a * F + F /\ a * F \in Nat
      BY OneMore
    <3>3. (d + (w + 1)) * F = a * F + F
      BY <3>1, <3>2, Zenon
    <3> PICK q \in Nat : q = a * F
      BY <3>2, Zenon
    <3>4. t + (q + F) = (t + q) + F
      OBVIOUS
    <3> QED
      BY <3>3, <3>4, Zenon
  <2> QED
    BY <1>0, <1>5, <2>1, <2>2, <2>3, <2>4 DEF Clocked
<1>12. AtFrames(e)'
  <2>1. (\A l : Due(l)' = Due(l)) /\ (\A l : Canvas(l)' = Canvas(l))
    BY <1>0, SameShots
  <2>2. d + (w + 1) \in Due(from + p - 1) .. b
    <3>1. d \in Nat /\ w \in Nat /\ a = d + w /\ a < b /\ b \in Nat
      BY <1>6
    <3> QED
      BY ONLY <1>4, <3>1
  <2>3. base' = Canvas(from + p)'
    BY <1>0, <2>1 DEF AtFrames
  <2>4. p \in 1 .. Len(movies'[n + 1])
    BY <1>0
  <2> QED
    BY <1>0, <1>10, <1>11, <2>1, <2>2, <2>3, <2>4 DEF AtFrames
<1> QED
  BY <1>1, <1>12 DEF VideoInv

\* MakeClip: the frames of the MV file are those due between its ends.
LEMMA ClipVideo ==
  ASSUME IsRecording(shots), NEW e, Split(e), Playing(e), AtLoad(e), MakeClip
  PROVE  VideoInv'
<1> PICK ends \in 0 .. Len(bmps[num + 1]) :
      /\ ends < Len(bmps[num + 1]) => bmps[num + 1][ends + 1] = NoBmp
      /\ clips' = Append(clips, SubSeq(bmps[num + 1], 1, ends))
  BY DEF MakeClip
<1>0. /\ shots' = shots /\ movies' = movies /\ left' = left /\ video' = video /\ bmps' = bmps
      /\ clock' = clock /\ numbered' = numbered /\ lost' = lost
      /\ pos > Len(movies[num + 1])
      /\ wrote' = Append(wrote, bmp_num)
      /\ num' = num + 1 /\ vpc' = IF numbered THEN "open" ELSE "concat"
  BY DEF MakeClip, recordVars
<1>1. Split(e)' /\ IsRecording(shots)' /\ Recorded' = Recorded /\ \A m : Due(m)' = Due(m)
  BY <1>0, SplitStays, SameShots
<1> PICK n \in Nat, M \in Nat : n = num /\ M = Len(movies) /\ n < M
  <2>1. Len(movies) \in Nat
    BY IsSeqIs DEF Split
  <2>2. num \in Nat /\ num < Len(movies)
    BY <2>1 DEF Playing, AtLoad, InMovie
  <2> QED
    BY <2>1, <2>2
<1> PICK m \in Nat : m = n + 1
  <2>1. n + 1 \in Nat
    OBVIOUS
  <2> QED
    BY <2>1
<1>2. m \in 1 .. M /\ m \in 0 .. M /\ m - 1 = n /\ m # 0
  OBVIOUS
<1> PICK from : from = e[n] /\ from = e[m - 1]
  BY <1>2
<1> PICK to : to = e[m]
  OBVIOUS
<1> PICK w \in Nat : w = bmp_num
  BY DEF AtLoad, InMovie
<1>3. Due(from) + w = Due(to)
  <2>1. /\ from \in 0 .. Len(shots) /\ to \in 0 .. Len(shots) /\ Len(shots) \in Nat
        /\ Len(movies[m]) = to - from /\ from < to
    BY <1>2, EndsAre
  <2>2. pos \in 1 .. (to - from) + 1 /\ pos > to - from /\ Due(from) + w = Due(from + pos - 1)
    BY <1>0, <2>1 DEF AtLoad
  <2>3. from + pos - 1 = to
    <3>2. from \in Nat /\ to \in Nat
      <4>1. \A l \in Nat : 0 .. l \subseteq Nat
        OBVIOUS
      <4> QED
        BY <2>1, <4>1, Zenon
    <3>3. \A l \in Int, q \in Nat : q \in 1 .. l + 1 /\ q > l => q = l + 1
      OBVIOUS
    <3>4. to - from \in Int /\ \A q \in 1 .. (to - from) + 1 : q \in Nat
      BY ONLY <3>2
    <3>1. pos = (to - from) + 1 /\ from \in Nat /\ to \in Nat
      BY <2>2, <3>2, <3>3, <3>4, Zenon
    <3> QED
      BY ONLY <3>1
  <2> QED
    BY <2>2, <2>3
<1> PICK f : f = SubSeq(bmps[m], 1, ends)
  OBVIOUS
<1>4. ShowsFrames(f, Due(from), w)
  <2>1. ShowsFrames(bmps[m], Due(from), w)
    BY DEF AtLoad, InMovie
  <2>2. IsSeq(bmps[m]) /\ ends \in 0 .. Len(bmps[m])
    BY <2>1 DEF ShowsFrames
  <2> PICK L \in Nat : L = Len(bmps[m])
    BY <2>2, IsSeqIs
  <2>3. /\ IsSeq(f) /\ Len(f) = ends /\ ends \in Nat /\ ends <= L
        /\ \A j \in 1 .. ends : f[j] = bmps[m][j]
    BY <2>2, BeginningIs
  <2>4. ASSUME lost = 0 PROVE ends >= w
    <3> SUFFICES ASSUME ends < w PROVE FALSE
      BY <2>3
    <3>1. L >= w /\ \A j \in 1 .. w : bmps[m][j] # NoBmp
      BY <2>1, <2>4 DEF ShowsFrames
    <3>2. ends + 1 \in 1 .. w /\ ends < L
      BY <2>3, <3>1
    <3> QED
      BY <3>1, <3>2
  <2>5. ASSUME lost = 0, NEW j \in 1 .. w
        PROVE  f[j] # NoBmp /\ Decoded(f[j]) = Recorded[Due(from) + j]
    <3>1. j \in 1 .. ends
      BY <2>3, <2>4, <2>5
    <3> QED
      BY <2>1, <2>3, <2>5, <3>1 DEF ShowsFrames
  <2>6. ~left => ends <= w
    BY <2>1, <2>3 DEF ShowsFrames
  <2> QED
    BY <2>3, <2>4, <2>5, <2>6 DEF ShowsFrames
<1>5. /\ IsSeq(wrote') /\ Len(wrote') = m /\ wrote'[m] = w
      /\ \A j \in 1 .. n : wrote'[j] = wrote[j]
  <2>1. IsSeq(wrote) /\ Len(wrote) = n
    BY DEF Playing
  <2>2. /\ IsSeq(Append(wrote, w)) /\ Len(Append(wrote, w)) = Len(wrote) + 1
        /\ Append(wrote, w)[Len(wrote) + 1] = w
        /\ \A j \in 1 .. Len(wrote) : Append(wrote, w)[j] = wrote[j]
    BY <2>1, AppendIs
  <2>3. wrote' = Append(wrote, w)
    BY <1>0
  <2> QED
    BY <2>1, <2>2, <2>3
<1>6. /\ IsSeq(clips') /\ Len(clips') = m /\ clips'[m] = f
      /\ \A j \in 1 .. n : clips'[j] = clips[j]
  <2>1. IsSeq(clips) /\ Len(clips) = n
    BY DEF Playing
  <2>2. /\ IsSeq(Append(clips, f)) /\ Len(Append(clips, f)) = Len(clips) + 1
        /\ Append(clips, f)[Len(clips) + 1] = f
        /\ \A j \in 1 .. Len(clips) : Append(clips, f)[j] = clips[j]
    BY <2>1, AppendIs
  <2>3. clips' = Append(clips, f)
    BY <1>0
  <2> QED
    BY <2>1, <2>2, <2>3
<1>7. ASSUME NEW j \in 1 .. m
      PROVE  (/\ wrote[j] \in Nat
              /\ Due(e[j - 1]) + wrote[j] = Due(e[j])
              /\ ShowsFrames(clips[j], Due(e[j - 1]), wrote[j]))'
  <2>1. \E g, a, b, v : /\ g = clips'[j] /\ a = Due(e[j - 1]) /\ v = wrote'[j] /\ b = Due(e[j])
                        /\ v \in Nat /\ a + v = b /\ ShowsFrames(g, a, v)
    <3>1. CASE j = m
      BY <1>2, <1>3, <1>4, <1>5, <1>6, <3>1
    <3>2. CASE j # m
      <4>1. j \in 1 .. n
        BY <3>2
      <4>2. /\ wrote[j] \in Nat
            /\ Due(e[j - 1]) + wrote[j] = Due(e[j])
            /\ ShowsFrames(clips[j], Due(e[j - 1]), wrote[j])
        BY <4>1 DEF Playing
      <4> QED
        BY <1>5, <1>6, <4>1, <4>2
    <3> QED
      BY <3>1, <3>2
  <2> PICK g, a, b, v : /\ g = clips'[j] /\ a = Due(e[j - 1]) /\ v = wrote'[j] /\ b = Due(e[j])
                        /\ v \in Nat /\ a + v = b /\ ShowsFrames(g, a, v)
    BY <2>1
  <2>2. ShowsFrames(g, a, v)'
    BY <1>0, ShowsStays
  <2>3. clips[j]' = g /\ Due(e[j - 1])' = a /\ wrote[j]' = v /\ Due(e[j])' = b
    BY <1>1
  <2> QED
    BY <2>2, <2>3
<1>8. Playing(e)'
  <2>1. e[Len(movies)]' = Len(shots)' /\ m \in 0 .. Len(movies')
    BY <1>0, <1>2 DEF Playing
  <2> QED
    BY <1>0, <1>5, <1>6, <1>7, <2>1 DEF Playing
<1>9. Clocked(Due(to))'
  <2>1. Clocked(Due(to))
    <3>1. pos # 1
      <4>1. Len(movies[m]) \in Nat /\ Len(movies[m]) # 0
        <5>1. IsSeq(movies[m]) /\ e[m - 1] < e[m] /\ Len(movies[m]) = e[m] - e[m - 1]
          BY <1>2 DEF Split, Holds
        <5>2. e[m - 1] \in 0 .. Len(shots) /\ e[m] \in 0 .. Len(shots) /\ Len(shots) \in Nat
          BY <1>2, EndsAre
        <5> QED
          BY <5>1, <5>2
      <4> QED
        BY <1>0, <4>1
    <3> QED
      BY <1>3, <3>1 DEF AtLoad
  <2>2. At(1)' = At(1) /\ Due(to)' = Due(to) /\ Ticks(clock)' = Ticks(clock)
    BY <1>0, SameShots DEF Ticks
  <2> QED
    BY <1>0, <2>1, <2>2 DEF Clocked
<1>10. Files(m)' /\ Len(bmps') >= m
  <2>1. Files(m) /\ Len(bmps) > n
    BY DEF AtLoad, InMovie
  <2>2. Len(bmps) \in Nat
    BY <2>1, IsSeqIs DEF Files
  <2>3. Len(bmps) >= m
    BY <2>1, <2>2
  <2> QED
    BY <1>0, <2>1, <2>3 DEF Files
<1>11. CASE numbered
  <2>1. vpc' = "open" /\ num' = m
    BY <1>0, <1>11
  <2> QED
    BY <1>1, <1>2, <1>8, <1>9, <1>10, <2>1 DEF VideoInv, AtOpen
<1>12. CASE ~numbered
  <2>1. vpc' = "concat" /\ num' = m /\ ~numbered'
    BY <1>0, <1>12
  <2>2. AtEnd'
    BY <1>9, <1>10, <2>1 DEF AtEnd, Files, Clocked
  <2> QED
    BY <1>1, <1>8, <2>2 DEF VideoInv
<1> QED
  BY <1>11, <1>12

\* NoMoreMovies: every MV file has its clip.
LEMMA NoMoreVideo ==
  ASSUME IsRecording(shots), NEW e, Split(e), Playing(e), AtOpen(e), NoMoreMovies
  PROVE  VideoInv'
<1>0. /\ shots' = shots /\ movies' = movies /\ num' = num /\ wrote' = wrote /\ clips' = clips
      /\ left' = left /\ video' = video /\ bmps' = bmps /\ clock' = clock /\ lost' = lost
      /\ num = Len(movies) /\ vpc' = "concat"
  BY DEF NoMoreMovies, recordVars, fileVars, playVars
<1>1. Split(e)' /\ Playing(e)' /\ IsRecording(shots)'
  BY <1>0, SplitStays, PlayingStays, SameShots
<1>2. AtEnd'
  <2>1. clock \in Times \cup {Never}
    BY DEF AtOpen, Clocked
  <2> QED
    BY <1>0, <2>1 DEF AtEnd, AtOpen, Files
<1> QED
  BY <1>1, <1>2 DEF VideoInv

\* Concat: if a clip is missing, the list is joined up to it at most.
LEMMA ConcatVideo ==
  ASSUME IsRecording(shots), NEW e, Split(e), Playing(e), AtEnd, Concat
  PROVE  VideoInv'
<1>0. /\ shots' = shots /\ movies' = movies /\ num' = num /\ wrote' = wrote /\ clips' = clips
      /\ left' = left /\ bmps' = <<>> /\ clock' = clock /\ numbered' = numbered /\ lost' = lost
      /\ vpc = "concat" /\ vpc' = "played"
  BY DEF Concat, recordVars, playVars
<1>1. Split(e)' /\ Playing(e)' /\ IsRecording(shots)'
  BY <1>0, SplitStays, PlayingStays, SameShots
<1> PICK n \in Nat : n = num
  <2>1. Len(movies) \in Nat
    BY IsSeqIs DEF Split
  <2>2. num \in Nat
    BY <2>1 DEF Playing
  <2> QED
    BY <2>2
<1>2. IsSeq(clips) /\ Len(clips) = n /\ IsSeq(wrote) /\ Len(wrote) = n
  BY DEF Playing
<1>3. ASSUME lost = 0, NEW m \in 1 .. n, wrote[m] > 0 PROVE clips[m] # <<>>
  <2>1. ShowsFrames(clips[m], Due(e[m - 1]), wrote[m]) /\ wrote[m] \in Nat
    BY DEF Playing
  <2>2. IsSeq(clips[m]) /\ Len(clips[m]) >= wrote[m]
    BY <1>3, <2>1 DEF ShowsFrames
  <2>3. Len(clips[m]) # 0
    BY <1>3, <2>1, <2>2, IsSeqIs
  <2> QED
    BY <2>2, <2>3, IsSeqIs
<1>4. Joined'
  <2>1. ASSUME lost = 0, num > 0, \A m \in 1 .. num : wrote[m] > 0 PROVE video' = clips
    <3>1. Missing = {}
      BY <1>2, <1>3, <2>1 DEF Missing
    <3> QED
      BY <2>1, <3>1 DEF Concat
  <2>2. ASSUME ~left
        PROVE  /\ IsSeq(video') /\ Len(video') <= n
               /\ \A m \in 1 .. Len(video') : video'[m] = clips[m]
    <3>1. video = <<>>
      BY <1>0, <2>2 DEF AtEnd, NoVideo
    <3>2. CASE video' = clips
      BY <1>2, <3>2
    <3>3. CASE video' = <<>>
      <4>1. IsSeq(<<>>) /\ Len(<<>>) = 0 /\ 1 .. 0 = {}
        BY NothingIsSeq
      <4> QED
        BY <3>3, <4>1
    <3>4. CASE \E m \in 1 .. n : video' = SubSeq(clips, 1, m)
      <4> PICK m \in 1 .. n : video' = SubSeq(clips, 1, m)
        BY <3>4
      <4>1. m \in 0 .. Len(clips) /\ m <= n
        BY <1>2
      <4>2. /\ IsSeq(SubSeq(clips, 1, m)) /\ Len(SubSeq(clips, 1, m)) = m
            /\ \A j \in 1 .. m : SubSeq(clips, 1, m)[j] = clips[j]
        BY <1>2, <4>1, BeginningIs
      <4> QED
        BY <4>1, <4>2
    <3>5. video' = clips \/ video' = video \/ \E m \in 1 .. n : video' = SubSeq(clips, 1, m)
      BY <1>2 DEF Concat
    <3> QED
      BY <3>1, <3>2, <3>3, <3>4, <3>5
  <2> QED
    BY <1>0, <2>1, <2>2 DEF Joined
<1>5. AtEnd'
  <2>1. IsSeq(<<>>) /\ Len(<<>>) = 0 /\ 1 .. 0 = {}
    BY NothingIsSeq
  <2> QED
    BY <1>0, <1>4, <2>1 DEF AtEnd
<1> QED
  BY <1>1, <1>5 DEF VideoInv

\* BreakOff: whatever was there may be in the way of the next run.
LEMMA BreakVideo ==
  ASSUME NEW taken, IsRecording(taken), VideoInv, BreakOff(taken)
  PROVE  VideoInv'
<1>0. /\ shots' = taken
      /\ dc_base' = Blank(GR_WIDTH, GR_HEIGHT)
      /\ shot' = 0 /\ part' = <<>> /\ size' = 0 /\ movies' = <<>>
      /\ vpc' = "merge" /\ vpc # "merge"
      /\ num' = 0 /\ clock' = Never
      /\ wrote' = <<>> /\ clips' = <<>>
      /\ left' = (left \/ video # NoVideo \/ \E m \in 1 .. Len(bmps) : bmps[m] # <<>>)
      /\ bmps' = bmps /\ video' = video
  BY DEF BreakOff
<1> PICK e : e = [m \in 0 .. 0 |-> 0]
  OBVIOUS
<1>1. IsSeq(<<>>) /\ Len(<<>>) = 0 /\ 1 .. 0 = {} /\ 0 .. 0 = {0}
  BY NothingIsSeq
<1>2. IsRecording(shots)'
  BY <1>0 DEF IsRecording
<1>3. Len(shots') \in Nat /\ 0 \in 0 .. Len(shots')
  <2>1. Len(taken) \in Nat
    BY LenProperties DEF IsRecording
  <2> QED
    BY <1>0, <2>1
<1>4. Split(e)'
  <2>1. e \in [0 .. 0 -> 0 .. Len(shots')] /\ e[0] = 0
    BY <1>1, <1>3
  <2> QED
    BY <1>0, <1>1, <2>1 DEF Split
<1>5. dc_base' = Canvas(0)'
  <2>1. \A x, y : Seen(0, x, y)' = {}
    BY <1>1 DEF Seen
  <2>2. \A x, y : Point(0, x, y)' = 0
    BY <2>1 DEF Point, OfLast
  <2> QED
    BY <1>0, <2>2 DEF Canvas, Blank
<1>6. IsSeq(bmps) /\ \A m \in 1 .. Len(bmps) : IsSeq(bmps[m])
  BY <1>0 DEF VideoInv, Merging, AtOpen, AtLoad, AtFrames, InMovie, AtEnd, Files
<1>7. Files(0)'
  <2>1. 0 + 1 = 1
    OBVIOUS
  <2> QED
    BY <1>0, <1>6, <2>1 DEF Files
<1>8. Merging(e)'
  <2>1. 0 \in 0 .. MV_FILE_MAX
    BY MovieAssumption
  <2> QED
    BY <1>0, <1>1, <1>3, <1>4, <1>5, <1>7, <2>1 DEF Merging, Split
<1> QED
  BY <1>2, <1>4, <1>8 DEF VideoInv

\* Steps of TOSZ that are not the video's leave it alone.
LEMMA StutterVideo ==
  ASSUME VideoInv, UNCHANGED movieVars
  PROVE  VideoInv'
<1>0. /\ shots' = shots /\ dc_base' = dc_base /\ shot' = shot /\ part' = part /\ size' = size
      /\ movies' = movies /\ vpc' = vpc /\ numbered' = numbered /\ num' = num /\ pos' = pos
      /\ base' = base /\ clock' = clock /\ bmp_num' = bmp_num /\ bmps' = bmps
      /\ wrote' = wrote /\ clips' = clips /\ video' = video /\ left' = left /\ lost' = lost
  BY DEF movieVars, recordVars, playVars, fileVars
<1>1. /\ \A n : Canvas(n)' = Canvas(n)
      /\ \A n : Due(n)' = Due(n)
      /\ \A n : At(n)' = At(n)
      /\ IsRecording(shots)'
  BY <1>0, SameShots DEF VideoInv
<1>2. Ticks(clock)' = Ticks(clock)
  BY <1>0 DEF Ticks
<1> PICK e : Split(e) /\ (\/ Merging(e)
                          \/ Playing(e) /\ (AtOpen(e) \/ AtLoad(e) \/ AtFrames(e) \/ AtEnd))
  BY DEF VideoInv
<1>3. Split(e)' /\ (Playing(e) => Playing(e)') /\ (InMovie(e) => InMovie(e)')
  BY <1>0, SplitStays, PlayingStays, InMovieStays
<1>4. \A n : Clocked(n) => Clocked(n)'
  BY <1>0, <1>1, <1>2 DEF Clocked
<1>5. \A n : Files(n) => Files(n)'
  BY <1>0 DEF Files
<1>6. Merging(e) => Merging(e)'
  <2>1. \A f, a, b : Holds(f, a, b) => Holds(f, a, b)'
    BY <1>0, <1>1 DEF Holds
  <2> QED
    BY <1>0, <1>1, <1>5, <2>1 DEF Merging
<1>7. AtOpen(e) => AtOpen(e)'
  BY <1>0, <1>1, <1>4, <1>5 DEF AtOpen
<1>8. AtLoad(e) => AtLoad(e)'
  BY <1>0, <1>1, <1>3, <1>4 DEF AtLoad
<1>9. AtFrames(e) => AtFrames(e)'
  BY <1>0, <1>1, <1>3, <1>4 DEF AtFrames
<1>10. AtEnd => AtEnd'
  BY <1>0 DEF AtEnd, Joined
<1> QED
  BY <1>1, <1>3, <1>6, <1>7, <1>8, <1>9, <1>10 DEF VideoInv

LEMMA VideoStarts == ASSUME ToszInit PROVE VideoInv
<1>0. /\ IsRecording(shots)
      /\ dc_base = Blank(GR_WIDTH, GR_HEIGHT)
      /\ shot = 0 /\ part = <<>> /\ size = 0 /\ movies = <<>>
      /\ vpc = "merge"
      /\ num = 0 /\ clock = Never
      /\ bmps = <<>> /\ wrote = <<>> /\ left = FALSE
      /\ clips = <<>> /\ video = NoVideo
  BY RecordingsAssumption DEF ToszInit, MovieInit
<1> PICK e : e = [m \in 0 .. 0 |-> 0]
  OBVIOUS
<1>1. IsSeq(<<>>) /\ Len(<<>>) = 0 /\ 1 .. 0 = {} /\ 0 .. 0 = {0}
  BY NothingIsSeq
<1>2. Len(shots) \in Nat /\ 0 \in 0 .. Len(shots)
  <2>1. Len(shots) \in Nat
    BY <1>0, ShotIs
  <2> QED
    BY <2>1
<1>3. Split(e)
  <2>1. e \in [0 .. 0 -> 0 .. Len(shots)] /\ e[0] = 0
    BY <1>1, <1>2
  <2> QED
    BY <1>0, <1>1, <2>1 DEF Split
<1>4. dc_base = Canvas(0)
  BY <1>0, <1>2, CanvasIs
<1>5. Files(0)
  <2>1. \A m \in 1 .. 0 : IsSeq(bmps[m])
    BY <1>1
  <2>2. \A m \in 0 + 1 .. 0 : bmps[m] = <<>>
    OBVIOUS
  <2> QED
    BY <1>0, <1>1, <2>1, <2>2 DEF Files
<1>6. Merging(e)
  <2>1. 0 \in 0 .. MV_FILE_MAX
    BY MovieAssumption
  <2> QED
    BY <1>0, <1>1, <1>2, <1>3, <1>4, <1>5, <2>1 DEF Merging, Split
<1> QED
  BY <1>0, <1>3, <1>6 DEF VideoInv

\* Every step of TOSZ keeps what is known of the video.
LEMMA VideoGoesOn == ASSUME VideoInv, Counted, [Next]_toszVars PROVE VideoInv'
<1> PICK e : Split(e) /\ (\/ Merging(e)
                          \/ Playing(e) /\ (AtOpen(e) \/ AtLoad(e) \/ AtFrames(e) \/ AtEnd))
  BY DEF VideoInv
<1>0. IsRecording(shots)
  BY DEF VideoInv
<1>1. CASE UNCHANGED toszVars
  <2>1. UNCHANGED movieVars
    BY <1>1 DEF toszVars
  <2> QED
    BY <2>1, StutterVideo
<1>2. CASE \/ Pack \/ Main \/ Expand \/ CvtFails \/ CvtWrite \/ RemoveInput
           \/ PlaySound \/ JoinFilm \/ Ends
  <2>1. UNCHANGED movieVars
    BY <1>2 DEF Pack, Main, Expand, CvtFails, CvtWrite, RemoveInput, PlaySound, JoinFilm, Ends
  <2> QED
    BY <2>1, StutterVideo
<1>3. CASE Merge
  <2>1. CASE MergeShot
    <3>1. Merging(e)
      BY <2>1 DEF MergeShot, AtOpen, AtLoad, AtFrames, AtEnd
    <3> QED
      BY <1>0, <2>1, <3>1, PartGrows
  <2>2. CASE MergeEnd
    <3>1. Merging(e)
      BY <2>2 DEF MergeEnd, AtOpen, AtLoad, AtFrames, AtEnd
    <3> QED
      BY <1>0, <2>2, <3>1, MergeEnds
  <2> QED
    BY <1>3, <2>1, <2>2 DEF Merge, GR2MV
<1>4. CASE PlayVideo
  <2>1. CASE OpenMovie
    <3>1. Playing(e) /\ AtOpen(e)
      BY <2>1 DEF OpenMovie, Merging, AtLoad, AtFrames, AtEnd
    <3> QED
      BY <1>0, <2>1, <3>1, OpenVideo
  <2>2. CASE LoadDC
    <3>1. Playing(e) /\ AtLoad(e)
      BY <2>2 DEF LoadDC, Merging, AtOpen, AtFrames, AtEnd
    <3> QED
      BY <1>0, <2>2, <3>1, LoadVideo
  <2>3. CASE WriteFrame
    <3>1. Playing(e) /\ AtFrames(e)
      BY <2>3 DEF WriteFrame, Merging, AtOpen, AtLoad, AtEnd
    <3> QED
      BY <1>0, <2>3, <3>1, WriteVideo DEF Counted
  <2>4. CASE FramesDone
    <3>1. Playing(e) /\ AtFrames(e)
      BY <2>4 DEF FramesDone, Merging, AtOpen, AtLoad, AtEnd
    <3> QED
      BY <1>0, <2>4, <3>1, DoneVideo
  <2>5. CASE MakeClip
    <3>1. Playing(e) /\ AtLoad(e)
      BY <2>5 DEF MakeClip, Merging, AtOpen, AtFrames, AtEnd
    <3> QED
      BY <1>0, <2>5, <3>1, ClipVideo
  <2>6. CASE NoMoreMovies
    <3>1. Playing(e) /\ AtOpen(e)
      BY <2>6 DEF NoMoreMovies, Merging, AtLoad, AtFrames, AtEnd
    <3> QED
      BY <1>0, <2>6, <3>1, NoMoreVideo
  <2>7. CASE Concat
    <3>1. Playing(e) /\ AtEnd
      BY <2>7 DEF Concat, Merging, AtOpen, AtLoad, AtFrames
    <3> QED
      BY <1>0, <2>7, <3>1, ConcatVideo
  <2> QED
    BY <1>4, <2>1, <2>2, <2>3, <2>4, <2>5, <2>6, <2>7 DEF PlayVideo, MV2BMPLst
<1>5. CASE Break
  <2> PICK r \in Recordings : BreakOff(r.shots)
    BY <1>5 DEF Break
  <2>1. IsRecording(r.shots)
    BY RecordingsAssumption
  <2> QED
    BY <2>1, BreakVideo
<1> QED
  BY <1>1, <1>2, <1>3, <1>4, <1>5 DEF Next

\* Clips that show what there is until their ends, one after the other.
LEMMA PlayedIs ==
  ASSUME IsRecording(shots), NEW e, Split(e), Playing(e), lost = 0,
         IsSeq(video), Len(video) <= num, \A m \in 1 .. Len(video) : video[m] = clips[m]
  PROVE  /\ Len(video) \in 0 .. Len(movies)
         /\ Played = [n \in 1 .. Due(e[Len(video)]) |-> Recorded[n]]
<1> PICK M \in Nat : M = Len(movies)
  BY IsSeqIs DEF Split
<1> PICK v \in Nat : v = Len(video)
  BY IsSeqIs
<1>1. v <= num /\ num \in 0 .. M
  BY DEF Playing
<1>2. v \in 0 .. M /\ \A m \in 1 .. v : m \in 1 .. num /\ m \in 1 .. M /\ m \in 0 .. M /\ m - 1 \in 0 .. M
  BY <1>1
<1> DEFINE seqs == [m \in 1 .. v |-> Frames(video[m], wrote[m])]
           S == {Frames(video[m], wrote[m]) : m \in 1 .. v}
           D(m) == Due(e[m])
<1>3. Played = FlattenSeq(seqs)
  BY DEF Played
<1>4. seqs \in Seq(S) /\ Len(seqs) = v /\ \A m \in 1 .. v : seqs[m] = Frames(video[m], wrote[m])
  OBVIOUS
<1>5. \A m \in 0 .. M : D(m) \in Nat
  BY DueIs DEF Split
<1>6. D(0) = 0
  BY DEF Split, Due
<1>7. ASSUME NEW m \in 1 .. v
      PROVE  /\ wrote[m] \in Nat /\ D(m - 1) + wrote[m] = D(m)
             /\ seqs[m] = [n \in 1 .. wrote[m] |-> Recorded[D(m - 1) + n]]
  <2>1. wrote[m] \in Nat /\ D(m - 1) + wrote[m] = D(m) /\ ShowsFrames(clips[m], D(m - 1), wrote[m])
    BY <1>2 DEF Playing
  <2>2. \A n \in 1 .. wrote[m] : Decoded(video[m][n]) = Recorded[D(m - 1) + n]
    BY <2>1 DEF ShowsFrames
  <2>3. Frames(video[m], wrote[m]) = [n \in 1 .. wrote[m] |-> Recorded[D(m - 1) + n]]
    BY <2>2 DEF Frames
  <2> QED
    BY <1>4, <2>1, <2>3
<1> HIDE DEF seqs, S, D
<1>8. CASE v = 0
  <2>1. Played = seqs /\ seqs = <<>>
    BY <1>3, <1>4, <1>8, EmptySeq DEF FlattenSeq
  <2>2. D(v) = 0 /\ 1 .. 0 = {}
    BY <1>6, <1>8
  <2>3. <<>> = [n \in 1 .. D(v) |-> Recorded[n]]
    BY <2>2
  <2> QED
    BY <1>2, <2>1, <2>3 DEF D
<1>9. CASE v # 0
  <2>1. seqs # <<>>
    BY <1>4, <1>9
  <2> PICK f : /\ f[1] = seqs[1]
               /\ \A m \in 1 .. v - 1 : f[m + 1] = f[m] \o seqs[m + 1]
               /\ FlattenSeq(seqs) = f[v]
    BY <1>4, <2>1, FlattenIs
  <2> DEFINE Good == {m \in 1 .. v : f[m] = [n \in 1 .. D(m) |-> Recorded[n]]}
  <2>2. 1 \in Good
    <3>1. 1 \in 1 .. v /\ 1 - 1 = 0
      BY <1>9
    <3>2. seqs[1] = [n \in 1 .. wrote[1] |-> Recorded[0 + n]] /\ wrote[1] \in Nat /\ 0 + wrote[1] = D(1)
      BY <1>6, <1>7, <3>1
    <3>3. wrote[1] = D(1) /\ \A n \in 1 .. wrote[1] : 0 + n = n
      BY <3>2
    <3>4. f[1] = [n \in 1 .. D(1) |-> Recorded[n]]
      BY <3>2, <3>3
    <3> QED
      BY <3>1, <3>4
  <2>3. ASSUME NEW m \in 1 .. v, m \in Good, m # v PROVE m + 1 \in Good
    <3>1. m \in 1 .. v - 1 /\ m + 1 \in 1 .. v /\ (m + 1) - 1 = m
      BY <2>3
    <3> PICK p \in Nat, w \in Nat : p = D(m) /\ w = wrote[m + 1]
      BY <1>2, <1>5, <1>7, <3>1
    <3>2. p + w = D(m + 1) /\ seqs[m + 1] = [n \in 1 .. w |-> Recorded[p + n]]
      BY <1>7, <3>1
    <3>3. f[m + 1] = [n \in 1 .. p |-> Recorded[n]] \o [n \in 1 .. w |-> Recorded[p + n]]
      BY <2>3, <3>1, <3>2
    <3> PICK r : r = Recorded
      OBVIOUS
    <3>0. [n \in 1 .. p |-> r[n]] \o [n \in 1 .. w |-> r[p + n]] = [n \in 1 .. p + w |-> r[n]]
      BY ONLY p \in Nat, w \in Nat, ConcatIs
    <3>4. f[m + 1] = [n \in 1 .. p + w |-> Recorded[n]]
      BY <3>3, <3>0
    <3> QED
      BY <3>1, <3>2, <3>4
  <2> HIDE DEF Good
  <2>4. v \in Good
    <3>1. 1 \in Nat /\ v \in Nat /\ v \in 1 .. v
      BY <1>9
    <3>2. \A m \in 1 .. v : m \in Good
      BY <2>2, <2>3, <3>1, Climb
    <3> QED
      BY <3>1, <3>2
  <2> QED
    BY <1>2, <1>3, <2>4 DEF Good, D
<1> QED
  BY <1>8, <1>9

\* What VideoInv says in the end.
LEMMA VideoIsSeen == ASSUME VideoInv PROVE VideoShowsRecording
<1> SUFFICES ASSUME vpc = "played", numbered
             PROVE  /\ lost = 0 /\ movies # <<>> /\ (\A m \in 1 .. Len(wrote) : wrote[m] > 0)
                         => Len(video) = Len(wrote) /\ Played = Recorded
                    /\ ~left => \A m \in 1 .. Len(video) : Len(video[m]) <= wrote[m]
                    /\ lost = 0 /\ ~left =>
                         /\ \A m \in 1 .. Len(video) : Len(video[m]) = wrote[m]
                         /\ IsPrefix(Played, Recorded)
  BY DEF VideoShowsRecording
<1> PICK e : IsRecording(shots) /\ Split(e) /\ Playing(e) /\ AtEnd
  BY DEF VideoInv, Merging, AtOpen, AtLoad, AtFrames
<1> PICK M \in Nat : M = Len(movies)
  BY IsSeqIs DEF Split
<1> PICK L \in Nat : L = Len(shots)
  BY ShotIs
<1>1. num = M /\ Joined /\ Len(wrote) = M /\ Len(clips) = M /\ IsSeq(clips) /\ e[M] = L
  BY DEF AtEnd, Playing
<1>2. Recorded = [n \in 1 .. Due(L) |-> Recorded[n]] /\ Due(L) \in Nat
  <2>1. L \in 0 .. L
    OBVIOUS
  <2> QED
    BY <2>1, RecordedIs, DueIs
<1>3. ASSUME lost = 0, movies # <<>>, \A m \in 1 .. Len(wrote) : wrote[m] > 0
      PROVE  Len(video) = Len(wrote) /\ Played = Recorded
  <2>1. M # 0
    BY <1>3, IsSeqIs DEF Split
  <2>2. video = clips
    BY <1>1, <1>3, <2>1 DEF Joined
  <2>3. IsSeq(video) /\ Len(video) = M /\ Len(video) <= num /\ \A m \in 1 .. Len(video) : video[m] = clips[m]
    BY <1>1, <2>2
  <2>4. Played = [n \in 1 .. Due(e[Len(video)]) |-> Recorded[n]]
    BY <1>3, <2>3, PlayedIs
  <2> QED
    BY <1>1, <1>2, <2>3, <2>4
<1>5. ASSUME ~left, NEW m \in 1 .. Len(video)
      PROVE  /\ Len(video[m]) <= wrote[m]
             /\ lost = 0 => Len(video[m]) = wrote[m]
  <2>1. IsSeq(video) /\ Len(video) <= M /\ video[m] = clips[m]
    BY <1>1, <1>5 DEF Joined
  <2>2. Len(video) \in Nat
    BY <2>1, IsSeqIs
  <2>3. m \in 1 .. num
    BY <1>1, <2>1, <2>2
  <2>4. ShowsFrames(clips[m], Due(e[m - 1]), wrote[m]) /\ wrote[m] \in Nat
    BY <2>3 DEF Playing
  <2>5. Len(clips[m]) \in Nat
    BY <2>4, IsSeqIs DEF ShowsFrames
  <2> QED
    BY <1>5, <2>1, <2>4, <2>5 DEF ShowsFrames
<1>4. ASSUME lost = 0, ~left
      PROVE  IsPrefix(Played, Recorded)
  <2>1. IsSeq(video) /\ Len(video) <= M /\ \A m \in 1 .. Len(video) : video[m] = clips[m]
    BY <1>1, <1>4 DEF Joined
  <2> PICK v \in Nat : v = Len(video)
    BY <2>1, IsSeqIs
  <2>3. v \in 0 .. M /\ Played = [n \in 1 .. Due(e[v]) |-> Recorded[n]]
    BY <1>1, <1>4, <2>1, PlayedIs
  <2>4. e[v] \in 0 .. L /\ e[v] <= L /\ L \in 0 .. L
    <3>1. e[v] \in 0 .. L
      BY <2>3 DEF Split
    <3> QED
      BY <3>1
  <2> PICK p \in Nat, q \in Nat : p = Due(e[v]) /\ q = Due(L) /\ p <= q
    BY <2>4, DueIs, DueMonotone
  <2>5. Played = [n \in 1 .. p |-> Recorded[n]] /\ Recorded = [n \in 1 .. q |-> Recorded[n]]
    BY <1>2, <2>3
  <2>6. IsPrefix(Played, Recorded)
    <3> PICK r : r = Recorded
      OBVIOUS
    <3> DEFINE a == [n \in 1 .. p |-> r[n]]
               b == [n \in 1 .. q |-> r[n]]
    <3>1. Played = a /\ Recorded = b
      BY <2>5
    <3>2. Len(a) = p /\ Len(b) = q
      OBVIOUS
    <3>3. SubSeq(a, 1, p) = [n \in 1 .. p |-> a[n]] /\ SubSeq(b, 1, p) = [n \in 1 .. p |-> b[n]]
      OBVIOUS
    <3>4. \A n \in 1 .. p : n \in 1 .. q /\ a[n] = b[n]
      OBVIOUS
    <3>5. SubSeq(a, 1, p) = SubSeq(b, 1, p)
      <4> HIDE DEF a, b
      <4> QED
        BY <3>3, <3>4
    <3> HIDE DEF a, b
    <3> QED
      BY <3>1, <3>2, <3>5 DEF IsPrefix
  <2> QED
    BY <2>6
<1> QED
  BY <1>3, <1>4, <1>5

LEMMA VideoInvHolds == Spec => []VideoInv
<1>1. ToszInit => VideoInv
  BY VideoStarts
<1>2. VideoInv /\ Counted /\ [Next]_toszVars => VideoInv'
  BY VideoGoesOn
<1> QED
  BY <1>1, <1>2, CountedHolds, PTL DEF Spec

\* The video shows the recording if every BMP file could be written: frame by
\* frame the screen at that time, over the ends of MV files and of days,
\* whatever a run that was broken off had left; and a run that found nothing
\* left writes nothing else, whatever could not be written (GR2MV, MV2BMPLst).
THEOREM VideoIsRecording == Spec => []VideoShowsRecording
<1>1. VideoInv => VideoShowsRecording
  BY VideoIsSeen
<1> QED
  BY <1>1, VideoInvHolds, PTL

-----------------------------------------------------------------------------
(***************************************************************************)
(* The types.  Those of the archive TOSZ has from Archive, and the rest is *)
(* either what VideoInv and SoundInv say or kept by every step.            *)
(***************************************************************************)
VideoTyped ==
  /\ vpc \in {"merge", "open", "load", "frames", "concat", "played"}
  /\ clock.time \in 0 .. Day - 1
  /\ num \in 0 .. Len(movies)

\* Where the waves are added there is room for them, and what is still to be
\* written is no more than the buffer holds.
SoundTyped ==
  /\ spc = "wave" => k \in 0 .. Len(body)
  /\ spc \in {"wave", "write"} =>
       /\ cnt2 \in 0 .. Len(body)
       /\ body = [s \in 1 .. Len(Score) |-> body[s]] /\ Len(Score) \in Nat \ {0}

CallTyped ==
  /\ stage \in {"start", "expand", "okay", "video", "sound", "film", "usage", "exit"}
  /\ spc \in {"read", "create", "wave", "write", "list", "heard"}
  /\ bmp_num \in Nat /\ size \in 0 .. MV_FILE_MAX
  /\ k \in 0 .. Len(body) /\ cnt2 \in 0 .. Len(body)
  /\ breaks \in 0 .. MaxBreaks
  /\ cut \in BOOLEAN /\ left \in BOOLEAN

LEMMA VideoIsTyped == ASSUME VideoInv PROVE VideoTyped
<1> PICK e : /\ Split(e)
             /\ \/ Merging(e)
                \/ Playing(e) /\ (AtOpen(e) \/ AtLoad(e) \/ AtFrames(e) \/ AtEnd)
  BY DEF VideoInv
<1>1. vpc \in {"merge", "open", "load", "frames", "concat", "played"}
  BY DEF Merging, AtOpen, AtLoad, AtFrames, AtEnd
<1>2. num \in 0 .. Len(movies)
  <2>1. Len(movies) \in Nat
    BY IsSeqIs DEF Split
  <2> QED
    BY <2>1 DEF Merging, Playing
<1>3. clock \in Times \cup {Never}
  BY DEF Merging, AtOpen, AtLoad, AtFrames, AtEnd, Clocked
<1>4. clock.time \in 0 .. Day - 1
  <2>1. Never.time \in 0 .. Day - 1
    BY MovieAssumption DEF Never
  <2> QED
    BY <1>3, <2>1 DEF Times
<1> QED
  BY <1>1, <1>2, <1>4 DEF VideoTyped

LEMMA SoundIsTyped == ASSUME SoundInv PROVE SoundTyped
<1>1. spc \in {"wave", "write"} => given = <<>> /\ TuneInv /\ ScoreKnown
  BY DEF SoundInv
<1>2. ASSUME ScoreKnown, Lasting PROVE Len(Score) \in Nat \ {0} /\ Len(Score) = Begins(Len(notes)) + 1
  <2>1. Len(notes) \in 1 .. Len(notes)
    BY <1>2, NotesFacts DEF Lasting
  <2>2. Begins(Len(notes)) \in Nat
    BY <1>2, <2>1, NotesFacts, BeginsFacts
  <2> QED
    BY <1>2, <2>2, ScoreFacts
<1>3. ASSUME spc = "wave"
      PROVE  /\ k \in 0 .. Len(body) /\ cnt2 \in 0 .. Len(body)
             /\ body = [s \in 1 .. Len(Score) |-> body[s]] /\ Len(Score) \in Nat \ {0}
  <2>1. Waving /\ ScoreKnown
    BY <1>1, <1>3 DEF TuneInv
  <2> PICK N \in Nat \ {0} : N = Len(Score) /\ N = Begins(Len(notes)) + 1
    BY <1>2, <2>1 DEF Waving
  <2>2. note - 1 \in 1 .. Len(notes) /\ Len(notes) \in 1 .. Len(notes) /\ note - 1 <= Len(notes)
    BY <2>1, NotesFacts DEF Waving
  <2>3. k \in Nat /\ k <= N
    BY <2>1, <2>2, BeginsFacts DEF Waving
  <2>4. body = [s \in 1 .. N |-> IF s <= k THEN Score[s] ELSE Silence] /\ cnt2 = N
    BY <2>1 DEF Waving
  <2>5. Len(body) = N /\ body = [s \in 1 .. N |-> body[s]]
    BY <2>4
  <2> QED
    BY <2>3, <2>4, <2>5
<1>4. ASSUME spc = "write"
      PROVE  /\ cnt2 \in 0 .. Len(body)
             /\ body = [s \in 1 .. Len(Score) |-> body[s]] /\ Len(Score) \in Nat \ {0}
  <2>1. Cutting /\ ScoreKnown
    BY <1>1, <1>4 DEF TuneInv
  <2> PICK N \in Nat \ {0} : N = Len(Score)
    BY <1>2, <2>1 DEF Cutting
  <2>2. body = [s \in 1 .. N |-> body[s]]
    BY <2>1 DEF Cutting
  <2>3. Len(body) = N
    BY <2>2
  <2> PICK f \in Nat, w \in Nat : f = file_num /\ w = f * SND_FILE_MAX
    BY <2>1, SoundAssumption DEF Cutting
  <2>4. cnt2 = IF w <= N THEN N - w ELSE 0
    BY <2>1 DEF Cutting
  <2> QED
    BY <2>2, <2>3, <2>4
<1> QED
  BY <1>3, <1>4 DEF SoundTyped

\* Main begins with nothing counted.
LEMMA CallStarts == ASSUME ToszInit PROVE CallTyped
<1>1. /\ stage = "start" /\ spc \in {"read", "list"} /\ bmp_num = 0 /\ size = 0
      /\ k = 0 /\ cnt2 = 0 /\ body = <<>> /\ breaks = 0 /\ cut = FALSE /\ left = FALSE
  BY DEF ToszInit, MovieInit, SoundInit
<1>2. k \in 0 .. Len(body) /\ cnt2 \in 0 .. Len(body)
  BY <1>1
<1>3. size \in 0 .. MV_FILE_MAX /\ bmp_num \in Nat
  BY <1>1, MovieAssumption
<1>4. breaks \in 0 .. MaxBreaks
  BY <1>1, BreaksAssumption
<1>5. cut \in BOOLEAN /\ left \in BOOLEAN
  BY <1>1
<1> QED
  BY <1>1, <1>2, <1>3, <1>4, <1>5 DEF CallTyped

\* Writing and reading the samples leaves the buffer as long as it is.
LEMMA SoundTypes ==
  ASSUME CallTyped, SoundTyped, SoundTyped', SoundStep
  PROVE  /\ spc' \in {"read", "create", "wave", "write", "list", "heard"}
         /\ k' \in 0 .. Len(body') /\ cnt2' \in 0 .. Len(body')
<1>1. k \in 0 .. Len(body) /\ cnt2 \in 0 .. Len(body)
  BY DEF CallTyped
<1>2. CASE AURead \/ PiecesDone \/ SND2MP4Lst
  BY <1>1, <1>2 DEF AURead, PiecesDone, SND2MP4Lst, waveVars
<1>3. CASE SndFileBegin
  <2>1. CASE Lasts = 0
    <3>1. k' = 0 /\ body' = body /\ cnt2' = cnt2 /\ spc' = "list"
      BY <1>3, <2>1 DEF SndFileBegin
    <3>2. 0 \in 0 .. Len(body)
      BY <1>1
    <3> QED
      BY <1>1, <3>1, <3>2
  <2>2. CASE Lasts # 0
    <3>1. spc' = "wave"
      BY <1>3, <2>2 DEF SndFileBegin
    <3> QED
      BY <3>1 DEF SoundTyped
  <2> QED
    BY <2>1, <2>2
<1>4. CASE AddWave
  <2>1. spc' = "wave"
    BY <1>4 DEF AddWave
  <2> QED
    BY <2>1 DEF SoundTyped
<1>5. CASE WaveDone \/ WritePiece
  <2>1. /\ spc \in {"wave", "write"} /\ spc' = "write" /\ k' = k
        /\ notes' = notes
    BY <1>5 DEF WaveDone, WritePiece
  <2>2. Score' = Score
    BY <2>1, ScoreStays
  <2> PICK N \in Nat \ {0} : N = Len(Score)
    BY <2>1 DEF SoundTyped
  <2>3. body = [s \in 1 .. N |-> body[s]] /\ body' = [s \in 1 .. N |-> body'[s]]
    BY <2>1, <2>2 DEF SoundTyped
  <2>4. Len(body) = N /\ Len(body') = N
    BY <2>3
  <2>5. cnt2' \in 0 .. Len(body')
    BY <2>1 DEF SoundTyped
  <2> QED
    BY <1>1, <2>1, <2>4, <2>5
<1> QED
  BY <1>2, <1>3, <1>4, <1>5 DEF SoundStep

\* The MV file in the making stays below its limit, since a shot has a limit too,
LEMMA VideoTypes ==
  ASSUME CallTyped, GR2MV \/ MV2BMPLst
  PROVE  bmp_num' \in Nat /\ size' \in 0 .. MV_FILE_MAX /\ left' \in BOOLEAN
<1>1. bmp_num \in Nat /\ size \in 0 .. MV_FILE_MAX /\ left \in BOOLEAN
  BY DEF CallTyped
<1>2. CASE MergeShot
  <2>1. bmp_num' = bmp_num /\ left' = left
    BY <1>2 DEF MergeShot, playVars
  <2>2. PICK bytes \in 1 .. GR_FILE_MAX : size' = IF PartFull THEN bytes ELSE size + bytes
    BY <1>2 DEF MergeShot
  <2> QED
    BY <1>1, <2>1, <2>2, MovieAssumption DEF PartFull
<1>3. CASE MergeEnd
  BY <1>1, <1>3 DEF MergeEnd, playVars
<1>4. CASE OpenMovie
  BY <1>1, <1>4 DEF OpenMovie, recordVars
<1>5. CASE WriteFrame
  BY <1>1, <1>5 DEF WriteFrame, recordVars
<1>6. CASE LoadDC \/ FramesDone \/ MakeClip \/ NoMoreMovies \/ Concat
  BY <1>1, <1>6 DEF LoadDC, FramesDone, MakeClip, NoMoreMovies, Concat, recordVars, playVars
<1> QED
  BY <1>2, <1>3, <1>4, <1>5, <1>6 DEF GR2MV, MV2BMPLst

\* and every step of main leaves the rest in its types.
LEMMA CallGoesOn ==
  ASSUME CallTyped, SoundTyped, SoundTyped', [Next]_toszVars
  PROVE  CallTyped'
<1>1. CASE Pack \/ Expand \/ CvtFails \/ CvtWrite \/ RemoveInput \/ JoinFilm \/ Ends
             \/ UNCHANGED toszVars
  <2>1. UNCHANGED <<movieVars, soundVars, breaks>>
    BY <1>1 DEF Pack, Expand, CvtFails, CvtWrite, RemoveInput, JoinFilm, Ends, toszVars
  <2>2. stage' \in {stage, "okay", "exit"} /\ cut' \in {cut, TRUE}
    BY <1>1 DEF Pack, Expand, CvtFails, CvtWrite, RemoveInput, JoinFilm, Ends, toszVars
  <2> QED
    BY <2>1, <2>2 DEF CallTyped, movieVars, recordVars, playVars, soundVars, waveVars
<1>2. CASE Main
  <2>1. UNCHANGED <<movieVars, soundVars, breaks, cut>> /\ stage' = Mode(job.edition, job.args)
    BY <1>2 DEF Main
  <2>2. stage' \in {"expand", "video", "sound", "film", "usage"}
    BY <2>1 DEF Mode
  <2> QED
    BY <2>1, <2>2 DEF CallTyped, movieVars, recordVars, playVars, soundVars, waveVars
<1>3. CASE Merge \/ PlayVideo
  <2>1. /\ stage' = stage /\ cut' = cut /\ breaks' = breaks /\ spc' = spc
        /\ k' = k /\ cnt2' = cnt2 /\ body' = body
        /\ GR2MV \/ MV2BMPLst
    BY <1>3 DEF Merge, PlayVideo, soundVars, waveVars
  <2>2. bmp_num' \in Nat /\ size' \in 0 .. MV_FILE_MAX /\ left' \in BOOLEAN
    BY <2>1, VideoTypes
  <2> QED
    BY <2>1, <2>2 DEF CallTyped
<1>4. CASE PlaySound
  <2>1. /\ stage' = stage /\ cut' = cut /\ breaks' = breaks /\ bmp_num' = bmp_num
        /\ size' = size /\ left' = left /\ SoundStep
    BY <1>4 DEF PlaySound, movieVars, recordVars, playVars
  <2>2. /\ spc' \in {"read", "create", "wave", "write", "list", "heard"}
        /\ k' \in 0 .. Len(body') /\ cnt2' \in 0 .. Len(body')
    BY <2>1, SoundTypes
  <2> QED
    BY <2>1, <2>2 DEF CallTyped
<1>5. CASE Break
  <2>1. /\ stage' = "start" /\ spc' \in {"read", "list"} /\ bmp_num' = 0 /\ size' = 0
        /\ k' = 0 /\ cnt2' = 0 /\ body' = <<>> /\ cut' = cut
        /\ breaks < MaxBreaks /\ breaks' = breaks + 1
    BY <1>5 DEF Break, BreakOff
  <2>2. left' \in BOOLEAN
    BY <1>5 DEF Break, BreakOff
  <2>3. Len(body') = 0
    BY <2>1
  <2>4. breaks' \in 0 .. MaxBreaks
    BY <2>1, BreaksAssumption DEF CallTyped
  <2> QED
    BY <2>1, <2>2, <2>3, <2>4, MovieAssumption DEF CallTyped
<1> QED
  BY <1>1, <1>2, <1>3, <1>4, <1>5 DEF Next

\* Everything keeps its type, and what has a limit keeps below it: the codes and
\* tables of the archive, the bytes of an MV file, the time of the clock over
\* the ends of days, the places in the buffer of samples and what is still to
\* be written of it.
THEOREM ToszIsTyped == Spec => []TypeOK
<1>1. VideoInv => VideoTyped
  BY VideoIsTyped
<1>2. SoundInv => SoundTyped
  BY SoundIsTyped
<1>3. ToszInit => CallTyped
  BY CallStarts
<1>4. CallTyped /\ SoundTyped /\ SoundTyped' /\ [Next]_toszVars => CallTyped'
  BY CallGoesOn
<1>5. ArchiveTypeOK /\ VideoTyped /\ CallTyped /\ Counted => TypeOK
  BY DEF VideoTyped, CallTyped, Counted, TypeOK
<1>6. Spec => []CallTyped
  BY <1>2, <1>3, <1>4, SoundInvHolds, PTL DEF Spec
<1>7. Spec => []VideoTyped
  BY <1>1, VideoInvHolds, PTL
<1>8. Spec => []ArchiveTypeOK
  BY ToszImplementsArchive, ArchiveIsTyped, PTL
<1> QED
  BY <1>5, <1>6, <1>7, <1>8, CountedHolds, PTL
===============================================================================
