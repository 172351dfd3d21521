-------------------------------- MODULE Sound -------------------------------
(***************************************************************************)
(* From a score to an audio file: TOSZ reads the notes of an AU file       *)
(* (AURead), plays them into one buffer of samples and writes it in pieces *)
(* (SndFileCreate), has ffmpeg make a clip of every piece and join the     *)
(* clips (SND2MP4Lst).                                                     *)
(*                                                                         *)
(* A sample is the note that sounds in it; adding a wave to silence is     *)
(* writing the note.                                                       *)
(***************************************************************************)
EXTENDS Integers, Sequences, SequencesExt

CONSTANTS ONA_REST,       \* the note that is silence
          CDATE_FREQ,     \* 49710 Hz
          SNDFILE_SAMPLE_RATE,
          SND_FILE_MAX,   \* the most samples of a file
          Early,          \* times that double precision rounds below a sample
          MaxTorn         \* how many SND files a call may fail to write

\* What is rounded down is a whole number of samples: any other time is further
\* from the next sample than the precision of a double.
ASSUME SoundAssumption ==
  /\ CDATE_FREQ \in Nat \ {0} /\ SNDFILE_SAMPLE_RATE \in Nat \ {0}
  /\ SND_FILE_MAX \in Nat \ {0} /\ MaxTorn \in Nat
  /\ Early \subseteq Nat \ {0}
  /\ \A tS \in Early : (tS * SNDFILE_SAMPLE_RATE) % CDATE_FREQ = 0

VARIABLES notes,     \* the AU file: when and which
          given,     \* or the SND files the user has, which stay
          spc,
          list,      \* the queue at head: tS, as ticks since the first, and ona
          note,      \* tmpsd
          body,      \* s->body
          i, k,      \* the sample of the last note; where to write
          file_num, cnt2,
          snds,      \* TOSZTEMPnnn.SND
          torn,      \* history: how many were not written, or not whole
          audio      \* what ffmpeg made of the list

waveVars == <<list, note, body, i, k, file_num, cnt2>>
soundVars == <<notes, given, spc, waveVars, snds, torn, audio>>

Silence == 0
NoAudio == <<>>

\* A number that no file has, or one without a sample.
NoSnd == <<>>

SoundInit(score, files) ==
  /\ notes = score
  /\ given = files
  /\ spc = IF files = <<>> THEN "read" ELSE "list"
  /\ list = <<>> /\ note = 1 /\ body = <<>> /\ i = 0 /\ k = 0
  /\ file_num = 0 /\ cnt2 = 0
  /\ snds = files /\ torn = 0 /\ audio = NoAudio

\* A time in seconds, a double, by the rate and cut off.
Sample(tS) == LET exact == (tS * SNDFILE_SAMPLE_RATE) \div CDATE_FREQ
              IN  IF tS \in Early THEN exact - 1 ELSE exact

Ona2Freq(ona) == IF ona = ONA_REST THEN Silence ELSE ona

\* n samples after the first so many get a wave, or nothing, of a note that is a rest.
SndWaveAddBuf(buf, at, n, freq) ==
  IF freq = Silence THEN buf
  ELSE [s \in 1 .. Len(buf) |-> IF at < s /\ s <= at + n THEN freq ELSE buf[s]]

-----------------------------------------------------------------------------
\* AURead: head is the first note, the others are queued behind it.
AURead ==
  /\ spc = "read"
  /\ list' = [n \in 1 .. Len(notes) |->
                [tS |-> notes[n].cdt - notes[1].cdt, ona |-> notes[n].ona]]
  /\ spc' = "create"
  /\ UNCHANGED <<notes, given, note, body, i, k, file_num, cnt2, snds, torn, audio>>

Lasts == IF list = <<>> THEN 0 ELSE list[Len(list)].tS - list[1].tS

\* One sample more, the terminator.
Count == Sample(Lasts) + 1

\* SndFileCreate up to its first loop; a score that takes no time makes no
\* file.
SndFileBegin ==
  /\ spc = "create"
  /\ IF Lasts = 0
     THEN spc' = "list" /\ list' = <<>> /\ UNCHANGED <<body, cnt2, i>>
     ELSE /\ UNCHANGED list
          /\ body' = [n \in 1 .. Count |-> Silence]
          /\ cnt2' = Count
          /\ i' = Sample(list[1].tS)
          /\ spc' = "wave"
  /\ note' = 2
  /\ k' = 0
  /\ file_num' = 0
  /\ UNCHANGED <<notes, given, snds, torn, audio>>

\* tmpsd->last: the note before sounds until this one begins.
Sounding == list[note - 1].ona

\* One turn of the loop over the notes.
AddWave ==
  /\ spc = "wave"
  /\ note <= Len(list)
  /\ LET i1 == Sample(list[note].tS)
         room == Len(body) - k
         n == IF i1 - i > room THEN room ELSE i1 - i
     IN  IF i1 - i > 0 /\ n > 0
         THEN /\ body' = SndWaveAddBuf(body, k, n, Ona2Freq(Sounding))
              /\ k' = k + n
              /\ i' = i + n
         ELSE UNCHANGED <<body, k, i>>
  /\ note' = note + 1
  /\ UNCHANGED <<notes, given, spc, list, file_num, cnt2, snds, torn, audio>>

WaveDone ==
  /\ spc = "wave"
  /\ note > Len(list)
  /\ body' = [body EXCEPT ![Len(body)] = Silence]
  /\ spc' = "write"
  /\ UNCHANGED <<notes, given, list, note, i, k, file_num, cnt2, snds, torn, audio>>

\* The pieces are one sample apart too little.
FaultyPieceAt == IF file_num = 0 THEN 0 ELSE file_num * SND_FILE_MAX - 1

PieceAt == file_num * SND_FILE_MAX

Replaced(files, n, file) ==
  IF n < Len(files) THEN [files EXCEPT ![n + 1] = file] ELSE Append(files, file)

\* What there is in the place of a piece when fopen fails, or when fwrite takes
\* a part, which nobody looks at.
Torn(files, n, piece) ==
  {IF n < Len(files) THEN files[n + 1] ELSE NoSnd}
    \cup {SubSeq(piece, 1, taken) : taken \in 0 .. Len(piece) - 1}

\* One piece: it is copied to the front of the buffer, over the first one, and
\* written from there.
WritePiece ==
  /\ spc = "write"
  /\ cnt2 > 0
  /\ LET n == IF cnt2 > SND_FILE_MAX THEN SND_FILE_MAX ELSE cnt2
         piece == SubSeq(body', 1, n)
     IN  /\ body' = [s \in 1 .. Len(body) |->
                       IF s <= n THEN body[PieceAt + s] ELSE body[s]]
         /\ \/ snds' = Replaced(snds, file_num, piece) /\ UNCHANGED torn
            \/ /\ torn < MaxTorn
               /\ torn' = torn + 1
               /\ \E file \in Torn(snds, file_num, piece) :
                    snds' = Replaced(snds, file_num, file)
         /\ cnt2' = cnt2 - n
  /\ file_num' = file_num + 1
  /\ UNCHANGED <<notes, given, spc, list, note, i, k, audio>>

\* QueDel of the notes.
PiecesDone ==
  /\ spc = "write"
  /\ cnt2 <= 0
  /\ list' = <<>>
  /\ spc' = "list"
  /\ UNCHANGED <<notes, given, note, body, i, k, file_num, cnt2, snds, torn, audio>>

\* SND2MP4Lst: the files from 0 on as long as there is a next one, whoever
\* wrote it.  ffmpeg makes no clip of a file without sound, and then joins up to
\* there, or makes nothing and leaves what had that name.  Then rm -R
\* TOSZTEMP*, which leaves the user's.
SND2MP4Lst ==
  /\ spc = "list"
  /\ \E n \in 0 .. Len(snds) :
       /\ \A m \in 1 .. n : snds[m] # NoSnd
       /\ n < Len(snds) => snds[n + 1] = NoSnd
       /\ audio' \in IF n = 0 THEN {audio}
                     ELSE IF n = Len(snds) THEN {snds}
                     ELSE {audio, SubSeq(snds, 1, n)}
  /\ snds' = given
  /\ spc' = "heard"
  /\ UNCHANGED <<notes, given, waveVars, torn>>

SoundStep == AURead \/ SndFileBegin \/ AddWave \/ WaveDone \/ WritePiece
               \/ PiecesDone \/ SND2MP4Lst

-----------------------------------------------------------------------------
\* When a note begins, and how long the score takes: in samples, times
\* CDATE_FREQ.
Starts(n) == (notes[n].cdt - notes[1].cdt) * SNDFILE_SAMPLE_RATE
Takes == IF notes = <<>> THEN 0 ELSE Starts(Len(notes))

\* What may sound in the s-th sample: a note that has begun when the sample
\* ends, and after which none has begun before that.
Heard(s) ==
  {Ona2Freq(notes[n].ona) : n \in
     {m \in 1 .. Len(notes) :
        /\ Starts(m) <= s * CDATE_FREQ
        /\ \A later \in m + 1 .. Len(notes) : Starts(later) >= s * CDATE_FREQ}}

\* Sound that is the score: as long as it to within a sample, with the right
\* notes, and with the terminator.
FollowsScore(sound) ==
  /\ Len(sound) > 0
  /\ (Len(sound) - 1) * CDATE_FREQ <= Takes /\ Takes <= Len(sound) * CDATE_FREQ
  /\ \A s \in 1 .. Len(sound) - 1 : sound[s] \in Heard(s)
  /\ sound[Len(sound)] = Silence
=============================================================================
