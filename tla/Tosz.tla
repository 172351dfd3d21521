-------------------------------- MODULE Tosz --------------------------------
(***************************************************************************)
(* The program TOSZ, of which the tree has two editions: Linux/TOSZ.CPP    *)
(* and the later Downloads/Linux/TOSZ.CPP.  main reads its arguments and   *)
(* either expands a file that TempleOS compressed, or makes a video, a     *)
(* sound track or a film of a recording.                                   *)
(***************************************************************************)
EXTENDS Archive, Movie, Sound

CONSTANTS CH_CURSOR, CH_SHIFT_SPACE, CH_SPACE,   \* 5, 31 and 32
          WithoutZ(_),  \* a file name without .Z at its end
          EndsInZ(_),
          Jobs,         \* what TOSZ is called for, see ToszInit
          Recordings,   \* what may be recorded before a second call
          MaxBreaks     \* how often a call may be broken off

\* Whatever a call works on is a text that may be compressed.
ASSUME JobsAssumption == \A j \in Jobs : j.text \in Texts

\* A score is written down as it is played: no note comes before the one
\* written before it.
ASSUME ScoresAssumption ==
  \A played \in Jobs \cup Recordings :
     /\ played.notes \in Seq(Range(played.notes))
     /\ \A n \in DOMAIN played.notes : played.notes[n].cdt \in Int
     /\ \A m, n \in DOMAIN played.notes : m < n => played.notes[m].cdt <= played.notes[n].cdt

\* Any sound files the user has are sound.
ASSUME SoundsAssumption ==
  \A j \in Jobs : j.snds \in Seq(Range(j.snds)) /\ NoSnd \notin Range(j.snds)

ASSUME BreaksAssumption == MaxBreaks \in Nat

ASSUME RecordingsAssumption == \A played \in Jobs \cup Recordings : IsRecording(played.shots)

VARIABLES job,      \* the call and what it works on
          stage,    \* of main
          files,    \* the files Cvt may touch and what is in them
          cut,      \* history: a write fell short
          breaks,
          film

toszVars == <<job, stage, files, cut, breaks, film, archiveVars, movieVars, soundVars>>

Absent == [kind |-> "absent", text |-> <<>>]
Packed(text_) == [kind |-> "packed", text |-> text_]   \* a CArcCompress
Plain(text_) == [kind |-> "plain", text |-> text_]
NoFilm == [picture |-> NoVideo, sound |-> NoAudio]

-----------------------------------------------------------------------------
Arg(args, n, default) == IF Len(args) >= n THEN args[n] ELSE default

\* The options of an edition.
Mode(edition_, args) ==
  LET first == Arg(args, 1, "")
  IN  IF first = "-mp4" THEN "film"
      ELSE IF edition_ = "Linux" /\ first = "-bmp" THEN "video"
      ELSE IF edition_ = "Linux" /\ first = "-snd" THEN "sound"
      ELSE IF args = <<>> \/ args = <<"-ascii">> THEN "usage"
      ELSE "expand"

Ascii(args) == Arg(args, 1, "") = "-ascii"
Names(args) == IF Ascii(args) THEN Tail(args) ELSE args
InName(args) == Names(args)[1]

\* The block that makes a name from in_name stands twice, and the second time
\* it is the third name that it looks for.
OutName(args) == Arg(Names(args), 3, WithoutZ(InName(args)))

DelIn(args) == ~(Len(Names(args)) >= 3) /\ EndsInZ(InName(args))

\* The files of a call to expand are all it may touch, and a name is another
\* without the .Z at its end.
ASSUME FilesAssumption ==
  \A j \in Jobs : Mode(j.edition, j.args) = "expand" =>
     /\ {InName(j.args), OutName(j.args)} \subseteq DOMAIN j.files
     /\ EndsInZ(InName(j.args)) => WithoutZ(InName(j.args)) # InName(j.args)

\* Of what -ascii is for: a shifted space is a space, the cursor is dropped.
Converted(args, expanded) ==
  IF ~Ascii(args) THEN expanded
  ELSE LET kept == SelectSeq(expanded, LAMBDA ch : ch # CH_CURSOR)
       IN  [n \in 1 .. Len(kept) |->
              IF kept[n] = CH_SHIFT_SPACE THEN CH_SPACE ELSE kept[n]]

ToszInit ==
  /\ job \in Jobs
  /\ ArchiveInitFor(job.text)
  /\ MovieInit(job.shots, job.edition, job.numbered)
  /\ SoundInit(job.notes, job.snds)
  /\ files = job.files
  /\ stage = "start"
  /\ cut = FALSE
  /\ breaks = 0
  /\ film = NoFilm

\* Before the call: the file is compressed where it comes from.
Pack == /\ stage = "start"
        /\ Mode(job.edition, job.args) = "expand"
        /\ CompressStep
        /\ UNCHANGED <<job, stage, files, cut, breaks, film, movieVars, soundVars>>

Main ==
  /\ stage = "start"
  /\ LET mode == Mode(job.edition, job.args)
     IN  /\ mode = "expand" => pc = "expand"
         /\ mode \in {"video", "film"} => vpc = "open"
         /\ stage' = mode
  /\ UNCHANGED <<job, files, cut, breaks, film, archiveVars, movieVars, soundVars>>

\* Before the call: GR2MV.
Merge == /\ stage = "start"
         /\ Mode(job.edition, job.args) \in {"video", "film"}
         /\ GR2MV
         /\ UNCHANGED <<job, stage, files, cut, breaks, film, archiveVars, soundVars>>

-----------------------------------------------------------------------------
InFile == files[InName(job.args)]

\* Cvt up to ExpandBuf: the size in the file's first bytes must be its own.
Expand ==
  /\ stage = "expand"
  /\ InFile.kind = "packed"
  /\ ExpandStep
  /\ UNCHANGED <<job, stage, files, cut, breaks, film, movieVars, soundVars>>

CvtFails ==
  /\ stage = "expand"
  /\ InFile.kind # "packed"
  /\ stage' = "exit"
  /\ UNCHANGED <<job, files, cut, breaks, film, archiveVars, movieVars, soundVars>>

\* fopen of the output may fail; what fwrite returns is not looked at.
CvtWrite ==
  /\ stage = "expand"
  /\ pc = "done"
  /\ LET whole == Converted(job.args, out)
         write(t) == files' = [files EXCEPT ![OutName(job.args)] = Plain(t)]
     IN  \/ write(whole) /\ stage' = "okay" /\ UNCHANGED cut
         \/ /\ \E n \in 0 .. Len(whole) - 1 : write(SubSeq(whole, 1, n))
            /\ stage' = "okay"
            /\ cut' = TRUE
         \/ stage' = "exit" /\ UNCHANGED <<files, cut>>
  /\ UNCHANGED <<job, breaks, film, archiveVars, movieVars, soundVars>>

\* The input goes when its name ends in .Z, even if nothing was made of it.
FaultyCvtSaidYes ==
  \/ stage = "okay"
  \/ stage = "exit" /\ Mode(job.edition, job.args) = "expand"

CvtSaidYes == stage = "okay"

\* main after Cvt.
RemoveInput ==
  /\ CvtSaidYes
  /\ files' = IF DelIn(job.args)
              THEN [files EXCEPT ![InName(job.args)] = Absent] ELSE files
  /\ stage' = "exit"
  /\ UNCHANGED <<job, cut, breaks, film, archiveVars, movieVars, soundVars>>

-----------------------------------------------------------------------------
\* What rm -R TOSZTEMP* of the video does to the pieces of sound.
Swept(pieces) == IF vpc' = "played" THEN given ELSE pieces

PlayVideo ==
  /\ stage \in {"video", "film"}
  /\ vpc # "played"
  /\ MV2BMPLst
  /\ snds' = Swept(snds)
  /\ UNCHANGED <<notes, given, spc, waveVars, torn, audio>>
  /\ UNCHANGED <<job, stage, files, cut, breaks, film, archiveVars>>

PlaySound ==
  /\ stage \in {"sound", "film"}
  /\ stage = "film" => vpc = "played"
  /\ SoundStep
  /\ UNCHANGED <<job, stage, files, cut, breaks, film, archiveVars, movieVars>>

\* main -mp4 at its end: ffmpeg joins the two, which are then removed.
JoinFilm ==
  /\ stage = "film"
  /\ vpc = "played" /\ spc = "heard"
  /\ film' = IF video # NoVideo /\ audio # NoAudio
             THEN [picture |-> video, sound |-> audio] ELSE NoFilm
  /\ stage' = "exit"
  /\ UNCHANGED <<job, files, cut, breaks, archiveVars, movieVars, soundVars>>

Ends ==
  /\ \/ stage = "video" /\ vpc = "played"
     \/ stage = "sound" /\ spc = "heard"
     \/ stage = "usage"
  /\ stage' = "exit"
  /\ UNCHANGED <<job, files, cut, breaks, film, archiveVars, movieVars, soundVars>>

\* The call for a film is broken off and, on another recording, made again.
Break ==
  /\ stage \in {"video", "film"}
  /\ breaks < MaxBreaks
  /\ breaks' = breaks + 1
  /\ \E r \in Recordings : /\ BreakOff(r.shots)
                           /\ notes' = r.notes
  /\ spc' = IF given = <<>> THEN "read" ELSE "list"
  /\ list' = <<>> /\ note' = 1 /\ body' = <<>> /\ i' = 0 /\ k' = 0
  /\ file_num' = 0 /\ cnt2' = 0 /\ torn' = 0
  /\ stage' = "start"
  /\ UNCHANGED <<job, files, cut, film, given, snds, audio, archiveVars>>

Next == Pack \/ Merge \/ Main \/ Expand \/ CvtFails \/ CvtWrite \/ RemoveInput
          \/ PlayVideo \/ PlaySound \/ JoinFilm \/ Ends \/ Break

\* A loop that can go on does; breaking off is nobody's duty.
Spec == ToszInit /\ [][Next]_toszVars /\ WF_toszVars(Next /\ breaks' = breaks)

-----------------------------------------------------------------------------
TypeOK ==
  /\ ArchiveTypeOK
  /\ stage \in {"start", "expand", "okay", "video", "sound", "film", "usage", "exit"}
  /\ vpc \in {"merge", "open", "load", "frames", "concat", "played"}
  /\ spc \in {"read", "create", "wave", "write", "list", "heard"}
  /\ clock.time \in 0 .. Day - 1
  /\ num \in 0 .. Len(movies) /\ bmp_num \in Nat /\ size \in 0 .. MV_FILE_MAX
  /\ k \in 0 .. Len(body) /\ cnt2 \in 0 .. Len(body)
  /\ breaks \in 0 .. MaxBreaks
  /\ lost \in 0 .. MaxLost /\ torn \in 0 .. MaxTorn
  /\ cut \in BOOLEAN /\ left \in BOOLEAN

\* When TOSZ ends, the input is still there or some file holds all of its
\* text.  The exception is a disk that took a
\* part of the output, which Cvt does not notice.
NothingLost ==
  stage = "exit" /\ Mode(job.edition, job.args) = "expand" /\ ~cut /\ ~Overran
    => \/ InFile = job.files[InName(job.args)]
       \/ \E f \in DOMAIN files : files[f] = Plain(Converted(job.args, text))

\* The second name of "TOSZ [-ascii] in_name [out_name]", as TOSZ itself puts
\* it, is where the output goes when there is any.
OutNameIsWritten ==
  stage = "okay" /\ Len(Names(job.args)) = 2
    => files[Names(job.args)[2]] # job.files[Names(job.args)[2]]

\* The sound track is the score, unless a piece of it could not be written,
\* which SndFileCreate does not tell: every note from the sample it begins in
\* or the one before, which is where the reckoning in doubles may put it, over
\* the ends of pieces and whatever a call that was broken off had left, which
\* the video's sweep takes away first.  A track the user has is his.
SoundFollowsScore ==
  spc = "heard" /\ stage \in {"sound", "film"}
    => IF given # <<>> THEN audio = given
       ELSE Takes # 0 /\ torn = 0 => FollowsScore(FlattenSeq(audio))

\* Whatever TOSZ is called for, it comes to an end.
Terminates == <>(stage = "exit")
=============================================================================
