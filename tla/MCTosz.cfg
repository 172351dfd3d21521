SPECIFICATION Spec
CONSTANTS
  ARC_MAX_BITS = 4
  LowBits = 1
  Shift <- MCShift
  ByteBits = 2
  HeaderSize = 1
  MaxText = 10
  Texts <- MCTexts
  BYTE_MAX = 3
  GR_WIDTH = 5
  GR_HEIGHT = 2
  GR_FILE_MAX = 2
  MV_FILE_MAX = 4
  Day = 8
  FrameStep = 3
  MaxLost = 1
  ONA_REST = 9
  CDATE_FREQ = 3
  SNDFILE_SAMPLE_RATE = 2
  SND_FILE_MAX = 3
  Early = {3, 12}
  MaxTorn = 1
  CH_CURSOR = 1
  CH_SHIFT_SPACE = 2
  CH_SPACE = 3
  WithoutZ <- MCWithoutZ
  EndsInZ <- MCEndsInZ
  Jobs <- MCJobs
  Recordings <- MCRecordings
  MaxBreaks = 1
INVARIANTS
  TypeOK
  RoundTrip
  ReadsWhatWasWritten
  TableIsSound
  ExpanderTableIsSound
  LeafToGiveUp
  StackFits
  VideoShowsRecording
  NothingLost
  SoundFollowsScore
PROPERTIES
  Terminates
CHECK_DEADLOCK FALSE
