\* Two requests, two profiles and two speeds, one published document: every
\* interleaving of submit, stop, pause, publish and Quit with the worker; that
\* the queue implements SpeechService; and progress under FairSpec.
SPECIFICATION FairSpec
CONSTANTS
  Utterances = {1, 2}
  None = None
  Speeds = {slow, fast}
  MaxRequests = 2
  MaxGeneration = 2
  MaxPublishes = 1
  Profiles = {kokoro, qwen}
INVARIANTS
  TypeOK
  RequestsAreKept
  StatusIsTrue
PROPERTIES
  ImplementsService
  ReadsAreServed
  StopsTakeEffect
  ProfileChangeWarms
\* The process ends after Quit.
CHECK_DEADLOCK FALSE
