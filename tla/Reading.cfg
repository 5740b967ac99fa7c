\* Utterance: two sentences, one seek and one speed change under fair threads.
\* Session: two models, reads of two chunks, one switch of each package, two loads.
SPECIFICATION FairReading
CONSTANTS
  u = u
  Utterances = {u}
  None = None
  Control = u
  Speeds = {slow, fast}
  Texts = 2
  Lookahead = 1
  Durations = {1}
  MaxSeeks = 1
  MaxGeneration = 2
  Models = {kokoro, qwen}
  MaxChunks = 2
  MaxSwitches = 1
  MaxLoads = 2
INVARIANTS
  TypeOK
  ShownIsWhatIsLoaded
  NoStaleFiles
  RestartsAreRationed
PROPERTIES
  JobsEnd
  UtteranceEnds
