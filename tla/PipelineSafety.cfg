\* Four sentences, so that back-pressure sets in before the text ends; one seek
\* and one speed change, everything else unbounded.
SPECIFICATION MCSpec
CONSTANTS
  u = u
  Utterances = {u}
  None = None
  Control = u
  Speeds = {slow, fast}
  Texts = 4
  Lookahead = 2
  Durations = {2}
  MaxSeeks = 1
  MaxGeneration = 2
INVARIANT TimelineIsKept
PROPERTIES
  HeardAudioStays
  NothingSkipped
\* The model ends with its one utterance.
CHECK_DEADLOCK FALSE
