\* One seek and no speed change.
SPECIFICATION MCSpec
CONSTANTS
  u = u
  Utterances = {u}
  None = None
  Control = u
  Speeds = {slow, fast}
  Texts = 3
  Lookahead = 2
  Durations = {2}
  MaxSeeks = 1
  MaxGeneration = 1
PROPERTY SeekIsNotLost
\* The model ends with its one utterance.
CHECK_DEADLOCK FALSE
