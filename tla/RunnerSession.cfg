\* All three runners, pipes of two pieces, sentences of two frames, no call after
\* the fifth request.
SPECIFICATION Spec
CONSTANTS
  Engines = {"kokoro", "qwen", "stub"}
  Frames = 2
  Capacity = 2
  MaxCalls = 5
INVARIANTS
  ExchangeIsClean
  FailuresAreReal
PROPERTY ImplementsContract
\* The model ends with its last request.
CHECK_DEADLOCK FALSE
