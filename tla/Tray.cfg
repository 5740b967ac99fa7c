\* Two chords, two reads, two nested loops.
SPECIFICATION FairSpec
CONSTANTS
  Chords = {a, b}
  None = None
  Bad = Bad
  MaxRequests = 2
  MaxDepth = 2
INVARIANT CapturesAnswerTheirReads
PROPERTIES
  ShortcutIsHonest
  EveryReadAnswered
  QuitReturns
\* The process ends with its window.
CHECK_DEADLOCK FALSE
