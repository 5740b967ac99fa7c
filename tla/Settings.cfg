\* Two valid documents, two writes by the editor or the Host, any number of
\* crashes.
SPECIFICATION FairSpec
CONSTANTS
  Values = {v1, v2}
  Broken = Broken
  None = None
  MaxWrites = 2
  MaxInstalls = 1
INVARIANT DocumentsAgree
PROPERTIES
  FileIsSafe
  ListIsCurrent
  EditsAreAnswered
  WindowEndsInOrder
\* The process ends with Quit, or with a file it cannot start from.
CHECK_DEADLOCK FALSE
