CONSTANT Files <- MCFiles
SPECIFICATION Spec
INVARIANTS
  AcceptedIsWritten
  BackendsAgree
  HostKept
  LinesKept
  HighlightsFit
PROPERTIES
  BlockEndsAtBrace
  Advances
