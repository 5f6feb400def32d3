SPECIFICATION FairSpec
CONSTANTS
  o1 = o1  o2 = o2  o3 = o3  p1 = p1  p2 = p2
  Objects <- MCObjects
  Paths <- MCPaths
  Size <- MCSize
  Dest <- MCDest
  ChunkSize = 2
  PartialModes = {TRUE, FALSE}
  ReopenInData = TRUE
  Mixed = Mixed
  NoFile = NoFile
INVARIANTS TypeOK RecordedIsWhole ResumeIsPrefix RunIsExact
PROPERTIES RunEnds ImplementsLibrary
