SPECIFICATION UpdateSpec
CONSTANTS
  Cmds = {c1}
  Importer = importer
  ChanCap = 1
  MaxLinks = 2
INVARIANT ToldBeforeError
PROPERTY NoChunkAfterCancel
CHECK_DEADLOCK FALSE
