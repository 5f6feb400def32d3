SPECIFICATION UpdateSpec
CONSTANTS
  Cmds = {c1}
  Importer = importer
  ChanCap = 1
  MaxLinks = 2
INVARIANT UiNeverBlocks
CHECK_DEADLOCK FALSE
