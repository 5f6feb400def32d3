SPECIFICATION FairSpec
CONSTANTS
  Photos = {f1, f2}
  MaxRefresh = 2
  MaxTicks = 1
  MaxEvents = 2
  ChanCap = 2
INVARIANTS TypeOK FlagsHaveCause
PROPERTY ImportFinishes
