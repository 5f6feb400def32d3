SPECIFICATION LifeFairSpec
CONSTANTS
  MaxDrops = 2
  MaxKeep = 3
INVARIANTS LifeTypeOK BadgeHasCause
PROPERTIES LoopKept CancelledLoopStops
