CONSTANTS
  Handles = {1, 2, 3}
  Lists <- MCLists
  NoFile = 0
  Blank = {2}
  Heights = {1, 2}
  WheelRows = 1
  CacheSize = 1
  MaxFetches = 2
SPECIFICATION Spec
INVARIANTS TypeOK LoadingHasCause
PROPERTY CursorIsShown
