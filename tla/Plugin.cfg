SPECIFICATION PluginSpec
CONSTANTS
  Conns = {c1}
  c1 = c1
  MaxJoins = 3
INVARIANTS NothingHeld LossIsTold JoinIsReleasable
