\* Two places, one of which has two spellings, and a body with a serial and one without.
CONSTANTS
  Canonical <- MCCanonical
  Hosts <- MCHosts
  Addrs = {"one", "one:15740", "two"}
  Default = "one"
  Bodies = {a, NoSerial}
  Nobody = Nobody
  None = None
  NoSerial = NoSerial
  MaxDetects = 2
  MaxConnects = 1
SPECIFICATION Spec
INVARIANTS TypeOK PickerIsExact SpinnersHaveCause
PROPERTY SavedPairIsTrue
