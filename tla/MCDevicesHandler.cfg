SPECIFICATION Spec
CONSTANTS
  d1 = d1
  d2 = d2
  d3 = d3
  w1 = w1
  w2 = w2
  w3 = w3
  w4 = w4
  none = none
  Absent = Absent
  Garbage = Garbage
  Devices = {d1, d2, d3}
  WatchDescriptors = {w1, w2, w3, w4}
  NoWatch = none
  MaxFileName = 2
  MaxChanges = 1
  MaxEvents = 2
  MaxFailures = 1
SYMMETRY Symmetry
INVARIANTS
  TypeOK
  OneFilePerDevice
  WatchesFollowUse
PROPERTIES
  ConfigurationIsNotReverted
CHECK_DEADLOCK FALSE
