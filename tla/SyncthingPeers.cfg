SPECIFICATION FairSpec
CONSTANTS
  me = me  a = a  b = b  c = c  x = x  y = y  me2 = me2  b2 = b2  bad = bad
  Ids = {me, a, b, c}
  Self = me
  NoOne = NoOne
  Introducers = {a}
  Introduced = {c}
  Listable = {me, me2, a, b, b2, bad}
  NotAnId = NotAnId
  DeviceIDFromString <- Spellings
  Addresses = {x, y}
  MaxPeers = 2
  MaxEdits = 1
  MaxFaults = 2
INVARIANTS TypeOK
PROPERTIES SettlesDown
