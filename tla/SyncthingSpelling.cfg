SPECIFICATION FairSpec
CONSTANTS
  me = me  a = a  b = b  c = c  x = x  y = y  me2 = me2  b2 = b2  bad = bad
  Ids = {me, a, b, c}
  Self = me
  NoOne = NoOne
  Introducers = {a}
  Introduced = {c}
  Listable = {a, b2}
  NotAnId = NotAnId
  DeviceIDFromString <- Spellings
  Addresses = {x}
  MaxPeers = 2
  MaxEdits = 0
  MaxFaults = 0
PROPERTIES SettlesInAnySpelling
