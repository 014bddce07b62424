SPECIFICATION DamagedSpec
CONSTANTS
  p1 = p1  p2 = p2  b1 = b1  b2 = b2
  Procs = {p1, p2}
  Blobs = {b1, b2}
  PackIds = {1, 2, 3}
  IndexIds = {1, 2, 3}
SYMMETRY Symmetry
PROPERTIES NoStepLosesData
