SPECIFICATION ClusterSpec
CONSTANTS
  Actors = {a, b}
  Things = {f, g}
  Boxes = {x, y, z}
  None = None
  a = a
  b = b
  f = f
  g = g
  x = x
  y = y
  z = z
  Histograms <- MCHistograms
  Counts <- MCCounts
  Requests <- MCRequests
  Tries = 2
  MaxBuilds = 2
  MaxChunks = 1
  ChunkSize = 2
  MaxFaults = 1
INVARIANTS
  EditsAndWaitsHold
  DataIsGone
  ClusterIsSetUp
SYMMETRY Symmetry
CHECK_DEADLOCK FALSE
