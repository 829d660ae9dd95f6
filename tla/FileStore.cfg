SPECIFICATION StoreSpec
CONSTANTS
  w1 = w1
  w2 = w2
  r1 = r1
  v1 = v1
  v2 = v2
  i1 = i1
  i2 = i2
  i3 = i3
  i4 = i4
  i5 = i5
  None = None
  Writers <- MCWriters
  Readers <- MCReaders
  Values <- MCValues
  Inodes <- MCInodes
  MaxOps = 4
  MaxFaults = 2
SYMMETRY Symmetry
PROPERTIES
  IsAtomic
CHECK_DEADLOCK FALSE
