\* Making the directory, opens and writes fail, and the process exits, at any moment; no symmetry,
\* for the liveness property.
SPECIFICATION ClientsLiveSpec
CONSTANTS
  a = a  b = b  w1 = w1  w2 = w2  i1 = i1  i2 = i2  i3 = i3  i4 = i4
  Workers = {w1, w2}
  MaxInt = 1
  Names <- MCNames
  Clients = {1}
  Garbage = {0}
  Inodes = {i1, i2}
  Byte = {a, b}
  NL = b
  NoFile = NoFile
  NoName = NoName
  Bodies <- MCBodies1
  Faults = {"open", "write", "mkdir"}
INVARIANT AckedWritesExist
PROPERTY EveryRequestEnds
