SPECIFICATION DeletesSpec
CONSTANTS
  a = a  b = b
  Workers = {w1, w2}
  MaxInt = 1
  Names <- MCNames
  Clients = {1}
  Garbage = {0}
  Inodes = {i1, i2, i3}
  Byte = {a, b}
  NL = b
  NoFile = NoFile
  NoName = NoName
  Bodies <- MCBodies
  Faults = {}
INVARIANT DeletedNotRetrievable
