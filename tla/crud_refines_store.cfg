SPECIFICATION CrudSpec
CONSTANTS
  a = a  b = b
  Workers = {w1}
  MaxInt = 2
  Names <- MCNames
  Clients <- MCClients
  Garbage = {0, 1}
  Inodes = {i1, i2, i3, i4}
  Byte = {a, b}
  NL = b
  NoFile = NoFile
  NoName = NoName
  Bodies <- MCBodies
  Faults = {"mkdir"}
PROPERTY ImplementsStore
