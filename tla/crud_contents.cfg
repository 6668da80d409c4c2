SPECIFICATION ClientsSpec
CONSTANTS
  a = a  b = b  w1 = w1  w2 = w2  i1 = i1  i2 = i2  i3 = i3  i4 = i4
  Workers = {w1, w2}
  MaxInt = 2
  Names <- MCNames
  Clients = {1}
  Garbage = {0, 1}
  Inodes = {i1, i2, i3}
  Byte = {a, b}
  NL = b
  NoFile = NoFile
  NoName = NoName
  Bodies <- MCBodies
  Faults = {}
SYMMETRY MCSymmetry
INVARIANT ClientsTypeOK AckedContent AckedDeletesGone CreateSparesAcked
