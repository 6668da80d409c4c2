--------------------------- MODULE MCCrudClients ---------------------------
EXTENDS CrudClients, TLC

CONSTANTS a, b, w1, w2, i1, i2, i3, i4

MCNames == MinInt .. MaxInt
MCBodies == {<<a, b>>, <<a>>}
MCSymmetry == Permutations(Workers) \cup Permutations(Inodes)
MCBodies1 == {<<a>>}
=============================================================================
