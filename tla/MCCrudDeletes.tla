--------------------------- MODULE MCCrudDeletes ---------------------------
EXTENDS CrudDeletes

CONSTANTS a, b

MCNames == MinInt .. MaxInt
MCBodies == {<<a>>}
=============================================================================
