-------------------------- MODULE MCCrudRefinement --------------------------
EXTENDS CrudRefinement, TLC

CONSTANTS a, b

MCNames == MinInt .. MaxInt
MCBodies == {<<a, b>>, <<a>>, <<>>}
MCClients == {-1, 1, 2}
=============================================================================
