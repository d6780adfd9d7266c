------------------------ MODULE MCReliableDelivery ------------------------
EXTENDS ReliableDelivery, TLC

CONSTANTS p1, p2

MCProducers == {p1, p2}
MCSymmetry == Permutations(MCProducers)

=============================================================================
