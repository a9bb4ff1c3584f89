-------------------------- MODULE MCConfigDelivery --------------------------
EXTENDS ConfigDelivery, TLC

Symm == Permutations(Fetch)
=============================================================================
