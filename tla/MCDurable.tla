------------------------------ MODULE MCDurable ------------------------------
EXTENDS DurableDatabase, TLC

CallSymmetry == Permutations(Call)
=============================================================================
