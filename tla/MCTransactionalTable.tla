------------------------ MODULE MCTransactionalTable ------------------------
EXTENDS TransactionalTable, TLC

TableSymmetry == Permutations(Call) \cup Permutations(Key)
=============================================================================
