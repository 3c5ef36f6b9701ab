---------------------------- MODULE MCTableScans ----------------------------
EXTENDS TableScans, TLC

TxSymmetry == Permutations(Tx)
=============================================================================
