---------------------------- MODULE MCWalletSync ----------------------------
(* TLC instances of WalletSync.                                            *)
EXTENDS WalletSync, TLC

AccountBounds == [V3R1 |-> 1, V3R2 |-> 2, V4R2 |-> 0]
SmallAccountBounds == [V3R1 |-> 0, V3R2 |-> 2, V4R2 |-> 0]
JobSymmetry == Permutations(Jobs)
=============================================================================
