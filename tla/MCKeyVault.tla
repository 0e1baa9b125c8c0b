----------------------------- MODULE MCKeyVault -----------------------------
(* TLC instances of KeyVault.                                              *)
EXTENDS KeyVault
=============================================================================
