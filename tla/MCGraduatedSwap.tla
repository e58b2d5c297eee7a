--------------------------- MODULE MCGraduatedSwap ---------------------------
(* Instances of GraduatedSwap for TLC. *)
EXTENDS GraduatedSwap, TLC

CONSTANTS w1, w2

WalletSymmetry == Permutations(Wallets)
=============================================================================
