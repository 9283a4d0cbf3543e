------------------------- MODULE MCWalletHistory -------------------------
(* The wallet's freeze, lease and rotation history on a small instance. *)
EXTENDS WalletHistory, TLC

MCLeases == {4, 6}
MCGrantEnds == {}
Symmetry == Permutations(Accounts)
=============================================================================
