----------------------------- MODULE MCSpend -----------------------------
(* The wallet's spending meters on a small instance. *)
EXTENDS SpendHistory, TLC

MCLeases == {2, 3}
MCGrantEnds == {2}
MCMeteredNear == {Near}
MCMeteredTokens == Tokens
Symmetry == Permutations(Accounts)
=============================================================================
