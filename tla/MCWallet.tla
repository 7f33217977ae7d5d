------------------------------ MODULE MCWallet ------------------------------
(* Wallet for TLC: symmetric turns, amounts small enough to meet every limit. *)
EXTENDS Wallet, TLC

MCAmounts == {1, 2}
MCCosts == {1, 3}
MCCredits == {0, 2}

Symmetry == Permutations(Turns)

=============================================================================
