----------------------------- MODULE MCPayments -----------------------------
(***************************************************************************)
(* Small instances of Payments for TLC.  The ids are model values and      *)
(* Symmetry permutes each kind of them.                                    *)
(***************************************************************************)
EXTENDS Payments, TLC

CONSTANTS p1, p2, c1, c2

MCPaymentIds == {p1, p2}
MCClients == {c1, c2}

Symmetry == Permutations(MCPaymentIds) \cup Permutations(MCClients)

=============================================================================
