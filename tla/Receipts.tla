------------------------------ MODULE Receipts ------------------------------
(***************************************************************************)
(* What the payment flow promises the wallet, without gateways, handlers   *)
(* or administrators: a receipt is decided once, as settled or as refused; *)
(* only the step that settles it may post its ledger entry.                *)
(***************************************************************************)
EXTENDS Naturals

CONSTANT Payments

VARIABLES decision, entries

vars == <<decision, entries>>

Init ==
    /\ decision = [p \in Payments |-> "open"]
    /\ entries = [p \in Payments |-> 0]

Settle(p) ==
    /\ decision[p] = "open"
    /\ decision' = [decision EXCEPT ![p] = "settled"]
    /\ \/ entries' = [entries EXCEPT ![p] = 1]
       \/ UNCHANGED entries

Refuse(p) ==
    /\ decision[p] = "open"
    /\ decision' = [decision EXCEPT ![p] = "refused"]
    /\ UNCHANGED entries

Next == \E p \in Payments : Settle(p) \/ Refuse(p)

Spec == Init /\ [][Next]_vars

=============================================================================
