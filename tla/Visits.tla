------------------------------- MODULE Visits -------------------------------
(***************************************************************************)
(* What table sessions promise the floor, without orders, locks or table   *)
(* statuses: a party arrives at a set of tables nobody else holds, may be  *)
(* joined by further such tables, and leaves once, handing every table     *)
(* back in one step.                                                       *)
(***************************************************************************)
CONSTANTS Parties, Tables

VARIABLES phase, holds

vars == <<phase, holds>>

Taken == UNION {holds[p] : p \in Parties}

Init ==
    /\ phase = [p \in Parties |-> "none"]
    /\ holds = [p \in Parties |-> {}]

Arrive(p, T) ==
    /\ phase[p] = "none"
    /\ T # {} /\ T \cap Taken = {}
    /\ phase' = [phase EXCEPT ![p] = "open"]
    /\ holds' = [holds EXCEPT ![p] = T]

Join(p, t) ==
    /\ phase[p] = "open"
    /\ t \notin Taken
    /\ holds' = [holds EXCEPT ![p] = @ \cup {t}]
    /\ UNCHANGED phase

Leave(p) ==
    /\ phase[p] = "open"
    /\ phase' = [phase EXCEPT ![p] = "closed"]
    /\ holds' = [holds EXCEPT ![p] = {}]

Next ==
    \E p \in Parties :
        \/ \E T \in SUBSET Tables : Arrive(p, T)
        \/ \E t \in Tables : Join(p, t)
        \/ Leave(p)

Spec == Init /\ [][Next]_vars

=============================================================================
