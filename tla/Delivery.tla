------------------------------ MODULE Delivery ------------------------------
(***************************************************************************)
(* What the sync between two databases promises the events recorded in     *)
(* each, without batches, cursors, clocks, retries or crashes: an event is *)
(* applied at the other side at most once and never after it was given up  *)
(* there; a payment is posted there by that one step and by nothing else;  *)
(* and its sender forgets it only once somebody holds it.                  *)
(***************************************************************************)
CONSTANT Senders

VARIABLES
    recorded,   \* [Senders -> the events recorded]
    held,       \* those somebody answers for: decided, deferred or in a dead letter
    applied,    \* those it answered as applied
    posted,     \* the payments among them that are in the other side's books
    closed,     \* those it gave up, which it never answers as applied afterwards
    dropped     \* those their sender will not offer again

vars == <<recorded, held, applied, posted, closed, dropped>>

Init ==
    /\ recorded = [s \in Senders |-> {}]
    /\ held = recorded /\ applied = recorded /\ posted = recorded
    /\ closed = recorded /\ dropped = recorded

Record(s) ==
    /\ recorded' = [recorded EXCEPT ![s] = @ \cup recorded'[s]]
    /\ UNCHANGED <<held, applied, posted, closed, dropped>>

Hold(s, e) ==
    /\ held' = [held EXCEPT ![s] = @ \cup {e}]
    /\ UNCHANGED <<recorded, applied, posted, closed, dropped>>

Apply(s, e) ==
    /\ e \notin applied[s] \cup closed[s]
    /\ applied' = [applied EXCEPT ![s] = @ \cup {e}]
    /\ held' = [held EXCEPT ![s] = @ \cup {e}]
    /\ posted' = IF e.kind = "pay" THEN [posted EXCEPT ![s] = @ \cup {e}] ELSE posted
    /\ UNCHANGED <<recorded, closed, dropped>>

Close(s, e) ==
    /\ e \notin applied[s]
    /\ closed' = [closed EXCEPT ![s] = @ \cup {e}]
    /\ held' \in {held, [held EXCEPT ![s] = @ \cup {e}]}
    /\ UNCHANGED <<recorded, applied, posted, dropped>>

Drop(s) ==
    /\ dropped' = [dropped EXCEPT ![s] = @ \cup dropped'[s]]
    /\ dropped'[s] \subseteq held[s]
    /\ UNCHANGED <<recorded, held, applied, posted, closed>>

Next ==
    \E s \in Senders :
        \/ Record(s) \/ Drop(s)
        \/ \E e \in recorded[s] : Hold(s, e) \/ Apply(s, e) \/ Close(s, e)

Spec == Init /\ [][Next]_vars

\* Exactly the applied payments are posted, nothing applied is closed, and what was
\* applied or forgotten by its sender is held.
Fates ==
    \A s \in Senders :
       /\ posted[s] = {e \in applied[s] : e.kind = "pay"}
       /\ applied[s] \cap closed[s] = {}
       /\ applied[s] \cup dropped[s] \subseteq held[s]

=============================================================================
