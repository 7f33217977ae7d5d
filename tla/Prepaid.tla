------------------------------ MODULE Prepaid ------------------------------
(***************************************************************************)
(* What the message outbox promises a business, without batches, backoffs, *)
(* adapters or ticks: a message of a campaign goes out only while it is    *)
(* queued, once and once more at most for each restart; what goes out was  *)
(* paid for before; a message is decided once, as sent only if it went     *)
(* out; money only moves between the purse and what was paid; and a        *)
(* campaign is done only after a look that found nothing of it queued.     *)
(***************************************************************************)
EXTENDS Naturals

CONSTANTS Messages, Campaigns, Credit

VARIABLES
    life,       \* [Messages -> "none", "queued", "sent" or "failed"]
    sender,     \* [Messages -> the campaign a message is of]
    went,       \* [Messages -> how often it went out]
    gone,       \* how many went out in all
    checked,    \* the campaigns found with nothing queued
    done,       \* the campaigns that are done
    purse,
    paid,
    restarts

vars == <<life, sender, went, gone, checked, done, purse, paid, restarts>>

Init ==
    /\ life = [m \in Messages |-> "none"]
    /\ sender = [m \in Messages |-> "none"]
    /\ went = [m \in Messages |-> 0]
    /\ gone = 0
    /\ checked = {}
    /\ done = {}
    /\ purse = Credit
    /\ paid = 0
    /\ restarts = 0

Queue(c, M) ==
    /\ \A m \in M : life[m] = "none"
    /\ life' = [m \in Messages |-> IF m \in M THEN "queued" ELSE life[m]]
    /\ sender' = [m \in Messages |-> IF m \in M THEN c ELSE sender[m]]
    /\ done' = done \ {c}
    /\ UNCHANGED <<went, gone, checked, purse, paid, restarts>>

TopUp ==
    /\ purse' = purse + 1
    /\ UNCHANGED <<life, sender, went, gone, checked, done, paid, restarts>>

Pay(n) ==
    /\ purse' = purse - n
    /\ paid' = paid + n
    /\ UNCHANGED <<life, sender, went, gone, checked, done, restarts>>

Refund(n) ==
    /\ gone + n <= paid
    /\ purse' = purse + n
    /\ paid' = paid - n
    /\ UNCHANGED <<life, sender, went, gone, checked, done, restarts>>

GoOut(m) ==
    /\ life[m] = "queued"
    /\ went[m] <= restarts
    /\ gone < paid
    /\ went' = [went EXCEPT ![m] = went[m] + 1]
    /\ gone' = gone + 1
    /\ UNCHANGED <<life, sender, checked, done, purse, paid, restarts>>

Decide(m, l) ==
    /\ life[m] = "queued"
    /\ l = "sent" => went[m] > 0
    /\ life' = [life EXCEPT ![m] = l]
    /\ UNCHANGED <<sender, went, gone, checked, done, purse, paid, restarts>>

Check(C) ==
    /\ \A m \in Messages : life[m] = "queued" => sender[m] \notin C
    /\ checked' = C
    /\ UNCHANGED <<life, sender, went, gone, done, purse, paid, restarts>>

\* Messages may have been queued since the look.
Complete ==
    /\ done' = done \cup checked
    /\ checked' = {}
    /\ UNCHANGED <<life, sender, went, gone, purse, paid, restarts>>

Restart ==
    /\ restarts' = restarts + 1
    /\ checked' = {}
    /\ UNCHANGED <<life, sender, went, gone, done, purse, paid>>

Next ==
    \/ \E c \in Campaigns, M \in SUBSET Messages : Queue(c, M)
    \/ TopUp
    \/ \E n \in 0..purse : Pay(n)
    \/ \E n \in 0..paid : Refund(n)
    \/ \E m \in Messages : GoOut(m) \/ Decide(m, "sent") \/ Decide(m, "failed")
    \/ \E C \in SUBSET Campaigns : Check(C)
    \/ Complete
    \/ Restart

Spec == Init /\ [][Next]_vars

\* What follows for every message.
Kept ==
    /\ gone <= paid
    /\ \A m \in Messages : went[m] <= 1 + restarts
    /\ \A m \in Messages : life[m] = "sent" => went[m] > 0

=============================================================================
