--------------------------- MODULE MCSubscription ---------------------------
(* Subscription for TLC: a paid and a free plan, two months of a calendar.  *)
EXTENDS Subscription, TLC

MCPlans == {"basic", "free"}
MCPrice == "basic" :> 2 @@ "free" :> 0
MCAmounts == {1, 2}

\* A month of the calendar ends after every second instant.
MCCalendar == [n \in 0..MaxNow |-> n \div 2]

=============================================================================
