---------------------------- MODULE Subscription ----------------------------
(***************************************************************************)
(* The plan one business is subscribed to and how its periods are billed:  *)
(* purchases and assignments, cancellation and reactivation, the hourly    *)
(* renewal tick, which claims the period's invoice and charges the wallet, *)
(* and the administrator who records payments on an invoice or voids it    *)
(* (subscription-service.ts, billing/policy).                              *)
(*                                                                         *)
(* Grain.  A statement outside a transaction is a step; a transaction is   *)
(* one from the lock that keeps others out, with its unlocked reads apart. *)
(* The renewal's lock is the month's invoice counter, which its invoice    *)
(* number comes from, and it reads an existing invoice without locking it. *)
(* No code starts a trial, so there are none here.                         *)
(***************************************************************************)
EXTENDS Integers

CONSTANTS
    Ticks,      \* runs of runSubscriptionRenewalTick that may be under way together
    Requests,   \* handlers of plan changes and reactivations that may be under way together
    Plans,      \* the plans a business can be put on
    Price,      \* [Plans -> calculateSubscriptionTotal of one period]
    Month,      \* the length of a period
    Grace,      \* the plan's graceDays
    Calendar,   \* [0..MaxNow -> the calendar month of an instant, an invoice counter's key]
    Amounts,    \* the amounts paid on an invoice and put into the wallet
    MaxNow,     \* bound: the last instant
    MaxActs,    \* bound: what people do, deaths included
    MaxFaults   \* bound: server deaths

ASSUME SubscriptionAssumption ==
    /\ Price \in [Plans -> Nat]
    /\ Month \in Nat \ {0} /\ Grace \in Nat
    /\ Amounts \subseteq Nat \ {0}
    /\ MaxNow \in Nat /\ MaxActs \in Nat /\ MaxFaults \in Nat
    /\ Calendar \in [0..MaxNow -> Nat]

VARIABLES
    now,
    sub,        \* the business_subscriptions row
    wallet,     \* business_wallets.balance_rial
    invoice,    \* billing_invoices by the period end in their reference
    tick,       \* [Ticks -> how far a tick is and what it read]
    request,    \* [Requests -> how far a request is and what it decided]
    acts,       \* how many times people acted
    faults

vars == <<now, sub, wallet, invoice, tick, request, acts, faults>>

Never == 0  \* a NULL date
Ends == 1..(MaxNow + Month)
Carrying == {"active", "past_due"}
Statuses == Carrying \cup {"none", "cancelled", "expired"}
InvoiceStatuses == {"none", "open", "partially_paid", "overdue", "paid", "void"}
Payable == {"open", "partially_paid", "overdue"}

\* An invoice, what the wallet and the administrator's payments brought it, and the months whose
\* counter was held when the wallet was charged.
NoInvoice == [status |-> "none", total |-> 0, paid |-> 0, fees |-> 0, payments |-> 0,
              charged |-> {}]
NoRequest == [pc |-> "idle", plan |-> "none", source |-> "none", autoRenew |-> FALSE, at |-> 0,
              keep |-> FALSE]

Subscribed(status, plan, end) ==
    [status |-> status, plan |-> plan, end |-> end, grace |-> Never,
     atPeriodEnd |-> FALSE, autoRenew |-> FALSE]

Idle == [pc |-> "idle", at |-> 0, rows |-> {}, seen |-> Subscribed("none", "none", Never),
         total |-> 0, paid |-> 0, counter |-> 0]

\* The migration left every business active and not renewing; a new one has no row.
Init ==
    /\ now = 0
    /\ sub \in {Subscribed(s, p, Month) : s \in {"none", "active"}, p \in Plans}
    /\ wallet = 0
    /\ invoice = [e \in Ends |-> NoInvoice]
    /\ tick = [t \in Ticks |-> Idle]
    /\ request = [r \in Requests |-> NoRequest]
    /\ acts = 0
    /\ faults = 0

-----------------------------------------------------------------------------
(* What people do.                                                          *)

Act == acts + faults < MaxActs /\ acts' = acts + 1

EndRequest(r) == request' = [request EXCEPT ![r] = NoRequest]

\* changeBusinessPlan up to its transaction: the instant and the decision are taken on an
\* unlocked row.
DecidePlan(r, plan, source) ==
    LET flag == source = "purchase" \/ (sub.status # "none" /\ sub.autoRenew)
        carries == IF source = "purchase" THEN Carrying ELSE {"active"}
        unchanged == sub.plan = plan /\ sub.status \in carries /\ sub.autoRenew = flag IN
    /\ Act
    /\ request[r].pc = "idle"
    /\ ~unchanged
    /\ request' = [request EXCEPT ![r] = [NoRequest EXCEPT
           !.pc = "decided", !.plan = plan, !.source = source, !.autoRenew = flag, !.at = now]]
    /\ UNCHANGED <<now, sub, wallet, invoice, tick, faults>>

\* Its transaction locks the business and reads the subscription, which it does not lock: an
\* administrator keeps a period that is running.
LockPlan(r) ==
    /\ request[r].pc = "decided"
    /\ \A s \in Requests : request[s].pc # "locked"
    /\ request' = [request EXCEPT ![r] = [@ EXCEPT
           !.pc = "locked",
           !.keep = /\ request[r].source = "admin" /\ sub.status \in Carrying
                    /\ sub.end > request[r].at]]
    /\ UNCHANGED <<now, sub, wallet, invoice, tick, acts, faults>>

\* ... and writes subscription and business; a period it keeps is the row's of that moment.
WritePlan(r) ==
    LET it == request[r] IN
    /\ it.pc = "locked"
    /\ sub' = [sub EXCEPT !.status = "active", !.plan = it.plan, !.grace = Never,
                          !.autoRenew = it.autoRenew,
                          !.end = IF it.keep THEN @ ELSE it.at + Month]
    /\ EndRequest(r)
    /\ UNCHANGED <<now, wallet, invoice, tick, acts, faults>>

\* cancelBusinessSubscription.
Cancel(atPeriodEnd) ==
    /\ Act
    /\ sub.status # "none"
    /\ sub' = [sub EXCEPT !.atPeriodEnd = TRUE, !.autoRenew = FALSE,
                          !.status = IF atPeriodEnd THEN @ ELSE "cancelled"]
    /\ UNCHANGED <<now, wallet, invoice, tick, request, faults>>

SetAutoRenew(autoRenew) ==
    /\ Act
    /\ sub.status # "none"
    /\ sub' = [sub EXCEPT !.autoRenew = autoRenew]
    /\ UNCHANGED <<now, wallet, invoice, tick, request, faults>>

\* reactivateBusinessSubscription reads the row: a running subscription only loses its
\* scheduled end, and one that has none is left alone.
ReadReactivated(r) ==
    /\ Act
    /\ request[r].pc = "idle"
    /\ sub.status # "none"
    /\ ~(sub.status = "active" /\ ~sub.atPeriodEnd)
    /\ request' = [request EXCEPT ![r] = [NoRequest EXCEPT
           !.pc = IF sub.status = "active" THEN "unscheduling" ELSE "reviving", !.at = now]]
    /\ UNCHANGED <<now, sub, wallet, invoice, tick, faults>>

\* ... and then writes what it had read calls for.
Reactivate(r) ==
    /\ \/ /\ request[r].pc = "unscheduling"
          /\ sub' = [sub EXCEPT !.atPeriodEnd = FALSE]
       \/ /\ request[r].pc = "reviving"
          /\ sub' = [sub EXCEPT !.status = "active", !.atPeriodEnd = FALSE, !.end = now + Month]
    /\ EndRequest(r)
    /\ UNCHANGED <<now, wallet, invoice, tick, acts, faults>>

\* Money reaches the wallet (Wallet.tla has every way it can).
TopUp(amount) ==
    /\ Act
    /\ wallet' = wallet + amount
    /\ UNCHANGED <<now, sub, invoice, tick, request, faults>>

\* Mutant: an overpayment is taken.
Refused_Overpayment(i, amount) == i.status \notin Payable

\* applyPayment's refusals.
Refused(i, amount) == i.status \notin Payable \/ amount > i.total - i.paid

\* applyInvoicePayment, under the invoice's lock.
PayInvoice(e, amount) ==
    LET i == invoice[e] IN
    /\ Act
    /\ ~Refused(i, amount)
    /\ invoice' = [invoice EXCEPT ![e] =
           [i EXCEPT !.paid = i.paid + amount, !.payments = i.payments + amount,
                     !.status = IF i.paid + amount >= i.total THEN "paid"
                                ELSE IF e <= now \/ i.status = "overdue" THEN "overdue"
                                ELSE "partially_paid"]]
    /\ UNCHANGED <<now, sub, wallet, tick, request, faults>>

\* voidBillingInvoice, under the same lock.
VoidInvoice(e) ==
    /\ Act
    /\ invoice[e].status \in {"open", "overdue"} /\ invoice[e].paid = 0
    /\ invoice' = [invoice EXCEPT ![e].status = "void"]
    /\ UNCHANGED <<now, sub, wallet, tick, request, faults>>

-----------------------------------------------------------------------------
(* The renewal tick: its overdue sweep, then the business's renewal.        *)

\* markOverdueInvoices reads what is open and due.
BeginTick(t) ==
    /\ tick[t].pc = "idle"
    /\ tick' = [tick EXCEPT ![t] = [Idle EXCEPT !.pc = "marking", !.at = now,
           !.rows = {e \in Ends : /\ invoice[e].status \in {"open", "partially_paid"}
                                  /\ e <= now /\ invoice[e].paid < invoice[e].total}]]
    /\ UNCHANGED <<now, sub, wallet, invoice, request, acts, faults>>

\* ... and then writes each row, whatever it has become.
MarkOverdue(t, e) ==
    /\ tick[t].pc = "marking" /\ e \in tick[t].rows
    /\ invoice' = [invoice EXCEPT ![e].status = "overdue"]
    /\ tick' = [tick EXCEPT ![t].rows = @ \ {e}]
    /\ UNCHANGED <<now, sub, wallet, request, acts, faults>>

GraceOver(s, at) == s.status = "past_due" /\ s.grace # Never /\ s.grace <= at

\* The due list, and renewBusinessSubscription's own read of the row.
ReadSubscription(t) ==
    LET due == sub.status \in Carrying /\ (sub.end <= tick[t].at \/ GraceOver(sub, tick[t].at)) IN
    /\ tick[t].pc = "marking" /\ tick[t].rows = {}
    /\ tick' = [tick EXCEPT ![t] = IF due THEN [@ EXCEPT !.pc = "renewing", !.seen = sub] ELSE Idle]
    /\ UNCHANGED <<now, sub, wallet, invoice, request, acts, faults>>

EndTick(t) == tick' = [tick EXCEPT ![t] = Idle]

Renewing(t, over) == tick[t].pc = "renewing" /\ (over <=> GraceOver(tick[t].seen, tick[t].at))

\* The grace window has closed.
Lapse(t) ==
    /\ Renewing(t, TRUE)
    /\ sub' = [sub EXCEPT !.status = "expired", !.autoRenew = FALSE]
    /\ EndTick(t)
    /\ UNCHANGED <<now, wallet, invoice, request, acts, faults>>

\* The period has ended and is not to be renewed.
Close(t) ==
    LET seen == tick[t].seen IN
    /\ Renewing(t, FALSE)
    /\ seen.atPeriodEnd \/ ~seen.autoRenew
    /\ sub' = IF seen.atPeriodEnd THEN [sub EXCEPT !.status = "cancelled", !.autoRenew = FALSE]
              ELSE [sub EXCEPT !.status = "expired"]
    /\ EndTick(t)
    /\ UNCHANGED <<now, wallet, invoice, request, acts, faults>>

\* The period is to be renewed: the total is that of the business's plan of this moment, which
\* a plan change writes with the subscription.
ReadTotal(t) ==
    /\ Renewing(t, FALSE)
    /\ tick[t].seen.autoRenew /\ ~tick[t].seen.atPeriodEnd
    /\ tick' = [tick EXCEPT ![t] = [@ EXCEPT !.pc = "billing", !.total = Price[sub.plan]]]
    /\ UNCHANGED <<now, sub, wallet, invoice, request, acts, faults>>

\* advancePeriodTx: the next period follows the one that was read.
Advance(t) ==
    sub' = [sub EXCEPT !.status = "active", !.grace = Never, !.end = tick[t].seen.end + Month]

\* Mutant: no end is set to the grace.
PastDue_NoGrace(t) == sub' = [sub EXCEPT !.status = "past_due", !.grace = Never]

\* The wallet does not cover the period.
PastDue(t) ==
    sub' = [sub EXCEPT !.status = "past_due", !.grace = tick[t].seen.end + Grace]

RenewFree(t) ==
    /\ tick[t].pc = "billing" /\ tick[t].total = 0
    /\ Advance(t) /\ EndTick(t)
    /\ UNCHANGED <<now, wallet, invoice, request, acts, faults>>

\* allocateInvoiceNumber asks for the counter of the current month.
AskNumber(t) ==
    /\ tick[t].pc = "billing" /\ tick[t].total > 0
    /\ tick' = [tick EXCEPT ![t] = [@ EXCEPT !.pc = "asking", !.counter = Calendar[now]]]
    /\ UNCHANGED <<now, sub, wallet, invoice, request, acts, faults>>

\* Mutant: the number is allocated in a transaction of its own.
Granted_OwnTransaction(t) == tick[t].pc = "asking"

\* The counter's row is locked until the transaction that took a number ends.
Granted(t) ==
    /\ tick[t].pc = "asking"
    /\ \A s \in Ticks : tick[s].pc = "charging" => tick[s].counter # tick[t].counter

\* chargeSubscriptionFeeTx, the invoice written paid, and the next period: one commit.
Charge(t, e, i, amount) ==
    /\ wallet >= amount
    /\ wallet' = wallet - amount
    /\ invoice' = [invoice EXCEPT ![e] = [i EXCEPT !.status = "paid", !.paid = i.total,
                                                   !.fees = i.fees + amount,
                                                   !.charged = i.charged \cup {tick[t].counter}]]
    /\ Advance(t)

\* The period's reference is not claimed yet: a new invoice, which stays if money is short.
BillPeriod(t) ==
    LET e == tick[t].seen.end
        i == [NoInvoice EXCEPT !.status = "open", !.total = tick[t].total] IN
    /\ Granted(t)
    /\ invoice[e].status = "none"
    /\ \/ Charge(t, e, i, i.total)
       \/ /\ wallet < i.total
          /\ invoice' = [invoice EXCEPT ![e] = i]
          /\ PastDue(t)
          /\ UNCHANGED wallet
    /\ EndTick(t)
    /\ UNCHANGED <<now, request, acts, faults>>

\* Mutant: a void invoice opens the next period as a paid one does.
Settled_ByVoid(i) == i.status \in {"paid", "void"} \/ i.paid >= i.total

\* What lets the next period open without a charge.
Settled(i) == i.status = "paid" \/ (i.status # "void" /\ i.paid >= i.total)

\* The reference is claimed: the invoice as it stands, read without a lock.
ReadInvoice(t) ==
    LET e == tick[t].seen.end
        i == invoice[e] IN
    /\ Granted(t)
    /\ i.status # "none"
    /\ \/ /\ Settled(i)
          /\ invoice' = [invoice EXCEPT ![e] = [i EXCEPT !.status = "paid", !.paid = i.total]]
          /\ Advance(t) /\ EndTick(t)
       \/ /\ i.status = "void" /\ ~Settled(i)
          /\ EndTick(t)
          /\ UNCHANGED <<sub, invoice>>
       \/ /\ i.status # "void" /\ ~Settled(i)
          /\ tick' = [tick EXCEPT ![t] = [@ EXCEPT !.pc = "charging", !.total = i.total,
                                                   !.paid = i.paid]]
          /\ UNCHANGED <<sub, invoice>>
    /\ UNCHANGED <<now, wallet, request, acts, faults>>

\* What was outstanding when the invoice was read is charged.
ChargeOutstanding(t) ==
    LET e == tick[t].seen.end
        outstanding == tick[t].total - tick[t].paid IN
    /\ tick[t].pc = "charging"
    /\ \/ Charge(t, e, invoice[e], outstanding)
       \/ /\ wallet < outstanding
          /\ PastDue(t)
          /\ UNCHANGED <<wallet, invoice>>
    /\ EndTick(t)
    /\ UNCHANGED <<now, request, acts, faults>>

-----------------------------------------------------------------------------
\* Bound: a request is through before a second instant passes.
Elapse ==
    /\ now < MaxNow
    /\ \A r \in Requests : request[r].pc # "idle" => now = request[r].at
    /\ now' = now + 1
    /\ UNCHANGED <<sub, wallet, invoice, tick, request, acts, faults>>

\* The server dies: what it had not committed is gone.
Die ==
    /\ faults < MaxFaults /\ acts + faults < MaxActs
    /\ faults' = faults + 1
    /\ tick' = [t \in Ticks |-> Idle]
    /\ request' = [r \in Requests |-> NoRequest]
    /\ UNCHANGED <<now, sub, wallet, invoice, acts>>

TickStep(t) ==
    \/ BeginTick(t) \/ (\E e \in Ends : MarkOverdue(t, e)) \/ ReadSubscription(t)
    \/ Lapse(t) \/ Close(t) \/ ReadTotal(t) \/ RenewFree(t) \/ AskNumber(t)
    \/ BillPeriod(t) \/ ReadInvoice(t) \/ ChargeOutstanding(t)

RequestStep(r) == LockPlan(r) \/ WritePlan(r) \/ Reactivate(r)

Next ==
    \/ \E r \in Requests, p \in Plans, source \in {"purchase", "admin"} : DecidePlan(r, p, source)
    \/ \E r \in Requests : ReadReactivated(r) \/ RequestStep(r)
    \/ \E b \in BOOLEAN : Cancel(b) \/ SetAutoRenew(b)
    \/ \E a \in Amounts : TopUp(a)
    \/ \E e \in Ends, a \in Amounts : PayInvoice(e, a)
    \/ \E e \in Ends : VoidInvoice(e)
    \/ \E t \in Ticks : TickStep(t)
    \/ Elapse
    \/ Die

Spec == Init /\ [][Next]_vars

\* Time passes, the timer starts each tick, and a tick or a request that runs goes on.
FairSpec ==
    /\ Spec
    /\ WF_vars(Elapse)
    /\ \A r \in Requests : WF_vars(RequestStep(r))
    /\ \A t \in Ticks : WF_vars(TickStep(t))

-----------------------------------------------------------------------------
\* The type invariant; billing_invoices_paid_lte_total is part of it.
TypeOK ==
    /\ now \in 0..MaxNow
    /\ sub \in [status : Statuses, plan : Plans, end : Ends, grace : 0..(MaxNow + Month + Grace),
                atPeriodEnd : BOOLEAN, autoRenew : BOOLEAN]
    /\ wallet \in Nat
    /\ \A e \in Ends : /\ DOMAIN invoice[e] = DOMAIN NoInvoice
                       /\ invoice[e].status \in InvoiceStatuses
                       /\ invoice[e].paid \in 0..invoice[e].total
    /\ \A t \in Ticks : /\ tick[t].pc \in {"idle", "marking", "renewing", "billing", "asking", "charging"}
                        /\ tick[t].rows \subseteq Ends
    /\ \A r \in Requests : request[r].pc \in {"decided", "locked"} => request[r].plan \in Plans
    /\ acts \in 0..MaxActs
    /\ faults \in 0..MaxFaults

\* However many ticks renew a period together, the wallet pays its invoice at most once, unless
\* they held the counters of different months; the administrator's payments never exceed it; and
\* no invoice is written as paid beyond what came in for it (claimInvoice,
\* allocateInvoiceNumber, renewBusinessSubscription, applyInvoicePayment).
BilledOnce ==
    \A e \in Ends :
        LET i == invoice[e] IN
        /\ (\A m, n \in i.charged : m = n) => i.fees <= i.total
        /\ i.payments <= i.total
        /\ i.paid <= i.fees + i.payments
        /\ i.status = "paid" => i.paid = i.total

\* A tick opens the next period only of a period that is free or whose invoice is collected in
\* full: a claimed, voided or overdue invoice alone never does (renewBusinessSubscription).
OpensPaidPeriods ==
    [][\A t \in Ticks :
          (tick[t].pc # tick'[t].pc /\ sub' # sub /\ sub'.status = "active")
          => \/ tick[t].total = 0
             \/ LET i == invoice'[tick[t].seen.end] IN
                i.status = "paid" /\ i.fees + i.payments >= i.total]_vars

\* A period that has ended, its grace included, is not carried on for ever: the subscription
\* moves to another period or closes (runSubscriptionRenewalTick).  The exception is an invoice
\* voided after a plan request, decided before the period's end and written after its renewal,
\* took the grace away: every later tick finds that period a duplicate.
Carries(e) == sub.status \in Carrying /\ sub.end = e

NoFreeRide ==
    \A e \in {e \in Ends : e + Grace <= MaxNow} :
        Carries(e) ~> ~Carries(e) \/ (sub.grace = Never /\ invoice[e].status = "void")

\* Every rial taken for an invoice was outstanding: its fees and its recorded payments together
\* never exceed it, for "overpayment, duplicate idempotency keys, and void/paid invoices are
\* handled deterministically under concurrency" (subscription-service.ts).
NeverOverCollected == \A e \in Ends : invoice[e].fees + invoice[e].payments <= invoice[e].total

\* The wallet pays a period's invoice at most once, whatever ticks run together: "a retried tick
\* can never bill the same period twice" (server.ts on the renewal tick, claimInvoice).
NeverBilledTwice == \A e \in Ends : invoice[e].fees <= invoice[e].total

=============================================================================
