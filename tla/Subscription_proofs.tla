------------------------ MODULE Subscription_proofs ------------------------
(***************************************************************************)
(* Proofs about Subscription, for any plans, prices, amounts, calendar and *)
(* bounds, and for any number of ticks and requests together: what keeps   *)
(* two charges of one invoice apart is the lock on a month's counter.      *)
(***************************************************************************)
EXTENDS Subscription, TLAPS

-----------------------------------------------------------------------------
(* The inductive invariant.                                                 *)

SubType == [status : Statuses, plan : Plans, end : Ends, grace : 0..(MaxNow + Month + Grace),
            atPeriodEnd : BOOLEAN, autoRenew : BOOLEAN]
InvoiceType == [status : InvoiceStatuses, total : Nat, paid : Nat, fees : Nat, payments : Nat,
                charged : SUBSET Nat]
\* An idle tick has seen a row without a plan.
SeenType == [status : Statuses, plan : Plans \cup {"none"}, end : Ends \cup {Never},
             grace : 0..(MaxNow + Month + Grace), atPeriodEnd : BOOLEAN, autoRenew : BOOLEAN]
Renewal == {"billing", "asking", "charging"}
TickType == [pc : {"idle", "marking", "renewing"} \cup Renewal, at : 0..MaxNow, rows : SUBSET Ends,
             seen : SeenType, total : Nat, paid : Nat, counter : Nat]
RequestType == [pc : {"idle", "decided", "locked", "unscheduling", "reviving"},
                plan : Plans \cup {"none"}, source : {"purchase", "admin", "none"},
                autoRenew : BOOLEAN, at : 0..MaxNow, keep : BOOLEAN]

Types ==
    /\ now \in 0..MaxNow
    /\ sub \in SubType
    /\ wallet \in Nat
    /\ invoice \in [Ends -> InvoiceType]
    /\ tick \in [Ticks -> TickType]
    /\ request \in [Requests -> RequestType]
    /\ \A r \in Requests : request[r].pc \in {"decided", "locked"} => request[r].plan \in Plans
    /\ acts \in 0..MaxActs
    /\ faults \in 0..MaxFaults

\* A tick renews a period that had ended when it read it; so the next one begins within Ends.
TicksRead ==
    \A t \in Ticks : tick[t].pc \in {"renewing"} \cup Renewal =>
        /\ tick[t].seen.end \in Ends
        /\ tick[t].seen.end <= tick[t].at \/ GraceOver(tick[t].seen, tick[t].at)
        /\ tick[t].pc \in Renewal => ~GraceOver(tick[t].seen, tick[t].at)

\* What came in for an invoice and what is written of it.
Sound(i) ==
    /\ i.paid <= i.total /\ i.payments <= i.paid
    /\ i.paid <= i.fees + i.payments
    /\ i.status = "paid" => i.paid = i.total

\* The invoices are sound, and one that a tick has read is still there, ahead by payments only.
Collected ==
    /\ \A e \in Ends : Sound(invoice[e])
    /\ \A t \in Ticks : tick[t].pc = "charging" =>
          LET i == invoice[tick[t].seen.end] IN
          i.status # "none" /\ tick[t].total = i.total /\ tick[t].paid <= i.paid

IInv == Types /\ TicksRead /\ Collected

\* An invoice charged under one month's counter has cost the wallet no more than was written as
\* paid, nor than a tick holding that counter has read; and no two ticks charge under one counter.
FeesOnce ==
    /\ \A e \in Ends : (\A m, n \in invoice[e].charged : m = n) => invoice[e].fees <= invoice[e].paid
    /\ \A t \in Ticks : tick[t].pc = "charging" =>
          LET i == invoice[tick[t].seen.end] IN
          i.charged \subseteq {tick[t].counter} => i.fees <= tick[t].paid
    /\ \A s, t \in Ticks :
          s # t /\ tick[s].pc = "charging" /\ tick[t].pc = "charging" => tick[s].counter # tick[t].counter

\* What a step that charges nothing does to the invoices.
NothingCharged ==
    \A e \in Ends : /\ invoice'[e].fees = invoice[e].fees /\ invoice'[e].charged = invoice[e].charged
                     /\ invoice'[e].paid >= invoice[e].paid

\* The period a tick has read is collected in full.
Opened(t) ==
    LET i == invoice'[tick[t].seen.end] IN
    i.status = "paid" /\ i.fees + i.payments >= i.total

-----------------------------------------------------------------------------
(* Helpers.                                                                 *)

LEMMA TickIs ==
  ASSUME Types, NEW t \in Ticks, NEW v \in TickType, tick' = [tick EXCEPT ![t] = v]
  PROVE  /\ tick' \in [Ticks -> TickType]
         /\ tick'[t] = v
         /\ \A s \in Ticks : s # t => tick'[s] = tick[s]
  BY DEF Types

LEMMA RequestIs ==
  ASSUME Types, NEW r \in Requests, NEW v \in RequestType,
         v.pc \in {"decided", "locked"} => v.plan \in Plans,
         request' = [request EXCEPT ![r] = v]
  PROVE  /\ request' \in [Requests -> RequestType]
         /\ \A s \in Requests : request'[s].pc \in {"decided", "locked"} => request'[s].plan \in Plans
<1>1. /\ request' \in [Requests -> RequestType] /\ request'[r] = v
      /\ \A s \in Requests : s # r => request'[s] = request[s]
  BY DEF Types
<1> QED
  BY ONLY <1>1, Types, v.pc \in {"decided", "locked"} => v.plan \in Plans DEF Types

\* A request that is through, or never was.
LEMMA NoRequestIs == NoRequest \in RequestType /\ NoRequest.pc = "idle"
  BY SubscriptionAssumption DEF NoRequest, RequestType

LEMMA EndRequestIs ==
  ASSUME Types, NEW r \in Requests, EndRequest(r)
  PROVE  /\ request' \in [Requests -> RequestType]
         /\ \A s \in Requests : request'[s].pc \in {"decided", "locked"} => request'[s].plan \in Plans
  BY RequestIs, NoRequestIs DEF EndRequest

LEMMA InvoiceIs ==
  ASSUME Types, NEW e \in Ends, NEW v \in InvoiceType, invoice' = [invoice EXCEPT ![e] = v]
  PROVE  /\ invoice' \in [Ends -> InvoiceType]
         /\ invoice'[e] = v
         /\ \A f \in Ends : f # e => invoice'[f] = invoice[f]
  BY DEF Types

LEMMA IdleIs == Idle \in TickType /\ Idle.pc = "idle"
  BY SubscriptionAssumption DEF Idle, TickType, SeenType, Subscribed, Statuses, Carrying, Never

\* A tick that ends leaves the other ticks as they are.
LEMMA EndTickIs ==
  ASSUME Types, NEW t \in Ticks, EndTick(t)
  PROVE  /\ tick' \in [Ticks -> TickType]
         /\ tick'[t].pc = "idle"
         /\ \A s \in Ticks : s # t => tick'[s] = tick[s]
  BY TickIs, IdleIs DEF EndTick

\* The next period lies within the instants considered.
LEMMA NextEnd ==
  ASSUME Types, TicksRead, NEW t \in Ticks, tick[t].pc \in Renewal,
         ~GraceOver(tick[t].seen, tick[t].at)
  PROVE  tick[t].seen.end + Month \in Ends
<1>1. tick[t].at \in 0..MaxNow
  BY DEF Types, TickType
<1>2. tick[t].seen.end \in Ends /\ tick[t].seen.end <= tick[t].at
  BY DEF TicksRead
<1> QED
  BY <1>1, <1>2, SubscriptionAssumption DEF Ends

LEMMA ActIs ==
  ASSUME Types, Act
  PROVE  acts' \in 0..MaxActs
  BY SubscriptionAssumption DEF Types, Act

\* What reads are of is not touched.
LEMMA LeftAlone ==
  ASSUME IInv, UNCHANGED <<invoice, tick>>
  PROVE  TicksRead' /\ Collected'
  BY DEF IInv, TicksRead, Collected

\* Ticks that are left alone, or end, keep what they have read.
LEMMA TicksKeep ==
  ASSUME IInv, invoice' \in [Ends -> InvoiceType],
         \A s \in Ticks : tick'[s] = tick[s] \/ tick'[s].pc \in {"idle", "marking"},
         \A e \in Ends :
            /\ Sound(invoice'[e])
            /\ invoice[e].status # "none" =>
                 /\ invoice'[e].status # "none" /\ invoice'[e].total = invoice[e].total
                 /\ invoice'[e].paid >= invoice[e].paid
  PROVE  TicksRead' /\ Collected'
<1>1. TicksRead'
  BY DEF IInv, TicksRead, GraceOver, Renewal
<1>2. ASSUME NEW s \in Ticks, tick'[s].pc = "charging"
      PROVE  /\ invoice'[tick'[s].seen.end].status # "none"
             /\ tick'[s].total = invoice'[tick'[s].seen.end].total
             /\ tick'[s].paid <= invoice'[tick'[s].seen.end].paid
  <2>1. tick'[s] = tick[s] /\ tick[s].pc = "charging"
    BY <1>2
  <2>2. tick[s].seen.end \in Ends
    BY <2>1 DEF IInv, TicksRead, Renewal
  <2> DEFINE e == tick[s].seen.end
  <2>3. e \in Ends /\ tick[s].total = invoice[e].total /\ tick[s].paid <= invoice[e].paid
        /\ invoice[e].status # "none"
    BY <2>1, <2>2 DEF IInv, Collected
  <2>4. tick[s].paid \in Nat /\ invoice[e].paid \in Nat /\ invoice'[e].paid \in Nat
    BY <2>3 DEF IInv, Types, TickType, InvoiceType
  <2>4a. invoice'[e].paid >= invoice[e].paid /\ invoice'[e].total = invoice[e].total
         /\ invoice'[e].status # "none"
    BY <2>3
  <2> HIDE DEF e
  <2>5. tick'[s].seen.end = e
    BY <2>1 DEF e
  <2>6. invoice'[e].paid >= tick[s].paid
    BY <2>3, <2>4, <2>4a
  <2> QED
    BY <2>1, <2>3, <2>4a, <2>5, <2>6
<1> QED
  BY <1>1, <1>2 DEF Collected

-----------------------------------------------------------------------------
(* Every action keeps the inductive invariant.                              *)

\* A decision writes nothing.
LEMMA DecidePlanKeeps ==
  ASSUME IInv, NEW r \in Requests, NEW plan \in Plans, NEW source \in {"purchase", "admin"},
         DecidePlan(r, plan, source)
  PROVE  IInv'
<1>1. UNCHANGED <<invoice, tick>>
  BY DEF DecidePlan
<1>2. Types'
  <2>1. acts' \in 0..MaxActs
    BY ActIs DEF DecidePlan, IInv
  <2>2. PICK flag \in BOOLEAN :
          request' = [request EXCEPT ![r] = [NoRequest EXCEPT
             !.pc = "decided", !.plan = plan, !.source = source, !.autoRenew = flag, !.at = now]]
    BY DEF DecidePlan, IInv, Types, SubType
  <2> DEFINE v == [NoRequest EXCEPT
             !.pc = "decided", !.plan = plan, !.source = source, !.autoRenew = flag, !.at = now]
  <2>3. now \in 0..MaxNow
    BY DEF IInv, Types
  <2>4. v \in RequestType /\ v.plan = plan
    BY <2>3, NoRequestIs DEF RequestType
  <2>5. request' = [request EXCEPT ![r] = v]
    BY <2>2
  <2> HIDE DEF v
  <2>6. /\ request' \in [Requests -> RequestType]
        /\ \A s \in Requests : request'[s].pc \in {"decided", "locked"} => request'[s].plan \in Plans
    BY <2>4, <2>5, RequestIs DEF IInv
  <2> QED
    BY <1>1, <2>1, <2>6 DEF DecidePlan, IInv, Types
<1>3. TicksRead' /\ Collected'
  BY <1>1, LeftAlone
<1> QED
  BY <1>2, <1>3 DEF IInv

\* Nor does the lock.
LEMMA LockPlanKeeps ==
  ASSUME IInv, NEW r \in Requests, LockPlan(r)
  PROVE  IInv'
<1>1. UNCHANGED <<now, sub, wallet, invoice, tick, acts, faults>>
  BY DEF LockPlan
<1>2. Types'
  <2>1. PICK keep \in BOOLEAN :
          request' = [request EXCEPT ![r] = [request[r] EXCEPT !.pc = "locked", !.keep = keep]]
    BY DEF LockPlan, IInv, Types
  <2> DEFINE v == [request[r] EXCEPT !.pc = "locked", !.keep = keep]
  <2>2. request[r] \in RequestType /\ request[r].plan \in Plans
    BY DEF LockPlan, IInv, Types
  <2>3. v \in RequestType /\ v.plan \in Plans
    BY <2>2 DEF RequestType
  <2>4. request' = [request EXCEPT ![r] = v]
    BY <2>1
  <2> HIDE DEF v
  <2>5. /\ request' \in [Requests -> RequestType]
        /\ \A s \in Requests : request'[s].pc \in {"decided", "locked"} => request'[s].plan \in Plans
    BY <2>3, <2>4, RequestIs DEF IInv
  <2> QED
    BY <1>1, <2>5 DEF IInv, Types
<1>3. TicksRead' /\ Collected'
  BY <1>1, LeftAlone
<1> QED
  BY <1>2, <1>3 DEF IInv

\* A plan that is written runs for a month of the instant it was decided at.
LEMMA WritePlanKeeps ==
  ASSUME IInv, NEW r \in Requests, WritePlan(r)
  PROVE  IInv'
<1>1. UNCHANGED <<invoice, tick>>
  BY DEF WritePlan
<1>2. Types'
  <2> DEFINE it == request[r]
  <2>1. it \in RequestType /\ it.plan \in Plans
    BY DEF WritePlan, IInv, Types
  <2>2. it.at + Month \in Ends /\ it.autoRenew \in BOOLEAN
    BY <2>1, SubscriptionAssumption DEF RequestType, Ends
  <2>3. sub' = [sub EXCEPT !.status = "active", !.plan = it.plan, !.grace = Never,
                           !.autoRenew = it.autoRenew,
                           !.end = IF it.keep THEN sub.end ELSE it.at + Month]
    BY DEF WritePlan
  <2> HIDE DEF it
  <2>4. PICK end \in Ends :
          sub' = [sub EXCEPT !.status = "active", !.plan = it.plan, !.grace = Never,
                             !.autoRenew = it.autoRenew, !.end = end]
    BY <2>2, <2>3 DEF IInv, Types, SubType
  <2>5. Never \in 0..(MaxNow + Month + Grace)
    BY SubscriptionAssumption DEF Never
  <2>6. sub' \in SubType
    BY <2>1, <2>2, <2>4, <2>5 DEF IInv, Types, SubType, Statuses, Carrying
  <2>7. /\ request' \in [Requests -> RequestType]
        /\ \A s \in Requests : request'[s].pc \in {"decided", "locked"} => request'[s].plan \in Plans
    BY EndRequestIs DEF WritePlan, IInv
  <2> QED
    BY <1>1, <2>6, <2>7 DEF WritePlan, IInv, Types
<1>3. TicksRead' /\ Collected'
  BY <1>1, LeftAlone
<1> QED
  BY <1>2, <1>3 DEF IInv

\* A cancellation touches the subscription alone.
LEMMA CancelKeeps ==
  ASSUME IInv, NEW atPeriodEnd \in BOOLEAN, Cancel(atPeriodEnd)
  PROVE  IInv'
<1>1. UNCHANGED <<invoice, tick>>
  BY DEF Cancel
<1>2. Types'
  <2>1. acts' \in 0..MaxActs
    BY ActIs DEF Cancel, IInv
  <2>2. sub' \in SubType
    BY SubscriptionAssumption DEF Cancel, IInv, Types, SubType, Statuses, Carrying
  <2> QED
    BY <1>1, <2>1, <2>2 DEF Cancel, IInv, Types
<1>3. TicksRead' /\ Collected'
  BY <1>1, LeftAlone
<1> QED
  BY <1>2, <1>3 DEF IInv

\* So does the setting of the renewal.
LEMMA SetAutoRenewKeeps ==
  ASSUME IInv, NEW autoRenew \in BOOLEAN, SetAutoRenew(autoRenew)
  PROVE  IInv'
<1>1. UNCHANGED <<invoice, tick>>
  BY DEF SetAutoRenew
<1>2. Types'
  <2>1. acts' \in 0..MaxActs
    BY ActIs DEF SetAutoRenew, IInv
  <2>2. sub' \in SubType
    BY SubscriptionAssumption DEF SetAutoRenew, IInv, Types, SubType, Statuses, Carrying
  <2> QED
    BY <1>1, <2>1, <2>2 DEF SetAutoRenew, IInv, Types
<1>3. TicksRead' /\ Collected'
  BY <1>1, LeftAlone
<1> QED
  BY <1>2, <1>3 DEF IInv

\* What a reactivation reads changes nothing.
LEMMA ReadReactivatedKeeps ==
  ASSUME IInv, NEW r \in Requests, ReadReactivated(r)
  PROVE  IInv'
<1>1. UNCHANGED <<invoice, tick>>
  BY DEF ReadReactivated
<1>2. Types'
  <2>1. acts' \in 0..MaxActs
    BY ActIs DEF ReadReactivated, IInv
  <2>2. PICK pc \in {"unscheduling", "reviving"} :
          request' = [request EXCEPT ![r] = [NoRequest EXCEPT !.pc = pc, !.at = now]]
    BY DEF ReadReactivated
  <2> DEFINE v == [NoRequest EXCEPT !.pc = pc, !.at = now]
  <2>3. now \in 0..MaxNow
    BY DEF IInv, Types
  <2>4. v \in RequestType /\ v.pc \notin {"decided", "locked"}
    BY <2>3, NoRequestIs DEF RequestType
  <2>5. request' = [request EXCEPT ![r] = v]
    BY <2>2
  <2> HIDE DEF v
  <2>6. /\ request' \in [Requests -> RequestType]
        /\ \A s \in Requests : request'[s].pc \in {"decided", "locked"} => request'[s].plan \in Plans
    BY <2>4, <2>5, RequestIs DEF IInv
  <2> QED
    BY <1>1, <2>1, <2>6 DEF ReadReactivated, IInv, Types
<1>3. TicksRead' /\ Collected'
  BY <1>1, LeftAlone
<1> QED
  BY <1>2, <1>3 DEF IInv

\* A revived subscription runs for a month of now.
LEMMA ReactivateKeeps ==
  ASSUME IInv, NEW r \in Requests, Reactivate(r)
  PROVE  IInv'
<1>1. UNCHANGED <<invoice, tick>>
  BY DEF Reactivate
<1>2. Types'
  <2>1. now + Month \in Ends
    BY SubscriptionAssumption DEF IInv, Types, Ends
  <2>2. sub' \in SubType
    BY <2>1 DEF Reactivate, IInv, Types, SubType, Statuses, Carrying
  <2>3. /\ request' \in [Requests -> RequestType]
        /\ \A s \in Requests : request'[s].pc \in {"decided", "locked"} => request'[s].plan \in Plans
    BY EndRequestIs DEF Reactivate, IInv
  <2> QED
    BY <1>1, <2>2, <2>3 DEF Reactivate, IInv, Types
<1>3. TicksRead' /\ Collected'
  BY <1>1, LeftAlone
<1> QED
  BY <1>2, <1>3 DEF IInv

\* Money in the wallet is no money on an invoice.
LEMMA TopUpKeeps ==
  ASSUME IInv, NEW amount \in Amounts, TopUp(amount)
  PROVE  IInv'
<1>1. UNCHANGED <<invoice, tick>>
  BY DEF TopUp
<1>2. Types'
  <2>1. acts' \in 0..MaxActs
    BY ActIs DEF TopUp, IInv
  <2>2. wallet' \in Nat
    BY SubscriptionAssumption DEF TopUp, IInv, Types
  <2> QED
    BY <1>1, <2>1, <2>2 DEF TopUp, IInv, Types
<1>3. TicksRead' /\ Collected'
  BY <1>1, LeftAlone
<1> QED
  BY <1>2, <1>3 DEF IInv

\* Time passes.
LEMMA ElapseKeeps ==
  ASSUME IInv, Elapse
  PROVE  IInv'
<1>1. UNCHANGED <<invoice, tick>>
  BY DEF Elapse
<1>2. Types'
  BY <1>1, SubscriptionAssumption DEF Elapse, IInv, Types
<1>3. TicksRead' /\ Collected'
  BY <1>1, LeftAlone
<1> QED
  BY <1>2, <1>3 DEF IInv

\* A payment that is accepted was outstanding.
LEMMA PayInvoiceKeeps ==
  ASSUME IInv, NEW e \in Ends, NEW amount \in Amounts, PayInvoice(e, amount)
  PROVE  IInv' /\ NothingCharged
<1> DEFINE i == invoice[e]
           j == invoice'[e]
<1>1. /\ i \in InvoiceType /\ Sound(i) /\ amount \in Nat
      /\ i.status \in Payable /\ ~(amount > i.total - i.paid)
  BY SubscriptionAssumption DEF PayInvoice, Refused, IInv, Types, Collected
<1> DEFINE status == IF i.paid + amount >= i.total THEN "paid"
                     ELSE IF e <= now \/ i.status = "overdue" THEN "overdue"
                     ELSE "partially_paid"
           v == [i EXCEPT !.paid = i.paid + amount, !.payments = i.payments + amount,
                          !.status = status]
<1>2. invoice' = [invoice EXCEPT ![e] = v]
  BY DEF PayInvoice
<1>2a. /\ status \in {"paid", "overdue", "partially_paid"}
       /\ status = "paid" => i.paid + amount >= i.total
  OBVIOUS
<1> HIDE DEF status, i
<1>2b. /\ i.total \in Nat /\ i.paid \in Nat /\ i.payments \in Nat /\ i.fees \in Nat
  BY <1>1 DEF InvoiceType
<1>3. v \in InvoiceType /\ v.status = status /\ v.total = i.total /\ v.fees = i.fees
      /\ v.paid = i.paid + amount /\ v.payments = i.payments + amount /\ v.charged = i.charged
  <2>1. status \in InvoiceStatuses /\ i.paid + amount \in Nat /\ i.payments + amount \in Nat
    BY <1>1, <1>2a, <1>2b DEF InvoiceStatuses
  <2>2. i \in InvoiceType
    BY <1>1
  <2> DEFINE paid == i.paid + amount
             payments == i.payments + amount
  <2>3. v = [i EXCEPT !.paid = paid, !.payments = payments, !.status = status]
    OBVIOUS
  <2>4. paid \in Nat /\ payments \in Nat
    BY <2>1
  <2> HIDE DEF v, paid, payments
  <2>5. /\ v \in InvoiceType
        /\ v.status = status /\ v.total = i.total /\ v.fees = i.fees
        /\ v.paid = paid /\ v.payments = payments /\ v.charged = i.charged
    BY <2>1, <2>2, <2>3, <2>4 DEF InvoiceType
  <2> QED
    BY <2>5 DEF paid, payments
<1> HIDE DEF v
<1>4. invoice' \in [Ends -> InvoiceType] /\ j = v /\ \A f \in Ends : f # e => invoice'[f] = invoice[f]
  BY <1>2, <1>3, InvoiceIs DEF IInv
<1> HIDE DEF j
<1>6. Sound(j) /\ j.status # "none" /\ j.total = i.total /\ j.paid >= i.paid
  <2>1. /\ j.total = i.total /\ j.fees = i.fees /\ j.status = status
        /\ j.paid = i.paid + amount /\ j.payments = i.payments + amount
    BY <1>3, <1>4
  <2>2. /\ i.paid <= i.total /\ i.payments <= i.paid /\ i.paid <= i.fees + i.payments
        /\ amount <= i.total - i.paid /\ amount \in Nat
    BY <1>1, <1>2b DEF Sound
  <2>3. /\ i.paid + amount <= i.total /\ i.payments + amount <= i.paid + amount
        /\ i.paid + amount <= i.fees + (i.payments + amount)
        /\ i.paid + amount >= i.paid
        /\ i.paid + amount >= i.total => i.paid + amount = i.total
    BY <2>2, <1>2b
  <2> QED
    BY <1>2a, <2>1, <2>3 DEF Sound
<1>7. \A f \in Ends : f # e => Sound(invoice'[f]) /\ invoice'[f].paid >= invoice[f].paid
  BY <1>4 DEF IInv, Types, InvoiceType, Collected
<1>8. UNCHANGED tick
  BY DEF PayInvoice
<1>9. TicksRead' /\ Collected'
  BY <1>4, <1>6, <1>7, <1>8, TicksKeep DEF i, j
<1>10. Types'
  BY <1>4, ActIs DEF PayInvoice, IInv, Types
<1>11. j.fees = i.fees /\ j.charged = i.charged
  BY <1>3, <1>4
<1>12. \A f \in Ends : f # e => invoice'[f].fees = invoice[f].fees /\ invoice'[f].charged = invoice[f].charged
  BY <1>4
<1>13. NothingCharged
  BY <1>6, <1>7, <1>11, <1>12 DEF NothingCharged, i, j
<1> QED
  BY <1>9, <1>10, <1>13 DEF IInv

\* A voided invoice keeps what was collected.
LEMMA VoidInvoiceKeeps ==
  ASSUME IInv, NEW e \in Ends, VoidInvoice(e)
  PROVE  IInv' /\ NothingCharged
<1> DEFINE v == [invoice[e] EXCEPT !.status = "void"]
<1>1. invoice[e] \in InvoiceType /\ Sound(invoice[e])
  BY DEF IInv, Types, Collected
<1>2. /\ v \in InvoiceType /\ v.status = "void" /\ v.total = invoice[e].total
      /\ v.paid = invoice[e].paid /\ v.fees = invoice[e].fees /\ v.payments = invoice[e].payments
      /\ v.charged = invoice[e].charged
  BY <1>1 DEF InvoiceType, InvoiceStatuses
<1>3. invoice' = [invoice EXCEPT ![e] = v]
  BY DEF VoidInvoice
<1> HIDE DEF v
<1>4. invoice' \in [Ends -> InvoiceType] /\ invoice'[e] = v
      /\ \A f \in Ends : f # e => invoice'[f] = invoice[f]
  BY <1>2, <1>3, InvoiceIs DEF IInv
<1>5. \A f \in Ends : /\ Sound(invoice'[f]) /\ invoice'[f].total = invoice[f].total
                      /\ invoice'[f].paid = invoice[f].paid
                      /\ invoice[f].status # "none" => invoice'[f].status # "none"
  BY <1>1, <1>2, <1>4 DEF Sound, IInv, Collected
<1>6. UNCHANGED tick /\ \A f \in Ends : invoice[f].paid \in Nat
  BY DEF VoidInvoice, IInv, Types, InvoiceType
<1>7. TicksRead' /\ Collected'
  BY <1>4, <1>5, <1>6, TicksKeep
<1>8. Types'
  BY <1>4, ActIs DEF VoidInvoice, IInv, Types
<1>9. NothingCharged
  BY <1>2, <1>4, <1>5, <1>6 DEF NothingCharged
<1> QED
  BY <1>7, <1>8, <1>9 DEF IInv

\* A tick begins with a sweep.
LEMMA BeginTickKeeps ==
  ASSUME IInv, NEW t \in Ticks, BeginTick(t)
  PROVE  IInv'
<1> DEFINE due == {e \in Ends : /\ invoice[e].status \in {"open", "partially_paid"}
                                /\ e <= now /\ invoice[e].paid < invoice[e].total}
           v == [Idle EXCEPT !.pc = "marking", !.at = now, !.rows = due]
<1>1. tick' = [tick EXCEPT ![t] = v]
  BY DEF BeginTick
<1>2. due \in SUBSET Ends
  OBVIOUS
<1> HIDE DEF due
<1>3. v \in TickType /\ v.pc = "marking"
  BY <1>2, IdleIs DEF IInv, Types, TickType
<1> HIDE DEF v
<1>4. /\ tick' \in [Ticks -> TickType] /\ tick'[t].pc = "marking"
      /\ \A s \in Ticks : s # t => tick'[s] = tick[s]
  BY <1>1, <1>3, TickIs DEF IInv
<1>5. UNCHANGED <<now, sub, wallet, invoice, request, acts, faults>>
  BY DEF BeginTick
<1>6. TicksRead' /\ Collected'
  BY <1>4, <1>5, TicksKeep DEF IInv, Types, Collected, InvoiceType
<1>7. Types'
  BY <1>4, <1>5 DEF IInv, Types
<1> QED
  BY <1>6, <1>7 DEF IInv

\* An invoice that is overdue again is still what it was paid.
LEMMA MarkOverdueKeeps ==
  ASSUME IInv, NEW t \in Ticks, NEW e \in Ends, MarkOverdue(t, e)
  PROVE  IInv' /\ NothingCharged
<1> DEFINE v == [invoice[e] EXCEPT !.status = "overdue"]
           w == [tick[t] EXCEPT !.rows = @ \ {e}]
<1>1. invoice' = [invoice EXCEPT ![e] = v] /\ tick' = [tick EXCEPT ![t] = w]
  BY DEF MarkOverdue
<1>2. invoice[e] \in InvoiceType /\ Sound(invoice[e]) /\ tick[t] \in TickType
  BY DEF IInv, Types, Collected
<1>3. /\ v \in InvoiceType /\ v.status = "overdue" /\ v.total = invoice[e].total
      /\ v.paid = invoice[e].paid /\ v.fees = invoice[e].fees /\ v.payments = invoice[e].payments
      /\ v.charged = invoice[e].charged
  BY <1>2 DEF InvoiceType, InvoiceStatuses
<1>4. w \in TickType /\ w.pc = tick[t].pc
  BY <1>2 DEF TickType
<1>5. tick[t].pc = "marking"
  BY DEF MarkOverdue
<1> HIDE DEF v, w
<1>6. invoice' \in [Ends -> InvoiceType] /\ invoice'[e] = v
      /\ \A f \in Ends : f # e => invoice'[f] = invoice[f]
  BY <1>1, <1>3, InvoiceIs DEF IInv
<1>7. /\ tick' \in [Ticks -> TickType] /\ tick'[t].pc = "marking"
      /\ \A s \in Ticks : s # t => tick'[s] = tick[s]
  BY <1>1, <1>4, <1>5, TickIs DEF IInv
<1>8. \A f \in Ends : /\ Sound(invoice'[f]) /\ invoice'[f].total = invoice[f].total
                      /\ invoice'[f].paid = invoice[f].paid
                      /\ invoice[f].status # "none" => invoice'[f].status # "none"
  BY <1>2, <1>3, <1>6 DEF Sound, IInv, Collected
<1>9. \A f \in Ends : invoice[f].paid \in Nat
  BY DEF IInv, Types, InvoiceType
<1>10. TicksRead' /\ Collected'
  BY <1>6, <1>7, <1>8, <1>9, TicksKeep
<1>11. Types'
  BY <1>6, <1>7 DEF MarkOverdue, IInv, Types
<1>12. NothingCharged
  BY <1>3, <1>6, <1>8, <1>9 DEF NothingCharged
<1> QED
  BY <1>10, <1>11, <1>12 DEF IInv

\* What is renewed had ended when it was read.
LEMMA ReadSubscriptionKeeps ==
  ASSUME IInv, NEW t \in Ticks, ReadSubscription(t)
  PROVE  IInv'
<1>1. UNCHANGED <<now, sub, wallet, invoice, request, acts, faults>>
  BY DEF ReadSubscription
<1>2. CASE EndTick(t)
  <2>1. TicksRead' /\ Collected'
    BY <1>1, <1>2, EndTickIs, TicksKeep DEF IInv, Types, Collected, InvoiceType
  <2> QED
    BY <1>1, <1>2, <2>1, EndTickIs DEF IInv, Types
<1>3. CASE ~EndTick(t)
  <2> DEFINE v == [tick[t] EXCEPT !.pc = "renewing", !.seen = sub]
  <2>1. /\ tick' = [tick EXCEPT ![t] = v]
        /\ sub.end <= tick[t].at \/ GraceOver(sub, tick[t].at)
    BY <1>3 DEF ReadSubscription, EndTick
  <2>2. tick[t] \in TickType /\ sub \in SubType
    BY DEF IInv, Types
  <2>3. sub.plan \in Plans /\ sub.end \in Ends /\ sub \in SeenType
    BY <2>2 DEF SubType, SeenType
  <2>5. v \in TickType /\ v.pc = "renewing" /\ v.seen = sub /\ v.at = tick[t].at
    BY <2>2, <2>3 DEF TickType
  <2> HIDE DEF v
  <2>6. /\ tick' \in [Ticks -> TickType] /\ tick'[t] = v
        /\ \A s \in Ticks : s # t => tick'[s] = tick[s]
    BY <2>1, <2>5, TickIs DEF IInv
  <2>7. TicksRead'
    BY <2>1, <2>3, <2>5, <2>6 DEF IInv, TicksRead, Renewal
  <2>8. Collected'
    BY <1>1, <2>5, <2>6 DEF IInv, Collected
  <2> QED
    BY <1>1, <2>6, <2>7, <2>8 DEF IInv, Types
<1> QED
  BY <1>2, <1>3

\* A tick that goes on with the period it has read, and has read no invoice.
LEMMA TickGoesOn ==
  ASSUME IInv, NEW t \in Ticks, NEW v \in TickType, tick' = [tick EXCEPT ![t] = v],
         v.pc \in {"billing", "asking"}, v.seen = tick[t].seen, v.at = tick[t].at,
         tick[t].pc \in {"renewing"} \cup Renewal, ~GraceOver(tick[t].seen, tick[t].at),
         UNCHANGED <<now, sub, wallet, invoice, request, acts, faults>>
  PROVE  IInv'
<1>1. /\ tick' \in [Ticks -> TickType] /\ tick'[t] = v
      /\ \A s \in Ticks : s # t => tick'[s] = tick[s]
  BY TickIs DEF IInv
<1>2. ASSUME NEW s \in Ticks, tick'[s].pc \in {"renewing"} \cup Renewal
      PROVE  /\ tick'[s].seen.end \in Ends
             /\ tick'[s].seen.end <= tick'[s].at \/ GraceOver(tick'[s].seen, tick'[s].at)
             /\ tick'[s].pc \in Renewal => ~GraceOver(tick'[s].seen, tick'[s].at)
  <2>1. /\ tick'[s].seen = tick[s].seen /\ tick'[s].at = tick[s].at
        /\ tick[s].pc \in {"renewing"} \cup Renewal
        /\ s # t => tick'[s].pc = tick[s].pc
    <3>1. CASE s = t
      BY <1>1, <3>1
    <3>2. CASE s # t
      BY <1>1, <1>2, <3>2
    <3> QED
      BY <3>1, <3>2
  <2>2. /\ tick[s].seen.end \in Ends
        /\ tick[s].seen.end <= tick[s].at \/ GraceOver(tick[s].seen, tick[s].at)
        /\ tick[s].pc \in Renewal => ~GraceOver(tick[s].seen, tick[s].at)
    BY <2>1 DEF IInv, TicksRead
  <2> QED
    BY <1>1, <2>1, <2>2 DEF GraceOver
<1>3. TicksRead'
  BY <1>2 DEF TicksRead, GraceOver
<1>4. Collected'
  BY <1>1 DEF IInv, Collected
<1> QED
  BY <1>1, <1>3, <1>4 DEF IInv, Types

\* The total is that of a plan.
LEMMA ReadTotalKeeps ==
  ASSUME IInv, NEW t \in Ticks, ReadTotal(t)
  PROVE  IInv'
<1> DEFINE total == Price[sub.plan]
           v == [tick[t] EXCEPT !.pc = "billing", !.total = total]
<1>1. /\ tick' = [tick EXCEPT ![t] = v] /\ tick[t].pc = "renewing"
      /\ ~GraceOver(tick[t].seen, tick[t].at)
      /\ UNCHANGED <<now, sub, wallet, invoice, request, acts, faults>>
  BY DEF ReadTotal, Renewing
<1>2. total \in Nat /\ tick[t] \in TickType
  BY SubscriptionAssumption DEF IInv, Types, SubType
<1> HIDE DEF total
<1>3. v \in TickType /\ v.pc = "billing" /\ v.seen = tick[t].seen /\ v.at = tick[t].at
  BY <1>2 DEF TickType, Renewal
<1> HIDE DEF v
<1> QED
  BY <1>1, <1>3, TickGoesOn

\* So is the month asked for one of the calendar.
LEMMA AskNumberKeeps ==
  ASSUME IInv, NEW t \in Ticks, AskNumber(t)
  PROVE  IInv'
<1> DEFINE month == Calendar[now]
           v == [tick[t] EXCEPT !.pc = "asking", !.counter = month]
<1>1. /\ tick' = [tick EXCEPT ![t] = v] /\ tick[t].pc = "billing"
      /\ UNCHANGED <<now, sub, wallet, invoice, request, acts, faults>>
  BY DEF AskNumber
<1>2. ~GraceOver(tick[t].seen, tick[t].at) /\ tick[t].pc \in Renewal
  BY <1>1 DEF IInv, TicksRead, Renewal
<1>3. month \in Nat /\ tick[t] \in TickType
  BY SubscriptionAssumption DEF IInv, Types
<1> HIDE DEF month
<1>4. v \in TickType /\ v.pc = "asking" /\ v.seen = tick[t].seen /\ v.at = tick[t].at
  BY <1>3 DEF TickType, Renewal
<1> HIDE DEF v
<1> QED
  BY <1>1, <1>2, <1>4, TickGoesOn

\* What the transactions of a renewal write on the subscription.
LEMMA AdvanceIs ==
  ASSUME Types, TicksRead, NEW t \in Ticks, tick[t].pc \in Renewal,
         ~GraceOver(tick[t].seen, tick[t].at), Advance(t)
  PROVE  sub' \in SubType
<1>1. tick[t].seen.end + Month \in Ends
  BY NextEnd
<1>2. PICK end \in Ends :
        sub' = [sub EXCEPT !.status = "active", !.grace = Never, !.end = end]
  BY <1>1 DEF Advance
<1>3. Never \in 0..(MaxNow + Month + Grace) /\ "active" \in Statuses
  BY SubscriptionAssumption DEF Never, Statuses, Carrying
<1> QED
  BY <1>2, <1>3 DEF Types, SubType

LEMMA PastDueIs ==
  ASSUME Types, TicksRead, NEW t \in Ticks, tick[t].pc \in Renewal,
         PastDue(t)
  PROVE  sub' \in SubType
<1>1. tick[t].seen.end \in Ends
  BY DEF TicksRead
<1>2. tick[t].seen.end + Grace \in 0..(MaxNow + Month + Grace) /\ "past_due" \in Statuses
  BY <1>1, SubscriptionAssumption DEF Ends, Statuses, Carrying
<1>3. PICK grace \in 0..(MaxNow + Month + Grace) :
        sub' = [sub EXCEPT !.status = "past_due", !.grace = grace]
  BY <1>2 DEF PastDue
<1> QED
  BY <1>2, <1>3 DEF Types, SubType

\* A charge that covers what has not come in otherwise settles the invoice.
LEMMA ChargeSettles ==
  ASSUME Types, NEW t \in Ticks, NEW e \in Ends, NEW i \in InvoiceType, NEW amount \in Nat,
         i.payments <= i.total, i.total <= i.fees + amount + i.payments,
         Charge(t, e, i, amount)
  PROVE  /\ invoice' \in [Ends -> InvoiceType] /\ wallet' \in Nat
         /\ \A f \in Ends : f # e => invoice'[f] = invoice[f]
         /\ Sound(invoice'[e]) /\ invoice'[e].status = "paid"
         /\ invoice'[e].total = i.total /\ invoice'[e].paid = i.total
         /\ invoice'[e].fees = i.fees + amount /\ invoice'[e].payments = i.payments
         /\ invoice'[e].charged = i.charged \cup {tick[t].counter}
<1> DEFINE paid == i.total
           fees == i.fees + amount
           charged == i.charged \cup {tick[t].counter}
           v == [i EXCEPT !.status = "paid", !.paid = paid, !.fees = fees, !.charged = charged]
<1>1. invoice' = [invoice EXCEPT ![e] = v] /\ wallet >= amount /\ wallet' = wallet - amount
  BY DEF Charge
<1>2. /\ i.total \in Nat /\ i.paid \in Nat /\ i.payments \in Nat /\ i.fees \in Nat
      /\ paid \in Nat /\ fees \in Nat /\ "paid" \in InvoiceStatuses
      /\ charged \in SUBSET Nat
  BY DEF InvoiceType, InvoiceStatuses, Types, TickType
<1>3. i.total <= fees + i.payments
  BY <1>2
<1> HIDE DEF paid, fees, charged
<1>4. /\ v \in InvoiceType
      /\ v.status = "paid" /\ v.total = i.total /\ v.fees = fees
      /\ v.paid = paid /\ v.payments = i.payments /\ v.charged = charged
  BY <1>2 DEF InvoiceType
<1> HIDE DEF v
<1>5. invoice' \in [Ends -> InvoiceType] /\ invoice'[e] = v
      /\ \A f \in Ends : f # e => invoice'[f] = invoice[f]
  BY <1>1, <1>4, InvoiceIs
<1>6. paid = i.total /\ fees = i.fees + amount /\ charged = i.charged \cup {tick[t].counter}
  BY DEF paid, fees, charged
<1>7. wallet' \in Nat
  BY <1>1 DEF Types
<1> QED
  BY <1>2, <1>3, <1>4, <1>5, <1>6, <1>7 DEF Sound

\* A tick that ends without a word on the invoices.
LEMMA EndKeeps ==
  ASSUME IInv, NEW t \in Ticks, EndTick(t), sub' \in SubType,
         UNCHANGED <<now, wallet, invoice, request, acts, faults>>
  PROVE  IInv'
<1>1. \A e \in Ends : Sound(invoice'[e]) /\ invoice[e].paid \in Nat
  BY DEF IInv, Types, Collected, InvoiceType
<1>2. invoice' \in [Ends -> InvoiceType] /\ tick' \in [Ticks -> TickType]
      /\ \A s \in Ticks : tick'[s] = tick[s] \/ tick'[s].pc \in {"idle", "marking"}
  BY EndTickIs DEF IInv, Types
<1>3. TicksRead' /\ Collected'
  BY <1>1, <1>2, TicksKeep
<1> QED
  BY <1>2, <1>3 DEF IInv, Types

\* A step that charges nothing, and after which every tick is as it was or is not charging.
LEMMA FeesStay ==
  ASSUME IInv, NothingCharged,
         \A s \in Ticks : tick'[s] = tick[s] \/ tick'[s].pc # "charging",
         invoice' \in [Ends -> InvoiceType]
  PROVE  FeesOnce => FeesOnce'
<1> SUFFICES ASSUME FeesOnce PROVE FeesOnce'
  OBVIOUS
<1>1. ASSUME NEW e \in Ends, \A m, n \in invoice'[e].charged : m = n
      PROVE  invoice'[e].fees <= invoice'[e].paid
  <2>1. /\ invoice[e].paid \in Nat /\ invoice[e].fees \in Nat /\ invoice'[e].paid \in Nat
    BY DEF IInv, Types, InvoiceType
  <2>2. /\ invoice'[e].fees = invoice[e].fees /\ invoice'[e].paid >= invoice[e].paid
        /\ invoice'[e].charged = invoice[e].charged
    BY DEF NothingCharged
  <2>3. invoice[e].fees <= invoice[e].paid
    BY <1>1, <2>2 DEF FeesOnce
  <2> QED
    BY <2>1, <2>2, <2>3
<1>2. ASSUME NEW s \in Ticks, tick'[s].pc = "charging"
      PROVE  LET j == invoice'[tick'[s].seen.end] IN
             j.charged \subseteq {tick'[s].counter} => j.fees <= tick'[s].paid
  <2>1. tick'[s] = tick[s] /\ tick[s].seen.end \in Ends
    BY <1>2 DEF IInv, TicksRead, Renewal
  <2> QED
    BY <1>2, <2>1 DEF FeesOnce, NothingCharged
<1>3. ASSUME NEW r \in Ticks, NEW s \in Ticks, r # s,
             tick'[r].pc = "charging", tick'[s].pc = "charging"
      PROVE  tick'[r].counter # tick'[s].counter
  BY <1>3 DEF FeesOnce
<1> QED
  BY <1>1, <1>2, <1>3 DEF FeesOnce

\* A tick that ends with what it has written on one invoice, which others, if they are charging
\* it too, charge under another month's counter.
LEMMA FeesCharged ==
  ASSUME IInv, FeesOnce, NEW t \in Ticks, EndTick(t), NEW e \in Ends,
         \A f \in Ends : f # e => invoice'[f] = invoice[f],
         (\A m, n \in invoice'[e].charged : m = n) => invoice'[e].fees <= invoice'[e].paid,
         \A s \in Ticks : s # t /\ tick[s].pc = "charging" /\ tick[s].seen.end = e
                           => ~(invoice'[e].charged \subseteq {tick[s].counter})
  PROVE  FeesOnce'
<1>1. tick'[t].pc = "idle" /\ \A s \in Ticks : s # t => tick'[s] = tick[s]
  BY EndTickIs DEF IInv
<1>2. ASSUME NEW f \in Ends, \A m, n \in invoice'[f].charged : m = n
      PROVE  invoice'[f].fees <= invoice'[f].paid
  <2>1. CASE f = e
    BY <1>2, <2>1
  <2>2. CASE f # e
    <3>1. invoice'[f] = invoice[f]
      BY <2>2
    <3> QED
      BY <1>2, <3>1 DEF FeesOnce
  <2> QED
    BY <2>1, <2>2
<1>3. ASSUME NEW s \in Ticks, tick'[s].pc = "charging"
      PROVE  LET j == invoice'[tick'[s].seen.end] IN
             j.charged \subseteq {tick'[s].counter} => j.fees <= tick'[s].paid
  <2>1. s # t /\ tick'[s] = tick[s] /\ tick[s].seen.end \in Ends /\ tick[s].pc = "charging"
    BY <1>1, <1>3 DEF IInv, TicksRead, Renewal
  <2>2. CASE tick[s].seen.end = e
    BY <2>1, <2>2
  <2>3. CASE tick[s].seen.end # e
    <3>1. invoice'[tick[s].seen.end] = invoice[tick[s].seen.end]
      BY <2>1, <2>3
    <3> QED
      BY <2>1, <3>1 DEF FeesOnce
  <2> QED
    BY <2>2, <2>3
<1>4. ASSUME NEW r \in Ticks, NEW s \in Ticks, r # s,
             tick'[r].pc = "charging", tick'[s].pc = "charging"
      PROVE  tick'[r].counter # tick'[s].counter
  BY <1>1, <1>4 DEF FeesOnce
<1> QED
  BY <1>2, <1>3, <1>4 DEF FeesOnce

\* Invoices no step touches.
LEMMA Untouched ==
  ASSUME IInv, UNCHANGED invoice
  PROVE  NothingCharged /\ invoice' \in [Ends -> InvoiceType]
  BY DEF IInv, Types, InvoiceType, NothingCharged

\* The grace is over.
LEMMA LapseKeeps ==
  ASSUME IInv, NEW t \in Ticks, Lapse(t)
  PROVE  IInv'
<1>1. sub' \in SubType
  BY DEF Lapse, IInv, Types, SubType, Statuses
<1> QED
  BY <1>1, EndKeeps DEF Lapse

\* The period was the last.
LEMMA CloseKeeps ==
  ASSUME IInv, NEW t \in Ticks, Close(t)
  PROVE  IInv'
<1>1. sub' \in SubType
  BY DEF Close, IInv, Types, SubType, Statuses
<1> QED
  BY <1>1, EndKeeps DEF Close

\* The period costs nothing.
LEMMA RenewFreeKeeps ==
  ASSUME IInv, NEW t \in Ticks, RenewFree(t)
  PROVE  IInv'
<1>1. tick[t].pc \in Renewal /\ ~GraceOver(tick[t].seen, tick[t].at)
  BY DEF RenewFree, IInv, TicksRead, Renewal
<1>2. sub' \in SubType
  BY <1>1, AdvanceIs DEF RenewFree, IInv
<1> QED
  BY <1>2, EndKeeps DEF RenewFree

\* A new invoice is charged in the transaction that writes it, or stays open.
LEMMA BillPeriodKeeps ==
  ASSUME IInv, NEW t \in Ticks, BillPeriod(t)
  PROVE  /\ IInv'
         /\ FeesOnce => FeesOnce'
         /\ sub'.status = "active" => Opened(t)
<1> DEFINE e == tick[t].seen.end
           total == tick[t].total
           i == [NoInvoice EXCEPT !.status = "open", !.total = total]
<1>1. /\ tick[t].pc \in Renewal
      /\ invoice[e].status = "none" /\ EndTick(t)
      /\ UNCHANGED <<now, request, acts, faults>>
  BY DEF BillPeriod, Granted, Renewal
<1>2. e \in Ends /\ total \in Nat /\ ~GraceOver(tick[t].seen, tick[t].at)
  BY <1>1 DEF IInv, TicksRead, Types, TickType
<1>3. \/ Charge(t, e, i, i.total)
      \/ invoice' = [invoice EXCEPT ![e] = i] /\ PastDue(t) /\ UNCHANGED wallet
  BY DEF BillPeriod
<1> HIDE DEF e, total
<1>4. /\ i \in InvoiceType /\ i.status = "open" /\ i.total = total
      /\ i.paid = 0 /\ i.fees = 0 /\ i.payments = 0 /\ i.charged = {}
  BY <1>2 DEF NoInvoice, InvoiceType, InvoiceStatuses
<1> HIDE DEF i
<1>5. /\ invoice' \in [Ends -> InvoiceType] /\ Sound(invoice'[e])
      /\ \A f \in Ends : f # e => invoice'[f] = invoice[f]
      /\ wallet' \in Nat /\ sub' \in SubType
      /\ invoice'[e].fees <= invoice'[e].paid
      /\ sub'.status = "active" => invoice'[e].status = "paid"
  <2>1. CASE Charge(t, e, i, i.total)
    <3>1. i.payments <= i.total /\ i.total <= i.fees + i.total + i.payments /\ i.total \in Nat
      BY <1>2, <1>4
    <3>2. sub' \in SubType
      BY <1>1, <1>2, <2>1, AdvanceIs DEF Charge, IInv
    <3> QED
      BY <1>2, <1>4, <2>1, <3>1, <3>2, ChargeSettles DEF IInv
  <2>2. CASE invoice' = [invoice EXCEPT ![e] = i] /\ PastDue(t) /\ UNCHANGED wallet
    <3>1. Sound(i)
      BY <1>2, <1>4 DEF Sound
    <3>2. sub' \in SubType
      BY <1>1, <2>2, PastDueIs DEF IInv
    <3>3. wallet' \in Nat
      BY <2>2 DEF IInv, Types
    <3>4. sub'.status # "active"
      BY <2>2 DEF PastDue, IInv, Types, SubType
    <3>5. invoice' \in [Ends -> InvoiceType] /\ invoice'[e] = i
          /\ \A f \in Ends : f # e => invoice'[f] = invoice[f]
      BY <1>2, <1>4, <2>2, InvoiceIs DEF IInv
    <3>6. i.fees <= i.paid
      BY <1>4
    <3> QED
      BY <3>1, <3>2, <3>3, <3>4, <3>5, <3>6
  <2> QED
    BY <1>3, <2>1, <2>2
<1>6. \A f \in Ends : f # e => Sound(invoice'[f]) /\ invoice[f].paid \in Nat
  BY <1>5 DEF IInv, Types, Collected, InvoiceType
<1>7. tick' \in [Ticks -> TickType]
      /\ \A s \in Ticks : tick'[s] = tick[s] \/ tick'[s].pc \in {"idle", "marking"}
  BY <1>1, EndTickIs DEF IInv
<1>8. \A f \in Ends :
         /\ Sound(invoice'[f])
         /\ invoice[f].status # "none" =>
              /\ invoice'[f].status # "none" /\ invoice'[f].total = invoice[f].total
              /\ invoice'[f].paid >= invoice[f].paid
  BY <1>1, <1>5, <1>6 DEF e
<1>9. TicksRead' /\ Collected'
  BY <1>5, <1>7, <1>8, TicksKeep
<1>10. Types'
  BY <1>1, <1>5, <1>7 DEF IInv, Types
<1>11. IInv'
  BY <1>9, <1>10 DEF IInv
<1>13. FeesOnce => FeesOnce'
  <2>1. \A s \in Ticks : tick[s].pc = "charging" => tick[s].seen.end # e
    BY <1>1 DEF IInv, Collected
  <2> QED
    BY <1>1, <1>2, <1>5, <1>11, <2>1, FeesCharged DEF e
<1>12. sub'.status = "active" => Opened(t)
  <2>1. invoice'[e] \in InvoiceType
    BY <1>2, <1>5
  <2> DEFINE j == invoice'[e]
  <2>2. j.total \in Nat /\ j.paid \in Nat /\ j.fees \in Nat /\ j.payments \in Nat
    BY <2>1 DEF InvoiceType
  <2>3. sub'.status = "active" => j.status = "paid" /\ j.paid = j.total
    BY <1>5 DEF Sound
  <2>4. j.paid <= j.fees + j.payments
    BY <1>5 DEF Sound
  <2> HIDE DEF j
  <2>5. sub'.status = "active" => j.status = "paid" /\ j.fees + j.payments >= j.total
    BY <2>2, <2>3, <2>4
  <2> QED
    BY <2>5 DEF Opened, j, e
<1> QED
  BY <1>11, <1>12, <1>13

\* A tick that reads an unsettled invoice remembers what it is short of.
LEMMA ReadInvoiceKeeps ==
  ASSUME IInv, NEW t \in Ticks, ReadInvoice(t)
  PROVE  /\ IInv'
         /\ FeesOnce => FeesOnce'
         /\ sub' # sub /\ sub'.status = "active" => Opened(t)
<1> DEFINE e == tick[t].seen.end
           i == invoice[e]
<1>1. /\ tick[t].pc \in Renewal /\ tick[t].pc = "asking" /\ i.status # "none"
      /\ \A s \in Ticks : tick[s].pc = "charging" => tick[s].counter # tick[t].counter
      /\ UNCHANGED <<now, wallet, request, acts, faults>>
  BY DEF ReadInvoice, Granted, Renewal
<1>2. /\ e \in Ends /\ i \in InvoiceType /\ Sound(i)
      /\ ~GraceOver(tick[t].seen, tick[t].at)
  BY <1>1 DEF IInv, TicksRead, Types, Collected
<1>2a. /\ i.total \in Nat /\ i.paid \in Nat /\ i.fees \in Nat /\ i.payments \in Nat
       /\ i.paid <= i.total /\ i.payments <= i.paid /\ i.paid <= i.fees + i.payments
       /\ i.status = "paid" => i.paid = i.total
  BY <1>2 DEF InvoiceType, Sound
<1>3. CASE /\ Settled(i) /\ Advance(t) /\ EndTick(t)
           /\ invoice' = [invoice EXCEPT ![e] = [i EXCEPT !.status = "paid", !.paid = i.total]]
  <2>1. sub' \in SubType
    BY <1>1, <1>2, <1>3, AdvanceIs DEF IInv
  <2>2. i.paid = i.total
    BY <1>2a, <1>3 DEF Settled
  <2> DEFINE total == i.total
             v == [i EXCEPT !.status = "paid", !.paid = total]
  <2>3. invoice' = [invoice EXCEPT ![e] = v] /\ total \in Nat
    BY <1>2a, <1>3
  <2>4. i \in InvoiceType
    BY <1>2
  <2>5. total = i.total
    OBVIOUS
  <2> HIDE DEF i, total
  <2>6. /\ v \in InvoiceType /\ v.status = "paid" /\ v.total = i.total /\ v.paid = total
        /\ v.fees = i.fees /\ v.payments = i.payments /\ v.charged = i.charged
    BY <2>3, <2>4 DEF InvoiceType, InvoiceStatuses
  <2> HIDE DEF v
  <2>7. /\ invoice' \in [Ends -> InvoiceType] /\ invoice'[e] = v
        /\ \A f \in Ends : f # e => invoice'[f] = invoice[f]
    BY <1>2, <2>3, <2>6, InvoiceIs DEF IInv
  <2>8. Sound(invoice'[e])
    BY <1>2a, <2>2, <2>5, <2>6, <2>7 DEF Sound
  <2>9. \A f \in Ends :
           /\ Sound(invoice'[f]) /\ invoice[f].paid \in Nat
           /\ invoice[f].status # "none" => invoice'[f].status # "none"
           /\ invoice'[f].total = invoice[f].total /\ invoice'[f].paid = invoice[f].paid
           /\ invoice'[f].fees = invoice[f].fees /\ invoice'[f].charged = invoice[f].charged
    <3>1. ASSUME NEW f \in Ends, f # e
          PROVE  Sound(invoice'[f]) /\ invoice'[f] = invoice[f] /\ invoice[f].paid \in Nat
      BY <2>7, <3>1 DEF IInv, Types, Collected, InvoiceType
    <3>2. /\ Sound(invoice'[e]) /\ i.paid \in Nat /\ invoice'[e].status = "paid"
          /\ invoice'[e].total = i.total /\ invoice'[e].paid = i.paid
          /\ invoice'[e].fees = i.fees /\ invoice'[e].charged = i.charged
      BY <1>2a, <2>2, <2>5, <2>6, <2>7, <2>8
    <3> QED
      BY <3>1, <3>2 DEF i
  <2>10. /\ tick' \in [Ticks -> TickType]
         /\ \A s \in Ticks : tick'[s] = tick[s] \/ tick'[s].pc \in {"idle", "marking"}
    BY <1>3, EndTickIs DEF IInv
  <2>11. IInv'
    <3>1. \A f \in Ends : invoice'[f].paid >= invoice[f].paid
      BY <2>9
    <3>2. TicksRead' /\ Collected'
      BY <2>7, <2>9, <2>10, <3>1, TicksKeep
    <3> QED
      BY <1>1, <2>1, <2>7, <2>10, <3>2 DEF IInv, Types
  <2>12. NothingCharged
    BY <2>9 DEF NothingCharged
  <2>13. Opened(t)
    <3>1. i.total <= i.fees + i.payments
      BY <1>2a, <2>2
    <3> QED
      BY <1>2a, <2>6, <2>7, <3>1 DEF Opened, e
  <2>14. FeesOnce => FeesOnce'
    <3>1. \A s \in Ticks : tick'[s] = tick[s] \/ tick'[s].pc # "charging"
      BY <2>10
    <3> QED
      BY <2>7, <2>12, <3>1, FeesStay
  <2> QED
    BY <2>11, <2>13, <2>14
<1>5. CASE EndTick(t) /\ UNCHANGED <<sub, invoice>>
  <2>1. IInv'
    BY <1>1, <1>5, EndKeeps DEF IInv, Types
  <2>2. \A s \in Ticks : tick'[s] = tick[s] \/ tick'[s].pc # "charging"
    BY <1>5, EndTickIs DEF IInv
  <2> QED
    BY <1>5, <2>1, <2>2, Untouched, FeesStay
<1>4. CASE /\ UNCHANGED <<sub, invoice>>
           /\ tick' = [tick EXCEPT ![t] = [tick[t] EXCEPT !.pc = "charging", !.total = i.total,
                                                          !.paid = i.paid]]
  <2> DEFINE total == i.total
             paid == i.paid
             v == [tick[t] EXCEPT !.pc = "charging", !.total = total, !.paid = paid]
  <2>1. tick' = [tick EXCEPT ![t] = v] /\ UNCHANGED sub
    BY <1>4
  <2>2. tick[t] \in TickType /\ total \in Nat /\ paid \in Nat
    BY <1>2 DEF IInv, Types, InvoiceType
  <2>3. total = i.total /\ paid = i.paid
    OBVIOUS
  <2> HIDE DEF total, paid
  <2>4. /\ v \in TickType /\ v.pc = "charging" /\ v.seen = tick[t].seen /\ v.at = tick[t].at
        /\ v.total = total /\ v.paid = paid /\ v.counter = tick[t].counter
    BY <2>2 DEF TickType, Renewal
  <2> HIDE DEF v
  <2>5. /\ tick' \in [Ticks -> TickType] /\ tick'[t] = v
        /\ \A s \in Ticks : s # t => tick'[s] = tick[s]
    BY <2>1, <2>4, TickIs DEF IInv
  <2>6. TicksRead'
    <3>1. ASSUME NEW s \in Ticks, tick'[s].pc \in {"renewing"} \cup Renewal
          PROVE  /\ tick[s].pc \in {"renewing"} \cup Renewal
                 /\ tick'[s].seen = tick[s].seen /\ tick'[s].at = tick[s].at
                 /\ tick'[s].pc \in Renewal => tick[s].pc \in Renewal
      BY <1>1, <2>4, <2>5, <3>1
    <3> QED
      BY <3>1 DEF IInv, TicksRead, GraceOver
  <2>7. Collected'
    <3>1. \A f \in Ends : Sound(invoice'[f])
      BY <1>4 DEF IInv, Collected
    <3>2. ASSUME NEW s \in Ticks, tick'[s].pc = "charging"
          PROVE  /\ invoice[tick'[s].seen.end].status # "none"
                 /\ tick'[s].total = invoice[tick'[s].seen.end].total
                 /\ tick'[s].paid <= invoice[tick'[s].seen.end].paid
      <4>1. CASE s = t
        BY <1>1, <2>2, <2>3, <2>4, <2>5, <4>1
      <4>2. CASE s # t
        BY <2>5, <3>2, <4>2 DEF IInv, Collected
      <4> QED
        BY <4>1, <4>2
    <3> QED
      BY <1>4, <3>1, <3>2 DEF Collected
  <2>8. FeesOnce => FeesOnce'
    <3> SUFFICES ASSUME FeesOnce PROVE FeesOnce'
      OBVIOUS
    <3>1. ASSUME NEW s \in Ticks, tick'[s].pc = "charging"
          PROVE  LET j == invoice[tick'[s].seen.end] IN
                 j.charged \subseteq {tick'[s].counter} => j.fees <= tick'[s].paid
      <4>1. CASE s = t
        <5>1. tick'[s].seen.end = e /\ tick'[s].paid = i.paid
          BY <2>3, <2>4, <2>5, <4>1
        <5>2. (\A m, n \in i.charged : m = n) => i.fees <= i.paid
          BY <1>2 DEF FeesOnce
        <5>3. i.charged \subseteq {tick'[s].counter} => i.fees <= i.paid
          BY <5>2
        <5> QED
          BY <5>1, <5>3
      <4>2. CASE s # t
        BY <2>5, <3>1, <4>2 DEF FeesOnce
      <4> QED
        BY <4>1, <4>2
    <3>2. ASSUME NEW r \in Ticks, NEW s \in Ticks, r # s,
                 tick'[r].pc = "charging", tick'[s].pc = "charging"
          PROVE  tick'[r].counter # tick'[s].counter
      <4>1. CASE r # t /\ s # t
        BY <2>5, <3>2, <4>1 DEF FeesOnce
      <4>2. CASE r = t
        BY <1>1, <2>4, <2>5, <3>2, <4>2
      <4>3. CASE s = t
        BY <1>1, <2>4, <2>5, <3>2, <4>3
      <4> QED
        BY <4>1, <4>2, <4>3
    <3>3. \A f \in Ends : (\A m, n \in invoice'[f].charged : m = n) => invoice'[f].fees <= invoice'[f].paid
      BY <1>4 DEF FeesOnce
    <3> QED
      BY <1>4, <3>1, <3>2, <3>3 DEF FeesOnce
  <2>9. IInv'
    BY <1>1, <1>4, <2>5, <2>6, <2>7 DEF IInv, Types
  <2> QED
    BY <2>1, <2>8, <2>9
<1>6. \/ /\ Settled(i) /\ Advance(t) /\ EndTick(t)
         /\ invoice' = [invoice EXCEPT ![e] = [i EXCEPT !.status = "paid", !.paid = i.total]]
      \/ EndTick(t) /\ UNCHANGED <<sub, invoice>>
      \/ /\ UNCHANGED <<sub, invoice>>
         /\ tick' = [tick EXCEPT ![t] = [tick[t] EXCEPT !.pc = "charging", !.total = i.total,
                                                        !.paid = i.paid]]
  BY DEF ReadInvoice
<1> QED
  BY <1>3, <1>4, <1>5, <1>6

\* The charge writes over whatever was paid since the read, but never takes less.
LEMMA ChargeOutstandingKeeps ==
  ASSUME IInv, NEW t \in Ticks, ChargeOutstanding(t)
  PROVE  /\ IInv'
         /\ FeesOnce => FeesOnce'
         /\ sub'.status = "active" => Opened(t)
<1> DEFINE e == tick[t].seen.end
           i == invoice[e]
           outstanding == tick[t].total - tick[t].paid
<1>1. /\ tick[t].pc = "charging" /\ EndTick(t)
      /\ UNCHANGED <<now, request, acts, faults>>
  BY DEF ChargeOutstanding
<1>1a. tick[t].pc \in Renewal
  BY <1>1 DEF Renewal
<1>2. e \in Ends /\ i \in InvoiceType /\ Sound(i) /\ ~GraceOver(tick[t].seen, tick[t].at)
  BY <1>1 DEF IInv, TicksRead, Types, Collected, Renewal
<1>3. /\ tick[t].total = i.total /\ tick[t].paid <= i.paid
      /\ tick[t].total \in Nat /\ tick[t].paid \in Nat
  BY <1>1, <1>2 DEF IInv, Types, Collected, TickType
<1>4. /\ i.total \in Nat /\ i.paid \in Nat /\ i.payments \in Nat /\ i.fees \in Nat
      /\ i.paid <= i.total /\ i.payments <= i.paid /\ i.paid <= i.fees + i.payments
  BY <1>2 DEF InvoiceType, Sound
<1>5. outstanding \in Nat /\ i.payments <= i.total /\ i.total <= i.fees + outstanding + i.payments
  BY <1>3, <1>4
<1>6. \/ Charge(t, e, i, outstanding)
      \/ PastDue(t) /\ UNCHANGED <<wallet, invoice>>
  BY DEF ChargeOutstanding
<1>7. CASE PastDue(t) /\ UNCHANGED <<wallet, invoice>>
  <2>1. sub' \in SubType
    BY <1>1a, <1>7, PastDueIs DEF IInv
  <2>2. sub'.status # "active"
    BY <1>7 DEF PastDue, IInv, Types, SubType
  <2>3. IInv'
    BY <1>1, <1>7, <2>1, EndKeeps
  <2>4. \A s \in Ticks : tick'[s] = tick[s] \/ tick'[s].pc # "charging"
    BY <1>1, EndTickIs DEF IInv
  <2> QED
    BY <1>7, <2>2, <2>3, <2>4, Untouched, FeesStay
<1>8. CASE Charge(t, e, i, outstanding)
  <2>1. sub' \in SubType
    BY <1>1a, <1>2, <1>8, AdvanceIs DEF Charge, IInv
  <2> HIDE DEF outstanding
  <2>2. /\ invoice' \in [Ends -> InvoiceType] /\ wallet' \in Nat
        /\ \A f \in Ends : f # e => invoice'[f] = invoice[f]
        /\ Sound(invoice'[e]) /\ invoice'[e].status = "paid"
        /\ invoice'[e].total = i.total /\ invoice'[e].paid = i.total
        /\ invoice'[e].fees = i.fees + outstanding /\ invoice'[e].payments = i.payments
        /\ invoice'[e].charged = i.charged \cup {tick[t].counter}
    BY <1>2, <1>5, <1>8, ChargeSettles DEF IInv
  <2>3. \A f \in Ends : f # e => Sound(invoice'[f]) /\ invoice[f].paid \in Nat
    BY <2>2 DEF IInv, Types, Collected, InvoiceType
  <2>4. tick' \in [Ticks -> TickType]
        /\ \A s \in Ticks : tick'[s] = tick[s] \/ tick'[s].pc \in {"idle", "marking"}
    BY <1>1, EndTickIs DEF IInv
  <2>5. \A f \in Ends :
           /\ Sound(invoice'[f])
           /\ invoice[f].status # "none" =>
                /\ invoice'[f].status # "none" /\ invoice'[f].total = invoice[f].total
                /\ invoice'[f].paid >= invoice[f].paid
    <3>1. /\ Sound(invoice'[e])
          /\ invoice'[e].status # "none" /\ invoice'[e].total = invoice[e].total
          /\ invoice'[e].paid >= invoice[e].paid
      BY <1>4, <2>2 DEF i
    <3>2. ASSUME NEW f \in Ends, f # e
          PROVE  Sound(invoice'[f]) /\ invoice'[f] = invoice[f] /\ invoice[f].paid \in Nat
      BY ONLY <2>2, <2>3, <3>2
    <3> QED
      BY ONLY <3>1, <3>2
  <2>6. TicksRead' /\ Collected'
    BY <2>2, <2>4, <2>5, TicksKeep
  <2>7. IInv'
    BY <1>1, <2>1, <2>2, <2>4, <2>6 DEF IInv, Types
  <2>8. FeesOnce => FeesOnce'
    <3> SUFFICES ASSUME FeesOnce PROVE FeesOnce'
      OBVIOUS
    <3>1. ASSUME \A m, n \in invoice'[e].charged : m = n
          PROVE  invoice'[e].fees <= invoice'[e].paid
      <4>1. i.charged \subseteq {tick[t].counter}
        BY <2>2, <3>1
      <4>2. i.fees <= tick[t].paid
        BY <1>1, <4>1 DEF FeesOnce
      <4>3. i.fees + outstanding <= i.total
        BY <1>3, <1>4, <4>2 DEF outstanding
      <4> QED
        BY <2>2, <4>3
    <3>2. ASSUME NEW s \in Ticks, s # t, tick[s].pc = "charging"
          PROVE  ~(invoice'[e].charged \subseteq {tick[s].counter})
      <4>1. tick[s].counter # tick[t].counter
        BY <1>1, <3>2 DEF FeesOnce
      <4> QED
        BY <2>2, <4>1
    <3> QED
      BY <1>1, <1>2, <2>2, <3>1, <3>2, FeesCharged
  <2>9. Opened(t)
    BY <1>4, <1>5, <2>2 DEF Opened
  <2> QED
    BY <2>7, <2>8, <2>9
<1> QED
  BY <1>6, <1>7, <1>8

\* A death forgets what was read.
LEMMA DieKeeps ==
  ASSUME IInv, Die
  PROVE  IInv'
<1>1. /\ UNCHANGED <<now, sub, wallet, invoice, acts>>
      /\ tick' = [t \in Ticks |-> Idle] /\ request' = [r \in Requests |-> NoRequest]
  BY DEF Die
<1>2. tick' \in [Ticks -> TickType] /\ \A s \in Ticks : tick'[s].pc = "idle"
  BY <1>1, IdleIs
<1>3. \A e \in Ends : Sound(invoice'[e]) /\ invoice[e].paid \in Nat
  BY <1>1 DEF IInv, Types, Collected, InvoiceType
<1>4. invoice' \in [Ends -> InvoiceType]
  BY <1>1 DEF IInv, Types
<1>5. TicksRead' /\ Collected'
  BY <1>2 , <1>3, <1>4, <1>1, TicksKeep
<1>6. /\ request' \in [Requests -> RequestType] /\ faults' \in 0..MaxFaults
      /\ \A r \in Requests : request'[r].pc = "idle"
  BY <1>1, SubscriptionAssumption, NoRequestIs DEF Die, IInv, Types
<1> QED
  BY <1>1, <1>2, <1>4, <1>5, <1>6 DEF IInv, Types

-----------------------------------------------------------------------------
(* Type correctness.                                                        *)

LEMMA InitHolds == Init => IInv /\ FeesOnce
<1> SUFFICES ASSUME Init PROVE IInv /\ FeesOnce
  OBVIOUS
<1>1. tick \in [Ticks -> TickType] /\ \A t \in Ticks : tick[t].pc = "idle"
  BY IdleIs DEF Init
<1>2. NoInvoice \in InvoiceType /\ Sound(NoInvoice) /\ NoInvoice.fees <= NoInvoice.paid
  BY DEF NoInvoice, InvoiceType, InvoiceStatuses, Sound
<1>3. invoice \in [Ends -> InvoiceType]
      /\ \A e \in Ends : Sound(invoice[e]) /\ invoice[e].fees <= invoice[e].paid
  BY <1>2 DEF Init
<1>4. sub \in SubType
  <2>1. PICK s \in {"none", "active"}, p \in Plans : sub = Subscribed(s, p, Month)
    BY DEF Init
  <2>2. Month \in Ends /\ Never \in 0..(MaxNow + Month + Grace) /\ s \in Statuses
    BY SubscriptionAssumption DEF Ends, Never, Statuses, Carrying
  <2> QED
    BY <2>1, <2>2 DEF Subscribed, SubType
<1>5. request \in [Requests -> RequestType] /\ \A r \in Requests : request[r].pc = "idle"
  BY NoRequestIs DEF Init
<1>6. Types
  BY <1>1, <1>3, <1>4, <1>5, SubscriptionAssumption DEF Init, Types
<1> QED
  BY <1>1, <1>3, <1>6 DEF IInv, TicksRead, Collected, FeesOnce, Renewal

\* A step by any party keeps the inductive invariant.
LEMMA NextKeeps == IInv /\ [Next]_vars => IInv'
<1> SUFFICES ASSUME IInv, [Next]_vars PROVE IInv'
  OBVIOUS
<1>1. ASSUME NEW r \in Requests, NEW p \in Plans, NEW source \in {"purchase", "admin"},
             DecidePlan(r, p, source)
      PROVE  IInv'
  BY <1>1, DecidePlanKeeps
<1>2. ASSUME NEW r \in Requests, RequestStep(r) PROVE IInv'
  BY <1>2, LockPlanKeeps, WritePlanKeeps, ReactivateKeeps DEF RequestStep
<1>3. ASSUME NEW b \in BOOLEAN, Cancel(b) \/ SetAutoRenew(b) PROVE IInv'
  BY <1>3, CancelKeeps, SetAutoRenewKeeps
<1>4. ASSUME NEW r \in Requests, ReadReactivated(r) PROVE IInv'
  BY <1>4, ReadReactivatedKeeps
<1>5. ASSUME NEW a \in Amounts, TopUp(a) PROVE IInv'
  BY <1>5, TopUpKeeps
<1>6. ASSUME NEW e \in Ends, NEW a \in Amounts, PayInvoice(e, a) PROVE IInv'
  BY <1>6, PayInvoiceKeeps
<1>7. ASSUME NEW e \in Ends, VoidInvoice(e) PROVE IInv'
  BY <1>7, VoidInvoiceKeeps
<1>8. ASSUME NEW t \in Ticks, TickStep(t) PROVE IInv'
  <2>1. ASSUME BeginTick(t) PROVE IInv'
    BY <2>1, BeginTickKeeps
  <2>2. ASSUME NEW e \in Ends, MarkOverdue(t, e) PROVE IInv'
    BY <2>2, MarkOverdueKeeps
  <2>3. ASSUME ReadSubscription(t) PROVE IInv'
    BY <2>3, ReadSubscriptionKeeps
  <2>4. ASSUME Lapse(t) PROVE IInv'
    BY <2>4, LapseKeeps
  <2>5. ASSUME Close(t) PROVE IInv'
    BY <2>5, CloseKeeps
  <2>6. ASSUME RenewFree(t) PROVE IInv'
    BY <2>6, RenewFreeKeeps
  <2>7. ASSUME BillPeriod(t) PROVE IInv'
    BY <2>7, BillPeriodKeeps
  <2>8. ASSUME ReadInvoice(t) PROVE IInv'
    BY <2>8, ReadInvoiceKeeps
  <2>9. ASSUME ChargeOutstanding(t) PROVE IInv'
    BY <2>9, ChargeOutstandingKeeps
  <2>10. ASSUME ReadTotal(t) \/ AskNumber(t) PROVE IInv'
    BY <2>10, ReadTotalKeeps, AskNumberKeeps
  <2> QED
    BY <1>8, <2>1, <2>2, <2>3, <2>4, <2>5, <2>6, <2>7, <2>8, <2>9, <2>10 DEF TickStep
<1>9. ASSUME Elapse PROVE IInv'
  BY <1>9, ElapseKeeps
<1>10. ASSUME Die PROVE IInv'
  BY <1>10, DieKeeps
<1>11. ASSUME UNCHANGED vars PROVE IInv'
  BY <1>11, LeftAlone DEF vars, IInv, Types
<1> QED
  BY <1>1, <1>2, <1>3, <1>4, <1>5, <1>6, <1>7, <1>8, <1>9, <1>10, <1>11 DEF Next

\* The inductive invariant holds in every reachable state, whatever ticks run together.
THEOREM Invariance == Spec => []IInv
<1>1. Init => IInv
  BY InitHolds
<1> QED
  BY <1>1, NextKeeps, PTL DEF Spec

\* Every row has its type, and no invoice is written as paid beyond its total.
THEOREM TypeCorrect == Spec => []TypeOK
<1>1. IInv => TypeOK
  <2> SUFFICES ASSUME IInv PROVE TypeOK
    OBVIOUS
  <2>1. ASSUME NEW e \in Ends
        PROVE  /\ DOMAIN invoice[e] = DOMAIN NoInvoice
               /\ invoice[e].status \in InvoiceStatuses
               /\ invoice[e].paid \in 0..invoice[e].total
    BY DEF IInv, Types, Collected, Sound, InvoiceType, NoInvoice
  <2>2. ASSUME NEW t \in Ticks
        PROVE  /\ tick[t].pc \in {"idle", "marking", "renewing", "billing", "asking", "charging"}
               /\ tick[t].rows \subseteq Ends
    BY DEF IInv, Types, TickType, Renewal
  <2> QED
    BY <2>1, <2>2 DEF IInv, Types, TypeOK, SubType
<1> QED
  BY <1>1, Invariance, PTL

-----------------------------------------------------------------------------
(* What the wallet pays.                                                    *)

\* Whatever tick charges holds its month's counter, so its charge is of what is outstanding but
\* for what ticks of other months charge.
LEMMA NextKeepsFees ==
  ASSUME IInv, FeesOnce, [Next]_vars
  PROVE  FeesOnce'
<1>1. ASSUME UNCHANGED <<invoice, tick>> PROVE FeesOnce'
  BY <1>1 DEF FeesOnce
<1>2. ASSUME UNCHANGED invoice, \A s \in Ticks : tick'[s] = tick[s] \/ tick'[s].pc # "charging"
      PROVE  FeesOnce'
  BY <1>2, Untouched, FeesStay
<1>3. ASSUME NEW e \in Ends, NEW a \in Amounts, PayInvoice(e, a) PROVE FeesOnce'
  <2>1. UNCHANGED tick
    BY <1>3 DEF PayInvoice
  <2>2. NothingCharged /\ invoice' \in [Ends -> InvoiceType]
    BY <1>3, PayInvoiceKeeps DEF IInv, Types
  <2> QED
    BY <2>1, <2>2, FeesStay
<1>4. ASSUME NEW e \in Ends, VoidInvoice(e) PROVE FeesOnce'
  <2>1. UNCHANGED tick
    BY <1>4 DEF VoidInvoice
  <2>2. NothingCharged /\ invoice' \in [Ends -> InvoiceType]
    BY <1>4, VoidInvoiceKeeps DEF IInv, Types
  <2> QED
    BY <2>1, <2>2, FeesStay
<1>5. ASSUME NEW t \in Ticks, TickStep(t) PROVE FeesOnce'
  <2>1. ASSUME BeginTick(t) PROVE FeesOnce'
    BY <1>2, <2>1 DEF BeginTick, IInv, Types, TickType, Idle
  <2>2. ASSUME NEW e \in Ends, MarkOverdue(t, e) PROVE FeesOnce'
    <3>1. \A s \in Ticks : tick'[s] = tick[s] \/ tick'[s].pc # "charging"
      BY <2>2 DEF MarkOverdue, IInv, Types, TickType
    <3>2. NothingCharged /\ invoice' \in [Ends -> InvoiceType]
      BY <2>2, MarkOverdueKeeps DEF IInv, Types
    <3> QED
      BY <3>1, <3>2, FeesStay
  <2>3. ASSUME ReadSubscription(t) PROVE FeesOnce'
    <3>1. \A s \in Ticks : tick'[s] = tick[s] \/ tick'[s].pc # "charging"
      BY <2>3, IdleIs DEF ReadSubscription, IInv, Types, TickType
    <3> QED
      BY <1>2, <2>3, <3>1 DEF ReadSubscription
  <2>4. ASSUME ReadTotal(t) \/ AskNumber(t) PROVE FeesOnce'
    <3>1. \A s \in Ticks : tick'[s] = tick[s] \/ tick'[s].pc # "charging"
      <4>1. tick \in [Ticks -> TickType]
        BY DEF IInv, Types
      <4>2. CASE ReadTotal(t)
        BY <4>1, <4>2 DEF ReadTotal, TickType
      <4>3. CASE AskNumber(t)
        BY <4>1, <4>3 DEF AskNumber, TickType
      <4> QED
        BY <2>4, <4>2, <4>3
    <3>2. UNCHANGED invoice
      BY <2>4 DEF ReadTotal, AskNumber
    <3> QED
      BY <1>2, <3>1, <3>2
  <2>5. ASSUME Lapse(t) \/ Close(t) \/ RenewFree(t) PROVE FeesOnce'
    <3>1. EndTick(t) /\ UNCHANGED invoice
      BY <2>5 DEF Lapse, Close, RenewFree
    <3>2. \A s \in Ticks : tick'[s] = tick[s] \/ tick'[s].pc # "charging"
      BY <3>1, EndTickIs DEF IInv
    <3> QED
      BY <1>2, <3>1, <3>2
  <2>6. ASSUME BillPeriod(t) \/ ReadInvoice(t) \/ ChargeOutstanding(t) PROVE FeesOnce'
    BY <2>6, BillPeriodKeeps, ReadInvoiceKeeps, ChargeOutstandingKeeps
  <2> QED
    BY <1>5, <2>1, <2>2, <2>3, <2>4, <2>5, <2>6 DEF TickStep
<1>6. ASSUME Die PROVE FeesOnce'
  <2>1. UNCHANGED invoice /\ \A s \in Ticks : tick'[s].pc # "charging"
    BY <1>6, IdleIs DEF Die
  <2> QED
    BY <1>2, <2>1
<1>7. ASSUME NEW r \in Requests, NEW p \in Plans, NEW source \in {"purchase", "admin"},
             DecidePlan(r, p, source)
      PROVE  FeesOnce'
  BY <1>1, <1>7 DEF DecidePlan
<1>8. ASSUME NEW r \in Requests, ReadReactivated(r) \/ RequestStep(r) PROVE FeesOnce'
  BY <1>1, <1>8 DEF ReadReactivated, RequestStep, LockPlan, WritePlan, Reactivate
<1>9. ASSUME NEW b \in BOOLEAN, Cancel(b) \/ SetAutoRenew(b) PROVE FeesOnce'
  BY <1>1, <1>9 DEF Cancel, SetAutoRenew
<1>10. ASSUME NEW a \in Amounts, TopUp(a) PROVE FeesOnce'
  BY <1>1, <1>10 DEF TopUp
<1>11. ASSUME Elapse \/ UNCHANGED vars PROVE FeesOnce'
  BY <1>1, <1>11 DEF Elapse, vars
<1> QED
  BY <1>3, <1>4, <1>5, <1>6, <1>7, <1>8, <1>9, <1>10, <1>11 DEF Next

\* However many ticks run together and whatever people do to the invoice beside them, the wallet
\* pays an invoice at most once, unless the ticks held the counters of different months.
THEOREM PaidOnce == Spec => []BilledOnce
<1>1. Init => IInv /\ FeesOnce
  BY InitHolds
<1>2. (IInv /\ FeesOnce) /\ [Next]_vars => (IInv /\ FeesOnce)'
  BY NextKeeps, NextKeepsFees
<1>3. IInv /\ FeesOnce => BilledOnce
  <2> SUFFICES ASSUME IInv, FeesOnce, NEW e \in Ends
               PROVE  /\ (\A m, n \in invoice[e].charged : m = n) => invoice[e].fees <= invoice[e].total
                      /\ invoice[e].payments <= invoice[e].total
                      /\ invoice[e].paid <= invoice[e].fees + invoice[e].payments
                      /\ invoice[e].status = "paid" => invoice[e].paid = invoice[e].total
    BY DEF BilledOnce
  <2>1. /\ invoice[e].total \in Nat /\ invoice[e].paid \in Nat /\ invoice[e].fees \in Nat
        /\ invoice[e].payments \in Nat
        /\ (\A m, n \in invoice[e].charged : m = n) => invoice[e].fees <= invoice[e].paid
        /\ Sound(invoice[e])
    BY DEF IInv, Types, InvoiceType, FeesOnce, Collected
  <2> QED
    BY <2>1 DEF Sound
<1> QED
  BY <1>1, <1>2, <1>3, PTL DEF Spec

-----------------------------------------------------------------------------
(* What opens a period.                                                     *)

\* No tick opens the period after one that is neither free nor collected in full: so for any
\* ticks together, an invoice claimed, voided or overdue alone never does.
THEOREM PeriodsArePaid == Spec => OpensPaidPeriods
<1> DEFINE Opens(t) == tick[t].pc # tick'[t].pc /\ sub' # sub /\ sub'.status = "active"
           Paid(t) == tick[t].total = 0 \/ Opened(t)
<1>1. ASSUME IInv, [Next]_vars, NEW t \in Ticks, Opens(t) PROVE Paid(t)
  <2>1. \/ Elapse \/ Die
        \/ \E r \in Requests, p \in Plans, source \in {"purchase", "admin"} : DecidePlan(r, p, source)
        \/ \E r \in Requests : ReadReactivated(r) \/ RequestStep(r)
        \/ \E b \in BOOLEAN : Cancel(b) \/ SetAutoRenew(b)
        \/ \E a \in Amounts : TopUp(a)
        \/ \E e \in Ends, a \in Amounts : PayInvoice(e, a)
        \/ \E e \in Ends : VoidInvoice(e)
        \/ \E s \in Ticks : TickStep(s)
    BY <1>1 DEF Next, vars
  <2>2. tick'[t] # tick[t] /\ sub' # sub /\ sub'.status = "active"
    BY <1>1
  <2>3. PICK s \in Ticks : TickStep(s)
    BY <2>1, <2>2 DEF RequestStep, LockPlan, WritePlan, ReadReactivated, Reactivate, Elapse, Die,
                      DecidePlan, Cancel, SetAutoRenew, TopUp, PayInvoice, VoidInvoice
  <2>4. \/ Lapse(s) \/ Close(s) \/ RenewFree(s)
        \/ BillPeriod(s) \/ ReadInvoice(s) \/ ChargeOutstanding(s)
    BY <2>2, <2>3 DEF TickStep, BeginTick, MarkOverdue, ReadSubscription, ReadTotal, AskNumber
  <2>5. sub'.status # "active" \/ RenewFree(s) \/ BillPeriod(s) \/ ReadInvoice(s)
        \/ ChargeOutstanding(s)
    BY <2>4, <1>1 DEF Lapse, Close, IInv, Types, SubType
  <2>6. s = t
    <3>1. CASE ReadInvoice(s)
      BY <1>1, <2>2, <3>1 DEF ReadInvoice, EndTick, IInv, Types
    <3>2. CASE RenewFree(s) \/ BillPeriod(s) \/ ChargeOutstanding(s)
      <4>1. EndTick(s)
        BY <3>2 DEF RenewFree, BillPeriod, ChargeOutstanding
      <4> QED
        BY <1>1, <2>2, <4>1, EndTickIs DEF IInv
    <3> QED
      BY <2>2, <2>5, <3>1, <3>2
  <2>7. CASE RenewFree(s)
    BY <2>6, <2>7 DEF RenewFree
  <2>8. CASE BillPeriod(s) \/ ReadInvoice(s) \/ ChargeOutstanding(s)
    BY <1>1, <2>2, <2>6, <2>8, BillPeriodKeeps, ReadInvoiceKeeps, ChargeOutstandingKeeps
  <2> QED
    BY <2>2, <2>5, <2>7, <2>8
<1>2. IInv /\ [Next]_vars => [\A t \in Ticks :
          (tick[t].pc # tick'[t].pc /\ sub' # sub /\ sub'.status = "active")
          => \/ tick[t].total = 0
             \/ LET i == invoice'[tick[t].seen.end] IN
                i.status = "paid" /\ i.fees + i.payments >= i.total]_vars
  BY <1>1 DEF Opened
<1> QED
  BY <1>2, Invariance, PTL DEF Spec, OpensPaidPeriods
=============================================================================
