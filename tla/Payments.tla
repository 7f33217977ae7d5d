------------------------------ MODULE Payments ------------------------------
(***************************************************************************)
(* Gateway payments of one business: created and started by the tenant,    *)
(* paid at the gateway, verified when the browser returns, reviewed by the *)
(* platform's administrators, settled into the wallet, and, for a plan,    *)
(* fulfilled (wallet-service.ts, billing-service.ts and their routes).     *)
(*                                                                         *)
(* Grain.  verifyPayment and fulfilPurchasedPayment hold no transaction:   *)
(* each of their queries, and the gateway call, is a step, and another     *)
(* handler, or a crash of the server, may come between any two of them.    *)
(* settlePayment and rejectPayment each run under the payment's row lock   *)
(* and are single steps.  A call that is refused writes nothing and is     *)
(* left out where the handler has done nothing before.                     *)
(***************************************************************************)
EXTENDS Naturals

CONSTANTS
    Payments,   \* billing_payments rows
    Clients,    \* handlers running at once
    None        \* SQL NULL

ASSUME NoneAssumption == None \notin Payments

VARIABLES
    pay,        \* [Payments -> the row]
    credits,    \* [Payments -> number of wallet_ledger rows with this payment_id]
    gateway,    \* [Payments -> the authority the customer was sent to, as the gateway has it]
    activated,  \* the payments whose plan has been activated
    req         \* [Clients -> the handler's place, payment and acting admin]

vars == <<pay, credits, gateway, activated, req>>

Statuses == {"none", "pending", "redirect", "verified", "failed", "cancelled"}
Purposes == {"top_up", "plan_purchase"}

Row == [status     : Statuses,
        purpose    : Purposes,
        fulfilment : {"pending", "succeeded", "failed"},
        reviewed   : BOOLEAN]           \* reviewed_by is set

GatewayState == {"none", "issued", "paid", "captured", "expired"}

Places == {"idle", "start_request", "start_write", "ask", "nok", "fail", "settle",
           "after", "activate", "mark_ok", "mark_failed"}

Handler == [pc : Places, payment : Payments \cup {None}, admin : BOOLEAN]

At(pc, p, admin) == [pc |-> pc, payment |-> p, admin |-> admin]
Idle == At("idle", None, FALSE)

Goto(c, pc) == req' = [req EXCEPT ![c].pc = pc]
Done(c) == req' = [req EXCEPT ![c] = Idle]

Init ==
    /\ pay \in [Payments -> [status : {"none"}, purpose : Purposes,
                             fulfilment : {"pending"}, reviewed : {FALSE}]]
    /\ credits = [p \in Payments |-> 0]
    /\ gateway = [p \in Payments |-> "none"]
    /\ activated = {}
    /\ req = [c \in Clients |-> Idle]

-----------------------------------------------------------------------------
(* POST /api/billing/payments: createPayment, then startPayment. *)

CreatePayment(c, p) ==
    /\ req[c] = Idle
    /\ pay[p].status = "none"
    /\ pay' = [pay EXCEPT ![p].status = "pending"]
    /\ req' = [req EXCEPT ![c] = At("start_request", p, FALSE)]
    /\ UNCHANGED <<credits, gateway, activated>>

\* The payment may have been rejected, or the gateway be "manual" or refuse: the
\* row then stays as it is.
StartRequest(c) ==
    /\ req[c].pc = "start_request"
    /\ \/ Done(c)
       \/ pay[req[c].payment].status = "pending" /\ Goto(c, "start_write")
    /\ UNCHANGED <<pay, credits, gateway, activated>>

\* Mutant: a status outside the column's CHECK.
StartWrite_Started(c) ==
    LET p == req[c].payment IN
    /\ req[c].pc = "start_write"
    /\ pay' = [pay EXCEPT ![p].status = IF @ = "pending" THEN "started" ELSE @]
    /\ gateway' = [gateway EXCEPT ![p] = "issued"]
    /\ Done(c)
    /\ UNCHANGED <<credits, activated>>

\* The authority is stored if the payment is still pending; the browser is sent
\* to it either way.
StartWrite(c) ==
    LET p == req[c].payment IN
    /\ req[c].pc = "start_write"
    /\ pay' = [pay EXCEPT ![p].status = IF @ = "pending" THEN "redirect" ELSE @]
    /\ gateway' = [gateway EXCEPT ![p] = "issued"]
    /\ Done(c)
    /\ UNCHANGED <<credits, activated>>

-----------------------------------------------------------------------------
(* The gateway: the customer pays, or the authority expires (which returns  *)
(* money that was paid and never captured).                                 *)

CustomerPays(p) ==
    /\ gateway[p] = "issued"
    /\ gateway' = [gateway EXCEPT ![p] = "paid"]
    /\ UNCHANGED <<pay, credits, activated, req>>

Expires(p) ==
    /\ gateway[p] \in {"issued", "paid"}
    /\ gateway' = [gateway EXCEPT ![p] = "expired"]
    /\ UNCHANGED <<pay, credits, activated, req>>

-----------------------------------------------------------------------------
(* POST /api/billing/payments/verify: verifyPayment, then fulfilment. *)

\* Mutant: Status=OK is believed without asking the gateway.
Return_Trusting(c, p, ok) ==
    /\ req[c] = Idle
    /\ gateway[p] \in (IF ok THEN {"paid", "captured", "expired"} ELSE GatewayState \ {"none"})
    /\ \/ pay[p].status = "verified" /\ req' = [req EXCEPT ![c] = At("after", p, FALSE)]
       \/ /\ pay[p].status = "redirect"
          /\ req' = [req EXCEPT ![c] = At(IF ok THEN "settle" ELSE "nok", p, FALSE)]
    /\ UNCHANGED <<pay, credits, gateway, activated>>

\* The browser comes back, any number of times, with Status OK once the
\* customer has paid or NOK; the handler reads the row.
Return(c, p, ok) ==
    /\ req[c] = Idle
    /\ gateway[p] \in (IF ok THEN {"paid", "captured", "expired"} ELSE GatewayState \ {"none"})
    /\ \/ pay[p].status = "verified" /\ req' = [req EXCEPT ![c] = At("after", p, FALSE)]
       \/ /\ pay[p].status = "redirect"
          /\ req' = [req EXCEPT ![c] = At(IF ok THEN "ask" ELSE "nok", p, FALSE)]
    /\ UNCHANGED <<pay, credits, gateway, activated>>

\* Mutant: an unreachable gateway counts as a refusal.
ZarinpalVerify_Unreachable(c) ==
    LET p == req[c].payment IN
    /\ req[c].pc = "ask"
    /\ \/ /\ gateway[p] \in {"paid", "captured"}
          /\ gateway' = [gateway EXCEPT ![p] = "captured"]
          /\ Goto(c, "settle")
       \/ Goto(c, "fail") /\ UNCHANGED gateway
    /\ UNCHANGED <<pay, credits, activated>>

\* Code 100 or 101; a refusal; or no answer, whether or not the gateway has
\* processed the call.
ZarinpalVerify(c) ==
    LET p == req[c].payment IN
    /\ req[c].pc = "ask"
    /\ \/ /\ gateway[p] \in {"paid", "captured"}
          /\ gateway' = [gateway EXCEPT ![p] = "captured"]
          /\ Goto(c, "settle") \/ Done(c)
       \/ gateway[p] = "expired" /\ Goto(c, "fail") /\ UNCHANGED gateway
       \/ Done(c) /\ UNCHANGED gateway
    /\ UNCHANGED <<pay, credits, activated>>

CancelWrite(c) ==
    LET p == req[c].payment IN
    /\ req[c].pc = "nok"
    /\ pay' = [pay EXCEPT ![p].status = IF @ = "redirect" THEN "cancelled" ELSE @]
    /\ Goto(c, "after")
    /\ UNCHANGED <<credits, gateway, activated>>

FailWrite(c) ==
    LET p == req[c].payment IN
    /\ req[c].pc = "fail"
    /\ pay' = [pay EXCEPT ![p].status = IF @ = "redirect" THEN "failed" ELSE @]
    /\ Goto(c, "after")
    /\ UNCHANGED <<credits, gateway, activated>>

\* Settled: the wallet credit of a top-up, and the row's new status.
Credited(p, admin) ==
    LET topUp == pay[p].purpose = "top_up" IN
    /\ pay' = [pay EXCEPT ![p] = [status     |-> "verified",
                                  purpose    |-> @.purpose,
                                  fulfilment |-> IF topUp THEN "succeeded" ELSE @.fulfilment,
                                  reviewed   |-> @.reviewed \/ admin]]
    /\ credits' = [credits EXCEPT ![p] = IF topUp THEN @ + 1 ELSE @]

\* Mutant: the status is not looked at again under the row lock.
SettlePayment_NoRecheck(c) ==
    LET p == req[c].payment IN
    /\ req[c].pc = "settle"
    /\ credits[p] < 2
    /\ Credited(p, req[c].admin)
    /\ Goto(c, "after")
    /\ UNCHANGED <<gateway, activated>>

SettlePayment(c) ==
    LET p == req[c].payment IN
    /\ req[c].pc = "settle"
    /\ \/ /\ pay[p].status = "verified"
          /\ Goto(c, "after")
          /\ UNCHANGED <<pay, credits>>
       \/ /\ pay[p].status \in {"pending", "redirect"}
          /\ Credited(p, req[c].admin)
          /\ Goto(c, "after")
       \/ /\ pay[p].status \in {"failed", "cancelled"}      \* payment_not_pending
          /\ Done(c)
          /\ UNCHANGED <<pay, credits>>
    /\ UNCHANGED <<gateway, activated>>

-----------------------------------------------------------------------------
(* What both the return and the approval end with: fulfilPurchasedPayment. *)

Fulfil(c) ==
    LET p == req[c].payment IN
    /\ req[c].pc = "after"
    /\ IF pay[p].status = "verified" /\ pay[p].fulfilment # "succeeded"
       THEN Goto(c, "activate") ELSE Done(c)
    /\ UNCHANGED <<pay, credits, gateway, activated>>

\* Mutant: a failed activation is recorded as a success.
ActivatePlan_Swallows(c) ==
    /\ req[c].pc = "activate"
    /\ Goto(c, "mark_ok")
    /\ \/ activated' = activated \cup {req[c].payment}
       \/ UNCHANGED activated
    /\ UNCHANGED <<pay, credits, gateway>>

\* activatePurchasedPlan commits or throws; after the commit, stamping the
\* plan's features may still throw.
ActivatePlan(c) ==
    /\ req[c].pc = "activate"
    /\ \/ /\ activated' = activated \cup {req[c].payment}
          /\ Goto(c, "mark_ok") \/ Goto(c, "mark_failed")
       \/ UNCHANGED activated /\ Goto(c, "mark_failed")
    /\ UNCHANGED <<pay, credits, gateway>>

MarkFulfilment(c) ==
    LET p == req[c].payment
        done == IF req[c].pc = "mark_ok" THEN "succeeded" ELSE "failed" IN
    /\ req[c].pc \in {"mark_ok", "mark_failed"}
    /\ pay' = [pay EXCEPT ![p].fulfilment = done]
    /\ Done(c)
    /\ UNCHANGED <<credits, gateway, activated>>

-----------------------------------------------------------------------------
(* reviewManualPayment: approve reads, then settles; reject is one step.    *)

Approve(c, p) ==
    /\ req[c] = Idle
    /\ pay[p].status # "none"
    /\ req' = [req EXCEPT ![c] = At(IF pay[p].status = "verified" THEN "after" ELSE "settle",
                                    p, TRUE)]
    /\ UNCHANGED <<pay, credits, gateway, activated>>

\* Mutant: a rejection overwrites whatever status it finds.
RejectPayment_Any(p) ==
    /\ pay[p].status # "none"
    /\ pay' = [pay EXCEPT ![p] = [@ EXCEPT !.status = "failed", !.reviewed = TRUE]]
    /\ UNCHANGED <<credits, gateway, activated, req>>

RejectPayment(p) ==
    /\ pay[p].status \in {"pending", "redirect"}
    /\ pay' = [pay EXCEPT ![p] = [@ EXCEPT !.status = "failed", !.reviewed = TRUE]]
    /\ UNCHANGED <<credits, gateway, activated, req>>

\* The server dies: its handlers are gone, what they committed stays.
Crash ==
    /\ \E c \in Clients : req[c] # Idle
    /\ req' = [c \in Clients |-> Idle]
    /\ UNCHANGED <<pay, credits, gateway, activated>>

-----------------------------------------------------------------------------
Step(c) ==
    \/ StartRequest(c) \/ StartWrite(c)
    \/ ZarinpalVerify(c) \/ CancelWrite(c) \/ FailWrite(c)
    \/ SettlePayment(c)
    \/ Fulfil(c) \/ ActivatePlan(c) \/ MarkFulfilment(c)

Begin(c) ==
    \E p \in Payments :
        \/ CreatePayment(c, p)
        \/ \E ok \in BOOLEAN : Return(c, p, ok)
        \/ Approve(c, p)

Outside == \E p \in Payments : CustomerPays(p) \/ Expires(p) \/ RejectPayment(p)

Next == Outside \/ Crash \/ \E c \in Clients : Begin(c) \/ Step(c)

Spec == Init /\ [][Next]_vars

-----------------------------------------------------------------------------
(* Properties. *)

\* Every variable holds a value of its column's type.
TypeOK ==
    /\ pay \in [Payments -> Row]
    /\ credits \in [Payments -> Nat]
    /\ gateway \in [Payments -> GatewayState]
    /\ activated \subseteq Payments
    /\ req \in [Clients -> Handler]

\* The wallet was credited once for a verified top-up and never for another
\* payment, whatever reloads, approvals, rejections and crashes race.
CreditedExactlyOnce ==
    \A p \in Payments :
        credits[p] = IF pay[p].status = "verified" /\ pay[p].purpose = "top_up" THEN 1 ELSE 0

\* A payment becomes verified only on the gateway's word or an administrator's.
VerifiedIsBacked ==
    \A p \in Payments :
        pay[p].status = "verified" => gateway[p] = "captured" \/ pay[p].reviewed

\* Money the gateway took is not recorded as a failed payment, unless an
\* administrator rejected it: no timeout or crash turns it into a failure.
CapturedNotFailed ==
    \A p \in Payments :
        gateway[p] = "captured" /\ pay[p].status = "failed" => pay[p].reviewed

ActivatedIsVerified == \A p \in activated : pay[p].status = "verified"

FulfilledIsActivated ==
    \A p \in Payments :
        pay[p].purpose = "plan_purchase" /\ pay[p].fulfilment = "succeeded" => p \in activated

\* A plan is activated only for a payment that is, and stays, verified, and a purchase
\* recorded as fulfilled has had its plan activated, whichever handlers race or die between
\* the settlement, the activation and its record (fulfilPurchasedPayment).
PlansFollowPayments == ActivatedIsVerified /\ FulfilledIsActivated

\* The handlers together decide each receipt once, and credit it then.
Decided ==
    [p \in Payments |->
        IF pay[p].status = "verified" THEN "settled"
        ELSE IF pay[p].status \in {"failed", "cancelled"} THEN "refused" ELSE "open"]

R == INSTANCE Receipts WITH decision <- Decided, entries <- credits

ImplementsReceipts == R!Spec

\* The billing guide's step 4: a payment the gateway answered 100 or 101 for is
\* settled.  (Until its handler has run, or runs again, it is in redirect.)
CapturedIsSettled ==
    \A p \in Payments :
        gateway[p] = "captured" => pay[p].status \in {"redirect", "verified"}

=============================================================================
