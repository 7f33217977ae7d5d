-------------------------- MODULE Payments_proofs --------------------------
(***************************************************************************)
(* The safety of Payments for any number of payments and handlers.  The    *)
(* invariant IInv says what a handler still knows of the row it read: what *)
(* it learnt from the gateway, and that a verified payment stays verified. *)
(***************************************************************************)
EXTENDS Payments, TLAPS

\* What a handler knows at the place it has reached, whatever ran since.
Knows(c) ==
    LET p == req[c].payment IN
    /\ req[c].pc # "idle" => p \in Payments
    /\ req[c].pc \in {"start_request", "start_write"} =>
          pay[p].status # "none" /\ gateway[p] = "none"
    /\ req[c].pc = "settle" => req[c].admin \/ gateway[p] = "captured"
    /\ req[c].pc = "fail" => gateway[p] = "expired"
    /\ req[c].pc \in {"activate", "mark_ok", "mark_failed"} => pay[p].status = "verified"
    /\ req[c].pc = "mark_ok" => p \in activated

\* Only the handler that created a payment starts it.
StartedByCreator ==
    \A c, d \in Clients :
        /\ req[c].pc \in {"start_request", "start_write"}
        /\ req[d].pc \in {"start_request", "start_write"}
        /\ req[c].payment = req[d].payment
        => c = d

\* A failure that no administrator decided came after the authority's expiry.
FailedHasExpired ==
    \A p \in Payments :
        pay[p].status = "failed" => pay[p].reviewed \/ gateway[p] = "expired"

\* The gateway knows nothing of a payment that was not created.
Unborn == \A p \in Payments : pay[p].status = "none" => gateway[p] = "none"

\* What the rows say of each other and of the gateway.
RowsAgree ==
    /\ CreditedExactlyOnce
    /\ VerifiedIsBacked
    /\ FailedHasExpired
    /\ ActivatedIsVerified
    /\ FulfilledIsActivated
    /\ Unborn

IInv ==
    /\ TypeOK
    /\ RowsAgree
    /\ StartedByCreator
    /\ \A c \in Clients : Knows(c)

-----------------------------------------------------------------------------
\* Every initial state satisfies the invariant.
LEMMA InitInv == Init => IInv
  <1> SUFFICES ASSUME Init PROVE IInv
    OBVIOUS
  <1>1. TypeOK
    BY DEF Init, TypeOK, Row, Statuses, Purposes, GatewayState, Handler, Places, Idle, At
  <1>2. RowsAgree
    BY DEF Init, RowsAgree, CreditedExactlyOnce, VerifiedIsBacked, FailedHasExpired,
      ActivatedIsVerified, FulfilledIsActivated, Unborn, Purposes
  <1>3. StartedByCreator /\ \A c \in Clients : Knows(c)
    BY DEF Init, StartedByCreator, Knows, Idle, At
  <1> QED BY <1>1, <1>2, <1>3 DEF IInv

-----------------------------------------------------------------------------
\* Goto moves one handler and leaves what it is about.
LEMMA GotoWrites ==
    ASSUME TypeOK, NEW c \in Clients, NEW l \in Places, Goto(c, l)
    PROVE  /\ req' \in [Clients -> Handler]
           /\ \A d \in Clients : d # c => req'[d] = req[d]
           /\ req'[c].pc = l
           /\ req'[c].payment = req[c].payment
           /\ req'[c].admin = req[c].admin
  <1>1. req[c] \in Handler /\ req \in [Clients -> Handler]
    BY DEF TypeOK
  <1>2. [req[c] EXCEPT !.pc = l] \in Handler
    BY <1>1 DEF Handler
  <1>3. req' = [req EXCEPT ![c] = [req[c] EXCEPT !.pc = l]]
    BY <1>1 DEF Goto
  <1>4. /\ [req[c] EXCEPT !.pc = l].pc = l
        /\ [req[c] EXCEPT !.pc = l].payment = req[c].payment
        /\ [req[c] EXCEPT !.pc = l].admin = req[c].admin
    BY <1>1 DEF Handler
  <1> QED BY <1>1, <1>2, <1>3, <1>4

\* At puts one handler anywhere.
LEMMA AtWrites ==
    ASSUME TypeOK, NEW c \in Clients, NEW l \in Places, NEW p \in Payments \cup {None},
           NEW a \in BOOLEAN, req' = [req EXCEPT ![c] = At(l, p, a)]
    PROVE  /\ req' \in [Clients -> Handler]
           /\ \A d \in Clients : d # c => req'[d] = req[d]
           /\ req'[c].pc = l
           /\ req'[c].payment = p
           /\ req'[c].admin = a
  <1>1. At(l, p, a) \in Handler
    BY DEF At, Handler
  <1> QED BY <1>1 DEF TypeOK, At

\* Done frees one handler.
LEMMA DoneWrites ==
    ASSUME TypeOK, NEW c \in Clients, Done(c)
    PROVE  /\ req' \in [Clients -> Handler]
           /\ \A d \in Clients : d # c => req'[d] = req[d]
           /\ req'[c].pc = "idle"
  <1>1. "idle" \in Places
    BY DEF Places
  <1> QED BY <1>1, AtWrites DEF Done, Idle

\* The rows once one row's status, or its fulfilment, is set.
WithStatus(rows, p, s) == [rows EXCEPT ![p].status = s]
WithFulfilment(rows, p, f) == [rows EXCEPT ![p].fulfilment = f]

\* An update of one row's status.
LEMMA StatusWrites ==
    ASSUME TypeOK, NEW p \in Payments, NEW s \in Statuses,
           pay' = WithStatus(pay, p, s)
    PROVE  /\ pay' \in [Payments -> Row]
           /\ \A q \in Payments : q # p => pay'[q] = pay[q]
           /\ pay'[p].status = s
           /\ pay'[p].purpose = pay[p].purpose
           /\ pay'[p].fulfilment = pay[p].fulfilment
           /\ pay'[p].reviewed = pay[p].reviewed
  <1>1. pay[p] \in Row /\ pay \in [Payments -> Row]
    BY DEF TypeOK
  <1>2. [pay[p] EXCEPT !.status = s] \in Row
    BY <1>1 DEF Row
  <1> QED BY <1>1, <1>2 DEF Row, WithStatus

\* An update of one row's fulfilment.
LEMMA FulfilmentWrites ==
    ASSUME TypeOK, NEW p \in Payments, NEW f \in {"pending", "succeeded", "failed"},
           pay' = WithFulfilment(pay, p, f)
    PROVE  /\ pay' \in [Payments -> Row]
           /\ \A q \in Payments : q # p => pay'[q] = pay[q]
           /\ pay'[p].status = pay[p].status
           /\ pay'[p].purpose = pay[p].purpose
           /\ pay'[p].fulfilment = f
           /\ pay'[p].reviewed = pay[p].reviewed
  <1>1. pay[p] \in Row /\ pay \in [Payments -> Row]
    BY DEF TypeOK
  <1>2. [pay[p] EXCEPT !.fulfilment = f] \in Row
    BY <1>1 DEF Row
  <1> QED BY <1>1, <1>2 DEF Row, WithFulfilment

\* A settlement's update of one row.
LEMMA CreditedWrites ==
    ASSUME TypeOK, NEW p \in Payments, NEW a \in BOOLEAN, Credited(p, a)
    PROVE  /\ pay' \in [Payments -> Row]
           /\ \A q \in Payments : q # p => pay'[q] = pay[q]
           /\ pay'[p].status = "verified"
           /\ pay'[p].purpose = pay[p].purpose
           /\ pay'[p].fulfilment = IF pay[p].purpose = "top_up" THEN "succeeded"
                                   ELSE pay[p].fulfilment
           /\ a => pay'[p].reviewed
           /\ credits' \in [Payments -> Nat]
  <1> DEFINE r == [status     |-> "verified",
                   purpose    |-> pay[p].purpose,
                   fulfilment |-> IF pay[p].purpose = "top_up" THEN "succeeded"
                                  ELSE pay[p].fulfilment,
                   reviewed   |-> pay[p].reviewed \/ a]
  <1>1. pay[p] \in Row /\ pay \in [Payments -> Row]
    BY DEF TypeOK
  <1>2. pay[p].reviewed \in BOOLEAN
    BY <1>1 DEF Row
  <1>3. (pay[p].reviewed \/ a) \in BOOLEAN
    OBVIOUS
  <1>4. r \in Row
    BY <1>1, <1>3 DEF Row, Statuses
  <1>5. /\ r.status = "verified" /\ r.purpose = pay[p].purpose
        /\ r.fulfilment = IF pay[p].purpose = "top_up" THEN "succeeded" ELSE pay[p].fulfilment
        /\ r.reviewed = (pay[p].reviewed \/ a)
    BY <1>1 DEF Row
  <1>6. pay' = [pay EXCEPT ![p] = r]
    BY DEF Credited
  <1>7. credits' \in [Payments -> Nat]
    BY DEF Credited, TypeOK
  <1>8. pay'[p] = r /\ pay' \in [Payments -> Row] /\ \A q \in Payments : q # p => pay'[q] = pay[q]
    BY <1>1, <1>4, <1>6
  <1>9. a => r.reviewed
    BY <1>5
  <1> QED BY <1>5, <1>7, <1>8, <1>9

\* A rejection's update of one row.
LEMMA RejectWrites ==
    ASSUME TypeOK, NEW p \in Payments, RejectPayment(p)
    PROVE  /\ pay' \in [Payments -> Row]
           /\ \A q \in Payments : q # p => pay'[q] = pay[q]
           /\ pay'[p].status = "failed"
           /\ pay'[p].purpose = pay[p].purpose
           /\ pay'[p].fulfilment = pay[p].fulfilment
           /\ pay'[p].reviewed
  <1> DEFINE r == [pay[p] EXCEPT !.status = "failed", !.reviewed = TRUE]
  <1>1. pay[p] \in Row /\ pay \in [Payments -> Row]
    BY DEF TypeOK
  <1>2. r \in Row
    BY <1>1 DEF Row, Statuses
  <1>3. pay' = [pay EXCEPT ![p] = r]
    BY <1>1 DEF RejectPayment
  <1>4. r.status = "failed" /\ r.purpose = pay[p].purpose /\ r.fulfilment = pay[p].fulfilment
        /\ r.reviewed
    BY <1>1 DEF Row
  <1> QED BY <1>1, <1>2, <1>3, <1>4

\* Steps that leave the rows and the gateway alone leave RowsAgree.
LEMMA SameRows ==
    ASSUME RowsAgree, UNCHANGED <<pay, credits, gateway, activated>>
    PROVE  RowsAgree'
  BY DEF RowsAgree, CreditedExactlyOnce, VerifiedIsBacked, FailedHasExpired,
    ActivatedIsVerified, FulfilledIsActivated, Unborn

\* What a handler knows survives another handler's step: statuses only advance.
LEMMA StillKnows ==
    ASSUME NEW d \in Clients, Knows(d), UNCHANGED gateway, req'[d] = req[d],
           \A q \in Payments : pay[q].status = "verified" => pay'[q].status = "verified",
           \A q \in Payments : pay[q].status # "none" => pay'[q].status # "none",
           activated \subseteq activated'
    PROVE  Knows(d)'
  BY DEF Knows

\* createPayment opens a row and a handler.
LEMMA CreatePaymentStep ==
    ASSUME NEW c \in Clients, NEW p \in Payments, IInv, CreatePayment(c, p)
    PROVE  IInv'
  <1>1. TypeOK /\ pay[p] \in Row /\ pay[p].status = "none"
    BY DEF CreatePayment, IInv, TypeOK
  <1>2. /\ req' \in [Clients -> Handler]
        /\ \A d \in Clients : d # c => req'[d] = req[d]
        /\ req'[c].pc = "start_request"
        /\ req'[c].payment = p
    BY <1>1, AtWrites DEF CreatePayment, Places
  <1>3. /\ pay' \in [Payments -> Row]
        /\ \A q \in Payments : q # p => pay'[q] = pay[q]
        /\ pay'[p].status = "pending"
        /\ pay'[p].purpose = pay[p].purpose
        /\ pay'[p].fulfilment = pay[p].fulfilment
        /\ pay'[p].reviewed = pay[p].reviewed
    <2>1. "pending" \in Statuses
      BY DEF Statuses
    <2>2. pay' = WithStatus(pay, p, "pending")
      BY DEF CreatePayment, WithStatus
    <2> QED BY ONLY <1>1, <2>1, <2>2, p \in Payments, StatusWrites
  <1>4. TypeOK' /\ UNCHANGED <<credits, gateway, activated>>
    BY <1>1, <1>2, <1>3 DEF CreatePayment, TypeOK
  <1>5. RowsAgree'
    <2>1. (CreditedExactlyOnce /\ VerifiedIsBacked)'
      BY <1>1, <1>3, <1>4 DEF IInv, RowsAgree, CreditedExactlyOnce, VerifiedIsBacked
    <2>2. FailedHasExpired'
      BY <1>1, <1>3, <1>4 DEF IInv, RowsAgree, FailedHasExpired
    <2>3. (ActivatedIsVerified /\ FulfilledIsActivated /\ Unborn)'
      BY <1>1, <1>3, <1>4 DEF IInv, TypeOK, RowsAgree, ActivatedIsVerified, FulfilledIsActivated, Unborn
    <2> QED BY <2>1, <2>2, <2>3 DEF RowsAgree
  <1>6. \A d \in Clients : req[d].payment = p => req[d].pc \notin {"start_request", "start_write"}
    BY <1>1 DEF IInv, Knows
  <1>7. StartedByCreator'
    BY <1>2, <1>6 DEF IInv, StartedByCreator
  <1>8. ASSUME NEW d \in Clients PROVE Knows(d)'
    <2>1. CASE d = c
      BY <1>1, <1>2, <1>3, <1>4, <2>1 DEF Knows, IInv, RowsAgree, Unborn
    <2>2. CASE d # c
      BY <1>1, <1>2, <1>3, <1>4, <2>2 DEF IInv, Knows
    <2> QED BY <2>1, <2>2
  <1> QED BY <1>4, <1>5, <1>7, <1>8 DEF IInv

\* startPayment reads the row.
LEMMA StartRequestStep ==
    ASSUME NEW c \in Clients, IInv, StartRequest(c)
    PROVE  IInv'
  <1> DEFINE p == req[c].payment
  <1>1. /\ TypeOK /\ RowsAgree /\ Knows(c) /\ req[c].pc = "start_request"
        /\ UNCHANGED <<pay, credits, gateway, activated>>
    BY DEF StartRequest, IInv
  <1>2. /\ req' \in [Clients -> Handler]
        /\ \A d \in Clients : d # c => req'[d] = req[d]
        /\ \/ req'[c].pc = "idle"
           \/ req'[c].pc = "start_write" /\ req'[c].payment = p
    BY <1>1, GotoWrites, DoneWrites DEF StartRequest, Places
  <1>3. TypeOK'
    BY <1>1, <1>2 DEF TypeOK
  <1>4. RowsAgree'
    BY <1>1, SameRows
  <1>5. StartedByCreator'
    BY <1>1, <1>2 DEF IInv, StartedByCreator
  <1>6. ASSUME NEW d \in Clients PROVE Knows(d)'
    <2>1. CASE d = c
      BY <1>1, <1>2, <2>1 DEF Knows
    <2>2. CASE d # c
      BY <1>1, <1>2, <2>2, StillKnows DEF IInv
    <2> QED BY <2>1, <2>2
  <1> QED BY <1>3, <1>4, <1>5, <1>6 DEF IInv

\* startPayment stores the authority.
LEMMA StartWriteStep ==
    ASSUME NEW c \in Clients, IInv, StartWrite(c)
    PROVE  IInv'
  <1> DEFINE p == req[c].payment
             s == IF pay[p].status = "pending" THEN "redirect" ELSE pay[p].status
  <1>1. TypeOK /\ p \in Payments /\ pay[p] \in Row /\ gateway[p] = "none"
    BY DEF StartWrite, IInv, Knows, TypeOK
  <1>2. /\ req' \in [Clients -> Handler]
        /\ \A d \in Clients : d # c => req'[d] = req[d]
        /\ req'[c].pc = "idle"
    BY <1>1, DoneWrites DEF StartWrite
  <1>3. s \in Statuses /\ pay' = WithStatus(pay, p, s)
    <2>1. s \in Statuses
      BY <1>1 DEF Row, Statuses
    <2>2. pay' = WithStatus(pay, p, s)
      BY DEF StartWrite, WithStatus
    <2> QED BY <2>1, <2>2
  <1>4. /\ pay' \in [Payments -> Row]
        /\ \A q \in Payments : q # p => pay'[q] = pay[q]
        /\ pay'[p].status = s
        /\ pay'[p].purpose = pay[p].purpose
        /\ pay'[p].fulfilment = pay[p].fulfilment
        /\ pay'[p].reviewed = pay[p].reviewed
    BY ONLY <1>1, <1>3, StatusWrites
  <1>5. gateway' = [gateway EXCEPT ![p] = "issued"] /\ UNCHANGED <<credits, activated>>
    BY DEF StartWrite
  <1>6. TypeOK'
    BY <1>1, <1>2, <1>4, <1>5 DEF TypeOK, GatewayState
  <1>7. (CreditedExactlyOnce /\ ActivatedIsVerified /\ FulfilledIsActivated /\ Unborn)'
    <2>1. CreditedExactlyOnce'
      BY <1>1, <1>4, <1>5 DEF IInv, RowsAgree, CreditedExactlyOnce
    <2>2. (ActivatedIsVerified /\ FulfilledIsActivated)'
      BY <1>1, <1>4, <1>5 DEF IInv, RowsAgree, ActivatedIsVerified, FulfilledIsActivated, TypeOK
    <2>3. pay'[p].status # "none"
      BY <1>1, <1>4 DEF StartWrite, IInv, Knows
    <2>4. Unborn'
      BY <1>1, <1>4, <1>5, <2>3 DEF IInv, RowsAgree, Unborn, TypeOK
    <2> QED BY <2>1, <2>2, <2>4
  <1>8. (VerifiedIsBacked /\ FailedHasExpired)'
    <2> SUFFICES ASSUME NEW q \in Payments
                 PROVE  /\ pay'[q].status = "verified" => gateway'[q] = "captured" \/ pay'[q].reviewed
                        /\ pay'[q].status = "failed" => pay'[q].reviewed \/ gateway'[q] = "expired"
      BY DEF VerifiedIsBacked, FailedHasExpired
    <2>1. CASE q = p
      BY <1>1, <1>4, <1>5, <2>1 DEF IInv, RowsAgree, VerifiedIsBacked, FailedHasExpired, TypeOK
    <2>2. CASE q # p
      BY <1>1, <1>4, <1>5, <2>2 DEF IInv, RowsAgree, VerifiedIsBacked, FailedHasExpired, TypeOK
    <2> QED BY <2>1, <2>2
  <1>9. StartedByCreator'
    BY <1>2 DEF IInv, StartedByCreator
  <1>10. ASSUME NEW d \in Clients PROVE Knows(d)'
    <2>1. CASE d = c
      BY <1>2, <2>1 DEF Knows
    <2>2. CASE d # c
      <3>1. /\ Knows(d) /\ req'[d] = req[d]
            /\ req[d].pc \in {"start_request", "start_write"} => req[d].payment # p
        BY <1>2, <2>2 DEF StartWrite, IInv, StartedByCreator
      <3>2. /\ req[d].pc = "settle" => req[d].admin \/ req[d].payment # p
            /\ req[d].pc = "fail" => req[d].payment # p
        BY <1>1, <3>1 DEF Knows
      <3>0. req[d].pc # "idle" => req[d].payment \in Payments
        BY <3>1 DEF Knows
      <3>3. \A q \in Payments :
              /\ pay[q].status = "verified" => pay'[q].status = "verified"
              /\ pay[q].status # "none" => pay'[q].status # "none"
        BY <1>4
      <3>4. \A q \in Payments : q # p => gateway'[q] = gateway[q]
        BY <1>1, <1>5 DEF TypeOK
      <3>5. Knows(d)'
        <4> DEFINE o == req[d].payment
        <4>1. req'[d].payment = o /\ req'[d].pc = req[d].pc /\ req'[d].admin = req[d].admin
          BY <3>1
        <4>2. req[d].pc \in {"start_request", "start_write"} => pay'[o].status # "none" /\ gateway'[o] = "none"
          <5> SUFFICES ASSUME req[d].pc \in {"start_request", "start_write"}
                       PROVE  pay'[o].status # "none" /\ gateway'[o] = "none"
            OBVIOUS
          <5>1. o \in Payments /\ o # p /\ pay[o].status # "none" /\ gateway[o] = "none"
            BY <3>0, <3>1 DEF Knows
          <5> QED BY <3>3, <3>4, <5>1
        <4>3. req[d].pc = "settle" => req[d].admin \/ gateway'[o] = "captured"
          BY <3>0, <3>1, <3>2, <3>4 DEF Knows
        <4>4. req[d].pc = "fail" => gateway'[o] = "expired"
          BY <3>0, <3>1, <3>2, <3>4 DEF Knows
        <4>5. req[d].pc \in {"activate", "mark_ok", "mark_failed"} => pay'[o].status = "verified"
          <5> SUFFICES ASSUME req[d].pc \in {"activate", "mark_ok", "mark_failed"}
                       PROVE  pay'[o].status = "verified"
            OBVIOUS
          <5>1. o \in Payments /\ pay[o].status = "verified"
            BY <3>0, <3>1 DEF Knows
          <5> QED BY <3>3, <5>1
        <4>6. req[d].pc = "mark_ok" => o \in activated'
          BY <1>5, <3>1 DEF Knows
        <4> QED BY <3>0, <4>1, <4>2, <4>3, <4>4, <4>5, <4>6 DEF Knows
      <3> QED BY <3>5
    <2> QED BY <2>1, <2>2
  <1> QED BY <1>6, <1>7, <1>8, <1>9, <1>10 DEF IInv, RowsAgree

\* The customer pays at the gateway.
LEMMA CustomerPaysStep ==
    ASSUME NEW p \in Payments, IInv, CustomerPays(p)
    PROVE  IInv'
  <1>1. /\ TypeOK /\ RowsAgree
        /\ gateway[p] \in {"issued"} /\ gateway' = [gateway EXCEPT ![p] = "paid"]
        /\ UNCHANGED <<pay, credits, activated, req>>
    BY DEF CustomerPays, IInv
  <1>2. gateway'[p] = "paid" /\ \A q \in Payments : q # p => gateway'[q] = gateway[q]
    BY <1>1 DEF TypeOK
  <1>3. TypeOK'
    BY <1>1 DEF TypeOK, GatewayState
  <1>4. (CreditedExactlyOnce /\ ActivatedIsVerified /\ FulfilledIsActivated)'
    BY <1>1 DEF RowsAgree, CreditedExactlyOnce, ActivatedIsVerified, FulfilledIsActivated
  <1>5. (VerifiedIsBacked /\ FailedHasExpired /\ Unborn)'
    BY <1>1, <1>2 DEF RowsAgree, VerifiedIsBacked, FailedHasExpired, Unborn
  <1>6. StartedByCreator'
    BY <1>1 DEF IInv, StartedByCreator
  <1>7. ASSUME NEW d \in Clients PROVE Knows(d)'
    BY <1>1, <1>2 DEF IInv, Knows
  <1> QED BY <1>3, <1>4, <1>5, <1>6, <1>7 DEF IInv, RowsAgree

\* The authority expires at the gateway.
LEMMA ExpiresStep ==
    ASSUME NEW p \in Payments, IInv, Expires(p)
    PROVE  IInv'
  <1>1. /\ TypeOK /\ RowsAgree
        /\ gateway[p] \in {"issued", "paid"} /\ gateway' = [gateway EXCEPT ![p] = "expired"]
        /\ UNCHANGED <<pay, credits, activated, req>>
    BY DEF Expires, IInv
  <1>2. gateway'[p] = "expired" /\ \A q \in Payments : q # p => gateway'[q] = gateway[q]
    BY <1>1 DEF TypeOK
  <1>3. TypeOK'
    BY <1>1 DEF TypeOK, GatewayState
  <1>4. (CreditedExactlyOnce /\ ActivatedIsVerified /\ FulfilledIsActivated)'
    BY <1>1 DEF RowsAgree, CreditedExactlyOnce, ActivatedIsVerified, FulfilledIsActivated
  <1>5. (VerifiedIsBacked /\ FailedHasExpired /\ Unborn)'
    BY <1>1, <1>2 DEF RowsAgree, VerifiedIsBacked, FailedHasExpired, Unborn
  <1>6. StartedByCreator'
    BY <1>1 DEF IInv, StartedByCreator
  <1>7. ASSUME NEW d \in Clients PROVE Knows(d)'
    BY <1>1, <1>2 DEF IInv, Knows
  <1> QED BY <1>3, <1>4, <1>5, <1>6, <1>7 DEF IInv, RowsAgree

\* The browser comes back.
LEMMA ReturnStep ==
    ASSUME NEW c \in Clients, NEW p \in Payments, NEW ok \in BOOLEAN, IInv, Return(c, p, ok)
    PROVE  IInv'
  <1>1. TypeOK /\ UNCHANGED <<pay, credits, gateway, activated>>
    BY DEF Return, IInv
  <1>2. PICK l \in {"after", "ask", "nok"} : req' = [req EXCEPT ![c] = At(l, p, FALSE)]
    BY DEF Return
  <1>3. /\ req' \in [Clients -> Handler]
        /\ \A d \in Clients : d # c => req'[d] = req[d]
        /\ req'[c].pc = l
        /\ req'[c].payment = p
    BY <1>1, <1>2, AtWrites DEF Places
  <1>4. TypeOK'
    BY <1>1, <1>3 DEF TypeOK
  <1>5. RowsAgree'
    BY <1>1 DEF IInv, RowsAgree, CreditedExactlyOnce, VerifiedIsBacked,
      FailedHasExpired, ActivatedIsVerified, FulfilledIsActivated, Unborn
  <1>6. StartedByCreator'
    BY <1>3 DEF IInv, StartedByCreator
  <1>7. ASSUME NEW d \in Clients PROVE Knows(d)'
    BY <1>1, <1>3 DEF IInv, Knows
  <1> QED BY <1>4, <1>5, <1>6, <1>7 DEF IInv

\* The gateway is asked.
LEMMA ZarinpalVerifyStep ==
    ASSUME NEW c \in Clients, IInv, ZarinpalVerify(c)
    PROVE  IInv'
  <1> DEFINE p == req[c].payment
  <1>1. TypeOK /\ p \in Payments /\ UNCHANGED <<pay, credits, activated>>
    BY DEF ZarinpalVerify, IInv, Knows
  <1>2. /\ req' \in [Clients -> Handler]
        /\ \A d \in Clients : d # c => req'[d] = req[d]
        /\ \/ req'[c].pc = "idle"
           \/ req'[c].payment = p /\ req'[c].pc = "settle" /\ gateway'[p] = "captured"
           \/ req'[c].payment = p /\ req'[c].pc = "fail" /\ gateway[p] = "expired" /\ gateway' = gateway
    BY <1>1, GotoWrites, DoneWrites DEF ZarinpalVerify, Places, TypeOK
  <1>3. \/ UNCHANGED gateway
        \/ /\ gateway[p] \in {"paid", "captured"}
           /\ gateway' = [gateway EXCEPT ![p] = "captured"]
    BY DEF ZarinpalVerify
  <1>4. TypeOK'
    BY <1>1, <1>2, <1>3 DEF TypeOK, GatewayState
  <1>5. (CreditedExactlyOnce /\ ActivatedIsVerified /\ FulfilledIsActivated)'
    BY <1>1 DEF IInv, RowsAgree, CreditedExactlyOnce, ActivatedIsVerified, FulfilledIsActivated
  <1>11. Unborn'
    BY <1>1, <1>3 DEF IInv, RowsAgree, Unborn, TypeOK
  <1>6. VerifiedIsBacked'
    BY <1>1, <1>3 DEF IInv, RowsAgree, VerifiedIsBacked, TypeOK
  <1>7. pay[p].status = "failed" /\ gateway[p] # "expired" => pay[p].reviewed
    BY <1>1 DEF IInv, RowsAgree, FailedHasExpired
  <1>8. FailedHasExpired'
    BY <1>1, <1>3, <1>7 DEF IInv, RowsAgree, FailedHasExpired, TypeOK
  <1>9. StartedByCreator'
    BY <1>2 DEF IInv, StartedByCreator
  <1>10. ASSUME NEW d \in Clients PROVE Knows(d)'
    BY <1>1, <1>2, <1>3 DEF IInv, Knows, TypeOK
  <1> QED BY <1>4, <1>5, <1>6, <1>8, <1>9, <1>10, <1>11 DEF IInv, RowsAgree

\* The row is cancelled.
LEMMA CancelWriteStep ==
    ASSUME NEW c \in Clients, IInv, CancelWrite(c)
    PROVE  IInv'
  <1> DEFINE p == req[c].payment
             s == IF pay[p].status = "redirect" THEN "cancelled" ELSE pay[p].status
  <1>1. /\ TypeOK /\ RowsAgree /\ p \in Payments /\ pay[p] \in Row
        /\ UNCHANGED <<credits, gateway, activated>>
    BY DEF CancelWrite, IInv, Knows, TypeOK
  <1>2. /\ req' \in [Clients -> Handler]
        /\ \A d \in Clients : d # c => req'[d] = req[d]
        /\ req'[c].pc = "after" /\ req'[c].payment = p
    BY <1>1, GotoWrites DEF CancelWrite, Places
  <1>3. s \in Statuses /\ pay' = WithStatus(pay, p, s)
    <2>1. s \in Statuses
      BY <1>1 DEF Row, Statuses
    <2>2. pay' = WithStatus(pay, p, s)
      BY DEF CancelWrite, WithStatus
    <2> QED BY <2>1, <2>2
  <1>4. /\ pay' \in [Payments -> Row]
        /\ \A q \in Payments : q # p => pay'[q] = pay[q]
        /\ pay'[p].status = s
        /\ pay'[p].purpose = pay[p].purpose
        /\ pay'[p].fulfilment = pay[p].fulfilment
        /\ pay'[p].reviewed = pay[p].reviewed
    BY ONLY <1>1, <1>3, StatusWrites
  <1>5. TypeOK'
    BY <1>1, <1>2, <1>4 DEF TypeOK
  <1>6. CreditedExactlyOnce'
    BY <1>1, <1>4 DEF RowsAgree, CreditedExactlyOnce
  <1>7. VerifiedIsBacked'
    BY <1>1, <1>4 DEF RowsAgree, VerifiedIsBacked
  <1>8. FailedHasExpired'
    BY <1>1, <1>4 DEF RowsAgree, FailedHasExpired
  <1>9. ActivatedIsVerified'
    BY <1>1, <1>4 DEF RowsAgree, ActivatedIsVerified, TypeOK
  <1>10. (FulfilledIsActivated /\ Unborn)'
    BY <1>1, <1>4 DEF RowsAgree, FulfilledIsActivated, Unborn
  <1>11. StartedByCreator'
    BY <1>2 DEF IInv, StartedByCreator
  <1>12. ASSUME NEW d \in Clients PROVE Knows(d)'
    <2>1. CASE d = c
      BY <1>1, <1>2, <2>1 DEF Knows
    <2>2. CASE d # c
      <3>1. \A q \in Payments : pay[q].status = "verified" => pay'[q].status = "verified"
        BY <1>4
      <3>2. \A q \in Payments : pay[q].status # "none" => pay'[q].status # "none"
        BY <1>4
      <3> QED BY <1>1, <1>2, <2>2, <3>1, <3>2, StillKnows DEF IInv
    <2> QED BY <2>1, <2>2
  <1> QED
    BY <1>5, <1>6, <1>7, <1>8, <1>9, <1>10, <1>11, <1>12 DEF IInv, RowsAgree

\* The row is failed: only after the gateway said so.
LEMMA FailWriteStep ==
    ASSUME NEW c \in Clients, IInv, FailWrite(c)
    PROVE  IInv'
  <1> DEFINE p == req[c].payment
             s == IF pay[p].status = "redirect" THEN "failed" ELSE pay[p].status
  <1>1. /\ TypeOK /\ RowsAgree /\ p \in Payments /\ pay[p] \in Row /\ gateway[p] = "expired"
        /\ UNCHANGED <<credits, gateway, activated>>
    BY DEF FailWrite, IInv, Knows, TypeOK
  <1>2. /\ req' \in [Clients -> Handler]
        /\ \A d \in Clients : d # c => req'[d] = req[d]
        /\ req'[c].pc = "after" /\ req'[c].payment = p
    BY <1>1, GotoWrites DEF FailWrite, Places
  <1>3. s \in Statuses /\ pay' = WithStatus(pay, p, s)
    <2>1. s \in Statuses
      BY <1>1 DEF Row, Statuses
    <2>2. pay' = WithStatus(pay, p, s)
      BY DEF FailWrite, WithStatus
    <2> QED BY <2>1, <2>2
  <1>4. /\ pay' \in [Payments -> Row]
        /\ \A q \in Payments : q # p => pay'[q] = pay[q]
        /\ pay'[p].status = s
        /\ pay'[p].purpose = pay[p].purpose
        /\ pay'[p].fulfilment = pay[p].fulfilment
        /\ pay'[p].reviewed = pay[p].reviewed
    BY ONLY <1>1, <1>3, StatusWrites
  <1>5. TypeOK'
    BY <1>1, <1>2, <1>4 DEF TypeOK
  <1>6. CreditedExactlyOnce'
    BY <1>1, <1>4 DEF RowsAgree, CreditedExactlyOnce
  <1>7. VerifiedIsBacked'
    BY <1>1, <1>4 DEF RowsAgree, VerifiedIsBacked
  <1>8. FailedHasExpired'
    BY <1>1, <1>4 DEF RowsAgree, FailedHasExpired
  <1>9. ActivatedIsVerified'
    BY <1>1, <1>4 DEF RowsAgree, ActivatedIsVerified, TypeOK
  <1>10. (FulfilledIsActivated /\ Unborn)'
    BY <1>1, <1>4 DEF RowsAgree, FulfilledIsActivated, Unborn
  <1>11. StartedByCreator'
    BY <1>2 DEF IInv, StartedByCreator
  <1>12. ASSUME NEW d \in Clients PROVE Knows(d)'
    <2>1. CASE d = c
      BY <1>1, <1>2, <2>1 DEF Knows
    <2>2. CASE d # c
      <3>1. \A q \in Payments : pay[q].status = "verified" => pay'[q].status = "verified"
        BY <1>4
      <3>2. \A q \in Payments : pay[q].status # "none" => pay'[q].status # "none"
        BY <1>4
      <3> QED BY <1>1, <1>2, <2>2, <3>1, <3>2, StillKnows DEF IInv
    <2> QED BY <2>1, <2>2
  <1> QED
    BY <1>5, <1>6, <1>7, <1>8, <1>9, <1>10, <1>11, <1>12 DEF IInv, RowsAgree

\* settlePayment, the step that credits.
LEMMA SettlePaymentStep ==
    ASSUME NEW c \in Clients, IInv, SettlePayment(c)
    PROVE  IInv'
  <1> DEFINE p == req[c].payment
             a == req[c].admin
  <1>1. /\ TypeOK /\ p \in Payments /\ a \in BOOLEAN /\ pay[p] \in Row
        /\ a \/ gateway[p] = "captured"
        /\ UNCHANGED <<gateway, activated>>
    BY DEF SettlePayment, IInv, Knows, TypeOK, Handler
  <1>2. /\ req' \in [Clients -> Handler]
        /\ \A d \in Clients : d # c => req'[d] = req[d]
        /\ \/ req'[c].pc = "idle"
           \/ req'[c].pc = "after" /\ req'[c].payment = p
    BY <1>1, GotoWrites, DoneWrites DEF SettlePayment, Places
  <1>3. StartedByCreator'
    BY <1>2 DEF IInv, StartedByCreator
  <1>4. CASE UNCHANGED <<pay, credits>>
    <2>1. TypeOK'
      BY <1>1, <1>2, <1>4 DEF TypeOK
    <2>2. RowsAgree'
      BY <1>1, <1>4 DEF IInv, RowsAgree, CreditedExactlyOnce, VerifiedIsBacked,
        FailedHasExpired, ActivatedIsVerified, FulfilledIsActivated, Unborn
    <2>3. ASSUME NEW d \in Clients PROVE Knows(d)'
      BY <1>1, <1>2, <1>4 DEF IInv, Knows
    <2> QED BY <1>3, <2>1, <2>2, <2>3 DEF IInv
  <1>5. CASE pay[p].status \in {"pending", "redirect"} /\ Credited(p, a)
    <2>1. /\ pay' \in [Payments -> Row]
          /\ \A q \in Payments : q # p => pay'[q] = pay[q]
          /\ pay'[p].status = "verified"
          /\ pay'[p].purpose = pay[p].purpose
          /\ pay'[p].fulfilment = IF pay[p].purpose = "top_up" THEN "succeeded"
                                  ELSE pay[p].fulfilment
          /\ a => pay'[p].reviewed
          /\ credits' \in [Payments -> Nat]
      BY <1>1, <1>5, CreditedWrites
    <2>2. TypeOK'
      BY <1>1, <1>2, <2>1 DEF TypeOK
    <2>3. credits[p] = 0 /\ credits' = [credits EXCEPT ![p] = IF pay[p].purpose = "top_up" THEN @ + 1 ELSE @]
      BY <1>1, <1>5 DEF IInv, RowsAgree, CreditedExactlyOnce, Credited
    <2>4. CreditedExactlyOnce'
      BY <1>1, <2>1, <2>3 DEF IInv, RowsAgree, CreditedExactlyOnce, TypeOK
    <2>5. (VerifiedIsBacked /\ FailedHasExpired)'
      BY <1>1, <2>1 DEF IInv, RowsAgree, VerifiedIsBacked, FailedHasExpired
    <2>6. ActivatedIsVerified'
      BY <1>1, <2>1 DEF IInv, RowsAgree, ActivatedIsVerified, TypeOK
    <2>7. (FulfilledIsActivated /\ Unborn)'
      BY <1>1, <2>1 DEF IInv, RowsAgree, FulfilledIsActivated, Unborn
    <2>8. ASSUME NEW d \in Clients PROVE Knows(d)'
      <3>1. \A q \in Payments : pay[q].status = "verified" => pay'[q].status = "verified"
        BY <2>1
      <3>2. \A q \in Payments : pay[q].status # "none" => pay'[q].status # "none"
        BY <2>1
      <3> QED BY <1>1, <1>2, <3>1, <3>2 DEF IInv, Knows
    <2> QED BY <1>3, <2>2, <2>4, <2>5, <2>6, <2>7, <2>8 DEF IInv, RowsAgree
  <1> QED BY <1>4, <1>5 DEF SettlePayment

\* fulfilPurchasedPayment reads the row.
LEMMA FulfilStep ==
    ASSUME NEW c \in Clients, IInv, Fulfil(c)
    PROVE  IInv'
  <1> DEFINE p == req[c].payment
  <1>1. /\ TypeOK /\ RowsAgree /\ p \in Payments
        /\ UNCHANGED <<pay, credits, gateway, activated>>
    BY DEF Fulfil, IInv, Knows
  <1>2. /\ req' \in [Clients -> Handler]
        /\ \A d \in Clients : d # c => req'[d] = req[d]
        /\ \/ req'[c].pc = "idle"
           \/ req'[c].pc = "activate" /\ req'[c].payment = p /\ pay[p].status = "verified"
    BY <1>1, GotoWrites, DoneWrites DEF Fulfil, Places
  <1>3. TypeOK'
    BY <1>1, <1>2 DEF TypeOK
  <1>4. RowsAgree'
    BY <1>1, SameRows
  <1>5. StartedByCreator'
    BY <1>2 DEF IInv, StartedByCreator
  <1>6. ASSUME NEW d \in Clients PROVE Knows(d)'
    <2>1. CASE d = c
      BY <1>1, <1>2, <2>1 DEF Knows
    <2>2. CASE d # c
      BY <1>1, <1>2, <2>2, StillKnows DEF IInv
    <2> QED BY <2>1, <2>2
  <1> QED BY <1>3, <1>4, <1>5, <1>6 DEF IInv

\* The plan is activated, or not.
LEMMA ActivatePlanStep ==
    ASSUME NEW c \in Clients, IInv, ActivatePlan(c)
    PROVE  IInv'
  <1> DEFINE p == req[c].payment
  <1>1. /\ TypeOK /\ RowsAgree /\ p \in Payments /\ pay[p].status = "verified"
        /\ UNCHANGED <<pay, credits, gateway>>
    BY DEF ActivatePlan, IInv, Knows
  <1>2. /\ req' \in [Clients -> Handler]
        /\ \A d \in Clients : d # c => req'[d] = req[d]
        /\ req'[c].payment = p
        /\ req'[c].pc = "mark_failed" \/ (req'[c].pc = "mark_ok" /\ p \in activated')
    BY <1>1, GotoWrites DEF ActivatePlan, Places
  <1>3. activated' = activated \/ activated' = activated \cup {p}
    BY DEF ActivatePlan
  <1>4. TypeOK'
    BY <1>1, <1>2, <1>3 DEF TypeOK
  <1>5. (CreditedExactlyOnce /\ VerifiedIsBacked /\ FailedHasExpired /\ Unborn)'
    BY <1>1 DEF RowsAgree, CreditedExactlyOnce, VerifiedIsBacked, FailedHasExpired, Unborn
  <1>6. (ActivatedIsVerified /\ FulfilledIsActivated)'
    BY <1>1, <1>3 DEF RowsAgree, ActivatedIsVerified, FulfilledIsActivated
  <1>7. StartedByCreator'
    BY <1>2 DEF IInv, StartedByCreator
  <1>8. ASSUME NEW d \in Clients PROVE Knows(d)'
    <2>1. CASE d = c
      BY <1>1, <1>2, <2>1 DEF Knows
    <2>2. CASE d # c
      BY <1>1, <1>2, <1>3, <2>2, StillKnows DEF IInv
    <2> QED BY <2>1, <2>2
  <1> QED BY <1>4, <1>5, <1>6, <1>7, <1>8 DEF IInv, RowsAgree

\* The outcome of the activation is recorded.
LEMMA MarkFulfilmentStep ==
    ASSUME NEW c \in Clients, IInv, MarkFulfilment(c)
    PROVE  IInv'
  <1> DEFINE p == req[c].payment
             f == IF req[c].pc = "mark_ok" THEN "succeeded" ELSE "failed"
  <1>1. /\ TypeOK /\ RowsAgree /\ p \in Payments
        /\ f = "succeeded" => p \in activated
        /\ UNCHANGED <<credits, gateway, activated>>
    BY DEF MarkFulfilment, IInv, Knows
  <1>2. /\ req' \in [Clients -> Handler]
        /\ \A d \in Clients : d # c => req'[d] = req[d]
        /\ req'[c].pc = "idle"
    BY <1>1, DoneWrites DEF MarkFulfilment
  <1>3. /\ pay' \in [Payments -> Row]
        /\ \A q \in Payments : q # p => pay'[q] = pay[q]
        /\ pay'[p].status = pay[p].status
        /\ pay'[p].purpose = pay[p].purpose
        /\ pay'[p].fulfilment = f
        /\ pay'[p].reviewed = pay[p].reviewed
    <2>1. f \in {"pending", "succeeded", "failed"}
      OBVIOUS
    <2>2. pay' = WithFulfilment(pay, p, f)
      BY DEF MarkFulfilment, WithFulfilment
    <2> QED BY ONLY <1>1, <2>1, <2>2, FulfilmentWrites
  <1>4. TypeOK'
    BY <1>1, <1>2, <1>3 DEF TypeOK
  <1>5. CreditedExactlyOnce'
    BY <1>1, <1>3 DEF RowsAgree, CreditedExactlyOnce
  <1>6. (VerifiedIsBacked /\ FailedHasExpired /\ Unborn)'
    BY <1>1, <1>3 DEF RowsAgree, VerifiedIsBacked, FailedHasExpired, Unborn
  <1>7. ActivatedIsVerified'
    BY <1>1, <1>3 DEF RowsAgree, ActivatedIsVerified, TypeOK
  <1>8. FulfilledIsActivated'
    BY <1>1, <1>3 DEF RowsAgree, FulfilledIsActivated
  <1>9. StartedByCreator'
    BY <1>2 DEF IInv, StartedByCreator
  <1>10. ASSUME NEW d \in Clients PROVE Knows(d)'
    <2>1. CASE d = c
      BY <1>2, <2>1 DEF Knows
    <2>2. CASE d # c
      <3>1. \A q \in Payments : pay[q].status = "verified" => pay'[q].status = "verified"
        BY <1>3
      <3>2. \A q \in Payments : pay[q].status # "none" => pay'[q].status # "none"
        BY <1>3
      <3> QED BY <1>1, <1>2, <2>2, <3>1, <3>2, StillKnows DEF IInv
    <2> QED BY <2>1, <2>2
  <1> QED
    BY <1>4, <1>5, <1>6, <1>7, <1>8, <1>9, <1>10 DEF IInv, RowsAgree

\* An administrator approves.
LEMMA ApproveStep ==
    ASSUME NEW c \in Clients, NEW p \in Payments, IInv, Approve(c, p)
    PROVE  IInv'
  <1>1. TypeOK /\ UNCHANGED <<pay, credits, gateway, activated>>
    BY DEF Approve, IInv
  <1>2. PICK l \in {"after", "settle"} : req' = [req EXCEPT ![c] = At(l, p, TRUE)]
    BY DEF Approve
  <1>3. /\ req' \in [Clients -> Handler]
        /\ \A d \in Clients : d # c => req'[d] = req[d]
        /\ req'[c].pc = l
        /\ req'[c].payment = p
        /\ req'[c].admin = TRUE
    BY <1>1, <1>2, AtWrites DEF Places
  <1>4. TypeOK'
    BY <1>1, <1>3 DEF TypeOK
  <1>5. RowsAgree'
    BY <1>1 DEF IInv, RowsAgree, CreditedExactlyOnce, VerifiedIsBacked,
      FailedHasExpired, ActivatedIsVerified, FulfilledIsActivated, Unborn
  <1>6. StartedByCreator'
    BY <1>3 DEF IInv, StartedByCreator
  <1>7. ASSUME NEW d \in Clients PROVE Knows(d)'
    <2>1. CASE d = c
      BY <1>3, <2>1 DEF Knows
    <2>2. CASE d # c
      BY <1>1, <1>3, <2>2 DEF IInv, Knows
    <2> QED BY <2>1, <2>2
  <1> QED BY <1>4, <1>5, <1>6, <1>7 DEF IInv

\* An administrator rejects.
LEMMA RejectPaymentStep ==
    ASSUME NEW p \in Payments, IInv, RejectPayment(p)
    PROVE  IInv'
  <1>1. /\ TypeOK /\ pay[p].status \in {"pending", "redirect"}
        /\ UNCHANGED <<credits, gateway, activated, req>>
    BY DEF RejectPayment, IInv
  <1>2. /\ pay' \in [Payments -> Row]
        /\ \A q \in Payments : q # p => pay'[q] = pay[q]
        /\ pay'[p].status = "failed"
        /\ pay'[p].purpose = pay[p].purpose
        /\ pay'[p].fulfilment = pay[p].fulfilment
        /\ pay'[p].reviewed
    BY <1>1, RejectWrites
  <1>3. TypeOK'
    BY <1>1, <1>2 DEF TypeOK
  <1>4. CreditedExactlyOnce'
    BY <1>1, <1>2 DEF IInv, RowsAgree, CreditedExactlyOnce
  <1>5. (VerifiedIsBacked /\ FailedHasExpired)'
    BY <1>1, <1>2 DEF IInv, RowsAgree, VerifiedIsBacked, FailedHasExpired
  <1>6. ActivatedIsVerified'
    BY <1>1, <1>2 DEF IInv, RowsAgree, ActivatedIsVerified, TypeOK
  <1>7. (FulfilledIsActivated /\ Unborn)'
    BY <1>1, <1>2 DEF IInv, RowsAgree, FulfilledIsActivated, Unborn
  <1>8. StartedByCreator'
    BY <1>1 DEF IInv, StartedByCreator
  <1>9. ASSUME NEW d \in Clients PROVE Knows(d)'
    <2>1. \A q \in Payments : pay[q].status = "verified" => pay'[q].status = "verified"
      BY <1>1, <1>2
    <2>2. \A q \in Payments : pay[q].status # "none" => pay'[q].status # "none"
      BY <1>1, <1>2
    <2> QED BY <1>1, <2>1, <2>2 DEF IInv, Knows
  <1> QED BY <1>3, <1>4, <1>5, <1>6, <1>7, <1>8, <1>9 DEF IInv, RowsAgree

\* The server dies.
LEMMA CrashStep ==
    ASSUME IInv, Crash
    PROVE  IInv'
  <1>1. TypeOK /\ RowsAgree /\ UNCHANGED <<pay, credits, gateway, activated>>
    BY DEF Crash, IInv
  <1>2. req' \in [Clients -> Handler] /\ \A d \in Clients : req'[d].pc = "idle"
    BY DEF Crash, Idle, At, Handler, Places
  <1>3. TypeOK'
    BY <1>1, <1>2 DEF TypeOK
  <1>4. RowsAgree'
    BY <1>1, SameRows
  <1>5. StartedByCreator' /\ \A d \in Clients : Knows(d)'
    BY <1>2 DEF StartedByCreator, Knows
  <1> QED BY <1>3, <1>4, <1>5 DEF IInv

\* Every step, and stuttering, preserves the invariant.
LEMMA Inductive == ASSUME IInv, [Next]_vars PROVE IInv'
  <1>1. CASE Outside
    BY <1>1, CustomerPaysStep, ExpiresStep, RejectPaymentStep DEF Outside
  <1>2. CASE Crash
    BY <1>2, CrashStep
  <1>3. ASSUME NEW c \in Clients, Begin(c) PROVE IInv'
    BY <1>3, CreatePaymentStep, ReturnStep, ApproveStep DEF Begin
  <1>4. ASSUME NEW c \in Clients, Step(c) PROVE IInv'
    <2>1. CASE StartRequest(c) \/ StartWrite(c)
      BY <2>1, StartRequestStep, StartWriteStep
    <2>2. CASE ZarinpalVerify(c) \/ CancelWrite(c) \/ FailWrite(c) \/ SettlePayment(c)
      BY <2>2, ZarinpalVerifyStep, CancelWriteStep, FailWriteStep, SettlePaymentStep
    <2>3. CASE Fulfil(c) \/ ActivatePlan(c) \/ MarkFulfilment(c)
      BY <2>3, FulfilStep, ActivatePlanStep, MarkFulfilmentStep
    <2> QED BY <1>4, <2>1, <2>2, <2>3 DEF Step
  <1>5. CASE UNCHANGED vars
    <2>1. (TypeOK /\ RowsAgree)'
      BY <1>5 DEF vars, IInv, TypeOK, RowsAgree, CreditedExactlyOnce, VerifiedIsBacked,
        FailedHasExpired, ActivatedIsVerified, FulfilledIsActivated, Unborn
    <2>2. StartedByCreator' /\ \A c \in Clients : Knows(c)'
      BY <1>5 DEF vars, IInv, StartedByCreator, Knows
    <2> QED BY <2>1, <2>2 DEF IInv
  <1> QED BY <1>1, <1>2, <1>3, <1>4, <1>5 DEF Next

\* What every handler knows holds in every reachable state.
THEOREM Invariance == Spec => []IInv
  BY InitInv, Inductive, PTL DEF Spec

\* Every column holds a value of its type.
THEOREM TypeCorrect == Spec => []TypeOK
  <1>1. IInv => TypeOK
    BY DEF IInv
  <1> QED BY <1>1, Invariance, PTL

\* The wallet is credited once for each verified top-up, and for nothing else.
THEOREM ExactlyOneCredit == Spec => []CreditedExactlyOnce
  <1>1. IInv => CreditedExactlyOnce
    BY DEF IInv, RowsAgree
  <1> QED BY <1>1, Invariance, PTL

\* No payment is verified that neither the gateway nor an administrator vouched for.
THEOREM NoUnbackedCredit == Spec => []VerifiedIsBacked
  <1>1. IInv => VerifiedIsBacked
    BY DEF IInv, RowsAgree
  <1> QED BY <1>1, Invariance, PTL

\* Only an administrator's rejection fails a payment whose money was taken.
THEOREM NoFailureOfCaptured == Spec => []CapturedNotFailed
  <1>1. IInv => CapturedNotFailed
    BY DEF IInv, RowsAgree, FailedHasExpired, CapturedNotFailed
  <1> QED BY <1>1, Invariance, PTL

\* No plan runs on a payment that is not verified, and no fulfilled purchase lacks its plan.
THEOREM PlansArePaidFor == Spec => []PlansFollowPayments
  <1>1. IInv => PlansFollowPayments
    BY DEF IInv, RowsAgree, PlansFollowPayments
  <1> QED BY <1>1, Invariance, PTL

-----------------------------------------------------------------------------
\* A step that leaves the statuses and the ledger alone leaves the receipts alone.
LEMMA SameStatuses ==
    ASSUME UNCHANGED credits, \A p \in Payments : pay'[p].status = pay[p].status
    PROVE  UNCHANGED <<Decided, credits>>
  BY DEF Decided

\* A receipt's decision changes where its payment's status does.
LEMMA DecidedAfter ==
    ASSUME NEW p \in Payments, NEW d,
           \A q \in Payments : q # p => pay'[q].status = pay[q].status,
           d = IF pay'[p].status = "verified" THEN "settled"
               ELSE IF pay'[p].status \in {"failed", "cancelled"} THEN "refused" ELSE "open"
    PROVE  Decided' = [Decided EXCEPT ![p] = d]
  BY DEF Decided

\* Every interleaving of the handlers decides each receipt once.
THEOREM Refinement == Spec => ImplementsReceipts
  <1>1. Init => R!Init
    BY DEF Init, R!Init, Decided
  <1>2. ASSUME IInv, [Next]_vars PROVE [R!Next]_(R!vars)
    <2> DEFINE Same == UNCHANGED <<Decided, credits>>
    <2>1. ASSUME NEW p \in Payments, CustomerPays(p) \/ Expires(p) PROVE Same
      BY <2>1, SameStatuses DEF CustomerPays, Expires
    <2>2. ASSUME NEW p \in Payments, RejectPayment(p) PROVE R!Refuse(p)
      <3>1. Decided[p] = "open"
        BY <2>2 DEF RejectPayment, Decided
      <3>2. Decided' = [Decided EXCEPT ![p] = "refused"]
        BY <1>2, <2>2, DecidedAfter DEF RejectPayment, IInv, TypeOK, Row
      <3> QED BY <2>2, <3>1, <3>2 DEF RejectPayment, R!Refuse
    <2>3. CASE Crash \/ UNCHANGED vars
      <3>1. pay' = pay /\ credits' = credits
        BY <2>3 DEF Crash, vars
      <3>2. \A p \in Payments : pay'[p].status = pay[p].status
        BY <3>1
      <3>3. Same
        BY <3>1, <3>2, SameStatuses
      <3> QED BY <3>3 DEF R!vars
    <2>4. ASSUME NEW c \in Clients, Begin(c) PROVE Same
      <3>1. ASSUME NEW p \in Payments, CreatePayment(c, p) PROVE Same
        <4>1. Decided' = Decided
          BY <1>2, <3>1 DEF CreatePayment, Decided, IInv, TypeOK, Row
        <4> QED BY <3>1, <4>1 DEF CreatePayment
      <3>2. ASSUME NEW p \in Payments, NEW ok \in BOOLEAN, Return(c, p, ok) PROVE Same
        BY <3>2, SameStatuses DEF Return
      <3>3. ASSUME NEW p \in Payments, Approve(c, p) PROVE Same
        BY <3>3, SameStatuses DEF Approve
      <3> QED BY <2>4, <3>1, <3>2, <3>3 DEF Begin
    <2>5. ASSUME NEW c \in Clients, Step(c)
          PROVE  Same \/ \E p \in Payments : R!Settle(p) \/ R!Refuse(p)
      <3> DEFINE p == req[c].payment
      <3>1. CASE StartWrite(c)
        <4>1. Decided' = Decided
          BY <1>2, <3>1 DEF StartWrite, Decided, IInv, TypeOK, Row, Knows
        <4> QED BY <3>1, <4>1 DEF StartWrite
      <3>2. CASE CancelWrite(c) \/ FailWrite(c)
        <4>1. p \in Payments
          BY <1>2, <3>2 DEF CancelWrite, FailWrite, IInv, Knows
        <4>2. CASE pay[p].status = "redirect"
          <5>1. Decided[p] = "open"
            BY <4>1, <4>2 DEF Decided
          <5>2. Decided' = [Decided EXCEPT ![p] = "refused"]
            <6>1. pay \in [Payments -> Row]
              BY <1>2 DEF IInv, TypeOK
            <6>2. CASE CancelWrite(c)
              <7>1. pay' = WithStatus(pay, p, "cancelled")
                BY <4>2, <6>2 DEF CancelWrite, WithStatus
              <7>2. /\ pay'[p].status = "cancelled"
                    /\ \A q \in Payments : q # p => pay'[q].status = pay[q].status
                BY ONLY <4>1, <6>1, <7>1 DEF WithStatus, Row
              <7> QED BY ONLY <4>1, <7>2, DecidedAfter
            <6>3. CASE FailWrite(c)
              <7>1. pay' = WithStatus(pay, p, "failed")
                BY <4>2, <6>3 DEF FailWrite, WithStatus
              <7>2. /\ pay'[p].status = "failed"
                    /\ \A q \in Payments : q # p => pay'[q].status = pay[q].status
                BY ONLY <4>1, <6>1, <7>1 DEF WithStatus, Row
              <7> QED BY ONLY <4>1, <7>2, DecidedAfter
            <6> QED BY <3>2, <6>2, <6>3
          <5> QED BY <3>2, <4>1, <5>1, <5>2 DEF CancelWrite, FailWrite, R!Refuse
        <4>3. CASE pay[p].status # "redirect"
          BY <1>2, <3>2, <4>1, <4>3, SameStatuses DEF CancelWrite, FailWrite, IInv, TypeOK, Row
        <4> QED BY <4>2, <4>3
      <3>3. CASE SettlePayment(c)
        <4>1. p \in Payments
          BY <1>2, <3>3 DEF SettlePayment, IInv, Knows
        <4>2. CASE UNCHANGED <<pay, credits>>
          BY <4>2, SameStatuses
        <4>3. CASE pay[p].status \in {"pending", "redirect"} /\ Credited(p, req[c].admin)
          <5>1. Decided[p] = "open"
            BY <4>1, <4>3 DEF Decided
          <5>2. Decided' = [Decided EXCEPT ![p] = "settled"]
            BY <1>2, <4>1, <4>3, DecidedAfter DEF Credited, IInv, TypeOK, Row
          <5>3. credits[p] = 0
            BY <1>2, <4>1, <4>3 DEF IInv, RowsAgree, CreditedExactlyOnce
          <5>4. credits' = credits \/ credits' = [credits EXCEPT ![p] = 1]
            <6>1. credits' = [credits EXCEPT ![p] = IF pay[p].purpose = "top_up" THEN @ + 1 ELSE @]
              BY <4>3 DEF Credited
            <6>2. credits \in [Payments -> Nat]
              BY <1>2 DEF IInv, TypeOK
            <6>3. CASE pay[p].purpose = "top_up"
              BY <4>1, <5>3, <6>1, <6>2, <6>3
            <6>4. CASE pay[p].purpose # "top_up"
              BY <4>1, <6>1, <6>2, <6>4
            <6> QED BY <6>3, <6>4
          <5> QED BY <4>1, <5>1, <5>2, <5>4 DEF R!Settle
        <4> QED BY <3>3, <4>2, <4>3 DEF SettlePayment
      <3>4. CASE MarkFulfilment(c)
        BY <1>2, <3>4, SameStatuses DEF MarkFulfilment, IInv, TypeOK, Row
      <3>5. CASE StartRequest(c) \/ ZarinpalVerify(c) \/ Fulfil(c) \/ ActivatePlan(c)
        BY <3>5, SameStatuses DEF StartRequest, ZarinpalVerify, Fulfil, ActivatePlan
      <3> QED BY <2>5, <3>1, <3>2, <3>3, <3>4, <3>5 DEF Step
    <2> QED BY <1>2, <2>1, <2>2, <2>3, <2>4, <2>5 DEF Next, Outside, R!Next, R!vars
  <1> QED BY <1>1, <1>2, Invariance, PTL DEF Spec, ImplementsReceipts, R!Spec

=============================================================================
