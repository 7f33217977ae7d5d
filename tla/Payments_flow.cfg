\* Two payments, two handlers: returns, reviews, expiry and crashes race.
CONSTANTS
    p1 = p1
    p2 = p2
    c1 = c1
    c2 = c2
    None = None
    Payments <- MCPaymentIds
    Clients <- MCClients
SPECIFICATION Spec
INVARIANTS TypeOK CreditedExactlyOnce VerifiedIsBacked CapturedNotFailed PlansFollowPayments
PROPERTIES ImplementsReceipts
SYMMETRY Symmetry
CHECK_DEADLOCK FALSE
