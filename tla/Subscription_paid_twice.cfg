\* The administrator records a payment while the tick charges the wallet.
CONSTANTS
    Ticks = {t1}
    Requests = {r1}
    Plans <- MCPlans
    Price <- MCPrice
    Month = 2
    Grace = 2
    Calendar <- MCCalendar
    Amounts <- MCAmounts
    MaxNow = 4
    MaxActs = 4
    MaxFaults = 0

SPECIFICATION Spec

INVARIANT NeverOverCollected
