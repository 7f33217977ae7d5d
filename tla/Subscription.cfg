\* Two renewal ticks over the end of a calendar month; people act three times, one of them
\* perhaps a server death.
CONSTANTS
    Ticks = {t1, t2}
    Requests = {r1}
    Plans <- MCPlans
    Price <- MCPrice
    Month = 1
    Grace = 1
    Calendar <- MCCalendar
    Amounts = {2}
    MaxNow = 2
    MaxActs = 3
    MaxFaults = 1

SPECIFICATION FairSpec

INVARIANTS TypeOK BilledOnce

PROPERTIES OpensPaidPeriods NoFreeRide

CHECK_DEADLOCK FALSE
