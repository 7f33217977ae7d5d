\* Two AI turns, a drain and every movement of the balance, in any order.
CONSTANTS
    Turns = {t1, t2}
    Amounts <- MCAmounts
    Costs <- MCCosts
    Credits <- MCCredits
    Required = 1
    MaxCredit = 3
    MaxCharge = 3

SPECIFICATION Spec

SYMMETRY Symmetry

INVARIANTS
    TypeOK
    BalanceIsLedger
    SpentIsLedger
    AiCostsAreCovered

PROPERTIES
    AllowanceNeverOverdrawn
    DebtIsTheLastResort
