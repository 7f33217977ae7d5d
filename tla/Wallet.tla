------------------------------- MODULE Wallet -------------------------------
(***************************************************************************)
(* The prepaid wallet of one business and everything that moves its money: *)
(* grants and payments, per-use charges and fees, the reservation of a     *)
(* message drain, and AI turns, which are gated before the provider is     *)
(* asked and settled after it answers, against the plan's monthly          *)
(* allowance, then the wallet, then a debt (wallet-service.ts,             *)
(* ai-wallet-billing.ts, ai-plan-allowance.ts, messaging-billing.ts).      *)
(*                                                                         *)
(* Grain.  Every movement is one transaction under the wallet's row lock.  *)
(* It is one step, except a settlement: it reads the plan and the month,   *)
(* which that lock does not guard, and commits in a later step.  What is   *)
(* outside the lock is a step of its own: the gate's reading of the        *)
(* allowance, the provider's answer, the sends of a drain.                 *)
(***************************************************************************)
EXTENDS Integers

CONSTANTS
    Turns,      \* AI turns, by request id
    Amounts,    \* the amounts granted, paid, charged and reserved
    Costs,      \* what a turn may turn out to cost
    Credits,    \* the monthly AI credits of the plans
    Required,   \* maxTurnRial, the gate's minimum
    MaxCredit,  \* bound: money ever put into the wallet
    MaxCharge   \* bound: feature charges, of which refunds are part

ASSUME AmountsAssumption ==
    /\ Amounts \subseteq Nat \ {0}
    /\ Costs \subseteq Nat
    /\ Credits \subseteq Nat
    /\ Required \in Nat
    /\ MaxCredit \in Nat
    /\ MaxCharge \in Nat

VARIABLES
    wallet,     \* business_wallets' row, and the sums of wallet_ledger by kind
    usage,      \* feature_usage.spent_rial by feature
    debt,       \* ai_wallet_debt.debt_rial
    plan,       \* the plan's effective AI credit and what this month used of it
    booked,     \* ai_wallet_settlements: the turns, and the sums of their columns
    turn,       \* [Turns -> the turn's place and what its gate read]
    drain,      \* the message drain in flight (tickInFlight lets one run)
    settling    \* the settlement that holds the wallet's row lock, if any:
                \* its turn and cost, the credit and what was left of it when
                \* it read them, and whether its month is over since

vars == <<wallet, usage, debt, plan, booked, turn, drain, settling>>

CreditKinds == {"top_up", "admin_grant", "refund"}
Kinds == CreditKinds \cup {"admin_adjust", "subscription", "feature_charge", "ai_charge"}
Features == {"ai", "messaging"}
TurnPlaces == {"new", "gate", "asking", "answered", "over"}

NoSettlement == [of |-> {}, cost |-> 0, credit |-> 0, left |-> 0, late |-> FALSE]
Unlocked == settling.of = {}

Least(a, b) == IF a < b THEN a ELSE b
Floor(x) == IF x < 0 THEN 0 ELSE x

\* One movement: the wallet's columns and its ledger row.
WriteLedger(w, kind, amount) ==
    [balance |-> Floor(IF kind \in CreditKinds THEN w.balance + amount ELSE w.balance - amount),
     spent   |-> IF kind \notin CreditKinds THEN w.spent + amount
                 ELSE IF kind = "refund" THEN Floor(w.spent - amount) ELSE w.spent,
     ledger  |-> [w.ledger EXCEPT ![kind] = @ + amount]]

\* Mutant: what was used is forgotten.
Remaining_Unused == plan.credit

\* resolveEffectivePlanAllowance: what is left of the month's credit.
Remaining == Floor(plan.credit - plan.used)

Init ==
    /\ wallet = [balance |-> 0, spent |-> 0, ledger |-> [k \in Kinds |-> 0]]
    /\ usage = [f \in Features |-> 0]
    /\ debt = 0
    /\ plan \in [credit : Credits, used : {0}]
    /\ booked = [turns |-> {}, cost |-> 0, allowance |-> 0]
    /\ turn = [t \in Turns |-> [pc |-> "new", debt |-> 0, balance |-> 0]]
    /\ drain = 0
    /\ settling = NoSettlement

-----------------------------------------------------------------------------
(* Money in.                                                                *)

PutIn(amount) == wallet.ledger["top_up"] + wallet.ledger["admin_grant"] + amount <= MaxCredit

\* Mutant: the whole balance is taken, whatever is owed.
Reconcile_WholeBalance(w) ==
    LET pay == w.balance IN
    /\ wallet' = WriteLedger(w, "ai_charge", pay)
    /\ usage' = [usage EXCEPT !["ai"] = @ + pay]
    /\ debt' = debt - pay

\* reconcileAiDebtTx: pay what the balance can of the AI debt.
Reconcile(w) ==
    LET pay == Least(w.balance, debt) IN
    /\ wallet' = WriteLedger(w, "ai_charge", pay)
    /\ usage' = [usage EXCEPT !["ai"] = @ + pay]
    /\ debt' = debt - pay

\* grantCredits, and settlePayment's credit of a verified top-up.
CreditWallet(kind, amount) ==
    /\ Unlocked
    /\ PutIn(amount)
    /\ Reconcile(WriteLedger(wallet, kind, amount))
    /\ UNCHANGED <<plan, booked, turn, drain, settling>>

\* grantMessageCreditInTransaction: an approved message top-up leaves the debt.
GrantMessages(amount) ==
    /\ Unlocked
    /\ PutIn(amount)
    /\ wallet' = WriteLedger(wallet, "top_up", amount)
    /\ UNCHANGED <<usage, debt, plan, booked, turn, drain, settling>>

-----------------------------------------------------------------------------
(* Money out.                                                               *)

PutOut(amount) == wallet.ledger["feature_charge"] + amount <= MaxCharge

\* deductCredits and chargeSubscriptionFeeTx.
Deduct(kind, amount) ==
    /\ Unlocked
    /\ wallet.balance >= amount
    /\ wallet' = WriteLedger(wallet, kind, amount)
    /\ UNCHANGED <<usage, debt, plan, booked, turn, drain, settling>>

\* Mutant: the use is charged without looking at the balance.
ChargeFeatureUse_Uncovered(amount) ==
    /\ Unlocked
    /\ PutOut(amount)
    /\ wallet' = WriteLedger(wallet, "feature_charge", amount)
    /\ usage' = [usage EXCEPT !["messaging"] = @ + amount]

\* The charge and its count, in one transaction, refused when not covered.
ChargeFeatureUse(amount) ==
    /\ Unlocked
    /\ PutOut(amount)
    /\ wallet.balance >= amount
    /\ wallet' = WriteLedger(wallet, "feature_charge", amount)
    /\ usage' = [usage EXCEPT !["messaging"] = @ + amount]

\* A use that is charged once and for all.
Charge(amount) ==
    /\ ChargeFeatureUse(amount)
    /\ UNCHANGED <<debt, plan, booked, turn, drain, settling>>

\* runBusinessMessageDrain reserves the whole batch, sends it row by row, and
\* settles at what went out.
ReserveMessageSend(amount) ==
    /\ drain = 0
    /\ ChargeFeatureUse(amount)
    /\ drain' = amount
    /\ UNCHANGED <<debt, plan, booked, turn, settling>>

\* Mutant: the refund is not taken back from the feature's counter.
SettleMessageSend_KeepsUsage(actual) ==
    /\ Unlocked
    /\ drain > 0
    /\ wallet' = WriteLedger(wallet, "refund", drain - actual)
    /\ drain' = 0
    /\ UNCHANGED <<usage, debt, plan, booked, turn, settling>>

SettleMessageSend(actual) ==
    /\ Unlocked
    /\ drain > 0
    /\ wallet' = WriteLedger(wallet, "refund", drain - actual)
    /\ usage' = [usage EXCEPT !["messaging"] = Floor(@ - (drain - actual))]
    /\ drain' = 0
    /\ UNCHANGED <<debt, plan, booked, turn, settling>>

-----------------------------------------------------------------------------
(* AI turns.                                                                *)

Goto(t, pc) == turn' = [turn EXCEPT ![t].pc = pc]

\* checkAiAffordability, its transaction: reconcile, and note what is left.
CheckAiAffordability(t) ==
    /\ Unlocked
    /\ turn[t].pc = "new"
    /\ Reconcile(wallet)
    /\ turn' = [turn EXCEPT ![t] = [pc |-> "gate", debt |-> debt', balance |-> wallet'.balance]]
    /\ UNCHANGED <<plan, booked, drain, settling>>

\* Then, outside the lock, the allowance; the provider is asked, or the turn refused.
GateAiTurn(t) ==
    /\ turn[t].pc = "gate"
    /\ Goto(t, IF turn[t].debt = 0 /\ turn[t].balance + Remaining >= Required
               THEN "asking" ELSE "over")
    /\ UNCHANGED <<wallet, usage, debt, plan, booked, drain, settling>>

NextPlace(t) == IF turn[t].pc = "asking" THEN "answered" ELSE "over"

\* settleAiTurn has the turn's cost (the stream's error path may settle it
\* again): settleAiWalletCharge locks the wallet, finds the request id settled,
\* or reads the plan and the month.
SettleAiTurn(t, cost) ==
    /\ Unlocked
    /\ turn[t].pc \in {"asking", "answered"}
    /\ IF t \in booked.turns
       THEN Goto(t, NextPlace(t)) /\ UNCHANGED settling
       ELSE /\ settling' = [of |-> {t}, cost |-> cost, credit |-> plan.credit,
                            left |-> Remaining, late |-> FALSE]
            /\ UNCHANGED turn
    /\ UNCHANGED <<wallet, usage, debt, plan, booked, drain>>

FromAllowance == Least(settling.cost, settling.left)
FromWallet == Least(settling.cost - FromAllowance, wallet.balance)
NewDebt == settling.cost - FromAllowance - FromWallet

\* Mutant: the debt row's conflict branch sets the new debt for the old.
SettleAiWalletCharge_DebtReplaced(t) ==
    /\ t \in settling.of
    /\ booked' = [turns |-> booked.turns \cup {t},
                  cost |-> booked.cost + settling.cost,
                  allowance |-> booked.allowance + FromAllowance]
    /\ plan' = IF settling.late THEN plan ELSE [plan EXCEPT !.used = @ + FromAllowance]
    /\ wallet' = WriteLedger(wallet, "ai_charge", FromWallet)
    /\ usage' = [usage EXCEPT !["ai"] = @ + FromWallet]
    /\ debt' = IF NewDebt > 0 THEN NewDebt ELSE debt
    /\ settling' = NoSettlement
    /\ Goto(t, NextPlace(t))
    /\ UNCHANGED drain

\* Mutant: the wallet pays before the allowance does.
SettleAiWalletCharge_WalletFirst(t) ==
    LET debited == Least(settling.cost, wallet.balance) IN
    /\ t \in settling.of
    /\ booked' = [turns |-> booked.turns \cup {t},
                  cost |-> booked.cost + settling.cost,
                  allowance |-> booked.allowance]
    /\ wallet' = WriteLedger(wallet, "ai_charge", debited)
    /\ usage' = [usage EXCEPT !["ai"] = @ + debited]
    /\ debt' = debt + (settling.cost - debited)
    /\ settling' = NoSettlement
    /\ Goto(t, NextPlace(t))
    /\ UNCHANGED <<plan, drain>>

\* And commits: the allowance of the month it read, then the balance, and what
\* neither covers is owed.
SettleAiWalletCharge(t) ==
    /\ t \in settling.of
    /\ booked' = [turns |-> booked.turns \cup {t},
                  cost |-> booked.cost + settling.cost,
                  allowance |-> booked.allowance + FromAllowance]
    /\ plan' = IF settling.late THEN plan ELSE [plan EXCEPT !.used = @ + FromAllowance]
    /\ wallet' = WriteLedger(wallet, "ai_charge", FromWallet)
    /\ usage' = [usage EXCEPT !["ai"] = @ + FromWallet]
    /\ debt' = debt + NewDebt
    /\ settling' = NoSettlement
    /\ Goto(t, NextPlace(t))
    /\ UNCHANGED drain

-----------------------------------------------------------------------------
(* Around it: a month begins, the plan changes, the server dies.            *)

\* A settlement that has read the old month still consumes that one's row.
NewMonth ==
    /\ plan.used > 0 \/ (~ Unlocked /\ ~ settling.late)
    /\ plan' = [plan EXCEPT !.used = 0]
    /\ settling' = IF Unlocked THEN settling ELSE [settling EXCEPT !.late = TRUE]
    /\ UNCHANGED <<wallet, usage, debt, booked, turn, drain>>

ChangePlan(credit) ==
    /\ plan.credit # credit
    /\ plan' = [plan EXCEPT !.credit = credit]
    /\ UNCHANGED <<wallet, usage, debt, booked, turn, drain, settling>>

\* Turns that were under way are lost with their cost, an open settlement is
\* rolled back, the reservation is kept.
Crash ==
    /\ drain > 0 \/ \E t \in Turns : turn[t].pc \in {"gate", "asking", "answered"}
    /\ turn' = [t \in Turns |->
                  IF turn[t].pc = "new" THEN turn[t] ELSE [turn[t] EXCEPT !.pc = "over"]]
    /\ drain' = 0
    /\ settling' = NoSettlement
    /\ UNCHANGED <<wallet, usage, debt, plan, booked>>

Move(amount) ==
    \/ \E kind \in {"top_up", "admin_grant"} : CreditWallet(kind, amount)
    \/ GrantMessages(amount)
    \/ \E kind \in {"admin_adjust", "subscription"} : Deduct(kind, amount)
    \/ Charge(amount)
    \/ ReserveMessageSend(amount)

Turn(t) ==
    \/ CheckAiAffordability(t)
    \/ GateAiTurn(t)
    \/ \E cost \in Costs : SettleAiTurn(t, cost)
    \/ SettleAiWalletCharge(t)

Next ==
    \/ \E amount \in Amounts : Move(amount)
    \/ \E actual \in 0..drain : SettleMessageSend(actual)
    \/ \E t \in Turns : Turn(t)
    \/ NewMonth
    \/ \E credit \in Credits : ChangePlan(credit)
    \/ Crash

Spec == Init /\ [][Next]_vars

-----------------------------------------------------------------------------
(* Properties.                                                              *)

\* Money is a natural number of Rial everywhere; no column goes negative.
TypeOK ==
    /\ wallet \in [balance : Nat, spent : Nat, ledger : [Kinds -> Nat]]
    /\ usage \in [Features -> Nat]
    /\ debt \in Nat
    /\ plan \in [credit : Credits, used : Nat]
    /\ booked \in [turns : SUBSET Turns, cost : Nat, allowance : Nat]
    /\ turn \in [Turns -> [pc : TurnPlaces, debt : Nat, balance : Nat]]
    /\ drain \in Nat
    /\ settling \in [of : SUBSET Turns, cost : Nat, credit : Nat, left : Nat,
                     late : BOOLEAN]

L(kind) == wallet.ledger[kind]

\* The balance is what the ledger says, so GREATEST(0, ...) never creates money
\* by swallowing a debit that the balance could not cover.
BalanceIsLedger ==
    wallet.balance = (L("top_up") + L("admin_grant") + L("refund"))
                     - (L("admin_adjust") + L("subscription") + L("feature_charge") + L("ai_charge"))

\* So is what was spent, in the wallet and by feature, whatever refunds, turns
\* and crashes came between.
SpentIsLedger ==
    /\ wallet.spent = (L("admin_adjust") + L("subscription") + L("feature_charge") + L("ai_charge"))
                      - L("refund")
    /\ usage["messaging"] = L("feature_charge") - L("refund")
    /\ usage["ai"] = L("ai_charge")

\* Every Rial of a settled turn is accounted for once: by the allowance, by the
\* wallet, or by the debt that is still owed.
AiCostsAreCovered == booked.cost = booked.allowance + L("ai_charge") + debt

\* The month's credit is not consumed beyond what the plan gave when the
\* settlement read it, whatever other turns, a new month or a change of plan came
\* between that reading, made outside any lock of the plan, and the commit.
AllowanceNeverOverdrawn == [][plan'.used > plan.used => plan'.used <= settling.credit]_vars

\* A turn runs into debt only when the wallet is empty and the turn has used all
\* of the allowance it found.
DebtIsTheLastResort ==
    [][debt' > debt => /\ wallet'.balance = 0
                       /\ booked'.allowance - booked.allowance = settling.left]_vars

=============================================================================
