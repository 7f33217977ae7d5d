---------------------------- MODULE Wallet_proofs ----------------------------
(***************************************************************************)
(* The accounts of Wallet, for any amounts, costs, credits and turns.  The *)
(* invariant IInv adds to the accounts the fact that keeps a refund from   *)
(* being clamped, that the reservation in flight is part of what was spent *)
(* on messages, and what the wallet's lock keeps true of a reading of the  *)
(* allowance until it is committed.                                        *)
(***************************************************************************)
EXTENDS Wallet, TLAPS

Rows == [balance : Nat, spent : Nat, ledger : [Kinds -> Nat]]

\* The wallet's columns are the sums of its ledger.
Agrees(w) ==
    /\ w.balance = (w.ledger["top_up"] + w.ledger["admin_grant"] + w.ledger["refund"])
                   - (w.ledger["admin_adjust"] + w.ledger["subscription"]
                      + w.ledger["feature_charge"] + w.ledger["ai_charge"])
    /\ w.spent = (w.ledger["admin_adjust"] + w.ledger["subscription"]
                  + w.ledger["feature_charge"] + w.ledger["ai_charge"]) - w.ledger["refund"]

\* What a settlement found left is still there, unless its month is over.
LeftIsThere == ~ settling.late /\ settling.left > 0 => plan.used + settling.left <= settling.credit

IInv ==
    /\ TypeOK
    /\ BalanceIsLedger
    /\ SpentIsLedger
    /\ AiCostsAreCovered
    /\ drain <= usage["messaging"]
    /\ LeftIsThere

-----------------------------------------------------------------------------
\* A covered movement keeps the wallet's columns and its ledger in step.
LEMMA LedgerWrites ==
    ASSUME NEW w \in Rows, NEW kind \in Kinds, NEW amount \in Nat,
           kind \notin CreditKinds => amount <= w.balance,
           kind = "refund" => amount <= w.spent,
           Agrees(w)
    PROVE  LET r == WriteLedger(w, kind, amount) IN
           /\ r \in Rows
           /\ r.ledger = [w.ledger EXCEPT ![kind] = @ + amount]
           /\ r.balance = IF kind \in CreditKinds THEN w.balance + amount ELSE w.balance - amount
           /\ Agrees(r)
  <1> DEFINE r == WriteLedger(w, kind, amount)
  <1>1. /\ w.balance \in Nat /\ w.spent \in Nat /\ w.ledger \in [Kinds -> Nat]
    BY DEF Rows
  <1>2. r.ledger = [w.ledger EXCEPT ![kind] = @ + amount] /\ r.ledger \in [Kinds -> Nat]
    BY <1>1 DEF WriteLedger
  <1>3. /\ r.balance \in Nat
        /\ r.balance = IF kind \in CreditKinds THEN w.balance + amount ELSE w.balance - amount
    BY <1>1 DEF WriteLedger, Floor
  <1>4. /\ r.spent \in Nat
        /\ r.spent = IF kind \notin CreditKinds THEN w.spent + amount
                     ELSE IF kind = "refund" THEN w.spent - amount ELSE w.spent
    BY <1>1 DEF WriteLedger, Floor
  <1>5. r \in Rows
    BY <1>2, <1>3, <1>4 DEF Rows, WriteLedger
  <1>6. Agrees(r)
    BY <1>1, <1>2, <1>3, <1>4 DEF Agrees, Kinds, CreditKinds
  <1> QED BY <1>2, <1>3, <1>5, <1>6

\* The accounts are those of Agrees.
LEMMA Accounts ==
    ASSUME TypeOK
    PROVE  /\ wallet \in Rows
           /\ BalanceIsLedger /\ SpentIsLedger <=>
                 /\ Agrees(wallet)
                 /\ usage["messaging"] = L("feature_charge") - L("refund")
                 /\ usage["ai"] = L("ai_charge")
  BY DEF TypeOK, Rows, BalanceIsLedger, SpentIsLedger, Agrees, L

\* Every initial state satisfies the invariant.
LEMMA InitInv == Init => IInv
  <1> SUFFICES ASSUME Init PROVE IInv
    OBVIOUS
  <1>1. TypeOK
    BY AmountsAssumption DEF Init, TypeOK, Kinds, CreditKinds, Features, TurnPlaces, NoSettlement
  <1>2. BalanceIsLedger /\ SpentIsLedger /\ AiCostsAreCovered /\ drain <= usage["messaging"]
    BY DEF Init, BalanceIsLedger, SpentIsLedger, AiCostsAreCovered, L, Kinds, CreditKinds, Features
  <1>3. LeftIsThere
    BY DEF Init, LeftIsThere, NoSettlement
  <1> QED BY <1>1, <1>2, <1>3 DEF IInv

\* Paying the debt from a row that agrees with its ledger.
LEMMA ReconcileWrites ==
    ASSUME IInv, NEW w \in Rows, Agrees(w), Reconcile(w)
    PROVE  /\ wallet' \in Rows /\ Agrees(wallet')
           /\ \E pay \in Nat :
                 /\ pay <= debt
                 /\ wallet'.ledger = [w.ledger EXCEPT !["ai_charge"] = @ + pay]
                 /\ usage' = [usage EXCEPT !["ai"] = @ + pay]
                 /\ debt' = debt - pay
  <1> DEFINE pay == Least(w.balance, debt)
  <1>1. w.balance \in Nat /\ debt \in Nat
    BY DEF IInv, TypeOK, Rows
  <1>2. pay \in Nat /\ pay <= w.balance /\ pay <= debt
    BY <1>1 DEF Least
  <1>3. "ai_charge" \in Kinds /\ "ai_charge" \notin CreditKinds
    BY DEF Kinds, CreditKinds
  <1>4. /\ wallet' = WriteLedger(w, "ai_charge", pay)
        /\ usage' = [usage EXCEPT !["ai"] = @ + pay]
        /\ debt' = debt - pay
    BY DEF Reconcile
  <1> HIDE DEF pay
  <1>5. /\ wallet' \in Rows /\ Agrees(wallet')
        /\ wallet'.ledger = [w.ledger EXCEPT !["ai_charge"] = @ + pay]
    <2> DEFINE r == WriteLedger(w, "ai_charge", pay)
    <2>1. /\ r \in Rows /\ Agrees(r)
          /\ r.ledger = [w.ledger EXCEPT !["ai_charge"] = @ + pay]
      <3>1. w \in Rows /\ Agrees(w)
        OBVIOUS
      <3> HIDE DEF r
      <3> QED BY ONLY <1>2, <1>3, <3>1, LedgerWrites DEF r
    <2> QED BY <1>4, <2>1
  <1> QED BY <1>2, <1>4, <1>5

\* A credit, and the debt it pays.
LEMMA CreditWalletStep ==
    ASSUME NEW kind \in {"top_up", "admin_grant"}, NEW amount \in Amounts,
           IInv, CreditWallet(kind, amount)
    PROVE  IInv'
  <1> DEFINE w == WriteLedger(wallet, kind, amount)
  <1>1. /\ wallet \in Rows /\ Agrees(wallet) /\ amount \in Nat
        /\ kind \in Kinds /\ kind \in CreditKinds /\ kind # "refund"
    BY Accounts, AmountsAssumption DEF IInv, Kinds, CreditKinds
  <1>2. w \in Rows /\ Agrees(w) /\ w.ledger = [wallet.ledger EXCEPT ![kind] = @ + amount]
    BY <1>1, LedgerWrites
  <1>3. Reconcile(w) /\ UNCHANGED <<plan, booked, turn, drain, settling>>
    BY DEF CreditWallet
  <1>4. wallet' \in Rows /\ Agrees(wallet')
    BY <1>2, <1>3, ReconcileWrites
  <1>5. PICK pay \in Nat :
          /\ pay <= debt
          /\ wallet'.ledger = [w.ledger EXCEPT !["ai_charge"] = @ + pay]
          /\ usage' = [usage EXCEPT !["ai"] = @ + pay]
          /\ debt' = debt - pay
    BY <1>2, <1>3, ReconcileWrites
  <1>6. TypeOK'
    BY <1>3, <1>4, <1>5 DEF IInv, TypeOK, Rows, Features
  <1>7. /\ L("ai_charge")' = L("ai_charge") + pay
        /\ L("feature_charge")' = L("feature_charge")
        /\ L("refund")' = L("refund")
    BY <1>1, <1>2, <1>5 DEF L, Rows, Kinds, CreditKinds
  <1>8. usage'["messaging"] = usage["messaging"] /\ usage'["ai"] = usage["ai"] + pay
    BY <1>5 DEF IInv, TypeOK, Features
  <1>9. (BalanceIsLedger /\ SpentIsLedger)'
    BY <1>4, <1>7, <1>8 DEF IInv, SpentIsLedger, BalanceIsLedger, Agrees, L
  <1>10. AiCostsAreCovered' /\ drain' <= usage'["messaging"]
    BY <1>1, <1>3, <1>5, <1>7, <1>8 DEF IInv, TypeOK, AiCostsAreCovered, L, Rows, Kinds
  <1>11. LeftIsThere'
    BY <1>3 DEF IInv, LeftIsThere
  <1> QED BY <1>6, <1>9, <1>10, <1>11 DEF IInv

\* An approved message top-up.
LEMMA GrantMessagesStep ==
    ASSUME NEW amount \in Amounts, IInv, GrantMessages(amount)
    PROVE  IInv'
  <1>1. /\ wallet \in Rows /\ Agrees(wallet) /\ amount \in Nat
        /\ "top_up" \in Kinds /\ "top_up" \in CreditKinds
    BY Accounts, AmountsAssumption DEF IInv, Kinds, CreditKinds
  <1>2. /\ wallet' = WriteLedger(wallet, "top_up", amount)
        /\ UNCHANGED <<usage, debt, plan, booked, turn, drain, settling>>
    BY DEF GrantMessages
  <1>3. /\ wallet' \in Rows /\ Agrees(wallet')
        /\ wallet'.ledger = [wallet.ledger EXCEPT !["top_up"] = @ + amount]
    BY <1>1, <1>2, LedgerWrites
  <1>4. TypeOK'
    BY <1>2, <1>3 DEF IInv, TypeOK, Rows
  <1>5. /\ L("ai_charge")' = L("ai_charge")
        /\ L("feature_charge")' = L("feature_charge")
        /\ L("refund")' = L("refund")
    BY <1>1, <1>3 DEF L, Rows, Kinds, CreditKinds
  <1>6. (BalanceIsLedger /\ SpentIsLedger)'
    BY <1>2, <1>3, <1>5 DEF IInv, SpentIsLedger, BalanceIsLedger, Agrees, L
  <1> QED BY <1>2, <1>4, <1>5, <1>6 DEF IInv, AiCostsAreCovered, LeftIsThere

\* A deduction or a fee.
LEMMA DeductStep ==
    ASSUME NEW kind \in {"admin_adjust", "subscription"}, NEW amount \in Amounts,
           IInv, Deduct(kind, amount)
    PROVE  IInv'
  <1>1. /\ wallet \in Rows /\ Agrees(wallet) /\ amount \in Nat
        /\ kind \in Kinds /\ kind \notin CreditKinds
    BY Accounts, AmountsAssumption DEF IInv, Kinds, CreditKinds
  <1>2. /\ amount <= wallet.balance
        /\ wallet' = WriteLedger(wallet, kind, amount)
        /\ UNCHANGED <<usage, debt, plan, booked, turn, drain, settling>>
    BY <1>1 DEF Deduct, Rows
  <1>3. /\ wallet' \in Rows /\ Agrees(wallet')
        /\ wallet'.ledger = [wallet.ledger EXCEPT ![kind] = @ + amount]
    BY <1>1, <1>2, LedgerWrites DEF CreditKinds
  <1>4. TypeOK'
    BY <1>2, <1>3 DEF IInv, TypeOK, Rows
  <1>5. /\ L("ai_charge")' = L("ai_charge")
        /\ L("feature_charge")' = L("feature_charge")
        /\ L("refund")' = L("refund")
    BY <1>1, <1>3 DEF L, Rows, Kinds, CreditKinds
  <1>6. (BalanceIsLedger /\ SpentIsLedger)'
    BY <1>2, <1>3, <1>5 DEF IInv, SpentIsLedger, BalanceIsLedger, Agrees, L
  <1> QED BY <1>2, <1>4, <1>5, <1>6 DEF IInv, AiCostsAreCovered, LeftIsThere

\* A charge that the balance covers, whether or not it may be refunded.
LEMMA ChargeStep ==
    ASSUME NEW amount \in Amounts, IInv, ChargeFeatureUse(amount),
           UNCHANGED <<debt, plan, booked, turn, settling>>,
           drain' \in {drain, amount}
    PROVE  IInv'
  <1>1. /\ wallet \in Rows /\ Agrees(wallet) /\ amount \in Nat
        /\ "feature_charge" \in Kinds /\ "feature_charge" \notin CreditKinds
    BY Accounts, AmountsAssumption DEF IInv, Kinds, CreditKinds
  <1>2. /\ amount <= wallet.balance
        /\ wallet' = WriteLedger(wallet, "feature_charge", amount)
        /\ usage' = [usage EXCEPT !["messaging"] = @ + amount]
    BY <1>1 DEF ChargeFeatureUse, Rows
  <1>3. /\ wallet' \in Rows /\ Agrees(wallet')
        /\ wallet'.ledger = [wallet.ledger EXCEPT !["feature_charge"] = @ + amount]
    BY <1>1, <1>2, LedgerWrites DEF CreditKinds
  <1>4. TypeOK'
    BY <1>1, <1>2, <1>3 DEF IInv, TypeOK, Rows, Features
  <1>5. /\ L("ai_charge")' = L("ai_charge")
        /\ L("feature_charge")' = L("feature_charge") + amount
        /\ L("refund")' = L("refund")
        /\ L("feature_charge") \in Nat /\ L("refund") \in Nat
    BY <1>1, <1>3 DEF L, Rows, Kinds, CreditKinds
  <1>6. usage'["messaging"] = usage["messaging"] + amount /\ usage'["ai"] = usage["ai"]
    BY <1>2 DEF IInv, TypeOK, Features
  <1>7. (BalanceIsLedger /\ SpentIsLedger)'
    BY <1>1, <1>2, <1>3, <1>5, <1>6 DEF IInv, SpentIsLedger, BalanceIsLedger, Agrees, L
  <1>8. drain' <= usage'["messaging"]
    BY <1>1, <1>6 DEF IInv, TypeOK, Features
  <1> QED BY <1>4, <1>5, <1>7, <1>8 DEF IInv, AiCostsAreCovered, LeftIsThere

\* A drain is settled: what was not sent comes back.
LEMMA SettleMessageSendStep ==
    ASSUME NEW actual \in 0..drain, IInv, SettleMessageSend(actual)
    PROVE  IInv'
  <1> DEFINE back == drain - actual
  <1>1. /\ wallet \in Rows /\ Agrees(wallet) /\ back \in Nat /\ back <= usage["messaging"]
        /\ "refund" \in Kinds /\ "refund" \in CreditKinds /\ usage["messaging"] \in Nat
    BY Accounts DEF IInv, Kinds, CreditKinds, TypeOK, Features
  <1>2. back <= wallet.spent
    BY <1>1 DEF Agrees, IInv, SpentIsLedger, L, Rows, Kinds, CreditKinds
  <1>3. /\ wallet' = WriteLedger(wallet, "refund", back)
        /\ usage' = [usage EXCEPT !["messaging"] = Floor(@ - back)]
        /\ drain' = 0
        /\ UNCHANGED <<debt, plan, booked, turn, settling>>
    BY DEF SettleMessageSend
  <1>4. /\ wallet' \in Rows /\ Agrees(wallet')
        /\ wallet'.ledger = [wallet.ledger EXCEPT !["refund"] = @ + back]
    BY <1>1, <1>2, <1>3, LedgerWrites
  <1>5. usage' = [usage EXCEPT !["messaging"] = @ - back]
    <2>1. Floor(usage["messaging"] - back) = usage["messaging"] - back
      BY <1>1 DEF Floor
    <2> QED BY <1>3, <2>1
  <1>6. TypeOK'
    BY <1>1, <1>3, <1>4, <1>5 DEF IInv, TypeOK, Rows, Features
  <1>7. /\ L("ai_charge")' = L("ai_charge")
        /\ L("feature_charge")' = L("feature_charge")
        /\ L("refund")' = L("refund") + back
        /\ L("feature_charge") \in Nat /\ L("refund") \in Nat
    BY <1>1, <1>4 DEF L, Rows, Kinds, CreditKinds
  <1>8. usage'["messaging"] = usage["messaging"] - back /\ usage'["ai"] = usage["ai"]
    BY <1>5 DEF IInv, TypeOK, Features
  <1>9. (BalanceIsLedger /\ SpentIsLedger)'
    BY <1>1, <1>4, <1>7, <1>8 DEF IInv, SpentIsLedger, BalanceIsLedger, Agrees, L
  <1> QED BY <1>1, <1>3, <1>6, <1>7, <1>8, <1>9 DEF IInv, AiCostsAreCovered, LeftIsThere

\* What a settlement takes from the allowance and from the wallet.
LEMMA Shares ==
    ASSUME IInv
    PROVE  /\ FromAllowance \in Nat /\ FromAllowance <= settling.cost /\ FromAllowance <= settling.left
           /\ FromWallet \in Nat /\ FromWallet <= wallet.balance
           /\ NewDebt \in Nat /\ FromAllowance + FromWallet + NewDebt = settling.cost
           /\ NewDebt > 0 => FromWallet = wallet.balance /\ FromAllowance = settling.left
  <1>1. settling.cost \in Nat /\ settling.left \in Nat /\ wallet.balance \in Nat
    BY DEF IInv, TypeOK
  <1>2. /\ FromAllowance \in Nat /\ FromAllowance <= settling.cost /\ FromAllowance <= settling.left
        /\ FromAllowance < settling.cost => FromAllowance = settling.left
    BY <1>1 DEF FromAllowance, Least
  <1>3. /\ FromWallet \in Nat /\ FromWallet <= wallet.balance
        /\ FromWallet <= settling.cost - FromAllowance
        /\ FromWallet < settling.cost - FromAllowance => FromWallet = wallet.balance
    BY <1>1, <1>2 DEF FromWallet, Least
  <1> QED BY <1>1, <1>2, <1>3 DEF NewDebt

\* What is left of the plan's credit when it is read.
LEMMA ReadingOfThePlan ==
    ASSUME IInv
    PROVE  Remaining \in Nat /\ (Remaining > 0 => plan.used + Remaining <= plan.credit)
  <1>1. plan.credit \in Nat /\ plan.used \in Nat
    BY AmountsAssumption DEF IInv, TypeOK
  <1> QED BY <1>1 DEF Remaining, Floor

\* A settlement takes the lock and reads, or finds its turn settled.
LEMMA SettleAiTurnStep ==
    ASSUME NEW t \in Turns, NEW cost \in Costs, IInv, SettleAiTurn(t, cost)
    PROVE  IInv'
  <1>1. UNCHANGED <<wallet, usage, debt, plan, booked, drain>>
    BY DEF SettleAiTurn
  <1>2. CASE t \in booked.turns
    <2>1. Goto(t, NextPlace(t)) /\ UNCHANGED settling
      BY <1>2 DEF SettleAiTurn
    <2>2. TypeOK'
      BY <1>1, <2>1 DEF Goto, NextPlace, IInv, TypeOK, TurnPlaces
    <2> QED BY <1>1, <2>1, <2>2
            DEF IInv, BalanceIsLedger, SpentIsLedger, AiCostsAreCovered, LeftIsThere, L
  <1>3. CASE t \notin booked.turns
    <2>1. /\ settling' = [of |-> {t}, cost |-> cost, credit |-> plan.credit,
                          left |-> Remaining, late |-> FALSE]
          /\ UNCHANGED turn
      BY <1>3 DEF SettleAiTurn
    <2>2. /\ settling'.left = Remaining /\ settling'.credit = plan.credit
          /\ settling' \in [of : SUBSET Turns, cost : Nat, credit : Nat, left : Nat,
                             late : BOOLEAN]
      BY <2>1, ReadingOfThePlan, AmountsAssumption DEF IInv, TypeOK
    <2>3. TypeOK'
      BY <1>1, <2>1, <2>2 DEF IInv, TypeOK
    <2>4. LeftIsThere'
      BY <1>1, <2>2, ReadingOfThePlan DEF LeftIsThere
    <2> QED BY <1>1, <2>1, <2>3, <2>4
            DEF IInv, BalanceIsLedger, SpentIsLedger, AiCostsAreCovered, L
  <1> QED BY <1>2, <1>3

\* A settlement commits.
LEMMA SettleAiWalletChargeStep ==
    ASSUME NEW t \in Turns, IInv, SettleAiWalletCharge(t)
    PROVE  IInv'
  <1>1. /\ wallet \in Rows /\ Agrees(wallet)
        /\ "ai_charge" \in Kinds /\ "ai_charge" \notin CreditKinds
    BY Accounts DEF IInv, Kinds, CreditKinds
  <1>2. /\ FromAllowance \in Nat /\ FromWallet \in Nat /\ FromWallet <= wallet.balance
        /\ NewDebt \in Nat /\ FromAllowance + FromWallet + NewDebt = settling.cost
    BY Shares
  <1>3. /\ booked' = [turns |-> booked.turns \cup {t},
                      cost |-> booked.cost + settling.cost,
                      allowance |-> booked.allowance + FromAllowance]
        /\ plan' = IF settling.late THEN plan ELSE [plan EXCEPT !.used = @ + FromAllowance]
        /\ wallet' = WriteLedger(wallet, "ai_charge", FromWallet)
        /\ usage' = [usage EXCEPT !["ai"] = @ + FromWallet]
        /\ debt' = debt + NewDebt
        /\ settling' = NoSettlement /\ drain' = drain
    BY DEF SettleAiWalletCharge
  <1>4. turn' \in [Turns -> [pc : TurnPlaces, debt : Nat, balance : Nat]]
    BY DEF SettleAiWalletCharge, Goto, NextPlace, IInv, TypeOK, TurnPlaces
  <1>5. /\ wallet' \in Rows /\ Agrees(wallet')
        /\ wallet'.ledger = [wallet.ledger EXCEPT !["ai_charge"] = @ + FromWallet]
    BY <1>1, <1>2, <1>3, LedgerWrites DEF CreditKinds
  <1>6. /\ plan' \in [credit : Credits, used : Nat]
        /\ booked' \in [turns : SUBSET Turns, cost : Nat, allowance : Nat]
        /\ settling' \in [of : SUBSET Turns, cost : Nat, credit : Nat, left : Nat,
                           late : BOOLEAN]
        /\ settling'.left = 0
    BY <1>2, <1>3 DEF IInv, TypeOK, NoSettlement
  <1>7. TypeOK'
    BY <1>1, <1>2, <1>3, <1>4, <1>5, <1>6 DEF IInv, TypeOK, Rows, Features
  <1>8. /\ L("ai_charge")' = L("ai_charge") + FromWallet
        /\ L("feature_charge")' = L("feature_charge")
        /\ L("refund")' = L("refund")
        /\ L("ai_charge") \in Nat
    BY <1>1, <1>5 DEF L, Rows, Kinds, CreditKinds
  <1>9. usage'["messaging"] = usage["messaging"] /\ usage'["ai"] = usage["ai"] + FromWallet
    BY <1>3 DEF IInv, TypeOK, Features
  <1>10. (BalanceIsLedger /\ SpentIsLedger)'
    BY <1>5, <1>8, <1>9 DEF IInv, SpentIsLedger, BalanceIsLedger, Agrees, L
  <1>11. AiCostsAreCovered'
    <2>1. /\ booked'.cost = booked.cost + settling.cost
          /\ booked'.allowance = booked.allowance + FromAllowance
      BY <1>3
    <2>2. /\ booked.cost \in Nat /\ booked.allowance \in Nat /\ debt \in Nat
          /\ booked.cost = booked.allowance + L("ai_charge") + debt
      BY DEF IInv, TypeOK, AiCostsAreCovered
    <2> QED BY <1>2, <1>3, <1>8, <2>1, <2>2 DEF AiCostsAreCovered
  <1>12. LeftIsThere'
    BY <1>6 DEF LeftIsThere
  <1> QED BY <1>3, <1>7, <1>9, <1>10, <1>11, <1>12 DEF IInv

\* The gate pays the debt first.
LEMMA CheckAiAffordabilityStep ==
    ASSUME NEW t \in Turns, IInv, CheckAiAffordability(t)
    PROVE  IInv'
  <1>1. wallet \in Rows /\ Agrees(wallet)
    BY Accounts DEF IInv
  <1>2. Reconcile(wallet) /\ UNCHANGED <<plan, booked, drain, settling>>
    BY DEF CheckAiAffordability
  <1>3. wallet' \in Rows /\ Agrees(wallet')
    BY <1>1, <1>2, ReconcileWrites
  <1>4. PICK pay \in Nat :
          /\ pay <= debt
          /\ wallet'.ledger = [wallet.ledger EXCEPT !["ai_charge"] = @ + pay]
          /\ usage' = [usage EXCEPT !["ai"] = @ + pay]
          /\ debt' = debt - pay
    BY <1>1, <1>2, ReconcileWrites
  <1>5. debt' \in Nat /\ wallet'.balance \in Nat
    BY <1>3, <1>4 DEF IInv, TypeOK, Rows
  <1>6. turn' \in [Turns -> [pc : TurnPlaces, debt : Nat, balance : Nat]]
    BY <1>5 DEF CheckAiAffordability, IInv, TypeOK, TurnPlaces
  <1>7. TypeOK'
    BY <1>2, <1>3, <1>4, <1>5, <1>6 DEF IInv, TypeOK, Rows, Features
  <1>8. /\ L("ai_charge")' = L("ai_charge") + pay
        /\ L("feature_charge")' = L("feature_charge")
        /\ L("refund")' = L("refund")
        /\ L("ai_charge") \in Nat
    BY <1>1, <1>4 DEF L, Rows, Kinds, CreditKinds
  <1>9. usage'["messaging"] = usage["messaging"] /\ usage'["ai"] = usage["ai"] + pay
    BY <1>4 DEF IInv, TypeOK, Features
  <1>10. (BalanceIsLedger /\ SpentIsLedger)'
    BY <1>3, <1>8, <1>9 DEF IInv, SpentIsLedger, BalanceIsLedger, Agrees, L
  <1>11. AiCostsAreCovered' /\ drain' <= usage'["messaging"]
    BY <1>2, <1>4, <1>8, <1>9 DEF IInv, TypeOK, AiCostsAreCovered
  <1>12. LeftIsThere'
    BY <1>2 DEF IInv, LeftIsThere
  <1> QED BY <1>7, <1>10, <1>11, <1>12 DEF IInv

\* The steps that move no money.
LEMMA QuietStep ==
    ASSUME IInv, UNCHANGED <<wallet, usage, debt, booked>>,
           \/ \E t \in Turns : GateAiTurn(t)
           \/ NewMonth
           \/ \E credit \in Credits : ChangePlan(credit)
           \/ Crash
           \/ UNCHANGED vars
    PROVE  IInv'
  <1>1. plan' \in [credit : Credits, used : Nat]
    BY DEF GateAiTurn, NewMonth, ChangePlan, Crash, vars, IInv, TypeOK
  <1>2. turn' \in [Turns -> [pc : TurnPlaces, debt : Nat, balance : Nat]]
    <2>1. ASSUME NEW t \in Turns, GateAiTurn(t) 
                 PROVE  turn' \in [Turns -> [pc : TurnPlaces, debt : Nat, balance : Nat]]
      BY <2>1 DEF GateAiTurn, Goto, IInv, TypeOK, TurnPlaces
    <2>2. CASE Crash
      BY <2>2 DEF Crash, IInv, TypeOK, TurnPlaces
    <2> QED BY <2>1, <2>2 DEF NewMonth, ChangePlan, vars, IInv, TypeOK
  <1>3. drain' \in {0, drain}
    BY DEF GateAiTurn, NewMonth, ChangePlan, Crash, vars
  <1>4. settling' \in {settling, [settling EXCEPT !.late = TRUE], NoSettlement}
    BY DEF GateAiTurn, NewMonth, ChangePlan, Crash, vars
  <1>5. /\ settling' \in [of : SUBSET Turns, cost : Nat, credit : Nat, left : Nat,
                         late : BOOLEAN]
        /\ settling' = settling \/ settling'.late \/ settling'.left = 0
    <2>1. settling \in [of : SUBSET Turns, cost : Nat, credit : Nat, left : Nat,
                       late : BOOLEAN]
      BY DEF IInv, TypeOK
    <2>2. CASE settling' = [settling EXCEPT !.late = TRUE]
      BY <2>1, <2>2
    <2>3. CASE settling' = NoSettlement
      BY <2>3 DEF NoSettlement
    <2> QED BY <1>4, <2>1, <2>2, <2>3
  <1>6. TypeOK'
    BY <1>1, <1>2, <1>3, <1>5 DEF IInv, TypeOK
  <1>7. (BalanceIsLedger /\ SpentIsLedger /\ AiCostsAreCovered)'
    BY DEF IInv, BalanceIsLedger, SpentIsLedger, AiCostsAreCovered, L
  <1>8. drain' <= usage'["messaging"]
    BY <1>3 DEF IInv, TypeOK, Features
  <1>9. LeftIsThere'
    <2>1. /\ plan.used \in Nat /\ settling.left \in Nat
          /\ plan'.used \in {0, plan.used}
      BY DEF GateAiTurn, NewMonth, ChangePlan, Crash, vars, IInv, TypeOK
    <2>2. CASE settling' = settling
      <3>1. ASSUME ~ settling.late, settling.left > 0
            PROVE  plan'.used + settling.left <= settling'.credit
        <4>1. plan.used + settling.left <= settling.credit
          BY <3>1 DEF IInv, LeftIsThere
        <4>2. settling.credit \in Nat
          BY AmountsAssumption DEF IInv, TypeOK
        <4> QED BY <2>1, <2>2, <4>1, <4>2
      <3> QED BY <2>2, <3>1 DEF LeftIsThere
    <2>3. CASE settling'.late \/ settling'.left = 0
      BY <2>3 DEF LeftIsThere
    <2> QED BY <1>5, <2>2, <2>3
  <1> QED BY <1>7, <1>8, <1>9, <1>6 DEF IInv

\* Every step, and stuttering, preserves the invariant.
LEMMA Inductive == ASSUME IInv, [Next]_vars PROVE IInv'
  <1>1. ASSUME NEW amount \in Amounts, Move(amount) PROVE IInv'
    <2>1. CASE Charge(amount) \/ ReserveMessageSend(amount)
      BY <2>1, ChargeStep DEF Charge, ReserveMessageSend
    <2> QED BY <1>1, <2>1, CreditWalletStep, GrantMessagesStep, DeductStep DEF Move
  <1>2. ASSUME NEW actual \in 0..drain, SettleMessageSend(actual) PROVE IInv'
    BY <1>2, SettleMessageSendStep
  <1>3. ASSUME NEW t \in Turns, Turn(t) PROVE IInv'
    <2>1. CASE GateAiTurn(t)
      BY <2>1, QuietStep DEF GateAiTurn
    <2> QED BY <1>3, <2>1, CheckAiAffordabilityStep, SettleAiTurnStep,
            SettleAiWalletChargeStep DEF Turn
  <1>4. CASE NewMonth \/ (\E credit \in Credits : ChangePlan(credit)) \/ Crash \/ UNCHANGED vars
    <2>1. UNCHANGED <<wallet, usage, debt, booked>>
      BY <1>4 DEF NewMonth, ChangePlan, Crash, vars
    <2> QED BY <1>4, <2>1, QuietStep
  <1> QED BY <1>1, <1>2, <1>3, <1>4 DEF Next

-----------------------------------------------------------------------------
\* The accounts and their support hold in every reachable state.
THEOREM Invariance == Spec => []IInv
  BY InitInv, Inductive, PTL DEF Spec

\* No column of the wallet, the counters, the debt or the allowance goes negative.
THEOREM TypeCorrect == Spec => []TypeOK
  <1>1. IInv => TypeOK
    BY DEF IInv
  <1> QED BY <1>1, Invariance, PTL

\* The balance column is the sum of the ledger.
THEOREM BalanceOfLedger == Spec => []BalanceIsLedger
  <1>1. IInv => BalanceIsLedger
    BY DEF IInv
  <1> QED BY <1>1, Invariance, PTL

\* The totals of what was spent are sums of the ledger.
THEOREM SpentOfLedger == Spec => []SpentIsLedger
  <1>1. IInv => SpentIsLedger
    BY DEF IInv
  <1> QED BY <1>1, Invariance, PTL

\* Every settled turn was paid for, by the allowance, the wallet or the debt.
THEOREM NoLostCost == Spec => []AiCostsAreCovered
  <1>1. IInv => AiCostsAreCovered
    BY DEF IInv
  <1> QED BY <1>1, Invariance, PTL

\* Only a settlement consumes the allowance or adds to the debt.
LEMMA SettlementWrites ==
    ASSUME IInv, [Next]_vars
    PROVE  \/ plan'.used <= plan.used /\ debt' <= debt
           \/ \E t \in Turns : SettleAiWalletCharge(t)
  <1>0. debt \in Nat /\ plan.used \in Nat /\ wallet \in Rows /\ Agrees(wallet)
    BY Accounts DEF IInv, TypeOK
  <1>1. ASSUME NEW w \in Rows, Agrees(w), Reconcile(w) PROVE debt' <= debt
    <2>1. PICK pay \in Nat : pay <= debt /\ debt' = debt - pay
      BY <1>1, ReconcileWrites
    <2> QED BY <1>0, <2>1
  <1>2. ASSUME NEW kind \in {"top_up", "admin_grant"}, NEW amount \in Amounts, CreditWallet(kind, amount)
        PROVE  plan'.used <= plan.used /\ debt' <= debt
    <2>1. amount \in Nat /\ kind \in Kinds /\ kind \in CreditKinds /\ kind # "refund"
      BY AmountsAssumption DEF Kinds, CreditKinds
    <2>2. WriteLedger(wallet, kind, amount) \in Rows /\ Agrees(WriteLedger(wallet, kind, amount))
      BY <1>0, <2>1, LedgerWrites
    <2> QED BY <1>0, <1>1, <1>2, <2>2 DEF CreditWallet
  <1>3. ASSUME NEW amount \in Amounts, Move(amount) PROVE plan'.used <= plan.used /\ debt' <= debt
    <2>1. CASE ~ \E kind \in {"top_up", "admin_grant"} : CreditWallet(kind, amount)
      <3>1. plan' = plan /\ debt' = debt
        BY <1>3, <2>1 DEF Move, GrantMessages, Deduct, Charge, ReserveMessageSend
      <3> QED BY <1>0, <3>1
    <2> QED BY <1>2, <2>1
  <1>4. ASSUME NEW t \in Turns, CheckAiAffordability(t) PROVE plan'.used <= plan.used /\ debt' <= debt
    BY <1>0, <1>1, <1>4 DEF CheckAiAffordability
  <1>5. ASSUME NEW t \in Turns, GateAiTurn(t) \/ \E cost \in Costs : SettleAiTurn(t, cost)
        PROVE  plan'.used <= plan.used /\ debt' <= debt
    BY <1>0, <1>5 DEF GateAiTurn, SettleAiTurn
  <1>6. ASSUME NEW t \in Turns, Turn(t), ~ SettleAiWalletCharge(t)
        PROVE  plan'.used <= plan.used /\ debt' <= debt
    BY <1>4, <1>5, <1>6 DEF Turn
  <1>7. CASE (\E actual \in 0..drain : SettleMessageSend(actual)) \/ Crash \/ UNCHANGED vars
    BY <1>0, <1>7 DEF SettleMessageSend, Crash, vars
  <1>8. CASE NewMonth \/ \E credit \in Credits : ChangePlan(credit)
    BY <1>0, <1>8 DEF NewMonth, ChangePlan, IInv, TypeOK
  <1> QED BY <1>3, <1>6, <1>7, <1>8 DEF Next

\* A settlement keeps within the credit it read and leaves a debt only when
\* nothing else is left.
LEMMA FreshSettlement ==
    ASSUME IInv, NEW t \in Turns, SettleAiWalletCharge(t)
    PROVE  /\ plan'.used > plan.used => plan'.used <= settling.credit
           /\ debt' > debt => /\ wallet'.balance = 0
                              /\ booked'.allowance - booked.allowance = settling.left
  <1>1. /\ debt \in Nat /\ plan.used \in Nat /\ wallet.balance \in Nat /\ booked.allowance \in Nat
        /\ settling.left \in Nat /\ settling.credit \in Nat
    BY AmountsAssumption DEF IInv, TypeOK
  <1>2. /\ FromAllowance \in Nat /\ FromAllowance <= settling.left
        /\ FromWallet \in Nat /\ FromWallet <= wallet.balance /\ NewDebt \in Nat
        /\ NewDebt > 0 => FromWallet = wallet.balance /\ FromAllowance = settling.left
    BY Shares
  <1>3. /\ plan' = IF settling.late THEN plan ELSE [plan EXCEPT !.used = @ + FromAllowance]
        /\ wallet'.balance = Floor(wallet.balance - FromWallet)
        /\ booked'.allowance = booked.allowance + FromAllowance
        /\ debt' = debt + NewDebt
    BY DEF SettleAiWalletCharge, WriteLedger, CreditKinds
  <1>4. ASSUME plan'.used > plan.used PROVE plan'.used <= settling.credit
    <2>1. ~ settling.late /\ plan'.used = plan.used + FromAllowance
      BY <1>1, <1>3, <1>4 DEF IInv, TypeOK
    <2>2. settling.left > 0
      BY <1>1, <1>2, <1>4, <2>1
    <2>3. plan.used + settling.left <= settling.credit
      BY <2>1, <2>2 DEF IInv, LeftIsThere
    <2> QED BY <1>1, <1>2, <2>1, <2>3
  <1>5. ASSUME debt' > debt
        PROVE  wallet'.balance = 0 /\ booked'.allowance - booked.allowance = settling.left
    <2>1. NewDebt > 0
      BY <1>1, <1>2, <1>3, <1>5
    <2>2. FromWallet = wallet.balance /\ FromAllowance = settling.left
      BY <1>2, <2>1
    <2>3. Floor(wallet.balance - FromWallet) = 0
      BY <1>1, <2>2 DEF Floor
    <2> QED BY <1>1, <1>3, <2>2, <2>3
  <1> QED BY <1>4, <1>5

\* No settlement consumes more of a month's credit than it found there was.
THEOREM AllowanceWithinCredit == Spec => AllowanceNeverOverdrawn
  <1>1. IInv /\ [Next]_vars => [plan'.used > plan.used => plan'.used <= settling.credit]_vars
    <2> SUFFICES ASSUME IInv, [Next]_vars, plan'.used > plan.used
                 PROVE  plan'.used <= settling.credit
      OBVIOUS
    <2>1. plan.used \in Nat /\ plan'.used \in Nat
      BY Inductive DEF IInv, TypeOK
    <2> QED BY <2>1, SettlementWrites, FreshSettlement
  <1> QED BY <1>1, Invariance, PTL DEF Spec, AllowanceNeverOverdrawn

\* No turn runs into debt while the allowance it found or the wallet has money.
THEOREM DebtOnlyWhenEmpty == Spec => DebtIsTheLastResort
  <1> DEFINE Empty == /\ wallet'.balance = 0
                      /\ booked'.allowance - booked.allowance = settling.left
  <1>1. IInv /\ [Next]_vars => [debt' > debt => Empty]_vars
    <2> SUFFICES ASSUME IInv, [Next]_vars, debt' > debt
                 PROVE  Empty
      OBVIOUS
    <2>1. debt \in Nat /\ debt' \in Nat
      BY Inductive DEF IInv, TypeOK
    <2> QED BY <2>1, SettlementWrites, FreshSettlement
  <1> QED BY <1>1, Invariance, PTL DEF Spec, DebtIsTheLastResort

=============================================================================
