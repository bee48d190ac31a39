-------------------------- MODULE OrderEscrowProofs --------------------------
(***************************************************************************)
(* Theorems about OrderEscrow, for every set of owners, tokens, rates and  *)
(* amounts and every bound.                                                *)
(***************************************************************************)
EXTENDS OrderEscrow, TLAPS

USE EscrowAssumption DEF EscrowAssumption

-----------------------------------------------------------------------------
(***************************************************************************)
(* Arithmetic of the price floor                                           *)
(***************************************************************************)

\* Integer division rounds down by less than one unit of the divisor.
LEMMA DivisionRoundsDown ==
  ASSUME NEW p \in Nat, NEW s \in Nat \ {0}
  PROVE  /\ p \div s \in Nat
         /\ (p \div s) * s + (s - 1) >= p
OBVIOUS

\* A fill that meets RequiredMinOut is at most RateScale - 1 scaled units short
\* of the rate (no swap delivers the whole i128 range).
LEMMA FloorShortfall ==
  ASSUME NEW amount \in Nat, NEW rate \in Nat, NEW out \in Nat,
         out <= MaxOut, out >= RequiredMinOut(amount, rate)
  PROVE  out * RateScale + (RateScale - 1) >= amount * rate
<1> DEFINE p == amount * rate
<1>1. p \in Nat
  OBVIOUS
<1>2. ~(p > I128Max)
  BY DEF RequiredMinOut
<1>3. out >= p \div RateScale
  BY <1>2 DEF RequiredMinOut
<1> HIDE DEF p
<1> DEFINE q == p \div RateScale
<1>4. q \in Nat /\ q * RateScale + (RateScale - 1) >= p
  BY <1>1, DivisionRoundsDown
<1>5. out >= q
  BY <1>3
<1> HIDE DEF q
<1>6. out * RateScale >= q * RateScale
  BY <1>4, <1>5
<1>7. out * RateScale \in Nat /\ q * RateScale \in Nat
  BY <1>4
<1>8. out * RateScale + (RateScale - 1) >= p
  BY <1>1, <1>4, <1>6, <1>7
<1> QED
  BY <1>8 DEF p

-----------------------------------------------------------------------------
(***************************************************************************)
(* The inductive invariant                                                 *)
(***************************************************************************)

\* Ids are handed out in order: the keys below the next id are the stored ones.
IdsInOrder ==
  \A kind \in Kinds : \A id \in 0 .. MaxOrders[kind] - 1 :
    status[<<kind, id>>] = "Absent" <=> id >= nextId[kind]

\* A key that is not stored has never moved a token.
AbsentUntouched ==
  \A k \in Keys : status[k] = "Absent" =>
    /\ remaining[k] = 0
    /\ receipts[k] = NoReceipts

\* What create_limit and create_dca have checked still holds of the terms.
TermsChecked ==
  \A k \in Keys : status[k] # "Absent" =>
    /\ terms[k].token_in # terms[k].token_out
    /\ k[1] = "dca" => terms[k].chunk > 0

Inv ==
  /\ TypeOK
  /\ IdsInOrder
  /\ AbsentUntouched
  /\ TermsChecked
  /\ DepositConserved
  /\ RateShortfallBounded
  /\ DcaSpendsWholeChunks

\* The keys are the kinds with their ids, counted from 0.
LEMMA KeysAreIds ==
  /\ \A k \in Keys : \E kind \in Kinds : \E id \in 0 .. MaxOrders[kind] - 1 :
       k = <<kind, id>>
  /\ \A kind \in Kinds : \A id \in 0 .. MaxOrders[kind] - 1 : <<kind, id>> \in Keys
BY DEF Keys

\* The contract starts with no orders and no funds.
LEMMA InitInv == Init => Inv
<1> SUFFICES ASSUME Init PROVE Inv
  OBVIOUS
<1> USE DEF Init
<1>1. TypeOK
  BY DEF TypeOK, Receipts, NoReceipts, Accounts
<1>2. IdsInOrder
  <2> SUFFICES ASSUME NEW kind \in Kinds, NEW id \in 0 .. MaxOrders[kind] - 1
               PROVE  status[<<kind, id>>] = "Absent" <=> id >= nextId[kind]
    BY DEF IdsInOrder
  <2>1. <<kind, id>> \in Keys
    BY KeysAreIds
  <2>2. MaxOrders[kind] \in Nat
    OBVIOUS
  <2> QED
    BY <2>1, <2>2
<1>3. AbsentUntouched /\ TermsChecked
  BY DEF AbsentUntouched, TermsChecked
<1>4. DepositConserved
  BY DEF DepositConserved, NoReceipts
<1>5. RateShortfallBounded /\ DcaSpendsWholeChunks
  BY DEF RateShortfallBounded, DcaSpendsWholeChunks
<1> QED
  BY <1>1, <1>2, <1>3, <1>4, <1>5 DEF Inv

\* A new order keeps the invariant: its deposit is what remains of it.
LEMMA StoreInv ==
  ASSUME Inv,
         NEW kind \in Kinds, NEW t \in Terms, NEW amount \in Nat, NEW start \in Nat,
         kind = "dca" => t.chunk > 0,
         Store(kind, t, amount, start)
  PROVE  Inv'
<1> DEFINE k == <<kind, nextId[kind]>>
<1> USE DEF Inv
<1>0. nextId[kind] \in 0 .. MaxOrders[kind] - 1 /\ amount \in Nat \ {0}
  BY DEF Store, TypeOK
<1>1. k \in Keys /\ k[1] = kind
  BY <1>0, KeysAreIds
<1>2. status[k] = "Absent"
  BY <1>0 DEF IdsInOrder, TypeOK
<1>3. remaining[k] = 0 /\ receipts[k] = NoReceipts
  BY <1>1, <1>2 DEF AbsentUntouched
<1>4. /\ terms' = [terms EXCEPT ![k] = t]
      /\ status' = [status EXCEPT ![k] = "Open"]
      /\ remaining' = [remaining EXCEPT ![k] = amount]
      /\ due' = [due EXCEPT ![k] = start]
      /\ nextId' = [nextId EXCEPT ![kind] = @ + 1]
      /\ receipts' = [receipts EXCEPT ![k].deposited = amount]
      /\ UNCHANGED <<ledger, initialized>>
      /\ t.token_in # t.token_out
  BY DEF Store
<1>5. balance' \in [Tokens -> [Accounts -> Nat]]
  <2>1. /\ t.token_in \in Tokens /\ t.owner \in Accounts /\ Escrow \in Accounts
        /\ t.owner # Escrow
    BY DEF Terms, Accounts
  <2>2. amount <= balance[t.token_in][t.owner]
    BY DEF Store
  <2>3. balance' = [balance EXCEPT ![t.token_in][t.owner] = @ - amount,
                                   ![t.token_in][Escrow] = @ + amount]
    BY DEF Store, Transfer
  <2> QED
    BY <2>1, <2>2, <2>3 DEF TypeOK
<1>6. receipts'[k] = [NoReceipts EXCEPT !.deposited = amount]
  BY <1>1, <1>3, <1>4 DEF TypeOK
<1>7. \A j \in Keys \ {k} :
        /\ status'[j] = status[j] /\ terms'[j] = terms[j]
        /\ remaining'[j] = remaining[j] /\ receipts'[j] = receipts[j]
  BY <1>1, <1>4 DEF TypeOK
<1>8. /\ status'[k] = "Open" /\ terms'[k] = t /\ remaining'[k] = amount
  BY <1>1, <1>4 DEF TypeOK
<1> HIDE DEF k
<1>9. receipts'[k] \in Receipts
  BY <1>6 DEF Receipts, NoReceipts
<1>10. TypeOK'
  <2>1. receipts' \in [Keys -> Receipts]
    BY <1>1, <1>4, <1>7, <1>9 DEF TypeOK
  <2>2. \A j \in Keys : status'[j] # "Absent" => terms'[j] \in Terms
    BY <1>7, <1>8 DEF TypeOK
  <2>3. nextId' \in [Kinds -> Nat]
    BY <1>4 DEF TypeOK
  <2> QED
    BY <1>1, <1>4, <1>5, <2>1, <2>2, <2>3 DEF TypeOK
<1>11. IdsInOrder'
  <2> SUFFICES ASSUME NEW kd \in Kinds, NEW id \in 0 .. MaxOrders[kd] - 1
               PROVE  status'[<<kd, id>>] = "Absent" <=> id >= nextId'[kd]
    BY DEF IdsInOrder
  <2>1. <<kd, id>> \in Keys
    BY KeysAreIds
  <2>2. CASE kd = kind /\ id = nextId[kind]
    BY <1>4, <1>8, <2>2 DEF TypeOK, k
  <2>3. CASE ~(kd = kind /\ id = nextId[kind])
    <3>1. <<kd, id>> # k
      BY <2>3 DEF k
    <3>2. status'[<<kd, id>>] = status[<<kd, id>>]
      BY <2>1, <3>1, <1>7
    <3>3. status[<<kd, id>>] = "Absent" <=> id >= nextId[kd]
      BY DEF IdsInOrder
    <3>4. nextId'[kd] = IF kd = kind THEN nextId[kd] + 1 ELSE nextId[kd]
      BY <1>4 DEF TypeOK
    <3>5. nextId[kd] \in Nat /\ id \in Nat
      BY DEF TypeOK
    <3> QED
      BY <2>3, <3>2, <3>3, <3>4, <3>5
  <2> QED
    BY <2>2, <2>3
<1>12. AbsentUntouched'
  BY <1>7, <1>8 DEF AbsentUntouched
<1>13. TermsChecked'
  BY <1>1, <1>4, <1>7, <1>8 DEF TermsChecked
<1>14. DepositConserved'
  BY <1>0, <1>6, <1>7, <1>8 DEF DepositConserved, NoReceipts
<1>15. RateShortfallBounded'
  <2>1. t.rate \in Nat
    BY DEF Terms
  <2>2. /\ receipts'[k].received = 0 /\ receipts'[k].fills = 0
        /\ receipts'[k].spent = 0
    BY <1>6 DEF NoReceipts
  <2> QED
    BY <1>7, <1>8, <2>1, <2>2 DEF RateShortfallBounded
<1>16. DcaSpendsWholeChunks'
  <2>1. t.chunk \in Nat
    BY DEF Terms
  <2>2. receipts'[k].fills = 0 /\ receipts'[k].spent = 0
    BY <1>6 DEF NoReceipts
  <2> QED
    BY <1>7, <1>8, <2>1, <2>2 DEF DcaSpendsWholeChunks
<1> QED
  BY <1>10, <1>11, <1>12, <1>13, <1>14, <1>15, <1>16 DEF Inv

\* A refund keeps the invariant: what was remaining becomes refunded.
LEMMA RefundInv ==
  ASSUME Inv, NEW k \in Keys, status[k] = "Open",
         NEW final \in {"Cancelled", "Expired"}, NEW topic,
         Refund(k, final, topic)
  PROVE  Inv'
<1> USE DEF Inv
<1>1. /\ remaining' = [remaining EXCEPT ![k] = 0]
      /\ status' = [status EXCEPT ![k] = final]
      /\ receipts' = [receipts EXCEPT ![k].refunded = @ + remaining[k]]
      /\ UNCHANGED <<ledger, initialized, nextId, terms, due>>
  BY DEF Refund
<1>2. terms[k] \in Terms
  BY DEF TypeOK
<1>3. balance' \in [Tokens -> [Accounts -> Nat]]
  <2> DEFINE t == terms[k].token_in
             o == terms[k].owner
             amount == remaining[k]
  <2>1. t \in Tokens /\ o \in Accounts /\ Escrow \in Accounts /\ o # Escrow
    BY <1>2 DEF Terms, Accounts
  <2>2. amount \in Nat /\ amount <= balance[t][Escrow]
    BY DEF Refund, TypeOK
  <2>3. balance' = [balance EXCEPT ![t][Escrow] = @ - amount, ![t][o] = @ + amount]
    BY DEF Refund, Transfer
  <2> HIDE DEF t, o, amount
  <2> QED
    BY <2>1, <2>2, <2>3 DEF TypeOK
<1>4. /\ status'[k] = final /\ remaining'[k] = 0 /\ terms' = terms
      /\ \A j \in Keys \ {k} :
           /\ status'[j] = status[j] /\ remaining'[j] = remaining[j]
           /\ receipts'[j] = receipts[j]
  BY <1>1 DEF TypeOK
<1>5. /\ receipts[k] \in Receipts /\ receipts' \in [Keys -> Receipts]
      /\ receipts'[k].deposited = receipts[k].deposited
      /\ receipts'[k].spent = receipts[k].spent
      /\ receipts'[k].received = receipts[k].received
      /\ receipts'[k].fills = receipts[k].fills
      /\ receipts'[k].refunded = receipts[k].refunded + remaining[k]
  BY <1>1 DEF TypeOK, Receipts
<1>6. TypeOK'
  <2>1. \A j \in Keys : status'[j] # "Absent" => terms'[j] \in Terms
    BY <1>4 DEF TypeOK
  <2> QED
    BY <1>1, <1>3, <1>5, <2>1 DEF TypeOK, Terminal
<1>7. IdsInOrder'
  <2>1. \A j \in Keys : status'[j] = "Absent" <=> status[j] = "Absent"
    BY <1>4
  <2> QED
    BY <1>1, <2>1, KeysAreIds DEF IdsInOrder
<1>8. AbsentUntouched' /\ TermsChecked'
  BY <1>4 DEF AbsentUntouched, TermsChecked
<1>9. DepositConserved'
  <2>1. /\ receipts[k].deposited = remaining[k] + receipts[k].spent + receipts[k].refunded
        /\ remaining[k] \in Nat /\ receipts[k].refunded \in Nat
        /\ receipts[k].spent \in Nat
    BY <1>5 DEF DepositConserved, TypeOK, Receipts
  <2> QED
    BY <1>4, <1>5, <2>1 DEF DepositConserved
<1>10. RateShortfallBounded'
  BY <1>4, <1>5 DEF RateShortfallBounded
<1>11. DcaSpendsWholeChunks'
  BY <1>4, <1>5 DEF DcaSpendsWholeChunks
<1> QED
  BY <1>6, <1>7, <1>8, <1>9, <1>10, <1>11 DEF Inv

\* A swap of an open order keeps the invariant when the amount fits what the
\* order has left, the output meets its rate, and a DCA order swaps a chunk.
LEMMA SwapInv ==
  ASSUME Inv, NEW k \in Keys, status[k] = "Open",
         NEW amount \in Nat, amount > 0, amount <= remaining[k],
         k[1] = "dca" => amount = ChunkOf(k),
         NEW routed \in Nat, NEW min_out \in Nat, NEW out \in Nat, NEW next \in Nat,
         out * RateScale + (RateScale - 1) >= amount * terms[k].rate,
         Swap(k, amount, routed, min_out, out, next)
  PROVE  Inv'
<1> USE DEF Inv
<1>1. /\ remaining' = [remaining EXCEPT ![k] = @ - amount]
      /\ status' = [status EXCEPT ![k] = IF remaining[k] = amount THEN "Filled" ELSE @]
      /\ due' = [due EXCEPT ![k] = IF remaining[k] = amount THEN @ ELSE next]
      /\ receipts' = [receipts EXCEPT ![k].spent = @ + routed,
                                      ![k].received = @ + out,
                                      ![k].fills = @ + 1]
      /\ UNCHANGED <<ledger, initialized, nextId, terms>>
      /\ routed = amount
  BY DEF Swap
<1>2. /\ terms[k] \in Terms /\ terms[k].token_in # terms[k].token_out
      /\ remaining[k] \in Nat
  BY DEF TypeOK, TermsChecked
<1>3. balance' \in [Tokens -> [Accounts -> Nat]]
  <2> DEFINE tin == terms[k].token_in
             tout == terms[k].token_out
             o == terms[k].owner
  <2>1. /\ tin \in Tokens /\ tout \in Tokens /\ tin # tout
        /\ o \in Accounts /\ Escrow \in Accounts /\ Market \in Accounts
        /\ o # Market /\ Escrow # Market
    BY <1>2 DEF Terms, Accounts
  <2>2. amount <= balance[tin][Escrow] /\ out <= balance[tout][Market]
    BY DEF Swap
  <2>3. balance' = [balance EXCEPT ![tin][Escrow] = @ - amount,
                                   ![tin][Market] = @ + amount,
                                   ![tout][Market] = @ - out,
                                   ![tout][o] = @ + out]
    BY DEF Swap
  <2> HIDE DEF tin, tout, o
  <2>4. balance' \in [Tokens -> [Accounts -> Int]]
    BY <2>1, <2>3 DEF TypeOK
  <2>5. /\ \A a \in Accounts : balance'[tin][a] =
             IF a = Escrow THEN balance[tin][a] - amount
             ELSE IF a = Market THEN balance[tin][a] + amount ELSE balance[tin][a]
        /\ \A a \in Accounts : balance'[tout][a] =
             IF a = Market THEN balance[tout][a] - out
             ELSE IF a = o THEN balance[tout][a] + out ELSE balance[tout][a]
        /\ \A t \in Tokens \ {tin, tout} : balance'[t] = balance[t]
    BY <2>1, <2>3 DEF TypeOK
  <2>6. \A t \in Tokens, a \in Accounts : balance'[t][a] \in Nat
    <3>1. \A t \in Tokens, a \in Accounts : balance[t][a] \in Nat
      BY DEF TypeOK
    <3> QED
      BY <2>1, <2>2, <2>5, <3>1
  <2> QED
    BY <2>4, <2>6
<1>4. /\ status'[k] = IF remaining[k] = amount THEN "Filled" ELSE "Open"
      /\ remaining'[k] = remaining[k] - amount /\ terms' = terms
      /\ \A j \in Keys \ {k} :
           /\ status'[j] = status[j] /\ remaining'[j] = remaining[j]
           /\ receipts'[j] = receipts[j]
  BY <1>1 DEF TypeOK
<1>5. /\ receipts[k] \in Receipts /\ receipts' \in [Keys -> Receipts]
      /\ receipts'[k].deposited = receipts[k].deposited
      /\ receipts'[k].spent = receipts[k].spent + amount
      /\ receipts'[k].received = receipts[k].received + out
      /\ receipts'[k].fills = receipts[k].fills + 1
      /\ receipts'[k].refunded = receipts[k].refunded
  BY <1>1 DEF TypeOK, Receipts
<1>6. /\ receipts[k].spent \in Nat /\ receipts[k].received \in Nat
      /\ receipts[k].fills \in Nat /\ receipts[k].refunded \in Nat
  BY <1>5 DEF Receipts
<1>7. TypeOK'
  <2>1. \A j \in Keys : status'[j] # "Absent" => terms'[j] \in Terms
    BY <1>2, <1>4 DEF TypeOK
  <2>2. remaining' \in [Keys -> Nat]
    <3>1. remaining[k] - amount \in Nat
      BY <1>2
    <3> QED
      BY <1>1, <3>1 DEF TypeOK
  <2>3. status' \in [Keys -> {"Absent", "Open"} \union Terminal]
    BY <1>1 DEF TypeOK, Terminal
  <2>4. due' \in [Keys -> Nat]
    BY <1>1 DEF TypeOK
  <2> QED
    BY <1>1, <1>3, <1>5, <2>1, <2>2, <2>3, <2>4 DEF TypeOK
<1>8. IdsInOrder'
  <2>1. \A j \in Keys : status'[j] = "Absent" <=> status[j] = "Absent"
    BY <1>4
  <2> QED
    BY <1>1, <2>1, KeysAreIds DEF IdsInOrder
<1>9. AbsentUntouched' /\ TermsChecked'
  BY <1>4 DEF AbsentUntouched, TermsChecked
<1>10. DepositConserved'
  <2>1. receipts[k].deposited = remaining[k] + receipts[k].spent + receipts[k].refunded
    BY DEF DepositConserved
  <2> QED
    BY <1>2, <1>4, <1>5, <1>6, <2>1 DEF DepositConserved
<1>11. RateShortfallBounded'
  <2> DEFINE rate == terms[k].rate
             R == receipts[k].received
             S == receipts[k].spent
             F == receipts[k].fills
  <2>1. rate \in Nat /\ R \in Nat /\ S \in Nat /\ F \in Nat
    BY <1>2, <1>6 DEF Terms
  <2>2. R * RateScale + F * (RateScale - 1) >= S * rate
    BY DEF RateShortfallBounded
  <2>3. out * RateScale + (RateScale - 1) >= amount * rate
    OBVIOUS
  <2> HIDE DEF rate, R, S, F
  <2>4. (R + out) * RateScale + (F + 1) * (RateScale - 1) >= (S + amount) * rate
    <3>1. (R + out) * RateScale = R * RateScale + out * RateScale
      BY <2>1
    <3>2. (F + 1) * (RateScale - 1) = F * (RateScale - 1) + (RateScale - 1)
      BY <2>1
    <3>3. (S + amount) * rate = S * rate + amount * rate
      BY <2>1
    <3>4. /\ R * RateScale \in Nat /\ out * RateScale \in Nat /\ S * rate \in Nat
          /\ amount * rate \in Nat /\ F * (RateScale - 1) \in Nat
      BY <2>1
    <3> QED
      BY <2>2, <2>3, <3>1, <3>2, <3>3, <3>4
  <2> QED
    BY <1>4, <1>5, <2>4 DEF RateShortfallBounded, rate, R, S, F
<1>12. DcaSpendsWholeChunks'
  <2> SUFFICES ASSUME k[1] = "dca"
               PROVE
                 /\ status'[k] # "Filled" =>
                      receipts'[k].spent = receipts'[k].fills * terms[k].chunk
                 /\ receipts'[k].spent <= receipts'[k].fills * terms[k].chunk
                 /\ status'[k] = "Filled" =>
                      receipts'[k].spent > (receipts'[k].fills - 1) * terms[k].chunk
    BY <1>4 DEF DcaSpendsWholeChunks
  <2> DEFINE chunk == terms[k].chunk
             S == receipts[k].spent
             F == receipts[k].fills
  <2>1. chunk \in Nat /\ S \in Nat /\ F \in Nat
    BY <1>2, <1>6 DEF Terms
  <2>2. S = F * chunk
    BY DEF DcaSpendsWholeChunks
  <2>3. amount <= chunk /\ (remaining[k] # amount => amount = chunk)
    BY <1>2, <2>1 DEF ChunkOf, Min2
  <2> HIDE DEF chunk, S, F
  <2>4. (F + 1) * chunk = F * chunk + chunk /\ (F + 1) - 1 = F /\ F * chunk \in Nat
    BY <2>1
  <2>5. /\ remaining[k] # amount => S + amount = (F + 1) * chunk
        /\ S + amount <= (F + 1) * chunk
        /\ S + amount > ((F + 1) - 1) * chunk
    BY <2>1, <2>2, <2>3, <2>4
  <2> QED
    BY <1>4, <1>5, <2>5 DEF chunk, S, F
<1> QED
  BY <1>7, <1>8, <1>9, <1>10, <1>11, <1>12 DEF Inv

(***************************************************************************)
(* What a step can be                                                      *)
(***************************************************************************)

\* A ledger closes, or the contract is initialized.
IdleStep ==
  /\ ledger' # ledger => ledger < MaxLedger /\ ledger' = ledger + 1
  /\ initialized' \in BOOLEAN
  /\ UNCHANGED <<nextId, terms, status, remaining, due, balance, receipts, events>>

\* The terms that create_limit and create_dca accept with a deposit and a start.
Accepted(kind, t, amount, start) ==
  /\ t.expires > ledger /\ t.expires <= MaxLedger + 1
  /\ IF kind = "limit"
       THEN t.chunk = 0 /\ t.interval = 0 /\ start = 0 /\ t.rate \in Rates
       ELSE /\ t.chunk \in Amounts /\ t.chunk > 0 /\ t.chunk <= amount
            /\ t.interval \in 1 .. MaxInterval
            /\ start \in 0 .. MaxLedger /\ start >= ledger /\ start < t.expires
            /\ t.rate \in Rates \union {0}

\* An order is created.
StoreStep ==
  \E kind \in Kinds, t \in Terms, amount \in Amounts, start \in Nat :
    /\ Accepted(kind, t, amount, start)
    /\ Store(kind, t, amount, start)

\* An open order is cancelled or reclaimed.
RefundStep ==
  \E k \in Keys, final \in {"Cancelled", "Expired"},
     topic \in {"cancelled", "expired"} :
    /\ status[k] = "Open"
    /\ topic = IF final = "Expired" THEN "expired" ELSE "cancelled"
    /\ final = "Expired" => ledger > terms[k].expires
    /\ Refund(k, final, topic)

\* The ledger in which an order that stays open can be filled next.
NextDue(k) == IF k[1] = "dca" THEN SaturatingAdd(ledger, terms[k].interval) ELSE due[k]

\* An open order is filled in time, with an output that meets its rate.
SwapStep ==
  \E k \in Keys, amount \in Amounts, routed, min_out, out, next \in Nat :
    /\ status[k] = "Open" /\ ledger < terms[k].expires
    /\ amount > 0 /\ amount <= remaining[k]
    /\ k[1] = "dca" => amount = ChunkOf(k) /\ ledger >= due[k]
    /\ next = NextDue(k)
    /\ out * RateScale + (RateScale - 1) >= amount * terms[k].rate
    /\ Swap(k, amount, routed, min_out, out, next)

\* Every step stores, swaps, refunds or leaves the orders alone.
LEMMA StepCases ==
  ASSUME Inv, Next
  PROVE  IdleStep \/ StoreStep \/ RefundStep \/ SwapStep
<1> USE DEF Inv
<1>1. CASE CloseLedger
  BY <1>1 DEF CloseLedger, IdleStep, TypeOK
<1>2. CASE Initialize
  BY <1>2 DEF Initialize, IdleStep
<1>3. ASSUME NEW owner \in Owners, NEW pair \in Pairs, Create(owner, pair)
      PROVE  StoreStep
  <2>0. pair[1] \in Tokens /\ pair[2] \in Tokens
    OBVIOUS
  <2>1. PICK amount \in Amounts, expires \in 0 .. MaxLedger + 1 :
          \/ \E rate \in Rates :
               CreateLimit(owner, pair[1], pair[2], amount, rate, expires)
          \/ \E chunk \in Amounts, interval \in 0 .. MaxInterval,
               start \in 0 .. MaxLedger, rate \in Rates \union {0} :
               CreateDca(owner, pair[1], pair[2], amount, chunk, interval, start,
                         rate, expires)
    BY <1>3 DEF Create
  <2>2. amount \in Nat /\ expires \in Nat
    OBVIOUS
  <2>3. ASSUME NEW rate \in Rates,
               CreateLimit(owner, pair[1], pair[2], amount, rate, expires)
        PROVE  StoreStep
    <3> DEFINE t == [owner |-> owner, token_in |-> pair[1], token_out |-> pair[2],
                     rate |-> rate, chunk |-> 0, interval |-> 0,
                     expires |-> expires]
    <3>1. t \in Terms
      BY <2>0, <2>2 DEF Terms
    <3>2. Store("limit", t, amount, 0) /\ Accepted("limit", t, amount, 0)
      BY <2>2, <2>3 DEF CreateLimit, Accepted
    <3> HIDE DEF t
    <3> QED
      BY <3>1, <3>2 DEF StoreStep, Kinds
  <2>4. ASSUME NEW chunk \in Amounts, NEW interval \in 0 .. MaxInterval,
               NEW start \in 0 .. MaxLedger, NEW rate \in Rates \union {0},
               CreateDca(owner, pair[1], pair[2], amount, chunk, interval, start,
                         rate, expires)
        PROVE  StoreStep
    <3> DEFINE t == [owner |-> owner, token_in |-> pair[1], token_out |-> pair[2],
                     rate |-> rate, chunk |-> chunk, interval |-> interval,
                     expires |-> expires]
    <3>1. t \in Terms
      BY <2>0, <2>2 DEF Terms
    <3>2. Store("dca", t, amount, start) /\ start \in Nat
      BY <2>4 DEF CreateDca
    <3>3. interval \in 1 .. MaxInterval
      BY <2>4 DEF CreateDca
    <3>4. expires <= MaxLedger + 1 /\ ledger \in Nat
      BY DEF TypeOK
    <3>5. Accepted("dca", t, amount, start)
      BY <2>2, <2>4, <3>3, <3>4 DEF CreateDca, Accepted
    <3> HIDE DEF t
    <3> QED
      BY <3>1, <3>2, <3>5 DEF StoreStep, Kinds
  <2> QED
    BY <2>1, <2>3, <2>4
<1>4. ASSUME NEW k \in Keys, NEW routed \in Amounts, NEW min_out \in 0 .. MaxOut,
             NEW out \in 0 .. MaxOut, NEW amount \in Amounts, k[1] = "limit",
             Fill(k, amount, routed, min_out, out)
      PROVE  SwapStep
  <2>1. /\ status[k] = "Open" /\ terms[k].rate \in Nat /\ amount \in Nat
        /\ amount > 0 /\ amount <= remaining[k] /\ due[k] \in Nat
        /\ Swap(k, amount, routed, min_out, out, due[k])
        /\ k[1] # "dca" /\ ledger < terms[k].expires
    BY <1>4 DEF Fill, TypeOK, Terms
  <2>2. min_out >= RequiredMinOut(amount, terms[k].rate) /\ out >= min_out
    BY <1>4 DEF Fill, Swap
  <2>3. out >= RequiredMinOut(amount, terms[k].rate)
    <3>1. RequiredMinOut(amount, terms[k].rate) \in Nat
      <4>1. amount * terms[k].rate \in Nat
        BY <2>1
      <4> QED
        BY <4>1, DivisionRoundsDown DEF RequiredMinOut
    <3> HIDE DEF RequiredMinOut
    <3> QED
      BY <2>2, <3>1
  <2>4. out * RateScale + (RateScale - 1) >= amount * terms[k].rate
    BY <2>1, <2>3, FloorShortfall
  <2>5. routed \in Nat /\ min_out \in Nat /\ out \in Nat
    OBVIOUS
  <2> DEFINE next == due[k]
  <2>6. /\ next \in Nat /\ next = NextDue(k)
        /\ Swap(k, amount, routed, min_out, out, next)
    BY <2>1 DEF NextDue
  <2> HIDE DEF next
  <2> QED
    BY <2>1, <2>4, <2>5, <2>6 DEF SwapStep
<1>5. ASSUME NEW k \in Keys, NEW routed \in Amounts, NEW min_out \in 0 .. MaxOut,
             NEW out \in 0 .. MaxOut, k[1] = "dca", FillDca(k, routed, min_out, out)
      PROVE  SwapStep
  <2> DEFINE amount == ChunkOf(k)
             next == SaturatingAdd(ledger, terms[k].interval)
  <2>1. /\ status[k] = "Open" /\ terms[k].rate \in Nat /\ terms[k] \in Terms
        /\ Swap(k, amount, routed, min_out, out, next)
        /\ ledger < terms[k].expires
    BY <1>5 DEF FillDca, TypeOK, Terms
  <2>2. amount \in Nat /\ amount > 0 /\ amount <= remaining[k]
    <3>1. /\ remaining[k] \in Nat /\ remaining[k] > 0
          /\ terms[k].chunk \in Nat /\ terms[k].chunk > 0
      BY <1>5, <2>1 DEF DepositConserved, TypeOK, Terms, TermsChecked
    <3> QED
      BY <3>1 DEF ChunkOf, Min2
  <2>3. next \in Nat /\ next = NextDue(k) /\ ledger >= due[k]
    BY <1>5, <2>1 DEF SaturatingAdd, Min2, TypeOK, Terms, NextDue, FillDca
  <2>a. amount \in Amounts
    BY <2>1 DEF Swap
  <2>4. out * RateScale + (RateScale - 1) >= amount * terms[k].rate
    <3>1. out >= min_out
      BY <2>1 DEF Swap
    <3>2. CASE terms[k].rate > 0
      <4>1. min_out >= RequiredMinOut(amount, terms[k].rate)
        BY <1>5, <3>2 DEF FillDca
      <4>2. RequiredMinOut(amount, terms[k].rate) \in Nat
        <5>1. amount * terms[k].rate \in Nat
          BY <2>1, <2>2
        <5> QED
          BY <5>1, DivisionRoundsDown DEF RequiredMinOut
      <4>3. out >= RequiredMinOut(amount, terms[k].rate)
        <5> HIDE DEF RequiredMinOut, amount
        <5> QED
          BY <3>1, <4>1, <4>2
      <4> QED
        BY <2>1, <2>2, <4>3, FloorShortfall
    <3>3. CASE terms[k].rate = 0
      <4>1. amount * terms[k].rate = 0 /\ out * RateScale \in Nat
        BY <2>2, <3>3
      <4> QED
        BY <4>1
    <3> QED
      BY <2>1, <3>2, <3>3
  <2> HIDE DEF next, amount
  <2>5. k[1] = "dca" => amount = ChunkOf(k)
    BY DEF amount
  <2> QED
    BY <2>1, <2>2, <2>3, <2>a, <2>4, <2>5 DEF SwapStep
<1>6. ASSUME NEW k \in Keys, ReclaimExpired(k)
      PROVE  RefundStep
  BY <1>6 DEF RefundStep, ReclaimExpired
<1>7. ASSUME NEW k \in Keys, NEW caller \in Owners, Cancel(k, caller)
      PROVE  RefundStep
  BY <1>7 DEF RefundStep, Cancel
<1> QED
  BY <1>1, <1>2, <1>3, <1>4, <1>5, <1>6, <1>7 DEF Next, Execute

\* A step that leaves the orders alone keeps the invariant.
LEMMA IdleInv == Inv /\ IdleStep => Inv'
<1> SUFFICES ASSUME Inv, IdleStep PROVE Inv'
  OBVIOUS
<1>1. TypeOK'
  BY DEF Inv, IdleStep, TypeOK
<1> QED
  BY <1>1 DEF Inv, IdleStep, IdsInOrder, AbsentUntouched, TermsChecked,
     DepositConserved, RateShortfallBounded, DcaSpendsWholeChunks

\* Every step keeps the invariant.
LEMMA NextInv == Inv /\ [Next]_vars => Inv'
<1> SUFFICES ASSUME Inv, [Next]_vars PROVE Inv'
  OBVIOUS
<1>1. CASE UNCHANGED vars
  <2>1. IdleStep
    BY <1>1 DEF vars, IdleStep, Inv, TypeOK
  <2> QED
    BY <2>1, IdleInv
<1>2. CASE Next
  <2>1. CASE IdleStep
    BY <2>1, IdleInv
  <2>2. CASE StoreStep
    <3>1. PICK kind \in Kinds, t \in Terms, amount \in Amounts, start \in Nat :
            Accepted(kind, t, amount, start) /\ Store(kind, t, amount, start)
      BY <2>2 DEF StoreStep
    <3>2. amount \in Nat /\ (kind = "dca" => t.chunk > 0)
      BY <3>1 DEF Accepted
    <3> QED
      BY <3>1, <3>2, StoreInv
  <2>3. CASE RefundStep
    BY <2>3, RefundInv DEF RefundStep
  <2>4. CASE SwapStep
    BY <2>4, SwapInv DEF SwapStep
  <2> QED
    BY <1>2, <2>1, <2>2, <2>3, <2>4, StepCases
<1> QED
  BY <1>1, <1>2

\* Inv is an invariant of the contract.
LEMMA SpecInv == Spec => []Inv
BY InitInv, NextInv, PTL DEF Spec

-----------------------------------------------------------------------------
(***************************************************************************)
(* The events, and the schedule of the DCA orders                          *)
(***************************************************************************)
Topics == {"created", "filled", "cancelled", "expired"}
Event == [topic : Topics, key : Keys, ledger : Nat, amount_in : Nat,
          amount_out : Nat, remaining : Nat, due : Nat]

DcaFill(e) == e.topic = "filled" /\ e.key[1] = "dca"

(***************************************************************************)
(* An open DCA order is due no earlier than its interval after each of its *)
(* fills.  saturating_add may cut that short at u32::MAX, but no order can *)
(* be filled there: its expiry is at most u32::MAX as well.                *)
(***************************************************************************)
Schedule ==
  /\ events \in Seq(Event)
  /\ \A k \in Keys : status[k] # "Absent" => terms[k].expires <= U32Max
  /\ \A k \in Keys : k[1] = "limit" => due[k] = 0
  /\ \A i \in DOMAIN events : status[events[i].key] # "Absent"
  /\ \A i \in DOMAIN events :
       DcaFill(events[i]) /\ status[events[i].key] = "Open" =>
         due[events[i].key] >=
           SaturatingAdd(events[i].ledger, terms[events[i].key].interval)
  /\ DcaPaced

\* What there is to know of the log when one event is added to it.
LEMMA Appended ==
  ASSUME events \in Seq(Event), NEW e \in Event, events' = Append(events, e)
  PROVE  /\ events' \in Seq(Event)
         /\ Len(events) \in Nat
         /\ DOMAIN events = 1 .. Len(events) /\ DOMAIN events' = 1 .. Len(events) + 1
         /\ \A i \in DOMAIN events : events[i] \in Event /\ events'[i] = events[i]
         /\ events'[Len(events) + 1] = e
OBVIOUS

\* The fields of an event have their types.
LEMMA EventFields ==
  ASSUME NEW e \in Event
  PROVE  /\ e.topic \in Topics /\ e.key \in Keys /\ e.ledger \in Nat
         /\ e.remaining \in Nat /\ e.due \in Nat
BY DEF Event

\* A key is of one of the two kinds.
LEMMA KindOfKey == ASSUME NEW k \in Keys PROVE k[1] \in Kinds
BY DEF Keys

\* The contract starts without events.
LEMMA InitSchedule == Init => Schedule
BY DEF Init, Schedule, DcaPaced, Event

(***************************************************************************)
(* A step that publishes e about an order k and leaves every other order   *)
(* alone keeps the schedule, when it does not open k earlier than that.    *)
(***************************************************************************)
LEMMA PublishKeepsSchedule ==
  ASSUME Inv, Inv', Schedule, NEW e \in Event, NEW k \in Keys,
         events' = Append(events, e), e.key = k,
         \A j \in Keys \ {k} : /\ status'[j] = status[j] /\ terms'[j] = terms[j]
                               /\ due'[j] = due[j],
         status'[k] # "Absent", terms'[k].expires <= U32Max,
         k[1] = "limit" => due'[k] = 0,
         status[k] # "Absent" => terms'[k] = terms[k],
         DcaFill(e) =>
           /\ status[k] = "Open" /\ e.ledger >= due[k] /\ e.ledger < U32Max
           /\ status'[k] = "Open" =>
                due'[k] = SaturatingAdd(e.ledger, terms[k].interval),
         ~DcaFill(e) => (status'[k] # "Open" \/ status[k] = "Absent" \/ k[1] = "limit")
  PROVE  Schedule'
<1> DEFINE n == Len(events)
<1>1. /\ events' \in Seq(Event) /\ n \in Nat
      /\ DOMAIN events = 1 .. n /\ DOMAIN events' = 1 .. n + 1
      /\ \A i \in DOMAIN events : events[i] \in Event /\ events'[i] = events[i]
      /\ events'[n + 1] = e
  BY Appended DEF Schedule
<1> HIDE DEF n
<1>2. \A i \in DOMAIN events : /\ events[i].key \in Keys /\ events[i].ledger \in Nat
                               /\ status[events[i].key] # "Absent"
  BY <1>1, EventFields DEF Schedule
<1>3. \A j \in Keys : status[j] # "Absent" =>
        terms'[j] = terms[j] /\ terms[j].interval \in Nat
  BY DEF Inv, TypeOK, Terms
<1>4. \A j \in Keys : status'[j] # "Absent" => terms'[j].expires <= U32Max
  BY DEF Schedule
<1>5. \A j \in Keys : j[1] = "limit" => due'[j] = 0
  BY DEF Schedule
<1>6. \A i \in DOMAIN events' : status'[events'[i].key] # "Absent"
  BY <1>1, <1>2
<1>7. ASSUME NEW i \in DOMAIN events', DcaFill(events'[i]),
             status'[events'[i].key] = "Open"
      PROVE  due'[events'[i].key] >=
               SaturatingAdd(events'[i].ledger, terms'[events'[i].key].interval)
  <2>1. CASE i = n + 1
    <3>1. /\ status[k] = "Open" /\ terms'[k].interval \in Nat
          /\ due'[k] = SaturatingAdd(e.ledger, terms'[k].interval)
      BY <1>1, <1>3, <1>7, <2>1
    <3>2. SaturatingAdd(e.ledger, terms'[k].interval) \in Nat
      BY <3>1, EventFields DEF SaturatingAdd, Min2
    <3> QED
      BY <1>1, <2>1, <3>1, <3>2
  <2>2. CASE i \in DOMAIN events
    <3> DEFINE j == events[i].key
    <3>1. events'[i] = events[i] /\ j \in Keys /\ status[j] # "Absent"
      BY <1>1, <1>2, <2>2
    <3>2. CASE j # k
      <4>1. status[j] = "Open" /\ due'[j] = due[j] /\ terms'[j] = terms[j]
        BY <1>7, <3>1, <3>2
      <4> QED
        BY <1>7, <2>2, <3>1, <4>1 DEF Schedule
    <3>3. CASE j = k
      <4>0. k[1] = "dca"
        BY <1>7, <3>1, <3>3 DEF DcaFill
      <4>1. DcaFill(e)
        BY <1>7, <3>1, <3>3, <4>0
      <4>2. due'[k] = SaturatingAdd(e.ledger, terms[k].interval) /\ e.ledger >= due[k]
        BY <1>7, <3>1, <3>3, <4>1
      <4>3. due[k] >= SaturatingAdd(events[i].ledger, terms[k].interval)
        BY <1>7, <2>2, <3>1, <3>3, <4>1 DEF Schedule
      <4>4. /\ e.ledger \in Nat /\ events[i].ledger \in Nat /\ due[k] \in Nat
            /\ terms[k].interval \in Nat /\ terms'[k] = terms[k]
        BY <1>2, <1>3, <2>2, <3>3, EventFields DEF Inv, TypeOK
      <4>5. \A x, y, w, d \in Nat : x >= d /\ d >= SaturatingAdd(y, w)
                                   => SaturatingAdd(x, w) >= SaturatingAdd(y, w)
        BY DEF SaturatingAdd, Min2
      <4>6. SaturatingAdd(e.ledger, terms[k].interval)
              >= SaturatingAdd(events[i].ledger, terms[k].interval)
        BY <4>2, <4>3, <4>4, <4>5
      <4> QED
        BY <3>1, <3>3, <4>2, <4>4, <4>6
    <3> QED
      BY <3>2, <3>3
  <2> QED
    BY <1>1, <2>1, <2>2
<1>8. DcaPaced'
  <2> SUFFICES ASSUME NEW i \in DOMAIN events', NEW j \in DOMAIN events', i < j,
                      events'[i].topic = "filled", events'[j].topic = "filled",
                      events'[i].key = events'[j].key, events'[i].key[1] = "dca"
               PROVE  events'[j].ledger >=
                        events'[i].ledger + terms'[events'[i].key].interval
    BY DEF DcaPaced
  <2>1. i \in DOMAIN events
    BY <1>1
  <2>2. CASE j \in DOMAIN events
    <3>1. events'[i] = events[i] /\ events'[j] = events[j]
      BY <1>1, <2>1, <2>2
    <3>2. events[j].ledger >= events[i].ledger + terms[events[i].key].interval
      BY <2>1, <2>2, <3>1 DEF Schedule, DcaPaced
    <3> QED
      BY <1>2, <1>3, <2>1, <3>1, <3>2
  <2>3. CASE j = n + 1
    <3>1. events'[j] = e /\ events'[i] = events[i] /\ events[i].key = k
      BY <1>1, <2>1, <2>3
    <3>2. DcaFill(e) /\ DcaFill(events[i])
      BY <3>1 DEF DcaFill
    <3>3. due[k] >= SaturatingAdd(events[i].ledger, terms[k].interval)
      BY <2>1, <3>1, <3>2 DEF Schedule
    <3>4. e.ledger >= due[k] /\ e.ledger < U32Max
      BY <3>2
    <3>5. /\ e.ledger \in Nat /\ events[i].ledger \in Nat /\ due[k] \in Nat
          /\ terms[k].interval \in Nat /\ terms'[k] = terms[k]
      BY <1>2, <1>3, <2>1, <3>1, EventFields DEF Inv, TypeOK
    <3>6. e.ledger >= events[i].ledger + terms[k].interval
      BY <3>3, <3>4, <3>5 DEF SaturatingAdd, Min2
    <3> QED
      BY <3>1, <3>5, <3>6
  <2> QED
    BY <1>1, <2>2, <2>3
<1> QED
  BY <1>1, <1>4, <1>5, <1>6, <1>7, <1>8 DEF Schedule

\* Every step keeps the schedule.
LEMMA NextSchedule == Inv /\ Inv' /\ Schedule /\ [Next]_vars => Schedule'
<1> SUFFICES ASSUME Inv, Inv', Schedule, [Next]_vars PROVE Schedule'
  OBVIOUS
<1>1. CASE UNCHANGED vars
  BY <1>1 DEF vars, Schedule, DcaPaced
<1>2. CASE IdleStep
  BY <1>2 DEF IdleStep, Schedule, DcaPaced
<1>3. CASE StoreStep
  <2>1. PICK kind \in Kinds, t \in Terms, amount \in Amounts, start \in Nat :
          Accepted(kind, t, amount, start) /\ Store(kind, t, amount, start)
    BY <1>3 DEF StoreStep
  <2>2. nextId[kind] \in 0 .. MaxOrders[kind] - 1 /\ t.expires <= U32Max
    BY <2>1 DEF Store, Inv, TypeOK, Terms, SaturatingAdd, Min2
  <2>3. PICK k \in Keys : k = <<kind, nextId[kind]>>
    BY <2>2, KeysAreIds
  <2>4. status[k] = "Absent" /\ k[1] = kind
    BY <2>2, <2>3 DEF Inv, IdsInOrder
  <2>5. /\ terms' = [terms EXCEPT ![k] = t]
        /\ status' = [status EXCEPT ![k] = "Open"]
        /\ remaining' = [remaining EXCEPT ![k] = amount]
        /\ due' = [due EXCEPT ![k] = start]
        /\ Publish("created", k, amount, 0)
    BY <2>1, <2>3 DEF Store
  <2> DEFINE e == [topic |-> "created", key |-> k, ledger |-> ledger,
                   amount_in |-> amount, amount_out |-> 0,
                   remaining |-> remaining'[k], due |-> due'[k]]
  <2>6. e \in Event
    BY DEF Event, Topics, Inv, TypeOK
  <2>7. events' = Append(events, e) /\ e.key = k /\ ~DcaFill(e)
    BY <2>5 DEF Publish, DcaFill
  <2> HIDE DEF e
  <2>8. \A j \in Keys \ {k} : /\ status'[j] = status[j] /\ terms'[j] = terms[j]
                              /\ due'[j] = due[j]
    BY <2>5 DEF Inv, TypeOK
  <2>9. /\ status'[k] = "Open" /\ terms'[k] = t
        /\ k[1] = "limit" => due'[k] = 0
    BY <2>1, <2>4, <2>5 DEF Inv, TypeOK, Accepted
  <2> QED
    BY <2>2, <2>4, <2>6, <2>7, <2>8, <2>9, PublishKeepsSchedule
<1>4. CASE RefundStep
  <2>1. PICK k \in Keys, final \in {"Cancelled", "Expired"},
             topic \in {"cancelled", "expired"} :
          status[k] = "Open" /\ Refund(k, final, topic)
    BY <1>4 DEF RefundStep
  <2> DEFINE e == [topic |-> topic, key |-> k, ledger |-> ledger,
                   amount_in |-> remaining[k], amount_out |-> 0,
                   remaining |-> remaining'[k], due |-> due'[k]]
  <2>2. e \in Event
    BY DEF Event, Topics, Inv, TypeOK
  <2>3. events' = Append(events, e) /\ e.key = k /\ ~DcaFill(e)
    BY <2>1 DEF Refund, Publish, DcaFill
  <2> HIDE DEF e
  <2>4. /\ status' = [status EXCEPT ![k] = final]
        /\ UNCHANGED <<terms, due>>
    BY <2>1 DEF Refund
  <2>5. \A j \in Keys \ {k} : /\ status'[j] = status[j] /\ terms'[j] = terms[j]
                              /\ due'[j] = due[j]
    BY <2>4 DEF Inv, TypeOK
  <2>6. status'[k] # "Absent" /\ status'[k] # "Open" /\ terms'[k] = terms[k]
    BY <2>4 DEF Inv, TypeOK
  <2>7. terms'[k].expires <= U32Max /\ (k[1] = "limit" => due'[k] = 0)
    BY <2>1, <2>4 DEF Schedule
  <2> QED
    BY <2>2, <2>3, <2>5, <2>6, <2>7, PublishKeepsSchedule
<1>5. CASE SwapStep
  <2>1. PICK k \in Keys, amount \in Amounts, routed, min_out, out, next \in Nat :
          /\ status[k] = "Open" /\ ledger < terms[k].expires
          /\ amount > 0 /\ amount <= remaining[k]
          /\ k[1] = "dca" => amount = ChunkOf(k) /\ ledger >= due[k]
          /\ next = NextDue(k)
          /\ out * RateScale + (RateScale - 1) >= amount * terms[k].rate
          /\ Swap(k, amount, routed, min_out, out, next)
    BY <1>5 DEF SwapStep
  <2> DEFINE e == [topic |-> "filled", key |-> k, ledger |-> ledger,
                   amount_in |-> amount, amount_out |-> out,
                   remaining |-> remaining'[k], due |-> due'[k]]
  <2>2. e \in Event
    BY DEF Event, Topics, Inv, TypeOK
  <2>3. events' = Append(events, e) /\ e.key = k /\ e.ledger = ledger
    BY <2>1 DEF Swap, Publish
  <2>4. DcaFill(e) <=> k[1] = "dca"
    BY DEF DcaFill
  <2> HIDE DEF e
  <2>5. /\ status' = [status EXCEPT ![k] = IF remaining[k] = amount THEN "Filled" ELSE @]
        /\ due' = [due EXCEPT ![k] = IF remaining[k] = amount THEN @ ELSE next]
        /\ terms' = terms
    BY <2>1 DEF Swap
  <2>6. \A j \in Keys \ {k} : /\ status'[j] = status[j] /\ terms'[j] = terms[j]
                              /\ due'[j] = due[j]
    BY <2>5 DEF Inv, TypeOK
  <2>7. /\ status'[k] = IF remaining[k] = amount THEN "Filled" ELSE "Open"
        /\ due'[k] = IF remaining[k] = amount THEN due[k] ELSE next
        /\ terms'[k] = terms[k]
    BY <2>1, <2>5 DEF Inv, TypeOK
  <2>8. terms'[k].expires <= U32Max /\ ledger < U32Max
    <3>1. terms[k].expires <= U32Max
      BY <2>1 DEF Schedule
    <3>2. ledger \in Nat /\ terms[k].expires \in Nat
      BY <2>1 DEF Inv, TypeOK, Terms
    <3> QED
      BY <2>1, <2>7, <3>1, <3>2
  <2>9. k[1] = "limit" => due'[k] = 0
    BY <2>1, <2>7 DEF NextDue, Schedule
  <2>10. k[1] = "dca" => /\ ledger >= due[k]
                         /\ status'[k] = "Open" =>
                              due'[k] = SaturatingAdd(ledger, terms[k].interval)
    BY <2>1, <2>7 DEF NextDue
  <2>11. k[1] = "dca" \/ k[1] = "limit"
    BY KindOfKey DEF Kinds
  <2> QED
    BY <2>1, <2>2, <2>3, <2>4, <2>6, <2>7, <2>8, <2>9, <2>10, <2>11,
       PublishKeepsSchedule
<1> QED
  BY <1>1, <1>2, <1>3, <1>4, <1>5, StepCases

\* The schedule is an invariant of the contract.
LEMMA SpecSchedule == Spec => []Schedule
BY SpecInv, InitSchedule, NextSchedule, PTL DEF Spec

-----------------------------------------------------------------------------
(***************************************************************************)
(* The lifecycle                                                           *)
(***************************************************************************)

\* What the log of the lifecycle keeps of an event, and of all of them.
Entry(e) == [topic |-> e.topic, key |-> e.key, ledger |-> e.ledger,
             remaining |-> e.remaining, due |-> e.due]
Told(s) == [i \in DOMAIN s |-> Entry(s[i])]

\* Publishing an event appends its entry to the log.
LEMMA ToldAppends ==
  ASSUME NEW s \in Seq(Event), NEW e \in Event
  PROVE  /\ Told(Append(s, e)) = Append(Told(s), Entry(e))
         /\ Told(s) \in Seq([topic : Topics, key : Keys, ledger : Nat,
                             remaining : Nat, due : Nat])
<1> DEFINE E == [topic : Topics, key : Keys, ledger : Nat, remaining : Nat, due : Nat]
<1>1. \A f \in Event : Entry(f) \in E
  BY DEF Entry, Event
<1> HIDE DEF E
<1>2. Told(s) \in Seq(E) /\ Len(Told(s)) = Len(s)
  <2>1. Told(s) \in [1 .. Len(s) -> E]
    BY <1>1 DEF Told
  <2>2. Len(s) \in Nat
    OBVIOUS
  <2> QED
    BY <2>1, <2>2
<1>3. Append(s, e) \in Seq(Event) /\ DOMAIN Append(s, e) = 1 .. Len(s) + 1
  OBVIOUS
<1>4. Entry(e) \in E
  BY <1>1
<1>5. Append(Told(s), Entry(e)) = [i \in 1 .. Len(s) + 1 |->
        IF i = Len(s) + 1 THEN Entry(e) ELSE Told(s)[i]]
  <2> DEFINE g == Told(s)
             n == Len(s)
             d == Entry(e)
  <2>1. g \in Seq(E) /\ n = Len(g) /\ n \in Nat /\ d \in E
    BY <1>2, <1>4
  <2> HIDE DEF g, n, d
  <2>2. Append(g, d) = [i \in 1 .. n + 1 |-> IF i = n + 1 THEN d ELSE g[i]]
    <3>1. Append(g, d) = [i \in 1 .. n + 1 |-> Append(g, d)[i]]
      <4> DEFINE a == Append(g, d)
      <4>1. a \in Seq(E) /\ Len(a) = n + 1
        BY <2>1
      <4> HIDE DEF a
      <4>2. a = [i \in 1 .. n + 1 |-> a[i]]
        BY <2>1, <4>1
      <4> QED
        BY <4>2 DEF a
    <3>2. \A i \in 1 .. n + 1 : Append(g, d)[i] = IF i = n + 1 THEN d ELSE g[i]
      BY <2>1
    <3> QED
      BY <3>1, <3>2
  <2> QED
    BY <2>2 DEF g, n, d
<1>6. \A i \in 1 .. Len(s) + 1 :
        Entry(Append(s, e)[i]) = IF i = Len(s) + 1 THEN Entry(e) ELSE Told(s)[i]
  BY DEF Told
<1>7. Told(Append(s, e)) = Append(Told(s), Entry(e))
  BY <1>3, <1>5, <1>6 DEF Told
<1> QED
  BY <1>2, <1>7 DEF E

-----------------------------------------------------------------------------
(***************************************************************************)
(* Theorems                                                                *)
(***************************************************************************)

\* Every variable keeps its type: no balance, remaining amount or receipt of the
\* contract becomes negative, whatever is called in whatever order.
THEOREM TypeCorrect == Spec => []TypeOK
BY SpecInv, PTL DEF Inv

\* What an owner deposited is held, swapped or refunded, and nothing is held for
\* a closed order (create_*, fill*, cancel*, reclaim_expired* together).
THEOREM DepositsAreConserved == Spec => []DepositConserved
BY SpecInv, PTL DEF Inv

\* However an order is cut into fills, it loses to rounding less than one unit of
\* output per fill (required_min_out in fill and fill_dca).
THEOREM RateHoldsUpToRounding == Spec => []RateShortfallBounded
BY SpecInv, PTL DEF Inv

\* A DCA order is swapped in whole chunks, and no two of its fills lie closer
\* than its interval, whoever calls fill_dca and however late.
THEOREM DcaRunsOnSchedule == Spec => []DcaOnSchedule
BY SpecInv, SpecSchedule, PTL DEF Inv, Schedule, DcaOnSchedule

\* No call changes an order that was filled, cancelled or reclaimed.
THEOREM ClosedOrdersStayClosed == Spec => ClosedFrozen
<1>1. Inv /\ [Next]_vars =>
        [\A k \in Keys : status[k] \in Terminal =>
           /\ status'[k] = status[k]
           /\ remaining'[k] = remaining[k]
           /\ receipts'[k] = receipts[k]
           /\ terms'[k] = terms[k]]_vars
  <2> SUFFICES ASSUME Inv, Next, NEW k \in Keys, status[k] \in Terminal
               PROVE  /\ status'[k] = status[k] /\ remaining'[k] = remaining[k]
                      /\ receipts'[k] = receipts[k] /\ terms'[k] = terms[k]
    OBVIOUS
  <2> USE DEF Inv, TypeOK, Terminal
  <2>1. CASE IdleStep
    BY <2>1 DEF IdleStep
  <2>2. CASE StoreStep
    <3>1. PICK kind \in Kinds, t \in Terms, amount \in Amounts, start \in Nat :
            Store(kind, t, amount, start)
      BY <2>2 DEF StoreStep
    <3>2. nextId[kind] \in 0 .. MaxOrders[kind] - 1
      BY <3>1 DEF Store
    <3>3. status[<<kind, nextId[kind]>>] = "Absent"
      BY <3>2 DEF IdsInOrder
    <3> QED
      BY <3>1, <3>3 DEF Store
  <2>3. CASE RefundStep
    BY <2>3 DEF RefundStep, Refund
  <2>4. CASE SwapStep
    <3>1. PICK j \in Keys, amount \in Amounts, routed, min_out, out, next \in Nat :
            status[j] = "Open" /\ Swap(j, amount, routed, min_out, out, next)
      BY <2>4 DEF SwapStep
    <3>2. j # k
      BY <3>1
    <3> QED
      BY <3>1, <3>2 DEF Swap
  <2> QED
    BY <2>1, <2>2, <2>3, <2>4, StepCases
<1> QED
  BY <1>1, SpecInv, PTL DEF Spec, ClosedFrozen

\* The contract's token holdings move with what one order has left, and only so.
THEOREM HoldingsFollowOrders == Spec => HoldingsFollowOneOrder
<1> DEFINE Follow ==
      \/ UNCHANGED <<remaining, status>> /\ \A t \in Tokens :
           balance'[t][Escrow] = balance[t][Escrow]
      \/ \E k \in Keys :
           /\ \A j \in Keys \ {k} : remaining'[j] = remaining[j] /\ status'[j] = status[j]
           /\ \A t \in Tokens :
                balance'[t][Escrow] - balance[t][Escrow] =
                  IF t = terms'[k].token_in THEN remaining'[k] - remaining[k] ELSE 0
<1>1. Inv /\ [Next]_vars => [Follow]_vars
  <2> SUFFICES ASSUME Inv, Next PROVE Follow
    OBVIOUS
  <2>0. \A t \in Tokens, a \in Accounts : balance[t][a] \in Nat
    BY DEF Inv, TypeOK
  <2> USE DEF Inv, TypeOK
  <2>1. CASE IdleStep
    BY <2>1 DEF IdleStep
  <2>2. CASE StoreStep
    <3>1. PICK kind \in Kinds, t \in Terms, amount \in Amounts, start \in Nat :
            Store(kind, t, amount, start)
      BY <2>2 DEF StoreStep
    <3> DEFINE k == <<kind, nextId[kind]>>
    <3>2. k \in Keys /\ remaining[k] = 0
      <4>1. nextId[kind] \in 0 .. MaxOrders[kind] - 1
        BY <3>1 DEF Store
      <4> QED
        BY <4>1, KeysAreIds DEF IdsInOrder, AbsentUntouched
    <3>3. /\ remaining' = [remaining EXCEPT ![k] = amount]
          /\ status' = [status EXCEPT ![k] = "Open"]
          /\ terms' = [terms EXCEPT ![k] = t]
      BY <3>1 DEF Store
    <3> HIDE DEF k
    <3>4. balance' = [balance EXCEPT ![t.token_in][t.owner] = @ - amount,
                                     ![t.token_in][Escrow] = @ + amount]
      BY <3>1 DEF Store, Transfer
    <3>5. /\ t.token_in \in Tokens /\ t.owner \in Accounts /\ Escrow \in Accounts
          /\ t.owner # Escrow
      BY DEF Terms, Accounts
    <3>6. \A u \in Tokens : balance'[u][Escrow] =
             IF u = t.token_in THEN balance[u][Escrow] + amount ELSE balance[u][Escrow]
      BY <3>4, <3>5
    <3>7. \A u \in Tokens : balance'[u][Escrow] - balance[u][Escrow] =
             IF u = terms'[k].token_in THEN remaining'[k] - remaining[k] ELSE 0
      BY <2>0, <3>2, <3>3, <3>5, <3>6
    <3> QED
      BY <3>2, <3>3, <3>7
  <2>3. CASE RefundStep
    <3>1. PICK k \in Keys, final \in {"Cancelled", "Expired"},
               topic \in {"cancelled", "expired"} :
            status[k] = "Open" /\ Refund(k, final, topic)
      BY <2>3 DEF RefundStep
    <3> DEFINE t == terms[k].token_in
               o == terms[k].owner
    <3>2. /\ t \in Tokens /\ o \in Accounts /\ Escrow \in Accounts /\ o # Escrow
      BY <3>1 DEF Terms, Accounts
    <3>3. balance' = [balance EXCEPT ![t][Escrow] = @ - remaining[k],
                                     ![t][o] = @ + remaining[k]]
      BY <3>1 DEF Refund, Transfer
    <3>4. /\ remaining' = [remaining EXCEPT ![k] = 0]
          /\ status' = [status EXCEPT ![k] = final]
          /\ terms'[k].token_in = t /\ remaining[k] \in Nat
      BY <3>1 DEF Refund
    <3> HIDE DEF t, o
    <3>5. \A u \in Tokens : balance'[u][Escrow] =
             IF u = t THEN balance[u][Escrow] - remaining[k] ELSE balance[u][Escrow]
      BY <3>2, <3>3
    <3>6. \A u \in Tokens : balance'[u][Escrow] - balance[u][Escrow] =
             IF u = terms'[k].token_in THEN remaining'[k] - remaining[k] ELSE 0
      BY <2>0, <3>2, <3>4, <3>5
    <3> QED
      BY <3>4, <3>6
  <2>4. CASE SwapStep
    <3>1. PICK k \in Keys, amount \in Amounts, routed, min_out, out, next \in Nat :
            /\ status[k] = "Open" /\ ledger < terms[k].expires
            /\ amount > 0 /\ amount <= remaining[k]
            /\ k[1] = "dca" => amount = ChunkOf(k) /\ ledger >= due[k]
            /\ next = NextDue(k)
            /\ out * RateScale + (RateScale - 1) >= amount * terms[k].rate
            /\ Swap(k, amount, routed, min_out, out, next)
      BY <2>4 DEF SwapStep
    <3> DEFINE tin == terms[k].token_in
               tout == terms[k].token_out
               o == terms[k].owner
    <3>2. /\ tin \in Tokens /\ tout \in Tokens /\ tin # tout
          /\ o \in Accounts /\ Escrow \in Accounts /\ Market \in Accounts
          /\ o # Escrow /\ Escrow # Market
      BY <3>1 DEF Terms, Accounts, TermsChecked
    <3>3. balance' = [balance EXCEPT ![tin][Escrow] = @ - amount,
                                     ![tin][Market] = @ + amount,
                                     ![tout][Market] = @ - out,
                                     ![tout][o] = @ + out]
      BY <3>1 DEF Swap
    <3>4. /\ remaining' = [remaining EXCEPT ![k] = @ - amount]
          /\ \A j \in Keys \ {k} : status'[j] = status[j]
          /\ terms'[k].token_in = tin /\ remaining[k] \in Nat
          /\ amount \in Nat /\ remaining'[k] = remaining[k] - amount
      BY <3>1 DEF Swap
    <3> HIDE DEF tin, tout, o
    <3>5. \A u \in Tokens : balance'[u][Escrow] =
             IF u = tin THEN balance[u][Escrow] - amount ELSE balance[u][Escrow]
      BY <3>2, <3>3
    <3>6. \A u \in Tokens : balance'[u][Escrow] - balance[u][Escrow] =
             IF u = terms'[k].token_in THEN remaining'[k] - remaining[k] ELSE 0
      <4>1. remaining'[k] - remaining[k] = 0 - amount
        BY <3>4
      <4>2. /\ Escrow \in Accounts
            /\ \A u \in Tokens : balance[u][Escrow] \in Nat
        BY <2>0, <3>2
      <4> QED
        BY <3>4, <3>5, <4>1, <4>2
    <3> QED
      BY <3>4, <3>6
  <2> QED
    BY <2>1, <2>2, <2>3, <2>4, StepCases
<1> QED
  BY <1>1, SpecInv, PTL DEF Spec, HoldingsFollowOneOrder

\* The escrow implements order custody: a deposit is drawn strictly before its
\* deadline, or returned in one piece, and then closed for good.
THEOREM EscrowImplementsCustody == Spec => ImplementsCustody
<1> DEFINE phase == [k \in Keys |-> IF status[k] \in Terminal THEN "closed" ELSE
                                   IF status[k] = "Open" THEN "open" ELSE "absent"]
           drawn == [k \in Keys |-> receipts[k].spent]
           returned == [k \in Keys |-> receipts[k].refunded]
           deadline == [k \in Keys |-> IF status[k] = "Absent" THEN 0 ELSE terms[k].expires]
<1>1. Init => Custody!Init
  <2> SUFFICES ASSUME Init PROVE Custody!Init
    OBVIOUS
  <2>1. /\ phase = [k \in Keys |-> "absent"] /\ drawn = [k \in Keys |-> 0]
        /\ returned = [k \in Keys |-> 0] /\ deadline = [k \in Keys |-> 0]
    BY DEF Init, NoReceipts, Terminal
  <2> QED
    BY <2>1 DEF Custody!Init, Init
<1>2. Inv /\ Inv' /\ [Next]_vars => [Custody!Next]_(Custody!cvars)
  <2> SUFFICES ASSUME Inv, Inv', [Next]_vars
               PROVE  Custody!Next \/ UNCHANGED Custody!cvars
    OBVIOUS
  <2> USE DEF Inv, TypeOK
  <2>1. CASE UNCHANGED vars
    BY <2>1 DEF vars, Custody!cvars
  <2>2. CASE IdleStep
    <3>1. CASE ledger' = ledger
      BY <2>2, <3>1 DEF IdleStep, Custody!cvars
    <3>2. CASE ledger' = ledger + 1
      <4>1. Custody!Tick
        BY <2>2, <3>2 DEF IdleStep, Custody!Tick
      <4> QED
        BY <4>1 DEF Custody!Next
    <3> QED
      BY <2>2, <3>1, <3>2 DEF IdleStep
  <2>3. CASE StoreStep
    <3>1. PICK kind \in Kinds, t \in Terms, amount \in Amounts, start \in Nat :
            t.expires > ledger /\ Store(kind, t, amount, start)
      BY <2>3 DEF StoreStep, Accepted
    <3>a. nextId[kind] \in 0 .. MaxOrders[kind] - 1 /\ amount > 0
      BY <3>1 DEF Store
    <3>b. <<kind, nextId[kind]>> \in Keys
      BY <3>a, KeysAreIds
    <3>c. PICK k \in Keys : k = <<kind, nextId[kind]>>
      BY <3>b
    <3>2. /\ status[k] = "Absent" /\ remaining[k] = 0
          /\ receipts[k] = NoReceipts /\ amount > 0
      BY <3>a, <3>c DEF IdsInOrder, AbsentUntouched
    <3>3. /\ remaining' = [remaining EXCEPT ![k] = amount]
          /\ status' = [status EXCEPT ![k] = "Open"]
          /\ terms' = [terms EXCEPT ![k] = t]
          /\ receipts' = [receipts EXCEPT ![k].deposited = amount]
          /\ ledger' = ledger
      BY <3>1, <3>c DEF Store
    <3>4. phase[k] = "absent" /\ phase' = [phase EXCEPT ![k] = "open"]
      BY <3>2, <3>3 DEF Terminal
    <3>5. drawn' = drawn /\ returned' = returned
      BY <3>2, <3>3 DEF Receipts
    <3>6. deadline' = [deadline EXCEPT ![k] = t.expires]
      BY <3>2, <3>3
    <3>7. /\ remaining'[k] > 0 /\ remaining' = [remaining EXCEPT ![k] = remaining'[k]]
          /\ deadline'[k] > ledger /\ deadline' = [deadline EXCEPT ![k] = deadline'[k]]
      BY <3>1, <3>2, <3>3, <3>6
    <3>8. Custody!Deposit(k)
      BY <3>3, <3>4, <3>5, <3>7 DEF Custody!Deposit
    <3> QED
      BY <3>8 DEF Custody!Next
  <2>4. CASE RefundStep
    <3>1. PICK k \in Keys, final \in {"Cancelled", "Expired"},
               topic \in {"cancelled", "expired"} :
            status[k] = "Open" /\ Refund(k, final, topic)
      BY <2>4 DEF RefundStep
    <3>2. /\ remaining' = [remaining EXCEPT ![k] = 0]
          /\ status' = [status EXCEPT ![k] = final]
          /\ receipts' = [receipts EXCEPT ![k].refunded = @ + remaining[k]]
          /\ terms' = terms /\ ledger' = ledger
      BY <3>1 DEF Refund
    <3>3. phase[k] = "open" /\ phase' = [phase EXCEPT ![k] = "closed"]
      BY <3>1, <3>2 DEF Terminal
    <3>4. drawn' = drawn /\ deadline' = deadline
      BY <3>1, <3>2 DEF Receipts
    <3>5. /\ receipts'[k].refunded = receipts[k].refunded + remaining[k]
          /\ \A j \in Keys \ {k} : receipts'[j] = receipts[j]
      BY <3>2 DEF Receipts
    <3>6. returned' = [returned EXCEPT ![k] = @ + remaining[k]]
      BY <3>5
    <3>7. Custody!Return(k)
      BY <3>2, <3>3, <3>4, <3>6 DEF Custody!Return
    <3> QED
      BY <3>7 DEF Custody!Next
  <2>5. CASE SwapStep
    <3>1. PICK k \in Keys, amount \in Amounts, routed, min_out, out, next \in Nat :
            /\ status[k] = "Open" /\ ledger < terms[k].expires
            /\ amount > 0 /\ amount <= remaining[k]
            /\ k[1] = "dca" => amount = ChunkOf(k) /\ ledger >= due[k]
            /\ next = NextDue(k)
            /\ out * RateScale + (RateScale - 1) >= amount * terms[k].rate
            /\ Swap(k, amount, routed, min_out, out, next)
      BY <2>5 DEF SwapStep
    <3>2. /\ remaining' = [remaining EXCEPT ![k] = @ - amount]
          /\ status' = [status EXCEPT ![k] = IF remaining[k] = amount THEN "Filled" ELSE @]
          /\ receipts' = [receipts EXCEPT ![k].spent = @ + amount,
                                          ![k].received = @ + out,
                                          ![k].fills = @ + 1]
          /\ terms' = terms /\ ledger' = ledger /\ remaining[k] \in Nat
      BY <3>1 DEF Swap
    <3>3. remaining'[k] = remaining[k] - amount
      BY <3>2
    <3>4. /\ phase[k] = "open"
          /\ phase' = [phase EXCEPT ![k] = IF remaining'[k] = 0 THEN "closed" ELSE @]
      <4> DEFINE before == remaining[k]
                 after == remaining'[k]
      <4>0. before \in Nat /\ after = before - amount
        BY <3>2, <3>3
      <4> HIDE DEF before, after
      <4>a. after = 0 <=> before = amount
        BY <4>0
      <4>1. remaining'[k] = 0 <=> remaining[k] = amount
        BY <4>a DEF before, after
      <4>2. status'[k] = IF remaining'[k] = 0 THEN "Filled" ELSE "Open"
        BY <3>1, <3>2, <4>1
      <4>3. \A j \in Keys \ {k} : status'[j] = status[j]
        BY <3>2
      <4> QED
        BY <3>1, <4>2, <4>3 DEF Terminal
    <3>5. returned' = returned /\ deadline' = deadline
      BY <3>1, <3>2 DEF Receipts
    <3>6. /\ ledger < deadline[k] /\ 0 <= remaining'[k] /\ remaining'[k] < remaining[k]
          /\ remaining' = [remaining EXCEPT ![k] = remaining'[k]]
      BY <3>1, <3>2, <3>3
    <3>7. drawn' = [drawn EXCEPT ![k] = @ + remaining[k] - remaining'[k]]
      <4>1. receipts[k].spent \in Nat /\ receipts[k] \in Receipts
        BY DEF Receipts
      <4>2. receipts'[k].spent = receipts[k].spent + amount
        BY <3>2, <4>1 DEF Receipts
      <4>3. \A j \in Keys \ {k} : receipts'[j] = receipts[j]
        BY <3>2
      <4>4. receipts'[k].spent = receipts[k].spent + remaining[k] - remaining'[k]
        BY <3>2, <3>3, <4>1, <4>2
      <4> QED
        BY <4>3, <4>4
    <3>8. Custody!Draw(k)
      BY <3>2, <3>4, <3>5, <3>6, <3>7 DEF Custody!Draw
    <3> QED
      BY <3>8 DEF Custody!Next
  <2> QED
    BY <2>1, <2>2, <2>3, <2>4, <2>5, StepCases
<1> QED
  BY <1>1, <1>2, SpecInv, PTL DEF Spec, ImplementsCustody, Custody!Spec

(***************************************************************************)
(* The events tell the lifecycle: every invocation that changes an order   *)
(* is a step of OrderLog, which the keeper and the indexer are built on,   *)
(* and the log gains exactly the entry of that step.                       *)
(***************************************************************************)
THEOREM EscrowImplementsLifecycle == Spec => ImplementsLifecycle
<1> DEFINE kept == [k \in Keys |-> IF status[k] = "Absent" THEN NoTerms ELSE
                      [rate |-> terms[k].rate, chunk |-> terms[k].chunk,
                       interval |-> terms[k].interval, expires |-> terms[k].expires]]
           log == [i \in DOMAIN events |->
                     [topic |-> events[i].topic, key |-> events[i].key,
                      ledger |-> events[i].ledger,
                      remaining |-> events[i].remaining, due |-> events[i].due]]
<1>0. ASSUME Schedule, NEW e \in Event, events' = Append(events, e)
      PROVE  log' = Append(log, [topic |-> e.topic, key |-> e.key, ledger |-> e.ledger,
                                 remaining |-> e.remaining, due |-> e.due])
  <2>1. log = Told(events) /\ log' = Told(events')
    BY DEF Told, Entry
  <2>2. events \in Seq(Event)
    BY <1>0 DEF Schedule
  <2> HIDE DEF log
  <2> QED
    BY <1>0, <2>1, <2>2, ToldAppends DEF Entry
<1>1. Init => Lifecycle!ChainInit
  <2> SUFFICES ASSUME Init PROVE Lifecycle!ChainInit
    OBVIOUS
  <2>1. kept = [k \in Keys |-> NoTerms] /\ log = <<>>
    BY DEF Init
  <2> QED
    BY <2>1 DEF Lifecycle!ChainInit, Init
<1>2. Inv /\ Inv' /\ Schedule /\ [Next]_vars => [Lifecycle!ChainNext]_(Lifecycle!chain)
  <2> SUFFICES ASSUME Inv, Inv', Schedule, [Next]_vars
               PROVE  Lifecycle!ChainNext \/ UNCHANGED Lifecycle!chain
    OBVIOUS
  <2>1. CASE UNCHANGED vars
    BY <2>1 DEF vars, Lifecycle!chain
  <2>2. CASE IdleStep
    <3>1. /\ UNCHANGED <<terms, status, remaining, due, events>>
          /\ ledger' # ledger => ledger < MaxLedger /\ ledger' = ledger + 1
      BY <2>2 DEF IdleStep
    <3>2. CASE ledger' = ledger
      BY <3>1, <3>2 DEF Lifecycle!chain
    <3>3. CASE ledger' # ledger
      <4>1. Lifecycle!CloseLedger
        BY <3>1, <3>3 DEF Lifecycle!CloseLedger
      <4> QED
        BY <4>1 DEF Lifecycle!ChainNext
    <3> QED
      BY <3>2, <3>3
  <2>3. CASE StoreStep
    <3>1. PICK kind \in Kinds, t \in Terms, amount \in Amounts, start \in Nat :
            Accepted(kind, t, amount, start) /\ Store(kind, t, amount, start)
      BY <2>3 DEF StoreStep
    <3>2. nextId[kind] \in 0 .. MaxOrders[kind] - 1 /\ amount > 0
      BY <3>1 DEF Store, Inv, TypeOK
    <3>3. PICK k \in Keys : k = <<kind, nextId[kind]>>
      BY <3>2, KeysAreIds
    <3>4. status[k] = "Absent" /\ k[1] = kind
      BY <3>2, <3>3 DEF Inv, IdsInOrder
    <3>5. /\ terms' = [terms EXCEPT ![k] = t]
          /\ status' = [status EXCEPT ![k] = "Open"]
          /\ remaining' = [remaining EXCEPT ![k] = amount]
          /\ due' = [due EXCEPT ![k] = start]
          /\ Publish("created", k, amount, 0)
          /\ ledger' = ledger
      BY <3>1, <3>3 DEF Store
    <3> DEFINE e == [topic |-> "created", key |-> k, ledger |-> ledger,
                     amount_in |-> amount, amount_out |-> 0,
                     remaining |-> amount, due |-> start]
               u == [rate |-> t.rate, chunk |-> t.chunk,
                     interval |-> t.interval, expires |-> t.expires]
    <3>6. e \in Event
      BY DEF Event, Topics, Inv, TypeOK
    <3>7. events' = Append(events, e)
      BY <3>5 DEF Publish, Inv, TypeOK
    <3>8. log' = Append(log, [topic |-> "created", key |-> k, ledger |-> ledger,
                              remaining |-> amount, due |-> start])
      BY <1>0, <3>6, <3>7
    <3>9. kept' = [kept EXCEPT ![k] = u]
      BY <3>4, <3>5 DEF Inv, TypeOK
    <3>10. Lifecycle!Publish("created", k, amount, start)
      BY <3>5, <3>8 DEF Lifecycle!Publish
    <3>11. Lifecycle!Place(k, u, amount, start)
      <4>1. u.chunk = t.chunk /\ u.interval = t.interval /\ u.expires = t.expires
        OBVIOUS
      <4> HIDE DEF u, log, kept
      <4>2. /\ t.expires > ledger
            /\ IF k[1] = "limit"
                 THEN t.chunk = 0 /\ start = 0
                 ELSE /\ t.chunk > 0 /\ t.chunk <= amount
                      /\ start >= ledger /\ start < t.expires
        BY <3>1, <3>4 DEF Accepted
      <4> USE DEF kept
      <4> QED
        BY <3>2, <3>4, <3>5, <3>9, <3>10, <4>1, <4>2 DEF Lifecycle!Place
    <3>12. /\ t.rate \in Rates \union {0} /\ t.chunk \in Amounts \union {0}
           /\ t.interval \in (0 .. MaxInterval) \union {0}
           /\ t.expires \in 1 .. MaxLedger + 1 /\ start \in 0 .. MaxLedger
           /\ (k[1] = "limit") <=> (t.interval = 0)
      <4>1. ledger \in Nat /\ t.expires \in Nat
        BY DEF Inv, TypeOK, Terms
      <4> QED
        BY <3>1, <3>4, <4>1 DEF Accepted, Kinds
    <3>13. Lifecycle!Placed(k)
      BY <3>11, <3>12 DEF Lifecycle!Placed
    <3> QED
      BY <3>13 DEF Lifecycle!ChainNext, Lifecycle!Traded
  <2>4. CASE RefundStep
    <3>1. PICK k \in Keys, final \in {"Cancelled", "Expired"},
               topic \in {"cancelled", "expired"} :
            /\ status[k] = "Open"
            /\ topic = IF final = "Expired" THEN "expired" ELSE "cancelled"
            /\ final = "Expired" => ledger > terms[k].expires
            /\ Refund(k, final, topic)
      BY <2>4 DEF RefundStep
    <3>2. /\ status' = [status EXCEPT ![k] = final]
          /\ remaining' = [remaining EXCEPT ![k] = 0]
          /\ UNCHANGED <<terms, due, ledger>>
          /\ Publish(topic, k, remaining[k], 0)
      BY <3>1 DEF Refund
    <3> DEFINE e == [topic |-> topic, key |-> k, ledger |-> ledger,
                     amount_in |-> remaining[k], amount_out |-> 0,
                     remaining |-> 0, due |-> due[k]]
    <3>3. e \in Event
      BY DEF Event, Topics, Inv, TypeOK
    <3>4. events' = Append(events, e)
      BY <3>2 DEF Publish, Inv, TypeOK
    <3>5. log' = Append(log, [topic |-> topic, key |-> k, ledger |-> ledger,
                              remaining |-> 0, due |-> due[k]])
      BY <1>0, <3>3, <3>4
    <3>6. kept' = kept
      BY <3>1, <3>2 DEF Inv, TypeOK
    <3>7. due' = [due EXCEPT ![k] = due[k]]
      BY <3>2 DEF Inv, TypeOK
    <3>8. Lifecycle!Publish(topic, k, 0, due[k])
      BY <3>2, <3>5, <3>7 DEF Lifecycle!Publish
    <3>9. Lifecycle!End(k, final, topic)
      <4> HIDE DEF log, e
      <4> QED
        BY <3>1, <3>2, <3>6, <3>8 DEF Lifecycle!End, Lifecycle!Open
    <3>10. Lifecycle!Cancel(k) \/ Lifecycle!Reclaim(k)
      <4>1. CASE final = "Cancelled"
        BY <3>1, <3>9, <4>1 DEF Lifecycle!Cancel
      <4>2. CASE final = "Expired"
        <5>1. Lifecycle!Open(k) /\ ledger > kept[k].expires
          BY <3>1, <4>2 DEF Lifecycle!Open
        <5> QED
          BY <3>1, <3>9, <4>2, <5>1 DEF Lifecycle!Reclaim, Lifecycle!Reclaimable
      <4> QED
        BY <4>1, <4>2
    <3> QED
      BY <3>10 DEF Lifecycle!ChainNext, Lifecycle!Traded
  <2>5. CASE SwapStep
    <3>1. PICK k \in Keys, amount \in Amounts, routed, min_out, out, next \in Nat :
            /\ status[k] = "Open" /\ ledger < terms[k].expires
            /\ amount > 0 /\ amount <= remaining[k]
            /\ k[1] = "dca" => amount = ChunkOf(k) /\ ledger >= due[k]
            /\ next = NextDue(k)
            /\ out * RateScale + (RateScale - 1) >= amount * terms[k].rate
            /\ Swap(k, amount, routed, min_out, out, next)
      BY <2>5 DEF SwapStep
    <3>2. /\ status' = [status EXCEPT ![k] = IF remaining[k] = amount THEN "Filled" ELSE @]
          /\ remaining' = [remaining EXCEPT ![k] = @ - amount]
          /\ due' = [due EXCEPT ![k] = IF remaining[k] = amount THEN @ ELSE next]
          /\ UNCHANGED <<terms, ledger>>
          /\ Publish("filled", k, amount, out)
      BY <3>1 DEF Swap
    <3>3. /\ remaining[k] \in Nat /\ terms[k].chunk \in Nat /\ terms[k].interval \in Nat
          /\ ledger \in Nat /\ amount \in Nat /\ U32Max \in Nat
          /\ remaining[k] - amount \in Nat
      BY <3>1 DEF Inv, TypeOK, Terms
    <3> DEFINE left == remaining[k] - amount
               after == IF remaining[k] = amount THEN due[k] ELSE next
               e == [topic |-> "filled", key |-> k, ledger |-> ledger,
                     amount_in |-> amount, amount_out |-> out,
                     remaining |-> left, due |-> after]
    <3>4. e \in Event
      BY <3>3 DEF Event, Topics, Inv, TypeOK
    <3>5. /\ remaining' = [remaining EXCEPT ![k] = left]
          /\ due' = [due EXCEPT ![k] = after]
      BY <3>2 DEF Inv, TypeOK
    <3>6. events' = Append(events, e)
      BY <3>2, <3>5 DEF Publish, Inv, TypeOK
    <3>7. log' = Append(log, [topic |-> "filled", key |-> k, ledger |-> ledger,
                              remaining |-> left, due |-> after])
      BY <1>0, <3>4, <3>6
    <3>8. kept' = kept
      BY <3>1, <3>2 DEF Inv, TypeOK
    <3>9. Lifecycle!Publish("filled", k, left, after)
      <4> HIDE DEF left, after
      <4> QED
        BY <3>2, <3>5, <3>7 DEF Lifecycle!Publish
    <3>10. ledger < kept[k].expires /\ kept[k].chunk = terms[k].chunk
           /\ kept[k].interval = terms[k].interval
      BY <3>1
    <3>11. Lifecycle!Takes(k, amount)
      <4>1. k[1] = "dca" => amount = Lifecycle!NextChunk(k)
        <5>1. ChunkOf(k) = IF remaining[k] < terms[k].chunk THEN remaining[k]
                                                           ELSE terms[k].chunk
          BY <3>3 DEF ChunkOf, Min2
        <5> HIDE DEF kept
        <5>2. Lifecycle!NextChunk(k) = IF remaining[k] < terms[k].chunk THEN remaining[k]
                                                                       ELSE terms[k].chunk
          <6> USE DEF kept
          <6> QED
            BY <3>10 DEF Lifecycle!NextChunk
        <5> QED
          BY <3>1, <5>1, <5>2
      <4> QED
        BY <3>1, <3>10, <4>1 DEF Lifecycle!Takes, Lifecycle!Open
    <3>12. next = Lifecycle!Reschedule(k)
      <4>1. CASE k[1] = "limit"
        BY <3>1, <4>1 DEF Lifecycle!Reschedule, NextDue, Schedule
      <4>2. CASE k[1] = "dca"
        <5>1. next = IF ledger + terms[k].interval > U32Max THEN U32Max
                                                          ELSE ledger + terms[k].interval
          BY <3>1, <3>3, <4>2 DEF NextDue, SaturatingAdd, Min2
        <5> QED
          BY <3>3, <3>10, <4>2, <5>1 DEF Lifecycle!Reschedule
      <4> QED
        BY <4>1, <4>2, KindOfKey DEF Kinds
    <3>13. Lifecycle!Take(k, amount, next)
      <4>1. CASE remaining[k] = amount
        <5>1. left = 0 /\ after = due[k] /\ status' = [status EXCEPT ![k] = "Filled"]
          BY <3>2, <3>3, <4>1
        <5> HIDE DEF left, after, e
        <5>2. Lifecycle!Publish("filled", k, 0, due[k])
          BY <3>9, <5>1 DEF Lifecycle!Publish
        <5> QED
          BY <3>8, <3>11, <4>1, <5>1, <5>2 DEF Lifecycle!Take
      <4>2. CASE remaining[k] # amount
        <5>1. after = next /\ status' = status
          BY <3>2, <4>2 DEF Inv, TypeOK
        <5>2. Lifecycle!Publish("filled", k, remaining[k] - amount, next)
          BY <3>9, <5>1 DEF Lifecycle!Publish
        <5> QED
          BY <3>8, <3>11, <4>2, <5>1, <5>2 DEF Lifecycle!Take
      <4> QED
        BY <4>1, <4>2
    <3>14. Lifecycle!Traded(k)
      BY <3>12, <3>13 DEF Lifecycle!Traded
    <3> QED
      BY <3>14 DEF Lifecycle!ChainNext
  <2> QED
    BY <2>1, <2>2, <2>3, <2>4, <2>5, StepCases
<1> QED
  BY <1>1, <1>2, SpecInv, SpecSchedule, PTL DEF Spec, ImplementsLifecycle,
     Lifecycle!ChainSpec
=============================================================================
