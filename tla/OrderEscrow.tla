---------------------------- MODULE OrderEscrow ----------------------------
(***************************************************************************)
(* The order escrow contract (contracts/order-escrow): limit and DCA       *)
(* orders whose input tokens the contract holds until they are swapped     *)
(* through the aggregator or refunded.                                     *)
(*                                                                         *)
(* One action is one contract invocation: Soroban runs invocations one at  *)
(* a time and reverts all of an invocation that panics, so the checks of   *)
(* an entry point are the guards of its action.  The fields of a stored    *)
(* order are split by what may change them: terms never change after the   *)
(* order is created, status, remaining and due do.                         *)
(***************************************************************************)
EXTENDS Integers, Sequences, FiniteSetsExt

CONSTANTS
  Owners,            \* accounts that place orders
  Tokens,            \* token contracts
  Escrow,            \* the contract's own account
  Market,            \* every account behind the aggregator's venues
  NoTerms,           \* the terms of a key that is not stored
  Rates,             \* positive output-per-input rates, scaled by RateScale
  RateScale,         \* RATE_SCALE_E7
  MaxOrderLifetime,  \* MAX_ORDER_LIFETIME
  I128Max,           \* largest i128
  U32Max,            \* largest u32
  MaxOrders,         \* bound: orders of each kind
  MaxLedger,         \* bound: last ledger closed
  MaxInterval,       \* bound: interval_ledgers of a DCA order
  Pairs,             \* bound: the (token_in, token_out) pairs of orders
  Amounts,           \* bound: the amounts callers pass
  MaxOut,            \* bound: output of one swap
  Endowment          \* bound: what every owner and the market start with

Kinds == {"limit", "dca"}
Terms == [owner : Owners, token_in : Tokens, token_out : Tokens, rate : Nat,
          chunk : Nat, interval : Nat, expires : Nat]

ASSUME EscrowAssumption ==
  /\ NoTerms \notin Terms
  /\ Escrow \notin Owners /\ Market \notin Owners /\ Escrow # Market
  /\ Rates \subseteq Nat \ {0}
  /\ RateScale \in Nat \ {0}
  /\ MaxOrderLifetime \in Nat \ {0}
  /\ I128Max \in Nat /\ U32Max \in Nat
  /\ MaxOrders \in [Kinds -> Nat] /\ MaxLedger \in Nat /\ MaxInterval \in Nat
  /\ Amounts \subseteq Nat /\ Pairs \subseteq Tokens \X Tokens
  /\ MaxOut \in Nat /\ MaxOut < I128Max
  /\ MaxLedger <= U32Max
  /\ Endowment \in Nat

Keys == UNION {{kind} \X (0 .. MaxOrders[kind] - 1) : kind \in Kinds}
Accounts == Owners \union {Escrow, Market}
Terminal == {"Filled", "Cancelled", "Expired"}

VARIABLES
  ledger,       \* env.ledger().sequence()
  initialized,  \* the instance storage holds Admin, Aggregator and the ids
  nextId,       \* NextOrderId and NextDcaOrderId
  terms,        \* the fields of an order that never change
  status,       \* OrderStatus, or "Absent" when the key is not stored
  remaining,    \* amount_in_remaining
  due,          \* next_executable_ledger; 0 in a limit order
  balance,      \* balances kept by the token contracts
  receipts,     \* history: what the transfers made for an order add up to
  events        \* the lifecycle events published, with their ledger

vars == <<ledger, initialized, nextId, terms, status, remaining, due, balance,
          receipts, events>>

Receipts == [deposited : Nat, spent : Nat, received : Nat, refunded : Nat,
             fills : Nat]
NoReceipts == [deposited |-> 0, spent |-> 0, received |-> 0, refunded |-> 0,
               fills |-> 0]

Min2(a, b) == IF a < b THEN a ELSE b
SaturatingAdd(a, b) == Min2(a + b, U32Max)

\* Mutant: the product wraps around instead of being checked.
RequiredMinOutWrapping(amount, rate) ==
  ((amount * rate) % (I128Max + 1)) \div RateScale

(***************************************************************************)
(* required_min_out: the least output a fill of amount may deliver, the    *)
(* floor of the rate, or i128::MAX when the product does not fit.          *)
(***************************************************************************)
RequiredMinOut(amount, rate) ==
  IF amount * rate > I128Max THEN I128Max ELSE (amount * rate) \div RateScale

\* What the token contract does when `from`, whose balance covers amount, pays
\* `to` (two different accounts).
Transfer(t, from, to, amount) ==
  [balance EXCEPT ![t][from] = @ - amount, ![t][to] = @ + amount]

\* What fill_dca swaps: one chunk, or the rest when it is smaller.
ChunkOf(k) == Min2(remaining[k], terms[k].chunk)

Init ==
  /\ ledger = 1
  /\ initialized = FALSE
  /\ nextId = [kind \in Kinds |-> 0]
  /\ terms = [k \in Keys |-> NoTerms]
  /\ status = [k \in Keys |-> "Absent"]
  /\ remaining = [k \in Keys |-> 0]
  /\ due = [k \in Keys |-> 0]
  /\ balance = [t \in Tokens |-> [a \in Accounts |->
                  IF a = Escrow THEN 0 ELSE Endowment]]
  /\ receipts = [k \in Keys |-> NoReceipts]
  /\ events = <<>>

\* The network closes a ledger; nothing in the contract runs.
CloseLedger ==
  /\ ledger < MaxLedger
  /\ ledger' = ledger + 1
  /\ UNCHANGED <<initialized, nextId, terms, status, remaining, due, balance,
                 receipts, events>>

Initialize ==
  /\ ~initialized
  /\ initialized' = TRUE
  /\ UNCHANGED <<ledger, nextId, terms, status, remaining, due, balance,
                 receipts, events>>

\* Mutant: the event carries the due ledger from before the fill.
PublishStaleDue(topic, k, in, out) ==
  events' = Append(events, [topic |-> topic, key |-> k, ledger |-> ledger,
                            amount_in |-> in, amount_out |-> out,
                            remaining |-> remaining'[k], due |-> due[k]])

Publish(topic, k, in, out) ==
  events' = Append(events, [topic |-> topic, key |-> k, ledger |-> ledger,
                            amount_in |-> in, amount_out |-> out,
                            remaining |-> remaining'[k], due |-> due'[k]])

(***************************************************************************)
(* The common end of create_limit and create_dca: pull the deposit, store  *)
(* the order under the next id of its kind, advance the id, publish.       *)
(***************************************************************************)
Store(kind, t, amount, start) ==
  LET k == <<kind, nextId[kind]>> IN
  /\ initialized
  /\ nextId[kind] < MaxOrders[kind]
  /\ amount > 0
  /\ t.token_in # t.token_out
  /\ t.expires <= SaturatingAdd(ledger, MaxOrderLifetime)
  /\ amount <= balance[t.token_in][t.owner]
  /\ balance' = Transfer(t.token_in, t.owner, Escrow, amount)
  /\ terms' = [terms EXCEPT ![k] = t]
  /\ status' = [status EXCEPT ![k] = "Open"]
  /\ remaining' = [remaining EXCEPT ![k] = amount]
  /\ due' = [due EXCEPT ![k] = start]
  /\ nextId' = [nextId EXCEPT ![kind] = @ + 1]
  /\ receipts' = [receipts EXCEPT ![k].deposited = amount]
  /\ Publish("created", k, amount, 0)
  /\ UNCHANGED <<ledger, initialized>>

CreateLimit(owner, in, out, amount, rate, expires) ==
  /\ rate > 0
  /\ expires > ledger
  /\ Store("limit", [owner |-> owner, token_in |-> in, token_out |-> out,
                     rate |-> rate, chunk |-> 0, interval |-> 0,
                     expires |-> expires], amount, 0)

CreateDca(owner, in, out, amount, chunk, interval, start, rate, expires) ==
  /\ chunk > 0 /\ chunk <= amount
  /\ interval # 0
  /\ start >= ledger
  /\ rate >= 0
  /\ expires > start
  /\ Store("dca", [owner |-> owner, token_in |-> in, token_out |-> out,
                   rate |-> rate, chunk |-> chunk, interval |-> interval,
                   expires |-> expires], amount, start)

\* Mutant: amount_in_remaining is not reset by the refund.
RefundKeepsRemaining(k, final, topic) ==
  /\ remaining[k] <= balance[terms[k].token_in][Escrow]
  /\ balance' = Transfer(terms[k].token_in, Escrow, terms[k].owner, remaining[k])
  /\ status' = [status EXCEPT ![k] = final]
  /\ receipts' = [receipts EXCEPT ![k].refunded = @ + remaining[k]]
  /\ UNCHANGED <<ledger, initialized, nextId, terms, remaining, due>>
  /\ Publish(topic, k, remaining[k], 0)

\* The refund shared by cancel and reclaim_expired, and their DCA variants.
Refund(k, final, topic) ==
  /\ remaining[k] <= balance[terms[k].token_in][Escrow]
  /\ balance' = Transfer(terms[k].token_in, Escrow, terms[k].owner, remaining[k])
  /\ remaining' = [remaining EXCEPT ![k] = 0]
  /\ status' = [status EXCEPT ![k] = final]
  /\ receipts' = [receipts EXCEPT ![k].refunded = @ + remaining[k]]
  /\ UNCHANGED <<ledger, initialized, nextId, terms, due>>
  /\ Publish(topic, k, remaining[k], 0)

\* cancel, cancel_dca: the owner takes back what has not been swapped.
Cancel(k, caller) ==
  /\ status[k] = "Open"
  /\ caller = terms[k].owner
  /\ Refund(k, "Cancelled", "cancelled")

\* reclaim_expired, reclaim_expired_dca: anyone sends an expired order home.
ReclaimExpired(k) ==
  /\ status[k] = "Open"
  /\ ledger > terms[k].expires
  /\ Refund(k, "Expired", "expired")

\* Mutant: the escrow forwards min_out and keeps the rest of the output.
SwapKeepsSurplus(k, amount, routed, min_out, out, next) ==
  LET t == terms[k] IN
  /\ routed = amount
  /\ routed <= balance[t.token_in][Escrow]
  /\ min_out > 0
  /\ out >= min_out
  /\ out <= balance[t.token_out][Market]
  /\ balance' = [balance EXCEPT
                   ![t.token_in][Escrow] = @ - routed,
                   ![t.token_in][Market] = @ + routed,
                   ![t.token_out][Market] = @ - out,
                   ![t.token_out][Escrow] = @ + out - min_out,
                   ![t.token_out][t.owner] = @ + min_out]
  /\ remaining' = [remaining EXCEPT ![k] = @ - amount]
  /\ status' = [status EXCEPT ![k] = IF remaining[k] = amount THEN "Filled" ELSE @]
  /\ due' = [due EXCEPT ![k] = IF remaining[k] = amount THEN @ ELSE next]
  /\ receipts' = [receipts EXCEPT ![k].spent = @ + routed,
                                  ![k].received = @ + min_out,
                                  ![k].fills = @ + 1]
  /\ Publish("filled", k, amount, out)
  /\ UNCHANGED <<ledger, initialized, nextId, terms>>

(***************************************************************************)
(* The part fill and fill_dca share.  swap_restricted pulls the sum of the *)
(* sub-routes (routed) from the escrow under an authorization for exactly  *)
(* amount, delivers out >= min_out > 0 to the escrow and returns out; the  *)
(* escrow forwards it to the owner.  next is the due ledger of an order    *)
(* that stays open.                                                        *)
(***************************************************************************)
Swap(k, amount, routed, min_out, out, next) ==
  LET t == terms[k] IN
  /\ routed = amount
  /\ routed <= balance[t.token_in][Escrow]
  /\ min_out > 0
  /\ out >= min_out
  /\ out <= balance[t.token_out][Market]
  /\ balance' = [balance EXCEPT
                   ![t.token_in][Escrow] = @ - routed,
                   ![t.token_in][Market] = @ + routed,
                   ![t.token_out][Market] = @ - out,
                   ![t.token_out][t.owner] = @ + out]
  /\ remaining' = [remaining EXCEPT ![k] = @ - amount]
  /\ status' = [status EXCEPT ![k] = IF remaining[k] = amount THEN "Filled" ELSE @]
  /\ due' = [due EXCEPT ![k] = IF remaining[k] = amount THEN @ ELSE next]
  /\ receipts' = [receipts EXCEPT ![k].spent = @ + routed,
                                  ![k].received = @ + out,
                                  ![k].fills = @ + 1]
  /\ Publish("filled", k, amount, out)
  /\ UNCHANGED <<ledger, initialized, nextId, terms>>

\* Mutant: the fill is not compared with what the order has left.
FillAnyAmount(k, amount, routed, min_out, out) ==
  /\ status[k] = "Open"
  /\ ledger < terms[k].expires
  /\ amount > 0
  /\ min_out >= RequiredMinOut(amount, terms[k].rate)
  /\ Swap(k, amount, routed, min_out, out, due[k])

\* Mutant: the order can still be filled in its expiry ledger.
FillAtExpiry(k, amount, routed, min_out, out) ==
  /\ status[k] = "Open"
  /\ ledger <= terms[k].expires
  /\ amount > 0 /\ amount <= remaining[k]
  /\ min_out >= RequiredMinOut(amount, terms[k].rate)
  /\ Swap(k, amount, routed, min_out, out, due[k])

\* fill: anyone swaps any part of an open limit order before it expires.
Fill(k, amount, routed, min_out, out) ==
  /\ status[k] = "Open"
  /\ ledger < terms[k].expires
  /\ amount > 0 /\ amount <= remaining[k]
  /\ min_out >= RequiredMinOut(amount, terms[k].rate)
  /\ Swap(k, amount, routed, min_out, out, due[k])

\* Mutant: the schedule advances from the missed due ledger, not from now.
FillDcaCatchingUp(k, routed, min_out, out) ==
  /\ status[k] = "Open"
  /\ ledger < terms[k].expires
  /\ ledger >= due[k]
  /\ IF terms[k].rate > 0 THEN min_out >= RequiredMinOut(ChunkOf(k), terms[k].rate)
                          ELSE min_out > 0
  /\ Swap(k, ChunkOf(k), routed, min_out, out,
          SaturatingAdd(due[k], terms[k].interval))

\* fill_dca: anyone swaps the due chunk; a zero rate asks for market execution.
FillDca(k, routed, min_out, out) ==
  /\ status[k] = "Open"
  /\ ledger < terms[k].expires
  /\ ledger >= due[k]
  /\ IF terms[k].rate > 0 THEN min_out >= RequiredMinOut(ChunkOf(k), terms[k].rate)
                          ELSE min_out > 0
  /\ Swap(k, ChunkOf(k), routed, min_out, out,
          SaturatingAdd(ledger, terms[k].interval))

\* Every call anyone may make; the inputs include ones the guards reject.
Create(owner, pair) ==
  \E amount \in Amounts, expires \in 0 .. MaxLedger + 1 :
    \/ \E rate \in Rates : CreateLimit(owner, pair[1], pair[2], amount, rate, expires)
    \/ \E chunk \in Amounts, interval \in 0 .. MaxInterval,
         start \in 0 .. MaxLedger, rate \in Rates \union {0} :
         CreateDca(owner, pair[1], pair[2], amount, chunk, interval, start,
                   rate, expires)

Execute(k) ==
  \E routed \in Amounts, min_out \in 0 .. MaxOut, out \in 0 .. MaxOut :
    \/ /\ k[1] = "limit"
       /\ \E amount \in Amounts : Fill(k, amount, routed, min_out, out)
    \/ /\ k[1] = "dca"
       /\ FillDca(k, routed, min_out, out)

Next ==
  \/ CloseLedger
  \/ Initialize
  \/ \E owner \in Owners, pair \in Pairs : Create(owner, pair)
  \/ \E k \in Keys :
       \/ Execute(k)
       \/ ReclaimExpired(k)
       \/ \E caller \in Owners : Cancel(k, caller)

Spec == Init /\ [][Next]_vars

-----------------------------------------------------------------------------
(***************************************************************************)
(* Properties                                                              *)
(***************************************************************************)

\* Every variable keeps its type: in particular no balance, remaining amount
\* or receipt of the contract's i128 arithmetic ever becomes negative.
TypeOK ==
  /\ ledger \in Nat
  /\ initialized \in BOOLEAN
  /\ nextId \in [Kinds -> Nat]
  /\ status \in [Keys -> {"Absent", "Open"} \union Terminal]
  /\ terms \in [Keys -> Terms \union {NoTerms}]
  /\ \A k \in Keys : status[k] # "Absent" => terms[k] \in Terms
  /\ remaining \in [Keys -> Nat]
  /\ due \in [Keys -> Nat]
  /\ balance \in [Tokens -> [Accounts -> Nat]]
  /\ receipts \in [Keys -> Receipts]

(***************************************************************************)
(* What an owner deposited for an order is, at any time, either still held *)
(* for it, swapped for it or refunded, however fills, cancellation and     *)
(* reclaim are interleaved; nothing is held for an order that is closed.   *)
(***************************************************************************)
DepositConserved ==
  \A k \in Keys :
    /\ receipts[k].deposited =
         remaining[k] + receipts[k].spent + receipts[k].refunded
    /\ status[k] # "Open" => remaining[k] = 0
    /\ status[k] = "Open" => remaining[k] > 0

(***************************************************************************)
(* What the price floor is worth over all the fills of an order: each fill *)
(* rounds the owner's minimum down once, so n fills together fall short of *)
(* the rate by less than n units of output.                                *)
(***************************************************************************)
RateShortfallBounded ==
  \A k \in Keys : status[k] # "Absent" =>
    receipts[k].received * RateScale + receipts[k].fills * (RateScale - 1)
      >= receipts[k].spent * terms[k].rate

(***************************************************************************)
(* The README of the contract (contracts/order-escrow/README.md:70) says   *)
(* that computing the minimum per fill preserves the user's rate across    *)
(* partial fills: a filled order has received what one fill of the whole   *)
(* deposit would have had to deliver.                                      *)
(***************************************************************************)
RatePreservedAcrossFills ==
  \A k \in Keys : status[k] = "Filled" =>
    receipts[k].received >= RequiredMinOut(receipts[k].deposited, terms[k].rate)

(***************************************************************************)
(* A DCA order is swapped chunk by chunk: while it is open it has spent    *)
(* whole chunks only, and the final remainder is never larger than one.    *)
(***************************************************************************)
DcaSpendsWholeChunks ==
  \A k \in Keys : (k[1] = "dca" /\ status[k] # "Absent") =>
    /\ status[k] # "Filled" => receipts[k].spent = receipts[k].fills * terms[k].chunk
    /\ receipts[k].spent <= receipts[k].fills * terms[k].chunk
    /\ status[k] = "Filled" =>
         receipts[k].spent > (receipts[k].fills - 1) * terms[k].chunk

(***************************************************************************)
(* Two fills of one DCA order lie at least its interval apart, also when   *)
(* several chunks have become due meanwhile ("preventing repeated catch-up *)
(* fills", contracts/order-escrow/README.md): no burst of callers can run  *)
(* the schedule faster than the owner chose.                               *)
(***************************************************************************)
DcaPaced ==
  \A i, j \in DOMAIN events :
    (/\ i < j
     /\ events[i].topic = "filled" /\ events[j].topic = "filled"
     /\ events[i].key = events[j].key /\ events[i].key[1] = "dca")
    => events[j].ledger >= events[i].ledger + terms[events[i].key].interval

\* A DCA order runs as its owner scheduled it: in whole chunks, never too fast.
DcaOnSchedule == DcaSpendsWholeChunks /\ DcaPaced

(***************************************************************************)
(* A closed order stays as it was closed: no second refund, no fill after  *)
(* a cancellation or a reclaim, no reopening, whatever is called on it.    *)
(***************************************************************************)
ClosedFrozen ==
  [][\A k \in Keys : status[k] \in Terminal =>
       /\ status'[k] = status[k]
       /\ remaining'[k] = remaining[k]
       /\ receipts'[k] = receipts[k]
       /\ terms'[k] = terms[k]]_vars

(***************************************************************************)
(* The contract's holdings of a token change only together with what one   *)
(* order has left, by the same amount, and no step touches a second order: *)
(* the output of a swap never stays behind and no order pays for another.  *)
(***************************************************************************)
HoldingsFollowOneOrder ==
  [][\/ UNCHANGED <<remaining, status>> /\ \A t \in Tokens :
          balance'[t][Escrow] = balance[t][Escrow]
     \/ \E k \in Keys :
          /\ \A j \in Keys \ {k} : remaining'[j] = remaining[j] /\ status'[j] = status[j]
          /\ \A t \in Tokens :
               balance'[t][Escrow] - balance[t][Escrow] =
                 IF t = terms'[k].token_in THEN remaining'[k] - remaining[k]
                                           ELSE 0]_vars

-----------------------------------------------------------------------------
(***************************************************************************)
(* The escrow implements order custody.                                    *)
(***************************************************************************)
Custody == INSTANCE OrderCustody WITH
  Orders   <- Keys,
  clock    <- ledger,
  phase    <- [k \in Keys |-> IF status[k] \in Terminal THEN "closed" ELSE
                              IF status[k] = "Open" THEN "open" ELSE "absent"],
  held     <- remaining,
  drawn    <- [k \in Keys |-> receipts[k].spent],
  returned <- [k \in Keys |-> receipts[k].refunded],
  deadline <- [k \in Keys |-> IF status[k] = "Absent" THEN 0 ELSE terms[k].expires]

ImplementsCustody == Custody!Spec

(***************************************************************************)
(* The escrow's events tell the lifecycle of its orders: every invocation  *)
(* is a step of OrderLog, whose log the limit keeper and the analytics     *)
(* indexer read, and no order changes without its event.                   *)
(***************************************************************************)
Lifecycle == INSTANCE OrderLog WITH
  MaxExpiry <- MaxLedger + 1,
  Deposits  <- Amounts,
  Intervals <- 0 .. MaxInterval,
  Rates     <- Rates \union {0},
  terms     <- [k \in Keys |-> IF status[k] = "Absent" THEN NoTerms ELSE
                  [rate |-> terms[k].rate, chunk |-> terms[k].chunk,
                   interval |-> terms[k].interval, expires |-> terms[k].expires]],
  log       <- [i \in DOMAIN events |->
                  [topic |-> events[i].topic, key |-> events[i].key,
                   ledger |-> events[i].ledger,
                   remaining |-> events[i].remaining, due |-> events[i].due]]

ImplementsLifecycle == Lifecycle!ChainSpec
=============================================================================
