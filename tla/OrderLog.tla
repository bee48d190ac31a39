------------------------------ MODULE OrderLog ------------------------------
(***************************************************************************)
(* The order escrow contract as the off-chain services see it: the         *)
(* lifecycle of each order and the log of the events it published, without *)
(* balances, callers or prices.  OrderEscrow implements this               *)
(* specification; the limit keeper and the analytics indexer extend it and *)
(* read the log.                                                           *)
(***************************************************************************)
EXTENDS Integers, Sequences

CONSTANTS
  Keys,       \* order keys: kind and id
  NoTerms,    \* the terms of a key that is not stored
  U32Max,     \* largest u32
  MaxLedger,  \* bound: last ledger closed
  MaxExpiry,  \* bound: last expires_ledger asked for
  Deposits,   \* bound: amounts deposited, swapped and asked for per chunk
  Intervals,  \* bound: interval_ledgers of DCA orders
  Rates       \* bound: output-per-input rates

Terminal == {"Filled", "Cancelled", "Expired"}
Terms == [rate : Nat, chunk : Nat, interval : Nat, expires : Nat]

ASSUME LogAssumption ==
  /\ Keys \subseteq {"limit", "dca"} \X Nat
  /\ NoTerms \notin Terms
  /\ U32Max \in Nat /\ MaxLedger \in Nat /\ MaxExpiry \in Nat
  /\ Deposits \subseteq Nat /\ Intervals \subseteq Nat /\ Rates \subseteq Nat

VARIABLES
  ledger,     \* the ledger being built: what is published now carries it
  terms,      \* the fields of an order that never change
  status,     \* OrderStatus, or "Absent"
  remaining,  \* amount_in_remaining
  due,        \* next_executable_ledger; 0 in a limit order
  log         \* the events published, oldest first

chain == <<ledger, terms, status, remaining, due, log>>

Open(k) == status[k] = "Open"

ChainInit ==
  /\ ledger = 1
  /\ terms = [k \in Keys |-> NoTerms]
  /\ status = [k \in Keys |-> "Absent"]
  /\ remaining = [k \in Keys |-> 0]
  /\ due = [k \in Keys |-> 0]
  /\ log = <<>>

CloseLedger ==
  /\ ledger < MaxLedger
  /\ ledger' = ledger + 1
  /\ UNCHANGED <<terms, status, remaining, due, log>>

Publish(topic, k, left, next) ==
  /\ remaining' = [remaining EXCEPT ![k] = left]
  /\ due' = [due EXCEPT ![k] = next]
  /\ log' = Append(log, [topic |-> topic, key |-> k, ledger |-> ledger,
                         remaining |-> left, due |-> next])
  /\ UNCHANGED ledger

\* create_limit and create_dca.
Place(k, t, amount, start) ==
  /\ status[k] = "Absent"
  /\ amount > 0
  /\ t.expires > ledger
  /\ IF k[1] = "limit"
       THEN t.chunk = 0 /\ start = 0
       ELSE /\ t.chunk > 0 /\ t.chunk <= amount
            /\ start >= ledger /\ start < t.expires
  /\ terms' = [terms EXCEPT ![k] = t]
  /\ status' = [status EXCEPT ![k] = "Open"]
  /\ Publish("created", k, amount, start)

\* What fill_dca swaps.
NextChunk(k) == IF remaining[k] < terms[k].chunk THEN remaining[k] ELSE terms[k].chunk

\* fill may take any part of a limit order, fill_dca takes the due chunk.
Takes(k, amount) ==
  /\ Open(k)
  /\ ledger < terms[k].expires
  /\ amount > 0 /\ amount <= remaining[k]
  /\ k[1] = "dca" => ledger >= due[k] /\ amount = NextChunk(k)

Take(k, amount, next) ==
  /\ Takes(k, amount)
  /\ IF remaining[k] = amount
       THEN /\ status' = [status EXCEPT ![k] = "Filled"]
            /\ Publish("filled", k, 0, due[k])
       ELSE /\ UNCHANGED status
            /\ Publish("filled", k, remaining[k] - amount, next)
  /\ UNCHANGED terms

\* When a fill in this ledger lets the next one happen.
Reschedule(k) ==
  CASE k[1] = "limit" -> 0
    [] k[1] # "limit" /\ ledger + terms[k].interval > U32Max -> U32Max
    [] OTHER -> ledger + terms[k].interval

\* The refund that cancel and reclaim_expired share.
End(k, final, topic) ==
  /\ Open(k)
  /\ status' = [status EXCEPT ![k] = final]
  /\ Publish(topic, k, 0, due[k])
  /\ UNCHANGED terms

Cancel(k) == End(k, "Cancelled", "cancelled")

Reclaimable(k) == Open(k) /\ ledger > terms[k].expires

Reclaim(k) == Reclaimable(k) /\ End(k, "Expired", "expired")

\* The terms and starts an order of the bounds can have.
Placed(k) ==
  \E amount \in Deposits, rate \in Rates, chunk \in Deposits \union {0},
     interval \in Intervals \union {0}, expires \in 1 .. MaxExpiry,
     start \in 0 .. MaxLedger :
    /\ (k[1] = "limit") <=> (interval = 0)
    /\ Place(k, [rate |-> rate, chunk |-> chunk, interval |-> interval,
                 expires |-> expires], amount, start)

\* What owners and other fillers do; nobody else is needed to reclaim.
Traded(k) ==
  \/ Placed(k)
  \/ \E amount \in Deposits : Take(k, amount, Reschedule(k))
  \/ Cancel(k)
  \/ Reclaim(k)

ChainNext == CloseLedger \/ \E k \in Keys : Traded(k)

ChainSpec == ChainInit /\ [][ChainNext]_chain
=============================================================================
