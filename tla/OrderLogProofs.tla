--------------------------- MODULE OrderLogProofs ---------------------------
(***************************************************************************)
(* What the log of OrderLog tells about the orders, proved for every value *)
(* of the constants and used by the proofs about the services that read    *)
(* the log.                                                                *)
(***************************************************************************)
EXTENDS OrderLog, TLAPS

Topics == {"created", "filled", "cancelled", "expired"}
Event == [topic : Topics, key : Keys, ledger : Nat, remaining : Nat, due : Nat]
Statuses == {"Absent", "Open"} \union Terminal

ChainTypeOK ==
  /\ ledger \in Nat
  /\ status \in [Keys -> Statuses]
  /\ terms \in [Keys -> Terms \union {NoTerms}]
  /\ \A k \in Keys : status[k] # "Absent" => terms[k] \in Terms
  /\ remaining \in [Keys -> Nat]
  /\ due \in [Keys -> Nat]
  /\ log \in Seq(Event)

\* The events are in the order of their ledgers, and none is from the future.
LogOrdered ==
  /\ \A i \in DOMAIN log : log[i].ledger <= ledger
  /\ \A i, j \in DOMAIN log : i <= j => log[i].ledger <= log[j].ledger

Closing(e) == e.topic \in {"cancelled", "expired"} \/ (e.topic = "filled" /\ e.remaining = 0)

\* An order has events once it exists, the first of them is its creation, and
\* it is open as long as none of them closes it.
LogTellsStatus ==
  /\ \A i \in DOMAIN log : /\ status[log[i].key] # "Absent"
                           /\ Closing(log[i]) => status[log[i].key] # "Open"
  /\ \A i, j \in DOMAIN log :
       log[i].topic = "created" /\ log[i].key = log[j].key => i <= j

ChainInv == ChainTypeOK /\ LogOrdered /\ LogTellsStatus

\* Every call the contract accepts, whatever its arguments.
Call(k) ==
  \/ \E t \in Terms, amount, start \in Nat : Place(k, t, amount, start)
  \/ \E amount, next \in Nat : Take(k, amount, next)
  \/ Cancel(k)
  \/ Reclaim(k)

ChainStep == CloseLedger \/ UNCHANGED chain \/ \E k \in Keys : Call(k)

(***************************************************************************)
(* What a reader of the log can rely on across a step of the chain: what   *)
(* was published stays, what is new carries the current ledger, an order   *)
(* with events never opens again and a closed one stays as it is.          *)
(***************************************************************************)
Later ==
  /\ ledger' >= ledger
  /\ Len(log') >= Len(log)
  /\ \A i \in DOMAIN log : i \in DOMAIN log' /\ log'[i] = log[i]
  /\ \A i \in DOMAIN log' : i \notin DOMAIN log => log'[i].ledger >= ledger
  /\ \A k \in Keys : status'[k] = "Open" => status[k] \in {"Open", "Absent"}
  /\ \A k \in Keys : status[k] \in Terminal => status'[k] = status[k]

\* The status an event leaves its order in.
StatusAfter(e) ==
  CASE e.topic = "cancelled" -> "Cancelled"
    [] e.topic = "expired" -> "Expired"
    [] e.topic = "filled" /\ e.remaining = 0 -> "Filled"
    [] OTHER -> "Open"

\* One event about k is published, which tells what k is now, and no other order
\* changes; a refund keeps the next execution.
Tells(k, e) ==
  /\ log' = Append(log, e) /\ e.key = k /\ e.ledger = ledger
  /\ ledger' = ledger
  /\ terms' \in [Keys -> Terms \union {NoTerms}]
  /\ status' \in [Keys -> Statuses]
  /\ remaining' \in [Keys -> Nat] /\ due' \in [Keys -> Nat]
  /\ \A j \in Keys \ {k} : /\ status'[j] = status[j] /\ terms'[j] = terms[j]
                           /\ remaining'[j] = remaining[j] /\ due'[j] = due[j]
  /\ terms'[k] \in Terms
  /\ status[k] = IF e.topic = "created" THEN "Absent" ELSE "Open"
  /\ status'[k] = StatusAfter(e)
  /\ remaining'[k] = e.remaining /\ due'[k] = e.due
  /\ e.topic \in {"cancelled", "expired"} => e.remaining = 0 /\ e.due = due[k]

Publishes(k) == \E e \in Event : Tells(k, e)

-----------------------------------------------------------------------------

\* The bounded next-state relation only takes steps of ChainStep.
LEMMA ChainNextIsStep == ASSUME ChainTypeOK, [ChainNext]_chain PROVE ChainStep
<1> USE LogAssumption DEF ChainTypeOK, Terms
<1>1. CASE UNCHANGED chain
  BY <1>1 DEF ChainStep
<1>2. CASE CloseLedger
  BY <1>2 DEF ChainStep
<1>3. ASSUME NEW k \in Keys, Traded(k) PROVE ChainStep
  <2>1. CASE Placed(k)
    <3>1. PICK amount \in Deposits, rate \in Rates, chunk \in Deposits \union {0},
               interval \in Intervals \union {0}, expires \in 1 .. MaxExpiry,
               start \in 0 .. MaxLedger :
                 Place(k, [rate |-> rate, chunk |-> chunk, interval |-> interval,
                           expires |-> expires], amount, start)
      BY <2>1 DEF Placed
    <3>2. rate \in Nat /\ chunk \in Nat /\ interval \in Nat /\ expires \in Nat
          /\ amount \in Nat /\ start \in Nat
      OBVIOUS
    <3>3. [rate |-> rate, chunk |-> chunk, interval |-> interval, expires |-> expires] \in Terms
      BY <3>2
    <3> QED BY <3>1, <3>2, <3>3 DEF ChainStep, Call
  <2>2. ASSUME NEW amount \in Deposits, Take(k, amount, Reschedule(k)) PROVE ChainStep
    <3>1. terms[k] \in Terms
      BY <2>2 DEF Take, Takes, Open
    <3>2. Reschedule(k) \in Nat
      BY <3>1 DEF Reschedule
    <3>3. amount \in Nat
      OBVIOUS
    <3> QED BY <2>2, <3>2, <3>3 DEF ChainStep, Call
  <2>3. CASE Cancel(k) \/ Reclaim(k)
    BY <2>3 DEF ChainStep, Call
  <2> QED BY <1>3, <2>1, <2>2, <2>3 DEF Traded
<1> QED BY <1>1, <1>2, <1>3 DEF ChainNext

\* The entries of the log are events.
LEMMA Entries ==
  ASSUME ChainTypeOK
  PROVE /\ Len(log) \in Nat /\ DOMAIN log = 1 .. Len(log)
        /\ \A i \in DOMAIN log : /\ log[i] \in Event
                                 /\ log[i].key \in Keys /\ log[i].topic \in Topics
                                 /\ log[i].ledger \in Nat
                                 /\ log[i].remaining \in Nat /\ log[i].due \in Nat
<1>1. Len(log) \in Nat /\ DOMAIN log = 1 .. Len(log)
      /\ \A i \in DOMAIN log : log[i] \in Event
  BY DEF ChainTypeOK
<1> QED BY <1>1 DEF Event

\* An event leaves its order open unless it closes it.
LEMMA AfterAnEvent ==
  ASSUME NEW e
  PROVE /\ Closing(e) => StatusAfter(e) \in Terminal
        /\ ~Closing(e) => StatusAfter(e) = "Open"
BY DEF Closing, StatusAfter, Terminal

\* Whatever publishes an event with the right status tells what its order is now.
LEMMA PublishTells ==
  ASSUME ChainTypeOK, NEW k \in Keys, NEW topic \in Topics, NEW left \in Nat, NEW next \in Nat,
         NEW t \in Terms, NEW e,
         e = [topic |-> topic, key |-> k, ledger |-> ledger, remaining |-> left, due |-> next],
         Publish(topic, k, left, next),
         status' = [status EXCEPT ![k] = StatusAfter(e)],
         terms' = [terms EXCEPT ![k] = t],
         status[k] = IF topic = "created" THEN "Absent" ELSE "Open",
         topic \in {"cancelled", "expired"} => left = 0 /\ next = due[k]
  PROVE Publishes(k)
<1>1. /\ e \in Event
      /\ e.topic = topic /\ e.key = k /\ e.ledger = ledger /\ e.remaining = left /\ e.due = next
  BY DEF Event, ChainTypeOK
<1>2. StatusAfter(e) \in Statuses
  BY DEF StatusAfter, Statuses, Terminal
<1>3. /\ status \in [Keys -> Statuses] /\ terms \in [Keys -> Terms \union {NoTerms}]
      /\ remaining \in [Keys -> Nat] /\ due \in [Keys -> Nat]
  BY DEF ChainTypeOK
<1>4. /\ remaining' = [remaining EXCEPT ![k] = left] /\ due' = [due EXCEPT ![k] = next]
      /\ log' = Append(log, e) /\ ledger' = ledger
  BY DEF Publish
<1>5. /\ terms' \in [Keys -> Terms \union {NoTerms}] /\ status' \in [Keys -> Statuses]
      /\ remaining' \in [Keys -> Nat] /\ due' \in [Keys -> Nat]
      /\ terms'[k] = t /\ status'[k] = StatusAfter(e) /\ remaining'[k] = left /\ due'[k] = next
      /\ \A j \in Keys \ {k} : /\ status'[j] = status[j] /\ terms'[j] = terms[j]
                               /\ remaining'[j] = remaining[j] /\ due'[j] = due[j]
  BY <1>2, <1>3, <1>4
<1>6. Tells(k, e)
  BY <1>1, <1>4, <1>5 DEF Tells
<1> QED BY <1>1, <1>6 DEF Publishes

\* Every call publishes one event about its order and changes no other order.
LEMMA CallPublishes ==
  ASSUME ChainTypeOK, NEW k \in Keys, Call(k)
  PROVE Publishes(k)
<1>1. /\ status \in [Keys -> Statuses] /\ terms \in [Keys -> Terms \union {NoTerms}]
      /\ remaining[k] \in Nat /\ due[k] \in Nat /\ (status[k] # "Absent" => terms[k] \in Terms)
  BY DEF ChainTypeOK
<1> DEFINE Entry(topic, left, next) == [topic |-> topic, key |-> k, ledger |-> ledger,
                                        remaining |-> left, due |-> next]
<1>2. ASSUME NEW t \in Terms, NEW amount \in Nat, NEW start \in Nat, Place(k, t, amount, start)
      PROVE Publishes(k)
  <2>1. StatusAfter(Entry("created", amount, start)) = "Open"
    BY DEF StatusAfter
  <2>2. /\ status[k] = "Absent" /\ terms' = [terms EXCEPT ![k] = t]
        /\ status' = [status EXCEPT ![k] = "Open"] /\ Publish("created", k, amount, start)
    BY <1>2 DEF Place
  <2> QED BY <2>1, <2>2, PublishTells DEF Topics
<1>3. ASSUME NEW amount \in Nat, NEW next \in Nat, Take(k, amount, next)
      PROVE Publishes(k)
  <2>1. /\ status[k] = "Open" /\ terms[k] \in Terms /\ amount <= remaining[k]
        /\ terms' = [terms EXCEPT ![k] = terms[k]] /\ status = [status EXCEPT ![k] = "Open"]
    BY <1>1, <1>3 DEF Take, Takes, Open
  <2>2. CASE remaining[k] = amount
    <3>1. StatusAfter(Entry("filled", 0, due[k])) = "Filled"
      BY DEF StatusAfter
    <3>2. status' = [status EXCEPT ![k] = "Filled"] /\ Publish("filled", k, 0, due[k])
      BY <1>3, <2>2 DEF Take
    <3> QED BY <1>1, <2>1, <3>1, <3>2, PublishTells DEF Topics
  <2>3. CASE remaining[k] # amount
    <3>1. remaining[k] - amount \in Nat /\ remaining[k] - amount # 0
      BY <1>1, <2>1, <2>3
    <3>2. StatusAfter(Entry("filled", remaining[k] - amount, next)) = "Open"
      BY <3>1 DEF StatusAfter
    <3>3. status' = [status EXCEPT ![k] = "Open"] /\ Publish("filled", k, remaining[k] - amount, next)
      BY <1>3, <2>1, <2>3 DEF Take
    <3> QED BY <2>1, <3>1, <3>2, <3>3, PublishTells DEF Topics
  <2> QED BY <2>2, <2>3
<1>4. ASSUME NEW final, NEW topic \in {"cancelled", "expired"}, End(k, final, topic),
             final = IF topic = "cancelled" THEN "Cancelled" ELSE "Expired"
      PROVE Publishes(k)
  <2>1. StatusAfter(Entry(topic, 0, due[k])) = final
    BY <1>4 DEF StatusAfter
  <2>2. /\ status[k] = "Open" /\ terms[k] \in Terms
        /\ terms' = [terms EXCEPT ![k] = terms[k]]
        /\ status' = [status EXCEPT ![k] = final] /\ Publish(topic, k, 0, due[k])
    BY <1>1, <1>4 DEF End, Open
  <2>3. topic \in Topics /\ topic # "created" /\ 0 \in Nat /\ due[k] \in Nat
    BY <1>1 DEF Topics
  <2>4. /\ status[k] = IF topic = "created" THEN "Absent" ELSE "Open"
        /\ status' = [status EXCEPT ![k] = StatusAfter(Entry(topic, 0, due[k]))]
    BY <2>1, <2>2, <2>3
  <2> QED BY <2>2, <2>3, <2>4, PublishTells
<1> QED BY <1>2, <1>3, <1>4 DEF Call, Cancel, Reclaim

(***************************************************************************)
(* The log keeps telling the orders' status across every step of the       *)
(* chain, and its readers can rely on Later.                               *)
(***************************************************************************)
LEMMA ChainStepKeeps == ASSUME ChainInv, ChainStep PROVE ChainInv' /\ Later
<1> USE DEF ChainInv
<1>1. CASE CloseLedger
  <2>1. UNCHANGED <<terms, status, remaining, due, log>> /\ ledger' = ledger + 1 /\ ledger \in Nat
    BY <1>1 DEF CloseLedger, ChainTypeOK
  <2>2. ChainTypeOK'
    BY <2>1 DEF ChainTypeOK
  <2>3. LogOrdered'
    BY <2>1, Entries DEF LogOrdered
  <2>4. LogTellsStatus'
    BY <2>1 DEF LogTellsStatus, Closing
  <2>5. Later
    BY <2>1 DEF Later, ChainTypeOK, Statuses
  <2> QED BY <2>2, <2>3, <2>4, <2>5
<1>2. CASE UNCHANGED chain
  <2>1. UNCHANGED <<ledger, terms, status, remaining, due, log>>
    BY <1>2 DEF chain
  <2>2. ChainTypeOK'
    BY <2>1 DEF ChainTypeOK
  <2>3. LogOrdered' /\ LogTellsStatus'
    BY <2>1 DEF LogOrdered, LogTellsStatus, Closing
  <2>4. Later
    BY <2>1 DEF Later, ChainTypeOK, Statuses
  <2> QED BY <2>2, <2>3, <2>4
<1>3. ASSUME NEW k \in Keys, Call(k) PROVE ChainInv' /\ Later
  <2>1. Publishes(k)
    BY <1>3, CallPublishes
  <2>2. PICK e \in Event : Tells(k, e)
    BY <2>1 DEF Publishes
  <2>3. /\ log \in Seq(Event) /\ Len(log) \in Nat
        /\ log' \in Seq(Event)
        /\ Len(log') = Len(log) + 1
        /\ DOMAIN log = 1 .. Len(log) /\ DOMAIN log' = 1 .. Len(log) + 1
        /\ \A i \in DOMAIN log : log'[i] = log[i]
        /\ log'[Len(log) + 1] = e
    BY <2>2 DEF ChainTypeOK, Tells
  <2>10. /\ e.key = k /\ e.ledger = ledger /\ ledger' = ledger
         /\ \A j \in Keys \ {k} : status'[j] = status[j]
         /\ IF e.topic = "created" THEN status[k] = "Absent" /\ ~Closing(e)
                                   ELSE status[k] = "Open"
         /\ IF Closing(e) THEN status'[k] \in Terminal ELSE status'[k] = "Open"
    BY <2>2, AfterAnEvent DEF Tells, Closing
  <2>4. ChainTypeOK'
    <3>1. /\ terms' \in [Keys -> Terms \union {NoTerms}] /\ status' \in [Keys -> Statuses]
          /\ remaining' \in [Keys -> Nat] /\ due' \in [Keys -> Nat] /\ ledger' = ledger
          /\ \A j \in Keys \ {k} : status'[j] = status[j] /\ terms'[j] = terms[j]
          /\ terms'[k] \in Terms
      BY <2>2 DEF Tells
    <3> QED BY <2>3, <3>1 DEF ChainTypeOK
  <2>5. LogOrdered'
    <3>1. e.ledger = ledger /\ ledger' = ledger /\ ledger \in Nat
      BY <2>10 DEF ChainTypeOK
    <3>2. \A i \in DOMAIN log : log[i].ledger \in Nat
      BY Entries
    <3> QED BY <2>3, <3>1, <3>2 DEF LogOrdered
  <2>6. \A i \in DOMAIN log : log[i].key \in Keys
    BY Entries
  <2>7. (\A i \in DOMAIN log : /\ status[log[i].key] # "Absent"
                               /\ Closing(log[i]) => status[log[i].key] # "Open")'
    <3> SUFFICES ASSUME NEW i \in DOMAIN log'
                 PROVE /\ status'[log'[i].key] # "Absent"
                       /\ Closing(log'[i]) => status'[log'[i].key] # "Open"
      BY DEF Closing
    <3>1. CASE i \in DOMAIN log
      <4>1. status[log[i].key] # "Absent" /\ (Closing(log[i]) => status[log[i].key] # "Open")
        BY <3>1 DEF LogTellsStatus
      <4> QED BY <2>10, <2>3, <2>6, <3>1, <4>1 DEF Terminal, Closing
    <3>2. CASE i = Len(log) + 1
      BY <2>10, <2>3, <3>2 DEF Terminal, Closing
    <3> QED BY <2>3, <3>1, <3>2
  <2>8. (\A i, j \in DOMAIN log :
           log[i].topic = "created" /\ log[i].key = log[j].key => i <= j)'
    BY <2>10, <2>3, <2>6 DEF LogTellsStatus
  <2>9. Later
    BY <2>10, <2>3 DEF Later, Terminal, ChainTypeOK, Statuses
  <2> QED BY <2>4, <2>5, <2>7, <2>8, <2>9 DEF LogTellsStatus
<1> QED BY <1>1, <1>2, <1>3 DEF ChainStep

\* An empty chain has an empty log.
LEMMA ChainInitInv == ASSUME ChainInit PROVE ChainInv
BY LogAssumption DEF ChainInit, ChainInv, ChainTypeOK, LogOrdered, LogTellsStatus, Statuses, Event

(***************************************************************************)
(* The log tells every reader the same story: events in the order of their *)
(* ledgers, each order's creation first, nothing for an order that does    *)
(* not exist, no closing event for an order that is open.                  *)
(***************************************************************************)
THEOREM LogIsFaithful == ChainSpec => []ChainInv
<1>1. ChainInit => ChainInv
  BY ChainInitInv
<1>2. ChainInv /\ [ChainNext]_chain => ChainInv'
  BY ChainNextIsStep, ChainStepKeeps DEF ChainInv
<1> QED BY <1>1, <1>2, PTL DEF ChainSpec

-----------------------------------------------------------------------------
(***************************************************************************)
(* What the log tells about the rows                                       *)
(***************************************************************************)

LastOf(k, i) == log[i].key = k /\ \A j \in DOMAIN log : log[j].key = k => j <= i

\* The last event of an order tells what the order is on chain.
LastTells ==
  \A k \in Keys : status[k] # "Absent" =>
    \E i \in DOMAIN log :
      /\ LastOf(k, i)
      /\ status[k] = StatusAfter(log[i])
      /\ remaining[k] = log[i].remaining /\ due[k] = log[i].due

\* Every event but a creation has one of the same order before it.
OthersFollow ==
  \A i \in DOMAIN log : log[i].topic # "created" =>
    \E j \in DOMAIN log : j < i /\ log[j].key = log[i].key

\* An event that closes an order is its last one.
ClosingIsLast ==
  \A i, j \in DOMAIN log : Closing(log[i]) /\ log[j].key = log[i].key => j <= i

\* The event j is the one of its order before the event i.
EventBefore(j, i) ==
  /\ j < i /\ log[j].key = log[i].key
  /\ \A l \in DOMAIN log : l < i /\ log[l].key = log[i].key => l <= j

\* A refund leaves nothing, and the next execution as the event before it had it.
RefundsKeepDue ==
  \A i \in DOMAIN log : log[i].topic \in {"cancelled", "expired"} =>
    /\ log[i].remaining = 0
    /\ \E j \in DOMAIN log : EventBefore(j, i) /\ log[j].due = log[i].due

LogTellsRows == LastTells /\ OthersFollow /\ ClosingIsLast /\ RefundsKeepDue

\* A step of the chain that publishes nothing leaves the story as it is.
LEMMA SilenceKeepsRows ==
  ASSUME LogTellsRows, UNCHANGED <<status, remaining, due, log>>
  PROVE LogTellsRows'
BY DEF LogTellsRows, LastTells, LastOf, OthersFollow, ClosingIsLast,
       RefundsKeepDue, EventBefore, Closing, StatusAfter

\* An event is the last one of its order, and the first one if it is a creation.
LEMMA EventKeepsRows ==
  ASSUME ChainInv, LogTellsRows, NEW k \in Keys, NEW e \in Event, Tells(k, e)
  PROVE LogTellsRows'
<1>1. PICK n \in Nat : /\ DOMAIN log = 1 .. n /\ DOMAIN log' = 1 .. n + 1
                       /\ \A i \in 1 .. n : log'[i] = log[i]
                       /\ log'[n + 1] = e
  <2>1. log \in Seq(Event) /\ log' = Append(log, e)
    BY DEF ChainInv, ChainTypeOK, Tells
  <2>2. /\ Len(log) \in Nat /\ DOMAIN log = 1 .. Len(log) /\ DOMAIN log' = 1 .. Len(log) + 1
        /\ \A i \in 1 .. Len(log) : log'[i] = log[i]
        /\ log'[Len(log) + 1] = e
    BY <2>1
  <2> QED BY <2>2
<1>2. /\ e.key = k
      /\ \A j \in Keys \ {k} : /\ status'[j] = status[j]
                               /\ remaining'[j] = remaining[j] /\ due'[j] = due[j]
      /\ status[k] = IF e.topic = "created" THEN "Absent" ELSE "Open"
      /\ status'[k] = StatusAfter(e)
      /\ remaining'[k] = e.remaining /\ due'[k] = e.due
      /\ e.topic \in {"cancelled", "expired"} => e.remaining = 0 /\ e.due = due[k]
  BY DEF Tells
<1>3. \A i \in 1 .. n : log[i].key \in Keys
  BY <1>1, Entries DEF ChainInv
<1>4. LastTells'
  <2> SUFFICES ASSUME NEW j \in Keys, status'[j] # "Absent"
               PROVE \E i \in DOMAIN log' :
                       /\ LastOf(j, i)'
                       /\ status'[j] = StatusAfter(log'[i])
                       /\ remaining'[j] = log'[i].remaining /\ due'[j] = log'[i].due
    BY DEF LastTells, StatusAfter
  <2>1. CASE j = k
    <3>1. LastOf(k, n + 1)'
      BY <1>1, <1>2 DEF LastOf
    <3> QED BY <1>1, <1>2, <2>1, <3>1
  <2>2. CASE j # k
    <3>1. PICK i \in DOMAIN log :
            /\ LastOf(j, i)
            /\ status[j] = StatusAfter(log[i])
            /\ remaining[j] = log[i].remaining /\ due[j] = log[i].due
      BY <1>2, <2>2 DEF LogTellsRows, LastTells
    <3>2. LastOf(j, i)'
      BY <1>1, <1>2, <2>2, <3>1 DEF LastOf
    <3> QED BY <1>1, <1>2, <2>2, <3>1, <3>2
  <2> QED BY <2>1, <2>2
<1>5. OthersFollow'
  <2> SUFFICES ASSUME NEW i \in DOMAIN log', log'[i].topic # "created"
               PROVE \E j \in DOMAIN log' : j < i /\ log'[j].key = log'[i].key
    BY DEF OthersFollow
  <2>1. CASE i \in 1 .. n
    <3>1. PICK j \in DOMAIN log : j < i /\ log[j].key = log[i].key
      BY <1>1, <2>1 DEF LogTellsRows, OthersFollow
    <3> QED BY <1>1, <2>1, <3>1
  <2>2. CASE i = n + 1
    <3>1. PICK j \in DOMAIN log : log[j].key = k
      BY <1>1, <1>2, <2>2 DEF LogTellsRows, LastTells, LastOf
    <3> QED BY <1>1, <1>2, <2>2, <3>1
  <2> QED BY <1>1, <2>1, <2>2
<1>6. ClosingIsLast'
  <2> SUFFICES ASSUME NEW i \in DOMAIN log', NEW j \in DOMAIN log',
                      Closing(log'[i]), log'[j].key = log'[i].key
               PROVE j <= i
    BY DEF ClosingIsLast, Closing
  <2>1. CASE i = n + 1
    BY <1>1, <2>1
  <2>2. CASE i \in 1 .. n /\ j \in 1 .. n
    BY <1>1, <2>2 DEF LogTellsRows, ClosingIsLast
  <2>3. CASE i \in 1 .. n /\ j = n + 1
    <3>1. log[i].key = k /\ Closing(log[i])
      BY <1>1, <1>2, <2>3
    <3>2. status[k] # "Absent" /\ status[k] # "Open"
      BY <1>1, <2>3, <3>1 DEF ChainInv, LogTellsStatus
    <3> QED BY <1>2, <3>2
  <2> QED BY <1>1, <2>1, <2>2, <2>3
<1>7. RefundsKeepDue'
  <2> SUFFICES ASSUME NEW i \in DOMAIN log', log'[i].topic \in {"cancelled", "expired"}
               PROVE /\ log'[i].remaining = 0
                     /\ \E j \in DOMAIN log' : EventBefore(j, i)' /\ log'[j].due = log'[i].due
    BY DEF RefundsKeepDue
  <2>1. CASE i \in 1 .. n
    <3>1. log[i].remaining = 0 /\ \E j \in DOMAIN log : EventBefore(j, i) /\ log[j].due = log[i].due
      BY <1>1, <2>1 DEF LogTellsRows, RefundsKeepDue
    <3>2. \A j \in DOMAIN log : EventBefore(j, i) => EventBefore(j, i)'
      BY <1>1, <2>1 DEF EventBefore
    <3> QED BY <1>1, <2>1, <3>1, <3>2
  <2>2. CASE i = n + 1
    <3>1. PICK l \in DOMAIN log : LastOf(k, l) /\ due[k] = log[l].due
      BY <1>1, <1>2, <2>2 DEF LogTellsRows, LastTells
    <3>2. EventBefore(l, i)'
      BY <1>1, <1>2, <2>2, <3>1 DEF EventBefore, LastOf
    <3> QED BY <1>1, <1>2, <2>2, <3>1, <3>2
  <2> QED BY <1>1, <2>1, <2>2
<1> QED BY <1>4, <1>5, <1>6, <1>7 DEF LogTellsRows

\* Every step of the chain keeps the story its log tells.
LEMMA ChainKeepsRows ==
  ASSUME ChainInv, LogTellsRows, ChainStep
  PROVE LogTellsRows'
<1>1. CASE CloseLedger \/ UNCHANGED chain
  BY <1>1, SilenceKeepsRows DEF CloseLedger, chain
<1>2. ASSUME NEW k \in Keys, Call(k) PROVE LogTellsRows'
  <2>1. PICK e \in Event : Tells(k, e)
    BY <1>2, CallPublishes DEF ChainInv, Publishes
  <2> QED BY <2>1, EventKeepsRows
<1> QED BY <1>1, <1>2 DEF ChainStep
=============================================================================
