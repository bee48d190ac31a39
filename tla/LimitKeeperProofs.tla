------------------------- MODULE LimitKeeperProofs -------------------------
(***************************************************************************)
(* Proofs about the limit keeper, for every set of orders, every bound and *)
(* every configuration of the keeper.                                      *)
(*                                                                         *)
(* NoOpenOrderForgotten is not inductive: while an answer is applied the   *)
(* book is ahead of the cursor in some orders and behind it in others.     *)
(* KeeperInv adds what is known then (Applying), that a confirmed reclaim  *)
(* is final, and what the log tells about the orders (ChainInv).           *)
(*                                                                         *)
(* CaughtUpBookExact needs to know what the book is while it is behind     *)
(* (BookInv): it has of each tracked order what the last event passed, or  *)
(* a later one, left, or nothing, when the reclaim that ended it is known  *)
(* already; an event applied again, or late, leaves it there or takes it   *)
(* on.                                                                     *)
(***************************************************************************)
EXTENDS LimitKeeper, OrderLogProofs

Txs == [op : {"fill", "reclaim"}, key : Keys, amount : Nat]

\* No order created before ledger c and still open is missing from b.
Covers(b, c) == \A k \in Keys : Open(k) /\ CreatedBefore(k, c) => b[k] # NoOrder

\* The answer reaches the end of its range, the book its applied part.
Applying ==
  /\ pos <= fetched /\ fetched \in 0 .. Len(log)
  /\ \A i \in DOMAIN log : log[i].ledger < end => i <= fetched
  /\ \A i \in DOMAIN log : log[i].ledger < cursor => i <= pos
  /\ \A i \in DOMAIN log :
       i > origin /\ i <= pos /\ log[i].topic = "created" /\ Open(log[i].key)
         => book[log[i].key] # NoOrder

KeeperInv ==
  /\ ChainInv
  /\ TypeOK
  /\ ledger >= 1 /\ cursor <= ledger
  /\ pc \notin {"pass", "poll"} => todo = {}
  /\ inflight \subseteq Txs /\ tx \in Txs \union {NoTx}
  /\ outcome \in {"pending", "success", "failed"}
  /\ (tx # NoTx /\ tx.op = "reclaim" /\ outcome = "success") => status[tx.key] \in Terminal
  /\ origin \in Nat
  /\ file # NoFile => file.cursor <= ledger /\ Covers(file.book, file.cursor)
  /\ pc \in {"idle", "scan", "pass", "poll"} => Covers(book, cursor)
  /\ pc = "apply" => Applying

\* No range of Span ledgers has more events than MAX_PAGES pages hold.
Paged ==
  \A i, j \in DOMAIN log : log[j].ledger < log[i].ledger + Span => j < i + MaxEvents

-----------------------------------------------------------------------------

\* What the book covers stays covered when the chain takes a step: an order
\* created later is created in a ledger that has not been read.
LEMMA CoversStays ==
  ASSUME ChainInv, ChainInv', Later, UNCHANGED origin, NEW b, NEW c \in Nat,
         c <= ledger, Covers(b, c)
  PROVE Covers(b, c)'
<1> SUFFICES ASSUME NEW k \in Keys, Open(k)', CreatedBefore(k, c)' PROVE b[k] # NoOrder
  BY DEF Covers, Open, CreatedBefore
<1>1. PICK i \in DOMAIN log' : /\ i > origin /\ log'[i].ledger < c
                               /\ log'[i].topic = "created" /\ log'[i].key = k
  BY DEF CreatedBefore
<1>2. i \in DOMAIN log /\ log[i] = log'[i]
  <2>1. ledger \in Nat /\ (i \notin DOMAIN log => log'[i].ledger >= ledger)
    BY DEF Later, ChainInv, ChainTypeOK
  <2>2. log'[i].ledger \in Nat
    <3>1. log' \in Seq(Event)
      BY DEF ChainInv, ChainTypeOK, Event, Topics
    <3>2. log'[i] \in Event
      BY <3>1
    <3> QED BY <3>2 DEF Event
  <2> QED BY <1>1, <2>1, <2>2 DEF Later
<1>3. CreatedBefore(k, c)
  BY <1>1, <1>2 DEF CreatedBefore
<1>4. status[k] # "Absent"
  BY <1>1, <1>2 DEF ChainInv, LogTellsStatus
<1>5. Open(k)
  BY <1>4 DEF Later, Open
<1> QED BY <1>3, <1>5 DEF Covers

\* The same for a book that is being brought up to date.
LEMMA ApplyingStays ==
  ASSUME ChainInv, ChainInv', Later, Applying, cursor <= ledger, cursor \in Nat,
         end <= ledger, end \in Nat, pos \in Nat, fetched \in Nat,
         UNCHANGED <<origin, pos, fetched, end, cursor, book>>
  PROVE Applying'
<1>1. /\ \A i \in DOMAIN log : log[i] = log'[i] /\ i \in DOMAIN log'
      /\ \A i \in DOMAIN log' : i \notin DOMAIN log => log'[i].ledger >= ledger
      /\ Len(log) \in Nat /\ Len(log') >= Len(log) /\ Len(log') \in Nat
      /\ DOMAIN log = 1 .. Len(log) /\ DOMAIN log' = 1 .. Len(log')
      /\ ledger \in Nat
      /\ \A i \in DOMAIN log' : log'[i].ledger \in Nat
  <2>1. log \in Seq(Event) /\ log' \in Seq(Event) /\ ledger \in Nat
    BY DEF ChainInv, ChainTypeOK, Event, Topics
  <2>2. \A i \in DOMAIN log' : log'[i] \in Event
    BY <2>1
  <2> QED BY <2>1, <2>2 DEF Later, Event
<1>2. pos' <= fetched' /\ fetched' \in 0 .. Len(log')
  BY <1>1 DEF Applying
<1>3. (\A i \in DOMAIN log : log[i].ledger < end => i <= fetched)'
  BY <1>1 DEF Applying
<1>4. (\A i \in DOMAIN log : log[i].ledger < cursor => i <= pos)'
  BY <1>1 DEF Applying
<1>5. ASSUME NEW i \in DOMAIN log', i > origin, i <= pos, log'[i].topic = "created",
             status'[log'[i].key] = "Open"
      PROVE book[log'[i].key] # NoOrder
  <2>1. i \in DOMAIN log /\ log[i] = log'[i]
    BY <1>1, <1>5 DEF Applying
  <2>2. status[log[i].key] # "Absent"
    BY <2>1 DEF ChainInv, LogTellsStatus
  <2>3. log[i].key \in Keys
    BY <2>1, Entries DEF ChainInv
  <2>4. status[log[i].key] = "Open"
    BY <1>5, <2>1, <2>2, <2>3 DEF Later
  <2> QED BY <1>5, <2>1, <2>4 DEF Applying, Open
<1> QED BY <1>2, <1>3, <1>4, <1>5 DEF Applying, Open

\* A step of the chain alone, or of the chain and the transactions in flight.
LEMMA ChainKeeps ==
  ASSUME KeeperInv, ChainInv', Later,
         UNCHANGED <<pc, latest, cursor, book, file, end, pos, fetched, todo, tx, origin>>,
         inflight' \subseteq inflight, outcome' \in {"pending", "success", "failed"},
         outcome' = outcome \/
           (outcome' = "success" /\ tx # NoTx /\ tx.op = "reclaim"
              => status'[tx.key] \in Terminal)
  PROVE KeeperInv'
<1> USE DEF KeeperInv
<1>1. ledger \in Nat /\ ledger' \in Nat /\ ledger <= ledger' /\ Len(log) \in Nat
      /\ Len(log') \in Nat /\ Len(log) <= Len(log')
  <2>1. ChainTypeOK /\ ChainTypeOK'
    BY DEF ChainInv
  <2>2. ledger \in Nat /\ ledger' \in Nat /\ log \in Seq(Event) /\ log' \in Seq(Event)
    BY ONLY <2>1 DEF ChainTypeOK, Event, Topics
  <2> QED BY <2>2 DEF Later
<1>2. TypeOK'
  BY <1>1 DEF TypeOK, Held
<1>3. ledger' >= 1 /\ cursor' <= ledger' /\ (pc \notin {"pass", "poll"} => todo = {})'
      /\ inflight' \subseteq Txs /\ tx' \in Txs \union {NoTx} /\ origin' \in Nat
  BY <1>1 DEF TypeOK
<1>4. ((tx # NoTx /\ tx.op = "reclaim" /\ outcome = "success") => status[tx.key] \in Terminal)'
  <2>1. tx # NoTx => tx.key \in Keys
    BY DEF Txs
  <2> QED BY <2>1 DEF Later
<1>5. (file # NoFile => file.cursor <= ledger /\ Covers(file.book, file.cursor))'
  <2> SUFFICES ASSUME file # NoFile
               PROVE file.cursor <= ledger' /\ Covers(file.book, file.cursor)'
    BY DEF Covers
  <2>1. file.cursor \in Nat /\ file.cursor <= ledger /\ Covers(file.book, file.cursor)
    BY DEF TypeOK
  <2>2. ASSUME NEW b, NEW c \in Nat, c <= ledger, Covers(b, c) PROVE Covers(b, c)'
    BY <2>2, CoversStays
  <2> QED BY <1>1, <2>1, <2>2 DEF Covers, CreatedBefore
<1>6. (pc \in {"idle", "scan", "pass", "poll"} => Covers(book, cursor))'
  <2>1. ASSUME NEW b, NEW c \in Nat, c <= ledger, Covers(b, c) PROVE Covers(b, c)'
    BY <2>1, CoversStays
  <2> QED BY <2>1 DEF TypeOK, Covers, CreatedBefore
<1>7. (pc = "apply" => Applying)'
  <2> SUFFICES ASSUME pc = "apply" PROVE Applying'
    OBVIOUS
  <2>1. /\ Applying /\ cursor \in Nat /\ end \in Nat /\ end <= ledger
        /\ pos \in Nat /\ fetched \in Nat
    BY <1>1 DEF TypeOK, Applying
  <2> QED BY <2>1, ApplyingStays
<1> QED BY <1>2, <1>3, <1>4, <1>5, <1>6, <1>7

-----------------------------------------------------------------------------

\* The chain does not move: what the keeper's own steps leave alone.
LEMMA Still ==
  ASSUME UNCHANGED chain
  PROVE /\ ChainInv => ChainInv'
        /\ ledger' = ledger /\ log' = log /\ status' = status /\ terms' = terms
        /\ \A k \in Keys : Open(k)' = Open(k)
BY DEF chain, ChainInv, ChainTypeOK, LogOrdered, LogTellsStatus, Closing, Open

LEMMA InitKeeps == ASSUME Init PROVE KeeperInv
<1>1. ChainInv
  BY ChainInitInv DEF Init
<1>2. TypeOK
  BY LogAssumption, KeeperAssumption
  DEF Init, ChainInit, TypeOK, NoBook, Held
<1>3. inflight \subseteq Txs /\ tx \in Txs \union {NoTx} /\ cursor <= ledger /\ ledger >= 1
  BY DEF Init, ChainInit
<1> QED BY <1>1, <1>2, <1>3 DEF Init, KeeperInv

LEMMA ExitKeeps == ASSUME KeeperInv, Exit, UNCHANGED chain PROVE KeeperInv'
<1> USE Still DEF KeeperInv
<1>1. UNCHANGED <<file, inflight, origin, ledger, log, status>> /\ pc' = "down" /\ latest' = 0
      /\ cursor' = 0 /\ book' = NoBook /\ end' = 0 /\ pos' = 0 /\ fetched' = 0
      /\ todo' = {} /\ tx' = NoTx /\ outcome' = "pending"
  BY DEF Exit
<1>2. ledger \in Nat /\ Len(log) \in Nat
  BY Entries DEF ChainInv, ChainTypeOK
<1>3. TypeOK'
  BY <1>1, <1>2 DEF TypeOK, NoBook, Held
<1>4. (file # NoFile => file.cursor <= ledger /\ Covers(file.book, file.cursor))'
  BY <1>1 DEF Covers, CreatedBefore, Open
<1> QED BY <1>1, <1>2, <1>3, <1>4

\* What a step of the keeper leaves alone of the invariant: a step of its own
\* shows the rest.
LEMMA StepKeeps ==
  ASSUME KeeperInv, UNCHANGED <<chain, inflight, file, origin>>,
         TypeOK', cursor' <= ledger,
         (pc \notin {"pass", "poll"} => todo = {})',
         tx' \in Txs \union {NoTx}, outcome' = outcome \/ tx' = NoTx \/ outcome' = "pending",
         outcome' \in {"pending", "success", "failed"}, tx' = tx \/ outcome' = "pending",
         (pc \in {"idle", "scan", "pass", "poll"} => Covers(book, cursor))',
         (pc = "apply" => Applying)'
  PROVE KeeperInv'
<1> USE Still DEF KeeperInv
<1>1. ledger' = ledger /\ log' = log /\ status' = status
  OBVIOUS
<1>2. (file # NoFile => file.cursor <= ledger /\ Covers(file.book, file.cursor))'
  BY <1>1 DEF Covers, CreatedBefore, Open
<1>3. ((tx # NoTx /\ tx.op = "reclaim" /\ outcome = "success") => status[tx.key] \in Terminal)'
  BY <1>1
<1> QED BY <1>1, <1>2, <1>3

\* The book covers no less when neither it nor the cursor moves.
LEMMA CoversSame ==
  ASSUME UNCHANGED <<chain, origin, book, cursor>>, Covers(book, cursor)
  PROVE Covers(book, cursor)'
BY Still DEF Covers, CreatedBefore, Open

\* The chain's variables are in the ranges the keeper's arithmetic needs.
LEMMA Ranges ==
  ASSUME KeeperInv
  PROVE /\ ledger \in Nat /\ Len(log) \in Nat /\ cursor \in Nat /\ latest \in Nat
        /\ end \in Nat /\ pos \in Nat /\ latest <= ledger /\ end <= ledger
BY Entries DEF KeeperInv, ChainInv, ChainTypeOK, TypeOK

LEMMA StartKeeps == ASSUME KeeperInv, Start PROVE KeeperInv'
<1> USE Still, Ranges DEF KeeperInv, Start
<1>1. UNCHANGED <<latest, file, end, pos, fetched, todo, tx, outcome, inflight, ledger, log, status>>
      /\ pc = "down" /\ pc' = "idle" /\ todo = {} /\ tx = NoTx
  BY DEF TypeOK
<1>2. CASE file = NoFile
  <2>1. PICK n \in 0 .. Len(log) : Split(n, cursor') /\ origin' = n
    BY <1>2
  <2>2. cursor' \in Nat /\ cursor' <= ledger /\ book' = NoBook
    BY <1>2, KeeperAssumption DEF Max2
  <2>3. Covers(book, cursor)'
    <3>1. \A i \in DOMAIN log' : i > n => ~(log'[i].ledger < cursor')
      BY <1>1, <2>1 DEF Split
    <3> QED BY <2>1, <3>1 DEF Covers, CreatedBefore
  <2>4. TypeOK'
    BY <1>1, <2>2 DEF TypeOK, NoBook, Held
  <2> QED BY <1>1, <1>2, <2>1, <2>2, <2>3, <2>4
<1>3. CASE file # NoFile
  <2>1. cursor' = file.cursor /\ book' = file.book /\ UNCHANGED origin
    BY <1>3
  <2>2. file.cursor \in Nat /\ file.book \in [Keys -> Entry \union {NoOrder}]
    BY <1>3 DEF TypeOK
  <2>3. TypeOK'
    BY <1>1, <2>1, <2>2 DEF TypeOK, Held
  <2>4. Covers(book, cursor)'
    BY <1>1, <1>3, <2>1 DEF Covers, CreatedBefore, Open
  <2>5. cursor' <= ledger
    BY <1>3, <2>1
  <2> QED BY <1>1, <2>1, <2>3, <2>4, <2>5, StepKeeps
<1> QED BY <1>2, <1>3

LEMMA PollKeeps == ASSUME KeeperInv, PollLatest PROVE KeeperInv'
<1> USE Still, Ranges DEF PollLatest
<1>1. UNCHANGED <<chain, ledger, cursor, book, file, end, pos, fetched, todo, tx, outcome,
                  inflight, origin>>
      /\ latest' = ledger /\ pc = "idle" /\ pc' = "scan"
  BY DEF chain
<1>2. TypeOK'
  BY <1>1 DEF KeeperInv, TypeOK, Held
<1>3. Covers(book, cursor)'
  BY <1>1, CoversSame DEF KeeperInv
<1> QED BY <1>1, <1>2, <1>3, StepKeeps DEF KeeperInv

\* The answer holds the whole range when its pages do not run out.
LEMMA FetchKeeps == ASSUME KeeperInv, Paged, Fetch PROVE KeeperInv'
<1> USE Still, Ranges
<1>1. UNCHANGED <<chain, latest, cursor, book, file, todo, tx, outcome, inflight, origin,
                  ledger, log, status>>
      /\ pc = "scan" /\ pc' = "apply" /\ cursor < latest
      /\ end' = Min2(cursor + Span, latest)
  BY DEF Fetch, chain
<1>2. PICK first, range \in 0 .. Len(log) :
        /\ Split(first, cursor) /\ Split(range, end') /\ pos' = first
        /\ \E last \in range .. Len(log) :
             /\ last > range => range > first
             /\ fetched' = Min2(last, first + MaxEvents)
  BY DEF Fetch
<1>3. end' \in Nat /\ end' <= latest /\ cursor < end' /\ end' <= cursor + Span
  BY <1>1, KeeperAssumption DEF Min2
<1>4. DOMAIN log = 1 .. Len(log) /\ \A i \in DOMAIN log : log[i].ledger \in Nat
  BY Entries DEF KeeperInv, ChainInv
<1>5. first <= range
  <2>1. CASE first = 0
    BY <2>1
  <2>2. CASE first > 0
    BY <1>2, <1>3, <1>4, <2>2 DEF Split
  <2> QED BY <2>1, <2>2
<1>6. range <= first + MaxEvents
  <2>1. CASE range = first
    BY <2>1, KeeperAssumption
  <2>2. CASE range > first
    <3>1. first + 1 \in DOMAIN log /\ range \in DOMAIN log
      BY <1>4, <2>2
    <3>2. log[range].ledger < end' /\ ~(log[first + 1].ledger < cursor)
      BY <1>2, <3>1 DEF Split
    <3>3. log[range].ledger < log[first + 1].ledger + Span
      BY SMTT(40), <1>3, <1>4, <3>1, <3>2, KeeperAssumption
    <3>4. range < first + 1 + MaxEvents
      BY <3>1, <3>3 DEF Paged
    <3> QED BY <3>4, KeeperAssumption
  <2> QED BY <1>5, <2>1, <2>2
<1>7. range <= fetched' /\ fetched' \in 0 .. Len(log) /\ pos' = first
  BY <1>2, <1>5, <1>6, KeeperAssumption DEF Min2
<1>8. TypeOK'
  BY <1>1, <1>3, <1>5, <1>7 DEF KeeperInv, TypeOK, Held
<1>9. Applying'
  <2>1. pos' <= fetched' /\ fetched' \in 0 .. Len(log')
    BY <1>1, <1>5, <1>7
  <2>2. \A i \in DOMAIN log : log[i].ledger < end' => i <= fetched'
    BY <1>2, <1>4, <1>7 DEF Split
  <2>3. \A i \in DOMAIN log : log[i].ledger < cursor <=> i <= pos'
    BY <1>2 DEF Split
  <2>4. ASSUME NEW i \in DOMAIN log, i > origin, i <= pos', log[i].topic = "created",
               Open(log[i].key)
        PROVE book[log[i].key] # NoOrder
    <3>1. CreatedBefore(log[i].key, cursor)
      BY <2>3, <2>4 DEF CreatedBefore
    <3>2. log[i].key \in Keys
      BY Entries DEF KeeperInv, ChainInv
    <3> QED BY <1>1, <2>4, <3>1, <3>2 DEF KeeperInv, Covers
  <2> QED BY <1>1, <2>1, <2>2, <2>3, <2>4 DEF Applying, Open
<1> QED BY <1>1, <1>8, <1>9, StepKeeps DEF KeeperInv

\* An event that is applied removes an order only if it closed it.
LEMMA ApplyKeeps == ASSUME KeeperInv, Apply PROVE KeeperInv'
<1> USE Still, Ranges
<1> DEFINE e == log[pos + 1]
<1>1. UNCHANGED <<chain, latest, cursor, file, end, fetched, todo, tx, outcome, inflight, origin,
                  ledger, log, status, pc>>
      /\ pc = "apply" /\ pos' = pos + 1 /\ pos < fetched
      /\ book' = [book EXCEPT ![e.key] = Applied(e)]
  BY DEF Apply, chain
<1>2. /\ fetched \in 0 .. Len(log) /\ pos + 1 \in DOMAIN log
      /\ e.key \in Keys /\ e.topic \in Topics /\ e.remaining \in Nat /\ e.due \in Nat
  BY <1>1, Entries DEF KeeperInv, Applying, ChainInv
<1> HIDE DEF e
<1>3. /\ Applied(e) \in Entry \union {NoOrder}
      /\ e.topic = "created" => Applied(e) # NoOrder
      /\ e.topic = "filled" /\ e.remaining # 0 /\ book[e.key] # NoOrder => Applied(e) # NoOrder
  <2>1. [remaining |-> e.remaining, due |-> e.due] \in Entry
    BY <1>2 DEF Entry
  <2>2. NoOrder \notin Entry
    BY KeeperAssumption DEF Entry
  <2> QED BY <2>1, <2>2 DEF Applied
<1>4. book \in [Keys -> Entry \union {NoOrder}] /\ todo = {}
  BY <1>1 DEF KeeperInv, TypeOK
<1>5. TypeOK'
  <2>1. book' \in [Keys -> Entry \union {NoOrder}]
    BY <1>1, <1>2, <1>3, <1>4
  <2> QED BY <1>1, <1>2, <1>4, <2>1 DEF KeeperInv, TypeOK
<1>6. Applying'
  <2>1. ASSUME NEW i \in DOMAIN log, i > origin, i <= pos + 1, log[i].topic = "created",
               Open(log[i].key)
        PROVE book'[log[i].key] # NoOrder
    <3>1. log[i].key \in Keys /\ i \in Nat
      BY Entries DEF KeeperInv, ChainInv
    <3>2. i <= pos => book[log[i].key] # NoOrder
      BY <1>1, <2>1 DEF KeeperInv, Applying
    <3>3. CASE log[i].key # e.key
      <4>1. i <= pos
        BY <2>1, <3>1, <3>3 DEF e
      <4> QED BY <1>1, <1>4, <3>1, <3>2, <3>3, <4>1
    <3>4. CASE log[i].key = e.key
      <4>1. ~Closing(e)
        BY <1>2, <2>1, <3>4 DEF KeeperInv, ChainInv, LogTellsStatus, e, Open
      <4>2. e.topic = "created" \/ (e.topic = "filled" /\ e.remaining # 0)
        BY <1>2, <4>1 DEF Closing, Topics
      <4>3. i <= pos \/ e.topic = "created"
        BY <2>1, <3>1 DEF e
      <4>4. e.topic = "filled" => e.topic # "created"
        OBVIOUS
      <4>5. Applied(e) # NoOrder
        BY <1>3, <3>2, <3>4, <4>2, <4>3
      <4> QED BY <1>1, <1>2, <1>4, <3>4, <4>5
    <3> QED BY <3>3, <3>4
  <2>2. /\ pos' <= fetched' /\ fetched' \in 0 .. Len(log')
        /\ (\A i \in DOMAIN log : log[i].ledger < end => i <= fetched)'
        /\ (\A i \in DOMAIN log : log[i].ledger < cursor => i <= pos)'
    <3>1. Applying
      BY <1>1 DEF KeeperInv
    <3>2. DOMAIN log = 1 .. Len(log)
      BY Entries DEF KeeperInv, ChainInv
    <3> QED BY <1>1, <1>2, <3>1, <3>2 DEF Applying
  <2> QED BY <1>1, <2>1, <2>2 DEF Applying, Open
<1> QED BY <1>1, <1>5, <1>6, StepKeeps DEF KeeperInv

\* The checkpoint that is saved covers what was read.
LEMMA SaveKeeps == ASSUME KeeperInv, Save PROVE KeeperInv'
<1> USE Still, Ranges DEF KeeperInv
<1>1. UNCHANGED <<chain, latest, book, todo, tx, outcome, inflight, origin, ledger, log, status>>
      /\ pc = "apply" /\ pc' = "scan" /\ pos = fetched /\ cursor' = end
      /\ file' = [cursor |-> end, book |-> book] /\ end' = 0 /\ pos' = 0 /\ fetched' = 0
  BY DEF Save, chain
<1>2. Covers(book, end)
  <2> SUFFICES ASSUME NEW k \in Keys, Open(k), CreatedBefore(k, end) PROVE book[k] # NoOrder
    BY DEF Covers
  <2> QED BY <1>1 DEF CreatedBefore, Applying
<1>4. TypeOK'
  BY <1>1 DEF TypeOK, Held
<1>5. Covers(book, cursor)' /\ (file # NoFile => file.cursor <= ledger /\ Covers(file.book, file.cursor))'
  BY <1>1, <1>2 DEF Covers, CreatedBefore, Open
<1> QED BY <1>1, <1>4, <1>5

LEMMA BeginPassKeeps == ASSUME KeeperInv, BeginPass PROVE KeeperInv'
<1> USE Still, Ranges DEF BeginPass
<1>1. UNCHANGED <<chain, ledger, latest, cursor, book, file, end, pos, fetched, tx, outcome,
                  inflight, origin>>
      /\ todo' = Held /\ pc = "scan" /\ pc' = "pass"
  BY DEF chain
<1>2. TypeOK'
  BY <1>1 DEF KeeperInv, TypeOK, Held
<1>3. Covers(book, cursor)'
  BY <1>1, CoversSame DEF KeeperInv
<1> QED BY <1>1, <1>2, <1>3, StepKeeps DEF KeeperInv

LEMMA SkipKeeps == ASSUME KeeperInv, NEW k \in Keys, Skip(k) PROVE KeeperInv'
<1> USE Still, Ranges DEF Skip, Visiting
<1>1. UNCHANGED <<chain, ledger, latest, cursor, book, file, end, pos, fetched, tx, outcome,
                  inflight, origin, pc>>
      /\ todo' = todo \ {k} /\ pc = "pass"
  BY DEF chain
<1>2. TypeOK'
  BY <1>1 DEF KeeperInv, TypeOK, Held
<1>3. Covers(book, cursor)'
  BY <1>1, CoversSame DEF KeeperInv
<1> QED BY <1>1, <1>2, <1>3, StepKeeps DEF KeeperInv

LEMMA EndPassKeeps == ASSUME KeeperInv, EndPass PROVE KeeperInv'
<1> USE Still, Ranges DEF EndPass
<1>1. UNCHANGED <<chain, ledger, cursor, book, file, end, pos, fetched, tx, outcome,
                  inflight, origin, todo>>
      /\ todo = {} /\ pc = "pass" /\ pc' = "idle" /\ latest' = 0
  BY DEF chain
<1>2. TypeOK'
  BY <1>1 DEF KeeperInv, TypeOK, Held
<1>3. Covers(book, cursor)'
  BY <1>1, CoversSame DEF KeeperInv
<1> QED BY <1>1, <1>2, <1>3, StepKeeps DEF KeeperInv

LEMMA SubmitKeeps ==
  ASSUME KeeperInv, NEW k \in Keys, NEW t \in Txs, t.key = k, Visiting(k), Submit(k, t)
  PROVE KeeperInv'
<1> USE Still, Ranges DEF Submit, Visiting
<1>1. UNCHANGED <<chain, ledger, status, log, latest, cursor, book, file, end, pos, fetched, todo,
                  origin>>
      /\ tx' = t /\ outcome' = "pending" /\ inflight' = inflight \union {t}
      /\ pc = "pass" /\ pc' = "poll" /\ k \in todo
  BY DEF chain
<1>2. tx' # NoTx
  BY <1>1, KeeperAssumption DEF Txs
<1>3. TypeOK'
  BY <1>1, <1>2 DEF KeeperInv, TypeOK, Held
<1>4. Covers(book, cursor)'
  BY <1>1, CoversSame DEF KeeperInv
<1>5. (file # NoFile => file.cursor <= ledger /\ Covers(file.book, file.cursor))'
  BY <1>1 DEF KeeperInv, Covers, CreatedBefore, Open
<1> QED BY <1>1, <1>3, <1>4, <1>5 DEF KeeperInv

LEMMA SubmitReclaimKeeps == ASSUME KeeperInv, NEW k \in Keys, SubmitReclaim(k) PROVE KeeperInv'
<1> DEFINE t == [op |-> "reclaim", key |-> k, amount |-> 0]
<1>1. t \in Txs /\ t.key = k
  BY DEF Txs
<1>2. Visiting(k) /\ Submit(k, t)
  BY DEF SubmitReclaim
<1> HIDE DEF t
<1> QED BY <1>1, <1>2, SubmitKeeps

LEMMA SubmitFillKeeps == ASSUME KeeperInv, NEW k \in Keys, SubmitFill(k) PROVE KeeperInv'
<1> DEFINE t == [op |-> "fill", key |-> k, amount |-> FillAmount(k)]
<1>1. Visiting(k) /\ Submit(k, t) /\ Open(k)
  BY DEF SubmitFill, Executable, Takes
<1>2. book[k] \in Entry
  BY <1>1 DEF Visiting, KeeperInv, TypeOK, Held
<1>3. terms[k] \in Terms
  BY <1>1 DEF KeeperInv, ChainInv, ChainTypeOK, Open
<1>4. FillAmount(k) \in Nat
  BY <1>2, <1>3, KeeperAssumption DEF FillAmount, Min2, Entry, Terms
<1>5. t \in Txs /\ t.key = k
  BY <1>4 DEF Txs
<1> HIDE DEF t
<1> QED BY <1>1, <1>5, SubmitKeeps

\* The poll ends; an order leaves the book only when its reclaim is final.
LEMMA ResumeKeeps ==
  ASSUME KeeperInv, Resume, pc = "poll",
         \/ UNCHANGED <<book, file>>
         \/ /\ status[tx.key] \in Terminal
            /\ book' = [book EXCEPT ![tx.key] = NoOrder]
            /\ file' = [cursor |-> cursor, book |-> book']
  PROVE KeeperInv'
<1> USE Still, Ranges DEF KeeperInv
<1>1. UNCHANGED <<chain, ledger, status, log, latest, cursor, end, pos, fetched, inflight, origin>>
      /\ tx' = NoTx /\ outcome' = "pending" /\ todo' = todo \ {tx.key} /\ pc' = "pass"
      /\ tx.key \in todo /\ todo \subseteq Held
  BY DEF Resume, chain, TypeOK
<1>2. CASE UNCHANGED <<book, file>>
  <2>1. TypeOK'
    BY <1>1, <1>2 DEF TypeOK, Held
  <2>2. Covers(book, cursor)'
    BY <1>1, <1>2, CoversSame
  <2> QED BY <1>1, <1>2, <2>1, <2>2, StepKeeps
<1>3. CASE /\ status[tx.key] \in Terminal
           /\ book' = [book EXCEPT ![tx.key] = NoOrder]
           /\ file' = [cursor |-> cursor, book |-> book']
  <2>1. book \in [Keys -> Entry \union {NoOrder}] /\ tx.key \in Keys
    BY <1>1 DEF TypeOK, Held
  <2>2. book' \in [Keys -> Entry \union {NoOrder}]
    BY <1>3, <2>1
  <2>3. todo' \subseteq Held'
    BY <1>1, <1>3, <2>1 DEF Held
  <2>4. TypeOK'
    BY <1>1, <1>3, <2>2, <2>3 DEF TypeOK
  <2>5. Covers(book, cursor)'
    <3> SUFFICES ASSUME NEW k \in Keys, Open(k), CreatedBefore(k, cursor) PROVE book'[k] # NoOrder
      BY <1>1 DEF Covers, CreatedBefore, Open
    <3>1. k # tx.key
      BY <1>3 DEF Open, Terminal
    <3> QED BY <1>3, <2>1, <3>1 DEF Covers
  <2>6. (file # NoFile => file.cursor <= ledger /\ Covers(file.book, file.cursor))'
    BY <1>1, <1>3, <2>5 DEF Covers, CreatedBefore
  <2> QED BY <1>1, <2>4, <2>5, <2>6
<1> QED BY <1>2, <1>3

LEMMA ConfirmedKeeps == ASSUME KeeperInv, Confirmed PROVE KeeperInv'
<1>1. pc = "poll" /\ outcome = "success" /\ Resume /\ tx # NoTx
  BY DEF Confirmed, KeeperInv, TypeOK
<1>2. tx.op = "reclaim" => status[tx.key] \in Terminal
  BY <1>1 DEF KeeperInv
<1>3. \/ UNCHANGED <<book, file>>
      \/ /\ status[tx.key] \in Terminal
         /\ book' = [book EXCEPT ![tx.key] = NoOrder]
         /\ file' = [cursor |-> cursor, book |-> book']
  BY <1>2 DEF Confirmed
<1> QED BY <1>1, <1>3, ResumeKeeps

LEMMA GiveUpKeeps == ASSUME KeeperInv, GiveUp PROVE KeeperInv'
BY ResumeKeeps DEF GiveUp

\* A transaction lands: the contract takes one of its steps or refuses.
LEMMA LandsIsStep ==
  ASSUME KeeperInv, NEW t \in inflight, Lands(t)
  PROVE /\ ChainStep
        /\ outcome' \in {"pending", "success", "failed"}
        /\ outcome' = outcome \/
             (outcome' = "success" /\ tx # NoTx /\ tx.op = "reclaim"
                => status'[tx.key] \in Terminal)
<1>1. t \in Txs /\ t.key \in Keys /\ t.op \in {"fill", "reclaim"} /\ t.amount \in Nat
  BY DEF KeeperInv, Txs
<1>2. ChainTypeOK
  BY DEF KeeperInv, ChainInv
<1>3. outcome \in {"pending", "success", "failed"}
  BY DEF KeeperInv
<1>4. CASE t.op = "reclaim" /\ Reclaim(t.key)
              /\ outcome' = IF tx = t THEN "success" ELSE outcome
  <2>1. ChainStep
    BY <1>1, <1>4 DEF ChainStep, Call
  <2>2. status'[t.key] \in Terminal
    BY <1>1, <1>2, <1>4 DEF Reclaim, End, Terminal, ChainTypeOK
  <2> QED BY <1>3, <1>4, <2>1, <2>2
<1>5. CASE t.op = "fill" /\ Take(t.key, t.amount, Reschedule(t.key))
              /\ outcome' = IF tx = t THEN "success" ELSE outcome
  <2>1. terms[t.key] \in Terms
    BY <1>1, <1>2, <1>5 DEF Take, Takes, Open, ChainTypeOK
  <2>2. Reschedule(t.key) \in Nat
    <3>1. ledger \in Nat /\ terms[t.key].interval \in Nat /\ U32Max \in Nat
      BY <1>2, <2>1, LogAssumption DEF ChainTypeOK, Terms
    <3> QED BY ONLY <3>1 DEF Reschedule
  <2>3. ChainStep
    BY <1>1, <1>5, <2>2 DEF ChainStep, Call
  <2> QED BY <1>3, <1>5, <2>3
<1>6. CASE UNCHANGED chain /\ outcome' = IF tx = t THEN "failed" ELSE outcome
  BY <1>3, <1>6 DEF ChainStep
<1> QED BY <1>4, <1>5, <1>6 DEF Lands

LEMMA LandsKeeps == ASSUME KeeperInv, NEW t \in inflight, Lands(t) PROVE KeeperInv'
<1>1. UNCHANGED <<pc, latest, cursor, book, file, end, pos, fetched, todo, tx, origin>>
      /\ inflight' = {}
  BY DEF Lands
<1>2. ChainInv' /\ Later
  BY LandsIsStep, ChainStepKeeps DEF KeeperInv
<1> QED BY <1>1, <1>2, LandsIsStep, ChainKeeps

LEMMA DroppedKeeps == ASSUME KeeperInv, NEW t \in inflight, Dropped(t) PROVE KeeperInv'
<1>1. UNCHANGED chain /\ UNCHANGED <<memory, file, origin>> /\ inflight' \subseteq inflight
  BY DEF Dropped
<1>2. ChainInv' /\ Later
  BY <1>1, ChainStepKeeps DEF KeeperInv, ChainStep
<1>3. outcome' = outcome /\ outcome' \in {"pending", "success", "failed"}
      /\ UNCHANGED <<pc, latest, cursor, book, file, end, pos, fetched, todo, tx, origin>>
  BY <1>1 DEF memory, KeeperInv
<1> QED BY <1>1, <1>2, <1>3, ChainKeeps

\* The chain goes on alone, or nothing happens.
LEMMA OthersKeep ==
  ASSUME KeeperInv, UNCHANGED keeper, [ChainNext]_chain
  PROVE KeeperInv'
<1>1. ChainStep
  BY ChainNextIsStep DEF KeeperInv, ChainInv
<1>2. ChainInv' /\ Later
  BY <1>1, ChainStepKeeps DEF KeeperInv
<1>3. UNCHANGED <<pc, latest, cursor, book, file, end, pos, fetched, todo, tx, origin>>
      /\ inflight' \subseteq inflight /\ outcome' = outcome
      /\ outcome' \in {"pending", "success", "failed"}
  BY DEF keeper, memory, KeeperInv
<1> QED BY <1>2, <1>3, ChainKeeps

LEMMA NextKeeps == ASSUME KeeperInv, Paged, [Next]_vars PROVE KeeperInv'
<1>1. CASE UNCHANGED vars
  BY <1>1, OthersKeep DEF vars
<1>2. CASE ChainNext /\ UNCHANGED keeper
  BY <1>2, OthersKeep
<1>3. CASE Crash
  BY <1>3, ExitKeeps DEF Crash
<1>4. CASE Loop
  BY <1>4, StartKeeps, PollKeeps, ApplyKeeps, SaveKeeps, BeginPassKeeps, ConfirmedKeeps,
     GiveUpKeeps, EndPassKeeps DEF Loop
<1>5. CASE Fetch
  BY <1>5, FetchKeeps
<1>6. ASSUME NEW k \in Keys, Skip(k) \/ SubmitReclaim(k) \/ SubmitFill(k) \/ Panic(k)
      PROVE KeeperInv'
  <2>1. Panic(k) => Exit /\ UNCHANGED chain
    BY DEF Panic
  <2> QED BY <1>6, <2>1, SkipKeeps, SubmitReclaimKeeps, SubmitFillKeeps, ExitKeeps
<1>7. ASSUME NEW t \in inflight, Lands(t) \/ Dropped(t) PROVE KeeperInv'
  BY <1>7, LandsKeeps, DroppedKeeps
<1> QED BY <1>1, <1>2, <1>3, <1>4, <1>5, <1>6, <1>7 DEF Next

-----------------------------------------------------------------------------

(***************************************************************************)
(* As long as no range has more events than MAX_PAGES pages hold, the      *)
(* keeper's variables stay in their types: what it polls for is in the     *)
(* pass it is making, and what it visits is in its book.                   *)
(***************************************************************************)
THEOREM KeeperTypeCorrect == Spec /\ []Paged => []TypeOK
<1>1. Init => KeeperInv
  BY InitKeeps
<1>2. KeeperInv /\ Paged /\ [Next]_vars => KeeperInv'
  BY NextKeeps
<1>3. KeeperInv => TypeOK
  BY DEF KeeperInv
<1> QED BY <1>1, <1>2, <1>3, PTL DEF Spec

(***************************************************************************)
(* As long as no range has more events than MAX_PAGES pages hold, no open  *)
(* order whose creation the cursor has passed is missing from the book or  *)
(* from the checkpoint: crashes, failed polls, a book removed early and    *)
(* answers that reach past their range lose nothing.                       *)
(***************************************************************************)
THEOREM KeeperForgetsNothing == Spec /\ []Paged => []NoOpenOrderForgotten
<1>1. Init => KeeperInv
  BY InitKeeps
<1>2. KeeperInv /\ Paged /\ [Next]_vars => KeeperInv'
  BY NextKeeps
<1>3. KeeperInv => NoOpenOrderForgotten
  <2> SUFFICES ASSUME KeeperInv, NEW k \in Keys, Open(k)
               PROVE /\ pc # "down" /\ CreatedBefore(k, cursor) => book[k] # NoOrder
                     /\ file # NoFile => (CreatedBefore(k, file.cursor) => file.book[k] # NoOrder)
    BY DEF NoOpenOrderForgotten
  <2>1. file # NoFile => (CreatedBefore(k, file.cursor) => file.book[k] # NoOrder)
    BY DEF KeeperInv, Covers
  <2>2. CASE pc \in {"idle", "scan", "pass", "poll"}
    BY <2>1, <2>2 DEF KeeperInv, Covers
  <2>3. CASE pc = "apply"
    <3> SUFFICES ASSUME CreatedBefore(k, cursor) PROVE book[k] # NoOrder
      BY <2>1
    <3>1. Applying
      BY <2>3 DEF KeeperInv
    <3>2. PICK i \in DOMAIN log : /\ i > origin /\ log[i].ledger < cursor
                                  /\ log[i].topic = "created" /\ log[i].key = k
      BY DEF CreatedBefore
    <3> QED BY <3>1, <3>2 DEF Applying
  <2> QED BY <2>1, <2>2, <2>3 DEF KeeperInv, TypeOK
<1> QED BY <1>1, <1>2, <1>3, PTL DEF Spec

-----------------------------------------------------------------------------
(***************************************************************************)
(* The book converges                                                      *)
(***************************************************************************)

\* The entry an event leaves of its order.
EntryAfter(e) ==
  IF Closing(e) THEN NoOrder ELSE [remaining |-> e.remaining, due |-> e.due]

\* Book b has k as an event no earlier than the event i left it, or without it
\* because the keeper knows before the event that its reclaim ended it.
UpTo(b, k, i) ==
  \/ \E j \in DOMAIN log : i <= j /\ log[j].key = k /\ b[k] = EntryAfter(log[j])
  \/ b[k] = NoOrder /\ status[k] \in Terminal

OnlyTracked(b) == \A k \in Keys : b[k] # NoOrder => Tracked(k)

\* Book b has followed the tracked orders up to ledger c.
Follows(b, c) ==
  /\ OnlyTracked(b)
  /\ \A i \in DOMAIN log : i <= origin => log[i].ledger < c
  /\ \A k \in Keys : Tracked(k) =>
       \A i \in DOMAIN log : log[i].key = k /\ log[i].ledger < c => UpTo(b, k, i)

\* The book has followed them through the applied part of the answer.
Following ==
  /\ cursor < end
  /\ OnlyTracked(book)
  /\ \A i \in DOMAIN log : i <= origin => log[i].ledger < cursor
  /\ \A k \in Keys : Tracked(k) =>
       \A i \in DOMAIN log : log[i].key = k /\ i <= pos => UpTo(book, k, i)

BookInv ==
  /\ LogTellsRows
  /\ origin <= Len(log)
  /\ file # NoFile => Follows(file.book, file.cursor)
  /\ pc \in {"idle", "scan", "pass", "poll"} => Follows(book, cursor)
  /\ pc = "apply" => Following

LEMMA EntryIs ==
  ASSUME NEW e \in Event
  PROVE /\ EntryAfter(e) = NoOrder <=> Closing(e)
        /\ ~Closing(e) => EntryAfter(e) = [remaining |-> e.remaining, due |-> e.due]
<1>1. [remaining |-> e.remaining, due |-> e.due] \in Entry
  BY DEF Event, Entry
<1> QED BY <1>1, KeeperAssumption DEF EntryAfter, Entry

\* What the readers of the log rely on, in the form the next lemmas use.
LEMMA Grown ==
  ASSUME ChainInv, ChainInv', Later
  PROVE /\ Len(log) \in Nat /\ Len(log') \in Nat /\ Len(log) <= Len(log')
        /\ DOMAIN log = 1 .. Len(log) /\ DOMAIN log' = 1 .. Len(log')
        /\ \A i \in DOMAIN log : log'[i] = log[i]
        /\ \A i \in DOMAIN log' : i \notin DOMAIN log => log'[i].ledger >= ledger
        /\ \A i \in DOMAIN log' : log'[i].ledger \in Nat /\ log'[i].key \in Keys
        /\ ledger \in Nat
        /\ \A k \in Keys : status[k] \in Terminal => status'[k] = status[k]
        /\ \A i, j \in DOMAIN log' :
             log'[i].topic = "created" /\ log'[i].key = log'[j].key => i <= j
<1>1. log \in Seq(Event) /\ log' \in Seq(Event) /\ ledger \in Nat
  BY DEF ChainInv, ChainTypeOK, Event, Topics
<1>2. \A i \in DOMAIN log' : log'[i] \in Event
  BY <1>1
<1>3. \A i, j \in DOMAIN log' : log'[i].topic = "created" /\ log'[i].key = log'[j].key => i <= j
  BY DEF ChainInv, LogTellsStatus
<1> QED BY <1>1, <1>2, <1>3 DEF Later, Event

\* A tracked order with an old event was tracked before.
LEMMA TrackedBefore ==
  ASSUME ChainInv, ChainInv', Later, UNCHANGED origin, NEW k \in Keys, Tracked(k)',
         NEW i \in DOMAIN log, log[i].key = k
  PROVE Tracked(k)
<1>1. PICK j \in DOMAIN log' : j > origin /\ log'[j].topic = "created" /\ log'[j].key = k
  BY DEF Tracked
<1>2. j <= i
  BY <1>1, Grown
<1>3. j \in DOMAIN log /\ log[j] = log'[j]
  BY <1>1, <1>2, Grown
<1> QED BY <1>1, <1>3 DEF Tracked

LEMMA TrackedStays ==
  ASSUME ChainInv, ChainInv', Later, UNCHANGED origin, NEW k \in Keys, Tracked(k)
  PROVE Tracked(k)'
BY Grown DEF Tracked

LEMMA UpToStays ==
  ASSUME ChainInv, ChainInv', Later, NEW b, NEW k \in Keys, NEW i, UpTo(b, k, i)
  PROVE UpTo(b, k, i)'
<1>1. CASE b[k] = NoOrder /\ status[k] \in Terminal
  BY <1>1, Grown DEF UpTo, Terminal
<1>2. CASE \E j \in DOMAIN log : i <= j /\ log[j].key = k /\ b[k] = EntryAfter(log[j])
  <2>1. PICK j \in DOMAIN log : i <= j /\ log[j].key = k /\ b[k] = EntryAfter(log[j])
    BY <1>2
  <2>2. j \in DOMAIN log' /\ log'[j] = log[j]
    BY Grown
  <2> QED BY <2>1, <2>2 DEF UpTo, EntryAfter, Closing
<1> QED BY <1>1, <1>2 DEF UpTo

\* A book stays where it is in the log when the log grows.
LEMMA FollowsStays ==
  ASSUME ChainInv, ChainInv', Later, UNCHANGED origin, origin \in Nat, origin <= Len(log),
         NEW b, NEW c \in Nat, c <= ledger, Follows(b, c)
  PROVE Follows(b, c)'
<1>1. \A i \in DOMAIN log' : log'[i].ledger < c => i \in DOMAIN log /\ log'[i] = log[i]
  BY Grown
<1>2. OnlyTracked(b)'
  BY TrackedStays DEF Follows, OnlyTracked
<1>3. \A i \in DOMAIN log' : i <= origin => log'[i].ledger < c
  BY Grown DEF Follows
<1>4. ASSUME NEW k \in Keys, Tracked(k)', NEW i \in DOMAIN log', log'[i].key = k, log'[i].ledger < c
      PROVE UpTo(b, k, i)'
  <2>1. i \in DOMAIN log /\ log'[i] = log[i]
    BY <1>1, <1>4
  <2>2. Tracked(k)
    BY <1>4, <2>1, TrackedBefore
  <2>3. UpTo(b, k, i)
    BY <1>4, <2>1, <2>2 DEF Follows
  <2> QED BY <2>3, UpToStays
<1> QED BY <1>2, <1>3, <1>4 DEF Follows

LEMMA FollowingStays ==
  ASSUME ChainInv, ChainInv', Later, UNCHANGED <<origin, cursor, end, pos>>, origin \in Nat,
         origin <= Len(log), pos \in Nat, pos <= Len(log), NEW b, book = b, book' = b, Following
  PROVE Following'
<1>1. OnlyTracked(b)'
  BY TrackedStays DEF Following, OnlyTracked
<1>2. \A i \in DOMAIN log' : i <= origin => log'[i].ledger < cursor
  BY Grown DEF Following
<1>3. ASSUME NEW k \in Keys, Tracked(k)', NEW i \in DOMAIN log', log'[i].key = k, i <= pos
      PROVE UpTo(b, k, i)'
  <2>1. i \in DOMAIN log /\ log'[i] = log[i]
    BY <1>3, Grown
  <2>2. Tracked(k)
    BY <1>3, <2>1, TrackedBefore
  <2>3. UpTo(b, k, i)
    BY <1>3, <2>1, <2>2 DEF Following, UpTo
  <2> QED BY <2>3, UpToStays
<1> QED BY <1>1, <1>2, <1>3 DEF Following, OnlyTracked, UpTo

\* A step of the chain, whatever happens to the transactions in flight.
LEMMA ChainFollows ==
  ASSUME KeeperInv, BookInv, ChainStep,
         UNCHANGED <<pc, cursor, book, file, end, pos, fetched, origin>>
  PROVE BookInv'
<1>1. ChainInv /\ ChainInv' /\ Later /\ LogTellsRows'
  BY ChainStepKeeps, ChainKeepsRows DEF KeeperInv, BookInv
<1>2. origin \in Nat /\ origin <= Len(log) /\ origin <= Len(log')
  BY <1>1, Grown DEF KeeperInv, BookInv
<1>3. ASSUME file # NoFile PROVE Follows(file.book, file.cursor)'
  <2>1. PICK b, c : b = file.book /\ c = file.cursor
    OBVIOUS
  <2>2. c \in Nat /\ c <= ledger /\ Follows(b, c)
    BY <1>3, <2>1 DEF KeeperInv, TypeOK, BookInv
  <2>3. Follows(b, c)'
    BY <1>1, <1>2, <2>2, FollowsStays
  <2> QED BY <2>1, <2>3
<1>4. ASSUME pc \in {"idle", "scan", "pass", "poll"} PROVE Follows(book, cursor)'
  <2>1. PICK b, c : b = book /\ c = cursor
    OBVIOUS
  <2>2. c \in Nat /\ c <= ledger /\ Follows(b, c)
    BY <1>4, <2>1, Ranges DEF KeeperInv, BookInv
  <2>3. Follows(b, c)'
    BY <1>1, <1>2, <2>2, FollowsStays
  <2>4. b = book' /\ c = cursor'
    BY <2>1
  <2> QED BY <2>3, <2>4
<1>5. ASSUME pc = "apply" PROVE Following'
  <2>1. PICK b : b = book
    OBVIOUS
  <2>2. pos \in Nat /\ pos <= Len(log) /\ Following
    BY <1>5, Ranges DEF KeeperInv, TypeOK, BookInv
  <2> QED BY <1>1, <1>2, <2>1, <2>2, FollowingStays
<1> QED BY <1>1, <1>2, <1>3, <1>4, <1>5 DEF BookInv

\* A book the keeper leaves alone while the chain rests.
LEMMA FollowsSame ==
  ASSUME UNCHANGED <<chain, origin>>, NEW b, NEW c, Follows(b, c)
  PROVE Follows(b, c)'
<1>1. log' = log /\ status' = status
  BY Still
<1> QED BY <1>1 DEF Follows, OnlyTracked, Tracked, UpTo, EntryAfter, Closing

LEMMA FileSame ==
  ASSUME BookInv, UNCHANGED <<chain, origin, file>>
  PROVE /\ LogTellsRows' /\ (origin <= Len(log))'
        /\ (file # NoFile => Follows(file.book, file.cursor))'
<1>1. UNCHANGED <<status, remaining, due, log>>
  BY DEF chain
<1>2. LogTellsRows' /\ (origin <= Len(log))'
  BY <1>1, SilenceKeepsRows DEF BookInv
<1>3. ASSUME file # NoFile PROVE Follows(file.book, file.cursor)'
  <2>1. PICK b, c : b = file.book /\ c = file.cursor
    OBVIOUS
  <2>2. Follows(b, c)'
    BY <1>3, <2>1, FollowsSame DEF BookInv
  <2> QED BY <2>1, <2>2
<1> QED BY <1>2, <1>3

\* The keeper moves on and leaves book and cursor alone.
LEMMA MovingOnFollows ==
  ASSUME BookInv, UNCHANGED <<chain, origin, file, book, cursor>>,
         pc \in {"idle", "scan", "pass", "poll"}, pc' \in {"idle", "scan", "pass", "poll"}
  PROVE BookInv'
<1>1. Follows(book, cursor)'
  <2>1. PICK b, c : b = book /\ c = cursor
    OBVIOUS
  <2>2. Follows(b, c)'
    BY <2>1, FollowsSame DEF BookInv
  <2>3. b = book' /\ c = cursor'
    BY <2>1
  <2> QED BY <2>2, <2>3
<1> QED BY <1>1, FileSame DEF BookInv

LEMMA ExitFollows == ASSUME BookInv, Exit, UNCHANGED chain PROVE BookInv'
<1>1. pc' = "down" /\ UNCHANGED <<file, origin>>
  BY DEF Exit
<1> QED BY <1>1, FileSame DEF BookInv

\* An empty book has followed nothing; the checkpoint is resumed where it was.
LEMMA StartFollows == ASSUME KeeperInv, BookInv, Start PROVE BookInv'
<1>1. pc' = "idle" /\ file' = file /\ UNCHANGED chain /\ log' = log
  BY Still DEF Start
<1>2. CASE file = NoFile
  <2>1. PICK n \in 0 .. Len(log) : Split(n, cursor') /\ origin' = n
    BY <1>2 DEF Start
  <2>2. book' = NoBook
    BY <1>2 DEF Start
  <2>3. LogTellsRows' /\ (origin <= Len(log))'
    <3>1. UNCHANGED <<status, remaining, due, log>> /\ Len(log) \in Nat
      BY <1>1, Ranges DEF chain
    <3> QED BY <2>1, <3>1, SilenceKeepsRows DEF BookInv
  <2>4. OnlyTracked(book)'
    BY <2>2 DEF OnlyTracked, NoBook
  <2>5. \A i \in DOMAIN log : i <= origin' => log[i].ledger < cursor'
    BY <2>1 DEF Split
  <2>6. ASSUME NEW k \in Keys, Tracked(k)', NEW i \in DOMAIN log, log[i].key = k,
               log[i].ledger < cursor'
        PROVE FALSE
    <3>1. PICK j \in DOMAIN log : j > n /\ log[j].topic = "created" /\ log[j].key = k
      BY <1>1, <2>1, <2>6 DEF Tracked
    <3>2. i <= n /\ j <= i
      BY <2>1, <2>6, <3>1 DEF Split, KeeperInv, ChainInv, LogTellsStatus
    <3>3. i \in Nat /\ j \in Nat /\ n \in Nat
      BY Entries DEF KeeperInv, ChainInv
    <3> QED BY <3>1, <3>2, <3>3
  <2>7. Follows(book, cursor)'
    BY <1>1, <2>4, <2>5, <2>6 DEF Follows
  <2> QED BY <1>1, <1>2, <2>3, <2>7 DEF BookInv
<1>3. CASE file # NoFile
  <2>1. cursor' = file.cursor /\ book' = file.book /\ UNCHANGED origin
    BY <1>3 DEF Start
  <2>2. (file # NoFile => Follows(file.book, file.cursor))'
    BY <1>1, <2>1, FileSame
  <2>3. file.book' = book' /\ file.cursor' = cursor'
    BY <1>1, <2>1
  <2>4. Follows(book, cursor)'
    BY <1>1, <1>3, <2>2, <2>3
  <2> QED BY <1>1, <2>1, <2>4, FileSame DEF BookInv
<1> QED BY <1>2, <1>3

LEMMA FetchFollows == ASSUME KeeperInv, BookInv, Fetch PROVE BookInv'
<1>1. /\ UNCHANGED <<chain, cursor, book, file, origin>> /\ log' = log
      /\ pc = "scan" /\ pc' = "apply"
      /\ end' = Min2(cursor + Span, latest) /\ cursor < latest
  BY Still DEF Fetch
<1>2. PICK first \in 0 .. Len(log) : Split(first, cursor) /\ pos' = first
  BY DEF Fetch
<1>3. cursor < end'
  BY <1>1, Ranges, KeeperAssumption DEF Min2
<1>4. PICK b, c : b = book /\ c = cursor
  OBVIOUS
<1>5. Follows(b, c)'
  BY <1>1, <1>4, FollowsSame DEF BookInv
<1>6. \A i \in DOMAIN log : i <= pos' => log[i].ledger < c
  BY <1>2, <1>4 DEF Split
<1>7. b = book' /\ c = cursor'
  BY <1>1, <1>4
<1>8. Following'
  BY <1>1, <1>3, <1>5, <1>6, <1>7 DEF Following, Follows, OnlyTracked, UpTo
<1> QED BY <1>1, <1>8, FileSame DEF BookInv

\* The saved checkpoint and the book have followed the whole range.
LEMMA SaveFollows == ASSUME KeeperInv, BookInv, Save PROVE BookInv'
<1>1. /\ UNCHANGED <<chain, book, origin>> /\ log' = log
      /\ pc = "apply" /\ pc' = "scan" /\ pos = fetched /\ cursor' = end
      /\ file' = [cursor |-> end, book |-> book]
  BY Still DEF Save
<1>2. Following /\ Applying
  BY <1>1 DEF BookInv, KeeperInv
<1>3. PICK b, c : b = book /\ c = end
  OBVIOUS
<1>4. Follows(b, c)
  <2>1. \A i \in DOMAIN log : log[i].ledger < c => i <= pos
    BY <1>1, <1>2, <1>3 DEF Applying
  <2>2. \A i \in DOMAIN log : i <= origin => log[i].ledger < c
    <3>1. \A i \in DOMAIN log : log[i].ledger \in Nat
      BY Entries DEF KeeperInv, ChainInv
    <3> QED BY <1>2, <1>3, <3>1, Ranges DEF Following
  <2> QED BY <1>2, <1>3, <2>1, <2>2 DEF Follows, Following
<1>5. Follows(b, c)'
  BY <1>1, <1>4, FollowsSame
<1>6. b = book' /\ c = cursor' /\ file'.book = b /\ file'.cursor = c
  BY <1>1, <1>3
<1>7. LogTellsRows' /\ (origin <= Len(log))'
  <2>1. UNCHANGED <<status, remaining, due, log>>
    BY <1>1 DEF chain
  <2> QED BY <1>1, <2>1, SilenceKeepsRows DEF BookInv
<1> QED BY <1>1, <1>5, <1>6, <1>7 DEF BookInv

(***************************************************************************)
(* Applying the next event n leaves its order as n, or as a later event,   *)
(* left it: a fill finds no entry only if the order's end has been read,   *)
(* or told by a reclaim, before it.                                        *)
(***************************************************************************)
LEMMA AppliedUpTo ==
  ASSUME KeeperInv, LogTellsRows, Following, NEW n \in DOMAIN log, n = pos + 1,
         NEW k \in Keys, log[n].key = k, Tracked(k),
         NEW b, b[k] = Applied(log[n])
  PROVE UpTo(b, k, n)
<1> DEFINE e == log[n]
<1>1. /\ e \in Event /\ e.key = k /\ e.topic \in Topics /\ n \in Nat
      /\ \A i \in DOMAIN log : log[i] \in Event /\ i \in Nat
  BY Entries DEF KeeperInv, ChainInv
<1>2. EntryAfter(e) = NoOrder <=> Closing(e)
  BY <1>1, EntryIs
<1>3. CASE e.topic = "created" \/ Closing(e) \/ book[k] # NoOrder
  <2>1. Applied(e) = EntryAfter(e)
    BY <1>1, <1>3 DEF Applied, EntryAfter, Closing, Topics
  <2> QED BY <1>1, <2>1 DEF UpTo
<1>4. CASE e.topic # "created" /\ ~Closing(e) /\ book[k] = NoOrder
  <2>1. b[k] = NoOrder
    BY <1>1, <1>4 DEF Applied, Closing, Topics
  <2>2. PICK c \in DOMAIN log : c > origin /\ log[c].topic = "created" /\ log[c].key = k
    BY DEF Tracked
  <2>3. c <= n /\ c # n
    BY <1>1, <1>4, <2>2 DEF KeeperInv, ChainInv, LogTellsStatus
  <2>4. c <= pos
    BY <1>1, <2>2, <2>3, Ranges
  <2>5. UpTo(book, k, c)
    BY <2>2, <2>4 DEF Following
  <2>6. CASE status[k] \in Terminal
    BY <2>1, <2>6 DEF UpTo
  <2>7. CASE \E j \in DOMAIN log : c <= j /\ log[j].key = k /\ book[k] = EntryAfter(log[j])
    <3>1. PICK j \in DOMAIN log : log[j].key = k /\ book[k] = EntryAfter(log[j])
      BY <2>7
    <3>2. Closing(log[j])
      BY <1>1, <1>4, <3>1, EntryIs
    <3>3. n <= j
      BY <1>1, <3>1, <3>2 DEF LogTellsRows, ClosingIsLast
    <3> QED BY <1>4, <2>1, <3>1, <3>3 DEF UpTo
  <2> QED BY <2>5, <2>6, <2>7 DEF UpTo
<1> QED BY <1>3, <1>4

\* What is known of an event is known of the ones before it.
LEMMA UpToEarlier ==
  ASSUME DOMAIN log \subseteq Nat, NEW b, NEW k, NEW n \in Nat, NEW i \in Nat, i <= n, UpTo(b, k, n)
  PROVE UpTo(b, k, i)
BY DEF UpTo

LEMMA ApplyFollows == ASSUME KeeperInv, BookInv, Apply PROVE BookInv'
<1>1. PICK n : n = pos + 1
  OBVIOUS
<1>2. /\ UNCHANGED <<chain, file, origin, cursor, end>> /\ log' = log /\ status' = status
      /\ pc = "apply" /\ pc' = "apply" /\ pos' = n /\ pos < fetched
      /\ book' = [book EXCEPT ![log[n].key] = Applied(log[n])]
  BY <1>1, Still DEF Apply
<1>3. LogTellsRows /\ Following /\ Applying
  BY <1>2 DEF BookInv, KeeperInv
<1>4. /\ n \in DOMAIN log /\ n \in Nat /\ log[n].key \in Keys /\ DOMAIN log \subseteq Nat
      /\ book \in [Keys -> Entry \union {NoOrder}] /\ pos \in Nat
      /\ log[n].topic \in Topics /\ \A i \in DOMAIN log : log[i].ledger \in Nat
  BY <1>1, <1>2, <1>3, Entries, Ranges DEF KeeperInv, ChainInv, TypeOK, Applying
<1>5. /\ book'[log[n].key] = Applied(log[n])
      /\ \A k \in Keys : k # log[n].key => book'[k] = book[k]
  BY <1>2, <1>4
<1>6. n > origin
  <2>1. CASE n <= origin
    <3>1. n <= pos
      BY <1>3, <1>4, <2>1 DEF Following, Applying
    <3> QED BY <1>1, <1>4, <3>1
  <2> QED BY <1>4, <2>1 DEF KeeperInv
<1>7. OnlyTracked(book')
  <2> SUFFICES ASSUME NEW k \in Keys, book'[k] # NoOrder PROVE Tracked(k)
    BY DEF OnlyTracked
  <2>1. CASE book[k] # NoOrder
    BY <1>3, <2>1 DEF Following, OnlyTracked
  <2>2. CASE book[k] = NoOrder
    <3>1. k = log[n].key
      BY <1>5, <2>2
    <3>2. log[n].topic = "created"
      BY <1>4, <1>5, <2>2, <3>1 DEF Applied, Topics
    <3> QED BY <1>4, <1>6, <3>1, <3>2 DEF Tracked
  <2> QED BY <2>1, <2>2
<1>8. ASSUME NEW k \in Keys, Tracked(k), NEW i \in DOMAIN log, log[i].key = k, i <= n
      PROVE UpTo(book', k, i)
  <2>1. CASE k = log[n].key
    <3>1. PICK b : b = book'
      OBVIOUS
    <3>2. UpTo(b, k, n)
      BY <1>1, <1>3, <1>4, <1>5, <1>8, <2>1, <3>1, AppliedUpTo
    <3>3. UpTo(b, k, i)
      BY <1>4, <1>8, <3>2, UpToEarlier
    <3> QED BY <3>1, <3>3
  <2>2. CASE k # log[n].key
    <3>1. i <= pos
      BY <1>1, <1>4, <1>8, <2>2
    <3>2. UpTo(book, k, i)
      BY <1>3, <1>8, <3>1 DEF Following
    <3> QED BY <1>5, <2>2, <3>2 DEF UpTo
  <2> QED BY <2>1, <2>2
<1>9. Following'
  <2>1. OnlyTracked(book)'
    BY <1>2, <1>7 DEF OnlyTracked, Tracked
  <2>2. \A k \in Keys : Tracked(k)' = Tracked(k)
    BY <1>2 DEF Tracked
  <2>3. \A k \in Keys : \A i : UpTo(book, k, i)' = UpTo(book', k, i)
    BY <1>2 DEF UpTo, EntryAfter, Closing
  <2> QED BY <1>2, <1>3, <1>8, <2>1, <2>2, <2>3 DEF Following
<1> QED BY <1>2, <1>9, FileSame DEF BookInv

\* An order leaves the book early only when its reclaim ended it.
LEMMA ConfirmedFollows == ASSUME KeeperInv, BookInv, Confirmed PROVE BookInv'
<1>1. /\ UNCHANGED <<chain, cursor, origin>> /\ pc = "poll" /\ pc' = "pass"
      /\ outcome = "success" /\ tx # NoTx /\ log' = log
  BY Still DEF Confirmed, Resume, KeeperInv, TypeOK
<1>2. CASE tx.op # "reclaim"
  <2>1. UNCHANGED <<book, file>>
    BY <1>2 DEF Confirmed
  <2> QED BY <1>1, <2>1, MovingOnFollows
<1>3. CASE tx.op = "reclaim"
  <2>1. book' = [book EXCEPT ![tx.key] = NoOrder] /\ file' = [cursor |-> cursor, book |-> book']
    BY <1>3 DEF Confirmed
  <2>2. status[tx.key] \in Terminal /\ book \in [Keys -> Entry \union {NoOrder}]
    BY <1>1, <1>3 DEF KeeperInv, TypeOK
  <2>3. PICK b, c : b = book' /\ c = cursor
    OBVIOUS
  <2>4. \A k \in Keys : b[k] = book[k] \/ (b[k] = NoOrder /\ status[k] \in Terminal)
    BY <2>1, <2>2, <2>3
  <2>5. Follows(book, cursor)
    BY <1>1 DEF BookInv
  <2>6. Follows(b, c)
    <3>1. OnlyTracked(b)
      BY <2>4, <2>5 DEF Follows, OnlyTracked
    <3>2. ASSUME NEW k \in Keys, Tracked(k), NEW i \in DOMAIN log, log[i].key = k, log[i].ledger < c
          PROVE UpTo(b, k, i)
      <4>1. UpTo(book, k, i)
        BY <2>3, <2>5, <3>2 DEF Follows
      <4> QED BY <2>4, <4>1 DEF UpTo
    <3> QED BY <2>3, <2>5, <3>1, <3>2 DEF Follows
  <2>7. Follows(b, c)'
    BY <1>1, <2>6, FollowsSame
  <2>8. file'.book = b /\ file'.cursor = c /\ c = cursor'
    BY <1>1, <2>1, <2>3
  <2>9. LogTellsRows' /\ (origin <= Len(log))'
    <3>1. UNCHANGED <<status, remaining, due, log>>
      BY <1>1 DEF chain
    <3> QED BY <1>1, <3>1, SilenceKeepsRows DEF BookInv
  <2> QED BY <1>1, <2>3, <2>7, <2>8, <2>9 DEF BookInv
<1> QED BY <1>2, <1>3

LEMMA InitFollows == ASSUME Init PROVE BookInv
<1>1. log = <<>> /\ (\A k \in Keys : status[k] = "Absent") /\ origin = 0 /\ file = NoFile /\ pc = "down"
  BY DEF Init, ChainInit
<1>2. LogTellsRows
  BY <1>1 DEF LogTellsRows, LastTells, OthersFollow, ClosingIsLast, RefundsKeepDue
<1> QED BY <1>1, <1>2 DEF BookInv

LEMMA NextFollows == ASSUME KeeperInv, BookInv, [Next]_vars PROVE BookInv'
<1>1. ChainTypeOK
  BY DEF KeeperInv, ChainInv
<1>2. CASE UNCHANGED vars \/ (ChainNext /\ UNCHANGED keeper)
  <2>1. ChainStep /\ UNCHANGED <<pc, cursor, book, file, end, pos, fetched, origin>>
    BY <1>1, <1>2, ChainNextIsStep DEF vars, keeper, memory
  <2> QED BY <2>1, ChainFollows
<1>3. CASE Crash \/ \E k \in Keys : Panic(k)
  BY <1>3, ExitFollows DEF Crash, Panic
<1>4. CASE PollLatest \/ BeginPass \/ EndPass \/ GiveUp \/ \E k \in Keys : Skip(k)
  <2>1. /\ UNCHANGED <<chain, origin, file, book, cursor>>
        /\ pc \in {"idle", "scan", "pass", "poll"} /\ pc' \in {"idle", "scan", "pass", "poll"}
    BY <1>4 DEF PollLatest, BeginPass, EndPass, GiveUp, Resume, Skip, Visiting
  <2> QED BY <2>1, MovingOnFollows
<1>5. CASE \E k \in Keys : SubmitReclaim(k) \/ SubmitFill(k)
  <2>1. /\ UNCHANGED <<chain, origin, file, book, cursor>> /\ pc = "pass" /\ pc' = "poll"
    BY <1>5 DEF SubmitReclaim, SubmitFill, Executable, Submit, Visiting
  <2> QED BY <2>1, MovingOnFollows
<1>6. CASE \E t \in inflight : Lands(t) \/ Dropped(t)
  <2>1. ChainStep /\ UNCHANGED <<pc, cursor, book, file, end, pos, fetched, origin>>
    BY <1>6, LandsIsStep DEF Lands, Dropped, memory, ChainStep
  <2> QED BY <2>1, ChainFollows
<1>7. CASE Start \/ Fetch \/ Apply \/ Save \/ Confirmed
  BY <1>7, StartFollows, FetchFollows, ApplyFollows, SaveFollows, ConfirmedFollows
<1> QED BY <1>2, <1>3, <1>4, <1>5, <1>6, <1>7 DEF Next, Loop

LEMMA FollowedIsExact == ASSUME KeeperInv, BookInv PROVE CaughtUpBookExact
<1> SUFFICES ASSUME pc \notin {"down", "apply"}, \A i \in DOMAIN log : log[i].ledger < cursor,
                    NEW k \in Keys
             PROVE book[k] = IF Open(k) /\ Tracked(k)
                               THEN [remaining |-> remaining[k], due |-> due[k]] ELSE NoOrder
  BY DEF CaughtUpBookExact
<1>1. Follows(book, cursor)
  BY DEF BookInv, KeeperInv, TypeOK
<1>2. CASE ~Tracked(k)
  BY <1>1, <1>2 DEF Follows, OnlyTracked
<1>3. CASE Tracked(k)
  <2>1. status[k] # "Absent"
    BY <1>3 DEF Tracked, KeeperInv, ChainInv, LogTellsStatus
  <2>2. PICK i \in DOMAIN log :
          /\ LastOf(k, i) /\ status[k] = StatusAfter(log[i])
          /\ remaining[k] = log[i].remaining /\ due[k] = log[i].due
    BY <2>1 DEF BookInv, LogTellsRows, LastTells
  <2>3. UpTo(book, k, i)
    BY <1>1, <1>3, <2>2 DEF Follows, LastOf
  <2>4. CASE book[k] = NoOrder /\ status[k] \in Terminal
    BY <2>4 DEF Open, Terminal
  <2>5. CASE \E j \in DOMAIN log : i <= j /\ log[j].key = k /\ book[k] = EntryAfter(log[j])
    <3>1. PICK j \in DOMAIN log : i <= j /\ log[j].key = k /\ book[k] = EntryAfter(log[j])
      BY <2>5
    <3>2. DOMAIN log \subseteq Nat /\ log[i] \in Event
      BY Entries DEF KeeperInv, ChainInv
    <3>3. j = i
      BY <2>2, <3>1, <3>2 DEF LastOf
    <3>4. Open(k) <=> ~Closing(log[i])
      BY <2>2, AfterAnEvent DEF Open, Terminal, KeeperInv, ChainInv, ChainTypeOK
    <3> QED BY <1>3, <2>2, <3>1, <3>3, <3>4 DEF EntryAfter
  <2> QED BY <2>3, <2>4, <2>5 DEF UpTo
<1> QED BY <1>2, <1>3

(***************************************************************************)
(* As long as no range has more events than MAX_PAGES pages hold, the book *)
(* of a keeper that has read the whole log holds exactly the open orders   *)
(* it has heard of, each as the contract stores it, after any number of    *)
(* crashes, ranges applied twice and orders removed ahead of their event.  *)
(***************************************************************************)
THEOREM CaughtUpKeeperIsExact == Spec /\ []Paged => []CaughtUpBookExact
<1>1. Init => KeeperInv /\ BookInv
  BY InitKeeps, InitFollows
<1>2. KeeperInv /\ BookInv /\ Paged /\ [Next]_vars => (KeeperInv /\ BookInv)'
  BY NextKeeps, NextFollows
<1>3. KeeperInv /\ BookInv => CaughtUpBookExact
  BY FollowedIsExact
<1> QED BY <1>1, <1>2, <1>3, PTL DEF Spec
=============================================================================
