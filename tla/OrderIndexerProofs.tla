-------------------------- MODULE OrderIndexerProofs --------------------------
(***************************************************************************)
(* Proofs about the order tables of the analytics indexer, for any set of  *)
(* orders, any ranges and answers, any number of restarts, backfills and   *)
(* events the RPC has dropped.                                             *)
(*                                                                         *)
(* The argument is about rereading.  A range is applied again after a      *)
(* restart, a failed round or by the backfill, and an old fill then takes  *)
(* an open row back in time.  So a row is never promised to be the latest  *)
(* one: it is the row after some event of its order, no earlier than the   *)
(* events the reader has passed (RowsFollow).  When the reader has passed  *)
(* the whole log this leaves the last event only, and the last event tells *)
(* what the order is on chain (LastTells).                                 *)
(***************************************************************************)
EXTENDS OrderIndexer, OrderLogProofs

-----------------------------------------------------------------------------
(***************************************************************************)
(* The inductive invariant                                                 *)
(***************************************************************************)

\* The row of an order whose last event is e.
RowAfter(e) ==
  [status |-> RowStatus[StatusAfter(e)], remaining |-> e.remaining, due |-> e.due]

IndexTypes ==
  /\ pc \in [Readers -> {"down", "idle", "apply"}]
  /\ cursor \in [Readers -> Nat] /\ end \in [Readers -> Nat]
  /\ pos \in [Readers -> Nat] /\ fetched \in [Readers -> Nat]
  /\ stop \in 0 .. ledger /\ oldest \in 1 .. ledger
  /\ saved \in 0 .. ledger \union {StartLedger}
  /\ rows \in [Keys -> Row \union {NoRow}]
  /\ unread \subseteq DOMAIN log

\* A reader has passed every event before its cursor, and reads up to a ledger
\* the chain has reached.
ReaderOK(r) ==
  /\ cursor[r] \in 0 .. ledger \union {StartLedger}
  /\ r = "backfill" /\ pc[r] # "down" => cursor[r] <= stop
  /\ pos[r] <= fetched[r] /\ fetched[r] <= Len(log)
  /\ pc[r] # "apply" => end[r] = 0
  /\ pc[r] = "apply" =>
       /\ cursor[r] < end[r] /\ end[r] <= Latest(r)
       /\ \A i \in DOMAIN log : log[i].ledger < cursor[r] => i <= pos[r]

\* Unless they run at once, the live indexer reads from the saved cursor.
LiveReadsSaved ==
  ~torn /\ pc["live"] # "down" => pc["backfill"] = "down" /\ cursor["live"] = saved

\* A saved cursor ahead of the chain, or of the running backfill, has only
\* jumped over events.
Ahead == saved > ledger \/ (~torn /\ pc["backfill"] # "down" /\ saved > stop)
AheadJumped == Ahead => \A i \in DOMAIN log : log[i].ledger < saved => i \in unread

\* A row that is not open was closed by an event.
ClosedRowsTold ==
  \A k \in Keys : rows[k] # NoRow /\ rows[k].status # "open" =>
    \E i \in DOMAIN log : /\ log[i].key = k /\ Closing(log[i])
                          /\ rows[k].status = RowAfter(log[i]).status
                          /\ rows[k].remaining = log[i].remaining

\* The events the running reader, or the next one, has passed.
Reached(r, i) == IF pc[r] = "apply" THEN i <= pos[r] ELSE log[i].ledger < cursor[r]
Covered(i) ==
  IF pc["backfill"] # "down" THEN Reached("backfill", i)
  ELSE IF pc["live"] # "down" THEN Reached("live", i)
  ELSE log[i].ledger < saved

\* The row of an order is the row after the event i.
Shows(k, i) == log[i].key = k /\ rows[k] = RowAfter(log[i])

RowFollows(k) ==
  /\ rows[k] # NoRow => \E j \in DOMAIN log : Shows(k, j)
  /\ \A i \in DOMAIN log : Covered(i) /\ log[i].key = k =>
       \E j \in DOMAIN log : i <= j /\ Shows(k, j)

RowsFollow == ~torn => \A k \in Keys : Unmissed(k) => RowFollows(k)

IndexInv ==
  /\ ChainInv
  /\ LogTellsRows
  /\ IndexTypes
  /\ \A r \in Readers : ReaderOK(r)
  /\ LiveReadsSaved
  /\ AheadJumped
  /\ ClosedRowsTold
  /\ RowsFollow

-----------------------------------------------------------------------------
(***************************************************************************)
(* Applying an event                                                       *)
(***************************************************************************)

\* The row after an event, by its topic.
LEMMA RowAfterIs ==
  ASSUME NEW e \in Event
  PROVE /\ RowAfter(e) \in Row /\ RowAfter(e) # NoRow
        /\ RowAfter(e).remaining = e.remaining /\ RowAfter(e).due = e.due
        /\ RowAfter(e).status = "open" <=> ~Closing(e)
        /\ e.topic = "filled" => RowAfter(e).status = IF e.remaining = 0 THEN "filled" ELSE "open"
        /\ e.topic \in {"cancelled", "expired"} => RowAfter(e).status = e.topic
        /\ e.topic = "created" => RowAfter(e).status = "open"
<1>1. e.remaining \in Nat /\ e.due \in Nat /\ e.topic \in Topics
  BY DEF Event
<1>2. /\ e.topic = "created" => StatusAfter(e) = "Open"
      /\ e.topic = "cancelled" => StatusAfter(e) = "Cancelled"
      /\ e.topic = "expired" => StatusAfter(e) = "Expired"
      /\ e.topic = "filled" => StatusAfter(e) = IF e.remaining = 0 THEN "Filled" ELSE "Open"
  BY DEF StatusAfter
<1>3. /\ RowStatus["Open"] = "open" /\ RowStatus["Filled"] = "filled"
      /\ RowStatus["Cancelled"] = "cancelled" /\ RowStatus["Expired"] = "expired"
  BY DEF RowStatus
<1> DEFINE st == RowStatus[StatusAfter(e)]
<1>4. /\ e.topic = "created" => st = "open"
      /\ e.topic \in {"cancelled", "expired"} => st = e.topic
      /\ e.topic = "filled" => st = IF e.remaining = 0 THEN "filled" ELSE "open"
  BY <1>2, <1>3
<1> HIDE DEF st
<1>5. st \in {"open", "filled", "cancelled", "expired"}
  BY <1>1, <1>4 DEF Topics
<1>6. RowAfter(e) = [status |-> st, remaining |-> e.remaining, due |-> e.due]
  BY DEF RowAfter, st
<1>7. RowAfter(e) \in Row /\ RowAfter(e) # NoRow
  <2>1. [status |-> st, remaining |-> e.remaining, due |-> e.due] \in Row
    BY <1>1, <1>5 DEF Row
  <2> QED BY <1>6, <2>1, IndexerAssumption DEF IndexerAssumption, Row
<1>8. st = "open" <=> ~Closing(e)
  BY <1>1, <1>4 DEF Closing, Topics
<1> QED BY <1>4, <1>6, <1>7, <1>8

\* What the statements of an event leave of a row.
LEMMA AppliedIs ==
  ASSUME NEW e \in Event, NEW row \in Row \union {NoRow}, rows[e.key] = row
  PROVE /\ row = NoRow => Applied(e) = IF e.topic = "created" THEN RowAfter(e) ELSE NoRow
        /\ row # NoRow /\ row.status # "open" => Applied(e) = row
        /\ row # NoRow /\ row.status = "open" /\ e.topic = "created" => Applied(e) = row
        /\ row # NoRow /\ row.status = "open" /\ e.topic = "filled" => Applied(e) = RowAfter(e)
        /\ row # NoRow /\ row.status = "open" /\ e.topic \in {"cancelled", "expired"} =>
             Applied(e) = [status |-> e.topic, remaining |-> 0, due |-> row.due]
<1>1. e.topic \in Topics
  BY DEF Event
<1>2. e.topic = "created" => RowAfter(e) = [status |-> "open", remaining |-> e.remaining, due |-> e.due]
  BY DEF RowAfter, StatusAfter, RowStatus
<1>3. e.topic = "filled" =>
        RowAfter(e) = [status |-> IF e.remaining = 0 THEN "filled" ELSE "open",
                       remaining |-> e.remaining, due |-> e.due]
  BY DEF RowAfter, StatusAfter, RowStatus
<1> QED BY <1>1, <1>2, <1>3 DEF Applied, Topics

\* The chain alone keeps what it tells when the indexer takes a step.
LEMMA ChainStays ==
  ASSUME ChainInv, LogTellsRows, UNCHANGED chain
  PROVE ChainInv' /\ LogTellsRows'
<1>1. UNCHANGED <<ledger, terms, status, remaining, due, log>>
  BY DEF chain
<1> QED BY <1>1, SilenceKeepsRows
        DEF ChainInv, ChainTypeOK, LogOrdered, LogTellsStatus, Closing

\* The reader that runs decides what is covered, unless two run at once.
LEMMA CoveredByReader ==
  ASSUME LiveReadsSaved, ~torn, NEW r \in Readers, pc[r] # "down", NEW i
  PROVE Covered(i) = Reached(r, i)
BY DEF LiveReadsSaved, Covered, Readers

\* An event is applied: the row is then the row after this event, or after a
\* later one, if every earlier event had been passed.
LEMMA ApplyShows ==
  ASSUME IndexInv, NEW n \in DOMAIN log, NEW k \in Keys, log[n].key = k,
         RowFollows(k), \A i \in DOMAIN log : i < n => Covered(i),
         rows'[k] = Applied(log[n])
  PROVE \E m \in DOMAIN log : n <= m /\ log[m].key = k /\ rows'[k] = RowAfter(log[m])
<1> DEFINE e == log[n]
<1>1. /\ e \in Event /\ e.topic \in Topics /\ e.key = k
      /\ \A i \in DOMAIN log : log[i] \in Event /\ i \in Nat
  BY Entries DEF IndexInv, ChainInv
<1>2. rows[k] \in Row \union {NoRow}
  BY DEF IndexInv, IndexTypes
<1>3. /\ OthersFollow /\ ClosingIsLast /\ RefundsKeepDue
      /\ \A i, j \in DOMAIN log :
           log[i].topic = "created" /\ log[i].key = log[j].key => i <= j
  BY DEF IndexInv, LogTellsRows, ChainInv, LogTellsStatus
<1>4. CASE e.topic = "created"
  <2>1. CASE rows[k] = NoRow
    <3>1. rows'[k] = RowAfter(e)
      BY <1>1, <1>4, <2>1, AppliedIs
    <3> QED BY <1>1, <3>1
  <2>2. CASE rows[k] # NoRow
    <3>1. PICK j \in DOMAIN log : Shows(k, j)
      BY <2>2 DEF RowFollows
    <3>2. rows'[k] = rows[k]
      BY <1>1, <1>2, <1>4, <2>2, AppliedIs
    <3>3. n <= j
      BY <1>1, <1>3, <1>4, <3>1 DEF Shows
    <3> QED BY <3>1, <3>2, <3>3 DEF Shows
  <2> QED BY <2>1, <2>2
<1>5. CASE e.topic # "created"
  <2>1. \A i \in DOMAIN log : i < n /\ log[i].key = k =>
          \E j \in DOMAIN log : i <= j /\ Shows(k, j)
    BY DEF RowFollows
  <2>2. PICK i \in DOMAIN log : i < n /\ log[i].key = k
    BY <1>1, <1>3, <1>5 DEF OthersFollow
  <2>3. PICK j \in DOMAIN log : i <= j /\ Shows(k, j)
    BY <2>1, <2>2
  <2>4. rows[k] = RowAfter(log[j]) /\ log[j].key = k /\ rows[k] # NoRow
    BY <1>1, <2>3, RowAfterIs DEF Shows
  <2>5. CASE rows[k].status # "open"
    <3>1. Closing(log[j])
      BY <1>1, <2>4, <2>5, RowAfterIs
    <3>2. n <= j
      BY <1>1, <1>3, <2>4, <3>1 DEF ClosingIsLast
    <3>3. rows'[k] = rows[k]
      BY <1>1, <1>2, <2>4, <2>5, AppliedIs
    <3> QED BY <2>4, <3>2, <3>3
  <2>6. CASE rows[k].status = "open" /\ e.topic = "filled"
    <3>1. rows'[k] = RowAfter(e)
      BY <1>1, <1>2, <2>4, <2>6, AppliedIs
    <3> QED BY <1>1, <3>1
  <2>7. CASE rows[k].status = "open" /\ e.topic \in {"cancelled", "expired"}
    <3>1. /\ e.remaining = 0
          /\ \E p \in DOMAIN log : EventBefore(p, n) /\ log[p].due = e.due
      BY <1>3, <2>7 DEF RefundsKeepDue
    <3>2. PICK p \in DOMAIN log : EventBefore(p, n) /\ log[p].due = e.due
      BY <3>1
    <3>3. p < n /\ log[p].key = k
      BY <1>1, <3>2 DEF EventBefore
    <3>4. PICK q \in DOMAIN log : p <= q /\ Shows(k, q)
      BY <2>1, <3>3
    <3>5. Closing(e) /\ RowAfter(e).status # "open"
      BY <1>1, <2>7, RowAfterIs DEF Closing
    <3>6. q <= n /\ q # n
      BY <1>1, <1>3, <2>7, <3>4, <3>5 DEF ClosingIsLast, Shows
    <3>7. q = p
      BY <1>1, <3>2, <3>4, <3>6 DEF EventBefore, Shows
    <3>8. rows[k].due = e.due
      BY <1>1, <3>2, <3>4, <3>7, RowAfterIs DEF Shows
    <3>9. rows'[k] = [status |-> e.topic, remaining |-> 0, due |-> e.due]
      BY <1>1, <1>2, <2>4, <2>7, <3>8, AppliedIs
    <3>10. RowAfter(e) = [status |-> e.topic, remaining |-> 0, due |-> e.due]
      BY <1>1, <2>7, <3>1 DEF RowAfter, StatusAfter, RowStatus
    <3> QED BY <1>1, <3>9, <3>10
  <2> QED BY <1>1, <1>5, <2>5, <2>6, <2>7 DEF Topics
<1> QED BY <1>4, <1>5

\* A row an event closes tells how.
LEMMA ApplyCloses ==
  ASSUME IndexInv, NEW n \in DOMAIN log, NEW k \in Keys, log[n].key = k,
         rows'[k] = Applied(log[n]), rows'[k] # NoRow, rows'[k].status # "open"
  PROVE \E i \in DOMAIN log : /\ log[i].key = k /\ Closing(log[i])
                              /\ rows'[k].status = RowAfter(log[i]).status
                              /\ rows'[k].remaining = log[i].remaining
<1> DEFINE e == log[n]
<1>1. e \in Event /\ e.topic \in Topics
  BY Entries DEF IndexInv, ChainInv
<1>2. rows[k] \in Row \union {NoRow} /\ ClosedRowsTold
  BY DEF IndexInv, IndexTypes
<1>3. CASE rows[k] # NoRow /\ rows[k].status # "open"
  <2>1. rows'[k] = rows[k]
    BY <1>1, <1>2, <1>3, AppliedIs
  <2> QED BY <1>2, <1>3, <2>1 DEF ClosedRowsTold
<1>4. CASE rows[k] = NoRow
  BY <1>1, <1>2, <1>4, AppliedIs, RowAfterIs
<1>5. CASE rows[k] # NoRow /\ rows[k].status = "open"
  <2>1. CASE e.topic = "created"
    BY <1>1, <1>2, <1>5, <2>1, AppliedIs
  <2>2. CASE e.topic = "filled"
    <3>1. rows'[k] = RowAfter(e)
      BY <1>1, <1>2, <1>5, <2>2, AppliedIs
    <3> QED BY <1>1, <3>1, RowAfterIs
  <2>3. CASE e.topic \in {"cancelled", "expired"}
    <3>1. rows'[k] = [status |-> e.topic, remaining |-> 0, due |-> rows[k].due]
      BY <1>1, <1>2, <1>5, <2>3, AppliedIs
    <3>2. e.remaining = 0 /\ Closing(e) /\ RowAfter(e).status = e.topic
      BY <1>1, <2>3, RowAfterIs DEF IndexInv, LogTellsRows, RefundsKeepDue, Closing
    <3> QED BY <3>1, <3>2
  <2> QED BY <1>1, <2>1, <2>2, <2>3 DEF Topics
<1> QED BY <1>3, <1>4, <1>5

LEMMA ApplyKeepsInv ==
  ASSUME IndexInv, NEW r \in Readers, Apply(r)
  PROVE IndexInv'
<1>1. /\ ChainInv /\ LogTellsRows /\ IndexTypes /\ LiveReadsSaved /\ AheadJumped
      /\ ClosedRowsTold /\ RowsFollow
      /\ \A q \in Readers : ReaderOK(q)
  BY DEF IndexInv
<1>2. /\ pc[r] = "apply" /\ pos[r] < fetched[r] /\ pos[r] \in Nat /\ fetched[r] \in Nat
      /\ fetched[r] <= Len(log)
  BY <1>1 DEF Apply, IndexTypes, ReaderOK
<1>3. PICK n \in DOMAIN log : n = pos[r] + 1
  BY <1>1, <1>2, Entries DEF ChainInv
<1>4. PICK k \in Keys : log[n].key = k
  BY <1>1, Entries DEF ChainInv
<1>5. /\ pos' = [pos EXCEPT ![r] = n]
      /\ UNCHANGED <<chain, pc, cursor, end, fetched, stop, saved, oldest, unread, torn>>
      /\ UNCHANGED <<ledger, log, status>>
  BY <1>3 DEF Apply, chain
<1>6. pos'[r] = n /\ \A q \in Readers : q # r => pos'[q] = pos[q]
  BY <1>1, <1>5 DEF IndexTypes
<1>7. rows' = [rows EXCEPT ![k] = Applied(log[n])]
  BY <1>4, <1>6 DEF Apply
<1>8. rows \in [Keys -> Row \union {NoRow}] /\ log[n] \in Event
  BY <1>1, Entries DEF IndexTypes, ChainInv
<1>9. rows'[k] = Applied(log[n]) /\ \A j \in Keys : j # k => rows'[j] = rows[j]
  BY <1>7, <1>8
<1>10. rows' \in [Keys -> Row \union {NoRow}]
  <2>1. Applied(log[n]) \in Row \union {NoRow}
    BY <1>4, <1>8 DEF Applied, Row, Event, Topics
  <2> QED BY <1>7, <1>8, <2>1
<1>11. ChainInv' /\ LogTellsRows'
  BY <1>1, <1>5, ChainStays
<1>12. IndexTypes'
  BY <1>1, <1>2, <1>3, <1>5, <1>10, Entries DEF IndexTypes, ChainInv
<1>13. ASSUME NEW q \in Readers PROVE ReaderOK(q)'
  <2>1. ReaderOK(q)
    BY <1>1
  <2>2. CASE q = r
    BY <1>2, <1>3, <1>5, <1>6, <2>1, <2>2 DEF ReaderOK, Latest
  <2>3. CASE q # r
    BY <1>5, <1>6, <2>1, <2>3 DEF ReaderOK, Latest
  <2> QED BY <2>2, <2>3
<1>14. LiveReadsSaved' /\ AheadJumped'
  BY <1>1, <1>5 DEF LiveReadsSaved, AheadJumped, Ahead
<1>15. ClosedRowsTold'
  <2> SUFFICES ASSUME NEW j \in Keys, rows'[j] # NoRow, rows'[j].status # "open"
               PROVE \E i \in DOMAIN log : /\ log[i].key = j /\ Closing(log[i])
                                           /\ rows'[j].status = RowAfter(log[i]).status
                                           /\ rows'[j].remaining = log[i].remaining
    BY <1>5 DEF ClosedRowsTold, Closing, RowAfter, RowStatus, StatusAfter
  <2>1. CASE j = k
    BY <1>4, <1>9, <2>1, ApplyCloses
  <2>2. CASE j # k
    BY <1>1, <1>9, <2>2 DEF ClosedRowsTold
  <2> QED BY <2>1, <2>2
<1>16. RowsFollow'
  <2> SUFFICES ASSUME ~torn, NEW j \in Keys, Unmissed(j)
               PROVE RowFollows(j)'
    BY <1>5 DEF RowsFollow, Unmissed
  <2>1. RowFollows(j)
    BY <1>1 DEF RowsFollow
  <2>2. \A i \in DOMAIN log : Covered(i) <=> i <= pos[r]
    BY <1>1, <1>2, CoveredByReader DEF Reached
  <2>3. \A i \in DOMAIN log : Covered(i)' <=> i <= n
    <3>1. LiveReadsSaved' /\ ~torn' /\ pc'[r] = "apply"
      BY <1>2, <1>5, <1>14
    <3> QED BY <1>5, <1>6, <3>1 DEF Covered, Reached, LiveReadsSaved, Readers
  <2>4. CASE j = k
    <3>1. \A i \in DOMAIN log : i < n => Covered(i)
      BY <1>2, <1>3, <2>2, Entries, <1>1 DEF ChainInv
    <3>2. PICK m \in DOMAIN log : n <= m /\ log[m].key = k /\ rows'[k] = RowAfter(log[m])
      BY <1>4, <1>9, <2>1, <2>4, <3>1, ApplyShows
    <3>3. Shows(k, m)'
      BY <1>5, <3>2 DEF Shows, RowAfter, RowStatus, StatusAfter
    <3>4. \A i \in DOMAIN log' : Covered(i)' => i <= m
      BY <1>1, <1>5, <2>3, <3>2, Entries DEF ChainInv
    <3> QED BY <1>5, <2>4, <3>3, <3>4 DEF RowFollows
  <2>5. CASE j # k
    <3>1. rows'[j] = rows[j]
      BY <1>9, <2>5
    <3>2. \A i \in DOMAIN log : Shows(j, i)' <=> Shows(j, i)
      BY <1>5, <3>1 DEF Shows, RowAfter, RowStatus, StatusAfter
    <3>3. \A i \in DOMAIN log : Covered(i)' /\ log[i].key = j => Covered(i)
      BY <1>1, <1>2, <1>3, <1>4, <2>2, <2>3, <2>5, Entries DEF ChainInv
    <3> QED BY <1>5, <2>1, <3>1, <3>2, <3>3 DEF RowFollows
  <2> QED BY <2>4, <2>5
<1> QED BY <1>11, <1>12, <1>13, <1>14, <1>15, <1>16 DEF IndexInv

-----------------------------------------------------------------------------
(***************************************************************************)
(* The chain goes on                                                       *)
(***************************************************************************)

LEMMA PublicationKeepsInv ==
  ASSUME IndexInv, Publication
  PROVE IndexInv'
<1>1. /\ ChainInv /\ LogTellsRows /\ IndexTypes /\ LiveReadsSaved /\ AheadJumped
      /\ ClosedRowsTold /\ RowsFollow
      /\ \A q \in Readers : ReaderOK(q)
  BY DEF IndexInv
<1>2. ChainInv' /\ Later /\ LogTellsRows'
  <2>1. ChainStep
    BY <1>1, ChainNextIsStep DEF Publication, ChainInv
  <2> QED BY <1>1, <2>1, ChainStepKeeps, ChainKeepsRows
<1>3. /\ UNCHANGED <<pc, cursor, end, pos, fetched, stop, saved, rows, oldest, torn>>
      /\ unread' = unread \union {i \in DOMAIN log' \ DOMAIN log : log'[i].ledger < saved}
  BY DEF Publication, reader
<1>4. /\ ledger \in Nat /\ ledger' \in Nat /\ ledger <= ledger'
      /\ Len(log) \in Nat /\ Len(log') \in Nat /\ Len(log) <= Len(log')
      /\ DOMAIN log = 1 .. Len(log) /\ DOMAIN log' = 1 .. Len(log')
      /\ \A i \in DOMAIN log : log'[i] = log[i]
      /\ \A i \in DOMAIN log' : log'[i].ledger \in Nat
      /\ \A i \in DOMAIN log' : i \notin DOMAIN log => log'[i].ledger >= ledger
  <2>1. ledger \in Nat /\ ledger' \in Nat /\ Len(log) \in Nat /\ DOMAIN log = 1 .. Len(log)
    BY <1>1, <1>2, Entries DEF ChainInv, ChainTypeOK
  <2>2. log' \in Seq(Event)
    BY <1>2 DEF ChainInv, ChainTypeOK
  <2>3. Len(log') \in Nat /\ DOMAIN log' = 1 .. Len(log') /\ \A i \in DOMAIN log' : log'[i] \in Event
    BY <2>2
  <2>4. \A i \in DOMAIN log' : log'[i].ledger \in Nat
    BY <2>3 DEF Event
  <2> QED BY <1>2, <2>1, <2>3, <2>4 DEF Later
<1>5. IndexTypes'
  <2>1. /\ stop' \in 0 .. ledger' /\ oldest' \in 1 .. ledger'
        /\ saved' \in 0 .. ledger' \union {StartLedger}
    BY <1>1, <1>3, <1>4 DEF IndexTypes
  <2>2. unread' \subseteq DOMAIN log'
    BY <1>1, <1>3, <1>4 DEF IndexTypes
  <2> QED BY <1>1, <1>3, <2>1, <2>2 DEF IndexTypes
<1>6. ASSUME NEW q \in Readers PROVE ReaderOK(q)'
  <2>1. ReaderOK(q) /\ end[q] \in Nat /\ cursor[q] \in Nat /\ stop \in 0 .. ledger /\ fetched[q] \in Nat
    BY <1>1 DEF IndexTypes
  <2>2. Latest(q) <= ledger /\ Latest(q) <= Latest(q)' /\ Latest(q) \in Nat /\ Latest(q)' \in Nat
    BY <1>3, <1>4, <2>1 DEF Latest
  <2>3. pc[q] = "apply" => /\ end[q] <= Latest(q)'
                           /\ \A i \in DOMAIN log' : log'[i].ledger < cursor[q] => i <= pos[q]
    BY <1>4, <2>1, <2>2 DEF ReaderOK
  <2>4. cursor[q] \in 0 .. ledger' \union {StartLedger} /\ fetched[q] <= Len(log')
    BY <1>4, <2>1 DEF ReaderOK
  <2> QED BY <1>3, <2>1, <2>3, <2>4 DEF ReaderOK
<1>7. LiveReadsSaved' /\ AheadJumped'
  <2>1. LiveReadsSaved'
    BY <1>1, <1>3 DEF LiveReadsSaved
  <2>2. saved \in Nat
    BY <1>1, <1>4, IndexerAssumption DEF IndexTypes, IndexerAssumption
  <2>3. Ahead' => Ahead
    BY <1>3, <1>4, <2>2 DEF Ahead
  <2>4. AheadJumped'
    BY <1>1, <1>3, <1>4, <2>3 DEF AheadJumped
  <2> QED BY <2>1, <2>4
<1>8. ClosedRowsTold'
  BY <1>1, <1>3, <1>4 DEF ClosedRowsTold, Closing, RowAfter, RowStatus, StatusAfter
<1>9. RowsFollow'
  <2> SUFFICES ASSUME ~torn, NEW k \in Keys, Unmissed(k)'
               PROVE RowFollows(k)'
    BY <1>3 DEF RowsFollow
  <2>1. \A i \in DOMAIN log : Shows(k, i)' <=> Shows(k, i)
    BY <1>3, <1>4 DEF Shows, RowAfter, RowStatus, StatusAfter
  <2>2. \A i \in DOMAIN log : Covered(i)' <=> Covered(i)
    BY <1>3, <1>4 DEF Covered, Reached
  <2>3. \A i \in DOMAIN log' : i \notin DOMAIN log /\ Covered(i)' => i \in unread'
    <3> SUFFICES ASSUME NEW i \in DOMAIN log', i \notin DOMAIN log, Covered(i)'
                 PROVE log'[i].ledger < saved
      BY <1>3
    <3>1. ASSUME NEW q \in Readers, pc[q] = "apply" PROVE ~(i <= pos[q])
      <4>1. ReaderOK(q) /\ pos[q] \in Nat /\ fetched[q] \in Nat
        BY <1>1 DEF IndexTypes
      <4> QED BY <1>4, <4>1 DEF ReaderOK
    <3>2. CASE pc["backfill"] # "down"
      <4>1. ReaderOK("backfill") /\ cursor["backfill"] \in Nat /\ stop \in 0 .. ledger
        BY <1>1 DEF IndexTypes, Readers
      <4>2. ~(log'[i].ledger < cursor["backfill"])
        BY <1>4, <3>2, <4>1 DEF ReaderOK
      <4> QED BY <1>3, <3>1, <3>2, <4>2 DEF Covered, Reached, Readers
    <3>3. CASE pc["backfill"] = "down" /\ pc["live"] # "down"
      <4>1. cursor["live"] = saved
        BY <1>1, <3>3 DEF LiveReadsSaved
      <4> QED BY <1>3, <3>1, <3>3, <4>1 DEF Covered, Reached, Readers
    <3>4. CASE pc["backfill"] = "down" /\ pc["live"] = "down"
      BY <1>3, <3>4 DEF Covered
    <3> QED BY <3>2, <3>3, <3>4
  <2>4. Unmissed(k) /\ \A i \in unread' : log'[i].key # k
    BY <1>1, <1>3, <1>4 DEF Unmissed, IndexTypes
  <2>5. RowFollows(k)
    BY <1>1, <2>4 DEF RowsFollow
  <2>6. DOMAIN log \subseteq DOMAIN log' /\ rows'[k] = rows[k]
    BY <1>3, <1>4
  <2>7. rows'[k] # NoRow => \E j \in DOMAIN log' : Shows(k, j)'
    BY <2>1, <2>5, <2>6 DEF RowFollows
  <2>8. \A i \in DOMAIN log' : Covered(i)' /\ log'[i].key = k =>
          \E j \in DOMAIN log' : i <= j /\ Shows(k, j)'
    <3> SUFFICES ASSUME NEW i \in DOMAIN log', Covered(i)', log'[i].key = k
                 PROVE \E j \in DOMAIN log' : i <= j /\ Shows(k, j)'
      OBVIOUS
    <3>1. i \in DOMAIN log
      BY <2>3, <2>4
    <3>2. Covered(i) /\ log[i].key = k
      BY <1>4, <2>2, <3>1
    <3>3. PICK j \in DOMAIN log : i <= j /\ Shows(k, j)
      BY <2>5, <3>1, <3>2 DEF RowFollows
    <3> QED BY <2>1, <2>6, <3>3
  <2> QED BY <2>7, <2>8 DEF RowFollows
<1> QED BY <1>2, <1>5, <1>6, <1>7, <1>8, <1>9 DEF IndexInv

-----------------------------------------------------------------------------
(***************************************************************************)
(* The readers move                                                        *)
(***************************************************************************)

\* A step that applies nothing keeps the rows right if what it adds to the
\* covered events was jumped over.
LEMMA MovingKeepsInv ==
  ASSUME IndexInv, UNCHANGED <<chain, rows>>,
         IndexTypes', \A r \in Readers : ReaderOK(r)', LiveReadsSaved', AheadJumped',
         torn => torn', unread \subseteq unread',
         ~torn' => \A i \in DOMAIN log : Covered(i)' => Covered(i) \/ i \in unread'
  PROVE IndexInv'
<1>1. ChainInv' /\ LogTellsRows' /\ log' = log
  BY ChainStays DEF IndexInv, chain
<1>2. ClosedRowsTold'
  BY <1>1 DEF IndexInv, ClosedRowsTold, Closing, RowAfter, RowStatus, StatusAfter
<1>3. RowsFollow'
  <2> SUFFICES ASSUME ~torn', NEW k \in Keys, Unmissed(k)'
               PROVE RowFollows(k)'
    BY DEF RowsFollow
  <2>1. Unmissed(k) /\ \A i \in unread' : log[i].key # k
    BY <1>1 DEF Unmissed
  <2>2. RowFollows(k)
    BY <2>1 DEF IndexInv, RowsFollow
  <2>3. \A i \in DOMAIN log : Shows(k, i)' <=> Shows(k, i)
    BY <1>1 DEF Shows, RowAfter, RowStatus, StatusAfter
  <2> QED BY <1>1, <2>1, <2>2, <2>3 DEF RowFollows
<1> QED BY <1>1, <1>2, <1>3 DEF IndexInv

\* A reader rests: the other one is not touched.
LEMMA RestKeepsReaders ==
  ASSUME IndexInv, UNCHANGED chain, NEW r \in Readers, NEW place \in {"down", "idle"},
         NEW at \in 0 .. ledger \union {StartLedger}, Rest(r, place, at),
         stop' \in 0 .. ledger, r = "live" => stop' = stop,
         r = "backfill" /\ place # "down" => at <= stop'
  PROVE /\ pc' \in [Readers -> {"down", "idle", "apply"}]
        /\ cursor' \in [Readers -> Nat] /\ end' \in [Readers -> Nat]
        /\ pos' \in [Readers -> Nat] /\ fetched' \in [Readers -> Nat]
        /\ pc'[r] = place /\ cursor'[r] = at
        /\ \A q \in Readers : q # r => pc'[q] = pc[q] /\ cursor'[q] = cursor[q] /\ pos'[q] = pos[q]
        /\ \A q \in Readers : ReaderOK(q)'
<1>1. /\ IndexTypes /\ ChainInv /\ ChainTypeOK
      /\ \A q \in Readers : ReaderOK(q)
  BY DEF IndexInv, ChainInv
<1>2. /\ pc' = [pc EXCEPT ![r] = place] /\ cursor' = [cursor EXCEPT ![r] = at]
      /\ end' = [end EXCEPT ![r] = 0] /\ pos' = [pos EXCEPT ![r] = 0]
      /\ fetched' = [fetched EXCEPT ![r] = 0]
      /\ ledger' = ledger /\ log' = log
  BY DEF Rest, chain
<1>3. at \in Nat /\ ledger \in Nat /\ Len(log) \in Nat
  BY <1>1, IndexerAssumption, Entries DEF ChainTypeOK, IndexerAssumption
<1>4. /\ pc' \in [Readers -> {"down", "idle", "apply"}]
      /\ cursor' \in [Readers -> Nat] /\ end' \in [Readers -> Nat]
      /\ pos' \in [Readers -> Nat] /\ fetched' \in [Readers -> Nat]
  BY <1>1, <1>2, <1>3 DEF IndexTypes
<1>5. /\ pc'[r] = place /\ cursor'[r] = at /\ end'[r] = 0 /\ pos'[r] = 0 /\ fetched'[r] = 0
      /\ \A q \in Readers : q # r => /\ pc'[q] = pc[q] /\ cursor'[q] = cursor[q]
                                     /\ end'[q] = end[q] /\ pos'[q] = pos[q]
                                     /\ fetched'[q] = fetched[q]
  BY <1>1, <1>2 DEF IndexTypes
<1>6. ASSUME NEW q \in Readers PROVE ReaderOK(q)'
  <2>1. CASE q = r
    BY <1>2, <1>3, <1>5, <2>1 DEF ReaderOK
  <2>2. CASE q # r
    <3>1. ReaderOK(q) /\ (q = "backfill" => r = "live") /\ Latest(q)' = Latest(q)
      BY <1>1, <1>2, <2>2 DEF Readers, Latest
    <3> QED BY <1>2, <1>5, <2>2, <3>1 DEF ReaderOK
  <2> QED BY <2>1, <2>2
<1> QED BY <1>4, <1>5, <1>6

\* What every step of a reader starts from.
LEMMA Standing ==
  ASSUME IndexInv
  PROVE /\ IndexTypes /\ LiveReadsSaved /\ AheadJumped /\ \A r \in Readers : ReaderOK(r)
        /\ ledger \in Nat /\ saved \in Nat /\ oldest \in Nat /\ stop \in Nat
        /\ oldest <= ledger /\ stop <= ledger
        /\ Len(log) \in Nat /\ DOMAIN log = 1 .. Len(log)
        /\ \A i \in DOMAIN log : log[i].ledger \in Nat
        /\ \A r \in Readers : cursor[r] \in Nat /\ end[r] \in Nat /\ pos[r] \in Nat /\ fetched[r] \in Nat
        /\ "live" \in Readers /\ "backfill" \in Readers
<1>1. /\ IndexTypes /\ LiveReadsSaved /\ AheadJumped /\ \A r \in Readers : ReaderOK(r)
      /\ ChainTypeOK
  BY DEF IndexInv, ChainInv
<1>2. "live" \in Readers /\ "backfill" \in Readers
  BY DEF Readers
<1>3. /\ Len(log) \in Nat /\ DOMAIN log = 1 .. Len(log)
      /\ \A i \in DOMAIN log : log[i].ledger \in Nat
  BY <1>1, Entries DEF ChainTypeOK
<1>4. /\ ledger \in Nat /\ stop \in 0 .. ledger /\ oldest \in 1 .. ledger
      /\ saved \in 0 .. ledger \cup {StartLedger} /\ StartLedger \in Nat
  BY <1>1, IndexerAssumption DEF IndexTypes, ChainTypeOK, IndexerAssumption
<1>5. /\ saved \in Nat /\ oldest \in Nat /\ stop \in Nat
      /\ oldest <= ledger /\ stop <= ledger
  BY <1>4
<1>6. \A r \in Readers : /\ cursor[r] \in Nat /\ end[r] \in Nat
                         /\ pos[r] \in Nat /\ fetched[r] \in Nat
  BY <1>1 DEF IndexTypes
<1> QED BY <1>1, <1>2, <1>3, <1>4, <1>5, <1>6

LEMMA StartLiveKeepsInv ==
  ASSUME IndexInv, StartLive
  PROVE IndexInv'
<1>1. /\ IndexTypes /\ LiveReadsSaved /\ AheadJumped
      /\ ledger \in Nat /\ saved \in Nat /\ oldest \in Nat /\ oldest <= ledger
      /\ \A i \in DOMAIN log : log[i].ledger \in Nat
  BY Standing
<1>2. PICK at \in 0 .. ledger \union {StartLedger} :
        /\ Rest("live", "idle", at) /\ saved' = at
        /\ at > ledger => at = saved \/ saved = 0
        /\ unread' = unread \union Skipped(saved, at)
  <2> DEFINE start == CASE saved # 0 -> saved
                        [] saved = 0 /\ StartLedger # 0 -> StartLedger
                        [] OTHER -> Max2(ledger - Lookback, 0)
             clamped == Max2(start, oldest)
  <2>1. Lookback \in Nat /\ StartLedger \in Nat
    BY IndexerAssumption DEF IndexerAssumption
  <2>2. /\ start \in 0 .. ledger \union {StartLedger}
        /\ start > ledger => start = saved \/ saved = 0
    BY <1>1, <2>1 DEF Max2, IndexTypes
  <2> HIDE DEF start
  <2>3. /\ clamped \in 0 .. ledger \union {StartLedger}
        /\ clamped > ledger => clamped = saved \/ saved = 0
    BY <1>1, <2>1, <2>2 DEF Max2
  <2>4. /\ Rest("live", "idle", clamped) /\ saved' = clamped
        /\ unread' = unread \union Skipped(saved, clamped)
    BY DEF StartLive, start
  <2> HIDE DEF clamped
  <2> QED BY <2>3, <2>4
<1>3. /\ UNCHANGED <<chain, rows, oldest, stop>> /\ ledger' = ledger /\ log' = log
      /\ pc["live"] = "down"
      /\ torn' = (torn \/ pc["backfill"] # "down")
  BY DEF StartLive, chain
<1>4. /\ pc' \in [Readers -> {"down", "idle", "apply"}]
      /\ cursor' \in [Readers -> Nat] /\ end' \in [Readers -> Nat]
      /\ pos' \in [Readers -> Nat] /\ fetched' \in [Readers -> Nat]
      /\ pc'["live"] = "idle" /\ cursor'["live"] = at
      /\ pc'["backfill"] = pc["backfill"]
      /\ \A q \in Readers : ReaderOK(q)'
  <2>1. stop' \in 0 .. ledger
    BY <1>1, <1>3 DEF IndexTypes
  <2>2. "live" \in Readers /\ "backfill" \in Readers
    BY DEF Readers
  <2> QED BY <1>2, <1>3, <2>1, <2>2, RestKeepsReaders
<1>5. unread \subseteq unread' /\ unread' \subseteq DOMAIN log
      /\ \A i \in DOMAIN log : saved <= log[i].ledger /\ log[i].ledger < at => i \in unread'
  BY <1>1, <1>2 DEF Skipped, IndexTypes
<1>6. IndexTypes'
  BY <1>1, <1>2, <1>3, <1>4, <1>5 DEF IndexTypes
<1>7. ~torn' => ~torn /\ pc["backfill"] = "down"
  BY <1>3
<1>8. LiveReadsSaved'
  BY <1>2, <1>4, <1>7 DEF LiveReadsSaved
<1>9. AheadJumped'
  <2> SUFFICES ASSUME Ahead', NEW i \in DOMAIN log, log[i].ledger < at
               PROVE i \in unread'
    BY <1>2, <1>3 DEF AheadJumped
  <2>1. at > ledger
    BY <1>2, <1>3, <1>4, <1>7 DEF Ahead
  <2>2. CASE saved <= log[i].ledger
    BY <1>5, <2>2
  <2>3. CASE ~(saved <= log[i].ledger)
    <3>1. log[i].ledger < saved /\ saved # 0 /\ at = saved
      BY <1>1, <1>2, <2>1, <2>3
    <3>2. Ahead
      BY <2>1, <3>1 DEF Ahead
    <3> QED BY <1>1, <1>5, <3>1, <3>2 DEF AheadJumped
  <2> QED BY <2>2, <2>3
<1>10. ~torn' => \A i \in DOMAIN log : Covered(i)' => Covered(i) \/ i \in unread'
  <2> SUFFICES ASSUME ~torn', NEW i \in DOMAIN log, Covered(i)'
               PROVE Covered(i) \/ i \in unread'
    OBVIOUS
  <2>1. log[i].ledger < at
    BY <1>3, <1>4, <1>7 DEF Covered, Reached
  <2>2. log[i].ledger < saved => Covered(i)
    BY <1>3, <1>7 DEF Covered
  <2> QED BY <1>1, <1>5, <2>1, <2>2
<1>11. torn => torn'
  BY <1>3
<1> QED BY <1>3, <1>4, <1>5, <1>6, <1>8, <1>9, <1>10, <1>11, MovingKeepsInv

LEMMA StartBackfillKeepsInv ==
  ASSUME IndexInv, StartBackfill
  PROVE IndexInv'
<1>1. /\ IndexTypes /\ LiveReadsSaved /\ AheadJumped
      /\ ledger \in Nat /\ saved \in Nat
      /\ \A i \in DOMAIN log : log[i].ledger \in Nat
  BY Standing
<1>2. PICK start \in 1 .. ledger :
        /\ saved # 0 => start <= saved
        /\ Rest("backfill", "idle", start)
        /\ unread' = IF saved = 0 THEN unread \union Skipped(0, start) ELSE unread
  BY DEF StartBackfill
<1>3. /\ UNCHANGED <<chain, rows, oldest, saved>> /\ ledger' = ledger /\ log' = log
      /\ pc["backfill"] = "down" /\ stop' = ledger
      /\ torn' = (torn \/ pc["live"] # "down")
  BY DEF StartBackfill, chain
<1>4. /\ pc' \in [Readers -> {"down", "idle", "apply"}]
      /\ cursor' \in [Readers -> Nat] /\ end' \in [Readers -> Nat]
      /\ pos' \in [Readers -> Nat] /\ fetched' \in [Readers -> Nat]
      /\ pc'["backfill"] = "idle" /\ cursor'["backfill"] = start
      /\ pc'["live"] = pc["live"]
      /\ \A q \in Readers : ReaderOK(q)'
  <2>1. stop' \in 0 .. ledger /\ start \in 0 .. ledger \union {StartLedger} /\ start <= stop'
    BY <1>1, <1>3
  <2>2. "live" \in Readers /\ "backfill" \in Readers
    BY DEF Readers
  <2> QED BY <1>2, <1>3, <2>1, <2>2, RestKeepsReaders
<1>5. unread \subseteq unread' /\ unread' \subseteq DOMAIN log
      /\ (saved = 0 => \A i \in DOMAIN log : log[i].ledger < start => i \in unread')
  BY <1>1, <1>2 DEF Skipped, IndexTypes
<1>6. IndexTypes'
  BY <1>1, <1>3, <1>4, <1>5 DEF IndexTypes
<1>7. ~torn' => ~torn /\ pc["live"] = "down"
  BY <1>3
<1>8. LiveReadsSaved'
  BY <1>4, <1>7 DEF LiveReadsSaved
<1>9. AheadJumped'
  <2>1. Ahead' => Ahead
    BY <1>3 DEF Ahead
  <2> QED BY <1>1, <1>3, <1>5, <2>1 DEF AheadJumped
<1>10. ~torn' => \A i \in DOMAIN log : Covered(i)' => Covered(i) \/ i \in unread'
  <2> SUFFICES ASSUME ~torn', NEW i \in DOMAIN log, Covered(i)'
               PROVE Covered(i) \/ i \in unread'
    OBVIOUS
  <2>1. log[i].ledger < start
    BY <1>3, <1>4 DEF Covered, Reached
  <2>2. log[i].ledger < saved => Covered(i)
    BY <1>3, <1>7 DEF Covered
  <2> QED BY <1>1, <1>2, <1>5, <2>1, <2>2
<1>11. torn => torn'
  BY <1>3
<1> QED BY <1>3, <1>4, <1>5, <1>6, <1>8, <1>9, <1>10, <1>11, MovingKeepsInv

LEMMA FetchKeepsInv ==
  ASSUME IndexInv, NEW r \in Readers, Fetch(r)
  PROVE IndexInv'
<1>1. /\ IndexTypes /\ LiveReadsSaved /\ AheadJumped /\ \A q \in Readers : ReaderOK(q)
      /\ ledger \in Nat /\ stop \in Nat /\ stop <= ledger
      /\ Len(log) \in Nat /\ DOMAIN log = 1 .. Len(log)
      /\ \A i \in DOMAIN log : log[i].ledger \in Nat
      /\ cursor[r] \in Nat
  BY Standing
<1>2. /\ pc[r] = "idle" /\ cursor[r] < Latest(r)
      /\ end' = [end EXCEPT ![r] = RangeEnd(r)] /\ pc' = [pc EXCEPT ![r] = "apply"]
      /\ UNCHANGED <<chain, cursor, stop, saved, rows, oldest, unread, torn>>
      /\ ledger' = ledger /\ log' = log
  BY DEF Fetch, chain
<1>3. PICK first \in 0 .. Len(log), range \in 0 .. Len(log) :
        /\ Split(first, cursor[r]) /\ Split(range, RangeEnd(r))
        /\ pos' = [pos EXCEPT ![r] = first]
        /\ \E last \in range .. Len(log) :
             fetched' = [fetched EXCEPT ![r] = Min2(last, first + MaxEvents)]
  BY DEF Fetch
<1>4. PICK last \in range .. Len(log) :
        fetched' = [fetched EXCEPT ![r] = Min2(last, first + MaxEvents)]
  BY <1>3
<1>5. /\ Latest(r) \in Nat /\ Latest(r) <= ledger
      /\ RangeEnd(r) \in Nat /\ cursor[r] < RangeEnd(r) /\ RangeEnd(r) <= Latest(r)
  <2>1. Latest(r) \in Nat /\ Latest(r) <= ledger
    BY <1>1 DEF Latest
  <2>2. Span \in Nat \ {0}
    BY IndexerAssumption DEF IndexerAssumption
  <2> QED BY <1>1, <1>2, <2>1, <2>2 DEF RangeEnd, Min2
<1>6. first <= range
  <2>1. CASE first = 0
    BY <2>1
  <2>2. CASE first # 0
    <3>1. first \in DOMAIN log /\ log[first].ledger < cursor[r]
      BY <1>1, <1>3, <2>2 DEF Split
    <3>2. log[first].ledger < RangeEnd(r)
      BY <1>1, <1>5, <3>1
    <3> QED BY <1>3, <3>1, <3>2 DEF Split
  <2> QED BY <2>1, <2>2
<1>7. /\ Min2(last, first + MaxEvents) \in Nat
      /\ first <= Min2(last, first + MaxEvents) /\ Min2(last, first + MaxEvents) <= Len(log)
  BY <1>1, <1>3, <1>4, <1>6, IndexerAssumption DEF IndexerAssumption, Min2
<1>8. /\ pc'[r] = "apply" /\ pos'[r] = first /\ end'[r] = RangeEnd(r)
      /\ fetched'[r] = Min2(last, first + MaxEvents)
      /\ \A q \in Readers : q # r => /\ pc'[q] = pc[q] /\ pos'[q] = pos[q]
                                     /\ end'[q] = end[q] /\ fetched'[q] = fetched[q]
  BY <1>1, <1>2, <1>3, <1>4 DEF IndexTypes
<1>9. IndexTypes'
  BY <1>1, <1>2, <1>3, <1>4, <1>5, <1>7 DEF IndexTypes
<1>10. ASSUME NEW q \in Readers PROVE ReaderOK(q)'
  <2>1. ReaderOK(q) /\ Latest(q)' = Latest(q)
    BY <1>1, <1>2 DEF Latest
  <2>2. CASE q = r
    <3>1. \A i \in DOMAIN log : log[i].ledger < cursor[r] => i <= first
      BY <1>3 DEF Split
    <3> QED BY <1>2, <1>5, <1>7, <1>8, <2>1, <2>2, <3>1 DEF ReaderOK
  <2>3. CASE q # r
    BY <1>2, <1>8, <2>1, <2>3 DEF ReaderOK
  <2> QED BY <2>2, <2>3
<1>11. LiveReadsSaved' /\ AheadJumped'
  <2>1. \A q \in Readers : pc'[q] = "down" <=> pc[q] = "down"
    BY <1>2, <1>8
  <2> QED BY <1>1, <1>2, <2>1 DEF LiveReadsSaved, AheadJumped, Ahead, Readers
<1>12. ~torn' => \A i \in DOMAIN log : Covered(i)' => Covered(i) \/ i \in unread'
  <2> SUFFICES ASSUME ~torn', NEW i \in DOMAIN log, Covered(i)'
               PROVE Covered(i)
    OBVIOUS
  <2>1. Covered(i) = Reached(r, i)
    BY <1>1, <1>2, CoveredByReader
  <2>2. i <= first
    BY <1>1, <1>2, <1>8 DEF Covered, Reached, LiveReadsSaved, Readers
  <2>3. log[i].ledger < cursor[r]
    BY <1>3, <2>2 DEF Split
  <2> QED BY <1>2, <2>1, <2>3 DEF Reached
<1>13. (torn => torn') /\ unread \subseteq unread'
  BY <1>2
<1> QED BY <1>2, <1>9, <1>10, <1>11, <1>12, <1>13, MovingKeepsInv

LEMMA SaveKeepsInv ==
  ASSUME IndexInv, NEW r \in Readers, Save(r)
  PROVE IndexInv'
<1>1. /\ IndexTypes /\ LiveReadsSaved /\ AheadJumped /\ \A q \in Readers : ReaderOK(q)
      /\ ledger \in Nat /\ stop \in Nat /\ stop <= ledger
      /\ \A i \in DOMAIN log : log[i].ledger \in Nat
      /\ end[r] \in Nat /\ pos[r] \in Nat /\ cursor[r] \in Nat
      /\ DOMAIN log = 1 .. Len(log) /\ Len(log) \in Nat
  BY Standing
<1>2. /\ pc[r] = "apply" /\ pos[r] = fetched[r]
      /\ saved' = end[r] /\ Rest(r, "idle", end[r])
      /\ unread' = unread \union {i \in DOMAIN log : i > fetched[r] /\ log[i].ledger < end[r]}
      /\ UNCHANGED <<chain, stop, rows, oldest, torn>> /\ ledger' = ledger /\ log' = log
  BY DEF Save, chain
<1>3. end[r] <= ledger /\ (r = "backfill" => end[r] <= stop)
  BY <1>1, <1>2 DEF ReaderOK, Latest
<1>4. /\ pc' \in [Readers -> {"down", "idle", "apply"}]
      /\ cursor' \in [Readers -> Nat] /\ end' \in [Readers -> Nat]
      /\ pos' \in [Readers -> Nat] /\ fetched' \in [Readers -> Nat]
      /\ pc'[r] = "idle" /\ cursor'[r] = end[r]
      /\ \A q \in Readers : q # r => pc'[q] = pc[q] /\ cursor'[q] = cursor[q]
      /\ \A q \in Readers : ReaderOK(q)'
  <2>1. stop' \in 0 .. ledger /\ end[r] \in 0 .. ledger \union {StartLedger} /\ stop' = stop
        /\ (r = "backfill" => end[r] <= stop')
    BY <1>1, <1>2, <1>3
  <2> QED BY <1>2, <2>1, RestKeepsReaders
<1>5. IndexTypes'
  BY <1>1, <1>2, <1>3, <1>4 DEF IndexTypes
<1>6. \A q \in Readers : pc'[q] = "down" <=> pc[q] = "down"
  BY <1>2, <1>4
<1>7. LiveReadsSaved'
  BY <1>1, <1>2, <1>4, <1>6 DEF LiveReadsSaved, Readers
<1>8. AheadJumped'
  BY <1>1, <1>2, <1>3, <1>6 DEF AheadJumped, Ahead, LiveReadsSaved, Readers
<1>9. ~torn' => \A i \in DOMAIN log : Covered(i)' => Covered(i) \/ i \in unread'
  <2> SUFFICES ASSUME ~torn', NEW i \in DOMAIN log, Covered(i)'
               PROVE Covered(i) \/ i \in unread'
    OBVIOUS
  <2>1. Covered(i) = (i <= pos[r])
    BY <1>1, <1>2, CoveredByReader DEF Reached
  <2>2. log[i].ledger < end[r]
    <3>1. CASE r = "live"
      <4>1. pc["backfill"] = "down" /\ pc'["backfill"] = "down" /\ pc'["live"] = "idle"
        BY <1>1, <1>2, <1>4, <3>1 DEF LiveReadsSaved, Readers
      <4> QED BY <1>2, <1>4, <3>1, <4>1 DEF Covered, Reached
    <3>2. CASE r = "backfill"
      BY <1>2, <1>4, <3>2 DEF Covered, Reached
    <3> QED BY <3>1, <3>2 DEF Readers
  <2>3. log[i].ledger \in Nat /\ i \in Nat /\ pos[r] \in Nat
    BY <1>1
  <2>4. i > fetched[r] => i \in unread'
    BY <1>2, <2>2
  <2>5. CASE i <= pos[r]
    BY <2>1, <2>5
  <2>6. CASE i > pos[r]
    BY <1>2, <2>4, <2>6
  <2> QED BY <2>3, <2>5, <2>6
<1>10. (torn => torn') /\ unread \subseteq unread'
  BY <1>2
<1> QED BY <1>2, <1>4, <1>5, <1>7, <1>8, <1>9, <1>10, MovingKeepsInv

\* A failed round, or a refused range: read again from the cursor or from the
\* oldest ledger there is.
LEMMA ReclampKeepsInv ==
  ASSUME IndexInv, pc["live"] # "down", Reclamp, UNCHANGED <<chain, stop, rows, oldest, torn>>
  PROVE IndexInv'
<1>1. /\ IndexTypes /\ LiveReadsSaved /\ AheadJumped /\ \A q \in Readers : ReaderOK(q)
      /\ ledger \in Nat /\ saved \in Nat /\ oldest \in Nat /\ oldest <= ledger
      /\ \A i \in DOMAIN log : log[i].ledger \in Nat
      /\ cursor["live"] \in Nat
      /\ "live" \in Readers /\ "backfill" \in Readers
  BY Standing
<1>2. ledger' = ledger /\ log' = log
  BY DEF chain
<1>3. PICK at \in 0 .. ledger \union {StartLedger} :
        /\ Rest("live", "idle", at)
        /\ \/ at = cursor["live"] /\ UNCHANGED <<saved, unread>>
           \/ /\ at = oldest /\ saved' = at /\ cursor["live"] < oldest
              /\ unread' = unread \union Skipped(cursor["live"], oldest)
  <2>1. ReaderOK("live")
    BY <1>1
  <2>2. cursor["live"] \in 0 .. ledger \union {StartLedger} /\ oldest \in 0 .. ledger \union {StartLedger}
    BY <1>1, <2>1 DEF ReaderOK
  <2> QED BY <2>2 DEF Reclamp
<1>4. /\ pc' \in [Readers -> {"down", "idle", "apply"}]
      /\ cursor' \in [Readers -> Nat] /\ end' \in [Readers -> Nat]
      /\ pos' \in [Readers -> Nat] /\ fetched' \in [Readers -> Nat]
      /\ pc'["live"] = "idle" /\ cursor'["live"] = at
      /\ pc'["backfill"] = pc["backfill"]
      /\ \A q \in Readers : ReaderOK(q)'
  <2>1. stop' \in 0 .. ledger /\ stop' = stop
    BY <1>1 DEF IndexTypes
  <2> QED BY <1>1, <1>3, <2>1, RestKeepsReaders
<1>5. unread \subseteq unread' /\ unread' \subseteq DOMAIN log
  BY <1>1, <1>3 DEF Skipped, IndexTypes
<1>6. IndexTypes'
  BY <1>1, <1>2, <1>3, <1>4, <1>5 DEF IndexTypes
<1>7. LiveReadsSaved'
  BY <1>1, <1>3, <1>4 DEF LiveReadsSaved
<1>8. AheadJumped'
  <2>1. Ahead' => Ahead /\ saved' = saved
    BY <1>1, <1>2, <1>3, <1>4 DEF Ahead, LiveReadsSaved
  <2> QED BY <1>1, <1>2, <1>5, <2>1 DEF AheadJumped
<1>9. ~torn' => \A i \in DOMAIN log : Covered(i)' => Covered(i) \/ i \in unread'
  <2> SUFFICES ASSUME ~torn', NEW i \in DOMAIN log, Covered(i)'
               PROVE Covered(i) \/ i \in unread'
    OBVIOUS
  <2>1. ~torn /\ pc["backfill"] = "down"
    BY <1>1 DEF LiveReadsSaved
  <2>2. log[i].ledger < at
    BY <1>2, <1>4, <2>1 DEF Covered, Reached
  <2>3. log[i].ledger < cursor["live"] => Covered(i)
    BY <1>1, <2>1 DEF Covered, Reached, ReaderOK
  <2>4. at # cursor["live"] /\ ~(log[i].ledger < cursor["live"]) => i \in unread'
    BY <1>1, <1>3, <2>2 DEF Skipped
  <2> QED BY <2>2, <2>3, <2>4
<1> QED BY <1>4, <1>5, <1>6, <1>7, <1>8, <1>9, MovingKeepsInv

LEMMA CrashKeepsInv ==
  ASSUME IndexInv, Crash
  PROVE IndexInv'
<1>1. /\ IndexTypes /\ LiveReadsSaved /\ AheadJumped /\ \A q \in Readers : ReaderOK(q)
      /\ ledger \in Nat /\ saved \in Nat
      /\ "live" \in Readers /\ "backfill" \in Readers
  BY Standing
<1>2. /\ pc["live"] # "down" /\ Rest("live", "down", 0)
      /\ UNCHANGED <<chain, stop, saved, rows, oldest, unread, torn>>
      /\ ledger' = ledger /\ log' = log
  BY DEF Crash, chain
<1>3. /\ pc' \in [Readers -> {"down", "idle", "apply"}]
      /\ cursor' \in [Readers -> Nat] /\ end' \in [Readers -> Nat]
      /\ pos' \in [Readers -> Nat] /\ fetched' \in [Readers -> Nat]
      /\ pc'["live"] = "down" /\ pc'["backfill"] = pc["backfill"]
      /\ \A q \in Readers : ReaderOK(q)'
  <2>1. stop' \in 0 .. ledger /\ stop' = stop /\ 0 \in 0 .. ledger \union {StartLedger}
    BY <1>1, <1>2 DEF IndexTypes
  <2> QED BY <1>1, <1>2, <2>1, RestKeepsReaders
<1>4. IndexTypes'
  BY <1>1, <1>2, <1>3 DEF IndexTypes
<1>5. LiveReadsSaved' /\ AheadJumped'
  BY <1>1, <1>2, <1>3 DEF LiveReadsSaved, AheadJumped, Ahead
<1>6. ~torn' => \A i \in DOMAIN log : Covered(i)' => Covered(i) \/ i \in unread'
  <2> SUFFICES ASSUME ~torn', NEW i \in DOMAIN log, Covered(i)'
               PROVE Covered(i)
    OBVIOUS
  <2>1. ~torn /\ pc["backfill"] = "down" /\ cursor["live"] = saved
    BY <1>1, <1>2 DEF LiveReadsSaved
  <2>2. log[i].ledger < saved
    BY <1>2, <1>3, <2>1 DEF Covered
  <2> QED BY <1>1, <1>2, <2>1, <2>2 DEF Covered, Reached, ReaderOK
<1>7. (torn => torn') /\ unread \subseteq unread'
  BY <1>2
<1> QED BY <1>2, <1>3, <1>4, <1>5, <1>6, <1>7, MovingKeepsInv

\* A backfill that ran to its end has passed the saved cursor, or the cursor was
\* ahead of the chain.
LEMMA EndBackfillKeepsInv ==
  ASSUME IndexInv, EndBackfill
  PROVE IndexInv'
<1>1. /\ IndexTypes /\ LiveReadsSaved /\ AheadJumped /\ \A q \in Readers : ReaderOK(q)
      /\ ledger \in Nat /\ saved \in Nat /\ stop \in Nat
      /\ cursor["backfill"] \in Nat
      /\ \A i \in DOMAIN log : log[i].ledger \in Nat
      /\ "live" \in Readers /\ "backfill" \in Readers
  BY Standing
<1>2. /\ pc["backfill"] # "down" /\ Rest("backfill", "down", 0) /\ stop' = 0
      /\ torn' = (torn \/ pc["backfill"] # "idle" \/ cursor["backfill"] < stop)
      /\ UNCHANGED <<chain, saved, rows, oldest, unread>>
      /\ ledger' = ledger /\ log' = log
  BY DEF EndBackfill, chain
<1>3. /\ pc' \in [Readers -> {"down", "idle", "apply"}]
      /\ cursor' \in [Readers -> Nat] /\ end' \in [Readers -> Nat]
      /\ pos' \in [Readers -> Nat] /\ fetched' \in [Readers -> Nat]
      /\ pc'["backfill"] = "down" /\ pc'["live"] = pc["live"] /\ cursor'["live"] = cursor["live"]
      /\ \A q \in Readers : ReaderOK(q)'
  <2>1. stop' \in 0 .. ledger /\ 0 \in 0 .. ledger \union {StartLedger}
    BY <1>1, <1>2
  <2> QED BY <1>1, <1>2, <2>1, RestKeepsReaders
<1>4. IndexTypes'
  BY <1>1, <1>2, <1>3 DEF IndexTypes
<1>5. ~torn' => /\ ~torn /\ pc["backfill"] = "idle" /\ stop <= cursor["backfill"]
               /\ pc["live"] = "down"
  <2>1. ~torn' => ~torn /\ pc["backfill"] = "idle" /\ ~(cursor["backfill"] < stop)
    BY <1>2
  <2> QED BY <1>1, <1>2, <2>1 DEF LiveReadsSaved
<1>6. LiveReadsSaved'
  BY <1>3, <1>5 DEF LiveReadsSaved
<1>7. AheadJumped'
  <2>1. Ahead' => Ahead
    BY <1>2, <1>3 DEF Ahead
  <2> QED BY <1>1, <1>2, <2>1 DEF AheadJumped
<1>8. ~torn' => \A i \in DOMAIN log : Covered(i)' => Covered(i) \/ i \in unread'
  <2> SUFFICES ASSUME ~torn', NEW i \in DOMAIN log, Covered(i)'
               PROVE Covered(i) \/ i \in unread
    BY <1>2
  <2>1. log[i].ledger < saved
    BY <1>2, <1>3, <1>5 DEF Covered
  <2>2. CASE saved > stop
    BY <1>1, <1>2, <1>5, <2>1, <2>2 DEF AheadJumped, Ahead
  <2>3. CASE ~(saved > stop)
    <3>1. log[i].ledger < cursor["backfill"]
      BY <1>1, <1>5, <2>1, <2>3
    <3> QED BY <1>5, <3>1 DEF Covered, Reached
  <2> QED BY <2>2, <2>3
<1>9. (torn => torn') /\ unread \subseteq unread'
  BY <1>2
<1> QED BY <1>2, <1>3, <1>4, <1>6, <1>7, <1>8, <1>9, MovingKeepsInv

\* Old events are dropped, or nothing happens.
LEMMA PruneKeepsInv ==
  ASSUME IndexInv, Prune \/ UNCHANGED vars
  PROVE IndexInv'
<1>1. /\ IndexTypes /\ LiveReadsSaved /\ AheadJumped /\ \A q \in Readers : ReaderOK(q)
      /\ oldest \in Nat /\ ledger \in Nat
  BY Standing
<1>2. /\ UNCHANGED <<chain, pc, cursor, end, pos, fetched, stop, saved, rows, unread, torn>>
      /\ oldest' = oldest \/ (oldest' = oldest + 1 /\ oldest < ledger)
      /\ ledger' = ledger /\ log' = log
  BY DEF Prune, vars, indexer, reader, chain
<1>3. oldest' \in 1 .. ledger
  BY <1>1, <1>2 DEF IndexTypes
<1>4. IndexTypes'
  BY <1>1, <1>2, <1>3 DEF IndexTypes
<1>5. \A q \in Readers : ReaderOK(q)'
  BY <1>1, <1>2 DEF ReaderOK, Latest
<1>6. LiveReadsSaved' /\ AheadJumped'
  BY <1>1, <1>2 DEF LiveReadsSaved, AheadJumped, Ahead
<1>7. \A i \in DOMAIN log : Covered(i)' => Covered(i)
  BY <1>2 DEF Covered, Reached
<1> QED BY <1>2, <1>4, <1>5, <1>6, <1>7, MovingKeepsInv

-----------------------------------------------------------------------------
(***************************************************************************)
(* The theorems                                                            *)
(***************************************************************************)

LEMMA InitIndex == Init => IndexInv
<1> SUFFICES ASSUME Init PROVE IndexInv
  OBVIOUS
<1>1. ChainInit
  BY DEF Init
<1>2. ChainInv
  BY <1>1, ChainInitInv
<1>3. /\ ledger = 1 /\ status = [k \in Keys |-> "Absent"] /\ log = <<>> /\ DOMAIN log = {}
      /\ Len(log) = 0
  BY <1>1 DEF ChainInit
<1>4. LogTellsRows
  BY <1>3 DEF LogTellsRows, LastTells, OthersFollow, ClosingIsLast, RefundsKeepDue
<1>5. /\ pc = [r \in Readers |-> "down"] /\ cursor = [r \in Readers |-> 0]
      /\ end = [r \in Readers |-> 0] /\ pos = [r \in Readers |-> 0]
      /\ fetched = [r \in Readers |-> 0] /\ stop = 0 /\ saved = 0
      /\ rows = [k \in Keys |-> NoRow] /\ oldest = 1 /\ unread = {}
  BY DEF Init
<1>6. IndexTypes
  BY <1>3, <1>5 DEF IndexTypes
<1>7. \A r \in Readers : ReaderOK(r)
  BY <1>3, <1>5 DEF ReaderOK
<1>8. LiveReadsSaved /\ AheadJumped /\ ClosedRowsTold /\ RowsFollow
  BY <1>3, <1>5 DEF LiveReadsSaved, AheadJumped, ClosedRowsTold, RowsFollow, RowFollows, Readers
<1> QED BY <1>2, <1>4, <1>6, <1>7, <1>8 DEF IndexInv

LEMMA StepIndex == IndexInv /\ [Next]_vars => IndexInv'
<1> SUFFICES ASSUME IndexInv, [Next]_vars PROVE IndexInv'
  OBVIOUS
<1>1. CASE Refused \/ IngestFails
  <2>1. pc["live"] # "down" /\ Reclamp /\ UNCHANGED <<chain, stop, rows, oldest, torn>>
    BY <1>1 DEF Refused, IngestFails
  <2> QED BY <2>1, ReclampKeepsInv
<1> QED BY <1>1, PublicationKeepsInv, StartLiveKeepsInv, StartBackfillKeepsInv, FetchKeepsInv,
           ApplyKeepsInv, SaveKeepsInv, CrashKeepsInv, EndBackfillKeepsInv, PruneKeepsInv
        DEF Next

\* The inductive invariant holds in every reachable state.
LEMMA SpecIndex == Spec => []IndexInv
BY InitIndex, StepIndex, PTL DEF Spec

\* The cursors, the answers and the rows keep their types and their bounds: no
\* reader reads past what the chain has closed, or applies more than it fetched
\* (run, ingest_range and backfill of crates/analytics-indexer/src/ingest.rs).
THEOREM IndexTypeCorrect == Spec => []TypeOK
<1>1. IndexInv => TypeOK
  <2> SUFFICES ASSUME IndexInv PROVE TypeOK
    OBVIOUS
  <2>1. ASSUME NEW r \in Readers
        PROVE /\ pc[r] \in {"down", "idle", "apply"}
              /\ cursor[r] \in 0 .. ledger \union {StartLedger} /\ end[r] \in 0 .. ledger
              /\ pos[r] <= fetched[r] /\ fetched[r] \in 0 .. Len(log)
              /\ pc[r] = "apply" => cursor[r] < end[r]
    <3>1. /\ ReaderOK(r) /\ pc[r] \in {"down", "idle", "apply"}
          /\ ledger \in Nat /\ stop \in Nat /\ stop <= ledger /\ Len(log) \in Nat
          /\ end[r] \in Nat /\ fetched[r] \in Nat
      BY Standing DEF IndexTypes
    <3> QED BY <3>1 DEF ReaderOK, Latest
  <2> QED BY <2>1 DEF IndexInv, IndexTypes, TypeOK
<1> QED BY <1>1, SpecIndex, PTL

\* A row that is not open tells for good how its order ended on chain and with
\* what was left, whatever was read twice, skipped, cut or read by two processes
\* (apply_filled_for and apply_closed_for of crates/analytics-indexer/src/store.rs).
THEOREM ClosedRowsStayFinal == Spec => []ClosedRowsAreFinal
<1>1. IndexInv => ClosedRowsAreFinal
  <2> SUFFICES ASSUME IndexInv, NEW k \in Keys, rows[k] # NoRow, rows[k].status # "open"
               PROVE rows[k].status = RowStatus[status[k]] /\ rows[k].remaining = remaining[k]
    BY DEF ClosedRowsAreFinal
  <2>1. PICK i \in DOMAIN log : /\ log[i].key = k /\ Closing(log[i])
                                /\ rows[k].status = RowAfter(log[i]).status
                                /\ rows[k].remaining = log[i].remaining
    BY DEF IndexInv, ClosedRowsTold
  <2>2. status[k] # "Absent"
    BY <2>1 DEF IndexInv, ChainInv, LogTellsStatus
  <2>3. PICK l \in DOMAIN log : /\ LastOf(k, l) /\ status[k] = StatusAfter(log[l])
                                /\ remaining[k] = log[l].remaining
    BY <2>2 DEF IndexInv, LogTellsRows, LastTells
  <2>4. i \in Nat /\ l \in Nat
    BY Standing
  <2>5. l = i
    BY <2>1, <2>3, <2>4 DEF IndexInv, LogTellsRows, ClosingIsLast, LastOf
  <2> QED BY <2>1, <2>3, <2>5 DEF RowAfter
<1> QED BY <1>1, SpecIndex, PTL

\* Once the live indexer has read every published event, each order none of whose
\* events were jumped over has exactly the row its state on chain calls for, even
\* though ranges were applied twice, or by a backfill that ran to its end while
\* the live indexer was down (run and backfill of
\* crates/analytics-indexer/src/ingest.rs).
THEOREM CaughtUpIsExact == Spec => []CaughtUpRowsExact
<1>1. IndexInv => CaughtUpRowsExact
  <2> SUFFICES ASSUME IndexInv, ~torn, pc["live"] = "idle", pc["backfill"] = "down",
                      \A i \in DOMAIN log : log[i].ledger < cursor["live"],
                      NEW k \in Keys, Unmissed(k)
               PROVE rows[k] = IF status[k] = "Absent" THEN NoRow ELSE Current(k)
    BY DEF CaughtUpRowsExact
  <2>1. \A i \in DOMAIN log : Covered(i)
    BY DEF Covered, Reached
  <2>2. RowFollows(k)
    BY DEF IndexInv, RowsFollow
  <2>3. CASE status[k] = "Absent"
    <3>1. \A i \in DOMAIN log : log[i].key # k
      BY <2>3 DEF IndexInv, ChainInv, LogTellsStatus
    <3> QED BY <2>2, <2>3, <3>1 DEF RowFollows, Shows
  <2>4. CASE status[k] # "Absent"
    <3>1. PICK l \in DOMAIN log : /\ LastOf(k, l) /\ status[k] = StatusAfter(log[l])
                                  /\ remaining[k] = log[l].remaining /\ due[k] = log[l].due
      BY <2>4 DEF IndexInv, LogTellsRows, LastTells
    <3>2. PICK j \in DOMAIN log : l <= j /\ Shows(k, j)
      BY <2>1, <2>2, <3>1 DEF RowFollows, LastOf
    <3>3. l \in Nat /\ j \in Nat
      BY Standing
    <3>4. j = l
      BY <3>1, <3>2, <3>3 DEF LastOf, Shows
    <3> QED BY <2>4, <3>1, <3>2, <3>4 DEF Shows, RowAfter, Current
  <2> QED BY <2>3, <2>4
<1> QED BY <1>1, SpecIndex, PTL

=============================================================================
