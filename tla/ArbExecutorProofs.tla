------------------------- MODULE ArbExecutorProofs -------------------------
(***************************************************************************)
(* Proofs about the arbitrage executor, for any number of attempts, routes *)
(* and callers.                                                            *)
(*                                                                         *)
(* ExecutorInv says why a late poll or lookup cannot do harm: whoever      *)
(* carries a hash has its row in the ledger, and whoever carries a result  *)
(* has the result the chain holds for good.                                *)
(***************************************************************************)
EXTENDS ArbExecutor, TLAPS

\* An attempt, a poll and the recovery worker only carry recorded hashes, and
\* an attempt that is being polled builds no other transaction.
Recorded ==
  /\ \A a \in Attempts :
       pc[a] \in {"recorded", "answered"} \/ poll[a] # "off" => rows[tx[a]] # "none"
  /\ \A a \in Attempts : poll[a] # "off" => pc[a] = "done"
  /\ looking # NoTx => rows[looking] # "none"

\* A result that waits to be applied is one the transaction landed with.
ResultsAreReal ==
  /\ \A a \in Attempts : poll[a] = "found" => landed[tx[a]] # "none"
  /\ looking # NoTx /\ answer = "found" => landed[looking] # "none"
  /\ \A h \in Tx : rows[h] \in {"SUCCESS", "FAILED"} => landed[h] = rows[h]

ExecutorInv ==
  TypeOK /\ Recorded /\ ResultsAreReal /\ NothingUnrecorded /\ AccountedOnce

-----------------------------------------------------------------------------

LEMMA InitInv == Init => ExecutorInv
BY ExecutorAssumption DEF Init, ExecutorInv, TypeOK, Recorded, ResultsAreReal, NothingUnrecorded, AccountedOnce, Pending, Final

\* What apply_settlement does with a result the chain holds.
LEMMA Settling ==
  ASSUME TypeOK, NEW h \in Tx, landed[h] # "none", Settle(h)
  PROVE  /\ rows' \in [Tx -> Pending \union Final \union {"none"}]
         /\ accounted' \in [Tx -> Nat]
         /\ \A g \in Tx : g # h => rows'[g] = rows[g] /\ accounted'[g] = accounted[g]
         /\ \/ rows'[h] = rows[h] /\ accounted'[h] = accounted[h]
            \/ /\ rows[h] \in Pending /\ rows'[h] = landed[h]
               /\ accounted'[h] = accounted[h] + 1
<1>1. landed[h] \in Final
  BY DEF TypeOK, Final
<1>2. CASE rows[h] \notin Pending
  BY <1>2 DEF Settle, TypeOK
<1>3. CASE rows[h] \in Pending
  <2>1. rows' = [rows EXCEPT ![h] = landed[h]]
    BY <1>3 DEF Settle
  <2>2. accounted' = [accounted EXCEPT ![h] = accounted[h] + 1]
    BY <1>3 DEF Settle
  <2>3. rows \in [Tx -> Pending \union Final \union {"none"}] /\ accounted \in [Tx -> Nat]
    BY DEF TypeOK
  <2> QED BY ONLY <1>1, <1>3, <2>1, <2>2, <2>3, h \in Tx
<1> QED BY <1>2, <1>3

LEMMA TypesStay == ASSUME ExecutorInv, [Next]_vars PROVE TypeOK'
<1> USE ExecutorAssumption DEF ExecutorInv, TypeOK
<1>1. ASSUME NEW a \in Attempts, NEW r \in Routes, Reserve(a, r) PROVE TypeOK'
  BY <1>1 DEF Reserve, network
<1>2. ASSUME NEW a \in Attempts, NEW c \in Callers, Acquire(a, c) PROVE TypeOK'
  BY <1>2 DEF Acquire, network
<1>3. ASSUME NEW a \in Attempts, Prepare(a) PROVE TypeOK'
  <2>1. PICK b \in Attempts :
          tx' = [tx EXCEPT ![a] = [caller |-> caller[a], seq |-> sequence[caller[a]] + 1,
                                   route |-> route[a], bytes |-> b]]
    BY <1>3 DEF Prepare
  <2>2. sequence[caller[a]] + 1 \in 1 .. MaxSeq
    <3>1. sequence[caller[a]] < MaxSeq
      BY <1>3 DEF Prepare
    <3>2. caller[a] \in Callers /\ sequence \in [Callers -> 0 .. MaxSeq] /\ MaxSeq \in Nat
      OBVIOUS
    <3> QED BY ONLY <3>1, <3>2
  <2>3. tx'[a] \in Tx
    <3>1. tx'[a] = [caller |-> caller[a], seq |-> sequence[caller[a]] + 1,
                    route |-> route[a], bytes |-> b]
      BY <2>1
    <3>2. caller[a] \in Callers /\ route[a] \in Routes
      OBVIOUS
    <3> QED BY ONLY <2>2, <3>1, <3>2, b \in Attempts DEF Tx
  <2>4. \A b2 \in Attempts : b2 # a => tx'[b2] = tx[b2]
    BY <2>1
  <2>5. tx' \in [Attempts -> Tx \union {NoTx}]
    BY <2>1, <2>3
  <2> QED BY <1>3, <2>3, <2>4, <2>5 DEF Prepare, network
<1>4. ASSUME NEW a \in Attempts, Drop(a) PROVE TypeOK'
  BY <1>4 DEF Drop, Release, network
<1>5. ASSUME NEW a \in Attempts, Record(a) PROVE TypeOK'
  BY <1>5 DEF Record, network, Pending
<1>6. ASSUME NEW a \in Attempts, Broadcast(a) PROVE TypeOK'
  <2>1. tx[a] \in Tx
    BY <1>6 DEF Broadcast
  <2>2. mempool' \subseteq Tx
    <3>1. mempool' = mempool \union {tx[a]} \/ mempool' = mempool
      BY <1>6 DEF Broadcast
    <3>2. mempool \subseteq Tx
      OBVIOUS
    <3> QED BY ONLY <2>1, <3>1, <3>2
  <2>3. reply' \in [Attempts -> {"none", "ok", "refused", "overloaded", "uncertain"}]
    BY <1>6 DEF Broadcast
  <2> QED BY <1>6, <2>2, <2>3 DEF Broadcast
<1>7. ASSUME NEW a \in Attempts, Rejected(a) PROVE TypeOK'
  <2>1. tx[a] \in Tx
    BY <1>7 DEF Rejected
  <2>2. rows' \in [Tx -> Pending \union Final \union {"none"}]
    BY <1>7, <2>1 DEF Rejected, Final
  <2>3. cooling' \subseteq Callers
    <3>1. cooling' = cooling \union {caller[a]} \/ cooling' = cooling
      BY <1>7 DEF Rejected
    <3>2. cooling \subseteq Callers /\ caller[a] \in Callers
      OBVIOUS
    <3> QED BY ONLY <3>1, <3>2
  <2>4. /\ pc' = [pc EXCEPT ![a] = "done"] /\ paths' = [paths EXCEPT ![route[a]] = "free"]
        /\ UNCHANGED <<route, caller, tx, reply, poll, looking, answer, accounted>>
        /\ UNCHANGED <<sequence, mempool, landed, age>>
    BY <1>7 DEF Rejected, Release, network
  <2>5. route[a] \in Routes
    OBVIOUS
  <2>6. paths' \in [Routes -> {"free", "reserved", "submitted"}]
    BY <2>4, <2>5
  <2>7. \A b \in Attempts :
          pc'[b] \in {"prepared", "recorded", "answered"} \/ poll'[b] # "off" => tx'[b] \in Tx
    BY <2>4
  <2> QED BY <2>2, <2>3, <2>4, <2>6, <2>7
<1>8. ASSUME NEW a \in Attempts, Submitted(a) PROVE TypeOK'
  <2>1. tx[a] \in Tx
    BY <1>8 DEF Submitted
  <2>2. poll' \in [Attempts -> {"off", "waiting", "found"}]
    BY <1>8 DEF Submitted
  <2>3. cooling' \subseteq Callers
    <3>1. cooling' = cooling \union {caller[a]}
      BY <1>8 DEF Submitted
    <3>2. cooling \subseteq Callers /\ caller[a] \in Callers
      OBVIOUS
    <3> QED BY ONLY <3>1, <3>2
  <2>4. \A b \in Attempts :
          pc'[b] \in {"prepared", "recorded", "answered"} \/ poll'[b] # "off" => tx'[b] \in Tx
    BY <1>8, <2>1 DEF Submitted
  <2>5. /\ pc' \in [Attempts -> {"new", "reserved", "preparing", "prepared", "recorded",
                                "answered", "done"}]
        /\ paths' \in [Routes -> {"free", "reserved", "submitted"}]
    BY <1>8 DEF Submitted
  <2> QED BY <1>8, <2>2, <2>3, <2>4, <2>5 DEF Submitted, network
<1>9. ASSUME NEW a \in Attempts, PollFinds(a) PROVE TypeOK'
  BY <1>9 DEF PollFinds, network
<1>10. ASSUME NEW a \in Attempts, PollSettles(a) PROVE TypeOK'
  <2>1. tx[a] \in Tx /\ landed[tx[a]] # "none"
    BY <1>10 DEF PollSettles, ResultsAreReal
  <2>2. /\ rows' \in [Tx -> Pending \union Final \union {"none"}]
        /\ accounted' \in [Tx -> Nat]
    BY <1>10, <2>1, Settling DEF PollSettles
  <2> QED BY <1>10, <2>2 DEF PollSettles, network
<1>11. ASSUME NEW a \in Attempts, PollTimesOut(a) PROVE TypeOK'
  BY <1>11 DEF PollTimesOut, network, Pending
<1>12. ASSUME NEW r \in Routes, Prune(r) PROVE TypeOK'
  BY <1>12 DEF Prune, tasks, network
<1>13. ASSUME NEW c \in Callers, Cooled(c) PROVE TypeOK'
  BY <1>13 DEF Cooled, tasks, network
<1>14. ASSUME NEW h \in Tx, NEW found \in {Known(h), "failed request"}, Look(h, found) PROVE TypeOK'
  BY <1>14 DEF Look, tasks, network, Known
<1>15. ASSUME NEW h \in Tx, Land(h) PROVE TypeOK'
  <2>1. h.caller \in Callers /\ h.seq \in 0 .. MaxSeq
    <3>1. h \in [caller : Callers, seq : 1 .. MaxSeq, route : Routes, bytes : Attempts]
      BY DEF Tx
    <3>2. h.caller \in Callers /\ h.seq \in 1 .. MaxSeq
      BY ONLY <3>1
    <3>3. MaxSeq \in Nat
      OBVIOUS
    <3> QED BY ONLY <3>2, <3>3
  <2>2. sequence' \in [Callers -> 0 .. MaxSeq]
    BY <1>15, <2>1 DEF Land
  <2>3. landed' \in [Tx -> {"none", "SUCCESS", "FAILED"}]
    BY <1>15 DEF Land
  <2> QED BY <1>15, <2>2, <2>3 DEF Land, memory, tasks
<1>16. ASSUME NEW h \in Tx, Evict(h) PROVE TypeOK'
  BY <1>16 DEF Evict, memory, tasks
<1>17. ASSUME NEW h \in Tx, Forget(h) PROVE TypeOK'
  BY ZenonT(40), <1>17 DEF Forget, memory, tasks
<1>18. CASE Reconcile
  <2>1. looking \in Tx
    BY <1>18 DEF Reconcile
  <2>2. CASE answer = "found"
    <3>1. landed[looking] # "none" /\ Settle(looking)
      BY <1>18, <2>2 DEF Reconcile, ResultsAreReal
    <3> QED BY <1>18, <2>1, <3>1, Settling DEF Reconcile, tasks, network
  <2>3. CASE answer # "found"
    <3>1. rows' \in [Tx -> Pending \union Final \union {"none"}]
      BY ZenonT(40), <1>18, <2>1, <2>3 DEF Reconcile, Deferred, Pending
    <3> QED BY <1>18, <2>3, <3>1 DEF Reconcile, tasks, network
  <2> QED BY <2>2, <2>3
<1>19. CASE Crash
  BY <1>19 DEF Crash, network
<1>20. CASE UNCHANGED vars
  BY <1>20 DEF vars, memory, tasks, network
<1> QED
  BY <1>1, <1>2, <1>3, <1>4, <1>5, <1>6, <1>7, <1>8, <1>9, <1>10, <1>11, <1>12, <1>13,
     <1>14, <1>15, <1>16, <1>17, <1>18, <1>19, <1>20 DEF Next, Attempt

\* What a step can do to one row: nothing, a status that is not a result, or
\* the result the chain holds, which is then accounted for.
LEMMA RowSteps ==
  ASSUME ExecutorInv, [Next]_vars, NEW h \in Tx
  PROVE  \/ rows'[h] = rows[h] /\ accounted'[h] \in {0, accounted[h]}
         \/ /\ rows[h] \in Pending \union {"none"} /\ rows'[h] \in Pending \union {"REJECTED"}
            /\ accounted'[h] = accounted[h]
         \/ /\ rows[h] \in Pending /\ landed[h] # "none" /\ rows'[h] = landed[h]
            /\ accounted'[h] = accounted[h] + 1
<1> USE DEF ExecutorInv
<1> DEFINE P == \/ rows'[h] = rows[h] /\ accounted'[h] \in {0, accounted[h]}
                \/ /\ rows[h] \in Pending \union {"none"}
                   /\ rows'[h] \in Pending \union {"REJECTED"} /\ accounted'[h] = accounted[h]
                \/ /\ rows[h] \in Pending /\ landed[h] # "none" /\ rows'[h] = landed[h]
                   /\ accounted'[h] = accounted[h] + 1
<1>0. rows \in [Tx -> Pending \union Final \union {"none"}] /\ accounted \in [Tx -> Nat]
  BY DEF TypeOK
<1>1. ASSUME NEW a \in Attempts, Record(a) PROVE P
  <2>1. rows' = [rows EXCEPT ![tx[a]] = IF rows[tx[a]] = "none" THEN "SUBMITTED" ELSE rows[tx[a]]]
    BY <1>1 DEF Record
  <2>2. accounted' = accounted
    BY <1>1 DEF Record
  <2> QED BY ONLY <1>0, <2>1, <2>2, h \in Tx DEF Pending, Final
<1>2. ASSUME NEW a \in Attempts, Rejected(a) PROVE P
  <2>1. rows' = [rows EXCEPT ![tx[a]] = IF rows[tx[a]] \in Pending THEN "REJECTED" ELSE rows[tx[a]]]
    BY <1>2 DEF Rejected
  <2>2. accounted' = accounted
    BY <1>2 DEF Rejected
  <2> QED BY ONLY <1>0, <2>1, <2>2, h \in Tx DEF Pending, Final
<1>3. ASSUME NEW a \in Attempts, PollSettles(a) PROVE P
  <2>1. tx[a] \in Tx /\ landed[tx[a]] # "none" /\ Settle(tx[a])
    BY <1>3 DEF PollSettles, ResultsAreReal, TypeOK
  <2> QED BY <2>1, Settling
<1>4. ASSUME NEW a \in Attempts, PollTimesOut(a) PROVE P
  <2>1. rows' = [rows EXCEPT ![tx[a]] = IF rows[tx[a]] \in Pending THEN "UNKNOWN" ELSE rows[tx[a]]]
    BY <1>4 DEF PollTimesOut
  <2>2. accounted' = accounted
    BY <1>4 DEF PollTimesOut
  <2> QED BY ONLY <1>0, <2>1, <2>2, h \in Tx DEF Pending, Final
<1>5. ASSUME Reconcile PROVE P
  <2>1. looking \in Tx
    BY <1>5 DEF Reconcile, TypeOK
  <2>2. CASE answer = "found"
    <3>1. landed[looking] # "none" /\ Settle(looking)
      BY <1>5, <2>2 DEF Reconcile, ResultsAreReal
    <3> QED BY <2>1, <3>1, Settling
  <2>3. CASE answer # "found"
    <3>1. rows' = [rows EXCEPT ![looking] = IF rows[looking] \in Pending THEN Deferred
                                                                     ELSE rows[looking]]
      BY <1>5, <2>3 DEF Reconcile
    <3>2. accounted' = accounted
      BY <1>5, <2>3 DEF Reconcile
    <3>3. Deferred \in Pending
      BY DEF Deferred, Pending
    <3> QED BY ONLY <1>0, <2>1, <3>1, <3>2, <3>3, h \in Tx
  <2> QED BY <2>2, <2>3
<1>6. ASSUME Crash PROVE P
  BY <1>6 DEF Crash
<1>7. \/ UNCHANGED <<rows, accounted>>
      \/ Reconcile
      \/ Crash
      \/ \E a \in Attempts : Record(a) \/ Rejected(a) \/ PollSettles(a) \/ PollTimesOut(a)
  BY DEF Next, Attempt, vars, memory, Reserve, Acquire, Prepare, Drop, Broadcast, Submitted,
     PollFinds, Prune, Cooled, Look, Land, Evict, Forget
<1>8. ASSUME UNCHANGED <<rows, accounted>> PROVE P
  BY <1>8
<1> HIDE DEF P
<1>9. P
  BY <1>1, <1>2, <1>3, <1>4, <1>5, <1>6, <1>7, <1>8
<1> QED BY <1>9 DEF P

\* A recorded hash stays recorded, a final row and a result never change.
LEMMA LedgerGrows ==
  ASSUME ExecutorInv, [Next]_vars, NEW h \in Tx
  PROVE  /\ rows[h] # "none" => rows'[h] # "none"
         /\ rows[h] \in Final => rows'[h] = rows[h]
         /\ landed[h] # "none" => landed'[h] = landed[h]
<1>1. \/ landed' = landed
      \/ \E g \in Tx : Land(g)
  BY DEF Next, Attempt, vars, network, Reserve, Acquire, Prepare, Drop, Record, Broadcast,
     Rejected, Submitted, PollFinds, PollSettles, PollTimesOut, Prune, Cooled, Look,
     Evict, Forget, Reconcile, Crash
<1>2. landed[h] # "none" => landed'[h] = landed[h]
  BY ZenonT(40), <1>1 DEF Land, Taken, TypeOK, ExecutorInv
<1> QED BY <1>2, RowSteps DEF Pending, Final

\* What a step can do to one attempt.
LEMMA OwnSteps ==
  ASSUME TypeOK, [Next]_vars, NEW b \in Attempts
  PROVE  \/ Record(b) /\ poll'[b] = poll[b]
         \/ pc'[b] = pc[b] /\ tx'[b] = tx[b] /\ (poll'[b] = poll[b] \/ poll[b] # "off")
         \/ pc[b] = "recorded" /\ pc'[b] = "answered" /\ tx'[b] = tx[b] /\ poll'[b] = poll[b]
         \/ pc[b] # "done" /\ pc'[b] \notin {"recorded", "answered"} /\ poll'[b] = poll[b]
         \/ pc[b] = "answered" /\ pc'[b] = "done" /\ tx'[b] = tx[b]
         \/ pc'[b] \notin {"recorded", "answered"} /\ poll'[b] = "off"
<1> DEFINE P == \/ Record(b) /\ poll'[b] = poll[b]
                \/ pc'[b] = pc[b] /\ tx'[b] = tx[b] /\ (poll'[b] = poll[b] \/ poll[b] # "off")
                \/ pc[b] = "recorded" /\ pc'[b] = "answered" /\ tx'[b] = tx[b] /\ poll'[b] = poll[b]
                \/ pc[b] # "done" /\ pc'[b] \notin {"recorded", "answered"} /\ poll'[b] = poll[b]
                \/ pc[b] = "answered" /\ pc'[b] = "done" /\ tx'[b] = tx[b]
                \/ pc'[b] \notin {"recorded", "answered"} /\ poll'[b] = "off"
<1>1. ASSUME NEW a \in Attempts, NEW r \in Routes, Reserve(a, r) PROVE P
  BY <1>1 DEF Reserve, TypeOK
<1>2. ASSUME NEW a \in Attempts, NEW c \in Callers, Acquire(a, c) PROVE P
  BY <1>2 DEF Acquire, TypeOK
<1>3. ASSUME NEW a \in Attempts, Prepare(a) PROVE P
  BY <1>3 DEF Prepare, TypeOK
<1>4. ASSUME NEW a \in Attempts, Drop(a) PROVE P
  BY <1>4 DEF Drop, Release, TypeOK
<1>5. ASSUME NEW a \in Attempts, Record(a) PROVE P
  BY <1>5 DEF Record, TypeOK
<1>6. ASSUME NEW a \in Attempts, Broadcast(a) PROVE P
  <2>1. pc[a] = "recorded" /\ pc' = [pc EXCEPT ![a] = "answered"] /\ UNCHANGED <<tx, poll>>
    BY <1>6 DEF Broadcast
  <2> QED BY <2>1 DEF TypeOK
<1>7. ASSUME NEW a \in Attempts, Rejected(a) PROVE P
  BY <1>7 DEF Rejected, Release, TypeOK
<1>8. ASSUME NEW a \in Attempts, Submitted(a) PROVE P
  BY <1>8 DEF Submitted, TypeOK
<1>9. ASSUME NEW a \in Attempts, PollFinds(a) \/ PollSettles(a) \/ PollTimesOut(a) PROVE P
  BY ZenonT(40), <1>9 DEF PollFinds, PollSettles, PollTimesOut, TypeOK
<1>10. ASSUME UNCHANGED <<pc, tx, poll>> PROVE P
  BY <1>10
<1>11. ASSUME Crash PROVE P
  BY <1>11 DEF Crash, TypeOK
<1>12. \/ \E a \in Attempts : Attempt(a)
       \/ UNCHANGED <<pc, tx, poll>>
       \/ Crash
  BY DEF Next, vars, memory, tasks, Prune, Cooled, Look, Land, Evict, Forget, Reconcile
<1> HIDE DEF P
<1>13. ASSUME NEW a \in Attempts, Attempt(a) PROVE P
  BY <1>1, <1>2, <1>3, <1>4, <1>5, <1>6, <1>7, <1>8, <1>9, <1>13 DEF Attempt
<1>14. P
  BY <1>10, <1>11, <1>12, <1>13
<1> QED BY <1>14 DEF P

LEMMA RecordedStays == ASSUME ExecutorInv, [Next]_vars PROVE Recorded'
<1> USE DEF ExecutorInv, Recorded
<1> DEFINE Carries(b) == pc[b] \in {"recorded", "answered"} \/ poll[b] # "off"
<1>1. \A h \in Tx : rows[h] # "none" => rows'[h] # "none"
  BY LedgerGrows
<1>2. \A b \in Attempts : Carries(b) => tx[b] \in Tx
  BY DEF TypeOK
<1>3. ASSUME NEW b \in Attempts, Carries(b)', tx'[b] = tx[b], Carries(b)
      PROVE  rows'[tx'[b]] # "none"
  BY <1>1, <1>2, <1>3
<1>4. ASSUME NEW b \in Attempts PROVE Record(b) \/ (Carries(b)' => Carries(b) /\ tx'[b] = tx[b])
  BY OwnSteps
<1>5. ASSUME NEW b \in Attempts, Record(b) PROVE rows'[tx'[b]] # "none"
  <2>1. tx[b] \in Tx /\ tx' = tx
    BY <1>5 DEF Record, TypeOK
  <2>2. rows' = [rows EXCEPT ![tx[b]] = IF rows[tx[b]] = "none" THEN "SUBMITTED" ELSE rows[tx[b]]]
    BY <1>5 DEF Record
  <2>3. rows \in [Tx -> Pending \union Final \union {"none"}]
    BY DEF TypeOK
  <2> QED BY ONLY <2>1, <2>2, <2>3
<1>6. ASSUME NEW b \in Attempts, Carries(b)' PROVE rows'[tx'[b]] # "none"
  BY <1>3, <1>4, <1>5, <1>6
<1>7. ASSUME NEW b \in Attempts, poll'[b] # "off" PROVE pc'[b] = "done"
  BY <1>7, OwnSteps DEF Record
<1>8. looking' # NoTx => \/ looking' = looking
                         \/ looking' \in Tx /\ rows[looking'] \in Pending
  BY DEF Next, Attempt, vars, memory, tasks, Reserve, Acquire, Prepare, Drop,
     Record, Broadcast, Rejected, Submitted, PollFinds, PollSettles, PollTimesOut,
     Prune, Cooled, Look, Due, Land, Evict, Forget, Reconcile, Crash
<1>9. looking' # NoTx => rows'[looking'] # "none"
  BY <1>1, <1>8 DEF TypeOK, Pending
<1> QED BY <1>6, <1>7, <1>9
LEMMA ResultsStayReal == ASSUME ExecutorInv, [Next]_vars PROVE ResultsAreReal'
<1> USE DEF ExecutorInv, ResultsAreReal
<1>1. \A h \in Tx : landed[h] # "none" => landed'[h] = landed[h]
  BY LedgerGrows
<1>2. ASSUME NEW b \in Attempts, poll'[b] = "found" PROVE landed'[tx'[b]] # "none"
  <2>1. \/ poll' = poll
        \/ \E a \in Attempts : Submitted(a) \/ PollFinds(a) \/ PollSettles(a) \/ PollTimesOut(a)
        \/ Crash
    BY DEF Next, Attempt, vars, memory, tasks, Reserve, Acquire, Prepare, Drop, Record, Broadcast,
       Rejected, Prune, Cooled, Look, Land, Evict, Forget, Reconcile
  <2>2. poll[b] = "found" \/ PollFinds(b)
    <3>1. poll \in [Attempts -> {"off", "waiting", "found"}]
      BY DEF TypeOK
    <3>2. ASSUME NEW a \in Attempts, Submitted(a) PROVE poll[b] = "found"
      <4>1. \E v \in {"waiting", "off"} : poll' = [poll EXCEPT ![a] = v]
        BY <3>2 DEF Submitted
      <4> QED BY ONLY <1>2, <3>1, <4>1
    <3>3. ASSUME NEW a \in Attempts, PollFinds(a) PROVE poll[b] = "found" \/ PollFinds(b)
      BY <1>2, <3>1, <3>3 DEF PollFinds
    <3>4. ASSUME NEW a \in Attempts, PollSettles(a) \/ PollTimesOut(a) PROVE poll[b] = "found"
      BY <1>2, <3>1, <3>4 DEF PollSettles, PollTimesOut
    <3>5. ASSUME Crash PROVE FALSE
      BY <1>2, <3>5 DEF Crash
    <3> QED BY <1>2, <2>1, <3>2, <3>3, <3>4, <3>5
  <2>3. landed[tx[b]] # "none" /\ tx[b] \in Tx
    BY <2>2 DEF PollFinds, TypeOK
  <2>4. tx'[b] = tx[b]
    BY <1>2, <2>2, OwnSteps DEF Record, PollFinds, Recorded
  <2> QED BY <1>1, <2>3, <2>4
<1>3. ASSUME looking' # NoTx, answer' = "found" PROVE landed'[looking'] # "none"
  <2> DEFINE Looked(h, found) == /\ looking' = h /\ answer' = found
                                 /\ found = "found" => landed[h] # "none"
             Judged == \/ UNCHANGED <<looking, answer>>
                       \/ looking' = NoTx
                       \/ \E h \in Tx : \E found : Looked(h, found)
  <2>1. Judged
    <3>1. ASSUME NEW a \in Attempts, Attempt(a) PROVE Judged
      BY <3>1 DEF Attempt, Reserve, Acquire, Prepare, Drop, Record, Broadcast, Rejected,
                  Submitted, PollFinds, PollSettles, PollTimesOut
    <3>2. ASSUME NEW h \in Tx, NEW found \in {Known(h), "failed request"}, Look(h, found)
          PROVE Judged
      <4>1. Looked(h, found)
        BY <3>2 DEF Look, Known
      <4> QED BY <4>1
    <3>3. ASSUME \/ UNCHANGED vars
                 \/ \E r \in Routes : Prune(r)
                 \/ \E c \in Callers : Cooled(c)
                 \/ \E h \in Tx : Land(h) \/ Evict(h) \/ Forget(h)
          PROVE Judged
      BY <3>3 DEF vars, memory, Prune, Cooled, Land, Evict, Forget
    <3>4. ASSUME Reconcile \/ Crash PROVE Judged
      BY <3>4 DEF Reconcile, Crash
    <3> HIDE DEF Judged
    <3>5. Next \/ UNCHANGED vars
      OBVIOUS
    <3> QED BY ONLY <3>1, <3>2, <3>3, <3>4, <3>5 DEF Next
  <2>2. looking' \in Tx /\ landed[looking'] # "none"
    BY <1>3, <2>1 DEF TypeOK
  <2> QED BY <1>1, <2>2
<1>4. ASSUME NEW h \in Tx, rows'[h] \in {"SUCCESS", "FAILED"} PROVE landed'[h] = rows'[h]
  BY <1>1, <1>4, RowSteps DEF Pending
<1> QED BY <1>2, <1>3, <1>4

LEMMA NothingUnrecordedStays == ASSUME ExecutorInv, [Next]_vars PROVE NothingUnrecorded'
<1> USE DEF ExecutorInv, NothingUnrecorded
<1>1. SUFFICES ASSUME NEW h \in Tx, h \in mempool' \/ landed'[h] # "none"
               PROVE  rows[h] # "none"
  BY LedgerGrows
<1>2. \/ UNCHANGED <<mempool, landed>>
      \/ \E a \in Attempts : Broadcast(a)
      \/ \E g \in Tx : Land(g) \/ Evict(g)
  BY DEF Next, Attempt, vars, network, Reserve, Acquire, Prepare, Drop, Record, Rejected,
     Submitted, PollFinds, PollSettles, PollTimesOut, Prune, Cooled, Look, Forget, Reconcile, Crash
<1>3. ASSUME NEW a \in Attempts, Broadcast(a) PROVE rows[h] # "none"
  <2>1. rows[tx[a]] # "none" /\ landed' = landed
        /\ (mempool' = mempool \union {tx[a]} \/ mempool' = mempool)
    BY <1>3 DEF Broadcast, Recorded
  <2> QED BY <1>1, <2>1
<1>4. ASSUME NEW g \in Tx, Land(g) PROVE rows[h] # "none"
  <2>1. g \in mempool /\ mempool' = mempool \ {g}
    BY <1>4 DEF Land
  <2>2. PICK result \in {"SUCCESS", "FAILED"} : landed' = [landed EXCEPT ![g] = result]
    BY <1>4 DEF Land
  <2>3. landed'[h] = landed[h] \/ h = g
    BY <2>2 DEF TypeOK
  <2> QED BY <1>1, <2>1, <2>3
<1>5. ASSUME NEW g \in Tx, Evict(g) PROVE rows[h] # "none"
  BY <1>1, <1>5 DEF Evict
<1> QED BY <1>1, <1>2, <1>3, <1>4, <1>5

LEMMA AccountedStays == ASSUME ExecutorInv, [Next]_vars PROVE AccountedOnce'
<1>1. SUFFICES ASSUME NEW h \in Tx, accounted'[h] > 0
               PROVE  accounted'[h] = 1 /\ rows'[h] \in {"SUCCESS", "FAILED"}
  BY DEF AccountedOnce
<1>2. /\ accounted[h] \in Nat
      /\ accounted[h] > 0 => accounted[h] = 1 /\ rows[h] \in {"SUCCESS", "FAILED"}
      /\ landed[h] \in {"none", "SUCCESS", "FAILED"}
  BY DEF ExecutorInv, AccountedOnce, TypeOK
<1>3. \/ rows'[h] = rows[h] /\ accounted'[h] \in {0, accounted[h]}
      \/ /\ rows[h] \in Pending \union {"none"} /\ accounted'[h] = accounted[h]
      \/ /\ rows[h] \in Pending /\ landed[h] # "none" /\ rows'[h] = landed[h]
         /\ accounted'[h] = accounted[h] + 1
  BY RowSteps
<1> QED BY ONLY <1>1, <1>2, <1>3 DEF Pending

LEMMA StepInv == ExecutorInv /\ [Next]_vars => ExecutorInv'
BY TypesStay, RecordedStays, ResultsStayReal, NothingUnrecordedStays, AccountedStays DEF ExecutorInv

LEMMA InvHolds == Spec => []ExecutorInv
BY InitInv, StepInv, PTL DEF Spec

-----------------------------------------------------------------------------

(***************************************************************************)
(* The state of the executor keeps its types, and whatever is prepared,    *)
(* recorded, broadcast or polled has a transaction.                        *)
(***************************************************************************)
THEOREM ExecutorTypeCorrect == Spec => []TypeOK
<1>1. ExecutorInv => TypeOK
  BY DEF ExecutorInv
<1> QED BY <1>1, InvHolds, PTL

(***************************************************************************)
(* No transaction of the bot is in the network or on the chain without a   *)
(* row in the ledger, because try_execute_opportunity records before it    *)
(* broadcasts and no step removes a row.                                   *)
(***************************************************************************)
THEOREM NothingLost == Spec => []NothingUnrecorded
<1>1. ExecutorInv => NothingUnrecorded
  BY DEF ExecutorInv
<1> QED BY <1>1, InvHolds, PTL

(***************************************************************************)
(* The compare-and-set of finalize lets only one of the poll and the       *)
(* recovery worker account for a hash.                                     *)
(***************************************************************************)
THEOREM AccountsOnce == Spec => []AccountedOnce
<1>1. ExecutorInv => AccountedOnce
  BY DEF ExecutorInv
<1> QED BY <1>1, InvHolds, PTL

(***************************************************************************)
(* A final status of a row is never overwritten, by anybody.               *)
(***************************************************************************)
THEOREM FinalStatusStays == Spec => FinalStays
<1>1. ExecutorInv /\ [Next]_vars => [\A h \in Tx : rows[h] \in Final => rows'[h] = rows[h]]_vars
  BY LedgerGrows
<1> QED BY <1>1, InvHolds, PTL DEF Spec, FinalStays
-----------------------------------------------------------------------------

\* A route stays reserved as long as the attempt that took it runs.
RoutesInv ==
  /\ OneAttemptPerRoute
  /\ \A a \in Attempts : Running(a) => paths[route[a]] = "reserved"

\* Every step but Reserve only takes attempts away.
LEMMA RunningKept ==
  ASSUME ~Outlast, TypeOK, RoutesInv, [Next]_vars, NEW b \in Attempts, Running(b)',
         \A r \in Routes : ~Reserve(b, r)
  PROVE  Running(b) /\ route'[b] = route[b] /\ paths'[route[b]] = "reserved"
<1> DEFINE P == Running(b) /\ route'[b] = route[b] /\ paths'[route[b]] = "reserved"
<1>0. /\ pc \in [Attempts -> {"new", "reserved", "preparing", "prepared", "recorded",
                              "answered", "done"}]
      /\ route \in [Attempts -> Routes]
      /\ paths \in [Routes -> {"free", "reserved", "submitted"}]
      /\ \A a \in Attempts : Running(a) => paths[route[a]] = "reserved"
      /\ \A a \in Attempts : Running(a) /\ Running(b) /\ route[a] = route[b] => a = b
  BY DEF TypeOK, RoutesInv, OneAttemptPerRoute
<1>1. ASSUME NEW a \in Attempts, NEW r \in Routes, Reserve(a, r) PROVE P
  <2>1. /\ a # b /\ pc' = [pc EXCEPT ![a] = "reserved"] /\ route' = [route EXCEPT ![a] = r]
        /\ paths' = [paths EXCEPT ![r] = "reserved"]
    BY <1>1 DEF Reserve
  <2> QED BY ONLY Running(b)', <1>0, <2>1 DEF Running
<1>2. ASSUME NEW a \in Attempts, NEW from \in {"reserved", "preparing", "prepared", "recorded"},
             NEW to \in {"preparing", "prepared", "recorded", "answered"},
             pc[a] = from, pc' = [pc EXCEPT ![a] = to], UNCHANGED <<paths, route>>
      PROVE  P
  BY ONLY Running(b)', <1>0, <1>2 DEF Running
<1>3. ASSUME NEW a \in Attempts, Running(a), pc' = [pc EXCEPT ![a] = "done"], route' = route,
             NEW s \in {"free", "submitted"}, paths' = [paths EXCEPT ![route[a]] = s]
      PROVE  P
  <2>1. a # b /\ Running(b)
    BY ONLY Running(b)', <1>0, <1>3 DEF Running
  <2>2. route[a] # route[b]
    BY ONLY <1>0, <1>3, <2>1
  <2> QED BY ONLY <1>0, <1>3, <2>1, <2>2
<1>4. ASSUME NEW r \in Routes, Prune(r) PROVE P
  <2>1. paths[r] = "submitted" /\ paths' = [paths EXCEPT ![r] = "free"] /\ UNCHANGED <<pc, route>>
    BY <1>4 DEF Prune, tasks
  <2> QED BY ONLY Running(b)', <1>0, <2>1 DEF Running
<1>5. ASSUME Crash PROVE P
  BY <1>5 DEF Crash, Running
<1>6. ASSUME UNCHANGED <<pc, route, paths>> PROVE P
  BY ONLY Running(b)', <1>0, <1>6 DEF Running
<1>7. \/ UNCHANGED <<pc, route, paths>>
      \/ \E a \in Attempts : Attempt(a)
      \/ \E r \in Routes : Prune(r)
      \/ Crash
  BY DEF Next, vars, memory, tasks, Cooled, Look, Land, Evict, Forget, Reconcile
<1> HIDE DEF P
<1>8. ASSUME NEW a \in Attempts, Attempt(a) PROVE P
  <2>1. CASE \E r \in Routes : Reserve(a, r)
    BY <1>1, <2>1
  <2>2. CASE \E c \in Callers : Acquire(a, c)
    BY <1>2, <2>2 DEF Acquire
  <2>3. CASE Prepare(a)
    <3>1. pc[a] = "preparing" /\ pc' = [pc EXCEPT ![a] = "prepared"] /\ UNCHANGED <<paths, route>>
      BY <2>3 DEF Prepare
    <3> QED BY <1>2, <3>1
  <2>4. CASE Drop(a)
    BY <1>3, <2>4 DEF Drop, Release, Running
  <2>5. CASE Record(a)
    BY <1>2, <2>5 DEF Record
  <2>6. CASE Broadcast(a)
    <3>1. pc[a] = "recorded" /\ pc' = [pc EXCEPT ![a] = "answered"] /\ UNCHANGED <<paths, route>>
      BY <2>6 DEF Broadcast
    <3> QED BY <1>2, <3>1
  <2>7. CASE Rejected(a)
    BY <1>3, <2>7 DEF Rejected, Release, Running
  <2>8. CASE Submitted(a)
    BY <1>3, <2>8 DEF Submitted, Running
  <2>9. CASE UNCHANGED <<pc, route, paths>>
    BY <1>6, <2>9
  <2> QED
    BY <1>8, <2>1, <2>2, <2>3, <2>4, <2>5, <2>6, <2>7, <2>8, <2>9
    DEF Attempt, PollFinds, PollSettles, PollTimesOut
<1>9. P
  BY <1>4, <1>5, <1>6, <1>7, <1>8
<1> QED BY <1>9 DEF P

LEMMA RoutesInvStays ==
  ASSUME ~Outlast, TypeOK, RoutesInv, [Next]_vars PROVE RoutesInv'
<1>1. CASE \E a \in Attempts, r \in Routes : Reserve(a, r)
  <2>1. PICK a \in Attempts, r \in Routes : Reserve(a, r)
    BY <1>1
  <2>2. /\ paths[r] = "free" /\ paths' = [paths EXCEPT ![r] = "reserved"]
        /\ pc' = [pc EXCEPT ![a] = "reserved"] /\ route' = [route EXCEPT ![a] = r]
    BY <2>1 DEF Reserve, Reservable
  <2>3. /\ pc \in [Attempts -> {"new", "reserved", "preparing", "prepared", "recorded",
                                "answered", "done"}]
        /\ route \in [Attempts -> Routes]
        /\ paths \in [Routes -> {"free", "reserved", "submitted"}]
    BY DEF TypeOK
  <2>4. \A b \in Attempts \ {a} : Running(b)' => Running(b) /\ route'[b] = route[b] /\ route[b] # r
    BY ONLY RoutesInv, <2>2, <2>3 DEF RoutesInv, Running
  <2>5. \A b \in Attempts : Running(b)' => paths'[route'[b]] = "reserved"
    BY <2>2, <2>3, <2>4 DEF RoutesInv
  <2>6. \A b, c \in Attempts : Running(b)' /\ Running(c)' /\ route'[b] = route'[c] => b = c
    BY <2>2, <2>3, <2>4 DEF RoutesInv, OneAttemptPerRoute
  <2> QED BY <2>5, <2>6 DEF RoutesInv, OneAttemptPerRoute, Running
<1>2. CASE ~ \E a \in Attempts, r \in Routes : Reserve(a, r)
  <2>1. \A b \in Attempts :
          Running(b)' => Running(b) /\ route'[b] = route[b] /\ paths'[route[b]] = "reserved"
    BY <1>2, RunningKept
  <2> QED BY <2>1 DEF RoutesInv, OneAttemptPerRoute, Running
<1> QED BY <1>1, <1>2

(***************************************************************************)
(* While no attempt outlasts its reservation, a route has one attempt at a *)
(* time: try_reserve and the release and prune of entries keep it so for   *)
(* any number of attempts.                                                 *)
(***************************************************************************)
THEOREM RoutesNotShared == ASSUME ~Outlast PROVE Spec => []OneAttemptPerRoute
<1>1. Init => RoutesInv
  BY DEF Init, RoutesInv, OneAttemptPerRoute, Running
<1>2. TypeOK /\ RoutesInv /\ [Next]_vars => RoutesInv'
  BY RoutesInvStays
<1>3. RoutesInv => OneAttemptPerRoute
  BY DEF RoutesInv
<1> QED BY <1>1, <1>2, <1>3, ExecutorTypeCorrect, PTL DEF Spec
-----------------------------------------------------------------------------

\* The broadcast of a was turned away, so its transaction is not in the network.
Refused(a) == pc[a] = "answered" /\ reply[a] \in {"refused", "overloaded"}

(***************************************************************************)
(* Each attempt builds an envelope of its own, records it once and sends   *)
(* it once: what was refused, nobody sends again.                          *)
(***************************************************************************)
OwnBytes ==
  /\ \A a \in Attempts : tx[a] # NoTx => tx[a].bytes = a
  /\ \A h \in Tx : rows[h] # "none" => pc[h.bytes] \in {"recorded", "answered", "done"}
  /\ \A a \in Attempts : pc[a] = "recorded" \/ Refused(a) =>
       tx[a] \notin mempool /\ landed[tx[a]] = "none"
  /\ \A h \in Tx : rows[h] = "REJECTED" =>
       pc[h.bytes] = "done" /\ landed[h] = "none" /\ h \notin mempool

\* A step that sends nothing, rejects nothing and moves no attempt to its
\* broadcast keeps what is known of refused transactions.
LEMMA QuietSteps ==
  ASSUME TypeOK, OwnBytes,
         \A a \in Attempts : tx'[a] # NoTx => tx'[a].bytes = a,
         \A a \in Attempts : /\ pc[a] \in {"recorded", "answered", "done"} =>
                                  pc'[a] \in {"recorded", "answered", "done"}
                             /\ pc[a] = "done" => pc'[a] = "done"
                             /\ pc'[a] = "recorded" \/ Refused(a)' =>
                                  tx'[a] = tx[a] /\ (pc[a] = "recorded" \/ Refused(a)),
         \A h \in Tx : /\ rows'[h] # "none" => rows[h] # "none"
                       /\ rows'[h] = "REJECTED" => rows[h] = "REJECTED",
         \A h \in Tx : /\ h \in mempool' => h \in mempool
                       /\ landed'[h] # landed[h] => h \in mempool
  PROVE  OwnBytes'
<1>1. \A h \in Tx : h.bytes \in Attempts
  BY DEF Tx
<1>2. \A a \in Attempts : pc[a] = "recorded" \/ Refused(a) => tx[a] \in Tx
  BY DEF TypeOK, Refused
<1> QED BY <1>1, <1>2 DEF OwnBytes

LEMMA OwnBytesStay ==
  ASSUME ~SameBytes, ExecutorInv, OwnBytes, [Next]_vars PROVE OwnBytes'
<1> USE DEF ExecutorInv
<1>0. /\ pc \in [Attempts -> {"new", "reserved", "preparing", "prepared", "recorded",
                              "answered", "done"}]
      /\ rows \in [Tx -> Pending \union Final \union {"none"}]
      /\ landed \in [Tx -> {"none", "SUCCESS", "FAILED"}]
      /\ tx \in [Attempts -> Tx \union {NoTx}]
      /\ reply \in [Attempts -> {"none", "ok", "refused", "overloaded", "uncertain"}]
      /\ NoTx \notin Tx
      /\ \A a \in Attempts : pc[a] \in {"prepared", "recorded", "answered"} =>
           tx[a] \in Tx /\ tx[a].bytes = a
  <2>1. \A a \in Attempts : pc[a] \in {"prepared", "recorded", "answered"} => tx[a] \in Tx
    BY DEF TypeOK
  <2>2. \A a \in Attempts : pc[a] \in {"prepared", "recorded", "answered"} => tx[a].bytes = a
    BY <2>1, ExecutorAssumption DEF OwnBytes
  <2>3. /\ pc \in [Attempts -> {"new", "reserved", "preparing", "prepared", "recorded",
                                "answered", "done"}]
        /\ rows \in [Tx -> Pending \union Final \union {"none"}]
        /\ landed \in [Tx -> {"none", "SUCCESS", "FAILED"}]
        /\ tx \in [Attempts -> Tx \union {NoTx}]
        /\ reply \in [Attempts -> {"none", "ok", "refused", "overloaded", "uncertain"}]
    BY DEF TypeOK
  <2> QED BY ONLY <2>1, <2>2, <2>3, ExecutorAssumption DEF ExecutorAssumption
<1>1. ASSUME UNCHANGED <<pc, tx, reply, rows, mempool, landed>> PROVE OwnBytes'
  BY <1>1 DEF OwnBytes, Refused
<1>2. ASSUME NEW a \in Attempts, pc[a] \in {"new", "reserved", "preparing", "prepared"},
             NEW to \in {"reserved", "preparing", "prepared", "done"},
             pc' = [pc EXCEPT ![a] = to],
             UNCHANGED <<tx, reply, rows, mempool, landed>>
      PROVE  OwnBytes'
  <2>1. \A b \in Attempts : b # a => pc'[b] = pc[b]
    BY <1>0, <1>2
  <2>2. pc'[a] = to
    BY <1>0, <1>2
  <2> QED BY <1>2, <2>1, <2>2, QuietSteps DEF OwnBytes, Refused
<1>3. ASSUME NEW a \in Attempts, Prepare(a) PROVE OwnBytes'
  <2>1. /\ pc[a] = "preparing" /\ pc' = [pc EXCEPT ![a] = "prepared"]
        /\ UNCHANGED <<reply, rows, mempool, landed>>
    BY <1>3 DEF Prepare, network
  <2>2. PICK t \in Tx : t.bytes = a /\ tx' = [tx EXCEPT ![a] = t]
    <3>1. tx' = [tx EXCEPT ![a] = [caller |-> caller[a], seq |-> sequence[caller[a]] + 1,
                                   route |-> route[a], bytes |-> a]]
      BY <1>3 DEF Prepare
    <3>2. TypeOK' /\ pc'[a] = "prepared"
      BY TypesStay, <1>0, <2>1
    <3>3. tx'[a] \in Tx
      BY <3>2 DEF TypeOK
    <3>4. tx'[a] = [caller |-> caller[a], seq |-> sequence[caller[a]] + 1,
                    route |-> route[a], bytes |-> a]
      BY <1>0, <3>1
    <3> QED BY <3>1, <3>3, <3>4
  <2>3. \A b \in Attempts : b # a => pc'[b] = pc[b] /\ tx'[b] = tx[b]
    BY <1>0, <2>1, <2>2
  <2>4. pc'[a] = "prepared" /\ tx'[a].bytes = a
    BY <1>0, <2>1, <2>2
  <2> QED BY <2>1, <2>3, <2>4, QuietSteps DEF OwnBytes, Refused
<1>4. ASSUME NEW a \in Attempts, Record(a) PROVE OwnBytes'
  <2>1. /\ pc[a] = "prepared" /\ pc' = [pc EXCEPT ![a] = "recorded"]
        /\ rows' = [rows EXCEPT ![tx[a]] = IF rows[tx[a]] = "none" THEN "SUBMITTED"
                                                                  ELSE rows[tx[a]]]
        /\ UNCHANGED <<tx, reply, mempool, landed>>
    BY <1>4 DEF Record, network
  <2>2. tx[a] \in Tx /\ tx[a].bytes = a
    BY <1>0, <2>1
  <2>3. rows[tx[a]] = "none"
    BY <2>1, <2>2 DEF OwnBytes
  <2>4. landed[tx[a]] = "none" /\ tx[a] \notin mempool
    BY <2>2, <2>3 DEF NothingUnrecorded
  <2>5. /\ pc'[a] = "recorded"
        /\ \A b \in Attempts : b # a => pc'[b] = pc[b]
        /\ rows'[tx[a]] = "SUBMITTED"
        /\ \A h \in Tx : h # tx[a] => rows'[h] = rows[h]
    BY <1>0, <2>1, <2>2, <2>3
  <2>6. \A h \in Tx : h.bytes \in Attempts
    BY DEF Tx
  <2> QED BY <2>1, <2>2, <2>4, <2>5, <2>6 DEF OwnBytes, Refused
<1>5. ASSUME NEW a \in Attempts, Broadcast(a) PROVE OwnBytes'
  <2>1. /\ pc[a] = "recorded" /\ pc' = [pc EXCEPT ![a] = "answered"]
        /\ UNCHANGED <<tx, rows, landed>>
    BY <1>5 DEF Broadcast
  <2>2. \/ /\ mempool' = mempool \union {tx[a]}
           /\ \E r \in {"ok", "uncertain"} : reply' = [reply EXCEPT ![a] = r]
        \/ /\ mempool' = mempool
           /\ \E r \in {"refused", "overloaded", "uncertain"} :
                reply' = [reply EXCEPT ![a] = r]
    BY <1>5 DEF Broadcast
  <2>3. tx[a] \in Tx /\ tx[a].bytes = a /\ tx[a] \notin mempool /\ landed[tx[a]] = "none"
    BY <1>0, <2>1 DEF OwnBytes
  <2>4. /\ pc'[a] = "answered"
        /\ \A b \in Attempts : b # a => pc'[b] = pc[b] /\ reply'[b] = reply[b]
        /\ reply'[a] \in {"refused", "overloaded"} => mempool' = mempool
    BY <1>0, <2>1, <2>2
  <2>5. \A b \in Attempts : (pc[b] = "recorded" \/ Refused(b)) /\ b # a => tx[b] # tx[a]
    BY <1>0, <2>3 DEF Refused
  <2>6. \A h \in Tx : h \in mempool' => h \in mempool \/ h = tx[a]
    BY <2>2
  <2>7. \A b \in Attempts : pc'[b] = "recorded" \/ Refused(b)' =>
          tx'[b] \notin mempool' /\ landed'[tx'[b]] = "none"
    <3>1. ASSUME NEW b \in Attempts, b # a, pc'[b] = "recorded" \/ Refused(b)'
          PROVE  tx'[b] \notin mempool' /\ landed'[tx'[b]] = "none"
      <4>1. pc[b] = "recorded" \/ Refused(b)
        BY <2>4, <3>1 DEF Refused
      <4>2. tx[b] \in Tx /\ tx[b] # tx[a] /\ tx[b] \notin mempool /\ landed[tx[b]] = "none"
        BY <1>0, <2>5, <3>1, <4>1 DEF OwnBytes, Refused
      <4> QED BY <2>1, <2>6, <4>2
    <3>2. ASSUME Refused(a)' PROVE tx'[a] \notin mempool' /\ landed'[tx'[a]] = "none"
      BY <2>1, <2>3, <2>4, <3>2 DEF Refused
    <3> QED BY <2>4, <3>1, <3>2
  <2>8. \A h \in Tx : rows[h] = "REJECTED" => h # tx[a]
    BY <2>1, <2>3 DEF OwnBytes
  <2>9. \A h \in Tx : h.bytes \in Attempts
    BY DEF Tx
  <2> QED BY <2>1, <2>4, <2>6, <2>7, <2>8, <2>9 DEF OwnBytes
<1>6. ASSUME NEW a \in Attempts, Rejected(a) PROVE OwnBytes'
  <2>1. /\ Refused(a) /\ pc' = [pc EXCEPT ![a] = "done"]
        /\ rows' = [rows EXCEPT ![tx[a]] = IF rows[tx[a]] \in Pending THEN "REJECTED"
                                                                     ELSE rows[tx[a]]]
        /\ UNCHANGED <<tx, reply, mempool, landed>>
    BY <1>6 DEF Rejected, Release, Refused, network
  <2>2. tx[a] \in Tx /\ tx[a].bytes = a /\ tx[a] \notin mempool /\ landed[tx[a]] = "none"
    BY <1>0, <2>1 DEF OwnBytes, Refused
  <2>3. pc'[a] = "done" /\ \A b \in Attempts : b # a => pc'[b] = pc[b]
    BY <1>0, <2>1
  <2>4. \A h \in Tx : h # tx[a] => rows'[h] = rows[h]
    BY <1>0, <2>1
  <2>5. \A h \in Tx : h.bytes \in Attempts
    BY DEF Tx
  <2>6. \A b \in Attempts : pc'[b] = "recorded" \/ Refused(b)' => pc[b] = "recorded" \/ Refused(b)
    BY <2>1, <2>3 DEF Refused
  <2>7. \A h \in Tx : rows'[h] # "none" => pc'[h.bytes] \in {"recorded", "answered", "done"}
    BY <2>2, <2>3, <2>4, <2>5 DEF OwnBytes
  <2>8. \A h \in Tx : rows'[h] = "REJECTED" => pc'[h.bytes] = "done" /\ landed'[h] = "none" /\ h \notin mempool'
    BY <2>1, <2>2, <2>3, <2>4, <2>5 DEF OwnBytes
  <2> QED BY <2>1, <2>6, <2>7, <2>8 DEF OwnBytes
<1>7. ASSUME NEW a \in Attempts, Submitted(a) PROVE OwnBytes'
  <2>1. /\ pc[a] = "answered" /\ pc' = [pc EXCEPT ![a] = "done"]
        /\ UNCHANGED <<tx, reply, rows, mempool, landed>>
    BY <1>7 DEF Submitted, network
  <2>2. pc'[a] = "done" /\ \A b \in Attempts : b # a => pc'[b] = pc[b]
    BY <1>0, <2>1
  <2> QED BY <2>1, <2>2, QuietSteps DEF OwnBytes, Refused
<1>8. ASSUME UNCHANGED <<pc, tx, reply, mempool, landed>>,
             \A h \in Tx : /\ rows'[h] # "none" => rows[h] # "none"
                           /\ rows'[h] = "REJECTED" => rows[h] = "REJECTED"
      PROVE  OwnBytes'
  BY <1>8, QuietSteps DEF OwnBytes, Refused
<1>9. ASSUME NEW a \in Attempts, PollSettles(a) PROVE OwnBytes'
  <2>1. tx[a] \in Tx /\ landed[tx[a]] # "none" /\ Settle(tx[a])
    BY <1>9 DEF PollSettles, ResultsAreReal, TypeOK
  <2>2. \A h \in Tx : /\ rows'[h] # "none" => rows[h] # "none"
                      /\ rows'[h] = "REJECTED" => rows[h] = "REJECTED"
    BY <1>0, <2>1, Settling DEF Pending
  <2> QED BY <1>8, <1>9, <2>2 DEF PollSettles, network
<1>10. ASSUME NEW a \in Attempts, PollTimesOut(a) PROVE OwnBytes'
  <2>1. rows' = [rows EXCEPT ![tx[a]] = IF rows[tx[a]] \in Pending THEN "UNKNOWN"
                                                                  ELSE rows[tx[a]]]
    BY <1>10 DEF PollTimesOut
  <2>2. \A h \in Tx : /\ rows'[h] # "none" => rows[h] # "none"
                      /\ rows'[h] = "REJECTED" => rows[h] = "REJECTED"
    BY ONLY <1>0, <2>1 DEF Pending
  <2> QED BY <1>8, <1>10, <2>2 DEF PollTimesOut, network
<1>11. ASSUME Reconcile PROVE OwnBytes'
  <2>1. looking \in Tx
    BY <1>11 DEF Reconcile, TypeOK
  <2>2. \A h \in Tx : /\ rows'[h] # "none" => rows[h] # "none"
                      /\ rows'[h] = "REJECTED" => rows[h] = "REJECTED"
    <3>1. CASE answer = "found"
      <4>1. landed[looking] # "none" /\ Settle(looking)
        BY <1>11, <3>1 DEF Reconcile, ResultsAreReal
      <4> QED BY <1>0, <2>1, <4>1, Settling DEF Pending
    <3>2. CASE answer # "found"
      <4>1. rows' = [rows EXCEPT ![looking] = IF rows[looking] \in Pending THEN Deferred
                                                                       ELSE rows[looking]]
        BY <1>11, <3>2 DEF Reconcile
      <4>2. Deferred \in {"HISTORY_REQUIRED", "UNKNOWN"}
        BY DEF Deferred
      <4> QED BY ONLY <1>0, <4>1, <4>2 DEF Pending
    <3> QED BY <3>1, <3>2
  <2> QED BY <1>8, <1>11, <2>2 DEF Reconcile, tasks, network
<1>12. ASSUME NEW g \in Tx, Land(g) PROVE OwnBytes'
  <2>1. /\ g \in mempool /\ mempool' = mempool \ {g}
        /\ UNCHANGED <<pc, tx, reply, rows>>
    BY <1>12 DEF Land, memory, tasks
  <2>2. PICK result \in {"SUCCESS", "FAILED"} : landed' = [landed EXCEPT ![g] = result]
    BY <1>12 DEF Land
  <2>3. \A h \in Tx : landed'[h] # landed[h] => h \in mempool
    BY <1>0, <2>1, <2>2
  <2> QED BY <2>1, <2>3, QuietSteps DEF OwnBytes, Refused
<1>13. ASSUME NEW g \in Tx, Evict(g) PROVE OwnBytes'
  BY <1>13, QuietSteps DEF Evict, memory, tasks, OwnBytes, Refused
<1>14. ASSUME Crash PROVE OwnBytes'
  <2>1. /\ pc' = [b \in Attempts |-> IF pc[b] = "new" THEN "new" ELSE "done"]
        /\ UNCHANGED <<tx, rows, mempool, landed>>
    BY <1>14 DEF Crash, network
  <2> QED BY <2>1, QuietSteps DEF OwnBytes, Refused
<1>15. ASSUME NEW a \in Attempts, Attempt(a) PROVE OwnBytes'
  <2>1. CASE \E r \in Routes : Reserve(a, r)
    BY <1>2, <2>1 DEF Reserve, network
  <2>2. CASE \E c \in Callers : Acquire(a, c)
    BY <1>2, <2>2 DEF Acquire, network
  <2>3. CASE Drop(a)
    BY <1>2, <2>3 DEF Drop, Release, network
  <2>4. CASE PollFinds(a)
    BY <1>1, <2>4 DEF PollFinds, network
  <2> QED
    BY <1>3, <1>4, <1>5, <1>6, <1>7, <1>9, <1>10, <1>15, <2>1, <2>2, <2>3, <2>4 DEF Attempt
<1>16. ASSUME \/ \E r \in Routes : Prune(r)
              \/ \E c \in Callers : Cooled(c)
              \/ \E h \in Tx : \/ \E found \in {Known(h), "failed request"} : Look(h, found)
                               \/ Forget(h)
              \/ UNCHANGED vars
       PROVE  OwnBytes'
  <2>1. UNCHANGED <<pc, tx, reply, rows, mempool, landed>>
    BY <1>16 DEF Prune, Cooled, Look, Forget, vars, memory, tasks, network
  <2> QED BY <1>1, <2>1
<1> QED BY <1>11, <1>12, <1>13, <1>14, <1>15, <1>16 DEF Next

(***************************************************************************)
(* A final row tells what the chain did, as long as no two attempts build  *)
(* the same envelope: SUCCESS and FAILED are the result the transaction    *)
(* landed with, and a REJECTED one was never in the network and will not   *)
(* be, whatever polls, lookups, lost answers and crashes come between.     *)
(***************************************************************************)
THEOREM FinalRowsTellTheChain == ASSUME ~SameBytes PROVE Spec => []FinalTellsChain
<1>1. Init => OwnBytes
  BY ExecutorAssumption DEF Init, OwnBytes, Refused
<1>2. ExecutorInv /\ OwnBytes /\ [Next]_vars => OwnBytes'
  BY OwnBytesStay
<1>3. ExecutorInv /\ OwnBytes => FinalTellsChain
  BY DEF ExecutorInv, ResultsAreReal, OwnBytes, FinalTellsChain
<1> QED BY <1>1, <1>2, <1>3, InvHolds, PTL DEF Spec
=============================================================================
