--------------------------- MODULE SimulationBook ---------------------------
(***************************************************************************)
(* SimulationBook (crates/arbitrage/src/diagnostics.rs): simulations are   *)
(* counted by dimension in memory, under bounds, while a writer moves the  *)
(* counts batch by batch to the database, which fails at times and keeps   *)
(* what is recent.                                                         *)
(***************************************************************************)
EXTENDS Integers, FiniteSets, FiniteSetsExt

CONSTANTS
  Keys,          \* bound: dimensions are 1 .. Keys, in the order of their keys
  DayOf,         \* the day of each dimension
  MaxPending,    \* MAX_PENDING
  BatchSize,     \* BATCH_SIZE
  MaxRows,       \* MAX_ROWS
  RetainedDays,  \* 29 days before today
  MaxRecords,    \* bound: simulations
  MaxDays        \* bound

Dimensions == 1 .. Keys

ASSUME BookAssumption ==
  /\ {Keys, MaxPending, BatchSize, MaxRows} \subseteq Nat \ {0}
  /\ {RetainedDays, MaxRecords, MaxDays} \subseteq Nat
  /\ DayOf \in [Dimensions -> Nat]

VARIABLES
  waiting,   \* attempts of the pending dimensions, 0 of the others
  cursor,    \* the dimension taken last, or 0
  taken,     \* attempts of the batch being written
  stored,    \* attempts in simulation_metrics
  dropped,   \* dropped_dimensions
  recorded,  \* history: attempts handed to record
  retired,   \* history: attempts that fell to the retention
  passed,    \* history: batches taken while a dimension waited
  today, clock    \* bounded time

bookvars == <<waiting, cursor, taken, stored, dropped, recorded, retired, passed, today, clock>>

PendingOf(w) == {d \in Dimensions : w[d] > 0}
Attempts(w) == MapThenSumSet(LAMBDA d : w[d], Dimensions)
Nothing == [d \in Dimensions |-> 0]

BookInit ==
  /\ waiting = Nothing /\ cursor = 0 /\ taken = Nothing
  /\ stored = Nothing
  /\ dropped = 0 /\ recorded = 0 /\ retired = 0 /\ passed = Nothing
  /\ today = 1 /\ clock = 1

\* A simulation counts in the dimensions of its pair, venues and pools.
RecordSimulation(ds) ==
  LET full(d) == d \notin PendingOf(waiting)
                 /\ Cardinality(PendingOf(waiting) \union {e \in ds : e < d}) >= MaxPending
      late == {d \in ds : full(d)}
  IN /\ clock <= MaxRecords /\ clock' = clock + 1
     /\ \A d \in ds : DayOf[d] = today
     /\ waiting' = [d \in Dimensions |-> IF d \in ds \ late THEN waiting[d] + 1 ELSE waiting[d]]
     /\ dropped' = dropped + Cardinality(late)
     /\ recorded' = recorded + Cardinality(ds)
     /\ UNCHANGED <<cursor, taken, stored, retired, passed, today>>

Smallest(ds, n) == {d \in ds : Cardinality({e \in ds : e < d}) < n}

\* Mutant: every batch begins with the first dimension.
BatchFirst == Smallest(PendingOf(waiting), BatchSize)

\* The dimensions behind the cursor, and then those up to it.
Batch ==
  LET behind == Smallest({d \in PendingOf(waiting) : d > cursor}, BatchSize)
  IN behind \union Smallest({d \in PendingOf(waiting) : d <= cursor}, BatchSize - Cardinality(behind))

TakeBatch ==
  /\ taken = Nothing /\ PendingOf(waiting) # {}
  /\ cursor' = LET wrapped == {d \in Batch : d <= cursor}
               IN IF wrapped = {} THEN Max(Batch) ELSE Max(wrapped)
  /\ taken' = [d \in Dimensions |-> IF d \in Batch THEN waiting[d] ELSE 0]
  /\ waiting' = [d \in Dimensions |-> IF d \in Batch THEN 0 ELSE waiting[d]]
  /\ passed' = [d \in Dimensions |-> IF waiting'[d] > 0 THEN passed[d] + 1 ELSE 0]
  /\ UNCHANGED <<stored, dropped, recorded, retired, today, clock>>

\* What a transaction may retain: the recent days and, when the rows are too
\* many, of the earliest days those seen last.
Retained(rows) ==
  LET recent == {d \in rows : DayOf[d] + RetainedDays >= today}
  IN {kept \in SUBSET recent :
        /\ Cardinality(kept) = IF Cardinality(recent) <= MaxRows THEN Cardinality(recent) ELSE MaxRows
        /\ \A d \in kept, e \in recent \ kept : DayOf[e] <= DayOf[d]}

Persist ==
  /\ taken # Nothing
  /\ LET sum == [d \in Dimensions |-> stored[d] + taken[d]]
     IN \E kept \in Retained(PendingOf(sum)) :
          /\ stored' = [d \in Dimensions |-> IF d \in kept THEN sum[d] ELSE 0]
          /\ retired' = retired + Attempts(sum) - Attempts(stored')
  /\ taken' = Nothing
  /\ UNCHANGED <<waiting, cursor, dropped, recorded, passed, today, clock>>

\* Attempts that came while the batch was out are kept.
Restored(d) == waiting[d] + taken[d]

\* The transaction fails: the batch goes back where there is room.
Restore ==
  /\ taken # Nothing
  /\ LET back == {d \in Dimensions : taken[d] > 0}
         new == back \ PendingOf(waiting)
         fits == Smallest(new, MaxPending - Cardinality(PendingOf(waiting)))
     IN /\ waiting' = [d \in Dimensions |-> IF d \in new \ fits THEN 0 ELSE Restored(d)]
        /\ dropped' = dropped + MapThenSumSet(LAMBDA d : taken[d], new \ fits)
  /\ taken' = Nothing
  /\ UNCHANGED <<cursor, stored, recorded, retired, passed, today, clock>>

NextDay ==
  /\ today < MaxDays /\ today' = today + 1
  /\ UNCHANGED <<waiting, cursor, taken, stored, dropped, recorded, retired, passed, clock>>

BookNext ==
  \/ \E ds \in SUBSET Dimensions \ {{}} : RecordSimulation(ds)
  \/ TakeBatch \/ Persist \/ Restore \/ NextDay

BookSpec == BookInit /\ [][BookNext]_bookvars

-----------------------------------------------------------------------------
(***************************************************************************)
(* No attempt is lost or counted twice by failed transactions, batches in  *)
(* flight and full maps: each is pending, in the batch, in a row, retired  *)
(* by the retention or told by dropped_dimensions; neither the map nor the *)
(* table outgrows its bound; and a dimension is not passed over by more    *)
(* batches than others fit between, however often those are recorded.      *)
(***************************************************************************)
AttemptsAccounted ==
  /\ recorded = Attempts(waiting) + Attempts(taken) + Attempts(stored) + retired + dropped
  /\ Cardinality(PendingOf(waiting)) <= MaxPending /\ Cardinality(PendingOf(stored)) <= MaxRows
  /\ \A d \in Dimensions : passed[d] * BatchSize < Keys
=============================================================================
