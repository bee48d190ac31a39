----------------------------- MODULE SwapHistory -----------------------------
(***************************************************************************)
(* Lists of indexed swaps, read page by page while the indexer adds rows:  *)
(* the swaps of a wallet (api-server/src/swaps.rs, frontend                *)
(* lib/useSwapHistory.ts) and the round trips of the arbitrage page        *)
(* (api-server/src/arbitrage.rs, app/arbitrage/page.tsx).                  *)
(*                                                                         *)
(* A page ends with a cursor, the key of its last row, and the next one    *)
(* continues strictly below it.  Requests and answers cross each other: a  *)
(* list is fetched anew after a swap and on a timer, and the wallet may    *)
(* change meanwhile.  A row is what its key and its owner tell; time-outs  *)
(* of requests are failures.                                               *)
(***************************************************************************)
EXTENDS Integers, FiniteSets, Sequences, Functions

CONSTANTS
  Swaps,      \* rows the table may come to hold: created_at, tx_hash, user, trip
  Wallets,    \* the addresses that may connect
  NoWallet,   \* no address
  PageSize,   \* rows of a page: PAGE_SIZE, limit=25
  MaxCalls,   \* bound: requests of a behaviour
  MaxTimers   \* bound: swap-success events of a behaviour

ASSUME HistoryAssumption ==
  /\ IsFiniteSet(Swaps)
  /\ \A s \in Swaps : s \in [at : Nat, hash : Nat, user : Wallets, trip : BOOLEAN]
  /\ \A s, t \in Swaps : s.at = t.at /\ s.hash = t.hash => s = t
  /\ NoWallet \notin Wallets /\ PageSize \in Nat \ {0}
  /\ MaxCalls \in Nat /\ MaxTimers \in Nat

VARIABLES
  list,         \* "swaps" of a wallet or "trips" of the page, fixed
  table,        \* rows of swap_invocations
  who,          \* the connected wallet
  shown,        \* the rows on the screen
  cursor,       \* the cursor they end with: a row, or nothing
  fetching, loadingMore,
  calls,        \* requests and their answers, and whether fetchGenRef (or the
                \* cancelled flag of the page) is still as it was
  timers,       \* pending refetches, the wallet they are for, and whether the
                \* clean-up of the effect knows them
  sent, successes, \* bounds
  base,         \* history: the table the first page was read from
  mixed         \* history: a list was replaced while another page was on its
                \* way, or by one of an earlier wallet

screen == <<shown, cursor, base, mixed>>
shvars == <<list, table, who, shown, cursor, fetching, loadingMore, calls, timers,
            sent, successes, base, mixed>>

HistoryInit ==
  /\ list \in {"swaps", "trips"}
  /\ table \in SUBSET Swaps
  /\ who = NoWallet
  /\ shown = <<>> /\ cursor = <<>>
  /\ fetching = FALSE /\ loadingMore = FALSE
  /\ calls = {} /\ timers = {}
  /\ sent = 0 /\ successes = 0
  /\ base = {} /\ mixed = FALSE

-----------------------------------------------------------------------------
(***************************************************************************)
(* The server                                                              *)
(***************************************************************************)

\* WHERE of list_swaps_by_user and of list_recent_round_trips.
Listed(rows, user) == IF list = "swaps" THEN {s \in rows : s.user = user} ELSE {s \in rows : s.trip}

\* The order of the rows.
Below(s, t) == s.at < t.at \/ (s.at = t.at /\ s.hash < t.hash)

\* Mutant: rows of the second of the cursor are taken for seen.
OlderSecond(s, before) == \A i \in DOMAIN before : s.at < before[i].at

\* Older than the row that a cursor names, if there is one.
Older(s, before) == \A i \in DOMAIN before : Below(s, before[i])

\* The rows of a set newest first: the place of a row is how many are not below it.
Place(rows, s) == Cardinality({t \in rows : ~Below(t, s)})
Newest(rows, i) == CHOOSE s \in rows : Place(rows, s) = i

\* The first page of some rows; if it is full its last row is the cursor of the next.
FirstPage(rows) ==
  LET full == Cardinality(rows) >= PageSize
      page == [i \in 1 .. (IF full THEN PageSize ELSE Cardinality(rows)) |-> Newest(rows, i)]
  IN [rows |-> page, next |-> IF full THEN <<page[PageSize]>> ELSE <<>>]

Page(rows, user, before) == FirstPage({s \in Listed(rows, user) : Older(s, before)})

EmptyPage == [rows |-> <<>>, next |-> <<>>]

\* insert_invocation, by the live indexer or by a backfill of older ledgers.
IndexSwap ==
  /\ \E s \in Swaps \ table : table' = table \union {s}
  /\ UNCHANGED <<list, who, screen, fetching, loadingMore, calls, timers, sent, successes>>

\* get_swaps and get_arbitrage read the table.
Serve(c) ==
  /\ c.pc = "sent"
  /\ calls' = (calls \ {c}) \union {[c EXCEPT !.pc = "ok", !.page = Page(table, c.user, c.before),
                                               !.table = table]}
  /\ UNCHANGED <<list, table, who, screen, fetching, loadingMore, timers, sent, successes>>

-----------------------------------------------------------------------------
(***************************************************************************)
(* The lists                                                               *)
(***************************************************************************)

\* The calls when fetchGenRef has been increased.
Superseded == {[c EXCEPT !.current = FALSE] : c \in calls}

Send(others, op, user, before) ==
  /\ sent < MaxCalls
  /\ sent' = sent + 1
  /\ calls' = others \union {[op |-> op, user |-> user, before |-> before, current |-> TRUE,
                              pc |-> "sent", page |-> EmptyPage, table |-> {}]}

\* The address of the wallet changes: the list is emptied and, if there is one,
\* fetched for the new address.  The clean-up clears the last timer.
SwitchWallet ==
  /\ list = "swaps"
  /\ \E w \in (Wallets \union {NoWallet}) \ {who} :
       /\ who' = w
       /\ IF w = NoWallet
            THEN fetching' = FALSE /\ loadingMore' = FALSE /\ calls' = Superseded /\ UNCHANGED sent
            ELSE fetching' = TRUE /\ UNCHANGED loadingMore /\ Send(Superseded, "first", w, <<>>)
  /\ shown' = <<>> /\ cursor' = <<>> /\ base' = {} /\ mixed' = FALSE
  /\ timers' = {t \in timers : ~t.known}
  /\ UNCHANGED <<list, table, successes>>

\* SWAP_SUCCESS_EVENT: a refetch in two seconds; the variable of an earlier
\* timer is overwritten.
SwapSucceeds ==
  /\ list = "swaps" /\ who # NoWallet /\ successes < MaxTimers
  /\ successes' = successes + 1
  /\ timers' = {[t EXCEPT !.known = FALSE] : t \in timers} \union {[wallet |-> who, known |-> TRUE]}
  /\ UNCHANGED <<list, table, who, screen, fetching, loadingMore, calls, sent>>

\* loadSwaps with the address the timer was set for.
Refetch ==
  /\ \E t \in timers :
       /\ timers' = timers \ {t}
       /\ fetching' = TRUE
       /\ Send(Superseded, "first", t.wallet, <<>>)
  /\ UNCHANGED <<list, table, who, screen, loadingMore, successes>>

\* The arbitrage page is opened, or refreshes itself.
RefreshTrips ==
  /\ list = "trips"
  /\ Send(Superseded, "first", NoWallet, <<>>)
  /\ UNCHANGED <<list, table, who, screen, fetching, loadingMore, timers, successes>>

\* loadMore of either list; the page does not look at a refresh under way.
LoadMore ==
  /\ cursor # <<>> /\ ~loadingMore
  /\ list = "swaps" => who # NoWallet /\ ~fetching
  /\ loadingMore' = TRUE
  /\ Send(calls, "more", who, cursor)
  /\ UNCHANGED <<list, table, who, screen, fetching, timers, successes>>

\* The answer of the newest fetch replaces the list, one that was superseded is
\* ignored.  A request without an answer fails.
TakeFirst(c) ==
  /\ c.op = "first"
  /\ calls' = calls \ {c}
  /\ IF c.current /\ c.pc = "ok"
       THEN /\ shown' = c.page.rows /\ cursor' = c.page.next
            /\ base' = c.table
            /\ mixed' = IF list = "swaps" THEN c.user # who ELSE \E d \in calls : d.op = "more"
       ELSE UNCHANGED screen
  /\ fetching' = (fetching /\ ~c.current)
  /\ UNCHANGED <<list, table, who, loadingMore, timers, sent, successes>>

\* The wallet's list ignores a page when the list was fetched anew; the arbitrage
\* page appends it all the same.
Fits(c) == list = "swaps" => c.current

Appended(rows) ==
  LET new == {i \in DOMAIN rows : list = "trips" \/ rows[i] \notin Range(shown)}
  IN shown \o [i \in 1 .. Cardinality(new) |->
                 rows[CHOOSE j \in new : Cardinality({k \in new : k <= j}) = i]]

\* A page that is ignored leaves loadingMore as it is.
TakeMore(c) ==
  /\ c.op = "more"
  /\ calls' = calls \ {c}
  /\ IF Fits(c) /\ c.pc = "ok"
       THEN shown' = Appended(c.page.rows) /\ cursor' = c.page.next
       ELSE UNCHANGED <<shown, cursor>>
  /\ loadingMore' = (loadingMore /\ ~Fits(c))
  /\ UNCHANGED <<list, table, who, base, mixed, fetching, timers, sent, successes>>

HistoryNext ==
  \/ IndexSwap \/ SwitchWallet \/ SwapSucceeds \/ Refetch \/ RefreshTrips \/ LoadMore
  \/ \E c \in calls : Serve(c) \/ TakeFirst(c) \/ TakeMore(c)

HistorySpec == HistoryInit /\ [][HistoryNext]_shvars

-----------------------------------------------------------------------------

(***************************************************************************)
(* A list shows its rows newest first and none twice, only rows of the     *)
(* wallet or successful round trips, and leaves out none that the table    *)
(* held when the first page was read: none above its last row, and none at *)
(* all when there is no more - while rows are added above and below, rows  *)
(* share a second, pages and refetches overtake each other and the wallet  *)
(* changes.  Excepted are lists that a timer of an earlier wallet fetched, *)
(* and an arbitrage page refreshed while another page was on its way.      *)
(***************************************************************************)
HistoryIsWhole ==
  ~mixed =>
    /\ \A i \in 1 .. Len(shown) - 1 : Below(shown[i + 1], shown[i])
    /\ Range(shown) \subseteq Listed(table, who)
    /\ \A s \in Listed(base, who) :
         cursor = <<>> \/ ~Below(s, shown[Len(shown)]) => s \in Range(shown)
=============================================================================
