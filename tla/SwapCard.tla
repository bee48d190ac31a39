------------------------------ MODULE SwapCard ------------------------------
(***************************************************************************)
(* The swap form of the web page (packages/frontend): the quote it keeps   *)
(* up to date while the user edits, and the transaction it builds from it, *)
(* has signed, broadcasts and then tracks until the network has decided.   *)
(*                                                                         *)
(* An instance of the form (a "mount") is replaced by a new one when the   *)
(* page is reloaded, which ends its tasks, and when the user turns to the  *)
(* limit orders and back, which does not: React forgets its state, but an  *)
(* async function that has begun runs on.                                  *)
(***************************************************************************)
EXTENDS Integers, Sequences, FiniteSets

CONSTANTS
  Tokens,      \* the token catalog
  FirstPair,   \* the pair of a new form
  Amounts,     \* positive amounts one can type
  Limits,      \* swap settings: slippage, hops, splits
  NoQuote,     \* nothing to show; also: no request
  MaxMounts,   \* bound: instances of the form
  MaxTxs,      \* bound: transactions built
  MaxEdits,    \* bound: edits of the form
  MaxQuotes    \* bound: quotes asked for

ASSUME CardAssumption ==
  /\ FirstPair \in Tokens \X Tokens /\ FirstPair[1] # FirstPair[2] /\ Amounts \subseteq Nat \ {0}
  /\ MaxMounts \in Nat \ {0} /\ MaxTxs \in Nat /\ MaxEdits \in Nat /\ MaxQuotes \in Nat

Pairs == {p \in Tokens \X Tokens : p[1] # p[2]}
Mounts == 1 .. MaxMounts
Txs == 0 .. MaxTxs               \* 0: none

VARIABLES
  form,       \* pair, amount (0: none), limits
  link,       \* the pair the address of the page asks for, until the catalog is there
  quote,      \* the quote shown
  stale, loading, debounce,
  request,    \* the request that has not been aborted
  view,       \* the mount on the page
  swap,       \* handleSwap of each mount
  pending,    \* pendingRef of each mount
  checking,   \* checkPending of each mount
  kept,       \* the transaction in the session storage
  storage,    \* whether there is a session storage
  result,     \* the outcome shown: a transaction and whether it succeeded
  txs,        \* transactions built, and what became of them
  landed,     \* sequence number of the account
  loose,      \* history: transactions the user gave up, or the page lost track
              \* of (no storage, or signed after the user had turned away)
  edits, quotes  \* bounds

asking == <<form, link, quote, stale, loading, debounce, request, edits, quotes>>
tracking == <<swap, pending, checking, kept, result, txs, landed, loose>>
cardvars == <<asking, view, storage, tracking>>

Idle == [pc |-> "idle", quote |-> NoQuote, amount |-> 0, tx |-> 0]
NoResult == [tx |-> 0, success |-> FALSE]

CardInit ==
  /\ \E l \in Limits : form = [pair |-> FirstPair, amount |-> 0, limits |-> l]
  /\ link \in {<<>>} \union Pairs
  /\ quote = NoQuote /\ request = NoQuote
  /\ stale = FALSE /\ loading = FALSE /\ debounce = FALSE
  /\ view = 1 /\ storage \in BOOLEAN
  /\ swap = [m \in Mounts |-> Idle]
  /\ pending = [m \in Mounts |-> 0] /\ checking = [m \in Mounts |-> 0]
  /\ kept = 0 /\ result = NoResult
  /\ txs = <<>> /\ landed = 0 /\ loose = {}
  /\ edits = 0 /\ quotes = 0

-----------------------------------------------------------------------------
(***************************************************************************)
(* The form and its quote.  Only the last request counts (AbortController),*)
(* and only if the form is still, or again, the one it was made for.       *)
(***************************************************************************)

\* The effects on amount and loadQuote: the timer is set anew; without an
\* amount there is no quote and no timer.
Edited(f, q) ==
  /\ edits < MaxEdits /\ edits' = edits + 1
  /\ form' = f
  /\ quote' = IF f.amount = 0 THEN NoQuote ELSE q
  /\ debounce' = (f.amount # 0 /\ (f # form \/ debounce))
  /\ UNCHANGED <<stale, view, storage, tracking>>

\* loadQuote.
Load(silent) ==
  /\ quotes < MaxQuotes /\ quotes' = quotes + 1
  /\ request' = [of |-> form, silent |-> silent]
  /\ loading' = (loading \/ ~silent)

TypeAmount ==
  \E a \in Amounts \union {0} :
    /\ a # form.amount
    /\ Edited([form EXCEPT !.amount = a], quote)
    /\ UNCHANGED <<link, loading, request, quotes>>

ChangeSettings ==
  \E l \in Limits \ {form.limits} :
    /\ Edited([form EXCEPT !.limits = l], quote)
    /\ UNCHANGED <<link, loading, request, quotes>>

\* resolveTokenSelection: choosing the other token swaps the two.
Chosen(pair, i, t) ==
  IF t = pair[3 - i] THEN <<pair[2], pair[1]>> ELSE [pair EXCEPT ![i] = t]

\* handleTokenInSelect, handleTokenOutSelect, swapDirection.
ChooseToken ==
  \E i \in {1, 2}, t \in Tokens :
    /\ t # form.pair[i]
    /\ Edited([form EXCEPT !.pair = Chosen(form.pair, i, t),
                           !.amount = IF i = 1 THEN 0 ELSE @], NoQuote)
    /\ UNCHANGED <<link, loading, request, quotes>>

\* applyBalancePercent: the same amount again triggers no effect.
ChoosePercent ==
  \E a \in Amounts :
    /\ Edited([form EXCEPT !.amount = a], NoQuote)
    /\ IF a = form.amount THEN Load(FALSE) ELSE UNCHANGED <<loading, request, quotes>>
    /\ UNCHANGED link

\* The token catalog has arrived, or could not be loaded: if it has the link's
\* tokens, they replace the pair chosen so far.
FollowLink ==
  /\ link # <<>>
  /\ link' = <<>>
  /\ \/ /\ form' = [form EXCEPT !.pair = link]
        /\ quote' = NoQuote
        /\ debounce' = (form.amount # 0 /\ (link # form.pair \/ debounce))
     \/ UNCHANGED <<form, quote, debounce>>
  /\ UNCHANGED <<stale, loading, request, edits, quotes, view, storage, tracking>>

DebounceFires ==
  /\ debounce
  /\ debounce' = FALSE
  /\ Load(FALSE)
  /\ UNCHANGED <<form, link, quote, stale, edits, view, storage, tracking>>

\* Every twelve seconds, and by the button beside the rate.
Refresh ==
  /\ form.amount # 0
  /\ Load(TRUE)
  /\ UNCHANGED <<form, link, quote, stale, debounce, edits, view, storage, tracking>>

\* Mutant: an answer counts whatever the form has become.
CountsAlways(asked) == TRUE

Counts(asked) == asked.of = form

\* What the API quotes: a route whose legs add up to the amount asked for.
Quoted(f) == [pair |-> f.pair, amount |-> f.amount, limits |-> f.limits]

\* The answer, or the failure, of the request.
Answer ==
  /\ request # NoQuote
  /\ request' = NoQuote
  /\ \/ /\ Counts(request)
        /\ quote' = Quoted(request.of) /\ stale' = FALSE
     \/ /\ Counts(request) /\ ~request.silent
        /\ quote' = NoQuote /\ stale' = FALSE
     \/ /\ ~Counts(request) \/ request.silent
        /\ UNCHANGED <<quote, stale>>
  /\ loading' = (loading /\ (request.silent \/ request.of # form))
  /\ UNCHANGED <<form, link, debounce, edits, quotes, view, storage, tracking>>

-----------------------------------------------------------------------------
(***************************************************************************)
(* The network.  A transaction has the sequence number that follows the    *)
(* account's when it is built, and no time bounds.                         *)
(***************************************************************************)
Undecided(t) == txs[t].status \in {"sent", "queued"}

Land ==
  \E t \in DOMAIN txs, status \in {"success", "failed"} :
    /\ txs[t].status = "queued" /\ txs[t].seq = landed + 1
    /\ txs' = [txs EXCEPT ![t].status = status]
    /\ landed' = landed + 1
    /\ UNCHANGED <<asking, view, storage, swap, pending, checking, kept, result, loose>>

-----------------------------------------------------------------------------
(***************************************************************************)
(* handleSwap                                                              *)
(***************************************************************************)
Goto(m, pc) == swap' = [swap EXCEPT ![m].pc = pc]
Ends(m) == swap' = [swap EXCEPT ![m] = Idle]

\* The state of the button that starts it.
Enabled ==
  /\ swap[view].pc = "idle" /\ pending[view] = 0
  /\ ~loading /\ quote # NoQuote /\ form.amount # 0

\* Mutant: the amounts are not compared.
IsOfAmountAny(q, amount) == TRUE

IsOfAmount(q, amount) == q.amount = amount

Click ==
  /\ Enabled
  /\ \/ /\ stale
        /\ Load(FALSE)
        /\ UNCHANGED <<form, link, quote, stale, debounce, edits, tracking>>
     \/ /\ ~stale /\ IsOfAmount(quote, form.amount)
        /\ swap' = [swap EXCEPT ![view] =
             [pc |-> "balance", quote |-> quote, amount |-> form.amount, tx |-> 0]]
        /\ result' = NoResult
        /\ UNCHANGED <<asking, pending, checking, kept, txs, landed, loose>>
     \/ /\ ~stale /\ ~IsOfAmount(quote, form.amount)
        /\ result # NoResult /\ result' = NoResult
        /\ UNCHANGED <<asking, swap, pending, checking, kept, txs, landed, loose>>
  /\ UNCHANGED <<view, storage>>

\* getBalance, or else ensureBalance; then build_tx.
BuildTx(m) ==
  /\ swap[m].pc = "balance"
  /\ \/ /\ Len(txs) < MaxTxs
        /\ txs' = Append(txs, [quote |-> swap[m].quote, amount |-> swap[m].amount,
                               seq |-> landed + 1, status |-> "built", valid |-> TRUE])
        /\ swap' = [swap EXCEPT ![m].pc = "sign", ![m].tx = Len(txs) + 1]
     \/ Ends(m) /\ UNCHANGED txs
  /\ UNCHANGED <<asking, view, storage, pending, checking, kept, result, landed, loose>>

\* Mutant: the transaction is remembered only in memory.
KeptNot(t) == kept

\* savePendingSwap.
Kept(t) == IF storage THEN t ELSE kept

\* signTx, with the account the wallet has selected by now; then, before the
\* broadcast, the hash is computed and kept.
Sign(m) ==
  /\ swap[m].pc = "sign"
  /\ \/ LET t == swap[m].tx
        IN /\ \E valid \in BOOLEAN : txs' = [txs EXCEPT ![t].status = "signed", ![t].valid = valid]
           /\ pending' = [pending EXCEPT ![m] = t]
           /\ kept' = Kept(t)
           /\ loose' = IF m = view THEN loose ELSE loose \union {t, kept}
           /\ Goto(m, "submit")
     \/ Ends(m) /\ UNCHANGED <<txs, pending, kept, loose>>
  /\ UNCHANGED <<asking, view, storage, checking, result, landed>>

\* submitViaOfficialRpc: taken, refused for good, or neither as far as one knows.
OfficialRpc(t) == {"refused", "sent"} \union IF txs[t].valid THEN {"queued"} ELSE {}

\* submit_tx: a refusal is an HTTP error, which tells the page as little as a
\* lost answer does.
ApiServer(t) == {"sent"} \union IF txs[t].valid THEN {"queued"} ELSE {}

\* submitTransaction, by the way the user prefers.
Broadcast(m) ==
  /\ swap[m].pc = "submit"
  /\ LET t == swap[m].tx
     IN \E status \in OfficialRpc(t) \union ApiServer(t) : txs' = [txs EXCEPT ![t].status = status]
  /\ Goto(m, "sent")
  /\ UNCHANGED <<asking, view, storage, pending, checking, kept, result, landed, loose>>

\* clearPendingSwap.
Cleared(t) == IF kept = t THEN 0 ELSE kept

\* finishPending: a mount that tracks another transaction by now does nothing.
Finish(m, t, success) ==
  /\ pending[m] = t
  /\ pending' = [pending EXCEPT ![m] = 0]
  /\ kept' = Cleared(t)
  /\ IF m = view THEN result' = [tx |-> t, success |-> success] /\ stale' = TRUE
                 ELSE UNCHANGED <<result, stale>>

\* PENDING, or ERROR of the official RPC; anything else leaves the transaction
\* pending.
Submitted(m) ==
  /\ swap[m].pc = "sent"
  /\ LET t == swap[m].tx
     IN \/ txs[t].status \notin {"refused", "sent"} /\ Goto(m, "confirm")
           /\ UNCHANGED <<pending, kept, result, stale>>
        \/ txs[t].status = "refused" /\ Ends(m) /\ Finish(m, t, FALSE)
        \/ Ends(m) /\ UNCHANGED <<pending, kept, result, stale>>
  /\ UNCHANGED <<form, link, quote, loading, debounce, request, edits, quotes,
                 view, storage, checking, txs, landed, loose>>

\* Mutant: a transaction that is not found has failed.
FinalHasty == {"success", "failed", "unknown"}

Final == {"success", "failed"}

\* fetchTxStatus: what the network knows by now, or nothing (NOT_FOUND, an error).
Statuses(t) == {"unknown"} \union ({txs[t].status} \intersect {"success", "failed"})

\* One look at a tracked transaction.
LookUp(m, t) ==
  \E status \in Statuses(t) :
    IF status \in Final THEN Finish(m, t, status = "success")
    ELSE UNCHANGED <<pending, kept, result, stale>>

\* waitForTxConfirmation: a final status, or none within a minute.
Confirm(m) ==
  /\ swap[m].pc = "confirm"
  /\ LookUp(m, swap[m].tx)
  /\ Ends(m)
  /\ UNCHANGED <<form, link, quote, loading, debounce, request, edits, quotes,
                 view, storage, checking, txs, landed, loose>>

-----------------------------------------------------------------------------
(***************************************************************************)
(* A pending transaction                                                   *)
(***************************************************************************)
Check ==
  /\ pending[view] # 0 /\ checking[view] = 0 /\ swap[view].pc = "idle"
  /\ checking' = [checking EXCEPT ![view] = pending[view]]
  /\ UNCHANGED <<asking, view, storage, swap, pending, kept, result, txs, landed, loose>>

Checked(m) ==
  /\ checking[m] # 0
  /\ checking' = [checking EXCEPT ![m] = 0]
  /\ LookUp(m, checking[m])
  /\ UNCHANGED <<form, link, quote, loading, debounce, request, edits, quotes,
                 view, storage, swap, txs, landed, loose>>

StopTracking ==
  /\ pending[view] # 0 /\ checking[view] = 0 /\ swap[view].pc = "idle"
  /\ pending' = [pending EXCEPT ![view] = 0]
  /\ kept' = Cleared(pending[view])
  /\ stale' = TRUE
  /\ loose' = loose \union {pending[view]}
  /\ UNCHANGED <<form, link, quote, loading, debounce, request, edits, quotes,
                 view, storage, swap, checking, result, txs, landed>>

-----------------------------------------------------------------------------
(***************************************************************************)
(* A new mount: the settings and the pair (from the page's address) stay,  *)
(* the pending transaction is read from the storage.                       *)
(***************************************************************************)
Mount ==
  /\ view < MaxMounts /\ view' = view + 1
  /\ form' = [form EXCEPT !.amount = 0]
  /\ quote' = NoQuote /\ request' = NoQuote
  /\ stale' = FALSE /\ loading' = FALSE /\ debounce' = FALSE
  /\ result' = NoResult
  /\ loose' = IF storage THEN loose ELSE loose \union {pending[view]}
  /\ UNCHANGED <<link, edits, quotes, storage, kept, txs, landed>>

Reload ==
  /\ Mount
  /\ swap' = [m \in Mounts |-> Idle]
  /\ checking' = [m \in Mounts |-> 0]
  /\ pending' = [m \in Mounts |-> IF m = view' THEN kept ELSE 0]

TurnAway ==
  /\ Mount
  /\ pending' = [pending EXCEPT ![view'] = kept]
  /\ UNCHANGED <<swap, checking>>

CardNext ==
  \/ TypeAmount \/ ChangeSettings \/ ChooseToken \/ ChoosePercent \/ FollowLink
  \/ DebounceFires \/ Refresh \/ Answer \/ Click
  \/ \E m \in Mounts : BuildTx(m) \/ Sign(m) \/ Broadcast(m) \/ Submitted(m)
                         \/ Confirm(m) \/ Checked(m)
  \/ Check \/ StopTracking \/ Reload \/ TurnAway \/ Land

CardSpec == CardInit /\ [][CardNext]_cardvars

-----------------------------------------------------------------------------
(***************************************************************************)
(* Properties                                                              *)
(***************************************************************************)

(***************************************************************************)
(* A transaction spends the amount that was in the form when the user      *)
(* clicked, and its legs and its minimum come from a quote for that amount *)
(* and for the pair the form has shown since - although answers arrive     *)
(* late and the form is edited while a quote is under way (loadQuote,      *)
(* handleSwap).                                                            *)
(***************************************************************************)
SwapsMatchQuotes ==
  /\ \A t \in DOMAIN txs : txs[t].quote.amount = txs[t].amount
  /\ quote # NoQuote => quote.pair = form.pair

(***************************************************************************)
(* A transaction that may still be executed is the one the page tracks,    *)
(* and blocks the next, until the network has decided or the user gives it *)
(* up: through lost answers, timeouts and reloads.  Left out are those the *)
(* page has no storage for and those signed for a form the user had turned *)
(* away from ("Persist before broadcasting").                              *)
(***************************************************************************)
NothingRepeatedBlindly ==
  \A t \in DOMAIN txs : Undecided(t) /\ t \notin loose => pending[view] = t

\* What the page says of a transaction is what became of it: no failure is
\* shown for one that may still be executed (finishPending).
ResultIsTrue ==
  result # NoResult =>
    txs[result.tx].status \in IF result.success THEN {"success"} ELSE {"failed", "refused"}

(***************************************************************************)
(* Both: until the page says what became of a transaction, truly, it keeps *)
(* track of it and lets no other one be sent (handleSwap, checkPending).   *)
(***************************************************************************)
OutcomesAreTracked == NothingRepeatedBlindly /\ ResultIsTrue

(***************************************************************************)
(* The settings too are those of the quote.  It does not hold: after       *)
(* ChangeSettings the old quote can be swapped until the timer has fired   *)
(* and its request has begun.                                              *)
(***************************************************************************)
SwapsUseTheSettings ==
  [][\A m \in Mounts : swap[m].pc = "idle" /\ swap'[m].pc = "balance"
       => swap'[m].quote.limits = form.limits]_cardvars

(***************************************************************************)
(* When the user leaves the form alone the button does not stay disabled   *)
(* for a quote that loads.  It does not hold: a refresh that begins while  *)
(* the quote loads aborts its request, and neither resets the flag.        *)
(***************************************************************************)
LoadingIsOfARequest == loading /\ form.amount # 0 => debounce \/ (request # NoQuote /\ ~request.silent)
=============================================================================
