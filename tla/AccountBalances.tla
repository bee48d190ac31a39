-------------------------- MODULE AccountBalances --------------------------
(***************************************************************************)
(* The balances and trustlines of the connected account as the web page    *)
(* caches them (packages/frontend/src/lib/account-balances-context.tsx):   *)
(* refreshed in two batches, completed token by token, and marked by the   *)
(* page itself when it has added a trustline.  The wallet may change the   *)
(* account at any moment, while answers for the last one are on their way. *)
(* A cached value is modelled by the account it is about, a trustline also *)
(* by whether it is there.                                                 *)
(***************************************************************************)
EXTENDS Integers, FiniteSets

CONSTANTS
  Accounts,
  Assets,       \* tokens
  Common,       \* those of the small batch
  Catalog,      \* those of the large one; others are only read one by one
  NoOne,        \* no account; also: no entry
  MaxSwitches,  \* bound: changes of the account
  MaxReads      \* bound: refreshes, readings of one token and marks

ASSUME BalancesAssumption ==
  /\ Common \subseteq Assets /\ Catalog \subseteq Assets /\ NoOne \notin Accounts
  /\ MaxSwitches \in Nat /\ MaxReads \in Nat

VARIABLES
  address,    \* of the wallet, as the page last drew it
  owner,      \* balanceAccountRef: set by the effect that clears the caches
  balances, hasTrustline,
  overrides,  \* trustlines the page has added itself
  batch,      \* the refresh whose id is the current one
  lazy,       \* ensureBalance: readings of one token under way
  inflight,   \* tokens whose reading has not ended or been forgotten
  adding,     \* handleAddTrustline: the account and the token
  trust,      \* the chain: trustlines there are
  told,       \* those the RPC knows of, which may lag behind
  switches, reads   \* bounds

caches == <<balances, hasTrustline, overrides>>
chain == <<trust, told>>
bvars == <<address, owner, caches, batch, lazy, inflight, adding, chain, switches, reads>>

Empty == [t \in Assets |-> NoOne]
NoBatch == [of |-> NoOne, stage |-> "none"]
Entry(a, there) == [of |-> a, there |-> there]

BalancesInit ==
  /\ address \in Accounts /\ owner = address
  /\ balances = Empty /\ hasTrustline = Empty /\ overrides = {}
  /\ batch = [of |-> address, stage |-> "common"]
  /\ lazy = {} /\ inflight = {} /\ adding = NoBatch
  /\ trust = [a \in Accounts |-> {}] /\ told = trust
  /\ switches = 0 /\ reads = 0

\* The tokens of a batch; one whose reading fails, or whose amount is zero, is
\* not in the answer.
Scope(stage) == IF stage = "common" THEN Common ELSE Catalog

\* What a reading of one token says of its trustline, done early or late.
Says(task) == {task.saw, task.token \in told[task.of]}

\* The wallet reports another account, or none: the page is drawn with it, once
\* React has run the effects of the last drawing.
Switch ==
  /\ owner = address
  /\ switches < MaxSwitches /\ switches' = switches + 1
  /\ address' \in (Accounts \union {NoOne}) \ {address}
  /\ UNCHANGED <<owner, caches, batch, lazy, inflight, adding, chain, reads>>

\* Then the effect resets every cache and refreshes.
Effect ==
  /\ owner # address
  /\ owner' = address
  /\ balances' = Empty /\ hasTrustline' = Empty /\ overrides' = {}
  /\ inflight' = {}
  /\ batch' = IF address = NoOne THEN NoBatch ELSE [of |-> address, stage |-> "common"]
  /\ UNCHANGED <<address, lazy, adding, chain, switches, reads>>

\* After a swap, and when the page gets the focus again.  The listeners belong
\* to the account of the last effect.
RefreshAll ==
  /\ reads < MaxReads /\ reads' = reads + 1
  /\ address # NoOne /\ owner # NoOne
  /\ batch' = [of |-> owner, stage |-> "common"]
  /\ UNCHANGED <<address, owner, caches, lazy, inflight, adding, chain, switches>>

\* A batch holds the amounts that are not zero and the trustlines that are known.
\* mergeTrustlines: the page's own marks win until the batch confirms them.
Received ==
  /\ batch # NoBatch
  /\ \E found \in SUBSET Scope(batch.stage) :
       LET a == batch.of
           first == batch.stage = "common"
           confirmed == found \intersect told[a]
           own == overrides \ confirmed
       IN /\ balances' = [t \in Assets |->
               IF t \in found THEN a ELSE IF first \/ t \notin Common THEN NoOne ELSE balances[t]]
          /\ hasTrustline' = [t \in Assets |->
               IF t \in own THEN Entry(a, TRUE)
               ELSE IF t \in found THEN Entry(a, t \in told[a])
               ELSE IF first \/ t \notin Common THEN NoOne ELSE hasTrustline[t]]
          /\ overrides' = own
  /\ batch' = IF batch.stage = "common" THEN [batch EXCEPT !.stage = "catalog"] ELSE NoBatch
  /\ UNCHANGED <<address, owner, lazy, inflight, adding, chain, switches, reads>>

\* A failed first batch empties the caches; a failed second one changes nothing.
Failed ==
  /\ batch # NoBatch
  /\ IF batch.stage = "common"
       THEN /\ balances' = Empty
            /\ hasTrustline' = [t \in Assets |-> IF t \in overrides THEN Entry(owner, TRUE) ELSE NoOne]
       ELSE UNCHANGED <<balances, hasTrustline>>
  /\ batch' = NoBatch
  /\ UNCHANGED <<address, owner, overrides, lazy, inflight, adding, chain, switches, reads>>

\* ensureBalance: a reading under way is shared, not repeated.
Ensure ==
  /\ reads < MaxReads /\ reads' = reads + 1
  /\ address # NoOne
  /\ \E t \in Assets \ inflight :
       /\ owner = address => balances[t] = NoOne \/ hasTrustline[t] = NoOne
       /\ lazy' = lazy \union {[of |-> address, token |-> t, saw |-> t \in told[address]]}
       /\ inflight' = inflight \union {t}
  /\ UNCHANGED <<address, owner, caches, batch, adding, chain, switches>>

\* Mutant: the answer is taken whoever is connected by now.
WantedAlways(a) == TRUE

Wanted(a) == address = a

\* Its answer, for the account it was asked for.
Ensured ==
  \E task \in lazy :
    /\ lazy' = lazy \ {task}
    /\ inflight' = inflight \ {task.token}
    /\ LET t == task.token
       IN \/ /\ Wanted(task.of)
             /\ balances' = [balances EXCEPT ![t] = task.of]
             /\ \E there \in Says(task) :
                  IF there
                    THEN /\ overrides' = overrides \ {t}
                         /\ hasTrustline' = [hasTrustline EXCEPT ![t] = Entry(task.of, TRUE)]
                    ELSE /\ UNCHANGED overrides
                         /\ hasTrustline' = IF t \in overrides THEN hasTrustline
                              ELSE [hasTrustline EXCEPT ![t] = Entry(task.of, FALSE)]
          \/ UNCHANGED caches
    /\ UNCHANGED <<address, owner, batch, adding, chain, switches, reads>>

\* handleAddTrustline: signed by the account that is connected, and confirmed ...
AddTrustline ==
  /\ adding = NoBatch /\ reads < MaxReads /\ reads' = reads + 1
  /\ address # NoOne /\ owner = address
  /\ \E t \in Assets :
       /\ hasTrustline[t] = Entry(address, FALSE) /\ t \notin overrides
       /\ adding' = [of |-> address, stage |-> t]
       /\ trust' = [trust EXCEPT ![address] = @ \union {t}]
  /\ UNCHANGED <<address, owner, caches, batch, lazy, inflight, told, switches>>

\* ... marked, whichever account is connected by then (markHasTrustline).
Mark ==
  /\ adding # NoBatch
  /\ adding' = NoBatch
  /\ overrides' = overrides \union {adding.stage}
  /\ hasTrustline' = [hasTrustline EXCEPT ![adding.stage] = Entry(adding.of, TRUE)]
  /\ UNCHANGED <<address, owner, balances, batch, lazy, inflight, chain, switches, reads>>

CatchUp ==
  /\ told # trust /\ told' = trust
  /\ UNCHANGED <<address, owner, caches, batch, lazy, inflight, adding, trust, switches, reads>>

BalancesNext ==
  \/ Switch \/ Effect \/ RefreshAll \/ Received \/ Failed \/ Ensure \/ Ensured
  \/ AddTrustline \/ Mark \/ CatchUp

BalancesSpec == BalancesInit /\ [][BalancesNext]_bvars

-----------------------------------------------------------------------------
(***************************************************************************)
(* Properties                                                              *)
(***************************************************************************)

\* getBalance, getHasTrustline: nothing between a change and its effect.
Shown(cache) == IF owner = address THEN cache ELSE Empty

(***************************************************************************)
(* A balance on the page is one of the account on the page, whenever the   *)
(* wallet changes it and whatever was under way (ensureBalance, refresh).  *)
(***************************************************************************)
BalancesAreOwn == \A t \in Assets : Shown(balances)[t] \in {NoOne, address}

(***************************************************************************)
(* The same for trustlines, as the comment has it ("Every cache below is   *)
(* account-scoped").  It does not hold: Mark.                              *)
(***************************************************************************)
TrustlinesAreOwn ==
  \A t \in Assets : Shown(hasTrustline)[t] # NoOne => Shown(hasTrustline)[t].of = address

(***************************************************************************)
(* A trustline the page has shown to be there does not disappear from it   *)
(* while the account stays.  It does not hold: Ensured.                    *)
(***************************************************************************)
TrustlinesStay ==
  [][\A t \in Assets :
       address' = address /\ Shown(hasTrustline)[t] = Entry(address, TRUE)
         => Shown(hasTrustline)'[t] # Entry(address, FALSE)]_bvars
=============================================================================
