----------------------------- MODULE Settlement -----------------------------
(***************************************************************************)
(* The aggregator and the vault contracts (contracts/aggregator,           *)
(* contracts/vault).  A call moves through its steps one pool at a time    *)
(* and is atomic: nothing else happens until it has paid out or has been   *)
(* undone, because an assertion, a token or a pool failed.                 *)
(*                                                                         *)
(* A route of a leg carries `upto`, the input of the routes up to it, so   *)
(* that amount_in of a SubRoute is the difference to the route before.     *)
(* The in_idx and out_idx of a step name the tokens it swaps, and the one  *)
(* pair of tokens a pool has.  initialize and upgrade are left out: both   *)
(* contracts are deployed and have an administrator.                       *)
(***************************************************************************)
EXTENDS Integers, Sequences, SequencesExt

CONSTANTS
  Users, Tokens, Venues,
  Vault, Agg,   \* the contracts' own accounts
  Kind,         \* DexType of each venue
  NoCall,       \* no call is being executed
  I128Max,      \* largest i128
  Legs,         \* bound: sequences of routes callers use
  Minimums,     \* bound: min_amount_out of calls
  Payments,     \* bound: what a pool pays in one swap
  Endowment,    \* bound: what every account and pool has at first
  MaxFund,      \* bound: amount of deposits and withdrawals
  MaxCalls,     \* bound: entry points called
  MaxLedger     \* bound: ledger sequence

Kinds == {"aquarius", "soroswap", "phoenix", "sushi", "comet"}
Accounts == Users \union Venues \union {Vault, Agg}
Holdings == Accounts \X Tokens
Steps == [venue : Venues, in : Tokens, out : Tokens]

ASSUME SettlementAssumption ==
  /\ Vault \notin Users \union Venues \union {Agg} /\ Agg \notin Users \union Venues
  /\ Users \intersect Venues = {}
  /\ Kind \in [Venues -> Kinds]
  /\ I128Max \in Nat /\ MaxCalls \in Nat /\ MaxLedger \in Nat
  /\ Minimums \subseteq Int /\ Payments \subseteq Nat /\ Endowment \in [Holdings -> Nat]
  /\ Legs \subseteq Seq([upto : Int, steps : Seq(Steps)])
  /\ NoCall \notin [kind : {"swap", "restricted", "round_trip", "vault"}, user : Users,
                    in : Tokens, out : Tokens, there : Legs, back : Legs \union {<<>>},
                    min : Minimums]

VARIABLES
  bal,         \* balances of the token contracts
  allowance,   \* SAC allowance of a user to the vault: amount and last ledger
  registered,  \* Venue(..) keys of the aggregator
  callers,     \* Caller(..) keys of the vault
  ledger,
  call,        \* the arguments of the call being executed
  before,      \* balances and allowances when the call began
  side,        \* leg being executed: there or back
  total,       \* what the routes of the leg share
  given,       \* what the routes started so far have been given
  route, hop,  \* route and step being executed; hop 0 between two routes
  amount,      \* current_amount on the route
  made,        \* total_output of the leg so far
  base, depth, \* leg_counter when the leg began, max_depth of its paths so far
  legs,        \* leg events of the call
  calls        \* bound

progress == <<side, total, given, route, hop, amount, made, base, depth, legs>>
config == <<registered, callers, ledger>>
vars == <<bal, allowance, config, call, before, progress, calls>>

Amount(leg, i) == leg[i].upto - (IF i = 1 THEN 0 ELSE leg[i - 1].upto)
Total(leg) == leg[Len(leg)].upto

\* A transfer of amount x of token t.
Moved(b, from, to, t, x) ==
  [h \in Holdings |->
     b[h] + (IF h = <<to, t>> THEN x ELSE 0) - (IF h = <<from, t>> THEN x ELSE 0)]

Init ==
  /\ bal = Endowment
  /\ allowance = [h \in Users \X Tokens |-> [left |-> 0, until |-> 0]]
  /\ registered = Venues /\ callers = {} /\ ledger = 1
  /\ call = NoCall /\ before = [bal |-> bal, allowance |-> allowance]
  /\ side = "there" /\ total = 0 /\ given = 0 /\ route = 0 /\ hop = 0
  /\ amount = 0 /\ made = 0 /\ base = 0 /\ depth = 0 /\ legs = <<>>
  /\ calls = 0

-----------------------------------------------------------------------------
(***************************************************************************)
(* Entry points                                                            *)
(***************************************************************************)

\* validate_sub_routes: the routes are connected and lead from one token to
\* the other.
ValidLeg(leg, from, to) ==
  /\ leg # <<>> /\ Total(leg) <= I128Max
  /\ \A i \in DOMAIN leg :
       /\ Amount(leg, i) > 0
       /\ leg[i].steps # <<>>
       /\ Head(leg[i].steps).in = from /\ Last(leg[i].steps).out = to
       /\ \A j \in 1 .. Len(leg[i].steps) - 1 : leg[i].steps[j].out = leg[i].steps[j + 1].in

\* validate_registered_venues.
OnlyRegistered(leg) ==
  \A i \in DOMAIN leg : \A j \in DOMAIN leg[i].steps : leg[i].steps[j].venue \in registered

\* The first leg begins with what the aggregator has pulled.
Begin(c, pulled) ==
  /\ call = NoCall /\ calls < MaxCalls
  /\ call' = c /\ before' = [bal |-> bal, allowance |-> allowance]
  /\ side' = "there" /\ total' = Total(c.there) /\ given' = 0 /\ route' = 0 /\ hop' = 0
  /\ amount' = 0 /\ made' = 0 /\ base' = 0 /\ depth' = 0 /\ legs' = <<>>
  /\ bal' = pulled
  /\ calls' = calls + 1
  /\ UNCHANGED config

\* swap, and swap_restricted, which only takes registered venues.
Swap(c) ==
  /\ c.kind \in {"swap", "restricted"}
  /\ c.in # c.out /\ c.min > 0
  /\ ValidLeg(c.there, c.in, c.out)
  /\ c.kind = "restricted" => OnlyRegistered(c.there)
  /\ bal[<<c.user, c.in>>] >= Total(c.there)
  /\ Begin(c, Moved(bal, c.user, Agg, c.in, Total(c.there)))
  /\ UNCHANGED allowance

\* The assertions of round_trip_swap; amount_in is what the first leg adds up to.
ValidRoundTrip(c) ==
  /\ c.min >= Total(c.there) /\ c.in # c.out
  /\ ValidLeg(c.there, c.in, c.out) /\ ValidLeg(c.back, c.out, c.in)

RoundTrip(c) ==
  /\ c.kind = "round_trip"
  /\ ValidRoundTrip(c)
  /\ bal[<<c.user, c.in>>] >= Total(c.there)
  /\ Begin(c, Moved(bal, c.user, Agg, c.in, Total(c.there)))
  /\ UNCHANGED allowance

\* The vault lends a caller the input of a round trip and is allowed to take
\* its return, whatever it will be.
ExecuteRoundTrip(c) ==
  /\ c.kind = "vault" /\ c.user \in callers
  /\ ValidRoundTrip(c)
  /\ bal[<<Vault, c.in>>] >= Total(c.there)
  /\ Begin(c, Moved(Moved(bal, Vault, c.user, c.in, Total(c.there)),
                    c.user, Agg, c.in, Total(c.there)))
  /\ \E until \in ledger .. MaxLedger :
       allowance' = [allowance EXCEPT ![<<c.user, c.in>>] = [left |-> I128Max, until |-> until]]

-----------------------------------------------------------------------------
(***************************************************************************)
(* execute_sub_routes                                                      *)
(***************************************************************************)
Leg == IF side = "there" THEN call.there ELSE call.back

\* Mutant: division before multiplication.
ScaledDividedFirst(i) ==
  IF i = Len(call.back) THEN total - given
  ELSE Amount(call.back, i) * (total \div Total(call.back))

\* scale_sub_routes_to_total: amounts of the second leg are weights; the last
\* route takes what the rounding of the others left.
Scaled(i) ==
  IF i = Len(call.back) THEN total - given
  ELSE (Amount(call.back, i) * total) \div Total(call.back)

StartRoute ==
  /\ call # NoCall /\ hop = 0 /\ route < Len(Leg)
  /\ route' = route + 1 /\ hop' = 1
  /\ amount' = IF side = "there" THEN Amount(Leg, route') ELSE Scaled(route')
  /\ amount' > 0
  /\ given' = given + amount'
  /\ UNCHANGED <<bal, allowance, config, call, before, side, total, made, base, depth,
                 legs, calls>>

\* soroswap_fee and soroswap_get_amount_out.
SoroswapFee(x) ==
  IF x <= 0 THEN 0 ELSE IF 3 * x + 999 > I128Max THEN I128Max \div 1000 ELSE (3 * x + 999) \div 1000

SoroswapOut(x, in, out) ==
  LET less == x - SoroswapFee(x)
      product == IF less * out > I128Max THEN I128Max ELSE less * out
      sum == IF in + less > I128Max THEN I128Max ELSE in + less
  IN IF x <= 0 \/ in <= 0 \/ out <= 0 \/ less <= 0 THEN 0 ELSE product \div sum

\* What a pool pays: a Soroswap pair what the aggregator asks for, computed
\* from the reserves before, the others what they find right.
Pays(v, x, in, out) ==
  IF Kind[v] = "soroswap" THEN {SoroswapOut(x, bal[<<v, in>>], bal[<<v, out>>])} ELSE Payments

\* What the aggregator takes the output to be: the pool's word, or what its
\* balance has grown by.
Received(v, paid, old, new) == IF Kind[v] \in {"aquarius", "comet"} THEN paid ELSE new - old

(***************************************************************************)
(* execute_step: the pool takes the whole input, because the authorization *)
(* of the transfer (or the approval, for comet) names the amount.          *)
(***************************************************************************)
Hop ==
  /\ call # NoCall /\ hop > 0
  /\ LET step == Leg[route].steps[hop]
         v == step.venue
     IN /\ step.in # step.out
        /\ \E paid \in Pays(v, amount, step.in, step.out) :
             /\ paid \in 0 .. bal[<<v, step.out>>]
             /\ bal' = Moved(Moved(bal, Agg, v, step.in, amount), v, Agg, step.out, paid)
             /\ amount' = Received(v, paid, bal[<<Agg, step.out>>], bal'[<<Agg, step.out>>])
        /\ amount' > 0
        /\ legs' = Append(legs, [hop |-> base + hop - 1, venue |-> v, in |-> step.in,
                                 amount |-> amount])
        /\ depth' = IF hop > depth THEN hop ELSE depth
        /\ IF hop = Len(Leg[route].steps)
             THEN hop' = 0 /\ made' = made + amount' /\ made' <= I128Max
             ELSE hop' = hop + 1 /\ made' = made
  /\ UNCHANGED <<allowance, config, call, before, side, total, given, route, base, calls>>

LegDone == call # NoCall /\ hop = 0 /\ route = Len(Leg)

\* Where the hop indices of the second leg begin.
NextBase == base + depth

\* What came out of the first leg of a round trip goes into the second.
TurnBack ==
  /\ LegDone /\ side = "there" /\ call.kind \in {"round_trip", "vault"}
  /\ made > 0
  /\ side' = "back" /\ total' = made /\ given' = 0 /\ route' = 0 /\ made' = 0
  /\ base' = NextBase /\ depth' = 0
  /\ UNCHANGED <<bal, allowance, config, call, before, hop, amount, legs, calls>>

\* No call is being executed any more.
Idle ==
  /\ call' = NoCall /\ before' = [bal |-> bal', allowance |-> allowance']
  /\ side' = "there" /\ total' = 0 /\ given' = 0 /\ route' = 0 /\ hop' = 0
  /\ amount' = 0 /\ made' = 0 /\ base' = 0 /\ depth' = 0 /\ legs' = <<>>
  /\ UNCHANGED <<config, calls>>

PayOut ==
  /\ LegDone /\ call.kind \in {"swap", "restricted"}
  /\ made >= call.min
  /\ bal' = Moved(bal, Agg, call.user, call.out, made)
  /\ UNCHANGED allowance
  /\ Idle

PayBack ==
  /\ LegDone /\ side = "back" /\ call.kind = "round_trip"
  /\ made >= call.min
  /\ bal' = Moved(bal, Agg, call.user, call.in, made)
  /\ UNCHANGED allowance
  /\ Idle

\* Mutant: the vault takes back the minimum that was known beforehand.
ReclaimedMinimum == call.min

\* What the vault takes back with transfer_from.
Reclaimed == made

\* The caller is paid and the vault takes its return.
PayVault ==
  /\ LegDone /\ side = "back" /\ call.kind = "vault"
  /\ made >= call.min
  /\ LET a == allowance[<<call.user, call.in>>]
     IN /\ a.left >= Reclaimed /\ a.until >= ledger
        /\ allowance' = [allowance EXCEPT ![<<call.user, call.in>>] =
                           [a EXCEPT !.left = @ - Reclaimed]]
  /\ bal' = Moved(Moved(bal, Agg, call.user, call.in, made),
                  call.user, Vault, call.in, Reclaimed)
  /\ Idle

\* A failed assertion, token or pool undoes the whole call.
Revert ==
  /\ call # NoCall
  /\ bal' = before.bal /\ allowance' = before.allowance
  /\ Idle

-----------------------------------------------------------------------------
(***************************************************************************)
(* Administration and the vault's funds                                    *)
(***************************************************************************)
Administer == call = NoCall /\ calls < MaxCalls /\ calls' = calls + 1

SetVenue(v) ==
  /\ Administer
  /\ registered' = IF v \in registered THEN registered \ {v} ELSE registered \union {v}
  /\ UNCHANGED <<bal, allowance, callers, ledger, call, before, progress>>

\* add_caller and remove_caller.
SetCaller(u) ==
  /\ Administer
  /\ callers' = IF u \in callers THEN callers \ {u} ELSE callers \union {u}
  /\ UNCHANGED <<bal, allowance, registered, ledger, call, before, progress>>

\* deposit and admin_withdraw.
Fund(from, to, t, x) ==
  /\ Administer
  /\ 0 < x /\ x <= bal[<<from, t>>]
  /\ bal' = Moved(bal, from, to, t, x)
  /\ before' = [before EXCEPT !.bal = bal']
  /\ UNCHANGED <<allowance, config, call, progress>>

Tick ==
  /\ call = NoCall /\ ledger < MaxLedger
  /\ ledger' = ledger + 1
  /\ UNCHANGED <<bal, allowance, registered, callers, call, before, progress, calls>>

Calls ==
  [kind : {"swap", "restricted"}, user : Users, in : Tokens, out : Tokens,
   there : Legs, back : {<<>>}, min : Minimums]
  \union [kind : {"round_trip", "vault"}, user : Users, in : Tokens, out : Tokens,
          there : Legs, back : Legs, min : Minimums]

Next ==
  \/ call = NoCall /\ \E c \in Calls : Swap(c) \/ RoundTrip(c) \/ ExecuteRoundTrip(c)
  \/ StartRoute \/ Hop \/ TurnBack \/ PayOut \/ PayBack \/ PayVault \/ Revert
  \/ \E v \in Venues : SetVenue(v)
  \/ \E u \in Users : SetCaller(u)
  \/ \E u \in Users, t \in Tokens, x \in 1 .. MaxFund :
       Fund(u, Vault, t, x) \/ Fund(Vault, u, t, x)
  \/ Tick

Spec == Init /\ [][Next]_vars

-----------------------------------------------------------------------------
(***************************************************************************)
(* Properties                                                              *)
(***************************************************************************)

\* The product of a pair's reserves, of which it takes its fee first, as the
\* pair itself checks it.
PairFee(x) == (3 * x + 999) \div 1000
Accepts(in, out, x, paid) == (in + x - PairFee(x)) * (out - paid) >= in * out

Loss(h) == before.bal[h] - bal'[h]

\* The end of a call: nobody but its payer has lost or gained, and that only
\* the two tokens of the call.
OnlyPayerMoves ==
  \A a \in Users \union {Vault, Agg}, t \in Tokens :
    Loss(<<a, t>>) # 0 => /\ a = (IF call.kind = "vault" THEN Vault ELSE call.user)
                          /\ t \in {call.in, call.out}

PayerGetsMinimum ==
  CASE call.kind \in {"swap", "restricted"} ->
         /\ Loss(<<call.user, call.in>>) = Total(call.there)
         /\ Loss(<<call.user, call.out>>) <= -call.min
    [] call.kind = "round_trip" ->
         /\ Loss(<<call.user, call.in>>) <= Total(call.there) - call.min
         /\ Loss(<<call.user, call.out>>) = 0
    [] call.kind = "vault" ->
         /\ Loss(<<Vault, call.in>>) <= Total(call.there) - call.min
         /\ Loss(<<Vault, call.out>>) = 0

OnlyRegisteredPaid ==
  call.kind = "restricted" => \A v \in Venues \ registered, t \in Tokens : Loss(<<v, t>>) = 0

\* A step of a call: the product of every Soroswap pair it goes through.
PairsAccept ==
  \A v \in Venues, t, u \in Tokens :
    LET x == bal'[<<v, t>>] - bal[<<v, t>>]
        paid == bal[<<v, u>>] - bal'[<<v, u>>]
    IN (Kind[v] = "soroswap" /\ x > 0 /\ paid > 0) =>
         Accepts(bal[<<v, t>>], bal[<<v, u>>], x, paid)

(***************************************************************************)
(* A call that is not undone leaves its user, the vault and everyone else  *)
(* with what the contracts promise, and nothing with the aggregator, which *)
(* divides its inputs: a swap takes the input and pays the minimum at      *)
(* least, through registered pools only if it was restricted; a round trip *)
(* returns the minimum at least; one through the vault does so to the      *)
(* vault and leaves the caller's own funds unused.  A Soroswap pair        *)
(* accepts what the aggregator, which computes the amount outside the      *)
(* pair, asks of it: its constant product, after the fee it takes, never   *)
(* shrinks.                                                                *)
(***************************************************************************)
CallsSettle ==
  [][/\ (call # NoCall /\ call' = NoCall /\ bal' # before.bal) =>
          OnlyPayerMoves /\ PayerGetsMinimum /\ OnlyRegisteredPaid
     /\ (call # NoCall /\ call' # NoCall) => PairsAccept]_vars

(***************************************************************************)
(* Each route of the second leg gets its share by weight: less than one    *)
(* unit too little, or on the last route less than one unit per route too  *)
(* much; and no route whose share is a unit or more is refused as empty.   *)
(***************************************************************************)
SharesFollowWeights ==
  (call # NoCall /\ side = "back" /\ hop = 0 /\ route < Len(call.back)) =>
    LET i == route + 1
        n == Len(call.back)
        w == Total(call.back)
        share == Amount(call.back, i) * total
    IN /\ IF i < n THEN Scaled(i) * w <= share /\ share < (Scaled(i) + 1) * w
                   ELSE share <= Scaled(i) * w /\ Scaled(i) * w <= share + (n - 1) * w
       /\ share >= w => Scaled(i) > 0

\* What the leg events with a hop index add up to.
Volume(h) == FoldSeq(LAMBDA e, sum : IF e.hop = h THEN sum + e.amount ELSE sum, 0, legs)

(***************************************************************************)
(* The volume of a call can be told from its leg events: those with the    *)
(* first hop index of a leg add up to the leg's input, even if its paths   *)
(* have different lengths.                                                 *)
(***************************************************************************)
LegEventsTellVolume ==
  LegDone => /\ Volume(base) = total
             /\ side = "back" => Volume(0) = Total(call.there)

\* Every leg of a call divides its input as its routes say, and shows it.
LegsAddUp == SharesFollowWeights /\ LegEventsTellVolume
=============================================================================
