---------------------------- MODULE OrderCustody ----------------------------
(***************************************************************************)
(* What the escrow promises the owner of an order, without tokens, prices, *)
(* schedules or callers: a deposit is held until it is drawn in parts,     *)
(* strictly before a deadline, or returned in one piece, after which the   *)
(* order is closed for good.                                               *)
(***************************************************************************)
EXTENDS Integers

CONSTANT Orders

VARIABLES
  clock,     \* time, in ledgers
  phase,     \* absent, open or closed
  held,      \* what is held for the order
  drawn,     \* what has been drawn for it
  returned,  \* what has been returned to its owner
  deadline   \* when drawing stops

cvars == <<clock, phase, held, drawn, returned, deadline>>

Init ==
  /\ clock = 1
  /\ phase = [o \in Orders |-> "absent"]
  /\ held = [o \in Orders |-> 0]
  /\ drawn = [o \in Orders |-> 0]
  /\ returned = [o \in Orders |-> 0]
  /\ deadline = [o \in Orders |-> 0]

Tick ==
  /\ clock' = clock + 1
  /\ UNCHANGED <<phase, held, drawn, returned, deadline>>

\* An order is opened once, with something to hold and time to draw it.
Deposit(o) ==
  /\ phase[o] = "absent"
  /\ phase' = [phase EXCEPT ![o] = "open"]
  /\ held'[o] > 0
  /\ held' = [held EXCEPT ![o] = held'[o]]
  /\ deadline'[o] > clock
  /\ deadline' = [deadline EXCEPT ![o] = deadline'[o]]
  /\ UNCHANGED <<clock, drawn, returned>>

\* Part of the deposit is drawn in time; the order closes with the last part.
Draw(o) ==
  /\ phase[o] = "open"
  /\ clock < deadline[o]
  /\ 0 <= held'[o] /\ held'[o] < held[o]
  /\ held' = [held EXCEPT ![o] = held'[o]]
  /\ drawn' = [drawn EXCEPT ![o] = @ + held[o] - held'[o]]
  /\ phase' = [phase EXCEPT ![o] = IF held'[o] = 0 THEN "closed" ELSE @]
  /\ UNCHANGED <<clock, returned, deadline>>

\* All that is left goes back to the owner, and the order closes.
Return(o) ==
  /\ phase[o] = "open"
  /\ phase' = [phase EXCEPT ![o] = "closed"]
  /\ held' = [held EXCEPT ![o] = 0]
  /\ returned' = [returned EXCEPT ![o] = @ + held[o]]
  /\ UNCHANGED <<clock, drawn, deadline>>

Next == Tick \/ \E o \in Orders : Deposit(o) \/ Draw(o) \/ Return(o)

Spec == Init /\ [][Next]_cvars
=============================================================================
