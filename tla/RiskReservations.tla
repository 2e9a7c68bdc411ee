-------------------------- MODULE RiskReservations --------------------------
(***************************************************************************)
(* Risk reservations of paper runs, with the advanced risk engine in live  *)
(* mode.                                                                   *)
(*                                                                         *)
(* A run is one database session.  It first sizes its candidates one after *)
(* the other, which reserves their risk under a trade intent that names    *)
(* the forecast, then turns the ones it kept into orders that are filled   *)
(* at once, and commits.  A candidate may be dropped after its sizing; its *)
(* reservation stays, as nothing calls release_reservation_for_order.  A   *)
(* trade intent that was reserved before gets its old reservation, spent   *)
(* or not.                                                                 *)
(*                                                                         *)
(* A contract risks 1, reserved or held; equity does not change; the caps  *)
(* other than the limit on total open risk only make a quantity smaller.   *)
(* An order of the decision UI or of an activation is a run that considers *)
(* one candidate and drops none.                                           *)
(***************************************************************************)
EXTENDS Integers, FiniteSets, Functions

CONSTANTS
  Forecasts,
  Runs,         \* sessions of paper runs
  Learners,     \* those in learning mode
  Sqlite,       \* the database: SQLite, or else Postgres
  Limit,        \* account equity * max_total_open_risk_fraction
  Quantities,   \* what position sizing proposes: 1, 3, 5
  MaxSessions, MaxResets \* bounds

ASSUME RiskAssumption ==
  /\ IsFiniteSet(Forecasts) /\ Learners \subseteq Runs /\ Sqlite \in BOOLEAN
  /\ Limit \in Nat /\ Quantities \subseteq Nat \ {0}
  /\ MaxSessions \in Nat /\ MaxResets \in Nat

VARIABLES
  row,       \* advanced_risk_reservations, by trade intent
  exposure,  \* open risk of all positions
  ordered,   \* forecasts that have an order
  excess,    \* history: risk of orders beyond what their reservations counted
  pc,
  left,      \* candidates a run has not looked at yet
  kept,      \* quantities of the decisions a run has kept
  mine,      \* what a run has written and not committed
  sessions, resets

vars == <<row, exposure, ordered, excess, pc, left, kept, mine, sessions, resets>>
committed == <<row, exposure, ordered, excess>>
counters == <<sessions, resets>>

NoRow == [status |-> "none", risk |-> 0]
Clean == [row |-> [f \in Forecasts |-> NoRow], exposure |-> 0, ordered |-> {}, excess |-> 0]
NothingKept == [f \in Forecasts |-> 0]

-----------------------------------------------------------------------------
(* What a session sees: what is committed, and its own writes. *)

SeenRow(s, f) == IF mine[s].row[f] # NoRow THEN mine[s].row[f] ELSE row[f]
SeenOrdered(s) == ordered \cup mine[s].ordered

\* active_unattached_reservations
Counted(s, f) == IF SeenRow(s, f).status = "reserved" THEN SeenRow(s, f).risk ELSE 0

\* current_total_open_risk and current_pending_reserved_risk
OpenRisk(s) == exposure + mine[s].exposure
PendingRisk(s) == SumFunctionOnSet([f \in Forecasts |-> Counted(s, f)], Forecasts)

\* Mistake: sessions write beside each other.
NoWriteLock(s) == TRUE

\* The first write of a run, a sizing decision, takes SQLite's write lock; what
\* it reads before that is not modelled.
LockFree(s) == Sqlite => \A o \in Runs \ {s} : pc[o] = "idle"

\* trade_intent_id is unique: an insert waits for the session that has inserted
\* the same one.
IntentFree(s, f) == \A o \in Runs \ {s} : mine[o].row[f] = NoRow \/ row[f] # NoRow

\* Without learning mode a forecast is ordered once.
Tradable(s, f) == s \in Learners \/ f \notin SeenOrdered(s)

-----------------------------------------------------------------------------
(* Sizing *)

Begin(s) ==
  /\ pc[s] = "idle" /\ sessions < MaxSessions /\ LockFree(s)
  /\ sessions' = sessions + 1
  /\ pc' = [pc EXCEPT ![s] = "size"]
  /\ left' = [left EXCEPT ![s] = Forecasts]
  /\ UNCHANGED <<committed, kept, mine, resets>>

\* Mistake: a decision to trade nothing is reserved.
ReservesAll(q) == TRUE

Reserves(q) == q > 0

\* Mistake: a trade intent is reserved anew, whatever was reserved before.
ReservesAnew(s, f, q) ==
  IF Reserves(q) THEN [mine EXCEPT ![s].row[f] = [status |-> "reserved", risk |-> q]] ELSE mine

\* reserve_advanced_risk: an existing reservation is returned as it is.
Reserved(s, f, q) ==
  IF Reserves(q) /\ SeenRow(s, f) = NoRow
  THEN [mine EXCEPT ![s].row[f] = [status |-> "reserved", risk |-> q]]
  ELSE mine

\* ensure_paper_decision_sized, and what the strategy then drops.
Size(s, f) ==
  /\ pc[s] = "size" /\ f \in left[s]
  /\ IntentFree(s, f) /\ Tradable(s, f)
  /\ \E q \in Quantities \cup {0}, keeps \in BOOLEAN :
       /\ q > 0 => OpenRisk(s) + PendingRisk(s) + q <= Limit
       /\ mine' = Reserved(s, f, q)
       /\ kept' = [kept EXCEPT ![s][f] = IF keeps THEN q ELSE 0]
  /\ left' = [left EXCEPT ![s] = @ \ {f}]
  /\ UNCHANGED <<committed, pc, counters>>

Sized(s) ==
  /\ pc[s] = "size"
  /\ pc' = [pc EXCEPT ![s] = "order"]
  /\ UNCHANGED <<committed, left, kept, mine, counters>>

-----------------------------------------------------------------------------
(* Ordering *)

\* Mistake: a decision is linked only to a reservation it has made itself.
SpendsOwn(s, f) ==
  IF mine[s].row[f] = NoRow THEN NoRow ELSE [mine[s].row[f] EXCEPT !.status = "filled"]

\* attach_advanced_risk_decision_to_order, mark_reservation_filled_for_order
Spends(s, f) == [SeenRow(s, f) EXCEPT !.status = "filled"]

\* create_paper_order and simulate_immediate_fill
Order(s, f) ==
  LET q == kept[s][f] IN
  /\ pc[s] = "order" /\ q > 0 /\ Tradable(s, f)
  /\ mine' = [mine EXCEPT ![s] =
       [row |-> [@.row EXCEPT ![f] = Spends(s, f)],
        exposure |-> @.exposure + q,
        ordered |-> @.ordered \cup {f},
        excess |-> @.excess + (IF q > Counted(s, f) THEN q - Counted(s, f) ELSE 0)]]
  /\ kept' = [kept EXCEPT ![s][f] = 0]
  /\ UNCHANGED <<committed, pc, left, counters>>

\* create_paper_order returns None: the market is closed or about to, or the
\* forecast has an order by now.
Refuse(s, f) ==
  /\ pc[s] = "order" /\ kept[s][f] > 0
  /\ kept' = [kept EXCEPT ![s][f] = 0]
  /\ UNCHANGED <<committed, pc, left, mine, counters>>

Leaves(s) ==
  /\ pc' = [pc EXCEPT ![s] = "idle"]
  /\ left' = [left EXCEPT ![s] = {}]
  /\ kept' = [kept EXCEPT ![s] = NothingKept]
  /\ mine' = [mine EXCEPT ![s] = Clean]

Commit(s) ==
  /\ pc[s] = "order" /\ kept[s] = NothingKept
  /\ row' = [f \in Forecasts |-> SeenRow(s, f)]
  /\ exposure' = OpenRisk(s)
  /\ ordered' = SeenOrdered(s)
  /\ excess' = excess + mine[s].excess
  /\ Leaves(s)
  /\ UNCHANGED counters

\* An exception, or the process is gone.
Rollback(s) ==
  /\ pc[s] # "idle"
  /\ Leaves(s)
  /\ UNCHANGED <<committed, counters>>

\* paper-reset deletes orders, fills and positions, not reservations.
Reset ==
  /\ resets < MaxResets /\ (Sqlite => \A s \in Runs : pc[s] = "idle")
  /\ resets' = resets + 1
  /\ exposure' = 0 /\ ordered' = {} /\ excess' = 0
  /\ UNCHANGED <<row, pc, left, kept, mine, sessions>>

-----------------------------------------------------------------------------
Init ==
  /\ row = [f \in Forecasts |-> NoRow] /\ exposure = 0 /\ ordered = {} /\ excess = 0
  /\ pc = [s \in Runs |-> "idle"] /\ left = [s \in Runs |-> {}]
  /\ kept = [s \in Runs |-> NothingKept] /\ mine = [s \in Runs |-> Clean]
  /\ sessions = 0 /\ resets = 0

Candidate(s, f) == Size(s, f) \/ Order(s, f) \/ Refuse(s, f)

Session(s) ==
  \/ Begin(s) \/ Sized(s) \/ Commit(s) \/ Rollback(s)
  \/ \E f \in Forecasts : Candidate(s, f)

Next == Reset \/ \E s \in Runs : Session(s)

Spec == Init /\ [][Next]_vars

-----------------------------------------------------------------------------
(* Properties *)

\* A reservation is always of some risk.
Reservations == {NoRow} \cup [status : {"reserved", "filled"}, risk : Nat \ {0}]
Writes == [row : [Forecasts -> Reservations], exposure : Nat,
           ordered : SUBSET Forecasts, excess : Nat]

\* The types of the variables; no reservation of nothing.
TypeOK ==
  /\ row \in [Forecasts -> Reservations] /\ exposure \in Nat
  /\ ordered \in SUBSET Forecasts /\ excess \in Nat
  /\ pc \in [Runs -> {"idle", "size", "order"}]
  /\ left \in [Runs -> SUBSET Forecasts] /\ kept \in [Runs -> [Forecasts -> Nat]]
  /\ mine \in [Runs -> Writes]
  /\ sessions \in Nat /\ resets \in Nat

\* On SQLite the open risk exceeds its limit only by what orders on old
\* reservations brought, which counted less than they ordered or, once spent,
\* nothing; runs beside each other never add to it.
WithinLimit == exposure <= Limit + excess

\* The risk of a forecast is never counted twice, as a position and as a
\* reservation: whoever reserved it, the order has spent it.
CountedOnce == \A f \in ordered : row[f].status = "filled"

\* A reservation keeps its risk for good, and is taken off the pending risk by
\* nothing but an order of its forecast: neither a later sizing nor a session that
\* read it before reserves it again, and nothing releases it.
SpentOnlyByOrders ==
  [][\A f \in Forecasts : row[f] # NoRow /\ row'[f] # row[f] =>
       row'[f] = [row[f] EXCEPT !.status = "filled"] /\ f \in ordered']_row
=============================================================================
