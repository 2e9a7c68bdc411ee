----------------------------- MODULE PaperLedger -----------------------------
(***************************************************************************)
(* The paper-trading ledger: database sessions that turn forecasts into    *)
(* simulated orders, fill them at once and add the fills to positions,     *)
(* while other sessions settle markets, store P&L and wipe the ledger.     *)
(*                                                                         *)
(* An order, its fill and its position update are one transaction. A       *)
(* session on SQLite reads the last commit until its first write, which    *)
(* takes the database's write lock until the commit; on Postgres (READ     *)
(* COMMITTED) every statement reads the last commit and a write locks its  *)
(* row. A fill is added to a position by reading the row and writing sums. *)
(*                                                                         *)
(* Fills are kept as their sums per ticker and side. Prices are whole      *)
(* units, so the average price of a position is modelled by its cost.      *)
(***************************************************************************)
EXTENDS FiniteSets, PositionSizer

CONSTANTS
  Tickers, Models, Forecasts,
  TickerOf,          \* the ticker a forecast is about
  ModelOf,           \* the model that made a forecast
  Runners,           \* sessions of run_paper_trading
  Desks,             \* sessions that order directly: decision UI, activation, exploration
  Accountants,       \* sessions of calculate_and_store_pnl
  Backend,           \* "sqlite" or "postgres"
  LearningMode,      \* settings.learning_mode
  Prices,            \* limit prices
  Fee,               \* paper_default_fee_per_contract
  Dollar,            \* what a winning contract pays
  Payouts,           \* what settlements pay a yes contract: nothing, a dollar or a part
  MaxPosition,       \* paper_max_position_per_market
  MaxOrders,         \* bound: orders ever begun
  MaxSettlements,    \* bound: changes of a settlement row
  MaxResets          \* bound: paper-reset runs

Nobody == "nobody"

ASSUME LedgerAssumption ==
  /\ TickerOf \in [Forecasts -> Tickers] /\ ModelOf \in [Forecasts -> Models]
  /\ Backend \in {"sqlite", "postgres"}
  /\ LearningMode \in BOOLEAN
  /\ Prices \subseteq Nat
  /\ Fee \in Nat /\ Dollar \in Nat /\ Payouts \subseteq 0..Dollar /\ MaxPosition \in Nat
  /\ MaxOrders \in Nat /\ MaxSettlements \in Nat /\ MaxResets \in Nat
  /\ IsFiniteSet(Desks) /\ Runners \cap Desks = {} /\ Nobody \notin Runners \cup Desks

VARIABLES
  market,         \* "open" or "closed": whether the market takes new paper orders
  settlement,     \* what the settlement row pays a yes contract, Unsettled without a
                  \* row, Unvalued with one that has no value
  carrying,       \* carrying[f]: committed orders whose forecast_id is f
  recent,         \* recent[k]: committed orders with candidate key k inside the cooldown
  fills,          \* sums over the committed fills of a ticker and side
  position,       \* committed position rows, Absent without one
  writer,         \* holder of the SQLite write lock, Nobody when free
  order,          \* order[s]: the order session s is working on
  audit,          \* audit[a]: what P&L session a has read
  counts,         \* how many orders were begun, settlements and resets made
  exact           \* history: tickers whose realized P&L was stored by a session that
                  \* read everything about them after it last changed

vars == <<market, settlement, carrying, recent, fills, position, writer, order,
          audit, counts, exact>>

Traders == Runners \cup Desks
Sides == {"BUY_YES", "BUY_NO"}

Unsettled == -1
Unvalued == -2
Results == {Unsettled, Unvalued} \cup Payouts

\* candidate_key: what two orders share that the cooldown keeps apart.
CandidateKeys == Tickers \X Models \X Sides
candidate_key(f, x) == <<TickerOf[f], ModelOf[f], x>>

Nothing == [x \in Sides |-> [quantity |-> 0, cost |-> 0]]
Bought(holding, quantity, price) ==
  [quantity |-> holding.quantity + quantity, cost |-> holding.cost + quantity * price]

\* A position row; without one the holdings count as nothing.
Absent == [there |-> FALSE, held |-> Nothing, realized |-> 0]

NoOrder == [step |-> "idle"]
NoAudit == [step |-> "idle"]

-----------------------------------------------------------------------------
(* What a session decides from what it reads *)

\* _market_accepts_new_paper_order
Accepts(t) == market[t] = "open" /\ settlement[t] = Unsettled

\* recent_duplicate_order in learning mode, else get_existing_order_for_forecast.
Duplicate(f, x) ==
  IF LearningMode THEN recent[candidate_key(f, x)] > 0 ELSE carrying[f] > 0

\* _remaining_position_cap
Remaining(t, x) ==
  LET held == position[t].held[x].quantity IN
  IF held >= MaxPosition THEN 0 ELSE MaxPosition - held

\* The sizes a decision may have for what is left of the position cap, listed once.
SizedWithin == [left \in 0..MaxPosition |-> Sized(left)]
Sizes(t, x) == SizedWithin[Remaining(t, x)]

\* Mistake: what was read before the write lock is believed.
TrustsEarlierReads(s) == order[s].step = "sized"

\* Once its sizing is written, a paper run looks at the cap, the market and
\* duplicates again; a desk does not.
StillGood(s) ==
  LET o == order[s]
      t == TickerOf[o.forecast] IN
  s \in Runners =>
    /\ position[t].held[o.side].quantity + o.quantity <= MaxPosition
    /\ Accepts(t)
    /\ ~Duplicate(o.forecast, o.side)

\* A learning order gives up its forecast_id when an order already carries it.
CarriesForecast(f) == ~LearningMode \/ carrying[f] = 0

\* Mistake: no constraint, only the look for an order before the write lock.
NoConstraint(s) == TRUE

\* uq_paper_orders_ticker_model_forecast, which also waits for inserts not yet
\* committed: SQLite has no second writer.
UniqueForecast(s) ==
  LET f == order[s].forecast IN
  /\ carrying[f] = 0
  /\ \A r \in Traders \ {s} :
       order[r].step \in {"inserted", "read", "written"} =>
         ~(order[r].forecast = f /\ order[r].carries)

\* Mistake: writes of two sessions interleave until they commit.
NoWriteLock == TRUE

LockFree == Backend = "sqlite" => writer = Nobody
RowFree(t) ==
  \A s \in Traders : order[s].step = "written" => TickerOf[order[s].forecast] # t

\* Anything committed about t is news to whoever has read it before.
News(ts) ==
  /\ exact' = exact \ ts
  /\ audit' = [a \in Accountants |->
       IF audit[a].step = "idle" THEN audit[a] ELSE [audit[a] EXCEPT !.unchanged = @ \ ts]]

-----------------------------------------------------------------------------
Init ==
  /\ market = [t \in Tickers |-> "open"]
  /\ settlement = [t \in Tickers |-> Unsettled]
  /\ carrying = [f \in Forecasts |-> 0]
  /\ recent = [k \in CandidateKeys |-> 0]
  /\ fills = [t \in Tickers |-> Nothing]
  /\ position = [t \in Tickers |-> Absent]
  /\ writer = Nobody
  /\ order = [s \in Traders |-> NoOrder]
  /\ audit = [a \in Accountants |-> NoAudit]
  /\ counts = [orders |-> 0, settlements |-> 0, resets |-> 0]
  /\ exact = {}

ledger == <<carrying, recent, fills, position>>

-----------------------------------------------------------------------------
(* A session that orders *)

\* Checks the market and duplicates and writes a sizing decision: the first
\* write of the transaction comes after all of these reads.
Size(s, f, x) ==
  LET t == TickerOf[f] IN
  /\ order[s].step = "idle" /\ counts.orders < MaxOrders
  /\ Accepts(t) /\ ~Duplicate(f, x)
  /\ \E q \in Sizes(t, x), p \in Prices :
       order' = [order EXCEPT ![s] =
         [step |-> "sized", forecast |-> f, side |-> x, quantity |-> q, price |-> p,
          carries |-> CarriesForecast(f), row |-> Absent]]
  /\ counts' = [counts EXCEPT !.orders = @ + 1]
  /\ UNCHANGED <<market, settlement, ledger, writer, audit, exact>>

\* The sizing and the order with its fill reach the database, not yet committed.
Insert(s) ==
  LET carries == IF s \in Runners THEN CarriesForecast(order[s].forecast)
                 ELSE order[s].carries IN
  /\ order[s].step = "sized"
  /\ LockFree /\ StillGood(s)
  /\ carries => UniqueForecast(s)
  /\ writer' = IF Backend = "sqlite" THEN s ELSE Nobody
  /\ order' = [order EXCEPT ![s].step = "inserted", ![s].carries = carries]
  /\ UNCHANGED <<market, settlement, ledger, audit, counts, exact>>

\* update_position_for_fill: get_position
ReadPosition(s) ==
  /\ order[s].step = "inserted"
  /\ order' = [order EXCEPT ![s].step = "read",
                            ![s].row = position[TickerOf[order[s].forecast]]]
  /\ UNCHANGED <<market, settlement, ledger, writer, audit, counts, exact>>

\* update_position_for_fill: the flush. It updates a row that must still be
\* there, or inserts one no other session may have inserted.
WritePosition(s) ==
  LET t == TickerOf[order[s].forecast] IN
  /\ order[s].step = "read" /\ RowFree(t)
  /\ order[s].row.there = position[t].there
  /\ order' = [order EXCEPT ![s].step = "written"]
  /\ UNCHANGED <<market, settlement, ledger, writer, audit, counts, exact>>

\* The row of a position once s has written it: the columns of its side are
\* set to sums made of what s has read, the others are left alone.
Updated(s) ==
  LET o == order[s]
      sum == Bought(o.row.held[o.side], o.quantity, o.price) IN
  [position[TickerOf[o.forecast]] EXCEPT !.there = TRUE, !.held[o.side] = sum]

Commit(s) ==
  LET o == order[s]
      t == TickerOf[o.forecast] IN
  /\ o.step = "written"
  /\ position' = [position EXCEPT ![t] = Updated(s)]
  /\ fills' = [fills EXCEPT ![t][o.side] = Bought(@, o.quantity, o.price)]
  /\ recent' = [recent EXCEPT ![candidate_key(o.forecast, o.side)] = @ + 1]
  /\ carrying' = IF o.carries THEN [carrying EXCEPT ![o.forecast] = @ + 1] ELSE carrying
  /\ News({t})
  /\ writer' = Nobody
  /\ order' = [order EXCEPT ![s] = NoOrder]
  /\ UNCHANGED <<market, settlement, counts>>

\* The candidate is dropped, a constraint or a lock timeout raises, or the
\* process dies: the transaction is rolled back.
Abandon(s) ==
  /\ order[s].step # "idle"
  /\ writer' = IF writer = s THEN Nobody ELSE writer
  /\ order' = [order EXCEPT ![s] = NoOrder]
  /\ UNCHANGED <<market, settlement, ledger, audit, counts, exact>>

-----------------------------------------------------------------------------
(* calculate_and_store_pnl *)

\* calculate_settled_pnl_from_yes_value: a yes contract pays the value, a no contract
\* what it leaves of a dollar.
SettledPnl(held, fees, value) ==
  value * held["BUY_YES"].quantity + (Dollar - value) * held["BUY_NO"].quantity
    - held["BUY_YES"].cost - held["BUY_NO"].cost - fees

\* total_fees_for_ticker
Fees(t) == Fee * (fills[t]["BUY_YES"].quantity + fills[t]["BUY_NO"].quantity)

\* Reads the positions: rows.
AuditRead(a) ==
  /\ audit[a].step = "idle"
  /\ audit' = [audit EXCEPT ![a] = [step |-> "read", rows |-> position, unchanged |-> Tickers]]
  /\ UNCHANGED <<market, settlement, ledger, writer, order, counts, exact>>

\* Settled with a value P&L can be worked out from.
Settled(t) == settlement[t] \in Payouts

\* Positions of settled markets among the rows a session has read, and what it
\* finds them to be worth, with fees and settlements as they are now.
SettledRows(rows) == {t \in Tickers : rows[t].there /\ Settled(t)}
PnlOf(rows) ==
  [t \in Tickers |->
     IF Settled(t) THEN SettledPnl(rows[t].held, Fees(t), settlement[t]) ELSE 0]

\* Mistake: a position with a realized P&L is taken to be done.
RealizedOnce(rows) == {t \in SettledRows(rows) : rows[t].realized = 0}

\* Only a column that gets another value is written.
Changed(rows) == {t \in SettledRows(rows) : PnlOf(rows)[t] # rows[t].realized}

AuditPrice(a) ==
  LET rows == audit[a].rows IN
  /\ audit[a].step = "read"
  /\ audit' = [audit EXCEPT ![a] =
       [step |-> "priced", settled |-> SettledRows(rows), changed |-> Changed(rows),
        pnl |-> PnlOf(rows), unchanged |-> audit[a].unchanged]]
  /\ UNCHANGED <<market, settlement, ledger, writer, order, counts, exact>>

\* Every settled row gets a new updated_at, so each must still be there: else the
\* flush raises, and the session is abandoned.
AuditCommit(a) ==
  LET changed == audit[a].changed IN
  /\ audit[a].step = "priced"
  /\ LockFree
  /\ \A t \in audit[a].settled : position[t].there /\ RowFree(t)
  /\ position' = [t \in Tickers |->
       IF t \in changed THEN [position[t] EXCEPT !.realized = audit[a].pnl[t]] ELSE position[t]]
  /\ exact' = (exact \ changed) \cup (audit[a].settled \cap audit[a].unchanged)
  /\ audit' = [b \in Accountants |->
       IF b = a THEN NoAudit
       ELSE IF audit[b].step = "idle" THEN audit[b]
       ELSE [audit[b] EXCEPT !.unchanged = @ \ changed]]
  /\ UNCHANGED <<market, settlement, carrying, recent, fills, writer, order, counts>>

AuditAbandon(a) ==
  /\ audit[a].step # "idle"
  /\ audit' = [audit EXCEPT ![a] = NoAudit]
  /\ UNCHANGED <<market, settlement, ledger, writer, order, counts, exact>>

-----------------------------------------------------------------------------
(* Everything else that commits *)

\* upsert_settlement takes what the exchange reports, even no value: a row that has
\* lost its value closes the market to orders and realizes nothing.
Settle(t, result) ==
  /\ counts.settlements < MaxSettlements /\ LockFree
  /\ result # settlement[t]
  /\ settlement' = [settlement EXCEPT ![t] = result]
  /\ counts' = [counts EXCEPT !.settlements = @ + 1]
  /\ News({t})
  /\ UNCHANGED <<market, ledger, writer, order>>

\* The market's status or its close time stops taking paper orders.
Close(t) ==
  /\ market[t] = "open" /\ LockFree
  /\ market' = [market EXCEPT ![t] = "closed"]
  /\ UNCHANGED <<settlement, ledger, writer, order, audit, counts, exact>>

\* Mistake: ages orders that are not there.
CooldownAlwaysPasses(k) ==
  /\ LearningMode
  /\ recent' = [recent EXCEPT ![k] = @ - 1]
  /\ UNCHANGED <<market, settlement, carrying, fills, position, writer, order, audit,
                 counts, exact>>

\* learning_duplicate_cooldown_hours pass over the oldest order.
CooldownPasses(k) ==
  /\ LearningMode /\ recent[k] > 0
  /\ recent' = [recent EXCEPT ![k] = @ - 1]
  /\ UNCHANGED <<market, settlement, carrying, fills, position, writer, order, audit,
                 counts, exact>>

\* reset_paper_data
Reset ==
  /\ Backend = "sqlite" /\ LockFree /\ counts.resets < MaxResets
  /\ carrying' = [f \in Forecasts |-> 0]
  /\ recent' = [k \in CandidateKeys |-> 0]
  /\ fills' = [t \in Tickers |-> Nothing]
  /\ position' = [t \in Tickers |-> Absent]
  /\ counts' = [counts EXCEPT !.resets = @ + 1]
  /\ News(Tickers)
  /\ UNCHANGED <<market, settlement, writer, order>>

-----------------------------------------------------------------------------
Order(s) ==
  \/ Insert(s) \/ ReadPosition(s) \/ WritePosition(s) \/ Commit(s) \/ Abandon(s)

Audit(a) == AuditRead(a) \/ AuditPrice(a) \/ AuditCommit(a) \/ AuditAbandon(a)

Next ==
  \/ \E s \in Traders : Order(s) \/ \E f \in Forecasts, x \in Sides : Size(s, f, x)
  \/ \E a \in Accountants : Audit(a)
  \/ \E t \in Tickers :
       \/ \E result \in Results : Settle(t, result)
       \/ Close(t)
  \/ \E k \in CandidateKeys : CooldownPasses(k)
  \/ Reset

Spec == Init /\ [][Next]_vars

\* A session that has begun runs on; paper-pnl is run again and again, and not
\* every run of it fails.
FairSpec ==
  /\ Spec
  /\ \A s \in Traders : WF_vars(Order(s))
  /\ \A a \in Accountants :
       WF_vars(Audit(a)) /\ SF_vars(AuditPrice(a)) /\ SF_vars(AuditCommit(a))
-----------------------------------------------------------------------------
(* Properties *)

Holding == [Sides -> [quantity : Nat, cost : Nat]]
Rows == [there : BOOLEAN, held : Holding, realized : Int]
Orders ==
  [step : {"sized", "inserted", "read", "written"}, forecast : Forecasts, side : Sides,
   quantity : Tiers, price : Prices, carries : BOOLEAN, row : Rows]

Audits ==
  [step : {"read"}, rows : [Tickers -> Rows], unchanged : SUBSET Tickers]
    \cup [step : {"priced"}, settled : SUBSET Tickers, changed : SUBSET Tickers,
          pnl : [Tickers -> Int], unchanged : SUBSET Tickers]

\* The types of the variables. Whatever ages, is deleted or rolled back leaves
\* the counters natural numbers.
TypeOK ==
  /\ market \in [Tickers -> {"open", "closed"}]
  /\ settlement \in [Tickers -> Results]
  /\ carrying \in [Forecasts -> Nat]
  /\ recent \in [CandidateKeys -> Nat]
  /\ fills \in [Tickers -> Holding]
  /\ position \in [Tickers -> Rows]
  /\ writer \in Traders \cup {Nobody}
  /\ order \in [Traders -> Orders \cup {NoOrder}]
  /\ audit \in [Accountants -> Audits \cup {NoAudit}]
  /\ exact \subseteq Tickers

\* Position quantities and costs are the sums of the fills they came from, in
\* whatever order sessions read and write positions: update_position_for_fill
\* reads a row and writes sums, and no fill may get lost in between.
PositionMatchesFills == \A t \in Tickers : position[t].held = fills[t]

\* No side of a market is ever held beyond paper_max_position_per_market,
\* although sizes are worked out from a position read before the write lock.
WithinCap == \A t \in Tickers, x \in Sides : position[t].held[x].quantity <= MaxPosition

\* How far the cap is exceeded: by one full position for each desk at most, since a
\* desk that acts on what it read has worked out its size when there was room, and
\* no session finds room while the cap is exceeded.
DesksOverdrawOnce ==
  \A t \in Tickers, x \in Sides :
    position[t].held[x].quantity <= MaxPosition + Cardinality(Desks) * MaxPosition

\* At most one committed order carries a forecast's id, even when two sessions
\* looked for such an order before either had committed one.
ForecastOrderedOnce == \A f \in Forecasts : carrying[f] <= 1

\* In learning mode a model orders a side of a market once per cooldown, from whichever
\* forecasts and in whichever sessions, although candidates are compared with recent
\* orders before the write lock.
OnceInCooldown ==
  LearningMode => \A k \in CandidateKeys : recent[k] <= 1

\* Realized P&L written by a run of paper-pnl during which nothing about the
\* ticker changed is what the fills are worth under the settlement, whatever
\* earlier runs, corrected settlements or later trades left in the row.
SettledPnlExact ==
  \A t \in exact :
    Settled(t) /\ position[t].there =>
      position[t].realized = SettledPnl(fills[t], Fees(t), settlement[t])

PnlSettled(t) ==
  Settled(t) /\ position[t].there =>
    position[t].realized = SettledPnl(fills[t], Fees(t), settlement[t])

\* Once nothing changes any more, every settled position gets its realized P&L,
\* also after runs of paper-pnl that overlapped trades and settlements.
PnlConverges == \A t \in Tickers : <>[]PnlSettled(t)

\* The ledger keeps the promise of PaperTrades: whatever commits, each market's position
\* is left alone or changed by one whole trade within the cap, or all are wiped.
Trades == INSTANCE PaperTrades WITH
  Quantities <- Tiers, book <- [t \in Tickers |-> position[t].held]
MarketsTradeWhole == Trades!Spec
=============================================================================
