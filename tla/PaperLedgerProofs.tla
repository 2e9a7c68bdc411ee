-------------------------- MODULE PaperLedgerProofs --------------------------
(***************************************************************************)
(* Proofs about PaperLedger, for any sets of sessions, tickers, forecasts, *)
(* sizes and prices. The types hold on both databases. On SQLite the write *)
(* lock makes what a session read last what it updates (Fresh), so that    *)
(* positions match fills, and a P&L session that nothing overtook stores   *)
(* the settlement's P&L; when every ordering session is a paper run, the   *)
(* checks repeated under the lock (Room) keep cap and cooldown, and the    *)
(* book changes by whole trades; with desks, what they have in hand bounds *)
(* how far a position may exceed its cap (Overdraft). On both databases a  *)
(* position shows no contract that was not filled (Behind).                *)
(***************************************************************************)
EXTENDS PaperLedger, PositionSizerProofs, FiniteSums, TLAPS

\* The sizes of tiers are numbers of contracts.
LEMMA TierSizes == Tiers \subseteq Nat \ {0}
BY DEF Tiers

\* A decision's size is a tier's, and fits what the position leaves of the cap.
LEMMA SizesFit ==
  ASSUME NEW t, NEW x, position[t].held[x].quantity \in Nat, NEW q \in Sizes(t, x)
  PROVE  q \in Tiers /\ position[t].held[x].quantity + q <= MaxPosition
<1>. DEFINE held == position[t].held[x].quantity
            left == Remaining(t, x)
<1>1. MaxPosition \in Nat /\ left \in 0..MaxPosition
      /\ left = IF held >= MaxPosition THEN 0 ELSE MaxPosition - held
  BY LedgerAssumption DEF Remaining
<1>2. left \in Nat /\ q \in Sized(left)
  BY <1>1 DEF Sizes, SizedWithin
<1>3. q \in Tiers /\ q \in Nat \ {0} /\ q <= left
  BY <1>2, SizedWithinPosition, TierSizes
<1>. HIDE DEF left
<1>. QED
  BY <1>1, <1>3

\* What is bought is a holding again.
LEMMA BoughtType ==
  ASSUME NEW h \in [quantity : Nat, cost : Nat], NEW q \in Nat, NEW p \in Nat
  PROVE  Bought(h, q, p) \in [quantity : Nat, cost : Nat]
<1>1. q * p \in Nat
  OBVIOUS
<1> QED
  BY <1>1 DEF Bought

\* No contracts at all are a holding, and no row is a row.
LEMMA NothingType == Nothing \in Holding /\ Absent \in Rows
BY DEF Nothing, Holding, Absent, Rows

\* Hearing news leaves a P&L session a P&L session.
LEMMA ForgetsType ==
  ASSUME NEW session \in Audits, NEW ts
  PROVE  [session EXCEPT !.unchanged = @ \ ts] \in Audits
BY DEF Audits

\* A session is idle exactly when it has nothing in hand.
LEMMA IdleOrder ==
  ASSUME TypeOK, NEW s \in Traders, order[s].step # "idle"
  PROVE  order[s] \in Orders
BY DEF TypeOK, NoOrder

LEMMA IdleAudit ==
  ASSUME TypeOK, NEW a \in Accountants, audit[a].step # "idle"
  PROVE  audit[a] \in Audits
BY DEF TypeOK, NoAudit

\* The parts of TypeOK that hearing news disturbs.
LEMMA NewsType ==
  ASSUME TypeOK, NEW ts, News(ts)
  PROVE  audit' \in [Accountants -> Audits \cup {NoAudit}] /\ exact' \subseteq Tickers
<1>1. ASSUME NEW a \in Accountants PROVE audit'[a] \in Audits \cup {NoAudit}
  <2>1. CASE audit[a].step = "idle"
    BY <2>1 DEF News, TypeOK
  <2>2. CASE audit[a].step # "idle"
    <3>1. audit'[a] = [audit[a] EXCEPT !.unchanged = @ \ ts]
      BY <2>2 DEF News
    <3> QED BY <2>2, <3>1, IdleAudit, ForgetsType
  <2> QED BY <2>1, <2>2
<1>2. audit' = [a \in Accountants |-> audit'[a]]
  BY DEF News
<1> QED BY <1>1, <1>2 DEF News, TypeOK

\* The initial states have the types.
LEMMA InitType == Init => TypeOK
BY LedgerAssumption, NothingType DEF Init, TypeOK, Results, Traders

-----------------------------------------------------------------------------
(* One lemma per action of a session that orders *)

LEMMA SizeType ==
  ASSUME TypeOK, NEW s \in Traders, NEW f \in Forecasts, NEW x \in Sides, Size(s, f, x)
  PROVE  TypeOK'
<1>0. position[TickerOf[f]].held[x].quantity \in Nat
  BY LedgerAssumption DEF TypeOK, Rows, Holding
<1>1. PICK q \in Tiers, p \in Prices :
        order' = [order EXCEPT ![s] =
          [step |-> "sized", forecast |-> f, side |-> x, quantity |-> q, price |-> p,
           carries |-> CarriesForecast(f), row |-> Absent]]
  BY <1>0, SizesFit DEF Size
<1>2. CarriesForecast(f) \in BOOLEAN
  BY LedgerAssumption DEF CarriesForecast
<1>3. [step |-> "sized", forecast |-> f, side |-> x, quantity |-> q, price |-> p,
       carries |-> CarriesForecast(f), row |-> Absent] \in Orders
  BY <1>2, NothingType DEF Orders
<1>4. order' \in [Traders -> Orders \cup {NoOrder}]
  BY <1>1, <1>3 DEF TypeOK
<1> QED BY <1>4 DEF Size, TypeOK, ledger

LEMMA InsertType ==
  ASSUME TypeOK, NEW s \in Traders, Insert(s)
  PROVE  TypeOK'
<1> DEFINE carries == IF s \in Runners THEN CarriesForecast(order[s].forecast)
                      ELSE order[s].carries
<1>1. order[s] \in Orders
  BY IdleOrder DEF Insert
<1>2. carries \in BOOLEAN
  BY <1>1, LedgerAssumption, TierSizes DEF Orders, CarriesForecast
<1>3. [order[s] EXCEPT !.step = "inserted", !.carries = carries] \in Orders
  BY <1>1, <1>2 DEF Orders
<1>4. order' = [order EXCEPT ![s] = [order[s] EXCEPT !.step = "inserted", !.carries = carries]]
  BY DEF Insert, TypeOK
<1>5. order' \in [Traders -> Orders \cup {NoOrder}]
  BY <1>3, <1>4 DEF TypeOK
<1>6. writer' \in Traders \cup {Nobody}
  BY DEF Insert
<1> QED BY <1>5, <1>6 DEF Insert, TypeOK, ledger

LEMMA ReadPositionType ==
  ASSUME TypeOK, NEW s \in Traders, ReadPosition(s)
  PROVE  TypeOK'
<1> DEFINE row == position[TickerOf[order[s].forecast]]
<1>1. order[s] \in Orders
  BY IdleOrder DEF ReadPosition
<1>2. row \in Rows
  BY <1>1, LedgerAssumption, TierSizes DEF Orders, TypeOK
<1>3. [order[s] EXCEPT !.step = "read", !.row = row] \in Orders
  BY <1>1, <1>2 DEF Orders
<1>4. order' = [order EXCEPT ![s] = [order[s] EXCEPT !.step = "read", !.row = row]]
  BY DEF ReadPosition, TypeOK
<1>5. order' \in [Traders -> Orders \cup {NoOrder}]
  BY <1>3, <1>4 DEF TypeOK
<1> QED BY <1>5 DEF ReadPosition, TypeOK, ledger

LEMMA WritePositionType ==
  ASSUME TypeOK, NEW s \in Traders, WritePosition(s)
  PROVE  TypeOK'
<1>1. order[s] \in Orders
  BY IdleOrder DEF WritePosition
<1>2. [order[s] EXCEPT !.step = "written"] \in Orders
  BY <1>1 DEF Orders
<1>3. order' = [order EXCEPT ![s] = [order[s] EXCEPT !.step = "written"]]
  BY DEF WritePosition, TypeOK
<1>4. order' \in [Traders -> Orders \cup {NoOrder}]
  BY <1>2, <1>3 DEF TypeOK
<1> QED BY <1>4 DEF WritePosition, TypeOK, ledger

\* The row a session has written is a row.
LEMMA UpdatedType ==
  ASSUME TypeOK, NEW s \in Traders, order[s] \in Orders
  PROVE  Updated(s) \in Rows
<1> DEFINE o == order[s]
           sum == Bought(o.row.held[o.side], o.quantity, o.price)
           now == position[TickerOf[o.forecast]]
<1>1. o.row.held \in Holding /\ o.side \in Sides /\ o.quantity \in Nat /\ o.price \in Nat
  BY LedgerAssumption, TierSizes DEF Orders, Rows
<1>2. sum \in [quantity : Nat, cost : Nat]
  BY <1>1, BoughtType DEF Holding
<1>3. now \in Rows
  BY LedgerAssumption, TierSizes DEF Orders, TypeOK
<1>4. [now.held EXCEPT ![o.side] = sum] \in Holding
  BY <1>1, <1>2, <1>3 DEF Rows, Holding
<1>5. Updated(s) = [there |-> TRUE, held |-> [now.held EXCEPT ![o.side] = sum],
                    realized |-> now.realized]
  <2>1. now \in [there : BOOLEAN, held : Holding, realized : Int]
    BY <1>3 DEF Rows
  <2>2. Updated(s) = [now EXCEPT !.there = TRUE, !.held = [now.held EXCEPT ![o.side] = sum]]
    BY <2>1 DEF Updated
  <2> HIDE DEF o, sum, now
  <2> QED BY <2>1, <2>2
<1> QED BY <1>3, <1>4, <1>5 DEF Rows

LEMMA CommitType ==
  ASSUME TypeOK, NEW s \in Traders, Commit(s)
  PROVE  TypeOK'
<1> DEFINE o == order[s]
           t == TickerOf[o.forecast]
<1>1. o \in Orders
  BY IdleOrder DEF Commit
<1>2. o.forecast \in Forecasts /\ t \in Tickers /\ o.side \in Sides
      /\ o.quantity \in Nat /\ o.price \in Nat
  BY <1>1, LedgerAssumption, TierSizes DEF Orders
<1>3. position' \in [Tickers -> Rows]
  <2>1. Updated(s) \in Rows
    BY <1>1, UpdatedType
  <2> QED BY <1>2, <2>1 DEF Commit, TypeOK
<1>4. fills' \in [Tickers -> Holding]
  <2>1. fills[t] \in Holding /\ fills[t][o.side] \in [quantity : Nat, cost : Nat]
    BY <1>2 DEF TypeOK, Holding
  <2>2. Bought(fills[t][o.side], o.quantity, o.price) \in [quantity : Nat, cost : Nat]
    BY <1>2, <2>1, BoughtType
  <2>3. [fills[t] EXCEPT ![o.side] = Bought(fills[t][o.side], o.quantity, o.price)] \in Holding
    BY <1>2, <2>1, <2>2 DEF Holding
  <2>4. fills' = [fills EXCEPT ![t] =
          [fills[t] EXCEPT ![o.side] = Bought(fills[t][o.side], o.quantity, o.price)]]
    BY <1>2 DEF Commit, TypeOK
  <2> QED BY <2>3, <2>4 DEF TypeOK
<1>5. recent' \in [CandidateKeys -> Nat]
  <2>1. recent \in [CandidateKeys -> Nat]
    BY DEF TypeOK
  <2>2. candidate_key(o.forecast, o.side) \in CandidateKeys
    BY <1>2, LedgerAssumption DEF candidate_key, CandidateKeys
  <2>3. \A k \in CandidateKeys : [recent EXCEPT ![k] = @ + 1] \in [CandidateKeys -> Nat]
    BY <2>1
  <2>4. recent' = [recent EXCEPT ![candidate_key(o.forecast, o.side)] = @ + 1]
    BY DEF Commit
  <2> QED BY <2>2, <2>3, <2>4
<1>6. carrying' \in [Forecasts -> Nat]
  BY <1>2 DEF Commit, TypeOK
<1>7. order' \in [Traders -> Orders \cup {NoOrder}]
  BY DEF Commit, TypeOK
<1>8. audit' \in [Accountants -> Audits \cup {NoAudit}] /\ exact' \subseteq Tickers
  BY NewsType DEF Commit
<1> QED BY <1>3, <1>4, <1>5, <1>6, <1>7, <1>8 DEF Commit, TypeOK

LEMMA AbandonType ==
  ASSUME TypeOK, NEW s \in Traders, Abandon(s)
  PROVE  TypeOK'
BY DEF Abandon, TypeOK, ledger

-----------------------------------------------------------------------------
(* One lemma per action of a P&L session *)

LEMMA AuditReadType ==
  ASSUME TypeOK, NEW a \in Accountants, AuditRead(a)
  PROVE  TypeOK'
<1>1. [step |-> "read", rows |-> position, unchanged |-> Tickers] \in Audits
  BY DEF TypeOK, Audits
<1>2. audit' \in [Accountants -> Audits \cup {NoAudit}]
  BY <1>1 DEF AuditRead, TypeOK
<1> QED BY <1>2 DEF AuditRead, TypeOK, ledger

\* What settled positions are worth is a whole number.
LEMMA PnlType ==
  ASSUME TypeOK, NEW rows \in [Tickers -> Rows]
  PROVE  PnlOf(rows) \in [Tickers -> Int]
<1>1. ASSUME NEW t \in Tickers PROVE SettledPnl(rows[t].held, Fees(t), settlement[t]) \in Int
  <2> DEFINE held == rows[t].held
             value == settlement[t]
             sold == fills[t]["BUY_YES"].quantity + fills[t]["BUY_NO"].quantity
  <2>1. value \in Int /\ Dollar \in Int
    <3>1. Payouts \subseteq Int /\ Dollar \in Int
      BY LedgerAssumption
    <3>2. value \in Results
      BY DEF TypeOK
    <3>3. Unsettled \in Int /\ Unvalued \in Int
      BY DEF Unsettled, Unvalued
    <3>4. value \in {Unsettled, Unvalued} \cup Payouts
      BY <3>2 DEF Results
    <3> HIDE DEF value
    <3> QED BY <3>1, <3>3, <3>4
  <2>2. \A x \in Sides : held[x].quantity \in Nat /\ held[x].cost \in Nat
    BY DEF Rows, Holding
  <2>3. sold \in Nat
    BY DEF TypeOK, Holding, Sides
  <2>4. \A i, j \in Int : i * j \in Int
    OBVIOUS
  <2>5. Fees(t) \in Int
    BY <2>3, <2>4, LedgerAssumption DEF Fees
  <2>6. /\ value * held["BUY_YES"].quantity \in Int
        /\ (Dollar - value) * held["BUY_NO"].quantity \in Int
    <3>1. Dollar - value \in Int
      BY <2>1
    <3>2. held["BUY_YES"].quantity \in Int /\ held["BUY_NO"].quantity \in Int
      BY <2>2 DEF Sides
    <3> HIDE DEF value, held
    <3> QED BY <2>1, <2>4, <3>1, <3>2
  <2>7. held["BUY_YES"].cost \in Nat /\ held["BUY_NO"].cost \in Nat
    BY <2>2 DEF Sides
  <2>8. SettledPnl(held, Fees(t), value) \in Int
    <3> HIDE DEF value, held
    <3> QED BY <2>5, <2>6, <2>7 DEF SettledPnl
  <2> QED BY <2>8
<1> QED BY <1>1 DEF PnlOf

LEMMA AuditPriceType ==
  ASSUME TypeOK, NEW a \in Accountants, AuditPrice(a)
  PROVE  TypeOK'
<1> DEFINE rows == audit[a].rows
<1>1. rows \in [Tickers -> Rows] /\ audit[a].unchanged \in SUBSET Tickers
  BY IdleAudit DEF AuditPrice, Audits
<1>2. PnlOf(rows) \in [Tickers -> Int]
  BY <1>1, PnlType
<1>3. SettledRows(rows) \in SUBSET Tickers /\ Changed(rows) \in SUBSET Tickers
  BY DEF SettledRows, Changed
<1>4. [step |-> "priced", settled |-> SettledRows(rows), changed |-> Changed(rows),
       pnl |-> PnlOf(rows), unchanged |-> audit[a].unchanged] \in Audits
  BY <1>1, <1>2, <1>3 DEF Audits
<1>5. audit' \in [Accountants -> Audits \cup {NoAudit}]
  BY <1>4 DEF AuditPrice, TypeOK
<1> QED BY <1>5 DEF AuditPrice, TypeOK, ledger

(* Writing the realized P&L of a row leaves a row. *)
LEMMA RowKeepsType ==
  ASSUME NEW row \in Rows, NEW n \in Int
  PROVE  [row EXCEPT !.realized = n] \in Rows
BY DEF Rows

LEMMA AuditCommitType ==
  ASSUME TypeOK, NEW a \in Accountants, AuditCommit(a)
  PROVE  TypeOK'
<1> DEFINE changed == audit[a].changed
<1>1. audit[a] \in Audits
  BY IdleAudit DEF AuditCommit
<1>2. /\ changed \subseteq Tickers /\ audit[a].settled \subseteq Tickers
      /\ audit[a].pnl \in [Tickers -> Int]
  BY <1>1 DEF AuditCommit, Audits
<1>3. position' \in [Tickers -> Rows]
  <2>1. ASSUME NEW t \in changed
        PROVE  [position[t] EXCEPT !.realized = audit[a].pnl[t]] \in Rows
    <3>1. t \in Tickers
      BY <1>2, <2>1
    <3>2. position[t] \in Rows
      BY <3>1 DEF TypeOK
    <3>3. audit[a].pnl[t] \in Int
      BY <1>2, <3>1
    <3> QED BY <3>2, <3>3, RowKeepsType
  <2> QED BY <2>1 DEF AuditCommit, TypeOK
<1>4. audit' \in [Accountants -> Audits \cup {NoAudit}]
  <2>1. ASSUME NEW b \in Accountants, audit[b].step # "idle"
        PROVE  [audit[b] EXCEPT !.unchanged = @ \ changed] \in Audits
    BY <2>1, IdleAudit, ForgetsType
  <2>2. ASSUME NEW b \in Accountants PROVE audit'[b] \in Audits \cup {NoAudit}
    BY <2>1 DEF AuditCommit, TypeOK
  <2> QED BY <2>2 DEF AuditCommit
<1>5. exact' \subseteq Tickers
  BY <1>2 DEF AuditCommit, TypeOK
<1> QED BY <1>3, <1>4, <1>5 DEF AuditCommit, TypeOK

LEMMA AuditAbandonType ==
  ASSUME TypeOK, NEW a \in Accountants, AuditAbandon(a)
  PROVE  TypeOK'
BY DEF AuditAbandon, TypeOK, ledger

-----------------------------------------------------------------------------
(* Everything else that commits, and the theorem *)

LEMMA OtherType ==
  ASSUME TypeOK,
         \/ \E t \in Tickers :
              \/ \E result \in Results : Settle(t, result)
              \/ Close(t)
         \/ \E k \in CandidateKeys : CooldownPasses(k)
         \/ Reset
  PROVE  TypeOK'
<1>1. ASSUME NEW t \in Tickers, NEW result \in Results, Settle(t, result) PROVE TypeOK'
  <2>1. audit' \in [Accountants -> Audits \cup {NoAudit}] /\ exact' \subseteq Tickers
    BY <1>1, NewsType DEF Settle
  <2> QED BY <1>1, <2>1 DEF Settle, TypeOK, ledger
<1>2. ASSUME NEW t \in Tickers, Close(t) PROVE TypeOK'
  BY <1>2 DEF Close, TypeOK, ledger
<1>3. ASSUME NEW k \in CandidateKeys, CooldownPasses(k) PROVE TypeOK'
  <2>1. recent \in [CandidateKeys -> Nat] /\ recent[k] \in Nat /\ recent[k] > 0
    BY <1>3 DEF CooldownPasses, TypeOK
  <2>2. recent[k] - 1 \in Nat
    BY <2>1
  <2>3. recent' \in [CandidateKeys -> Nat]
    BY <1>3, <2>1, <2>2 DEF CooldownPasses
  <2> QED BY <1>3, <2>3 DEF CooldownPasses, TypeOK
<1>4. ASSUME Reset PROVE TypeOK'
  <2>1. audit' \in [Accountants -> Audits \cup {NoAudit}] /\ exact' \subseteq Tickers
    BY <1>4, NewsType DEF Reset
  <2> QED BY <1>4, <2>1, NothingType DEF Reset, TypeOK
<1> QED BY <1>1, <1>2, <1>3, <1>4

LEMMA NextType == TypeOK /\ [Next]_vars => TypeOK'
<1> SUFFICES ASSUME TypeOK, [Next]_vars PROVE TypeOK'
  OBVIOUS
<1>1. CASE UNCHANGED vars
  BY <1>1 DEF vars, TypeOK
<1>2. ASSUME NEW s \in Traders, Order(s) PROVE TypeOK'
  BY <1>2, InsertType, ReadPositionType, WritePositionType, CommitType, AbandonType DEF Order
<1>3. ASSUME NEW s \in Traders, NEW f \in Forecasts, NEW x \in Sides, Size(s, f, x)
      PROVE TypeOK'
  BY <1>3, SizeType
<1>4. ASSUME NEW a \in Accountants, Audit(a) PROVE TypeOK'
  BY <1>4, AuditReadType, AuditPriceType, AuditCommitType, AuditAbandonType DEF Audit
<1> QED BY <1>1, <1>2, <1>3, <1>4, OtherType DEF Next

\* The variables keep their types on both databases, whatever sessions do.
THEOREM TypeCorrect == Spec => []TypeOK
BY InitType, NextType, PTL DEF Spec

-----------------------------------------------------------------------------
(* The inductive invariant *)

Writing == {"inserted", "read", "written"}
About(s) == TickerOf[order[s].forecast]
KeyOf(s) == candidate_key(order[s].forecast, order[s].side)
OnlyRuns == Backend = "sqlite" /\ Desks = {}

\* On SQLite a session that has written holds the write lock.
LockHeld ==
  Backend = "sqlite" => \A s \in Traders : order[s].step \in Writing => writer = s

\* ... and what it has read of a position is what the position still is.
Fresh ==
  Backend = "sqlite" =>
    \A s \in Traders :
      order[s].step \in {"read", "written"} => order[s].row.held = position[About(s)].held

Matches == Backend = "sqlite" => PositionMatchesFills

\* An order that carries a forecast's id is alone with it, before the commit too.
Reserved ==
  \A s \in Traders :
    order[s].step \in Writing /\ order[s].carries =>
      /\ carrying[order[s].forecast] = 0
      /\ \A r \in Traders \ {s} :
           order[r].step \in Writing /\ order[r].carries =>
             order[r].forecast # order[s].forecast

\* A paper run that has written still finds room under the cap and no recent order.
Room ==
  Backend = "sqlite" =>
    \A s \in Runners :
      order[s].step \in Writing =>
        /\ position[About(s)].held[order[s].side].quantity + order[s].quantity <= MaxPosition
        /\ LearningMode => recent[KeyOf(s)] = 0

Limits == OnlyRuns => WithinCap /\ OnceInCooldown

IInv ==
  TypeOK /\ LockHeld /\ Fresh /\ Matches /\ Reserved /\ ForecastOrderedOnce /\ Room /\ Limits

\* The initial states satisfy it.
LEMMA InitInv == Init => IInv
<1> SUFFICES ASSUME Init PROVE IInv
  OBVIOUS
<1>1. TypeOK
  BY InitType
<1>2. \A s \in Traders : order[s].step = "idle"
  BY DEF Init, NoOrder
<1>3. LockHeld /\ Fresh /\ Reserved /\ Room
  BY <1>2 DEF LockHeld, Fresh, Reserved, Room, Writing, Traders
<1>4. Matches /\ ForecastOrderedOnce
  BY DEF Init, Matches, PositionMatchesFills, ForecastOrderedOnce, Absent
<1>5. Limits
  BY LedgerAssumption
  DEF Init, Limits, OnlyRuns, WithinCap, OnceInCooldown, Absent, Nothing
<1> QED BY <1>1, <1>3, <1>4, <1>5 DEF IInv

\* Steps that leave orders, the lock, fills and holdings alone, and only age
\* recent orders.
Quiet ==
  /\ order' = order /\ writer' = writer /\ carrying' = carrying /\ fills' = fills
  /\ \A t \in Tickers : position'[t].held = position[t].held
  /\ \A k \in CandidateKeys : recent'[k] <= recent[k]

LEMMA QuietStep ==
  ASSUME IInv, TypeOK', Quiet
  PROVE  IInv'
<1> USE DEF Quiet
<1>0. \A s \in Traders : order[s].step \in Writing =>
        About(s) \in Tickers /\ order[s].side \in Sides /\ KeyOf(s) \in CandidateKeys
  BY IdleOrder, LedgerAssumption
  DEF IInv, Writing, Orders, About, KeyOf, candidate_key, CandidateKeys
<1>1. LockHeld'
  BY DEF IInv, LockHeld
<1>2. Fresh'
  BY <1>0 DEF IInv, Fresh, About, Writing
<1>3. Matches'
  BY DEF IInv, Matches, PositionMatchesFills
<1>4. Reserved' /\ ForecastOrderedOnce'
  BY DEF IInv, Reserved, ForecastOrderedOnce
<1>5. Room'
  <2> SUFFICES ASSUME Backend = "sqlite", NEW s \in Runners, order[s].step \in Writing
               PROVE  /\ position'[About(s)].held[order[s].side].quantity + order[s].quantity
                           <= MaxPosition
                      /\ LearningMode => recent'[KeyOf(s)] = 0
    BY DEF Room, About, KeyOf
  <2>1. /\ position[About(s)].held[order[s].side].quantity + order[s].quantity <= MaxPosition
        /\ LearningMode => recent[KeyOf(s)] = 0
    BY DEF IInv, Room
  <2>2. recent'[KeyOf(s)] \in Nat
    BY <1>0 DEF TypeOK, Traders
  <2> QED BY <1>0, <2>1, <2>2 DEF Traders
<1>6. Limits'
  <2>1. \A k \in CandidateKeys : recent[k] \in Nat /\ recent'[k] \in Nat
    BY DEF IInv, TypeOK
  <2> QED BY <2>1 DEF IInv, Limits, OnlyRuns, WithinCap, OnceInCooldown
<1> QED BY <1>1, <1>2, <1>3, <1>4, <1>5, <1>6 DEF IInv

\* P&L sessions, settlements, closing markets and the clock are quiet.
LEMMA QuietActions ==
  ASSUME TypeOK,
         \/ UNCHANGED vars
         \/ \E a \in Accountants : Audit(a)
         \/ \E t \in Tickers :
              \/ \E result \in Results : Settle(t, result)
              \/ Close(t)
         \/ \E k \in CandidateKeys : CooldownPasses(k)
  PROVE  Quiet
<1>0. \A k \in CandidateKeys : recent[k] \in Nat
  BY DEF TypeOK
<1>1. CASE UNCHANGED vars
  BY <1>0, <1>1 DEF vars, Quiet
<1>2. ASSUME NEW a \in Accountants, Audit(a) PROVE Quiet
  <2>1. CASE AuditRead(a) \/ AuditPrice(a) \/ AuditAbandon(a)
    BY <1>0, <2>1 DEF AuditRead, AuditPrice, AuditAbandon, ledger, Quiet
  <2>2. CASE AuditCommit(a)
    <3>1. \A t \in Tickers : position'[t].held = position[t].held
      BY <2>2 DEF AuditCommit, TypeOK, Rows
    <3> QED BY <1>0, <2>2, <3>1 DEF AuditCommit, Quiet
  <2> QED BY <1>2, <2>1, <2>2 DEF Audit
<1>3. ASSUME NEW t \in Tickers, NEW result \in Results, Settle(t, result) PROVE Quiet
  BY <1>0, <1>3 DEF Settle, ledger, Quiet
<1>4. ASSUME NEW t \in Tickers, Close(t) PROVE Quiet
  BY <1>0, <1>4 DEF Close, ledger, Quiet
<1>5. ASSUME NEW k \in CandidateKeys, CooldownPasses(k) PROVE Quiet
  BY <1>0, <1>5 DEF CooldownPasses, Quiet, TypeOK
<1> QED BY <1>1, <1>2, <1>3, <1>4, <1>5

\* A session that has nothing written yet, before or after its step, weighs on no
\* part of the invariant: sizing and abandoning.
LEMMA SetAside ==
  ASSUME IInv, TypeOK', NEW s \in Traders,
         order'[s].step \notin Writing,
         \A r \in Traders \ {s} : order'[r] = order[r],
         writer' = writer \/ (writer = s /\ writer' = Nobody),
         UNCHANGED ledger
  PROVE  IInv'
<1>1. \A r \in Traders : order'[r].step \in Writing => r # s /\ order'[r] = order[r]
  OBVIOUS
<1>2. LockHeld'
  BY <1>1 DEF IInv, LockHeld
<1>3. Fresh' /\ Room'
  BY <1>1 DEF IInv, Fresh, Room, Traders, Writing, About, KeyOf, ledger
<1>4. Reserved'
  BY <1>1 DEF IInv, Reserved, ledger
<1>5. Matches' /\ ForecastOrderedOnce' /\ Limits'
  BY DEF IInv, Matches, PositionMatchesFills, ForecastOrderedOnce, Limits, OnlyRuns,
         WithinCap, OnceInCooldown, ledger
<1> QED BY <1>2, <1>3, <1>4, <1>5 DEF IInv

LEMMA SizeKeeps ==
  ASSUME IInv, TypeOK', NEW s \in Traders, NEW f \in Forecasts, NEW x \in Sides, Size(s, f, x)
  PROVE  IInv'
<1>1. order'[s].step = "sized" /\ \A r \in Traders \ {s} : order'[r] = order[r]
  BY DEF Size, IInv, TypeOK
<1> QED BY <1>1, SetAside DEF Size, Writing

LEMMA AbandonKeeps ==
  ASSUME IInv, TypeOK', NEW s \in Traders, Abandon(s)
  PROVE  IInv'
<1>1. order'[s].step = "idle" /\ \A r \in Traders \ {s} : order'[r] = order[r]
  BY DEF Abandon, IInv, TypeOK, NoOrder
<1> QED BY <1>1, SetAside DEF Abandon, Writing

\* When the lock is free no session has written, and whoever writes is alone.
LEMMA Alone ==
  ASSUME IInv, Backend = "sqlite", NEW s \in Traders, order[s].step \in Writing
  PROVE  \A r \in Traders : order[r].step \in Writing => r = s
BY DEF IInv, LockHeld

LEMMA NobodyWriting ==
  ASSUME IInv, Backend = "sqlite", LockFree
  PROVE  \A r \in Traders : order[r].step \notin Writing
BY LedgerAssumption DEF IInv, LockHeld, LockFree, Traders

\* Insert takes the lock, and repeats the checks before it has written.
LEMMA InsertKeeps ==
  ASSUME IInv, TypeOK', NEW s \in Traders, Insert(s)
  PROVE  IInv'
<1> DEFINE carries == IF s \in Runners THEN CarriesForecast(order[s].forecast)
                      ELSE order[s].carries
<1>1. order[s] \in Orders
  BY IdleOrder DEF Insert, IInv
<1>2. order' = [order EXCEPT ![s] = [order[s] EXCEPT !.step = "inserted", !.carries = carries]]
  BY DEF Insert, IInv, TypeOK
<1>3. /\ order'[s].step = "inserted" /\ order'[s].carries = carries
      /\ order'[s].forecast = order[s].forecast /\ order'[s].side = order[s].side
      /\ order'[s].quantity = order[s].quantity
      /\ \A r \in Traders \ {s} : order'[r] = order[r]
  BY <1>1, <1>2 DEF Orders, IInv, TypeOK
<1>4. LockHeld'
  BY <1>3, NobodyWriting DEF Insert, LockHeld
<1>5. Fresh'
  BY <1>3 DEF IInv, Fresh, Insert, ledger, About
<1>6. Matches' /\ ForecastOrderedOnce' /\ Limits'
  BY DEF Insert, IInv, Matches, PositionMatchesFills, ForecastOrderedOnce, Limits, OnlyRuns,
         WithinCap, OnceInCooldown, ledger
<1>7. Reserved'
  <2>1. carries => UniqueForecast(s)
    BY DEF Insert
  <2>2. carries => /\ carrying[order[s].forecast] = 0
                   /\ \A r \in Traders \ {s} :
                        order[r].step \in Writing /\ order[r].carries =>
                          order[r].forecast # order[s].forecast
    BY <2>1 DEF UniqueForecast, Writing
  <2>3. carrying' = carrying
    BY DEF Insert, ledger
  <2> HIDE DEF carries
  <2> QED BY <1>3, <2>2, <2>3 DEF IInv, Reserved
<1>8. Room'
  <2> SUFFICES ASSUME Backend = "sqlite", s \in Runners
               PROVE  /\ position[About(s)].held[order[s].side].quantity + order[s].quantity
                           <= MaxPosition
                      /\ LearningMode => recent[KeyOf(s)] = 0
    BY <1>3, NobodyWriting DEF Room, About, KeyOf, Insert, Traders, ledger
  <2>2. StillGood(s)
    BY DEF Insert
  <2>3. recent[KeyOf(s)] \in Nat
    BY <1>1, LedgerAssumption
    DEF IInv, TypeOK, Orders, KeyOf, candidate_key, CandidateKeys
  <2> QED BY <2>2, <2>3 DEF StillGood, Duplicate, About, KeyOf
<1> QED BY <1>4, <1>5, <1>6, <1>7, <1>8 DEF IInv

\* Going on to read or to write changes nothing committed.
LEMMA GoingOn ==
  ASSUME IInv, TypeOK', NEW s \in Traders, order[s].step \in Writing, order'[s].step \in Writing,
         order'[s].forecast = order[s].forecast, order'[s].side = order[s].side,
         order'[s].quantity = order[s].quantity, order'[s].carries = order[s].carries,
         \A r \in Traders \ {s} : order'[r] = order[r],
         order'[s].step \in {"read", "written"} =>
           (Backend = "sqlite" => order'[s].row.held = position[About(s)].held),
         UNCHANGED <<ledger, writer>>
  PROVE  IInv'
<1>1. LockHeld'
  BY DEF IInv, LockHeld
<1>2. Fresh'
  BY DEF IInv, Fresh, About, ledger
<1>3. Reserved'
  BY DEF IInv, Reserved, ledger
<1>4. Room'
  BY DEF IInv, Room, Traders, About, KeyOf, ledger
<1>5. Matches' /\ ForecastOrderedOnce' /\ Limits'
  BY DEF IInv, Matches, PositionMatchesFills, ForecastOrderedOnce, Limits, OnlyRuns,
         WithinCap, OnceInCooldown, ledger
<1> QED BY <1>1, <1>2, <1>3, <1>4, <1>5 DEF IInv

LEMMA ReadPositionKeeps ==
  ASSUME IInv, TypeOK', NEW s \in Traders, ReadPosition(s)
  PROVE  IInv'
<1>1. order[s] \in Orders
  BY IdleOrder DEF ReadPosition, IInv
<1>2. order' = [order EXCEPT ![s] =
                 [order[s] EXCEPT !.step = "read", !.row = position[About(s)]]]
  BY DEF ReadPosition, IInv, TypeOK, About
<1>3. /\ order'[s].step = "read" /\ order'[s].carries = order[s].carries
      /\ order'[s].forecast = order[s].forecast /\ order'[s].side = order[s].side
      /\ order'[s].quantity = order[s].quantity /\ order'[s].row = position[About(s)]
      /\ \A r \in Traders \ {s} : order'[r] = order[r]
  BY <1>1, <1>2 DEF Orders, IInv, TypeOK
<1>4. order[s].step \in Writing /\ order'[s].step \in Writing /\ UNCHANGED <<ledger, writer>>
  BY <1>3 DEF ReadPosition, Writing
<1> QED BY <1>3, <1>4, GoingOn

LEMMA WritePositionKeeps ==
  ASSUME IInv, TypeOK', NEW s \in Traders, WritePosition(s)
  PROVE  IInv'
<1>1. order[s] \in Orders
  BY IdleOrder DEF WritePosition, IInv
<1>2. order' = [order EXCEPT ![s] = [order[s] EXCEPT !.step = "written"]]
  BY DEF WritePosition, IInv, TypeOK
<1>3. /\ order'[s].step = "written" /\ order'[s].carries = order[s].carries
      /\ order'[s].forecast = order[s].forecast /\ order'[s].side = order[s].side
      /\ order'[s].quantity = order[s].quantity /\ order'[s].row = order[s].row
      /\ \A r \in Traders \ {s} : order'[r] = order[r]
  BY <1>1, <1>2 DEF Orders, IInv, TypeOK
<1>4. order[s].step \in Writing /\ order'[s].step \in Writing /\ UNCHANGED <<ledger, writer>>
  BY <1>3 DEF WritePosition, Writing
<1>5. Backend = "sqlite" => order'[s].row.held = position[About(s)].held
  BY <1>3 DEF WritePosition, IInv, Fresh
<1> QED BY <1>3, <1>4, <1>5, GoingOn

\* What a commit does to the order's side, and that it leaves the rest alone.
LEMMA CommitEffect ==
  ASSUME TypeOK, NEW s \in Traders, Commit(s)
  PROVE  LET o == order[s]
             t == About(s) IN
         /\ o \in Orders /\ o.step = "written" /\ t \in Tickers /\ o.side \in Sides
         /\ position'[t].held = [position[t].held EXCEPT
              ![o.side] = Bought(o.row.held[o.side], o.quantity, o.price)]
         /\ fills'[t] = [fills[t] EXCEPT
              ![o.side] = Bought(fills[t][o.side], o.quantity, o.price)]
         /\ KeyOf(s) \in CandidateKeys /\ recent'[KeyOf(s)] = recent[KeyOf(s)] + 1
         /\ \A u \in Tickers \ {t} : position'[u] = position[u] /\ fills'[u] = fills[u]
         /\ \A k \in CandidateKeys \ {KeyOf(s)} : recent'[k] = recent[k]
         /\ order'[s].step \notin Writing
         /\ \A r \in Traders \ {s} : order'[r] = order[r]
<1> DEFINE o == order[s]
           t == About(s)
<1>1. o \in Orders /\ o.step = "written" /\ t \in Tickers /\ o.side \in Sides
  BY IdleOrder, LedgerAssumption DEF Commit, Orders, About
<1>2. position'[t] = Updated(s) /\ \A u \in Tickers \ {t} : position'[u] = position[u]
  BY <1>1 DEF Commit, TypeOK, About
<1>3. position[t] \in Rows
  BY <1>1 DEF TypeOK
<1>4. Updated(s).held = [position[t].held EXCEPT
        ![o.side] = Bought(o.row.held[o.side], o.quantity, o.price)]
  BY <1>3 DEF Updated, Rows, About
<1>5. /\ fills'[t] = [fills[t] EXCEPT
           ![o.side] = Bought(fills[t][o.side], o.quantity, o.price)]
      /\ \A u \in Tickers \ {t} : fills'[u] = fills[u]
  BY <1>1 DEF Commit, TypeOK, About
<1>6. /\ KeyOf(s) \in CandidateKeys /\ recent'[KeyOf(s)] = recent[KeyOf(s)] + 1
      /\ \A k \in CandidateKeys \ {KeyOf(s)} : recent'[k] = recent[k]
  <2>1. KeyOf(s) \in CandidateKeys
    BY <1>1, LedgerAssumption DEF Orders, KeyOf, candidate_key, CandidateKeys
  <2>2. recent \in [CandidateKeys -> Nat] /\ recent' = [recent EXCEPT ![KeyOf(s)] = @ + 1]
    BY DEF Commit, TypeOK, KeyOf
  <2> QED BY <2>1, <2>2
<1>7. order'[s].step \notin Writing /\ \A r \in Traders \ {s} : order'[r] = order[r]
  BY DEF Commit, TypeOK, NoOrder, Writing
<1> QED BY <1>1, <1>2, <1>4, <1>5, <1>6, <1>7

LEMMA CommitKeeps ==
  ASSUME IInv, TypeOK', NEW s \in Traders, Commit(s)
  PROVE  IInv'
<1> DEFINE o == order[s]
           t == About(s)
<1>0. TypeOK
  BY DEF IInv
<1>1. o \in Orders /\ o.step = "written" /\ o.step \in Writing /\ t \in Tickers /\ o.side \in Sides
  BY <1>0, CommitEffect DEF Writing
<1>2. order'[s].step \notin Writing /\ \A r \in Traders \ {s} : order'[r] = order[r]
  BY <1>0, CommitEffect
<1>11. /\ position'[t].held = [position[t].held EXCEPT
           ![o.side] = Bought(o.row.held[o.side], o.quantity, o.price)]
      /\ fills'[t] = [fills[t] EXCEPT
           ![o.side] = Bought(fills[t][o.side], o.quantity, o.price)]
      /\ KeyOf(s) \in CandidateKeys /\ recent'[KeyOf(s)] = recent[KeyOf(s)] + 1
      /\ \A k \in CandidateKeys \ {KeyOf(s)} : recent'[k] = recent[k]
  BY <1>0, CommitEffect
<1>3. Backend = "sqlite" => \A r \in Traders : order'[r].step \notin Writing
  BY <1>1, <1>2, Alone
<1>4. LockHeld' /\ Fresh'
  BY <1>3 DEF LockHeld, Fresh, Writing
<1>5. Room'
  BY <1>3 DEF Room, Traders
<1>6. Matches'
  <2> SUFFICES ASSUME Backend = "sqlite" PROVE PositionMatchesFills'
    BY DEF Matches
  <2>1. o.row.held = position[t].held /\ PositionMatchesFills
    BY <1>1 DEF IInv, Fresh, Matches
  <2>2. position'[t].held = fills'[t]
    <3>1. fills[t] = position[t].held
      BY <1>1, <2>1 DEF PositionMatchesFills
    <3> HIDE DEF o, t
    <3> QED BY <1>11, <2>1, <3>1
  <2>3. \A u \in Tickers \ {t} : position'[u].held = fills'[u]
    BY <1>0, <2>1, CommitEffect DEF PositionMatchesFills
  <2> QED BY <2>2, <2>3 DEF PositionMatchesFills
<1>7. o.forecast \in Forecasts /\ carrying' =
        IF o.carries THEN [carrying EXCEPT ![o.forecast] = @ + 1] ELSE carrying
  BY <1>1 DEF Commit, Orders
<1>8. ForecastOrderedOnce'
  <2>1. o.carries => carrying[o.forecast] = 0
    BY <1>1 DEF IInv, Reserved
  <2>2. \A f \in Forecasts : carrying[f] <= 1 /\ carrying[f] \in Nat
    BY DEF IInv, ForecastOrderedOnce, TypeOK
  <2> QED BY <1>0, <1>7, <2>1, <2>2 DEF ForecastOrderedOnce, TypeOK
<1>9. Reserved'
  <2> SUFFICES ASSUME NEW r \in Traders, order'[r].step \in Writing, order'[r].carries
               PROVE  /\ carrying'[order'[r].forecast] = 0
                      /\ \A q \in Traders \ {r} :
                           order'[q].step \in Writing /\ order'[q].carries =>
                             order'[q].forecast # order'[r].forecast
    BY DEF Reserved
  <2>1. r # s /\ order'[r] = order[r]
    BY <1>2
  <2>2. carrying[order[r].forecast] = 0 /\ (o.carries => order[r].forecast # o.forecast)
    BY <1>1, <2>1 DEF IInv, Reserved
  <2>3. order[r].forecast \in Forecasts
    BY <1>0, <2>1, IdleOrder DEF Orders, Writing
  <2>4. carrying'[order[r].forecast] = 0
    BY <1>0, <1>7, <2>2, <2>3 DEF TypeOK
  <2>5. ASSUME NEW q \in Traders \ {r}, order'[q].step \in Writing, order'[q].carries
        PROVE  order'[q].forecast # order'[r].forecast
    <3>1. q # s /\ order'[q] = order[q]
      BY <1>2, <2>5
    <3> QED BY <2>1, <2>5, <3>1 DEF IInv, Reserved
  <2> QED BY <2>1, <2>4, <2>5
<1>10. Limits'
  <2> SUFFICES ASSUME OnlyRuns PROVE WithinCap' /\ OnceInCooldown'
    BY DEF Limits, OnlyRuns
  <2>1. /\ position[t].held[o.side].quantity + o.quantity <= MaxPosition
        /\ LearningMode => recent[KeyOf(s)] = 0
        /\ o.row.held = position[t].held
        /\ WithinCap /\ OnceInCooldown
    BY <1>1 DEF IInv, Room, Limits, Fresh, OnlyRuns, Traders
  <2>2. position[t].held \in Holding
    BY <1>0, <1>1 DEF TypeOK, Rows
  <2>3. /\ position'[t].held[o.side].quantity = position[t].held[o.side].quantity + o.quantity
        /\ \A x \in Sides \ {o.side} : position'[t].held[x] = position[t].held[x]
    <3> HIDE DEF o, t
    <3> QED BY <1>1, <1>11, <2>1, <2>2 DEF Bought, Holding
  <2>4. WithinCap'
    <3>1. ASSUME NEW u \in Tickers, NEW x \in Sides
          PROVE  position'[u].held[x].quantity <= MaxPosition
      <4>1. CASE u = t /\ x = o.side
        BY <2>1, <2>3, <4>1
      <4>2. CASE u = t /\ x # o.side
        BY <2>1, <2>3, <4>2 DEF WithinCap
      <4>3. CASE u # t
        <5>1. position'[u] = position[u]
          BY <1>0, <4>3, CommitEffect
        <5> QED BY <2>1, <5>1 DEF WithinCap
      <4> QED BY <4>1, <4>2, <4>3
    <3> QED BY <3>1 DEF WithinCap
  <2>5. OnceInCooldown'
    <3>1. \A k \in CandidateKeys : LearningMode => recent'[k] <= 1
      <4> HIDE DEF o, t
      <4> QED BY <1>11, <2>1 DEF OnceInCooldown
    <3> QED BY <3>1 DEF OnceInCooldown
  <2> QED BY <2>4, <2>5
<1> QED BY <1>4, <1>5, <1>6, <1>8, <1>9, <1>10 DEF IInv

\* paper-reset finds no session writing, and leaves no position and no fill.
LEMMA ResetKeeps ==
  ASSUME IInv, TypeOK', Reset
  PROVE  IInv'
<1>1. \A s \in Traders : order'[s].step \notin Writing
  BY NobodyWriting DEF Reset
<1>2. LockHeld' /\ Fresh' /\ Reserved' /\ Room'
  BY <1>1 DEF LockHeld, Fresh, Reserved, Room, Writing, Traders
<1>3. Matches' /\ ForecastOrderedOnce'
  BY DEF Reset, Matches, PositionMatchesFills, ForecastOrderedOnce, Absent
<1>4. Limits'
  BY LedgerAssumption
  DEF Reset, Limits, OnlyRuns, WithinCap, OnceInCooldown, Absent, Nothing
<1> QED BY <1>2, <1>3, <1>4 DEF IInv

LEMMA NextInv == IInv /\ [Next]_vars => IInv'
<1> SUFFICES ASSUME IInv, [Next]_vars PROVE IInv'
  OBVIOUS
<1>0. TypeOK /\ TypeOK'
  BY NextType DEF IInv
<1>1. ASSUME NEW s \in Traders, Order(s) PROVE IInv'
  BY <1>0, <1>1, InsertKeeps, ReadPositionKeeps, WritePositionKeeps, CommitKeeps, AbandonKeeps
  DEF Order
<1>2. ASSUME NEW s \in Traders, NEW f \in Forecasts, NEW x \in Sides, Size(s, f, x) PROVE IInv'
  BY <1>0, <1>2, SizeKeeps
<1>3. CASE Reset
  BY <1>0, <1>3, ResetKeeps
<1>4. CASE \/ UNCHANGED vars
           \/ \E a \in Accountants : Audit(a)
           \/ \E t \in Tickers :
                \/ \E result \in Results : Settle(t, result)
                \/ Close(t)
           \/ \E k \in CandidateKeys : CooldownPasses(k)
  BY <1>0, <1>4, QuietActions, QuietStep
<1> QED BY <1>1, <1>2, <1>3, <1>4 DEF Next

LEMMA InvHolds == Spec => []IInv
BY InitInv, NextInv, PTL DEF Spec

-----------------------------------------------------------------------------
(* What the invariant is for *)

\* On SQLite positions always match the fills they came from.
THEOREM SqlitePositionsMatch ==
  ASSUME Backend = "sqlite"
  PROVE  Spec => []PositionMatchesFills
<1>1. IInv => PositionMatchesFills
  BY DEF IInv, Matches
<1> QED BY <1>1, InvHolds, PTL

\* On both databases a forecast's id is on at most one order.
THEOREM ForecastCarriedOnce == Spec => []ForecastOrderedOnce
<1>1. IInv => ForecastOrderedOnce
  BY DEF IInv
<1> QED BY <1>1, InvHolds, PTL

\* Paper runs alone keep the position cap on SQLite.
THEOREM RunsKeepCap ==
  ASSUME Backend = "sqlite", Desks = {}
  PROVE  Spec => []WithinCap
<1>1. IInv => WithinCap
  BY DEF IInv, Limits, OnlyRuns
<1> QED BY <1>1, InvHolds, PTL

\* Paper runs alone keep to one order per market, model, side and cooldown on SQLite,
\* for any forecasts and models.
THEOREM RunsKeepCooldown ==
  ASSUME Backend = "sqlite", Desks = {}
  PROVE  Spec => []OnceInCooldown
<1>1. IInv => OnceInCooldown
  BY DEF IInv, Limits, OnlyRuns
<1> QED BY <1>1, InvHolds, PTL
-----------------------------------------------------------------------------
(* How far desks take a position over the cap, on SQLite *)

\* Contracts of side x of t in the order that session s is working on.
InHand(s, t, x) ==
  IF order[s].step # "idle" /\ About(s) = t /\ order[s].side = x THEN order[s].quantity ELSE 0

\* What the desks may yet add to a position.
UnderWay(t, x) == SumFunctionOnSet([s \in Desks |-> InHand(s, t, x)], Desks)

\* An order was worked out when there was room for it.
Modest == \A s \in Traders : order[s].step # "idle" => order[s].quantity <= MaxPosition

Ceiling == MaxPosition + Cardinality(Desks) * MaxPosition

Overdraft ==
  /\ Modest
  /\ \A t \in Tickers, x \in Sides : position[t].held[x].quantity + UnderWay(t, x) <= Ceiling

LEMMA InHandType ==
  ASSUME TypeOK, Modest, NEW s \in Traders, NEW t, NEW x
  PROVE  InHand(s, t, x) \in 0..MaxPosition
<1>1. MaxPosition \in Nat
  BY LedgerAssumption
<1>2. CASE order[s].step # "idle"
  <2>1. order[s].quantity \in Nat /\ order[s].quantity <= MaxPosition
    BY <1>2, IdleOrder, LedgerAssumption, TierSizes DEF Modest, Orders
  <2> QED BY <1>1, <2>1 DEF InHand
<1>3. CASE order[s].step = "idle"
  BY <1>1, <1>3 DEF InHand
<1> QED BY <1>2, <1>3

\* Desks that have no more than a full position in hand each.
LEMMA DesksSum ==
  ASSUME NEW f, \A s \in Desks : f[s] \in 0..MaxPosition
  PROVE  /\ SumFunctionOnSet(f, Desks) \in Nat
         /\ SumFunctionOnSet(f, Desks) <= Cardinality(Desks) * MaxPosition
<1>1. MaxPosition \in Nat /\ IsFiniteSet(Desks)
  BY LedgerAssumption
<1>2. \A s \in Desks : f[s] \in Nat
  BY <1>1
<1>3. SumFunctionOnSet(f, Desks) \in Nat
  BY <1>1, <1>2, SumNat
<1>4. SumFunctionOnSet(f, Desks) <= Cardinality(Desks) * MaxPosition
  BY <1>1, SumBound
<1> QED BY <1>3, <1>4

\* Whatever is under way, it is one full position for each desk at most.
LEMMA UnderWayBound ==
  ASSUME TypeOK, Modest, NEW t, NEW x
  PROVE  UnderWay(t, x) \in Nat /\ UnderWay(t, x) <= Cardinality(Desks) * MaxPosition
<1>1. \A s \in Desks : InHand(s, t, x) \in 0..MaxPosition
  BY InHandType DEF Traders
<1> QED BY <1>1, DesksSum DEF UnderWay

\* The same of the next state.
LEMMA UnderWayBoundNext ==
  ASSUME TypeOK', Modest', NEW t, NEW x
  PROVE  UnderWay(t, x)' \in Nat /\ UnderWay(t, x)' <= Cardinality(Desks) * MaxPosition
<1>1. ASSUME NEW s \in Desks PROVE InHand(s, t, x)' \in 0..MaxPosition
  <2>1. MaxPosition \in Nat /\ s \in Traders
    BY LedgerAssumption DEF Traders
  <2>2. order'[s].step # "idle" => order'[s].quantity \in Nat /\ order'[s].quantity <= MaxPosition
    <3>1. order'[s].step # "idle" => order'[s] \in Orders
      BY <2>1 DEF TypeOK, NoOrder
    <3> QED BY <2>1, <3>1, LedgerAssumption, TierSizes DEF Modest, Orders
  <2> QED BY <2>1, <2>2 DEF InHand
<1>2. UnderWay(t, x)' = SumFunctionOnSet([s \in Desks |-> InHand(s, t, x)'], Desks)
  BY DEF UnderWay
<1> QED BY <1>1, <1>2, DesksSum

\* One desk's order that ends takes what it has in hand off what is under way.
LEMMA OrderEnds ==
  ASSUME TypeOK, TypeOK', Modest, NEW s \in Traders, order'[s].step = "idle",
         \A r \in Traders \ {s} : order'[r] = order[r], NEW t, NEW x
  PROVE  /\ s \in Desks => UnderWay(t, x)' = UnderWay(t, x) - InHand(s, t, x)
         /\ s \notin Desks => UnderWay(t, x)' = UnderWay(t, x)
<1> DEFINE f == [r \in Desks |-> InHand(r, t, x)]
           g == [r \in Desks |-> InHand(r, t, x)']
<1>1. UnderWay(t, x) = SumFunctionOnSet(f, Desks) /\ UnderWay(t, x)' = SumFunctionOnSet(g, Desks)
  BY DEF UnderWay
<1>2. \A r \in Desks \ {s} : g[r] = f[r]
  BY DEF InHand, About, Traders
<1>3. \A r \in Desks : f[r] \in Nat
  BY InHandType DEF Traders
<1>4. CASE s \in Desks
  <2>1. g[s] = 0 /\ f[s] = InHand(s, t, x)
    BY <1>4 DEF InHand
  <2>2. \A r \in Desks : f[r] \in Nat /\ g[r] \in Nat
    BY <1>2, <1>3, <2>1
  <2>0. IsFiniteSet(Desks)
    BY LedgerAssumption
  <2> HIDE DEF f, g
  <2>3. SumFunctionOnSet(g, Desks) = SumFunctionOnSet(f, Desks) + g[s] - f[s]
    BY <1>2, <1>4, <2>2, <2>0, SumChange
  <2>4. UnderWay(t, x) \in Nat /\ f[s] \in Nat
    BY <1>3, <1>4, UnderWayBound
  <2> QED BY <1>1, <1>4, <2>1, <2>3, <2>4
<1>5. CASE s \notin Desks
  <2>1. f = g
    BY <1>2, <1>5
  <2> QED BY <1>1, <1>5, <2>1
<1> QED BY <1>4, <1>5

\* Steps after which no order has other contracts than before.
LEMMA SameOverdraft ==
  ASSUME Overdraft,
         \A s \in Traders :
           /\ order'[s].step = "idle" <=> order[s].step = "idle"
           /\ order[s].step # "idle" =>
                /\ order'[s].forecast = order[s].forecast /\ order'[s].side = order[s].side
                /\ order'[s].quantity = order[s].quantity,
         \A t \in Tickers : position'[t].held = position[t].held
  PROVE  Overdraft'
<1>1. Modest'
  BY DEF Overdraft, Modest
<1>2. ASSUME NEW t \in Tickers, NEW x \in Sides
      PROVE  UnderWay(t, x)' = UnderWay(t, x)
  <2>1. \A s \in Desks : InHand(s, t, x)' = InHand(s, t, x)
    BY DEF InHand, About, Traders
  <2> QED BY <2>1 DEF UnderWay
<1> QED BY <1>1, <1>2 DEF Overdraft, Ceiling

\* A size is worked out where it fits, so what is under way bounds the sum.
LEMMA SizeOverdraft ==
  ASSUME IInv, TypeOK', Overdraft, NEW s \in Traders, NEW f \in Forecasts, NEW x \in Sides,
         Size(s, f, x)
  PROVE  Overdraft'
<1> DEFINE t == TickerOf[f]
<1>1. PICK q \in Sizes(t, x), p \in Prices :
        order' = [order EXCEPT ![s] =
          [step |-> "sized", forecast |-> f, side |-> x, quantity |-> q, price |-> p,
           carries |-> CarriesForecast(f), row |-> Absent]]
  BY DEF Size
<1>0. TypeOK /\ t \in Tickers /\ MaxPosition \in Nat
  BY LedgerAssumption DEF IInv
<1>3. position[t].held[x].quantity \in Nat /\ position[t].held[x].quantity + q <= MaxPosition
  BY <1>0, SizesFit DEF TypeOK, Rows, Holding
<1>2. TypeOK /\ t \in Tickers /\ q \in Nat \ {0} /\ MaxPosition \in Nat
  BY <1>0, <1>3, SizesFit, TierSizes
<1>4. /\ order'[s].step = "sized" /\ order'[s].quantity = q
      /\ order'[s].forecast = f /\ order'[s].side = x
      /\ \A r \in Traders \ {s} : order'[r] = order[r]
  BY <1>1, <1>2 DEF TypeOK
<1>5. Modest'
  BY <1>2, <1>3, <1>4 DEF Overdraft, Modest
<1>6. position' = position
  BY DEF Size, ledger
<1>7. ASSUME NEW u \in Tickers, NEW y \in Sides
      PROVE  position'[u].held[y].quantity + UnderWay(u, y)' <= Ceiling
  <2>1. UnderWay(u, y)' \in Nat /\ UnderWay(u, y)' <= Cardinality(Desks) * MaxPosition
    BY <1>5, UnderWayBoundNext
  <2>2. position[u].held[y].quantity \in Nat
    BY <1>2 DEF TypeOK, Rows, Holding
  <2>3. Cardinality(Desks) * MaxPosition \in Nat
    BY <1>2, LedgerAssumption, FS_CardinalityType
  <2>4. CASE u = t /\ y = x
    BY <1>2, <1>3, <1>6, <2>1, <2>3, <2>4 DEF Ceiling
  <2>5. CASE ~(u = t /\ y = x)
    <3>1. \A d \in Desks : InHand(d, u, y)' = InHand(d, u, y)
      <4> SUFFICES ASSUME NEW d \in Desks PROVE InHand(d, u, y)' = InHand(d, u, y)
        OBVIOUS
      <4>1. order[s].step = "idle"
        BY DEF Size
      <4>2. CASE d = s
        BY <1>4, <2>5, <4>1, <4>2 DEF InHand, About
      <4>3. CASE d # s
        BY <1>4, <4>3 DEF InHand, About, Traders
      <4> QED BY <4>2, <4>3
    <3>2. UnderWay(u, y)' = UnderWay(u, y)
      BY <3>1 DEF UnderWay
    <3> QED BY <1>6, <3>2 DEF Overdraft
  <2> QED BY <2>4, <2>5
<1> QED BY <1>5, <1>7 DEF Overdraft, Ceiling

\* An order that is dropped adds nothing any more.
LEMMA AbandonOverdraft ==
  ASSUME IInv, TypeOK', Overdraft, NEW s \in Traders, Abandon(s)
  PROVE  Overdraft'
<1>1. order'[s].step = "idle" /\ \A r \in Traders \ {s} : order'[r] = order[r]
  BY DEF Abandon, IInv, TypeOK, NoOrder
<1>2. Modest' /\ position' = position
  BY <1>1 DEF Overdraft, Modest, Abandon, ledger
<1>3. ASSUME NEW t \in Tickers, NEW x \in Sides
      PROVE  position'[t].held[x].quantity + UnderWay(t, x)' <= Ceiling
  <2>1. TypeOK /\ Modest
    BY DEF IInv, Overdraft
  <2>2. /\ s \in Desks => UnderWay(t, x)' = UnderWay(t, x) - InHand(s, t, x)
        /\ s \notin Desks => UnderWay(t, x)' = UnderWay(t, x)
    BY <1>1, <2>1, OrderEnds
  <2>3. InHand(s, t, x) \in Nat /\ UnderWay(t, x) \in Nat
    BY <2>1, InHandType, UnderWayBound
  <2>4. position[t].held[x].quantity \in Nat /\ Ceiling \in Nat
    BY <2>1, LedgerAssumption, FS_CardinalityType DEF TypeOK, Rows, Holding, Ceiling
  <2> QED BY <1>2, <2>2, <2>3, <2>4 DEF Overdraft
<1> QED BY <1>2, <1>3 DEF Overdraft, Ceiling

\* A commit adds what its session had in hand: a desk's was under way, and a paper
\* run's fits below the cap.
LEMMA CommitOverdraft ==
  ASSUME Backend = "sqlite", IInv, TypeOK', Overdraft, NEW s \in Traders, Commit(s)
  PROVE  Overdraft'
<1> DEFINE o == order[s]
           t == About(s)
           q == o.quantity
<1>1. TypeOK /\ Modest
  BY DEF IInv, Overdraft
<1>2. /\ o \in Orders /\ o.step = "written" /\ o.step \in Writing
      /\ t \in Tickers /\ o.side \in Sides /\ q \in Nat
  BY <1>1, CommitEffect, LedgerAssumption, TierSizes DEF Writing, Orders
<1>3. /\ position'[t].held = [position[t].held EXCEPT
           ![o.side] = Bought(o.row.held[o.side], o.quantity, o.price)]
      /\ \A u \in Tickers \ {t} : position'[u] = position[u]
      /\ order'[s].step = "idle"
      /\ \A r \in Traders \ {s} : order'[r] = order[r]
  <2>1. order'[s].step = "idle"
    BY <1>1 DEF Commit, NoOrder, TypeOK
  <2> QED BY <1>1, <2>1, CommitEffect
<1>4. o.row.held = position[t].held
  BY <1>2 DEF IInv, Fresh
<1>5. Modest'
  BY <1>1, <1>3 DEF Modest
<1>6. \A u \in Tickers, x \in Sides : position[u].held[x].quantity \in Nat
  BY <1>1 DEF TypeOK, Rows, Holding
<1>7. position'[t].held[o.side].quantity = position[t].held[o.side].quantity + q
  <2>1. position[t].held \in Holding
    BY <1>1, <1>2 DEF TypeOK, Rows
  <2> HIDE DEF o, t
  <2> QED BY <1>2, <1>3, <1>4, <2>1 DEF Bought, Holding
<1>8. \A u \in Tickers, x \in Sides :
        u # t \/ x # o.side => position'[u].held[x].quantity = position[u].held[x].quantity
  <2>1. position[t].held \in Holding
    BY <1>1, <1>2 DEF TypeOK, Rows
  <2> HIDE DEF o, t
  <2> QED BY <1>2, <1>3, <2>1 DEF Holding
<1>9. InHand(s, t, o.side) = q
      /\ \A u \in Tickers, x \in Sides : u # t \/ x # o.side => InHand(s, u, x) = 0
  BY <1>2 DEF InHand
<1>10. Ceiling \in Nat /\ MaxPosition \in Nat /\ Ceiling = MaxPosition + Cardinality(Desks) * MaxPosition
       /\ Cardinality(Desks) * MaxPosition \in Nat
  BY LedgerAssumption, FS_CardinalityType DEF Ceiling
<1>11. ASSUME NEW u \in Tickers, NEW x \in Sides
       PROVE  position'[u].held[x].quantity + UnderWay(u, x)' <= Ceiling
  <2>1. /\ s \in Desks => UnderWay(u, x)' = UnderWay(u, x) - InHand(s, u, x)
        /\ s \notin Desks => UnderWay(u, x)' = UnderWay(u, x)
    BY <1>1, <1>3, OrderEnds
  <2>2. /\ UnderWay(u, x) \in Nat /\ UnderWay(u, x) <= Cardinality(Desks) * MaxPosition
        /\ position[u].held[x].quantity + UnderWay(u, x) <= Ceiling
    BY <1>1, UnderWayBound DEF Overdraft
  <2> HIDE DEF o, t, q
  <2>3. CASE u # t \/ x # o.side
    <3>1. position'[u].held[x].quantity = position[u].held[x].quantity /\ InHand(s, u, x) = 0
      BY <1>8, <1>9, <2>3
    <3>2. UnderWay(u, x)' = UnderWay(u, x)
      BY <2>1, <2>2, <3>1
    <3> QED BY <2>2, <3>1, <3>2
  <2>4. CASE u = t /\ x = o.side /\ s \in Desks
    <3>1. UnderWay(u, x)' = UnderWay(u, x) - q
      BY <1>9, <2>1, <2>4
    <3>2. position'[u].held[x].quantity = position[u].held[x].quantity + q
      BY <1>7, <2>4
    <3> QED BY <1>2, <1>6, <1>10, <2>2, <3>1, <3>2
  <2>5. CASE u = t /\ x = o.side /\ s \notin Desks
    <3>1. position[t].held[o.side].quantity + q <= MaxPosition
      BY <1>2, <2>5 DEF IInv, Room, Traders, o, t, q
    <3>2. UnderWay(u, x)' = UnderWay(u, x)
      BY <2>1, <2>5
    <3>3. position'[u].held[x].quantity <= MaxPosition
      BY <1>7, <2>5, <3>1
    <3>4. position'[u].held[x].quantity \in Nat
      BY <1>2, <1>6, <1>7, <2>5
    <3> QED BY <1>10, <2>2, <3>2, <3>3, <3>4
  <2> QED BY <2>3, <2>4, <2>5
<1> QED BY <1>5, <1>11 DEF Overdraft, Ceiling

\* paper-reset leaves room for all that is under way.
LEMMA ResetOverdraft ==
  ASSUME IInv, TypeOK', Overdraft, Reset
  PROVE  Overdraft'
<1>1. order' = order /\ \A t \in Tickers, x \in Sides : position'[t].held[x].quantity = 0
  BY DEF Reset, Absent, Nothing
<1>2. Modest'
  BY <1>1 DEF Overdraft, Modest
<1>3. \A t \in Tickers, x \in Sides :
        UnderWay(t, x)' \in Nat /\ UnderWay(t, x)' <= Cardinality(Desks) * MaxPosition
  BY <1>2, UnderWayBoundNext
<1>4. MaxPosition \in Nat /\ Cardinality(Desks) * MaxPosition \in Nat
  BY LedgerAssumption, FS_CardinalityType
<1> QED BY <1>1, <1>2, <1>3, <1>4 DEF Overdraft, Ceiling

LEMMA InitOverdraft == Init => Overdraft
<1> SUFFICES ASSUME Init PROVE Overdraft
  OBVIOUS
<1>1. TypeOK /\ Modest
  BY InitType DEF Init, Modest, NoOrder
<1>2. \A t \in Tickers, x \in Sides : position[t].held[x].quantity = 0
  BY DEF Init, Absent, Nothing
<1>3. \A t \in Tickers, x \in Sides :
        UnderWay(t, x) \in Nat /\ UnderWay(t, x) <= Cardinality(Desks) * MaxPosition
  BY <1>1, UnderWayBound
<1>4. MaxPosition \in Nat /\ Cardinality(Desks) * MaxPosition \in Nat
  BY LedgerAssumption, FS_CardinalityType
<1> QED BY <1>1, <1>2, <1>3, <1>4 DEF Overdraft, Ceiling

LEMMA NextOverdraft == Backend = "sqlite" /\ IInv /\ Overdraft /\ [Next]_vars => Overdraft'
<1> SUFFICES ASSUME Backend = "sqlite", IInv, Overdraft, [Next]_vars PROVE Overdraft'
  OBVIOUS
<1>0. TypeOK /\ TypeOK'
  BY NextType DEF IInv
<1>1. ASSUME NEW s \in Traders, Insert(s) \/ ReadPosition(s) \/ WritePosition(s) PROVE Overdraft'
  <2>1. order[s] \in Orders /\ order[s].step # "idle" /\ position' = position
    BY <1>0, <1>1, IdleOrder DEF Insert, ReadPosition, WritePosition, ledger
  <2>2. /\ order'[s].step # "idle" /\ order'[s].forecast = order[s].forecast
        /\ order'[s].side = order[s].side /\ order'[s].quantity = order[s].quantity
        /\ \A r \in Traders \ {s} : order'[r] = order[r]
    BY <1>0, <1>1, <2>1 DEF Insert, ReadPosition, WritePosition, TypeOK, Orders
  <2> QED BY <2>1, <2>2, SameOverdraft
<1>2. ASSUME NEW s \in Traders, NEW f \in Forecasts, NEW x \in Sides, Size(s, f, x)
      PROVE  Overdraft'
  BY <1>0, <1>2, SizeOverdraft
<1>3. ASSUME NEW s \in Traders, Order(s) PROVE Overdraft'
  BY <1>0, <1>1, <1>3, CommitOverdraft, AbandonOverdraft DEF Order
<1>4. CASE Reset
  BY <1>0, <1>4, ResetOverdraft
<1>5. CASE \/ UNCHANGED vars
           \/ \E a \in Accountants : Audit(a)
           \/ \E t \in Tickers :
                \/ \E result \in Results : Settle(t, result)
                \/ Close(t)
           \/ \E k \in CandidateKeys : CooldownPasses(k)
  <2>1. Quiet
    BY <1>0, <1>5, QuietActions
  <2> QED BY <2>1, SameOverdraft DEF Quiet
<1> QED BY <1>2, <1>3, <1>4, <1>5 DEF Next

\* On SQLite a position exceeds its cap by one full position for each desk at most,
\* however often desks and paper runs race: create_paper_order called by a desk
\* believes a size worked out before the write lock, but only once.
THEOREM DesksOverdraw ==
  ASSUME Backend = "sqlite"
  PROVE  Spec => []DesksOverdrawOnce
<1>1. TypeOK /\ Overdraft => DesksOverdrawOnce
  <2> SUFFICES ASSUME TypeOK, Overdraft, NEW t \in Tickers, NEW x \in Sides
               PROVE  position[t].held[x].quantity <= Ceiling
    BY DEF DesksOverdrawOnce, Ceiling
  <2>1. UnderWay(t, x) \in Nat /\ position[t].held[x].quantity \in Nat
    BY UnderWayBound DEF Overdraft, TypeOK, Rows, Holding
  <2>2. position[t].held[x].quantity + UnderWay(t, x) <= Ceiling /\ Ceiling \in Nat
    BY LedgerAssumption, FS_CardinalityType DEF Overdraft, Ceiling
  <2> QED BY <2>1, <2>2
<1>2. IInv => TypeOK
  BY DEF IInv
<1> QED BY <1>1, <1>2, InitInv, NextInv, InitOverdraft, NextOverdraft, PTL DEF Spec

-----------------------------------------------------------------------------
(* What may go wrong with a position at all, on both databases *)

NoMore(h, g) == \A x \in Sides : h[x].quantity <= g[x].quantity /\ h[x].cost <= g[x].cost

\* No position shows more than its fills.
NothingInvented == \A t \in Tickers : NoMore(position[t].held, fills[t])

\* Nor does a row a session has read, however old it is.
RowsBehind ==
  \A s \in Traders :
    order[s].step \in {"read", "written"} => NoMore(order[s].row.held, fills[About(s)])

Behind == NothingInvented /\ RowsBehind

LEMMA BoughtMore ==
  ASSUME NEW h \in [quantity : Nat, cost : Nat], NEW g \in [quantity : Nat, cost : Nat],
         NEW q \in Nat, NEW p \in Nat, h.quantity <= g.quantity, h.cost <= g.cost
  PROVE  /\ Bought(h, q, p).quantity <= Bought(g, q, p).quantity
         /\ Bought(h, q, p).cost <= Bought(g, q, p).cost
         /\ g.quantity <= Bought(g, q, p).quantity /\ g.cost <= Bought(g, q, p).cost
<1>1. q * p \in Nat
  OBVIOUS
<1> QED BY <1>1 DEF Bought

\* Steps after which no fill is gone, and no session has read another row.
LEMMA SameBehind ==
  ASSUME TypeOK, Behind, fills' = fills,
         \A t \in Tickers : position'[t].held = position[t].held,
         \A s \in Traders : order'[s].step \in {"read", "written"} =>
           /\ order[s].step \in {"read", "written"}
           /\ order'[s].row = order[s].row /\ order'[s].forecast = order[s].forecast
  PROVE  Behind'
<1>1. NothingInvented'
  BY DEF Behind, NothingInvented, NoMore
<1>2. RowsBehind'
  BY DEF Behind, RowsBehind, NoMore, About
<1> QED BY <1>1, <1>2 DEF Behind

LEMMA ReadBehind ==
  ASSUME TypeOK, Behind, NEW s \in Traders, ReadPosition(s)
  PROVE  Behind'
<1>1. order[s] \in Orders /\ About(s) \in Tickers
  BY IdleOrder, LedgerAssumption DEF ReadPosition, Orders, About
<1>2. order' = [order EXCEPT ![s] =
                 [order[s] EXCEPT !.step = "read", !.row = position[About(s)]]]
  BY DEF ReadPosition, TypeOK, About
<1>3. /\ order'[s].forecast = order[s].forecast /\ order'[s].row = position[About(s)]
      /\ \A r \in Traders \ {s} : order'[r] = order[r]
  BY <1>1, <1>2 DEF Orders, TypeOK
<1>4. fills' = fills /\ position' = position
  BY DEF ReadPosition, ledger
<1>5. NothingInvented'
  BY <1>4 DEF Behind, NothingInvented, NoMore
<1>6. RowsBehind'
  BY <1>1, <1>3, <1>4 DEF Behind, NothingInvented, RowsBehind, NoMore, About
<1> QED BY <1>5, <1>6 DEF Behind

LEMMA CommitBehind ==
  ASSUME TypeOK, Behind, NEW s \in Traders, Commit(s)
  PROVE  Behind'
<1> DEFINE o == order[s]
           t == About(s)
<1>1. o \in Orders /\ o.step = "written" /\ t \in Tickers /\ o.side \in Sides
  BY CommitEffect
<1>2. /\ position'[t].held = [position[t].held EXCEPT
           ![o.side] = Bought(o.row.held[o.side], o.quantity, o.price)]
      /\ fills'[t] = [fills[t] EXCEPT
           ![o.side] = Bought(fills[t][o.side], o.quantity, o.price)]
      /\ \A u \in Tickers \ {t} : position'[u] = position[u] /\ fills'[u] = fills[u]
      /\ \A r \in Traders \ {s} : order'[r] = order[r]
  BY CommitEffect
<1>3. order'[s].step = "idle"
  BY DEF Commit, NoOrder, TypeOK
<1>4. o.row.held \in Holding /\ fills[t] \in Holding /\ position[t].held \in Holding
      /\ o.quantity \in Nat /\ o.price \in Nat
  BY <1>1, LedgerAssumption, TierSizes DEF TypeOK, Orders, Rows
<1>5. NoMore(o.row.held, fills[t]) /\ NoMore(position[t].held, fills[t])
  BY <1>1 DEF Behind, RowsBehind, NothingInvented
<1> HIDE DEF o, t
<1>6. NoMore(position'[t].held, fills'[t]) /\ NoMore(fills[t], fills'[t])
  <2>1. /\ Bought(o.row.held[o.side], o.quantity, o.price).quantity
             <= Bought(fills[t][o.side], o.quantity, o.price).quantity
        /\ Bought(o.row.held[o.side], o.quantity, o.price).cost
             <= Bought(fills[t][o.side], o.quantity, o.price).cost
        /\ fills[t][o.side].quantity <= Bought(fills[t][o.side], o.quantity, o.price).quantity
        /\ fills[t][o.side].cost <= Bought(fills[t][o.side], o.quantity, o.price).cost
    <3>1. /\ o.row.held[o.side] \in [quantity : Nat, cost : Nat]
          /\ fills[t][o.side] \in [quantity : Nat, cost : Nat]
          /\ o.row.held[o.side].quantity <= fills[t][o.side].quantity
          /\ o.row.held[o.side].cost <= fills[t][o.side].cost
      BY <1>1, <1>4, <1>5 DEF Holding, NoMore
    <3> QED BY <1>4, <3>1, BoughtMore
  <2>2. /\ position'[t].held[o.side] = Bought(o.row.held[o.side], o.quantity, o.price)
        /\ fills'[t][o.side] = Bought(fills[t][o.side], o.quantity, o.price)
        /\ \A x \in Sides \ {o.side} :
             position'[t].held[x] = position[t].held[x] /\ fills'[t][x] = fills[t][x]
    BY <1>1, <1>2, <1>4 DEF Holding
  <2>3. \A x \in Sides : fills[t][x].quantity \in Nat /\ fills[t][x].cost \in Nat
    BY <1>4 DEF Holding
  <2> QED BY <1>5, <2>1, <2>2, <2>3 DEF NoMore
<1>7. \A u \in Tickers : NoMore(fills[u], fills'[u])
  <2>1. \A u \in Tickers, x \in Sides : fills[u][x].quantity \in Nat /\ fills[u][x].cost \in Nat
    BY DEF TypeOK, Holding
  <2>2. \A u \in Tickers \ {t} : NoMore(fills[u], fills'[u])
    BY <1>2, <2>1 DEF NoMore
  <2> QED BY <1>6, <2>2
<1>8. NothingInvented'
  BY <1>2, <1>6 DEF Behind, NothingInvented, NoMore
<1>9. RowsBehind'
  <2> SUFFICES ASSUME NEW r \in Traders, order'[r].step \in {"read", "written"}
               PROVE  NoMore(order'[r].row.held, fills'[About(r)'])
    BY DEF RowsBehind
  <2>1. r # s /\ order'[r] = order[r] /\ order[r].step \in {"read", "written"}
    BY <1>2, <1>3
  <2>2. order[r] \in Orders
    BY <2>1, IdleOrder
  <2>3. About(r) \in Tickers /\ About(r)' = About(r) /\ order[r].row.held \in Holding
    BY <2>1, <2>2, LedgerAssumption, TierSizes DEF Orders, About, Rows
  <2>4. NoMore(order[r].row.held, fills[About(r)]) /\ NoMore(fills[About(r)], fills'[About(r)])
    BY <1>7, <2>1, <2>3 DEF Behind, RowsBehind
  <2>5. ASSUME NEW x \in Sides
        PROVE  /\ order[r].row.held[x].quantity <= fills'[About(r)][x].quantity
               /\ order[r].row.held[x].cost <= fills'[About(r)][x].cost
    <3>1. /\ order[r].row.held[x] \in [quantity : Nat, cost : Nat]
          /\ fills[About(r)][x] \in [quantity : Nat, cost : Nat]
          /\ fills'[About(r)][x] \in [quantity : Nat, cost : Nat]
      <4>1. fills' \in [Tickers -> Holding]
        BY CommitType DEF TypeOK
      <4> QED BY <2>3, <4>1 DEF TypeOK, Holding
    <3> QED BY <2>4, <3>1 DEF NoMore
  <2> QED BY <2>1, <2>3, <2>5 DEF NoMore
<1> QED BY <1>8, <1>9 DEF Behind

LEMMA InitBehind == Init => Behind
  BY DEF Init, Behind, NothingInvented, RowsBehind, NoMore, Absent, Nothing, NoOrder

LEMMA NextBehind == IInv /\ Behind /\ [Next]_vars => Behind'
<1> SUFFICES ASSUME IInv, Behind, [Next]_vars PROVE Behind'
  OBVIOUS
<1>0. TypeOK
  BY DEF IInv
<1>1. ASSUME NEW s \in Traders, Insert(s) \/ WritePosition(s) \/ Abandon(s) PROVE Behind'
  <2>1. order[s] \in Orders /\ fills' = fills /\ position' = position
    BY <1>0, <1>1, IdleOrder DEF Insert, WritePosition, Abandon, ledger
  <2>2. /\ order'[s].step \in {"read", "written"} =>
             /\ order[s].step = "read" /\ order'[s].row = order[s].row
             /\ order'[s].forecast = order[s].forecast
        /\ \A r \in Traders \ {s} : order'[r] = order[r]
    BY <1>0, <1>1, <2>1 DEF Insert, WritePosition, Abandon, TypeOK, Orders, NoOrder
  <2> QED BY <1>0, <2>1, <2>2, SameBehind
<1>2. ASSUME NEW s \in Traders, NEW f \in Forecasts, NEW x \in Sides, Size(s, f, x)
      PROVE  Behind'
  <2>1. order'[s].step = "sized" /\ \A r \in Traders \ {s} : order'[r] = order[r]
    BY <1>0, <1>2 DEF Size, TypeOK
  <2> QED BY <1>0, <1>2, <2>1, SameBehind DEF Size, ledger
<1>3. ASSUME NEW s \in Traders, Order(s) PROVE Behind'
  BY <1>0, <1>1, <1>3, ReadBehind, CommitBehind DEF Order
<1>4. CASE Reset
  <2>1. \A s \in Traders : order'[s].step \notin {"read", "written"}
    BY <1>4, NobodyWriting DEF Reset, Writing
  <2>2. NothingInvented'
    BY <1>4 DEF Reset, NothingInvented, NoMore, Absent, Nothing
  <2> QED BY <2>1, <2>2 DEF Behind, RowsBehind
<1>5. CASE \/ UNCHANGED vars
           \/ \E a \in Accountants : Audit(a)
           \/ \E t \in Tickers :
                \/ \E result \in Results : Settle(t, result)
                \/ Close(t)
           \/ \E k \in CandidateKeys : CooldownPasses(k)
  <2>1. Quiet
    BY <1>0, <1>5, QuietActions
  <2> QED BY <1>0, <2>1, SameBehind DEF Quiet
<1> QED BY <1>2, <1>3, <1>4, <1>5 DEF Next

\* Where sessions race, as ledger_lost shows for Postgres, update_position_for_fill
\* can only lose fills: on both databases no position holds or cost more than its
\* fills add up to.
THEOREM RacesOnlyLoseFills == Spec => []NothingInvented
<1>1. Behind => NothingInvented
  BY DEF Behind
<1> QED BY <1>1, InitInv, NextInv, InitBehind, NextBehind, PTL DEF Spec

-----------------------------------------------------------------------------
(* Stored P&L *)

\* What a position is worth under the settlement and fees there are.
Worth(t) == SettledPnl(position[t].held, Fees(t), settlement[t])

\* What a P&L session knows of a ticker it has heard no news about is still true:
\* the row it has read, or the P&L it has found and whether the row has it already.
Knows(a, t) ==
  /\ audit[a].step = "read" => audit[a].rows[t] = position[t]
  /\ audit[a].step = "priced" /\ t \in audit[a].settled =>
       /\ Settled(t) /\ audit[a].pnl[t] = Worth(t)
       /\ t \notin audit[a].changed => position[t].realized = audit[a].pnl[t]

AuditsFresh ==
  \A a \in Accountants : audit[a].step # "idle" => \A t \in audit[a].unchanged : Knows(a, t)

Exact(t) == Settled(t) /\ position[t].there => position[t].realized = Worth(t)

PnlInv == AuditsFresh /\ \A t \in exact : Exact(t)

LEMMA SameWorth ==
  ASSUME NEW t \in Tickers, settlement'[t] = settlement[t], fills'[t] = fills[t],
         position'[t].held = position[t].held
  PROVE  Worth(t)' = Worth(t)
BY DEF Worth, Fees, SettledPnl

LEMMA AuditTickers ==
  ASSUME TypeOK, NEW a \in Accountants, audit[a].step # "idle"
  PROVE  /\ audit[a] \in Audits /\ audit[a].unchanged \subseteq Tickers
         /\ audit[a].step \in {"read", "priced"}
         /\ audit[a].step = "priced" =>
              audit[a].settled \subseteq Tickers /\ audit[a].changed \subseteq Tickers
<1>1. audit[a] \in Audits
  BY IdleAudit
<1> QED BY <1>1 DEF Audits

\* Whoever commits something about some tickers tells the P&L sessions.
LEMMA NewsKeepsPnl ==
  ASSUME TypeOK, PnlInv, NEW ts, News(ts),
         \A t \in Tickers \ ts :
           settlement'[t] = settlement[t] /\ fills'[t] = fills[t] /\ position'[t] = position[t]
  PROVE  PnlInv'
<1>1. \A t \in Tickers \ ts : Worth(t)' = Worth(t)
  BY SameWorth
<1>2. AuditsFresh'
  <2> SUFFICES ASSUME NEW a \in Accountants, audit'[a].step # "idle", NEW t \in audit'[a].unchanged
               PROVE  Knows(a, t)'
    BY DEF AuditsFresh
  <2>1. audit'[a] = IF audit[a].step = "idle" THEN audit[a]
                    ELSE [audit[a] EXCEPT !.unchanged = @ \ ts]
    BY DEF News
  <2>2. audit[a].step # "idle"
    BY <2>1
  <2>3. audit[a] \in Audits /\ audit[a].unchanged \subseteq Tickers
    BY <2>2, AuditTickers
  <2>4. /\ t \in audit[a].unchanged /\ t \notin ts /\ t \in Tickers
        /\ audit'[a].step = audit[a].step
        /\ audit'[a].step = "read" => audit'[a].rows = audit[a].rows
        /\ audit'[a].step = "priced" =>
             /\ audit'[a].settled = audit[a].settled /\ audit'[a].changed = audit[a].changed
             /\ audit'[a].pnl = audit[a].pnl
    BY <2>1, <2>2, <2>3 DEF Audits
  <2>5. Knows(a, t)
    BY <2>2, <2>4 DEF PnlInv, AuditsFresh
  <2> QED BY <1>1, <2>4, <2>5 DEF Knows, Settled
<1>3. ASSUME NEW t \in exact' PROVE Exact(t)'
  <2>1. t \in exact /\ t \in Tickers \ ts
    BY <1>3 DEF News, TypeOK
  <2> QED BY <1>1, <2>1 DEF PnlInv, Exact, Settled
<1> QED BY <1>2, <1>3 DEF PnlInv

\* Steps that leave alone what P&L is worked out from and written to.
LEMMA SameKeepsPnl ==
  ASSUME TypeOK, PnlInv, UNCHANGED <<settlement, fills, position, exact>>,
         \A a \in Accountants : audit'[a] = audit[a] \/ audit'[a].step = "idle"
  PROVE  PnlInv'
<1>1. \A t \in Tickers : Worth(t)' = Worth(t)
  BY SameWorth
<1>2. AuditsFresh'
  <2> SUFFICES ASSUME NEW a \in Accountants, audit'[a].step # "idle", NEW t \in audit'[a].unchanged
               PROVE  Knows(a, t)'
    BY DEF AuditsFresh
  <2>1. audit'[a] = audit[a] /\ t \in Tickers
    BY AuditTickers
  <2>2. Knows(a, t)
    BY <2>1 DEF PnlInv, AuditsFresh
  <2> QED BY <1>1, <2>1, <2>2 DEF Knows, Settled
<1>3. \A t \in exact' : Exact(t)'
  BY <1>1 DEF PnlInv, Exact, Settled, TypeOK
<1> QED BY <1>2, <1>3 DEF PnlInv

LEMMA AuditReadPnl ==
  ASSUME TypeOK, PnlInv, NEW a \in Accountants, AuditRead(a)
  PROVE  PnlInv'
<1>1. /\ UNCHANGED <<settlement, fills, position, exact>>
      /\ audit'[a] = [step |-> "read", rows |-> position, unchanged |-> Tickers]
      /\ \A b \in Accountants : b # a => audit'[b] = audit[b]
  BY DEF AuditRead, TypeOK, ledger
<1>2. \A t \in Tickers : Worth(t)' = Worth(t)
  BY <1>1, SameWorth
<1>3. AuditsFresh'
  <2> SUFFICES ASSUME NEW b \in Accountants, audit'[b].step # "idle", NEW t \in audit'[b].unchanged
               PROVE  Knows(b, t)'
    BY DEF AuditsFresh
  <2>1. CASE b = a
    BY <1>1, <2>1 DEF Knows
  <2>2. CASE b # a
    <3>1. audit'[b] = audit[b] /\ t \in Tickers
      BY <1>1, <2>2, AuditTickers
    <3>2. Knows(b, t)
      BY <3>1 DEF PnlInv, AuditsFresh
    <3> QED BY <1>1, <1>2, <3>1, <3>2 DEF Knows, Settled
  <2> QED BY <2>1, <2>2
<1>4. \A t \in exact' : Exact(t)'
  BY <1>1, <1>2 DEF PnlInv, Exact, Settled, TypeOK
<1> QED BY <1>3, <1>4 DEF PnlInv

LEMMA AuditPricePnl ==
  ASSUME TypeOK, PnlInv, NEW a \in Accountants, AuditPrice(a)
  PROVE  PnlInv'
<1> DEFINE rows == audit[a].rows
<1>1. /\ UNCHANGED <<settlement, fills, position, exact>> /\ audit[a].step = "read"
      /\ audit'[a].step = "priced" /\ audit'[a].settled = SettledRows(rows)
      /\ audit'[a].changed = Changed(rows) /\ audit'[a].pnl = PnlOf(rows)
      /\ audit'[a].unchanged = audit[a].unchanged
      /\ \A b \in Accountants : b # a => audit'[b] = audit[b]
  BY DEF AuditPrice, TypeOK, ledger
<1>2. \A t \in Tickers : Worth(t)' = Worth(t)
  BY <1>1, SameWorth
<1>3. AuditsFresh'
  <2> SUFFICES ASSUME NEW b \in Accountants, audit'[b].step # "idle", NEW t \in audit'[b].unchanged
               PROVE  Knows(b, t)'
    BY DEF AuditsFresh
  <2>1. CASE b = a
    <3>1. t \in audit[a].unchanged /\ t \in Tickers
      BY <1>1, <2>1, AuditTickers
    <3>2. rows[t] = position[t]
      BY <1>1, <3>1 DEF PnlInv, AuditsFresh, Knows
    <3>3. ASSUME t \in SettledRows(rows)
          PROVE  /\ Settled(t) /\ PnlOf(rows)[t] = Worth(t)
                 /\ t \notin Changed(rows) => position[t].realized = PnlOf(rows)[t]
      <4>1. Settled(t)
        BY <3>3 DEF SettledRows
      <4>2. PnlOf(rows)[t] = SettledPnl(rows[t].held, Fees(t), settlement[t])
        BY <3>1, <4>1 DEF PnlOf
      <4>3. PnlOf(rows)[t] = Worth(t)
        BY <3>2, <4>2 DEF Worth
      <4>4. t \notin Changed(rows) => PnlOf(rows)[t] = rows[t].realized
        BY <3>3 DEF Changed
      <4> QED BY <3>2, <4>1, <4>3, <4>4
    <3> QED BY <1>1, <1>2, <2>1, <3>1, <3>3 DEF Knows, Settled
  <2>2. CASE b # a
    <3>1. audit'[b] = audit[b] /\ t \in Tickers
      BY <1>1, <2>2, AuditTickers
    <3>2. Knows(b, t)
      BY <3>1 DEF PnlInv, AuditsFresh
    <3> QED BY <1>1, <1>2, <3>1, <3>2 DEF Knows, Settled
  <2> QED BY <2>1, <2>2
<1>4. \A t \in exact' : Exact(t)'
  BY <1>1, <1>2 DEF PnlInv, Exact, Settled, TypeOK
<1> QED BY <1>3, <1>4 DEF PnlInv

LEMMA AuditCommitPnl ==
  ASSUME TypeOK, PnlInv, NEW a \in Accountants, AuditCommit(a)
  PROVE  PnlInv'
<1> DEFINE changed == audit[a].changed
<1>1. /\ audit[a].step = "priced" /\ audit[a].step # "idle"
      /\ settlement' = settlement /\ fills' = fills
      /\ exact' = (exact \ changed) \cup (audit[a].settled \cap audit[a].unchanged)
  BY DEF AuditCommit
<1>2. /\ audit[a] \in Audits /\ audit[a].unchanged \subseteq Tickers
      /\ audit[a].settled \subseteq Tickers /\ changed \subseteq Tickers
  BY <1>1, AuditTickers
<1>3. \A t \in Tickers :
        position'[t] = IF t \in changed THEN [position[t] EXCEPT !.realized = audit[a].pnl[t]]
                       ELSE position[t]
  BY DEF AuditCommit
<1>4. \A t \in Tickers :
        /\ position'[t].held = position[t].held
        /\ t \in changed => position'[t].realized = audit[a].pnl[t]
        /\ t \notin changed => position'[t] = position[t]
  BY <1>3 DEF TypeOK, Rows
<1>5. \A t \in Tickers : Worth(t)' = Worth(t)
  BY <1>1, <1>4, SameWorth
<1>6. AuditsFresh'
  <2> SUFFICES ASSUME NEW b \in Accountants, audit'[b].step # "idle", NEW t \in audit'[b].unchanged
               PROVE  Knows(b, t)'
    BY DEF AuditsFresh
  <2>1. audit'[b] = IF b = a THEN NoAudit ELSE IF audit[b].step = "idle" THEN audit[b]
                    ELSE [audit[b] EXCEPT !.unchanged = @ \ changed]
    BY DEF AuditCommit
  <2>2. b # a /\ audit[b].step # "idle"
    BY <2>1 DEF NoAudit
  <2>3. audit[b] \in Audits /\ audit[b].unchanged \subseteq Tickers
    BY <2>2, AuditTickers
  <2>4. /\ t \in audit[b].unchanged /\ t \notin changed /\ t \in Tickers
        /\ audit'[b].step = audit[b].step
        /\ audit'[b].step = "read" => audit'[b].rows = audit[b].rows
        /\ audit'[b].step = "priced" =>
             /\ audit'[b].settled = audit[b].settled /\ audit'[b].changed = audit[b].changed
             /\ audit'[b].pnl = audit[b].pnl
    BY <2>1, <2>2, <2>3 DEF Audits
  <2>5. Knows(b, t)
    BY <2>2, <2>4 DEF PnlInv, AuditsFresh
  <2> QED BY <1>1, <1>4, <1>5, <2>4, <2>5 DEF Knows, Settled
<1>7. ASSUME NEW t \in exact' PROVE Exact(t)'
  <2>1. CASE t \in audit[a].settled \cap audit[a].unchanged
    <3>1. t \in Tickers /\ Knows(a, t)
      BY <1>1, <1>2, <2>1 DEF PnlInv, AuditsFresh
    <3>2. audit[a].pnl[t] = Worth(t) /\ (t \notin changed => position[t].realized = audit[a].pnl[t])
      BY <1>1, <2>1, <3>1 DEF Knows
    <3>3. position'[t].realized = Worth(t)
      BY <1>4, <3>1, <3>2
    <3> QED BY <1>5, <3>1, <3>3 DEF Exact
  <2>2. CASE t \in exact \ changed
    <3>1. t \in Tickers /\ Exact(t)
      BY <2>2 DEF PnlInv, TypeOK
    <3> QED BY <1>1, <1>4, <1>5, <2>2, <3>1 DEF Exact, Settled
  <2> QED BY <1>1, <1>7, <2>1, <2>2
<1> QED BY <1>6, <1>7 DEF PnlInv

LEMMA PnlStep ==
  ASSUME TypeOK, PnlInv, [Next]_vars
  PROVE  PnlInv'
<1>1. ASSUME NEW s \in Traders, Order(s) PROVE PnlInv'
  <2>1. CASE Commit(s)
    <3> DEFINE t == TickerOf[order[s].forecast]
    <3>1. News({t}) /\ settlement' = settlement
      BY <2>1 DEF Commit
    <3>2. \A u \in Tickers \ {t} : fills'[u] = fills[u] /\ position'[u] = position[u]
      BY <2>1 DEF Commit, TypeOK
    <3> QED BY <3>1, <3>2, NewsKeepsPnl
  <2>2. CASE Insert(s) \/ ReadPosition(s) \/ WritePosition(s) \/ Abandon(s)
    <3>1. UNCHANGED <<settlement, fills, position, audit, exact>>
      BY <2>2 DEF Insert, ReadPosition, WritePosition, Abandon, ledger
    <3> QED BY <3>1, SameKeepsPnl
  <2> QED BY <1>1, <2>1, <2>2 DEF Order
<1>2. CASE \/ UNCHANGED vars
           \/ \E s \in Traders, f \in Forecasts, x \in Sides : Size(s, f, x)
           \/ \E t \in Tickers : Close(t)
           \/ \E k \in CandidateKeys : CooldownPasses(k)
  <2>1. UNCHANGED <<settlement, fills, position, audit, exact>>
    BY <1>2 DEF vars, Size, Close, CooldownPasses, ledger
  <2> QED BY <2>1, SameKeepsPnl
<1>3. ASSUME NEW a \in Accountants, AuditAbandon(a) PROVE PnlInv'
  <2>1. /\ UNCHANGED <<settlement, fills, position, exact>>
        /\ \A b \in Accountants : audit'[b] = audit[b] \/ audit'[b].step = "idle"
    BY <1>3 DEF AuditAbandon, TypeOK, NoAudit, ledger
  <2> QED BY <2>1, SameKeepsPnl
<1>4. ASSUME NEW t \in Tickers, NEW result \in Results, Settle(t, result) PROVE PnlInv'
  <2>1. News({t}) /\ fills' = fills /\ position' = position
    BY <1>4 DEF Settle, ledger
  <2>2. \A u \in Tickers \ {t} : settlement'[u] = settlement[u]
    BY <1>4 DEF Settle, TypeOK
  <2> QED BY <2>1, <2>2, NewsKeepsPnl
<1>5. CASE Reset
  <2>1. News(Tickers)
    BY <1>5 DEF Reset
  <2> QED BY <2>1, NewsKeepsPnl
<1>6. ASSUME NEW a \in Accountants, Audit(a) PROVE PnlInv'
  BY <1>3, <1>6, AuditReadPnl, AuditPricePnl, AuditCommitPnl DEF Audit
<1> QED BY <1>1, <1>2, <1>4, <1>5, <1>6 DEF Next

\* On SQLite the realized P&L that a run of paper-pnl stores undisturbed is what
\* the fills are worth under the settlement, however many runs overlap.
THEOREM SqlitePnlExact ==
  ASSUME Backend = "sqlite"
  PROVE  Spec => []SettledPnlExact
<1>1. Init => PnlInv
  BY DEF Init, PnlInv, AuditsFresh, NoAudit
<1>2. TypeOK /\ PnlInv /\ [Next]_vars => PnlInv'
  BY PnlStep
<1>3. TypeOK /\ PnlInv /\ PositionMatchesFills => SettledPnlExact
  <2> SUFFICES ASSUME TypeOK, PnlInv, PositionMatchesFills, NEW t \in exact,
                      Settled(t), position[t].there
               PROVE  position[t].realized = SettledPnl(fills[t], Fees(t), settlement[t])
    BY DEF SettledPnlExact
  <2>1. position[t].realized = Worth(t) /\ t \in Tickers
    BY DEF PnlInv, Exact, TypeOK
  <2>2. position[t].held = fills[t]
    BY <2>1 DEF PositionMatchesFills
  <2> QED BY <2>1, <2>2 DEF Worth
<1> QED BY <1>1, <1>2, <1>3, TypeCorrect, SqlitePositionsMatch, PTL DEF Spec

-----------------------------------------------------------------------------
(* Paper runs on SQLite keep the promise of PaperTrades *)

Book == [t \in Tickers |-> position[t].held]

LEMMA TradesInit == Init => Trades!Init
BY DEF Init, Trades!Init, Trades!Nothing, Trades!Sides, Absent, Nothing, Sides

LEMMA SameBook ==
  ASSUME \A t \in Tickers : position'[t].held = position[t].held
  PROVE  Book' = Book
BY DEF Book

\* On SQLite a commit adds its order to the position there is.
LEMMA CommitBook ==
  ASSUME IInv, Backend = "sqlite", NEW s \in Traders, Commit(s),
         NEW t \in Tickers, NEW x \in Sides, t = About(s), x = order[s].side
  PROVE  /\ order[s].quantity \in Tiers /\ order[s].price \in Prices
         /\ Book' = [Book EXCEPT ![t] = [Book[t] EXCEPT
                       ![x] = Bought(Book[t][x], order[s].quantity, order[s].price)]]
<1> DEFINE o == order[s]
           bought == Bought(position[t].held[o.side], o.quantity, o.price)
<1>0. TypeOK
  BY DEF IInv
<1>1. o \in Orders /\ o.step \in Writing /\ t \in Tickers /\ o.side \in Sides
  BY <1>0, CommitEffect DEF Writing
<1>2. o.row.held = position[t].held
  BY <1>0, <1>1, CommitEffect DEF IInv, Fresh
<1>3. /\ position'[t].held = [position[t].held EXCEPT
           ![o.side] = Bought(o.row.held[o.side], o.quantity, o.price)]
      /\ \A u \in Tickers \ {t} : position'[u] = position[u]
  BY <1>0, CommitEffect
<1>4. position'[t].held = [position[t].held EXCEPT ![o.side] = bought]
  BY <1>2, <1>3
<1>5. Book' = [Book EXCEPT ![t] = [position[t].held EXCEPT ![o.side] = bought]]
  BY <1>1, <1>3, <1>4 DEF Book
<1>6. Book[t] = position[t].held
  BY <1>1 DEF Book
<1>7. o.quantity \in Tiers /\ o.price \in Prices
  BY <1>1 DEF Orders
<1> QED BY <1>5, <1>6, <1>7

\* The book after a trade of one side of one market: that market has made one whole
\* trade, and no other any.
LEMMA OneMarketTrades ==
  ASSUME NEW t \in Tickers, NEW bought,
         Book' = [Book EXCEPT ![t] = bought]
  PROVE  /\ Book' = [u \in Tickers |-> Book'[u]]
         /\ Book'[t] = bought
         /\ \A u \in Tickers \ {t} : Book'[u] = Book[u]
BY DEF Book

\* A commit of a paper run is a trade of its market and side.
LEMMA CommitTrades ==
  ASSUME IInv, OnlyRuns, NEW s \in Traders, Commit(s)
  PROVE  Trades!Commit
<1> DEFINE o == order[s]
<1>1. TypeOK /\ Backend = "sqlite"
  BY DEF IInv, OnlyRuns
<1>2. PICK t \in Tickers, x \in Sides : t = About(s) /\ x = order[s].side
  BY <1>1, CommitEffect
<1>3. position[t].held[x].quantity + o.quantity <= MaxPosition
  BY <1>1, <1>2, CommitEffect DEF IInv, Room, OnlyRuns, Traders, Writing
<1>4. /\ o.quantity \in Tiers /\ o.price \in Prices
      /\ Book' = [Book EXCEPT ![t] = [Book[t] EXCEPT
                    ![x] = Bought(Book[t][x], o.quantity, o.price)]]
  BY <1>1, <1>2, CommitBook
<1>5. Bought(Book[t][x], o.quantity, o.price) = Trades!Bought(Book[t][x], o.quantity, o.price)
  BY DEF Trades!Bought, Bought
<1>6. /\ Book' = [u \in Tickers |-> Book'[u]]
      /\ Book'[t] = [Book[t] EXCEPT ![x] = Trades!Bought(Book[t][x], o.quantity, o.price)]
      /\ \A u \in Tickers \ {t} : Book'[u] = Book[u]
  BY <1>4, <1>5, OneMarketTrades
<1>7. Book[t][x].quantity + o.quantity <= MaxPosition
  BY <1>3 DEF Book
<1>8. Trades!Trade(t)
  <2> HIDE DEF o
  <2> QED BY <1>4, <1>6, <1>7 DEF Trades!Trade, Trades!Sides, Sides, Book
<1> QED BY <1>6, <1>8 DEF Trades!Commit, Book

\* Every step but a commit and a reset leaves the book alone.
LEMMA OtherBook ==
  ASSUME TypeOK, [Next]_vars, \A s \in Traders : ~Commit(s), ~Reset
  PROVE  Book' = Book
<1>1. ASSUME NEW s \in Traders,
             Insert(s) \/ ReadPosition(s) \/ WritePosition(s) \/ Abandon(s)
                \/ \E f \in Forecasts, x \in Sides : Size(s, f, x)
      PROVE  Book' = Book
  BY <1>1, SameBook DEF Insert, ReadPosition, WritePosition, Abandon, Size, ledger
<1>2. CASE \/ UNCHANGED vars
           \/ \E a \in Accountants : Audit(a)
           \/ \E t \in Tickers :
                \/ \E result \in Results : Settle(t, result)
                \/ Close(t)
           \/ \E k \in CandidateKeys : CooldownPasses(k)
  BY <1>2, QuietActions, SameBook DEF Quiet
<1> QED BY <1>1, <1>2 DEF Next, Order

LEMMA TradesNext == IInv /\ OnlyRuns /\ [Next]_vars => [Trades!Next]_Book
<1> SUFFICES ASSUME IInv, OnlyRuns, [Next]_vars PROVE [Trades!Next]_Book
  OBVIOUS
<1>0. TypeOK
  BY DEF IInv
<1>1. ASSUME NEW s \in Traders, Commit(s) PROVE Trades!Next
  BY <1>1, CommitTrades DEF Trades!Next
<1>2. CASE Reset
  <2>1. Trades!Wipe
    BY <1>2 DEF Reset, Trades!Wipe, Trades!Nothing, Trades!Sides, Absent, Nothing, Sides
  <2> QED BY <2>1 DEF Trades!Next
<1> QED BY <1>0, <1>1, <1>2, OtherBook

\* With paper runs only, SQLite's ledger implements PaperTrades: each market's position
\* is left alone or changed by one whole trade within the cap, or all are wiped.
THEOREM RunsTradeWhole ==
  ASSUME Backend = "sqlite", Desks = {}
  PROVE  Spec => MarketsTradeWhole
<1>1. OnlyRuns
  BY DEF OnlyRuns
<1>2. IInv /\ [Next]_vars => [Trades!Next]_Book
  BY <1>1, TradesNext
<1> QED BY <1>2, TradesInit, InvHolds, PTL DEF Spec, MarketsTradeWhole, Trades!Spec, Book

-----------------------------------------------------------------------------
(* With desks they keep it up to the overdraft *)

Overdrawn == INSTANCE PaperTrades WITH
  Quantities <- Tiers, MaxPosition <- Ceiling, book <- [t \in Tickers |-> position[t].held]

\* A commit of any session is a trade within the ceiling, since it ends there.
LEMMA CommitOverdraws ==
  ASSUME IInv, TypeOK', Overdraft', Backend = "sqlite", NEW s \in Traders, Commit(s)
  PROVE  Overdrawn!Commit
<1> DEFINE o == order[s]
<1>0. TypeOK
  BY DEF IInv
<1>8. PICK t \in Tickers, x \in Sides : t = About(s) /\ x = order[s].side
  BY <1>0, CommitEffect
<1>1. /\ o.quantity \in Tiers /\ o.price \in Prices
      /\ Book' = [Book EXCEPT ![t] = [Book[t] EXCEPT
                    ![x] = Bought(Book[t][x], o.quantity, o.price)]]
  BY <1>8, CommitBook
<1>2. position'[t].held[x].quantity <= Ceiling
  <2>1. UnderWay(t, x)' \in Nat /\ position'[t].held[x].quantity \in Nat
    BY UnderWayBoundNext DEF Overdraft, TypeOK, Rows, Holding
  <2>2. position'[t].held[x].quantity + UnderWay(t, x)' <= Ceiling /\ Ceiling \in Nat
    BY LedgerAssumption, FS_CardinalityType DEF Overdraft, Ceiling
  <2> QED BY <2>1, <2>2
<1>3. position'[t].held[x].quantity = position[t].held[x].quantity + o.quantity
  <2>1. position[t].held \in Holding
    BY <1>0 DEF TypeOK, Rows
  <2>2. Book[t] = position[t].held /\ Book'[t] = position'[t].held
    BY DEF Book
  <2>3. Book'[t] = [Book[t] EXCEPT ![x] = Bought(Book[t][x], o.quantity, o.price)]
    BY <1>1 DEF Book
  <2>4. Book'[t][x] = Bought(position[t].held[x], o.quantity, o.price)
    BY <2>1, <2>2, <2>3 DEF Holding
  <2> QED BY <2>2, <2>4 DEF Bought
<1>4. Bought(Book[t][x], o.quantity, o.price) = Overdrawn!Bought(Book[t][x], o.quantity, o.price)
  BY DEF Overdrawn!Bought, Bought
<1>5. /\ Book' = [u \in Tickers |-> Book'[u]]
      /\ Book'[t] = [Book[t] EXCEPT ![x] = Overdrawn!Bought(Book[t][x], o.quantity, o.price)]
      /\ \A u \in Tickers \ {t} : Book'[u] = Book[u]
  BY <1>1, <1>4, OneMarketTrades
<1>6. Book[t][x].quantity + o.quantity <= Ceiling
  BY <1>2, <1>3 DEF Book
<1>7. Overdrawn!Trade(t)
  <2> HIDE DEF o
  <2> QED BY <1>1, <1>5, <1>6 DEF Overdrawn!Trade, Overdrawn!Sides, Sides, Book
<1> QED BY <1>5, <1>7 DEF Overdrawn!Commit, Book

LEMMA OverdrawnNext ==
  Backend = "sqlite" /\ IInv /\ TypeOK' /\ Overdraft' /\ [Next]_vars => [Overdrawn!Next]_Book
<1> SUFFICES ASSUME Backend = "sqlite", IInv, TypeOK', Overdraft', [Next]_vars
             PROVE [Overdrawn!Next]_Book
  OBVIOUS
<1>0. TypeOK
  BY DEF IInv
<1>1. ASSUME NEW s \in Traders, Commit(s) PROVE Overdrawn!Next
  BY <1>1, CommitOverdraws DEF Overdrawn!Next
<1>2. CASE Reset
  <2>1. Overdrawn!Wipe
    BY <1>2 DEF Reset, Overdrawn!Wipe, Overdrawn!Nothing, Overdrawn!Sides, Absent, Nothing, Sides
  <2> QED BY <2>1 DEF Overdrawn!Next
<1> QED BY <1>0, <1>1, <1>2, OtherBook

\* With any sessions SQLite's ledger implements PaperTrades with a cap of one full
\* position more for each desk: whatever races, each market's position is left alone or
\* changed by one whole trade, or all are wiped; no part of an order ever shows.
THEOREM SessionsTradeWhole ==
  ASSUME Backend = "sqlite"
  PROVE  Spec => Overdrawn!Spec
<1>1. Init => Overdrawn!Init
  BY DEF Init, Overdrawn!Init, Overdrawn!Nothing, Overdrawn!Sides, Absent, Nothing, Sides
<1>2. IInv => TypeOK
  BY DEF IInv
<1> QED BY <1>1, <1>2, InitInv, NextInv, InitOverdraft, NextOverdraft, OverdrawnNext, PTL
       DEF Spec, Overdrawn!Spec, Book

=============================================================================
