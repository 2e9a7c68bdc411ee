--------------------------- MODULE OrderbookStream ---------------------------
(***************************************************************************)
(* The GH-1 orderbook stream: an exchange that publishes a snapshot and    *)
(* then numbered deltas for every subscribed ticker, the wire that carries *)
(* them, and ReadOnlyOrderbookWebSocketAdapter, which rebuilds one         *)
(* LocalOrderbook per ticker, reloads it from REST when a number is        *)
(* missing, and stages it on disk.                                         *)
(*                                                                         *)
(* The handler of one message runs without an await, so a message is       *)
(* received, applied, recovered and staged in one action; the exchange is  *)
(* free to move between any two of them, and a REST read in the handler    *)
(* returns the exchange's book of that moment, however far the wire lags.  *)
(***************************************************************************)
EXTENDS Integers, Sequences, FiniteSets

CONSTANTS
  Tickers,        \* subscribed tickers
  Prices,         \* price levels of one side
  MaxQuantity,    \* bound: the most contracts resting at a level
  PersistEvery,   \* persist_every_deltas
  MaxUpdates,     \* bound: updates the exchange makes to one book
  MaxFaults       \* bound: messages the wire loses, repeats or delays

ASSUME StreamAssumption ==
  /\ IsFiniteSet(Tickers)
  /\ MaxQuantity \in Nat
  /\ PersistEvery \in Nat \ {0}
  /\ MaxUpdates \in Nat
  /\ MaxFaults \in Nat

VARIABLES
  truth,          \* truth[t][n + 1] is the exchange's book of t after its n-th update
  connected,      \* an adapter.run is reading the wire
  wire,           \* messages sent and not yet received, oldest first
  books,          \* adapter.books: levels and sequence of every LocalOrderbook
  deltasApplied,  \* deltas_applied of this run, over all tickers
  faults,         \* how many faults the wire has had
  origin,         \* history: per side, the sequence a book had when the side was
                  \* last loaded whole, and the update the loaded levels came from
  unstaged,       \* history: messages that changed a book since it was last staged
  stageFailures   \* history: how many of those raised after the change

vars == <<truth, connected, wire, books, deltasApplied, faults, origin,
          unstaged, stageFailures>>

Sides == {"yes", "no"}
NoSequence == -1
Levels == [Sides -> [Prices -> 0..MaxQuantity]]
NoLevels == [x \in Sides |-> [p \in Prices |-> 0]]
NewBook == [levels |-> NoLevels, sequence |-> NoSequence]

\* The book of t after update n, and the number of its latest update.
BookAt(t, n) == truth[t][n + 1]
Latest(t) == Len(truth[t]) - 1

Snapshot(t, n) == [type |-> "orderbook_snapshot", ticker |-> t, seq |-> n]
Delta(t, n) == [type |-> "orderbook_delta", ticker |-> t, seq |-> n]
Messages == [type : {"orderbook_snapshot", "orderbook_delta"}, ticker : Tickers, seq : Nat]

-----------------------------------------------------------------------------
(* LocalOrderbook *)

\* Mistake: an emptied level stays in the book.
KeepsAnyQuantity(quantity) == quantity

\* Resting quantity after a change: a level at or below zero is removed.
Rest(quantity) == IF quantity > 0 THEN quantity ELSE 0

\* apply_delta's arithmetic: delta n of t is what update n changed.
AfterDelta(t, levels, n) ==
  [x \in Sides |-> [p \in Prices |->
     Rest(levels[x][p] + (BookAt(t, n)[x][p] - BookAt(t, n - 1)[x][p]))]]

\* Mistake: any later number is taken for the next one.
AcceptsSkips(book, actual) == actual > book.sequence

\* apply_delta's only test of a numbered delta.
InOrder(book, actual) == actual = book.sequence + 1

\* A whole book loaded from update n and numbered seq.
Load(t, n, seq) ==
  /\ books' = [books EXCEPT ![t] = [levels |-> BookAt(t, n), sequence |-> seq]]
  /\ origin' = [origin EXCEPT ![t] = [x \in Sides |-> [sequence |-> seq, update |-> n]]]

\* The yes side is assigned, then parsing the no side raises: the book keeps its
\* old no side and its old sequence.
LoadYesOnly(t, n) ==
  /\ books' = [books EXCEPT ![t].levels["yes"] = BookAt(t, n)["yes"]]
  /\ origin' = [origin EXCEPT ![t]["yes"] =
                  [sequence |-> books[t].sequence, update |-> n]]

-----------------------------------------------------------------------------
Init ==
  /\ truth = [t \in Tickers |-> <<NoLevels>>]
  /\ connected = FALSE
  /\ wire = <<>>
  /\ books = [t \in Tickers |-> NewBook]
  /\ deltasApplied = 0
  /\ faults = 0
  /\ origin = [t \in Tickers |-> [x \in Sides |-> [sequence |-> NoSequence, update |-> 0]]]
  /\ unstaged = [t \in Tickers |-> 0]
  /\ stageFailures = [t \in Tickers |-> 0]

(* The exchange (external) *)

\* The resting quantity of one level changes; a subscriber is sent the delta.
ExchangeUpdate(t) ==
  /\ Latest(t) < MaxUpdates
  /\ \E x \in Sides, p \in Prices, q \in 0..MaxQuantity :
       LET now == BookAt(t, Latest(t)) IN
       /\ q # now[x][p]
       /\ truth' = [truth EXCEPT ![t] = Append(@, [now EXCEPT ![x][p] = q])]
  /\ wire' = IF connected THEN Append(wire, Delta(t, Latest(t) + 1)) ELSE wire
  /\ UNCHANGED <<connected, books, deltasApplied, faults, origin, unstaged, stageFailures>>

WireVarsUnchanged ==
  UNCHANGED <<truth, connected, books, deltasApplied, origin, unstaged, stageFailures>>

\* The oldest message never arrives.
Lose ==
  /\ wire # <<>> /\ faults < MaxFaults
  /\ wire' = Tail(wire)
  /\ faults' = faults + 1
  /\ WireVarsUnchanged

\* The oldest message arrives, and once more after everything now in flight.
Repeat ==
  /\ wire # <<>> /\ faults < MaxFaults
  /\ wire' = Append(wire, Head(wire))
  /\ faults' = faults + 1
  /\ WireVarsUnchanged

\* The oldest message is overtaken by everything now in flight.
Delay ==
  /\ wire # <<>> /\ faults < MaxFaults
  /\ wire' = Append(Tail(wire), Head(wire))
  /\ faults' = faults + 1
  /\ WireVarsUnchanged

-----------------------------------------------------------------------------
(* ReadOnlyOrderbookWebSocketAdapter *)

\* Mistake: the next run goes on with the books of the last one.
ConnectWithOldBooks ==
  /\ ~connected
  /\ connected' = TRUE
  /\ \E order \in [1..Cardinality(Tickers) -> Tickers] :
       wire' = [i \in 1..Cardinality(Tickers) |-> Snapshot(order[i], Latest(order[i]))]
  /\ deltasApplied' = 0
  /\ UNCHANGED <<truth, books, faults, origin, unstaged, stageFailures>>

\* A new adapter subscribes: empty books, and one snapshot per ticker on the wire.
Connect ==
  /\ ~connected
  /\ connected' = TRUE
  /\ \E order \in [1..Cardinality(Tickers) -> Tickers] :
       /\ \A t \in Tickers : \E i \in DOMAIN order : order[i] = t
       /\ wire' = [i \in 1..Cardinality(Tickers) |-> Snapshot(order[i], Latest(order[i]))]
  /\ books' = [t \in Tickers |-> NewBook]
  /\ origin' = [t \in Tickers |-> [x \in Sides |-> [sequence |-> NoSequence, update |-> 0]]]
  /\ deltasApplied' = 0
  /\ unstaged' = [t \in Tickers |-> 0]
  /\ stageFailures' = [t \in Tickers |-> 0]
  /\ UNCHANGED <<truth, faults>>

\* The deadline passes or the connection ends: what is in flight is gone.
EndRun ==
  /\ connected
  /\ connected' = FALSE
  /\ wire' = <<>>
  /\ UNCHANGED <<truth, books, deltasApplied, faults, origin, unstaged, stageFailures>>

\* The handler raises after the book of t was changed: the error is recorded, no file
\* is written, and the last file misses one change more.
Unstaged(t) ==
  /\ unstaged' = [unstaged EXCEPT ![t] = @ + 1]
  /\ stageFailures' = [stageFailures EXCEPT ![t] = @ + 1]

\* _stage: the market is read over REST and the file of the whole book written, or
\* either raises and the run goes on without a file.
Stage(t) ==
  \/ /\ unstaged' = [unstaged EXCEPT ![t] = 0]
     /\ stageFailures' = [stageFailures EXCEPT ![t] = 0]
  \/ Unstaged(t)

\* The message cannot be parsed, or its ticker is not subscribed, or REST raises
\* before the book is touched: the error is recorded and the loop goes on.
Rejected ==
  UNCHANGED <<books, origin, deltasApplied, unstaged, stageFailures>>

\* apply_snapshot assigns the sides and then the sequence: what cannot be parsed
\* raises with the assignments before it done.
SnapshotArrives(t, n) ==
  \/ Rejected
  \/ /\ \/ LoadYesOnly(t, n) /\ Unstaged(t)
        \/ Load(t, n, books[t].sequence) /\ Unstaged(t)
        \/ \E seq \in {n, NoSequence} : Load(t, n, seq) /\ Stage(t)
     /\ UNCHANGED deltasApplied

\* Mistake: the checkpoint comes one delta late.
CheckpointLate(count) == count % (PersistEvery + 1) = 0

\* Every PersistEvery-th delta of the run stages the book it was applied to.
CheckpointDue(count) == count % PersistEvery = 0

\* An in-order delta is applied, and every PersistEvery-th of the run is a checkpoint;
\* if its sid cannot be parsed, apply_delta raises when the book is already changed,
\* and the delta is not counted.
DeltaApplied(t, n) ==
  /\ books[t].sequence # NoSequence
  /\ InOrder(books[t], n)
  /\ books' = [books EXCEPT ![t] = [levels |-> AfterDelta(t, @.levels, n), sequence |-> n]]
  /\ \/ Unstaged(t) /\ UNCHANGED deltasApplied
     \/ /\ deltasApplied' = deltasApplied + 1
        /\ IF CheckpointDue(deltasApplied + 1)
             THEN Stage(t)
             ELSE /\ unstaged' = [unstaged EXCEPT ![t] = @ + 1]
                  /\ UNCHANGED stageFailures
  /\ UNCHANGED origin

\* Any other number is a gap: the book is read over REST and numbered as the
\* delta that exposed it.
GapRecovered(t, n) ==
  /\ books[t].sequence # NoSequence
  /\ ~InOrder(books[t], n)
  /\ \/ Load(t, Latest(t), n) /\ Stage(t)
     \/ LoadYesOnly(t, Latest(t)) /\ Unstaged(t)
  /\ UNCHANGED deltasApplied

\* A delta before any snapshot is an error, not a gap: Rejected.
Receive ==
  /\ connected /\ wire # <<>>
  /\ LET m == Head(wire) IN
     \/ m.type = "orderbook_snapshot" /\ SnapshotArrives(m.ticker, m.seq)
     \/ /\ m.type = "orderbook_delta"
        /\ Rejected \/ DeltaApplied(m.ticker, m.seq) \/ GapRecovered(m.ticker, m.seq)
  /\ wire' = Tail(wire)
  /\ UNCHANGED <<truth, connected, faults>>

Next ==
  \/ \E t \in Tickers : ExchangeUpdate(t)
  \/ Lose \/ Repeat \/ Delay
  \/ Connect \/ EndRun \/ Receive

Spec == Init /\ [][Next]_vars

\* run's deadline is tested before every read, and the watch always opens the
\* next cycle.
FairSpec == Spec /\ WF_vars(EndRun) /\ WF_vars(Connect)

-----------------------------------------------------------------------------
(* Properties *)

\* Every variable has its type: levels never go negative, no sequence is below none.
TypeOK ==
  /\ truth \in [Tickers -> Seq(Levels)]
  /\ \A t \in Tickers : Len(truth[t]) > 0
  /\ connected \in BOOLEAN
  /\ wire \in Seq(Messages)
  /\ books \in [Tickers -> [levels : [Sides -> [Prices -> Nat]],
                            sequence : Nat \cup {NoSequence}]]
  /\ deltasApplied \in Nat
  /\ faults \in 0..MaxFaults
  /\ origin \in [Tickers -> [Sides -> [sequence : Nat \cup {NoSequence}, update : Nat]]]
  /\ unstaged \in [Tickers -> Nat]
  /\ stageFailures \in [Tickers -> Nat]

\* The exchange kept the quantity of a level between updates a and b.
Steady(t, x, p, a, b) ==
  \A n \in (a..b) \cup (b..a) : BookAt(t, n)[x][p] = BookAt(t, a)[x][p]

\* A level of a side is the exchange's level at the book's number, if the exchange
\* kept it from the number the side was loaded at to the update it was loaded from.
LevelRight(t, x, p) ==
  LET o == origin[t][x]
      s == books[t].sequence IN
  (s # NoSequence /\ o.sequence # NoSequence /\ Steady(t, x, p, o.sequence, o.update))
    => books[t].levels[x][p] = BookAt(t, s)[x][p]

\* Through lost, repeated and delayed deltas, failed and half-parsed REST reads, a
\* level of a numbered book is exactly the exchange's level at that number, unless
\* the exchange changed it between the number its side was loaded at and the update
\* the loaded side really showed.
DriftConfined ==
  \A t \in Tickers, x \in Sides, p \in Prices : LevelRight(t, x, p)

\* One subscribed ticker: the last file of a run misses fewer changes of the book than
\* the checkpoint interval times one plus the messages since that file whose handler
\* raised after changing the book. A message is a change whether it was a delta, a
\* snapshot or a recovered gap; before the run's first file the count is from its start.
CheckpointBound ==
  Cardinality(Tickers) = 1 =>
    \A t \in Tickers : unstaged[t] < PersistEvery * (1 + stageFailures[t])

\* A book that a REST read may have falsified does not stay so: the run ends and
\* the next one starts from empty books.
DriftEndsWithRun ==
  \A t \in Tickers :
    (\E x \in Sides : origin[t][x].sequence # origin[t][x].update)
      ~> (books[t].sequence = NoSequence)

\* What the comment in _recover_from_gap asks for: a delta that a loaded REST
\* snapshot already includes is not applied on top of it.
NoDeltaAppliedTwice ==
  [][\A t \in Tickers, x \in Sides :
       LET n == books'[t].sequence IN
       (/\ books[t].sequence # NoSequence
        /\ n = books[t].sequence + 1 /\ origin'[t] = origin[t]
        /\ BookAt(t, n)[x] # BookAt(t, n - 1)[x])
         => n > origin[t][x].update]_vars

=============================================================================
