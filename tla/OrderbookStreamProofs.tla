------------------------ MODULE OrderbookStreamProofs ------------------------
(***************************************************************************)
(* Theorems about OrderbookStream, for any tickers, prices and bounds: its *)
(* variables keep their types, a numbered book differs from the exchange's *)
(* book of that number only where DriftConfined allows it, and with one    *)
(* ticker the checkpoints bound how many changes a staged file misses.     *)
(***************************************************************************)
EXTENDS OrderbookStream, FiniteSetTheorems, SequenceTheorems, TLAPS

\* A message is about an update the exchange has made, and deltas start at 1.
Published(m) ==
  /\ m.seq <= Latest(m.ticker)
  /\ m.type = "orderbook_delta" => m.seq > 0

WirePublished == \A i \in 1..Len(wire) : Published(wire[i])

\* Books and the history of their sides refer to updates the exchange has made.
BooksPublished ==
  \A t \in Tickers :
    /\ books[t].sequence <= Latest(t)
    /\ \A x \in Sides : origin[t][x].sequence <= Latest(t) /\ origin[t][x].update <= Latest(t)

Inv == TypeOK /\ WirePublished /\ BooksPublished /\ DriftConfined

-----------------------------------------------------------------------------
(* The operators a handler is built from *)

LEMMA LevelsInRange ==
  ASSUME TypeOK, NEW t \in Tickers, NEW n \in 0..Latest(t)
  PROVE  /\ BookAt(t, n) \in Levels
         /\ \A x \in Sides, p \in Prices : BookAt(t, n)[x][p] \in Nat
<1>1. Len(truth[t]) \in Nat /\ truth[t] \in Seq(Levels)
  BY DEF TypeOK
<1>2. n + 1 \in 1..Len(truth[t])
  BY <1>1 DEF Latest
<1>3. BookAt(t, n) \in Levels
  BY <1>1, <1>2 DEF BookAt
<1>4. MaxQuantity \in Nat
  BY StreamAssumption
<1>5. QED
  BY <1>3, <1>4 DEF Levels

LEMMA LatestIsNat ==
  ASSUME TypeOK, NEW t \in Tickers
  PROVE  Latest(t) \in Nat
<1>1. Len(truth[t]) \in Nat /\ Len(truth[t]) > 0
  BY DEF TypeOK
<1>2. QED
  BY <1>1 DEF Latest

\* apply_delta leaves no negative level.
LEMMA AfterDeltaType ==
  ASSUME TypeOK, NEW t \in Tickers, NEW levels \in [Sides -> [Prices -> Nat]],
         NEW n \in 1..Latest(t)
  PROVE  AfterDelta(t, levels, n) \in [Sides -> [Prices -> Nat]]
<1>1. n \in 0..Latest(t) /\ n - 1 \in 0..Latest(t)
  BY LatestIsNat
<1>2. ASSUME NEW x \in Sides, NEW p \in Prices
      PROVE  Rest(levels[x][p] + (BookAt(t, n)[x][p] - BookAt(t, n - 1)[x][p])) \in Nat
  <2>1. BookAt(t, n)[x][p] \in Nat /\ BookAt(t, n - 1)[x][p] \in Nat
    BY <1>1, LevelsInRange
  <2>2. levels[x][p] \in Nat
    OBVIOUS
  <2>3. QED
    BY <2>1, <2>2 DEF Rest
<1>3. QED
  BY <1>2 DEF AfterDelta

-----------------------------------------------------------------------------
(* Every action keeps the types, and what is on the wire and in the books published *)

Facts == TypeOK /\ WirePublished /\ BooksPublished

LEMMA InitFacts == Init => Facts
<1> SUFFICES ASSUME Init PROVE Facts
  OBVIOUS
<1>1. NoLevels \in Levels /\ MaxQuantity \in Nat
  BY StreamAssumption DEF NoLevels, Levels
<1>2. \A t \in Tickers : truth[t] \in Seq(Levels) /\ Len(truth[t]) = 1
  BY <1>1 DEF Init
<1>3. NewBook \in [levels : [Sides -> [Prices -> Nat]], sequence : Nat \cup {NoSequence}]
  BY DEF NewBook, NoLevels
<1>4. TypeOK
  <2>1. truth \in [Tickers -> Seq(Levels)] /\ \A t \in Tickers : Len(truth[t]) > 0
    BY <1>2 DEF Init
  <2>2. books \in [Tickers -> [levels : [Sides -> [Prices -> Nat]],
                               sequence : Nat \cup {NoSequence}]]
    BY <1>3 DEF Init
  <2>3. origin \in [Tickers -> [Sides -> [sequence : Nat \cup {NoSequence}, update : Nat]]]
    BY DEF Init
  <2>4. faults \in 0..MaxFaults
    BY StreamAssumption DEF Init
  <2>5. wire \in Seq(Messages)
    BY DEF Init
  <2>6. unstaged \in [Tickers -> Nat] /\ stageFailures \in [Tickers -> Nat]
    BY DEF Init
  <2>7. QED
    BY <2>1, <2>2, <2>3, <2>4, <2>5, <2>6 DEF Init, TypeOK
<1>5. WirePublished /\ BooksPublished
  BY <1>2 DEF Init, WirePublished, BooksPublished, Latest, NewBook, NoSequence
<1>6. QED
  BY <1>4, <1>5 DEF Facts

\* The exchange only appends: old books stay, numbers grow.
LEMMA UpdateAppends ==
  ASSUME TypeOK, NEW t \in Tickers, ExchangeUpdate(t)
  PROVE  /\ truth' \in [Tickers -> Seq(Levels)]
         /\ \A u \in Tickers :
              /\ Latest(u) \in Nat /\ Latest(u)' \in Nat
              /\ Latest(u) <= Latest(u)'
              /\ \A n \in 0..Latest(u) : BookAt(u, n)' = BookAt(u, n)
         /\ Latest(t)' = Latest(t) + 1
<1>1. PICK x \in Sides, p \in Prices, q \in 0..MaxQuantity :
        truth' = [truth EXCEPT ![t] = Append(@, [BookAt(t, Latest(t)) EXCEPT ![x][p] = q])]
  BY DEF ExchangeUpdate
<1> DEFINE new == [BookAt(t, Latest(t)) EXCEPT ![x][p] = q]
<1>2. Latest(t) \in Nat
  BY LatestIsNat
<1>3. BookAt(t, Latest(t)) \in Levels
  BY <1>2, LevelsInRange
<1>4. new \in Levels
  BY <1>3 DEF Levels
<1>5. truth \in [Tickers -> Seq(Levels)]
  BY DEF TypeOK
<1>6. truth' = [truth EXCEPT ![t] = Append(truth[t], new)]
  BY <1>1
<1>7. Append(truth[t], new) \in Seq(Levels)
  BY <1>4, <1>5
<1> HIDE DEF new
<1>8. truth' \in [Tickers -> Seq(Levels)]
  BY <1>5, <1>6, <1>7
<1>9. ASSUME NEW u \in Tickers
      PROVE  /\ Latest(u) \in Nat /\ Latest(u)' \in Nat
             /\ Latest(u) <= Latest(u)'
             /\ \A n \in 0..Latest(u) : BookAt(u, n)' = BookAt(u, n)
  <2>1. Latest(u) \in Nat /\ truth[u] \in Seq(Levels)
    BY <1>5, LatestIsNat
  <2>2. CASE u # t
    BY <2>1, <2>2, <1>5, <1>6 DEF Latest, BookAt
  <2>3. CASE u = t
    <3>1. truth'[u] = Append(truth[u], new)
      BY <2>3, <1>5, <1>6
    <3>2. Len(truth'[u]) = Len(truth[u]) + 1
      BY <3>1, <2>1, <1>4
    <3>3. \A i \in 1..Len(truth[u]) : truth'[u][i] = truth[u][i]
      BY <3>1, <2>1, <1>4
    <3>4. QED
      BY <2>1, <3>2, <3>3 DEF Latest, BookAt
  <2>4. QED
    BY <2>2, <2>3
<1>10. Latest(t)' = Latest(t) + 1
  <2>1. truth'[t] = Append(truth[t], new) /\ truth[t] \in Seq(Levels)
    BY <1>5, <1>6
  <2>2. Len(truth'[t]) = Len(truth[t]) + 1
    BY <2>1, <1>4
  <2>3. QED
    BY <2>1, <2>2 DEF Latest
<1>11. QED
  BY <1>8, <1>9, <1>10

-----------------------------------------------------------------------------
(* The wire *)

\* A fault of the wire or a receipt only moves messages about.
LEMMA WireMoves ==
  ASSUME TypeOK, WirePublished, wire # <<>>, UNCHANGED truth,
         \/ wire' = Tail(wire)
         \/ wire' = Append(wire, Head(wire))
         \/ wire' = Append(Tail(wire), Head(wire))
  PROVE  /\ wire' \in Seq(Messages) /\ WirePublished'
         /\ Head(wire) \in Messages /\ Published(Head(wire))
<1>1. wire \in Seq(Messages)
  BY DEF TypeOK
<1>2. Len(wire) \in Nat \ {0} /\ Head(wire) = wire[1] /\ wire[1] \in Messages
  BY <1>1
<1>3. Published(Head(wire))
  BY <1>2 DEF WirePublished
<1>4. /\ Tail(wire) \in Seq(Messages)
      /\ Len(Tail(wire)) = Len(wire) - 1
      /\ \A i \in 1..Len(Tail(wire)) : Tail(wire)[i] = wire[i + 1]
  BY <1>1
<1>5. \A i \in 1..Len(Tail(wire)) : Published(Tail(wire)[i])
  <2> SUFFICES ASSUME NEW i \in 1..Len(Tail(wire)) PROVE Published(Tail(wire)[i])
    OBVIOUS
  <2>1. i + 1 \in 1..Len(wire) /\ Tail(wire)[i] = wire[i + 1]
    BY <1>2, <1>4
  <2>2. Published(wire[i + 1])
    BY <2>1 DEF WirePublished
  <2>3. QED
    BY <2>1, <2>2
<1>6. \A m : Published(m) => Published(m)'
  BY DEF Published, Latest
<1>7. wire' \in Seq(Messages) /\ \A i \in 1..Len(wire') : Published(wire'[i])
  <2>1. CASE wire' = Tail(wire)
    BY <2>1, <1>4, <1>5
  <2>2. CASE wire' = Append(wire, Head(wire))
    <3>1. \A i \in 1..Len(wire) : Published(wire[i])
      BY DEF WirePublished
    <3>2. QED
      BY <2>2, <3>1, <1>1, <1>2, <1>3
  <2>3. CASE wire' = Append(Tail(wire), Head(wire))
    <3> DEFINE s == Tail(wire)
    <3>1. s \in Seq(Messages) /\ \A i \in 1..Len(s) : Published(s[i])
      BY <1>4, <1>5
    <3>2. wire' = Append(s, Head(wire))
      BY <2>3
    <3> HIDE DEF s
    <3>3. QED
      BY <3>1, <3>2, <1>2, <1>3
  <2>4. QED
    BY <2>1, <2>2, <2>3
<1>8. WirePublished'
  BY <1>6, <1>7 DEF WirePublished
<1>9. QED
  BY <1>2, <1>3, <1>7, <1>8

-----------------------------------------------------------------------------
(* The books: what every way to change one keeps *)

BooksTyped ==
  /\ books \in [Tickers -> [levels : [Sides -> [Prices -> Nat]],
                            sequence : Nat \cup {NoSequence}]]
  /\ origin \in [Tickers -> [Sides -> [sequence : Nat \cup {NoSequence}, update : Nat]]]

\* A whole load keeps the books typed, published and right.
LEMMA LoadKeeps ==
  ASSUME TypeOK, BooksPublished, UNCHANGED truth,
         NEW t \in Tickers, NEW n \in 0..Latest(t),
         NEW seq \in Nat \cup {NoSequence}, seq <= Latest(t), Load(t, n, seq)
  PROVE  BooksTyped' /\ BooksPublished' /\ (DriftConfined => DriftConfined')
<1> DEFINE book == [levels |-> BookAt(t, n), sequence |-> seq]
           orig == [x \in Sides |-> [sequence |-> seq, update |-> n]]
<1>1. books' = [books EXCEPT ![t] = book] /\ origin' = [origin EXCEPT ![t] = orig]
  BY DEF Load
<1>2. BookAt(t, n) \in [Sides -> [Prices -> Nat]]
  BY LevelsInRange, StreamAssumption DEF Levels
<1>3. Latest(t) \in Nat
  BY LatestIsNat
<1>4. BooksTyped'
  <2>1. book \in [levels : [Sides -> [Prices -> Nat]], sequence : Nat \cup {NoSequence}]
    BY <1>2
  <2>2. orig \in [Sides -> [sequence : Nat \cup {NoSequence}, update : Nat]]
    BY <1>3
  <2> HIDE DEF book, orig
  <2>3. QED
    BY <1>1, <2>1, <2>2 DEF BooksTyped, TypeOK
<1>5. /\ books'[t] = book /\ origin'[t] = orig
      /\ \A u \in Tickers \ {t} : books'[u] = books[u] /\ origin'[u] = origin[u]
  BY <1>1 DEF TypeOK
<1>6. \A u \in Tickers : Latest(u)' = Latest(u) /\ \A k : BookAt(u, k)' = BookAt(u, k)
  BY DEF Latest, BookAt
<1>7. BooksPublished'
  BY <1>3, <1>5, <1>6 DEF BooksPublished
<1>8. ASSUME DriftConfined PROVE DriftConfined'
  <2> SUFFICES ASSUME NEW u \in Tickers, NEW x \in Sides, NEW p \in Prices
               PROVE  LevelRight(u, x, p)'
    BY DEF DriftConfined
  <2>1. CASE u # t
    <3>1. LevelRight(u, x, p)
      BY <1>8 DEF DriftConfined
    <3>2. QED
      BY <2>1, <3>1, <1>5 DEF LevelRight, Steady, BookAt
  <2>2. CASE u = t
    <3>1. CASE seq = NoSequence
      BY <2>2, <3>1, <1>5 DEF LevelRight
    <3>2. CASE seq \in Nat
      <4>1. n \in Nat /\ n \in (seq..n) \cup (n..seq)
        BY <1>3, <3>2
      <4>2. Steady(t, x, p, seq, n) => BookAt(t, n)[x][p] = BookAt(t, seq)[x][p]
        BY <4>1 DEF Steady
      <4>3. QED
        BY <2>2, <4>2, <1>5 DEF LevelRight, Steady, BookAt
    <3>3. QED
      BY <3>1, <3>2
  <2>3. QED
    BY <2>1, <2>2
<1>9. QED
  BY <1>4, <1>7, <1>8

\* Loading one side at the book's old number keeps them too.
LEMMA LoadYesOnlyKeeps ==
  ASSUME TypeOK, BooksPublished, UNCHANGED truth,
         NEW t \in Tickers, NEW n \in 0..Latest(t), LoadYesOnly(t, n)
  PROVE  BooksTyped' /\ BooksPublished' /\ (DriftConfined => DriftConfined')
<1> DEFINE book == [books[t] EXCEPT !.levels = [@ EXCEPT !["yes"] = BookAt(t, n)["yes"]]]
           side == [sequence |-> books[t].sequence, update |-> n]
           orig == [origin[t] EXCEPT !["yes"] = side]
<1>1. books' = [books EXCEPT ![t] = book] /\ origin' = [origin EXCEPT ![t] = orig]
  BY DEF LoadYesOnly, TypeOK
<1>2. BookAt(t, n) \in [Sides -> [Prices -> Nat]] /\ "yes" \in Sides
  BY LevelsInRange, StreamAssumption DEF Levels, Sides
<1>3. Latest(t) \in Nat /\ n \in Nat
  BY LatestIsNat
<1>4. /\ books[t].levels \in [Sides -> [Prices -> Nat]]
      /\ books[t].sequence \in Nat \cup {NoSequence}
      /\ books[t] = [levels |-> books[t].levels, sequence |-> books[t].sequence]
      /\ origin[t] \in [Sides -> [sequence : Nat \cup {NoSequence}, update : Nat]]
  BY DEF TypeOK
<1>5. /\ book.sequence = books[t].sequence
      /\ book.levels["yes"] = BookAt(t, n)["yes"]
      /\ \A x \in Sides \ {"yes"} : book.levels[x] = books[t].levels[x]
      /\ book \in [levels : [Sides -> [Prices -> Nat]], sequence : Nat \cup {NoSequence}]
  BY <1>2, <1>4
<1>6. /\ orig["yes"] = side
      /\ \A x \in Sides \ {"yes"} : orig[x] = origin[t][x]
      /\ orig \in [Sides -> [sequence : Nat \cup {NoSequence}, update : Nat]]
  BY <1>2, <1>3, <1>4
<1>7. BooksTyped'
  <2> HIDE DEF book, orig
  <2>1. QED
    BY <1>1, <1>5, <1>6 DEF BooksTyped, TypeOK
<1>8. /\ books'[t] = book /\ origin'[t] = orig
      /\ \A u \in Tickers \ {t} : books'[u] = books[u] /\ origin'[u] = origin[u]
  BY <1>1 DEF TypeOK
<1>9. \A u \in Tickers : Latest(u)' = Latest(u)
  BY DEF Latest
<1> HIDE DEF book, orig
<1>10. BooksPublished'
  BY <1>3, <1>5, <1>6, <1>8, <1>9 DEF BooksPublished
<1>11. ASSUME DriftConfined PROVE DriftConfined'
  <2> SUFFICES ASSUME NEW u \in Tickers, NEW x \in Sides, NEW p \in Prices
               PROVE  LevelRight(u, x, p)'
    BY DEF DriftConfined
  <2>1. LevelRight(u, x, p)
    BY <1>11 DEF DriftConfined
  <2>2. CASE u # t \/ x # "yes"
    BY <2>1, <2>2, <1>5, <1>6, <1>8 DEF LevelRight, Steady, BookAt
  <2>3. CASE u = t /\ x = "yes"
    <3> DEFINE s == books[t].sequence
    <3>1. CASE s = NoSequence
      BY <2>3, <3>1, <1>5, <1>8 DEF LevelRight
    <3>2. CASE s \in Nat
      <4>1. n \in (s..n) \cup (n..s) /\ s \in (s..n) \cup (n..s)
        BY <1>3, <3>2
      <4>2. Steady(t, x, p, s, n) => BookAt(t, n)[x][p] = BookAt(t, s)[x][p]
        BY <4>1 DEF Steady
      <4>3. QED
        BY <2>3, <4>2, <1>5, <1>6, <1>8 DEF LevelRight, Steady, BookAt
    <3>3. QED
      BY <3>1, <3>2, <1>4
  <2>4. QED
    BY <2>2, <2>3
<1>12. QED
  BY <1>7, <1>10, <1>11

\* So does an in-order delta: a right level plus what the update changed is right.
LEMMA DeltaKeeps ==
  ASSUME TypeOK, BooksPublished, UNCHANGED truth,
         NEW t \in Tickers, NEW n \in 1..Latest(t), DeltaApplied(t, n)
  PROVE  BooksTyped' /\ BooksPublished' /\ (DriftConfined => DriftConfined')
<1> DEFINE book == [levels |-> AfterDelta(t, books[t].levels, n), sequence |-> n]
<1>1. /\ books' = [books EXCEPT ![t] = book] /\ origin' = origin
      /\ books[t].sequence # NoSequence /\ n = books[t].sequence + 1
  BY DEF DeltaApplied, InOrder
<1>2. /\ books[t].levels \in [Sides -> [Prices -> Nat]]
      /\ books[t].sequence \in Nat \cup {NoSequence}
  BY DEF TypeOK
<1>3. AfterDelta(t, books[t].levels, n) \in [Sides -> [Prices -> Nat]]
  BY <1>2, AfterDeltaType
<1>4. BooksTyped'
  <2>1. book \in [levels : [Sides -> [Prices -> Nat]], sequence : Nat \cup {NoSequence}]
    BY <1>3
  <2> HIDE DEF book
  <2>2. QED
    BY <1>1, <2>1 DEF BooksTyped, TypeOK
<1>5. books'[t] = book /\ \A u \in Tickers \ {t} : books'[u] = books[u]
  BY <1>1 DEF TypeOK
<1>6. BooksPublished'
  BY <1>1, <1>5 DEF BooksPublished, Latest
<1>7. ASSUME DriftConfined PROVE DriftConfined'
  <2> SUFFICES ASSUME NEW u \in Tickers, NEW x \in Sides, NEW p \in Prices
               PROVE  LevelRight(u, x, p)'
    BY DEF DriftConfined
  <2>1. LevelRight(u, x, p)
    BY <1>7 DEF DriftConfined
  <2>2. CASE u # t
    BY <2>1, <2>2, <1>1, <1>5 DEF LevelRight, Steady, BookAt
  <2>3. CASE u = t
    <3>1. n - 1 = books[t].sequence /\ n \in 0..Latest(t) /\ n - 1 \in 0..Latest(t)
      <4>1. Latest(t) \in Nat
        BY LatestIsNat
      <4>2. books[t].sequence \in Nat
        BY <1>1, <1>2
      <4>3. QED
        BY <4>1, <4>2, <1>1
    <3>2. BookAt(t, n)[x][p] \in Nat /\ BookAt(t, n - 1)[x][p] \in Nat
      BY <3>1, LevelsInRange
    <3>3. book.levels[x][p] =
            Rest(books[t].levels[x][p] + (BookAt(t, n)[x][p] - BookAt(t, n - 1)[x][p]))
      BY DEF AfterDelta
    <3>4. books[t].levels[x][p] = BookAt(t, n - 1)[x][p]
            => book.levels[x][p] = BookAt(t, n)[x][p]
      <4> HIDE DEF book
      <4>1. QED
        BY <3>2, <3>3 DEF Rest
    <3>5. book.sequence = n
      OBVIOUS
    <3> HIDE DEF book
    <3>6. QED
      BY <2>1, <2>3, <3>1, <3>4, <3>5, <1>1, <1>5 DEF LevelRight, Steady, BookAt
  <2>4. QED
    BY <2>2, <2>3
<1>8. QED
  BY <1>4, <1>6, <1>7

-----------------------------------------------------------------------------
(* The handler of one message *)

CountersTyped ==
  deltasApplied \in Nat /\ unstaged \in [Tickers -> Nat] /\ stageFailures \in [Tickers -> Nat]

LEMMA StageTyped ==
  ASSUME TypeOK, NEW t \in Tickers, Stage(t) \/ Unstaged(t)
  PROVE  unstaged' \in [Tickers -> Nat] /\ stageFailures' \in [Tickers -> Nat]
<1>1. unstaged \in [Tickers -> Nat] /\ stageFailures \in [Tickers -> Nat]
  BY DEF TypeOK
<1>2. /\ [unstaged EXCEPT ![t] = 0] \in [Tickers -> Nat]
      /\ [unstaged EXCEPT ![t] = @ + 1] \in [Tickers -> Nat]
  BY <1>1
<1>3. /\ [stageFailures EXCEPT ![t] = 0] \in [Tickers -> Nat]
      /\ [stageFailures EXCEPT ![t] = @ + 1] \in [Tickers -> Nat]
  BY <1>1
<1>4. QED
  BY <1>2, <1>3 DEF Stage, Unstaged

LEMMA ReceiveKeeps ==
  ASSUME TypeOK, WirePublished, BooksPublished, Receive
  PROVE  /\ BooksTyped' /\ BooksPublished' /\ CountersTyped'
         /\ DriftConfined => DriftConfined'
<1> DEFINE m == Head(wire)
           t == m.ticker
           n == m.seq
<1>1. wire # <<>> /\ wire' = Tail(wire) /\ UNCHANGED truth
  BY DEF Receive
<1>2. m \in Messages /\ Published(m)
  BY <1>1, WireMoves
<1>3. t \in Tickers /\ n \in Nat /\ n <= Latest(t)
  BY <1>2 DEF Messages, Published
<1>4. Latest(t) \in Nat /\ n \in 0..Latest(t) /\ Latest(t) \in 0..Latest(t)
  BY <1>3, LatestIsNat
<1>5. CASE Rejected
  <2>1. BooksTyped' /\ CountersTyped'
    BY <1>5 DEF Rejected, BooksTyped, CountersTyped, TypeOK
  <2>2. BooksPublished'
    BY <1>1, <1>5 DEF Rejected, BooksPublished, Latest
  <2>3. DriftConfined => DriftConfined'
    BY <1>1, <1>5 DEF Rejected, DriftConfined, LevelRight, Steady, BookAt
  <2>4. QED
    BY <2>1, <2>2, <2>3
<1>6. CASE m.type = "orderbook_snapshot" /\ SnapshotArrives(t, n) /\ ~Rejected
  <2>1. CASE LoadYesOnly(t, n) /\ Unstaged(t) /\ UNCHANGED deltasApplied
    <3>1. CountersTyped'
      BY <2>1, <1>3, StageTyped DEF CountersTyped, TypeOK
    <3>2. QED
      BY <2>1, <3>1, <1>1, <1>3, <1>4, LoadYesOnlyKeeps
  <2>2. CASE /\ \/ Load(t, n, books[t].sequence) /\ Unstaged(t)
                \/ \E seq \in {n, NoSequence} : Load(t, n, seq) /\ Stage(t)
             /\ UNCHANGED deltasApplied
    <3>1. PICK seq \in {n, NoSequence, books[t].sequence} :
            Load(t, n, seq) /\ (Stage(t) \/ Unstaged(t))
      BY <2>2
    <3>2. books[t].sequence \in Nat \cup {NoSequence} /\ books[t].sequence <= Latest(t)
      BY <1>3 DEF TypeOK, BooksPublished
    <3>3. seq \in Nat \cup {NoSequence} /\ seq <= Latest(t)
      BY <3>1, <3>2, <1>3, <1>4 DEF NoSequence
    <3>4. CountersTyped'
      BY <2>2, <3>1, <1>3, StageTyped DEF CountersTyped, TypeOK
    <3>5. QED
      BY <3>1, <3>3, <3>4, <1>1, <1>3, <1>4, LoadKeeps
  <2>3. QED
    BY <1>6, <2>1, <2>2 DEF SnapshotArrives
<1>7. CASE m.type = "orderbook_delta" /\ DeltaApplied(t, n)
  <2>1. n \in 1..Latest(t)
    BY <1>2, <1>3, <1>4, <1>7 DEF Published
  <2>2. unstaged[t] + 1 \in Nat
    BY <1>3 DEF TypeOK
  <2>3. CountersTyped'
    <3>1. deltasApplied' \in Nat
      BY <1>7 DEF DeltaApplied, TypeOK
    <3>2. CASE Stage(t) \/ Unstaged(t)
      BY <3>1, <3>2, <1>3, StageTyped DEF CountersTyped
    <3>3. CASE unstaged' = [unstaged EXCEPT ![t] = @ + 1] /\ UNCHANGED stageFailures
      BY <3>1, <3>3, <1>3, <2>2 DEF CountersTyped, TypeOK
    <3>4. QED
      BY <1>7, <3>2, <3>3 DEF DeltaApplied
  <2>4. QED
    BY <2>1, <2>3, <1>1, <1>3, <1>7, DeltaKeeps
<1>8. CASE m.type = "orderbook_delta" /\ GapRecovered(t, n)
  <2>1. CASE Load(t, Latest(t), n) /\ Stage(t)
    <3>1. CountersTyped'
      BY <2>1, <1>3, <1>8, StageTyped DEF GapRecovered, CountersTyped, TypeOK
    <3>2. QED
      BY <2>1, <3>1, <1>1, <1>3, <1>4, LoadKeeps
  <2>2. CASE LoadYesOnly(t, Latest(t)) /\ Unstaged(t)
    <3>1. CountersTyped'
      BY <2>2, <1>3, <1>8, StageTyped DEF GapRecovered, CountersTyped, TypeOK
    <3>2. QED
      BY <2>2, <3>1, <1>1, <1>3, <1>4, LoadYesOnlyKeeps
  <2>3. QED
    BY <1>8, <2>1, <2>2 DEF GapRecovered
<1>9. QED
  BY <1>5, <1>6, <1>7, <1>8 DEF Receive

-----------------------------------------------------------------------------
(* The inductive invariant *)

LEMMA InitInv == Init => Inv
<1>1. Init => DriftConfined
  BY DEF Init, DriftConfined, LevelRight, NewBook
<1>2. QED
  BY <1>1, InitFacts DEF Inv, Facts

LEMMA NextInv == Inv /\ [Next]_vars => Inv'
<1> SUFFICES ASSUME Inv, [Next]_vars PROVE Inv'
  OBVIOUS
<1>1. TypeOK /\ WirePublished /\ BooksPublished /\ DriftConfined
  BY DEF Inv
<1>2. ASSUME NEW t \in Tickers, ExchangeUpdate(t) PROVE Inv'
  <2>1. /\ truth' \in [Tickers -> Seq(Levels)]
        /\ \A u \in Tickers :
             /\ Latest(u) \in Nat /\ Latest(u)' \in Nat
             /\ Latest(u) <= Latest(u)'
             /\ \A n \in 0..Latest(u) : BookAt(u, n)' = BookAt(u, n)
        /\ Latest(t)' = Latest(t) + 1
    BY <1>1, <1>2, UpdateAppends
  <2>2. UNCHANGED <<connected, books, deltasApplied, faults, origin, unstaged, stageFailures>>
    BY <1>2 DEF ExchangeUpdate
  <2>3. PICK d : d = Delta(t, Latest(t) + 1)
    OBVIOUS
  <2>4. d \in Messages /\ Published(d)'
    BY <2>1, <2>3 DEF Delta, Messages, Published
  <2>5. wire \in Seq(Messages) /\ wire' \in {wire, Append(wire, d)}
    BY <1>1, <1>2, <2>3 DEF ExchangeUpdate, TypeOK
  <2>6. \A k \in Messages : Published(k) => Published(k)'
    BY <2>1 DEF Published, Messages
  <2>7. wire' \in Seq(Messages) /\ WirePublished'
    <3>1. \A i \in 1..Len(wire) : wire[i] \in Messages /\ Published(wire[i])
      BY <1>1, <2>5 DEF WirePublished
    <3>2. CASE wire' = wire
      BY <3>1, <3>2, <2>5, <2>6 DEF WirePublished
    <3>3. CASE wire' = Append(wire, d)
      <4>1. wire' \in Seq(Messages) /\ Len(wire') = Len(wire) + 1 /\ Len(wire) \in Nat
        BY <3>3, <2>4, <2>5
      <4>2. \A i \in 1..Len(wire') : wire'[i] = IF i <= Len(wire) THEN wire[i] ELSE d
        BY <3>3, <4>1, <2>5
      <4>3. QED
        BY <3>1, <4>1, <4>2, <2>4, <2>6 DEF WirePublished
    <3>4. QED
      BY <3>2, <3>3, <2>5
  <2>8. TypeOK'
    <3>1. \A u \in Tickers : Len(truth'[u]) > 0
      BY <2>1 DEF Latest
    <3>2. QED
      BY <2>1, <2>2, <2>7, <3>1, <1>1 DEF TypeOK
  <2>9. BooksPublished'
    <3> SUFFICES ASSUME NEW u \in Tickers
                 PROVE  /\ books[u].sequence <= Latest(u)'
                        /\ \A x \in Sides : /\ origin[u][x].sequence <= Latest(u)'
                                            /\ origin[u][x].update <= Latest(u)'
      BY <2>2 DEF BooksPublished
    <3>1. /\ books[u].sequence \in Int
          /\ \A x \in Sides : origin[u][x].sequence \in Int /\ origin[u][x].update \in Int
      BY <1>1 DEF TypeOK, NoSequence
    <3>2. QED
      BY <3>1, <2>1, <1>1 DEF BooksPublished
  <2>10. DriftConfined'
    <3> SUFFICES ASSUME NEW u \in Tickers, NEW x \in Sides, NEW p \in Prices
                 PROVE  LevelRight(u, x, p)'
      BY DEF DriftConfined
    <3> DEFINE s == books[u].sequence
               o == origin[u][x]
    <3>1. LevelRight(u, x, p)
      BY <1>1 DEF DriftConfined
    <3>2. /\ s \in Nat \cup {NoSequence} /\ s <= Latest(u)
          /\ o.sequence \in Nat \cup {NoSequence} /\ o.sequence <= Latest(u)
          /\ o.update \in Nat /\ o.update <= Latest(u)
          /\ Latest(u) \in Nat
      BY <1>1, <2>1 DEF BooksPublished, TypeOK
    <3> HIDE DEF s, o
    <3>3. ASSUME s # NoSequence, o.sequence # NoSequence
          PROVE  /\ s \in 0..Latest(u) /\ o.sequence \in 0..Latest(u)
                 /\ (o.sequence..o.update) \cup (o.update..o.sequence) \subseteq 0..Latest(u)
      BY <3>2, <3>3
    <3>4. \A n \in 0..Latest(u) : BookAt(u, n)' = BookAt(u, n)
      BY <2>1
    <3>5. QED
      BY <2>2, <3>1, <3>3, <3>4 DEF LevelRight, Steady, s, o
  <2>11. QED
    BY <2>7, <2>8, <2>9, <2>10 DEF Inv
<1>3. ASSUME Lose \/ Repeat \/ Delay PROVE Inv'
  <2>1. /\ wire # <<>> /\ faults < MaxFaults /\ faults' = faults + 1
        /\ UNCHANGED <<truth, connected, books, deltasApplied, origin, unstaged, stageFailures>>
        /\ \/ wire' = Tail(wire)
           \/ wire' = Append(wire, Head(wire))
           \/ wire' = Append(Tail(wire), Head(wire))
    BY <1>3 DEF Lose, Repeat, Delay, WireVarsUnchanged
  <2>2. wire' \in Seq(Messages) /\ WirePublished'
    BY <1>1, <2>1, WireMoves
  <2>3. faults' \in 0..MaxFaults
    BY <1>1, <2>1, StreamAssumption DEF TypeOK
  <2>4. TypeOK'
    BY <1>1, <2>1, <2>2, <2>3 DEF TypeOK
  <2>5. BooksPublished' /\ DriftConfined'
    BY <1>1, <2>1 DEF BooksPublished, DriftConfined, LevelRight, Steady, BookAt, Latest
  <2>6. QED
    BY <2>2, <2>4, <2>5 DEF Inv
<1>4. ASSUME Connect PROVE Inv'
  <2>1. Cardinality(Tickers) \in Nat
    BY FS_CardinalityType, StreamAssumption
  <2>2. PICK order \in [1..Cardinality(Tickers) -> Tickers] :
          wire' = [i \in 1..Cardinality(Tickers) |-> Snapshot(order[i], Latest(order[i]))]
    BY <1>4 DEF Connect
  <2>3. \A i \in 1..Cardinality(Tickers) :
          /\ wire'[i] = Snapshot(order[i], Latest(order[i]))
          /\ order[i] \in Tickers /\ Latest(order[i]) \in Nat
    BY <2>2, <1>1, LatestIsNat
  <2>4. \A i \in 1..Cardinality(Tickers) : wire'[i] \in Messages
    <3>1. \A t \in Tickers, k \in Nat : Snapshot(t, k) \in Messages
      BY DEF Snapshot, Messages
    <3>2. QED
      BY <2>3, <3>1
  <2>5. wire' \in Seq(Messages) /\ Len(wire') = Cardinality(Tickers)
    BY <2>1, <2>2, <2>4
  <2>6. UNCHANGED <<truth, faults>>
    BY <1>4 DEF Connect
  <2>7. WirePublished'
    BY <2>3, <2>5, <2>6 DEF WirePublished, Published, Snapshot, Latest
  <2>8. /\ books' = [t \in Tickers |-> NewBook]
        /\ origin' = [t \in Tickers |-> [x \in Sides |-> [sequence |-> NoSequence, update |-> 0]]]
        /\ connected' = TRUE /\ deltasApplied' = 0
        /\ unstaged' = [t \in Tickers |-> 0] /\ stageFailures' = [t \in Tickers |-> 0]
    BY <1>4 DEF Connect
  <2>9. NewBook \in [levels : [Sides -> [Prices -> Nat]], sequence : Nat \cup {NoSequence}]
    BY DEF NewBook, NoLevels
  <2>10. BooksTyped' /\ CountersTyped'
    BY <2>8, <2>9 DEF BooksTyped, CountersTyped
  <2>11. TypeOK'
    BY <2>5, <2>6, <2>8, <2>10, <1>1 DEF TypeOK, BooksTyped, CountersTyped
  <2>12. BooksPublished'
    <3>1. \A t \in Tickers : Latest(t)' \in Nat
      BY <2>11, <2>6, <1>1, LatestIsNat DEF Latest
    <3>2. QED
      BY <3>1, <2>8 DEF BooksPublished, NewBook, NoSequence
  <2>13. DriftConfined'
    BY <2>8 DEF DriftConfined, LevelRight, NewBook
  <2>14. QED
    BY <2>7, <2>11, <2>12, <2>13 DEF Inv
<1>5. ASSUME EndRun PROVE Inv'
  <2>1. /\ connected' = FALSE /\ wire' = <<>>
        /\ UNCHANGED <<truth, books, deltasApplied, faults, origin, unstaged, stageFailures>>
    BY <1>5 DEF EndRun
  <2>2. wire' \in Seq(Messages) /\ Len(wire') = 0
    BY <2>1
  <2>3. TypeOK' /\ WirePublished'
    <3>1. WirePublished'
      BY <2>2 DEF WirePublished
    <3>2. connected' \in BOOLEAN /\ faults' \in 0..MaxFaults
      BY <1>1, <2>1 DEF TypeOK
    <3>3. QED
      BY <1>1, <2>1, <2>2, <3>1, <3>2 DEF TypeOK
  <2>4. BooksPublished' /\ DriftConfined'
    BY <1>1, <2>1 DEF BooksPublished, DriftConfined, LevelRight, Steady, BookAt, Latest
  <2>5. QED
    BY <2>3, <2>4 DEF Inv
<1>6. ASSUME Receive PROVE Inv'
  <2>1. BooksTyped' /\ BooksPublished' /\ CountersTyped' /\ DriftConfined'
    BY <1>1, <1>6, ReceiveKeeps
  <2>2. wire # <<>> /\ wire' = Tail(wire) /\ UNCHANGED <<truth, connected, faults>>
    BY <1>6 DEF Receive
  <2>3. wire' \in Seq(Messages) /\ WirePublished'
    BY <1>1, <2>2, WireMoves
  <2>4. TypeOK'
    BY <1>1, <2>1, <2>2, <2>3 DEF TypeOK, BooksTyped, CountersTyped
  <2>5. QED
    BY <2>1, <2>3, <2>4 DEF Inv
<1>7. ASSUME UNCHANGED vars PROVE Inv'
  <2>1. TypeOK'
    BY <1>1, <1>7 DEF vars, TypeOK
  <2>2. WirePublished'
    BY <1>1, <1>7 DEF vars, WirePublished, Published, Latest
  <2>3. BooksPublished'
    BY <1>1, <1>7 DEF vars, BooksPublished, Latest
  <2>4. DriftConfined'
    BY <1>1, <1>7 DEF vars, DriftConfined, LevelRight, Steady, BookAt, Latest
  <2>5. QED
    BY <2>1, <2>2, <2>3, <2>4 DEF Inv
<1>8. QED
  BY <1>2, <1>3, <1>4, <1>5, <1>6, <1>7 DEF Next

-----------------------------------------------------------------------------
(* The theorems *)

\* Whatever the wire, REST and the exchange do, in any number of tickers, prices and
\* updates, the adapter's books keep their types: no level goes negative.
THEOREM TypeCorrect == Spec => []TypeOK
<1>1. Inv => TypeOK
  BY DEF Inv
<1>2. QED
  BY <1>1, InitInv, NextInv, PTL DEF Spec

\* A numbered local book differs from the exchange's book of that number only in
\* levels the exchange changed between a REST read's number and what it showed.
THEOREM BooksDriftOnlyFromRest == Spec => []DriftConfined
<1>1. Inv => DriftConfined
  BY DEF Inv
<1>2. QED
  BY <1>1, InitInv, NextInv, PTL DEF Spec

-----------------------------------------------------------------------------
(* Checkpoints *)

LEMMA Division ==
  ASSUME NEW P \in Nat \ {0}, NEW d \in Nat
  PROVE  d % P \in 0..(P - 1) /\ d \div P \in Nat /\ d = P * (d \div P) + (d % P)
  OBVIOUS

LEMMA TimesGrows ==
  ASSUME NEW P \in Nat \ {0}, NEW a \in Nat, NEW b \in Nat, a < b
  PROVE  P * a + P <= P * b
<1>1. PICK k \in Nat : b = a + 1 + k
  <2>1. b - a - 1 \in Nat /\ b = a + 1 + (b - a - 1)
    OBVIOUS
  <2>. QED
    BY <2>1
<1>2. P * k >= 0 /\ P * (a + 1 + k) = P * a + P + P * k
  OBVIOUS
<1>. QED
  BY <1>1, <1>2

\* One more delta brings the next checkpoint one nearer.
LEMMA CountsUp ==
  ASSUME NEW P \in Nat \ {0}, NEW d \in Nat
  PROVE  IF (d + 1) % P = 0 THEN d % P = P - 1 ELSE (d + 1) % P = (d % P) + 1
<1>. DEFINE a == d \div P
            r == d % P
            b == (d + 1) \div P
            s == (d + 1) % P
<1>1. r \in 0..(P - 1) /\ a \in Nat /\ d = P * a + r
  BY Division
<1>2. s \in 0..(P - 1) /\ b \in Nat /\ d + 1 = P * b + s
  <2>1. d + 1 \in Nat
    OBVIOUS
  <2>. QED
    BY <2>1, Division
<1>. HIDE DEF a, b, r, s
<1>3. P * a \in Nat /\ P * b \in Nat
  BY <1>1, <1>2
<1>4. CASE b < a
  <2>1. P * b + P <= P * a
    BY <1>1, <1>2, <1>4, TimesGrows
  <2>. QED
    BY <1>1, <1>2, <1>3, <2>1
<1>5. CASE a < b
  <2>1. P * a + P <= P * b
    BY <1>1, <1>2, <1>5, TimesGrows
  <2>2. s = 0 /\ r = P - 1
    BY <1>1, <1>2, <1>3, <2>1
  <2>. QED
    BY <2>2 DEF s, r
<1>6. CASE a = b
  <2>1. s = r + 1 /\ s # 0
    BY <1>1, <1>2, <1>3, <1>6
  <2>. QED
    BY <2>1 DEF s, r
<1>. QED
  BY <1>1, <1>2, <1>4, <1>5, <1>6

\* u changes are not in the file, f of them raised, d deltas were counted.
Behind(u, f, d) == u <= PersistEvery * f + (d % PersistEvery)

LEMMA BehindFacts ==
  ASSUME NEW u \in Nat, NEW f \in Nat, NEW d \in Nat
  PROVE  /\ Behind(0, 0, d)
         /\ Behind(u, f, d) => Behind(u + 1, f + 1, d)
         /\ Behind(u, f, d) => u < PersistEvery * (1 + f)
         /\ Behind(u, f, d) /\ (d + 1) % PersistEvery = 0 => Behind(u + 1, f + 1, d + 1)
         /\ Behind(u, f, d) /\ (d + 1) % PersistEvery # 0 => Behind(u + 1, f, d + 1)
<1>. DEFINE P == PersistEvery
            r == d % P
            s == (d + 1) % P
<1>1. P \in Nat \ {0}
  BY StreamAssumption
<1>2. r \in 0..(P - 1)
  BY <1>1, Division
<1>3. s \in Nat /\ (IF s = 0 THEN r = P - 1 ELSE s = r + 1)
  <2>1. d + 1 \in Nat
    OBVIOUS
  <2>2. s \in 0..(P - 1)
    BY <1>1, <2>1, Division
  <2>3. IF s = 0 THEN r = P - 1 ELSE s = r + 1
    BY <1>1, CountsUp
  <2>. QED
    BY <1>1, <2>2, <2>3
<1>4. P * f \in Nat /\ P * (1 + f) = P * f + P /\ P * (f + 1) = P * f + P
  BY <1>1
<1>5. /\ Behind(0, 0, d) <=> 0 <= P * 0 + r
      /\ Behind(u + 1, f + 1, d) <=> u + 1 <= P * (f + 1) + r
      /\ Behind(u, f, d) <=> u <= P * f + r
      /\ Behind(u + 1, f + 1, d + 1) <=> u + 1 <= P * (f + 1) + s
      /\ Behind(u + 1, f, d + 1) <=> u + 1 <= P * f + s
  BY DEF Behind
<1>. HIDE DEF P, r, s
<1>6. /\ Behind(0, 0, d)
      /\ Behind(u, f, d) => Behind(u + 1, f + 1, d)
      /\ Behind(u, f, d) => u < P * (1 + f)
  BY <1>1, <1>2, <1>4, <1>5
<1>7. Behind(u, f, d) /\ s = 0 => Behind(u + 1, f + 1, d + 1)
  BY <1>1, <1>2, <1>3, <1>4, <1>5
<1>8. Behind(u, f, d) /\ s # 0 => Behind(u + 1, f, d + 1)
  BY <1>1, <1>2, <1>3, <1>4, <1>5
<1>. QED
  BY <1>6, <1>7, <1>8 DEF P, s

\* What has piled up is explained by the handlers that raised and by the count.
Counted == \A t \in Tickers : Behind(unstaged[t], stageFailures[t], deltasApplied)

LEMMA CountedInit == Init => Counted
<1>1. 0 \in Nat
  OBVIOUS
<1>. QED
  BY <1>1, BehindFacts DEF Init, Counted

\* Staging, done or failed: it is enough that the failure is accounted for.
LEMMA StageCounts ==
  ASSUME TypeOK, NEW t \in Tickers, Stage(t) \/ Unstaged(t), NEW d \in Nat,
         Behind(unstaged[t] + 1, stageFailures[t] + 1, d)
  PROVE  Behind(unstaged'[t], stageFailures'[t], d)
<1>1. CASE Unstaged(t)
  <2>1. unstaged'[t] = unstaged[t] + 1 /\ stageFailures'[t] = stageFailures[t] + 1
    BY <1>1 DEF TypeOK, Unstaged
  <2>. QED
    BY <2>1
<1>2. CASE /\ unstaged' = [unstaged EXCEPT ![t] = 0]
           /\ stageFailures' = [stageFailures EXCEPT ![t] = 0]
  <2>1. unstaged'[t] = 0 /\ stageFailures'[t] = 0
    BY <1>2 DEF TypeOK
  <2>2. Behind(0, 0, d)
    <3>1. 0 \in Nat
      OBVIOUS
    <3>. QED
      BY <3>1, BehindFacts
  <2>. QED
    BY <2>1, <2>2
<1>. QED
  BY <1>1, <1>2 DEF Stage

LEMMA CountedReceive ==
  ASSUME TypeOK, Counted, Tickers = {CHOOSE t \in Tickers : TRUE}, Receive
  PROVE  Counted'
<1>. DEFINE m == Head(wire)
<1>1. m \in Messages
  BY DEF Receive, TypeOK
<1>. DEFINE t == m.ticker
<1>2. t \in Tickers /\ \A o \in Tickers : o = t
  BY <1>1 DEF Messages
<1>3. /\ deltasApplied \in Nat /\ deltasApplied + 1 \in Nat
      /\ unstaged[t] \in Nat /\ unstaged[t] + 1 \in Nat
      /\ stageFailures[t] \in Nat /\ 0 \in Nat
      /\ Behind(unstaged[t], stageFailures[t], deltasApplied)
  BY <1>2 DEF TypeOK, Counted
<1>. SUFFICES Behind(unstaged'[t], stageFailures'[t], deltasApplied')
  BY <1>2 DEF Counted
<1>. HIDE DEF m
<1>4. CASE UNCHANGED <<unstaged, stageFailures, deltasApplied>>
  BY <1>3, <1>4
<1>5. CASE (Stage(t) \/ Unstaged(t)) /\ UNCHANGED deltasApplied
  <2>1. Behind(unstaged[t] + 1, stageFailures[t] + 1, deltasApplied)
    BY <1>3, BehindFacts
  <2>2. Behind(unstaged'[t], stageFailures'[t], deltasApplied)
    BY <1>2, <1>3, <1>5, <2>1, StageCounts
  <2>. QED
    BY <1>5, <2>2
<1>6. CASE DeltaApplied(t, m.seq)
  <2>1. CASE Unstaged(t) /\ UNCHANGED deltasApplied
    BY <1>5, <2>1
  <2>2. CASE /\ CheckpointDue(deltasApplied + 1) /\ Stage(t)
             /\ deltasApplied' = deltasApplied + 1
    <3>1. Behind(unstaged[t] + 1, stageFailures[t] + 1, deltasApplied + 1)
      BY <1>3, <2>2, BehindFacts DEF CheckpointDue
    <3>2. Behind(unstaged'[t], stageFailures'[t], deltasApplied + 1)
      BY <1>2, <1>3, <2>2, <3>1, StageCounts
    <3>. QED
      BY <2>2, <3>2
  <2>3. CASE /\ ~CheckpointDue(deltasApplied + 1)
             /\ unstaged' = [unstaged EXCEPT ![t] = @ + 1] /\ UNCHANGED stageFailures
             /\ deltasApplied' = deltasApplied + 1
    <3>1. Behind(unstaged[t] + 1, stageFailures[t], deltasApplied + 1)
      BY <1>3, <2>3, BehindFacts DEF CheckpointDue
    <3>2. unstaged'[t] = unstaged[t] + 1
      BY <1>2, <2>3 DEF TypeOK
    <3>. QED
      BY <2>3, <3>1, <3>2
  <2>. QED
    BY <1>6, <2>1, <2>2, <2>3 DEF DeltaApplied
<1>7. CASE m.type = "orderbook_snapshot" /\ SnapshotArrives(t, m.seq)
  BY <1>4, <1>5, <1>7 DEF SnapshotArrives, Rejected
<1>8. CASE GapRecovered(t, m.seq)
  BY <1>5, <1>8 DEF GapRecovered
<1>9. CASE Rejected
  BY <1>4, <1>9 DEF Rejected
<1>. QED
  BY <1>6, <1>7, <1>8, <1>9 DEF Receive, m

LEMMA CountedStep ==
  ASSUME TypeOK, Counted, Tickers = {CHOOSE t \in Tickers : TRUE}, [Next]_vars
  PROVE  Counted'
<1>1. CASE Receive
  BY <1>1, CountedReceive
<1>2. CASE Connect
  <2>1. \A t \in Tickers : unstaged'[t] = 0 /\ stageFailures'[t] = 0
    BY <1>2 DEF Connect
  <2>2. deltasApplied' = 0
    BY <1>2 DEF Connect
  <2>3. Behind(0, 0, 0)
    BY BehindFacts
  <2>. QED
    BY <2>1, <2>2, <2>3 DEF Counted
<1>3. CASE UNCHANGED <<unstaged, stageFailures, deltasApplied>>
  BY <1>3 DEF Counted
<1>. QED
  BY <1>1, <1>2, <1>3
  DEF Next, vars, ExchangeUpdate, Lose, Repeat, Delay, EndRun, WireVarsUnchanged

\* With one subscribed ticker the last file of a run misses fewer changes of the book
\* than the checkpoint interval times one plus the handlers that raised since, for any
\* interval, any losses of the wire and any failures of REST and of the disk.
THEOREM CheckpointsBoundLag == Spec => []CheckpointBound
<1>1. CASE Cardinality(Tickers) = 1
  <2>1. Tickers = {CHOOSE t \in Tickers : TRUE}
    <3>1. PICK t : Tickers = {t}
      BY <1>1, FS_Singleton, StreamAssumption
    <3>. QED
      BY <3>1
  <2>2. TypeOK /\ Counted /\ [Next]_vars => Counted'
    BY <2>1, CountedStep
  <2>3. TypeOK /\ Counted => CheckpointBound
    <3>. SUFFICES ASSUME TypeOK, Counted, NEW t \in Tickers
                  PROVE  unstaged[t] < PersistEvery * (1 + stageFailures[t])
      BY DEF CheckpointBound
    <3>1. /\ unstaged[t] \in Nat /\ stageFailures[t] \in Nat /\ deltasApplied \in Nat
          /\ Behind(unstaged[t], stageFailures[t], deltasApplied)
      BY DEF TypeOK, Counted
    <3>. QED
      BY <3>1, BehindFacts
  <2>. QED
    BY <2>2, <2>3, CountedInit, TypeCorrect, PTL DEF Spec
<1>2. CASE Cardinality(Tickers) # 1
  <2>1. CheckpointBound
    BY <1>2 DEF CheckpointBound
  <2>. QED
    BY <2>1, PTL
<1>. QED
  BY <1>1, <1>2

=============================================================================
