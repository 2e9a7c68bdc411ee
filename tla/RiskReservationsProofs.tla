------------------------ MODULE RiskReservationsProofs ------------------------
(***************************************************************************)
(* On both databases, with any number of runs, resets and kept old         *)
(* reservations: an order leaves no reserved risk behind, so the risk of a *)
(* forecast is counted once; and a reservation that is committed changes   *)
(* only when its order spends it.  On SQLite, where one session at a time  *)
(* writes: the open risk stays within its limit, but for what orders on    *)
(* old reservations bring.                                                 *)
(***************************************************************************)
EXTENDS RiskReservations, FiniteSums, TLAPS

USE RiskAssumption

\* What an uncommitted order used is spent.
Spent == \A s \in Runs : \A f \in mine[s].ordered : mine[s].row[f].status = "filled"

\* A session reserves only an intent that nobody has reserved yet, and stays
\* the only one with it.
Fresh == \A s \in Runs, f \in Forecasts : mine[s].row[f].status = "reserved" => row[f] = NoRow

Alone == \A s, o \in Runs, f \in Forecasts :
  s # o /\ mine[s].row[f] # NoRow /\ mine[o].row[f] # NoRow => row[f] # NoRow

\* What a run has kept has its reservation.
Backed == \A s \in Runs, f \in Forecasts : kept[s][f] > 0 => SeenRow(s, f) # NoRow

IInv == TypeOK /\ CountedOnce /\ Spent /\ Fresh /\ Alone /\ Backed

-----------------------------------------------------------------------------
(* The parts of a step *)

LEMMA NoRowTyped ==
  /\ NoRow \in Reservations /\ NoRow.status = "none"
  /\ Clean \in Writes /\ NothingKept \in [Forecasts -> Nat]
  /\ \A q \in Nat \ {0} : [status |-> "reserved", risk |-> q] \in Reservations
  BY DEF NoRow, Reservations, Clean, Writes, NothingKept

LEMMA RowsTyped ==
  ASSUME TypeOK, NEW s \in Runs, NEW f \in Forecasts
  PROVE  /\ mine[s] \in Writes
         /\ mine[s].row[f] \in Reservations /\ row[f] \in Reservations
         /\ SeenRow(s, f) \in Reservations
  BY DEF TypeOK, Writes, SeenRow

LEMMA CountedTyped ==
  ASSUME TypeOK, NEW s \in Runs, NEW f \in Forecasts
  PROVE  Counted(s, f) \in Nat
<1>1. SeenRow(s, f) \in Reservations
  BY RowsTyped
<1>2. \A r \in Reservations : r.risk \in Nat
  BY DEF Reservations, NoRow
<1>. QED
  BY <1>1, <1>2 DEF Counted

LEMMA CountedTypedNext ==
  ASSUME TypeOK', NEW s \in Runs, NEW f \in Forecasts
  PROVE  Counted(s, f)' \in Nat
<1>1. SeenRow(s, f)' \in Reservations
  BY DEF TypeOK, Writes, SeenRow
<1>2. \A r \in Reservations : r.risk \in Nat
  BY DEF Reservations, NoRow
<1>. QED
  BY <1>1, <1>2 DEF Counted

\* A sizing that reserves adds one row to what its session has written.
LEMMA ReservedRows ==
  ASSUME TypeOK, NEW s \in Runs, NEW f \in Forecasts, NEW q \in Nat, mine' = Reserved(s, f, q)
  PROVE  /\ mine' \in [Runs -> Writes]
         /\ \A o \in Runs : mine'[o].ordered = mine[o].ordered
         /\ \A o \in Runs, g \in Forecasts : o # s \/ g # f => mine'[o].row[g] = mine[o].row[g]
         /\ mine'[s].row[f] # mine[s].row[f] =>
              /\ SeenRow(s, f) = NoRow /\ mine'[s].row[f].status = "reserved"
         /\ q > 0 /\ SeenRow(s, f) = NoRow => mine'[s].row[f] # NoRow
<1>. DEFINE new == [status |-> "reserved", risk |-> q]
<1>1. CASE q > 0 /\ SeenRow(s, f) = NoRow
  <2>1. mine' = [mine EXCEPT ![s].row[f] = new]
    BY <1>1 DEF Reserved, Reserves
  <2>2. new \in Reservations /\ new # NoRow /\ new.status = "reserved"
    BY <1>1, NoRowTyped DEF NoRow
  <2>3. mine \in [Runs -> Writes]
    BY DEF TypeOK
  <2>4. mine' = [mine EXCEPT ![s] = [mine[s] EXCEPT !.row = [mine[s].row EXCEPT ![f] = new]]]
    BY <2>1
  <2>5. [mine[s] EXCEPT !.row = [mine[s].row EXCEPT ![f] = new]] \in Writes
    BY <2>2, <2>3 DEF Writes
  <2>6. mine' \in [Runs -> Writes] /\ \A o \in Runs \ {s} : mine'[o] = mine[o]
    BY <2>3, <2>4, <2>5
  <2>7. mine'[s] = [mine[s] EXCEPT !.row = [mine[s].row EXCEPT ![f] = new]]
    BY <2>3, <2>4
  <2>8. /\ mine'[s].ordered = mine[s].ordered
        /\ mine'[s].row = [mine[s].row EXCEPT ![f] = new]
        /\ mine[s].row \in [Forecasts -> Reservations]
    BY <2>3, <2>7 DEF Writes
  <2>. QED
    BY <1>1, <2>2, <2>6, <2>8
<1>2. CASE ~(q > 0 /\ SeenRow(s, f) = NoRow)
  BY <1>2 DEF Reserved, Reserves, TypeOK
<1>. QED
  BY <1>1, <1>2

\* An order spends the row its session sees.
LEMMA OrderRows ==
  ASSUME TypeOK, Backed, NEW s \in Runs, NEW f \in Forecasts, Order(s, f)
  PROVE  /\ mine' \in [Runs -> Writes]
         /\ \A o \in Runs : o # s => mine'[o] = mine[o]
         /\ mine'[s].ordered = mine[s].ordered \cup {f}
         /\ mine'[s].row[f].status = "filled" /\ mine'[s].row[f] # NoRow
         /\ \A g \in Forecasts : g # f => mine'[s].row[g] = mine[s].row[g]
<1>. DEFINE q == kept[s][f]
            over == IF q > Counted(s, f) THEN q - Counted(s, f) ELSE 0
            new == [row |-> [mine[s].row EXCEPT ![f] = Spends(s, f)],
                    exposure |-> mine[s].exposure + q,
                    ordered |-> mine[s].ordered \cup {f},
                    excess |-> mine[s].excess + over]
<1>1. q \in Nat /\ q > 0
  BY DEF TypeOK, Order
<1>2. over \in Nat
  BY <1>1, CountedTyped
<1>3. SeenRow(s, f) # NoRow /\ SeenRow(s, f) \in Reservations
  BY <1>1, RowsTyped DEF Backed
<1>4. Spends(s, f) \in Reservations /\ Spends(s, f).status = "filled" /\ Spends(s, f) # NoRow
  BY <1>3 DEF Spends, Reservations, NoRow
<1>5. mine' = [mine EXCEPT ![s] = new]
  BY DEF Order
<1>6. mine \in [Runs -> Writes] /\ mine[s] \in Writes
  BY DEF TypeOK
<1>7. new \in Writes
  BY <1>1, <1>2, <1>4, <1>6 DEF Writes
<1>8. mine' \in [Runs -> Writes] /\ mine'[s] = new /\ \A o \in Runs : o # s => mine'[o] = mine[o]
  BY <1>5, <1>6, <1>7
<1>9. new.row[f] = Spends(s, f) /\ \A g \in Forecasts : g # f => new.row[g] = mine[s].row[g]
  BY <1>6 DEF Writes
<1>. QED
  BY <1>4, <1>8, <1>9

\* A run that ends has written and kept nothing.
LEMMA LeavesRows ==
  ASSUME TypeOK, NEW s \in Runs, Leaves(s)
  PROVE  /\ mine' \in [Runs -> Writes] /\ kept' \in [Runs -> [Forecasts -> Nat]]
         /\ pc' \in [Runs -> {"idle", "size", "order"}] /\ left' \in [Runs -> SUBSET Forecasts]
         /\ mine'[s].ordered = {} /\ \A f \in Forecasts : mine'[s].row[f] = NoRow /\ kept'[s][f] = 0
         /\ \A o \in Runs : o # s => mine'[o] = mine[o] /\ kept'[o] = kept[o]
<1>1. mine' = [mine EXCEPT ![s] = Clean] /\ kept' = [kept EXCEPT ![s] = NothingKept]
  BY DEF Leaves
<1>2. mine' \in [Runs -> Writes] /\ kept' \in [Runs -> [Forecasts -> Nat]]
  BY <1>1, NoRowTyped DEF TypeOK
<1>3. mine'[s] = Clean /\ kept'[s] = NothingKept
       /\ \A o \in Runs : o # s => mine'[o] = mine[o] /\ kept'[o] = kept[o]
  BY <1>1 DEF TypeOK
<1>4. Clean.ordered = {} /\ \A f \in Forecasts : Clean.row[f] = NoRow /\ NothingKept[f] = 0
  BY DEF Clean, NothingKept
<1>5. pc' \in [Runs -> {"idle", "size", "order"}] /\ left' \in [Runs -> SUBSET Forecasts]
  BY DEF TypeOK, Leaves
<1>. QED
  BY <1>2, <1>3, <1>4, <1>5

-----------------------------------------------------------------------------
(* The steps *)

LEMMA InitInv == Init => IInv
<1>. SUFFICES ASSUME Init PROVE IInv
  OBVIOUS
<1>1. TypeOK
  BY NoRowTyped DEF Init, TypeOK
<1>2. \A s \in Runs : mine[s] = Clean /\ kept[s] = NothingKept
  BY DEF Init
<1>3. Clean.ordered = {} /\ \A f \in Forecasts : Clean.row[f] = NoRow /\ NothingKept[f] = 0
  BY DEF Clean, NothingKept
<1>. QED
  BY <1>1, <1>2, <1>3, NoRowTyped DEF Init, IInv, CountedOnce, Spent, Fresh, Alone, Backed

LEMMA SizeKeeps ==
  ASSUME IInv, NEW s \in Runs, NEW f \in Forecasts, Size(s, f)
  PROVE  IInv'
<1>1. PICK q \in Quantities \cup {0}, keeps \in BOOLEAN :
        mine' = Reserved(s, f, q) /\ kept' = [kept EXCEPT ![s][f] = IF keeps THEN q ELSE 0]
  BY DEF Size
<1>2. q \in Nat
  OBVIOUS
<1>3. TypeOK
  BY DEF IInv
<1>4. /\ mine' \in [Runs -> Writes]
      /\ \A o \in Runs : mine'[o].ordered = mine[o].ordered
      /\ \A o \in Runs, g \in Forecasts : o # s \/ g # f => mine'[o].row[g] = mine[o].row[g]
      /\ mine'[s].row[f] # mine[s].row[f] =>
           SeenRow(s, f) = NoRow /\ mine'[s].row[f].status = "reserved"
      /\ q > 0 /\ SeenRow(s, f) = NoRow => mine'[s].row[f] # NoRow
  BY <1>1, <1>2, <1>3, ReservedRows
<1>5. /\ kept' \in [Runs -> [Forecasts -> Nat]]
      /\ kept'[s][f] > 0 => q > 0
      /\ \A o \in Runs, g \in Forecasts : o # s \/ g # f => kept'[o][g] = kept[o][g]
  BY <1>1, <1>2, <1>3 DEF TypeOK
<1>6. row' = row /\ exposure' = exposure /\ ordered' = ordered /\ excess' = excess
      /\ pc' = pc /\ sessions' = sessions /\ resets' = resets
      /\ left' \in [Runs -> SUBSET Forecasts]
  BY <1>3 DEF Size, committed, counters, TypeOK
<1>7. mine'[s].row[f] # mine[s].row[f] => mine[s].row[f] = NoRow /\ row[f] = NoRow
  BY <1>4 DEF SeenRow
<1>8. TypeOK'
  BY <1>3, <1>4, <1>5, <1>6 DEF TypeOK
<1>9. CountedOnce'
  BY <1>6 DEF IInv, CountedOnce
<1>10. Spent'
  <2>. SUFFICES ASSUME NEW o \in Runs, NEW g \in mine'[o].ordered
                PROVE  mine'[o].row[g].status = "filled"
    BY DEF Spent
  <2>1. g \in Forecasts /\ mine[o].row[g].status = "filled"
    BY <1>3, <1>4 DEF IInv, Spent, TypeOK, Writes
  <2>2. mine[o].row[g] # NoRow
    BY <2>1, NoRowTyped
  <2>. QED
    BY <1>4, <1>7, <2>1, <2>2
<1>11. Fresh'
  BY <1>4, <1>6, <1>7 DEF IInv, Fresh
<1>12. mine'[s].row[f] # mine[s].row[f] => \A o \in Runs : o # s => mine'[o].row[f] = NoRow
  BY <1>4, <1>7 DEF Size, IntentFree
<1>13. Alone'
  BY <1>4, <1>6, <1>12 DEF IInv, Alone
<1>14. Backed'
  <2>. SUFFICES ASSUME NEW o \in Runs, NEW g \in Forecasts, kept'[o][g] > 0
                PROVE  SeenRow(o, g)' # NoRow
    BY DEF Backed
  <2>1. CASE o = s /\ g = f
    BY <1>4, <1>5, <1>6, <2>1 DEF SeenRow
  <2>2. CASE o # s \/ g # f
    BY <1>4, <1>5, <1>6, <2>2 DEF IInv, Backed, SeenRow
  <2>. QED
    BY <2>1, <2>2
<1>. QED
  BY <1>8, <1>9, <1>10, <1>11, <1>13, <1>14 DEF IInv

LEMMA OrderKeeps ==
  ASSUME IInv, NEW s \in Runs, NEW f \in Forecasts, Order(s, f)
  PROVE  IInv'
<1>1. TypeOK /\ Backed
  BY DEF IInv
<1>2. /\ mine' \in [Runs -> Writes]
      /\ \A o \in Runs : o # s => mine'[o] = mine[o]
      /\ mine'[s].ordered = mine[s].ordered \cup {f}
      /\ mine'[s].row[f].status = "filled" /\ mine'[s].row[f] # NoRow
      /\ \A g \in Forecasts : g # f => mine'[s].row[g] = mine[s].row[g]
  BY <1>1, OrderRows
<1>3. /\ kept' \in [Runs -> [Forecasts -> Nat]]
      /\ \A o \in Runs, g \in Forecasts : kept'[o][g] > 0 => kept[o][g] > 0
  BY <1>1 DEF Order, TypeOK
<1>4. row' = row /\ exposure' = exposure /\ ordered' = ordered /\ excess' = excess
      /\ pc' = pc /\ sessions' = sessions /\ resets' = resets /\ left' = left
  BY DEF Order, committed, counters
<1>5. mine[s].row[f] # NoRow \/ row[f] # NoRow
  BY <1>1 DEF Order, Backed, SeenRow
<1>6. TypeOK'
  BY <1>1, <1>2, <1>3, <1>4 DEF TypeOK
<1>7. CountedOnce'
  BY <1>4 DEF IInv, CountedOnce
<1>8. Spent'
  <2>. SUFFICES ASSUME NEW o \in Runs, NEW g \in mine'[o].ordered
                PROVE  mine'[o].row[g].status = "filled"
    BY DEF Spent
  <2>1. g \in Forecasts
    BY <1>2 DEF Writes
  <2>2. CASE o = s /\ g = f
    BY <1>2, <2>2
  <2>3. CASE o # s \/ g # f
    <3>1. g \in mine[o].ordered /\ mine'[o].row[g] = mine[o].row[g]
      BY <1>2, <2>1, <2>3
    <3>. QED
      BY <3>1 DEF IInv, Spent
  <2>. QED
    BY <2>2, <2>3
<1>9. Fresh'
  BY <1>2, <1>4 DEF IInv, Fresh
<1>10. Alone'
  BY <1>2, <1>4, <1>5 DEF IInv, Alone
<1>11. Backed'
  BY <1>2, <1>3, <1>4 DEF IInv, Backed, SeenRow
<1>. QED
  BY <1>6, <1>7, <1>8, <1>9, <1>10, <1>11 DEF IInv

LEMMA CommitKeeps ==
  ASSUME IInv, NEW s \in Runs, Commit(s)
  PROVE  IInv'
<1>1. TypeOK /\ Leaves(s)
  BY DEF IInv, Commit
<1>2. /\ mine' \in [Runs -> Writes] /\ kept' \in [Runs -> [Forecasts -> Nat]]
      /\ pc' \in [Runs -> {"idle", "size", "order"}] /\ left' \in [Runs -> SUBSET Forecasts]
      /\ mine'[s].ordered = {} /\ \A f \in Forecasts : mine'[s].row[f] = NoRow /\ kept'[s][f] = 0
      /\ \A o \in Runs : o # s => mine'[o] = mine[o] /\ kept'[o] = kept[o]
  BY <1>1, LeavesRows
<1>3. row' = [f \in Forecasts |-> SeenRow(s, f)]
  BY DEF Commit
<1>4. \A f \in Forecasts : row'[f] = IF mine[s].row[f] # NoRow THEN mine[s].row[f] ELSE row[f]
  BY <1>3 DEF SeenRow
<1>5. \A f \in Forecasts : row[f] # NoRow => row'[f] # NoRow
  BY <1>4
<1>6. mine[s] \in Writes /\ ordered' = ordered \cup mine[s].ordered
  BY <1>1 DEF Commit, SeenOrdered, TypeOK
<1>7. TypeOK'
  <2>1. row' \in [Forecasts -> Reservations]
    BY <1>1, <1>3, RowsTyped
  <2>2. exposure' \in Nat /\ excess' \in Nat /\ sessions' \in Nat /\ resets' \in Nat
    BY <1>1, <1>6 DEF Commit, OpenRisk, counters, TypeOK, Writes
  <2>3. ordered' \in SUBSET Forecasts
    BY <1>1, <1>6 DEF TypeOK, Writes
  <2>. QED
    BY <1>2, <2>1, <2>2, <2>3 DEF TypeOK
<1>8. CountedOnce'
  <2>. SUFFICES ASSUME NEW f \in ordered' PROVE row'[f].status = "filled"
    BY DEF CountedOnce
  <2>1. f \in Forecasts
    BY <1>7 DEF TypeOK
  <2>2. CASE f \in mine[s].ordered
    <3>1. mine[s].row[f].status = "filled"
      BY <2>2 DEF IInv, Spent
    <3>. QED
      BY <1>4, <2>1, <3>1, NoRowTyped
  <2>3. CASE f \in ordered
    <3>1. row[f].status = "filled"
      BY <2>3 DEF IInv, CountedOnce
    <3>2. mine[s].row[f].status # "reserved"
      BY <2>1, <3>1, NoRowTyped DEF IInv, Fresh
    <3>3. mine[s].row[f] = NoRow \/ mine[s].row[f].status = "filled"
      BY <1>1, <2>1, <3>2, RowsTyped DEF Reservations
    <3>. QED
      BY <1>4, <2>1, <3>1, <3>3
  <2>. QED
    BY <1>6, <2>2, <2>3
<1>9. Spent'
  BY <1>2 DEF IInv, Spent
<1>10. Fresh'
  <2>. SUFFICES ASSUME NEW o \in Runs, NEW f \in Forecasts, mine'[o].row[f].status = "reserved"
                PROVE  row'[f] = NoRow
    BY DEF Fresh
  <2>1. o # s /\ mine'[o] = mine[o]
    BY <1>2, NoRowTyped
  <2>2. row[f] = NoRow
    BY <2>1 DEF IInv, Fresh
  <2>3. mine[s].row[f] = NoRow
    BY <2>1, <2>2, NoRowTyped DEF IInv, Alone
  <2>. QED
    BY <1>4, <2>2, <2>3
<1>11. Alone'
  <2>. SUFFICES ASSUME NEW o \in Runs, NEW u \in Runs, NEW f \in Forecasts, o # u,
                       mine'[o].row[f] # NoRow, mine'[u].row[f] # NoRow
                PROVE  row'[f] # NoRow
    BY DEF Alone
  <2>1. mine'[o] = mine[o] /\ mine'[u] = mine[u]
    BY <1>2
  <2>2. row[f] # NoRow
    BY <2>1 DEF IInv, Alone
  <2>. QED
    BY <1>5, <2>2
<1>12. Backed'
  <2>. SUFFICES ASSUME NEW o \in Runs, NEW f \in Forecasts, kept'[o][f] > 0
                PROVE  SeenRow(o, f)' # NoRow
    BY DEF Backed
  <2>1. o # s /\ mine'[o] = mine[o] /\ kept'[o] = kept[o]
    BY <1>2
  <2>2. SeenRow(o, f) # NoRow
    BY <2>1 DEF IInv, Backed
  <2>. QED
    BY <1>5, <2>1, <2>2 DEF SeenRow
<1>. QED
  BY <1>7, <1>8, <1>9, <1>10, <1>11, <1>12 DEF IInv

LEMMA RollbackKeeps ==
  ASSUME IInv, NEW s \in Runs, Rollback(s)
  PROVE  IInv'
<1>1. TypeOK /\ Leaves(s)
  BY DEF IInv, Rollback
<1>2. /\ mine' \in [Runs -> Writes] /\ kept' \in [Runs -> [Forecasts -> Nat]]
      /\ pc' \in [Runs -> {"idle", "size", "order"}] /\ left' \in [Runs -> SUBSET Forecasts]
      /\ mine'[s].ordered = {} /\ \A f \in Forecasts : mine'[s].row[f] = NoRow /\ kept'[s][f] = 0
      /\ \A o \in Runs : o # s => mine'[o] = mine[o] /\ kept'[o] = kept[o]
  BY <1>1, LeavesRows
<1>3. row' = row /\ exposure' = exposure /\ ordered' = ordered /\ excess' = excess
      /\ sessions' = sessions /\ resets' = resets
  BY DEF Rollback, committed, counters
<1>4. TypeOK' /\ CountedOnce'
  BY <1>1, <1>2, <1>3 DEF IInv, TypeOK, CountedOnce
<1>5. Spent'
  BY <1>2 DEF IInv, Spent
<1>8. Fresh'
  <2>. SUFFICES ASSUME NEW o \in Runs, NEW f \in Forecasts, mine'[o].row[f].status = "reserved"
                PROVE  row'[f] = NoRow
    BY DEF Fresh
  <2>1. o # s /\ mine'[o] = mine[o]
    BY <1>2, NoRowTyped
  <2>. QED
    BY <1>3, <2>1 DEF IInv, Fresh
<1>7. Alone'
  <2>. SUFFICES ASSUME NEW o \in Runs, NEW u \in Runs, NEW f \in Forecasts, o # u,
                       mine'[o].row[f] # NoRow, mine'[u].row[f] # NoRow
                PROVE  row'[f] # NoRow
    BY DEF Alone
  <2>1. mine'[o] = mine[o] /\ mine'[u] = mine[u]
    BY <1>2
  <2>. QED
    BY <1>3, <2>1 DEF IInv, Alone
<1>6. Backed'
  <2>. SUFFICES ASSUME NEW o \in Runs, NEW f \in Forecasts, kept'[o][f] > 0
                PROVE  SeenRow(o, f)' # NoRow
    BY DEF Backed
  <2>1. o # s /\ mine'[o] = mine[o] /\ kept'[o] = kept[o]
    BY <1>2
  <2>. QED
    BY <1>3, <2>1 DEF IInv, Backed, SeenRow
<1>. QED
  BY <1>4, <1>5, <1>6, <1>7, <1>8 DEF IInv

\* Steps that write no reservation and keep nothing new.
LEMMA OthersKeep ==
  ASSUME IInv, row' = row, mine' = mine, TypeOK', ordered' \subseteq ordered,
         \A s \in Runs, f \in Forecasts : kept'[s][f] > 0 => kept[s][f] > 0
  PROVE  IInv'
<1>1. CountedOnce' /\ Spent' /\ Fresh' /\ Alone'
  BY DEF IInv, CountedOnce, Spent, Fresh, Alone
<1>2. Backed'
  BY DEF IInv, Backed, SeenRow
<1>. QED
  BY <1>1, <1>2 DEF IInv

LEMMA StepInv == IInv /\ [Next]_vars => IInv'
<1>. SUFFICES ASSUME IInv, [Next]_vars PROVE IInv'
  OBVIOUS
<1>1. ASSUME NEW s \in Runs, Begin(s) PROVE IInv'
  <2>1. TypeOK'
    BY <1>1 DEF IInv, TypeOK, Begin, committed
  <2>. QED
    BY <1>1, <2>1, OthersKeep DEF Begin, committed
<1>2. ASSUME NEW s \in Runs, Sized(s) PROVE IInv'
  <2>1. TypeOK'
    BY <1>2 DEF IInv, TypeOK, Sized, committed, counters
  <2>. QED
    BY <1>2, <2>1, OthersKeep DEF Sized, committed
<1>3. ASSUME NEW s \in Runs, Commit(s) PROVE IInv'
  BY <1>3, CommitKeeps
<1>4. ASSUME NEW s \in Runs, Rollback(s) PROVE IInv'
  BY <1>4, RollbackKeeps
<1>5. ASSUME NEW s \in Runs, NEW f \in Forecasts, Size(s, f) PROVE IInv'
  BY <1>5, SizeKeeps
<1>6. ASSUME NEW s \in Runs, NEW f \in Forecasts, Order(s, f) PROVE IInv'
  BY <1>6, OrderKeeps
<1>7. ASSUME NEW s \in Runs, NEW f \in Forecasts, Refuse(s, f) PROVE IInv'
  <2>1. /\ kept' \in [Runs -> [Forecasts -> Nat]]
        /\ \A o \in Runs, g \in Forecasts : kept'[o][g] > 0 => kept[o][g] > 0
    BY <1>7 DEF IInv, TypeOK, Refuse
  <2>2. TypeOK'
    BY <1>7, <2>1 DEF IInv, TypeOK, Refuse, committed, counters
  <2>. QED
    BY <1>7, <2>1, <2>2, OthersKeep DEF Refuse, committed
<1>8. CASE Reset
  <2>1. TypeOK'
    BY <1>8 DEF IInv, TypeOK, Reset
  <2>. QED
    BY <1>8, <2>1, OthersKeep DEF Reset
<1>9. CASE UNCHANGED vars
  <2>1. TypeOK'
    BY <1>9 DEF IInv, TypeOK, vars
  <2>. QED
    BY <1>9, <2>1, OthersKeep DEF vars
<1>. QED
  BY <1>1, <1>2, <1>3, <1>4, <1>5, <1>6, <1>7, <1>8, <1>9 DEF Next, Session, Candidate

LEMMA Invariant == Spec => []IInv
  BY InitInv, StepInv, PTL DEF Spec

-----------------------------------------------------------------------------
\* The types of the reservation tables and of the sessions: every order has a
\* reservation to spend, and no reservation is of nothing.
THEOREM TypeCorrect == Spec => []TypeOK
<1>1. IInv => TypeOK
  BY DEF IInv
<1>. QED
  BY <1>1, Invariant, PTL

\* An order committed by attach_advanced_risk_decision_to_order and
\* mark_reservation_filled_for_order leaves no reserved risk of its forecast,
\* on SQLite and on Postgres, whichever session had reserved it.
THEOREM RiskCountedOnce == Spec => []CountedOnce
<1>1. IInv => CountedOnce
  BY DEF IInv
<1>. QED
  BY <1>1, Invariant, PTL
-----------------------------------------------------------------------------
(* What is reserved stays, until it is ordered *)

Filled(r) == [r EXCEPT !.status = "filled"]

\* Where a session has written a reservation that is committed by now, it has
\* spent the committed one on its order.
Follows == \A s \in Runs, f \in Forecasts :
  mine[s].row[f] # NoRow /\ row[f] # NoRow =>
    mine[s].row[f] = Filled(row[f]) /\ f \in mine[s].ordered

LEMMA FilledOnce ==
  ASSUME NEW r \in Reservations, r # NoRow
  PROVE  Filled(Filled(r)) = Filled(r) /\ Filled(r) # NoRow
  BY DEF Filled, Reservations, NoRow

\* A session that has written nothing, or ends, follows; the others do as before.
LEMMA OthersFollow ==
  ASSUME Follows, row' = row, mine' = mine
  PROVE  Follows'
  BY DEF Follows

LEMMA SizeFollows ==
  ASSUME IInv, Follows, NEW s \in Runs, NEW f \in Forecasts, Size(s, f)
  PROVE  Follows'
<1>1. PICK q \in Quantities \cup {0} : mine' = Reserved(s, f, q)
  BY DEF Size
<1>2. TypeOK /\ q \in Nat /\ row' = row
  BY DEF IInv, Size, committed
<1>3. /\ \A o \in Runs : mine'[o].ordered = mine[o].ordered
      /\ \A o \in Runs, g \in Forecasts : o # s \/ g # f => mine'[o].row[g] = mine[o].row[g]
      /\ mine'[s].row[f] # mine[s].row[f] => row[f] = NoRow
  BY <1>1, <1>2, ReservedRows DEF SeenRow
<1>. SUFFICES ASSUME NEW o \in Runs, NEW g \in Forecasts, mine'[o].row[g] # NoRow, row[g] # NoRow
              PROVE  mine'[o].row[g] = Filled(row[g]) /\ g \in mine'[o].ordered
  BY <1>2 DEF Follows
<1>4. mine'[o].row[g] = mine[o].row[g]
  BY <1>3
<1>. QED
  BY <1>3, <1>4 DEF Follows

LEMMA OrderFollows ==
  ASSUME IInv, Follows, NEW s \in Runs, NEW f \in Forecasts, Order(s, f)
  PROVE  Follows'
<1>1. TypeOK /\ Backed /\ row' = row
  BY DEF IInv, Order, committed
<1>2. /\ \A o \in Runs : o # s => mine'[o] = mine[o]
      /\ mine'[s].ordered = mine[s].ordered \cup {f}
      /\ \A g \in Forecasts : g # f => mine'[s].row[g] = mine[s].row[g]
  BY <1>1, OrderRows
<1>3. row[f] # NoRow => mine'[s].row[f] = Filled(row[f])
  <2>. SUFFICES ASSUME row[f] # NoRow PROVE mine'[s].row[f] = Filled(row[f])
    OBVIOUS
  <2>1. mine'[s].row = [mine[s].row EXCEPT ![f] = Filled(SeenRow(s, f))]
    BY <1>1 DEF Order, Spends, Filled, TypeOK
  <2>2. mine'[s].row[f] = Filled(SeenRow(s, f))
    BY <1>1, <2>1 DEF TypeOK, Writes
  <2>3. SeenRow(s, f) = row[f] \/ SeenRow(s, f) = Filled(row[f])
    BY DEF SeenRow, Follows
  <2>. QED
    BY <1>1, <2>2, <2>3, FilledOnce, RowsTyped
<1>. SUFFICES ASSUME NEW o \in Runs, NEW g \in Forecasts, mine'[o].row[g] # NoRow, row[g] # NoRow
              PROVE  mine'[o].row[g] = Filled(row[g]) /\ g \in mine'[o].ordered
  BY <1>1 DEF Follows
<1>4. CASE o = s /\ g = f
  BY <1>2, <1>3, <1>4
<1>5. CASE o = s /\ g # f
  <2>1. mine[s].row[g] = Filled(row[g]) /\ g \in mine[s].ordered
    BY <1>2, <1>5 DEF Follows
  <2>. QED
    BY <1>2, <1>5, <2>1
<1>6. CASE o # s
  BY <1>2, <1>6 DEF Follows
<1>. QED
  BY <1>4, <1>5, <1>6

\* A commit adds a reservation, or spends one that is there on an order.
LEMMA CommitSpends ==
  ASSUME IInv, Follows, NEW s \in Runs, NEW f \in Forecasts, Commit(s), row[f] # NoRow
  PROVE  /\ row'[f] = row[f] \/ (row'[f] = Filled(row[f]) /\ f \in ordered')
         /\ row'[f] # NoRow /\ Filled(row'[f]) = Filled(row[f])
<1>1. row'[f] = IF mine[s].row[f] # NoRow THEN mine[s].row[f] ELSE row[f]
  BY DEF Commit, SeenRow
<1>2. row'[f] = row[f] \/ (row'[f] = Filled(row[f]) /\ f \in ordered')
  BY <1>1 DEF Follows, Commit, SeenOrdered
<1>3. row[f] \in Reservations
  BY DEF IInv, TypeOK
<1>. QED
  BY <1>2, <1>3, FilledOnce

LEMMA EndFollows ==
  ASSUME IInv, Follows, NEW s \in Runs, Commit(s) \/ Rollback(s)
  PROVE  Follows'
<1>1. TypeOK /\ Leaves(s)
  BY DEF IInv, Commit, Rollback
<1>2. /\ \A f \in Forecasts : mine'[s].row[f] = NoRow
      /\ \A o \in Runs : o # s => mine'[o] = mine[o]
  BY <1>1, LeavesRows
<1>. SUFFICES ASSUME NEW o \in Runs, NEW f \in Forecasts, mine'[o].row[f] # NoRow, row'[f] # NoRow
              PROVE  mine'[o].row[f] = Filled(row'[f]) /\ f \in mine'[o].ordered
  BY DEF Follows
<1>3. o # s /\ mine'[o] = mine[o]
  BY <1>2
<1>4. row[f] # NoRow
  <2>1. CASE Commit(s)
    <3>1. row'[f] = IF mine[s].row[f] # NoRow THEN mine[s].row[f] ELSE row[f]
      BY <2>1 DEF Commit, SeenRow
    <3>. QED
      BY <1>3, <3>1 DEF IInv, Alone
  <2>2. CASE Rollback(s)
    BY <2>2 DEF Rollback, committed
  <2>. QED
    BY <2>1, <2>2
<1>5. Filled(row'[f]) = Filled(row[f])
  <2>1. CASE Commit(s)
    BY <1>4, <2>1, CommitSpends
  <2>2. CASE Rollback(s)
    BY <2>2 DEF Rollback, committed
  <2>. QED
    BY <2>1, <2>2
<1>. QED
  BY <1>3, <1>4, <1>5 DEF Follows

LEMMA FollowsInit == Init => Follows
  BY DEF Init, Follows, Clean

LEMMA FollowsStep == IInv /\ Follows /\ [Next]_vars => Follows'
<1>. SUFFICES ASSUME IInv, Follows, [Next]_vars PROVE Follows'
  OBVIOUS
<1>1. ASSUME NEW s \in Runs, Begin(s) \/ Sized(s) \/ \E f \in Forecasts : Refuse(s, f)
      PROVE  Follows'
  BY <1>1, OthersFollow DEF Begin, Sized, Refuse, committed
<1>2. CASE Reset \/ UNCHANGED vars
  BY <1>2, OthersFollow DEF Reset, vars
<1>. QED
  BY <1>1, <1>2, SizeFollows, OrderFollows, EndFollows DEF Next, Session, Candidate

\* Only a commit writes the reservations.
LEMMA StepSpends ==
  ASSUME IInv, Follows, [Next]_vars, NEW f \in Forecasts, row[f] # NoRow, row'[f] # row[f]
  PROVE  row'[f] = Filled(row[f]) /\ f \in ordered'
<1>1. row' = row \/ \E s \in Runs : Commit(s)
  BY DEF Next, Session, Candidate, Begin, Sized, Rollback, Size, Order, Refuse, Reset,
     committed, vars
<1>. QED
  BY <1>1, CommitSpends

\* Neither a later run nor one beside it makes a reservation larger, smaller or
\* pending again; none is given back without an order.  On both databases.
THEOREM ReservationsOnlySpent == Spec => SpentOnlyByOrders
<1>1. IInv /\ Follows /\ [Next]_vars =>
        [\A f \in Forecasts : row[f] # NoRow /\ row'[f] # row[f] =>
           row'[f] = [row[f] EXCEPT !.status = "filled"] /\ f \in ordered']_row
  BY StepSpends DEF Filled
<1>. QED
  BY <1>1, Invariant, InitInv, StepInv, FollowsInit, FollowsStep, PTL DEF Spec, SpentOnlyByOrders

-----------------------------------------------------------------------------
(* The limit on open risk, on SQLite *)

\* Reserved risk as it is committed.
RowRisk(f) == IF row[f].status = "reserved" THEN row[f].risk ELSE 0
Booked == SumFunctionOnSet([f \in Forecasts |-> RowRisk(f)], Forecasts)

\* Pending risk p within the limit, and with open risk e beyond it by x at most.
Covered(p, e, x) == p <= Limit /\ e + p <= Limit + x

\* One session at a time writes, ...
OneWrites == \A s, o \in Runs : pc[s] # "idle" /\ pc[o] # "idle" => s = o
IdleClean == \A s \in Runs : pc[s] = "idle" => mine[s] = Clean

\* ... and what is committed, and what each session sees, is within the limit.
InLimit ==
  /\ OneWrites /\ IdleClean
  /\ Covered(Booked, exposure, excess)
  /\ \A s \in Runs : Covered(PendingRisk(s), OpenRisk(s), excess + mine[s].excess)

LEMMA BookedNat == TypeOK => Booked \in Nat
<1>. SUFFICES ASSUME TypeOK PROVE Booked \in Nat
  OBVIOUS
<1>1. \A f \in Forecasts : RowRisk(f) \in Nat
  <2>1. \A r \in Reservations : r.risk \in Nat
    BY DEF Reservations, NoRow
  <2>. QED
    BY <2>1 DEF RowRisk, TypeOK
<1>. QED
  BY <1>1, SumNat DEF Booked

LEMMA PendingNat ==
  ASSUME TypeOK, NEW s \in Runs
  PROVE  PendingRisk(s) \in Nat
<1>1. \A f \in Forecasts : Counted(s, f) \in Nat
  BY CountedTyped
<1>. QED
  BY <1>1, SumNat DEF PendingRisk

\* What a session without writes sees is what is committed.
LEMMA SeesBooked ==
  ASSUME NEW s \in Runs, mine[s] = Clean
  PROVE  PendingRisk(s) = Booked /\ OpenRisk(s) = exposure + 0 /\ mine[s].excess = 0
<1>1. \A f \in Forecasts : Counted(s, f) = RowRisk(f)
  BY DEF Counted, SeenRow, RowRisk, Clean
<1>. QED
  BY <1>1 DEF PendingRisk, Booked, OpenRisk, Clean

LEMMA SeesBookedNext ==
  ASSUME NEW s \in Runs, mine'[s] = Clean
  PROVE  PendingRisk(s)' = Booked' /\ OpenRisk(s)' = exposure' + 0 /\ mine'[s].excess = 0
<1>1. \A f \in Forecasts : Counted(s, f)' = RowRisk(f)'
  BY DEF Counted, SeenRow, RowRisk, Clean
<1>. QED
  BY <1>1 DEF PendingRisk, Booked, OpenRisk, Clean

\* The pending risk a session sees changes with one reservation.
LEMMA PendingChange ==
  ASSUME TypeOK, TypeOK', NEW s \in Runs, NEW f \in Forecasts,
         \A g \in Forecasts \ {f} : SeenRow(s, g)' = SeenRow(s, g)
  PROVE  /\ PendingRisk(s)' = PendingRisk(s) + Counted(s, f)' - Counted(s, f)
         /\ Counted(s, f) \in Nat /\ Counted(s, f)' \in Nat
<1>1. \A g \in Forecasts : Counted(s, g) \in Nat /\ Counted(s, g)' \in Nat
  BY CountedTyped, CountedTypedNext
<1>2. \A g \in Forecasts \ {f} : Counted(s, g)' = Counted(s, g)
  BY DEF Counted
<1>. DEFINE old == [g \in Forecasts |-> Counted(s, g)]
            new == [g \in Forecasts |-> Counted(s, g)']
<1>3. /\ \A g \in Forecasts : old[g] \in Nat /\ new[g] \in Nat
      /\ \A g \in Forecasts \ {f} : new[g] = old[g]
      /\ old[f] = Counted(s, f) /\ new[f] = Counted(s, f)'
  BY <1>1, <1>2
<1>4. PendingRisk(s) = SumFunctionOnSet(old, Forecasts)
      /\ PendingRisk(s)' = SumFunctionOnSet(new, Forecasts)
  BY DEF PendingRisk
<1>. HIDE DEF old, new
<1>5. SumFunctionOnSet(new, Forecasts) = SumFunctionOnSet(old, Forecasts) + new[f] - old[f]
  BY <1>3, RiskAssumption, SumChange
<1>. QED
  BY <1>1, <1>3, <1>4, <1>5

\* Steps of a session that leave alone what is committed.
LEMMA WritesInLimit ==
  ASSUME TypeOK, TypeOK', InLimit, NEW s \in Runs, pc[s] # "idle", UNCHANGED committed,
         \A o \in Runs \ {s} : mine'[o] = mine[o] /\ pc'[o] = pc[o],
         pc'[s] # "idle",
         Covered(PendingRisk(s)', OpenRisk(s)', excess + mine'[s].excess)
  PROVE  InLimit'
<1>1. OneWrites' /\ IdleClean'
  BY DEF InLimit, OneWrites, IdleClean
<1>2. Booked' = Booked /\ exposure' = exposure /\ excess' = excess /\ row' = row
  BY DEF committed, Booked, RowRisk
<1>3. ASSUME NEW o \in Runs \ {s}
      PROVE  PendingRisk(o)' = PendingRisk(o) /\ OpenRisk(o)' = OpenRisk(o)
  BY <1>2 DEF PendingRisk, Counted, SeenRow, OpenRisk
<1>4. ASSUME NEW o \in Runs
      PROVE  Covered(PendingRisk(o)', OpenRisk(o)', excess' + mine'[o].excess)
  BY <1>2, <1>3 DEF InLimit
<1>. QED
  BY <1>1, <1>2, <1>4 DEF InLimit, Covered

LEMMA LimitSize ==
  ASSUME IInv, IInv', InLimit, NEW s \in Runs, NEW f \in Forecasts, Size(s, f)
  PROVE  InLimit'
<1>1. PICK q \in Quantities \cup {0} :
        /\ q > 0 => OpenRisk(s) + PendingRisk(s) + q <= Limit
        /\ mine' = Reserved(s, f, q)
  BY DEF Size
<1>2. TypeOK /\ TypeOK' /\ q \in Nat /\ UNCHANGED committed /\ pc' = pc /\ pc[s] = "size"
  BY DEF IInv, Size
<1>3. mine[s] \in Writes /\ mine \in [Runs -> Writes]
  BY <1>2 DEF TypeOK
<1>4. PendingRisk(s) \in Nat /\ OpenRisk(s) \in Nat /\ excess \in Nat /\ mine[s].excess \in Nat
      /\ Limit \in Nat
  BY <1>2, <1>3, PendingNat DEF OpenRisk, TypeOK, Writes
<1>5. Covered(PendingRisk(s), OpenRisk(s), excess + mine[s].excess)
  BY DEF InLimit
<1>6. CASE q > 0 /\ SeenRow(s, f) = NoRow
  <2>. DEFINE new == [status |-> "reserved", risk |-> q]
  <2>1. mine' = [mine EXCEPT ![s] = [mine[s] EXCEPT !.row = [mine[s].row EXCEPT ![f] = new]]]
    BY <1>1, <1>6 DEF Reserved, Reserves
  <2>2. /\ mine'[s] = [mine[s] EXCEPT !.row = [mine[s].row EXCEPT ![f] = new]]
        /\ \A o \in Runs \ {s} : mine'[o] = mine[o]
    BY <1>3, <2>1
  <2>3. /\ mine'[s].row = [mine[s].row EXCEPT ![f] = new]
        /\ mine'[s].exposure = mine[s].exposure /\ mine'[s].excess = mine[s].excess
        /\ mine[s].row \in [Forecasts -> Reservations]
    BY <1>3, <2>2 DEF Writes
  <2>4. row' = row /\ exposure' = exposure
    BY <1>2 DEF committed
  <2>5. \A g \in Forecasts \ {f} : SeenRow(s, g)' = SeenRow(s, g)
    BY <2>3, <2>4 DEF SeenRow
  <2>6. SeenRow(s, f)' = new
    BY <2>3, <2>4 DEF SeenRow, NoRow
  <2>7. Counted(s, f)' = q /\ Counted(s, f) = 0
    BY <1>6, <2>6 DEF Counted, NoRow
  <2>8. PendingRisk(s)' = PendingRisk(s) + q
    BY <1>2, <1>4, <2>5, <2>7, PendingChange
  <2>9. OpenRisk(s)' = OpenRisk(s)
    BY <2>3, <2>4 DEF OpenRisk
  <2>10. OpenRisk(s) + PendingRisk(s) + q <= Limit
    BY <1>1, <1>6
  <2>11. Covered(PendingRisk(s)', OpenRisk(s)', excess + mine'[s].excess)
    BY <1>2, <1>4, <2>3, <2>8, <2>9, <2>10 DEF Covered
  <2>. QED
    BY <1>2, <2>2, <2>11, WritesInLimit
<1>7. CASE ~(q > 0 /\ SeenRow(s, f) = NoRow)
  <2>1. mine' = mine
    BY <1>1, <1>7 DEF Reserved, Reserves
  <2>2. PendingRisk(s)' = PendingRisk(s) /\ OpenRisk(s)' = OpenRisk(s)
    BY <1>2, <2>1 DEF PendingRisk, Counted, SeenRow, OpenRisk, committed
  <2>. QED
    BY <1>2, <1>5, <2>1, <2>2, WritesInLimit
<1>. QED
  BY <1>6, <1>7

LEMMA LimitOrder ==
  ASSUME IInv, IInv', InLimit, NEW s \in Runs, NEW f \in Forecasts, Order(s, f)
  PROVE  InLimit'
<1>. DEFINE q == kept[s][f]
            c == Counted(s, f)
            over == IF q > c THEN q - c ELSE 0
<1>1. TypeOK /\ TypeOK' /\ Backed /\ UNCHANGED committed /\ pc' = pc /\ pc[s] = "order"
  BY DEF IInv, Order
<1>2. mine[s] \in Writes /\ mine \in [Runs -> Writes] /\ q \in Nat /\ c \in Nat /\ over \in Nat
  <2>1. mine \in [Runs -> Writes] /\ q \in Nat /\ c \in Nat
    BY <1>1, CountedTyped DEF TypeOK
  <2>. QED
    BY <2>1
<1>3. mine' = [mine EXCEPT ![s] =
        [row |-> [mine[s].row EXCEPT ![f] = Spends(s, f)],
         exposure |-> mine[s].exposure + q,
         ordered |-> mine[s].ordered \cup {f},
         excess |-> mine[s].excess + over]]
  BY DEF Order
<1>4. /\ mine'[s].row = [mine[s].row EXCEPT ![f] = Spends(s, f)]
      /\ mine'[s].exposure = mine[s].exposure + q
      /\ mine'[s].excess = mine[s].excess + over
      /\ \A o \in Runs \ {s} : mine'[o] = mine[o]
  BY <1>2, <1>3
<1>5. row' = row /\ exposure' = exposure
  BY <1>1 DEF committed
<1>6. \A g \in Forecasts \ {f} : SeenRow(s, g)' = SeenRow(s, g)
  BY <1>2, <1>4, <1>5 DEF SeenRow, Writes
<1>7. Counted(s, f)' = 0
  <2>1. mine'[s].row[f].status = "filled" /\ mine'[s].row[f] # NoRow
    BY <1>1, OrderRows
  <2>. QED
    BY <2>1 DEF Counted, SeenRow
<1>8. PendingRisk(s)' = PendingRisk(s) + 0 - c
  BY <1>1, <1>6, <1>7, PendingChange
<1>9. OpenRisk(s)' = exposure + (mine[s].exposure + q) /\ OpenRisk(s) = exposure + mine[s].exposure
  BY <1>4, <1>5 DEF OpenRisk
<1>10. PendingRisk(s) \in Nat /\ PendingRisk(s)' \in Int /\ exposure \in Nat
       /\ mine[s].exposure \in Nat /\ excess \in Nat /\ mine[s].excess \in Nat /\ Limit \in Nat
  BY <1>1, <1>2, <1>8, PendingNat DEF TypeOK, Writes
<1>11. PendingRisk(s) <= Limit
       /\ exposure + mine[s].exposure + PendingRisk(s) <= Limit + (excess + mine[s].excess)
  BY <1>9 DEF InLimit, Covered
<1>12. q <= c + over
  BY <1>2
<1>. HIDE DEF q, c, over
<1>13. Covered(PendingRisk(s)', OpenRisk(s)', excess + mine'[s].excess)
  BY <1>2, <1>4, <1>8, <1>9, <1>10, <1>11, <1>12 DEF Covered
<1>. QED
  BY <1>1, <1>4, <1>13, WritesInLimit

LEMMA LimitRefuse ==
  ASSUME IInv, IInv', InLimit, NEW s \in Runs,
         (\E f \in Forecasts : Refuse(s, f)) \/ Sized(s)
  PROVE  InLimit'
<1>1. TypeOK /\ TypeOK' /\ UNCHANGED committed /\ mine' = mine /\ pc[s] # "idle"
      /\ pc' \in {pc, [pc EXCEPT ![s] = "order"]}
  BY DEF IInv, Refuse, Sized
<1>2. pc'[s] # "idle" /\ \A o \in Runs \ {s} : mine'[o] = mine[o] /\ pc'[o] = pc[o]
  BY <1>1 DEF TypeOK
<1>3. PendingRisk(s)' = PendingRisk(s) /\ OpenRisk(s)' = OpenRisk(s)
  BY <1>1 DEF PendingRisk, Counted, SeenRow, OpenRisk, committed
<1>4. Covered(PendingRisk(s)', OpenRisk(s)', excess + mine'[s].excess)
  BY <1>1, <1>3 DEF InLimit
<1>. QED
  BY <1>1, <1>2, <1>4, WritesInLimit

\* When nobody has uncommitted writes all see what is committed.
LEMMA CleanInLimit ==
  ASSUME TypeOK', \A o \in Runs : mine'[o] = Clean, OneWrites',
         Covered(Booked', exposure', excess')
  PROVE  InLimit'
<1>1. IdleClean'
  BY DEF IdleClean
<1>2. ASSUME NEW o \in Runs
      PROVE  Covered(PendingRisk(o)', OpenRisk(o)', excess' + mine'[o].excess)
  <2>1. exposure' \in Nat /\ excess' \in Nat
    BY DEF TypeOK
  <2>2. PendingRisk(o)' = Booked' /\ OpenRisk(o)' = exposure' /\ excess' + mine'[o].excess = excess'
    BY <2>1, SeesBookedNext
  <2>. QED
    BY <2>2
<1>. QED
  BY <1>1, <1>2 DEF InLimit

LEMMA LimitEnds ==
  ASSUME Sqlite, IInv, IInv', InLimit, NEW s \in Runs, Begin(s) \/ Commit(s) \/ Rollback(s)
  PROVE  InLimit'
<1>1. TypeOK /\ TypeOK' /\ pc \in [Runs -> {"idle", "size", "order"}]
      /\ mine \in [Runs -> Writes]
  BY DEF IInv, TypeOK
<1>2. \A o \in Runs \ {s} : pc[o] = "idle" /\ pc'[o] = "idle"
  BY <1>1 DEF InLimit, OneWrites, Begin, LockFree, Commit, Rollback, Leaves
<1>3. OneWrites'
  BY <1>2 DEF OneWrites
<1>4. \A o \in Runs : mine'[o] = Clean
  <2>1. \A o \in Runs \ {s} : mine[o] = Clean
    BY <1>2 DEF InLimit, IdleClean
  <2>2. CASE Begin(s)
    BY <2>1, <2>2 DEF InLimit, IdleClean, Begin
  <2>3. CASE Commit(s) \/ Rollback(s)
    BY <1>1, <2>1, <2>3 DEF Commit, Rollback, Leaves
  <2>. QED
    BY <2>2, <2>3
<1>5. Covered(Booked', exposure', excess')
  <2>1. CASE Begin(s) \/ Rollback(s)
    <3>1. Booked' = Booked /\ exposure' = exposure /\ excess' = excess
      BY <2>1 DEF Begin, Rollback, committed, Booked, RowRisk
    <3>. QED
      BY <3>1 DEF InLimit
  <2>2. CASE Commit(s)
    <3>1. row' = [f \in Forecasts |-> SeenRow(s, f)] /\ exposure' = OpenRisk(s)
          /\ excess' = excess + mine[s].excess
      BY <2>2 DEF Commit
    <3>2. \A f \in Forecasts : RowRisk(f)' = Counted(s, f)
      BY <3>1 DEF RowRisk, Counted
    <3>3. Booked' = PendingRisk(s)
      BY <3>2 DEF Booked, PendingRisk
    <3>. QED
      BY <3>1, <3>3 DEF InLimit
  <2>. QED
    BY <2>1, <2>2
<1>. QED
  BY <1>1, <1>3, <1>4, <1>5, CleanInLimit

LEMMA LimitReset ==
  ASSUME Sqlite, IInv, IInv', InLimit, Reset
  PROVE  InLimit'
<1>1. TypeOK /\ TypeOK' /\ pc' = pc /\ mine' = mine /\ row' = row /\ exposure' = 0 /\ excess' = 0
      /\ \A s \in Runs : pc[s] = "idle"
  BY DEF IInv, Reset
<1>2. OneWrites' /\ \A s \in Runs : mine'[s] = Clean
  BY <1>1 DEF InLimit, OneWrites, IdleClean
<1>3. Booked' = Booked
  BY <1>1 DEF Booked, RowRisk
<1>4. Covered(Booked', exposure', excess')
  BY <1>1, <1>3, BookedNat DEF InLimit, Covered
<1>. QED
  BY <1>1, <1>2, <1>4, CleanInLimit

LEMMA LimitStep == Sqlite /\ IInv /\ InLimit /\ [Next]_vars => InLimit'
<1>. SUFFICES ASSUME Sqlite, IInv, InLimit, [Next]_vars PROVE InLimit'
  OBVIOUS
<1>1. IInv'
  BY StepInv
<1>2. CASE UNCHANGED vars
  BY <1>2 DEF vars, InLimit, OneWrites, IdleClean, Covered, Booked, RowRisk, PendingRisk, OpenRisk,
       Counted, SeenRow
<1>. QED
  BY <1>1, <1>2, LimitSize, LimitOrder, LimitRefuse, LimitEnds, LimitReset
     DEF Next, Session, Candidate

LEMMA LimitInit == Init => InLimit
<1>. SUFFICES ASSUME Init PROVE InLimit
  OBVIOUS
<1>1. OneWrites /\ IdleClean /\ exposure = 0 /\ excess = 0
      /\ \A s \in Runs : mine[s] = Clean
  BY DEF Init, OneWrites, IdleClean
<1>2. Booked = 0
  <2>1. \A f \in Forecasts : RowRisk(f) = 0
    BY DEF Init, RowRisk, NoRow
  <2>. QED
    BY <2>1, SumZero DEF Booked
<1>3. Covered(Booked, exposure, excess)
  BY <1>1, <1>2 DEF Covered
<1>4. ASSUME NEW s \in Runs
      PROVE  Covered(PendingRisk(s), OpenRisk(s), excess + mine[s].excess)
  BY <1>1, <1>2, SeesBooked DEF Covered
<1>. QED
  BY <1>1, <1>3, <1>4 DEF InLimit

LEMMA LimitBounds == TypeOK /\ InLimit => WithinLimit
<1>. SUFFICES ASSUME TypeOK, InLimit PROVE WithinLimit
  OBVIOUS
<1>1. exposure \in Nat /\ excess \in Nat /\ Booked \in Nat
  BY BookedNat DEF TypeOK
<1>. QED
  BY <1>1 DEF InLimit, Covered, WithinLimit

\* On SQLite the open risk exceeds its limit only by what orders on old
\* reservations brought, however many sessions there are and whatever they drop.
THEOREM OpenRiskLimited ==
  ASSUME Sqlite
  PROVE  Spec => []WithinLimit
<1>1. IInv => TypeOK
  BY DEF IInv
<1>. QED
  BY <1>1, InitInv, StepInv, LimitInit, LimitStep, LimitBounds, PTL DEF Spec
=============================================================================
