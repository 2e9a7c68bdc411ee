----------------------------- MODULE PaperTrades -----------------------------
(***************************************************************************)
(* What the paper ledger promises of its book of positions. A commit may   *)
(* trade in several markets, as a run of run_paper_trading does, but in    *)
(* each by one whole trade that keeps the side within the position cap;    *)
(* otherwise the book only changes by wiping.                              *)
(***************************************************************************)
EXTENDS Naturals

CONSTANTS
  Tickers,
  Quantities,     \* contracts one order may be for
  Prices,         \* limit prices
  MaxPosition     \* paper_max_position_per_market

VARIABLE book     \* contracts held and what was paid for them, per ticker and side

Sides == {"BUY_YES", "BUY_NO"}
Nothing == [x \in Sides |-> [quantity |-> 0, cost |-> 0]]

\* A holding after quantity more contracts at price.
Bought(holding, quantity, price) ==
  [quantity |-> holding.quantity + quantity, cost |-> holding.cost + quantity * price]

Init == book = [t \in Tickers |-> Nothing]

\* One trade in market t, of one side.
Trade(t) ==
  \E x \in Sides, q \in Quantities, p \in Prices :
    /\ book[t][x].quantity + q <= MaxPosition
    /\ book'[t] = [book[t] EXCEPT ![x] = Bought(@, q, p)]

\* A commit: in every market one trade or none.
Commit ==
  /\ book' = [t \in Tickers |-> book'[t]]
  /\ \A t \in Tickers : book'[t] = book[t] \/ Trade(t)

Wipe == book' = [t \in Tickers |-> Nothing]

Next == Wipe \/ Commit

Spec == Init /\ [][Next]_book
=============================================================================
