---------------------------- MODULE PositionSizer ----------------------------
(***************************************************************************)
(* How many contracts an order may be for: DynamicPositionSizer.decide,    *)
(* and what the advanced risk engine may leave of its answer.              *)
(*                                                                         *)
(* Scores, drawdown and history decide only which of a few caps applies,   *)
(* so an input carries these caps, of any combination that the thresholds  *)
(* allow, and whether its validation found an error.                       *)
(***************************************************************************)
EXTENDS Integers

CONSTANT Sizing      \* the settings: modes and configured caps

\* A cap that is not configured; a configured one is not negative.
Unset == -1

Modes == {"disabled", "shadow", "live"}

\* The sizes of the low, medium and high tier, and with them those there are.
Tiers == {1, 3, 5}
AllowedSizes == {0} \cup Tiers

ASSUME SizingAssumption ==
  /\ Sizing.mode \in Modes /\ Sizing.riskMode \in Modes
  /\ Sizing.liveMax \in Tiers /\ Sizing.globalMax \in Tiers
  /\ Sizing.externalCap \in Nat \cup {Unset}
  /\ Sizing.marginCap \in Nat \cup {Unset}
  /\ Sizing.portfolioCap \in Nat \cup {Unset}
  /\ Sizing.missingExternalIsOne \in BOOLEAN

-----------------------------------------------------------------------------
BucketDown(cap) ==
  IF cap <= 0 THEN 0 ELSE IF cap < 3 THEN 1 ELSE IF cap < 5 THEN 3 ELSE 5

OptionalCap(cap, missing) == IF cap = Unset THEN missing ELSE BucketDown(cap)

Lesser(m, n) == IF m <= n THEN m ELSE n
Least(S) == CHOOSE n \in S : \A m \in S : n <= m

\* The portfolio cap: what is left of the position cap, or less if so configured.
Portfolio(left) ==
  IF Sizing.portfolioCap = Unset THEN left ELSE Lesser(left, Sizing.portfolioCap)

\* What an input may be when left contracts are left of the position cap. The
\* high tier needs as many samples as lift the history cap.
Inputs(left) ==
  {i \in [left : {left}, valid : BOOLEAN, proposed : Tiers, liquidity : Tiers,
          drawdown : AllowedSizes, history : {3, 5}] :
     i.proposed = 5 => i.history = 5}

\* Mistake: what is left of the position cap only blocks, it is no cap.
CapsButPosition(i) ==
  {i.liquidity, i.drawdown, i.history,
   OptionalCap(Sizing.externalCap, IF Sizing.missingExternalIsOne THEN 1 ELSE 5),
   OptionalCap(Sizing.marginCap, 5), OptionalCap(Sizing.portfolioCap, 5),
   BucketDown(Sizing.liveMax), BucketDown(Sizing.globalMax)}

Caps(i) ==
  {i.liquidity, i.drawdown, i.history,
   OptionalCap(Sizing.externalCap, IF Sizing.missingExternalIsOne THEN 1 ELSE 5),
   OptionalCap(Sizing.marginCap, 5), OptionalCap(Portfolio(i.left), 5),
   BucketDown(Sizing.liveMax), BucketDown(Sizing.globalMax)}

Blocked(i) == 0 \in Caps(i)

Candidate(i) ==
  IF Blocked(i) THEN 0 ELSE BucketDown(Least({i.proposed} \cup Caps(i)))

\* What is executed: nothing when the position cap is used up, whatever else is
\* known; one contract on an invalid input, which reaches no other cap.
Executed(i) ==
  CASE i.left <= 0               -> 0
    [] i.left > 0 /\ ~i.valid    -> 1
    [] i.left > 0 /\ i.valid     ->
         IF Blocked(i) THEN 0
         ELSE IF Sizing.mode = "live" THEN Candidate(i) ELSE 1

\* In live mode the risk engine leaves no more than this, else just this.
AfterRisk(n) ==
  IF Sizing.riskMode = "live" THEN {m \in AllowedSizes : m <= n} ELSE {n}

\* The sizes with which a decision goes on to be ordered.
Sized(left) == (UNION {AfterRisk(Executed(i)) : i \in Inputs(left)}) \ {0}
=============================================================================
