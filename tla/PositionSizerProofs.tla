------------------------ MODULE PositionSizerProofs ------------------------
(***************************************************************************)
(* What DynamicPositionSizer.decide returns, for every setting, every      *)
(* input and everything that may be left of the position cap.              *)
(***************************************************************************)
EXTENDS PositionSizer, TLAPS

-----------------------------------------------------------------------------
(* Buckets *)

\* bucket_down returns the largest allowed size that a cap leaves room for, and
\* nothing when the cap is zero or less.
THEOREM LargestSizeWithin ==
  ASSUME NEW cap \in Int
  PROVE  /\ BucketDown(cap) \in AllowedSizes
         /\ cap >= 0 => BucketDown(cap) <= cap
         /\ \A n \in AllowedSizes : n <= cap => n <= BucketDown(cap)
BY DEF BucketDown, AllowedSizes, Tiers

\* A size is its own bucket, and a larger cap has no smaller one.
LEMMA BucketOfSize ==
  ASSUME NEW n \in AllowedSizes
  PROVE  BucketDown(n) = n
BY DEF BucketDown, AllowedSizes, Tiers

LEMMA BucketMonotone ==
  ASSUME NEW m \in Int, NEW n \in Int, m <= n
  PROVE  BucketDown(m) <= BucketDown(n)
BY DEF BucketDown

\* A set of sizes has a least one.
LEMMA LeastSize ==
  ASSUME NEW S \in SUBSET AllowedSizes, S # {}
  PROVE  Least(S) \in S /\ \A m \in S : Least(S) <= m
<1>1. \E n \in S : \A m \in S : n <= m
  <2>1. CASE 0 \in S
    BY <2>1 DEF AllowedSizes, Tiers
  <2>2. CASE 0 \notin S /\ 1 \in S
    BY <2>2 DEF AllowedSizes, Tiers
  <2>3. CASE 0 \notin S /\ 1 \notin S /\ 3 \in S
    BY <2>3 DEF AllowedSizes, Tiers
  <2>4. CASE S = {5}
    BY <2>4
  <2>. QED
    BY <2>1, <2>2, <2>3, <2>4 DEF AllowedSizes, Tiers
<1>. QED
  BY <1>1 DEF Least

-----------------------------------------------------------------------------
(* Caps *)

LEMMA CapsAreSizes ==
  ASSUME NEW left \in Nat, NEW i \in Inputs(left)
  PROVE  /\ Caps(i) \in SUBSET AllowedSizes /\ Caps(i) # {}
         /\ BucketDown(Portfolio(left)) \in Caps(i) /\ Portfolio(left) \in 0..left
<1>1. Portfolio(left) \in 0..left
  BY SizingAssumption DEF Portfolio, Lesser, Unset
<1>2. i.left = left /\ i.liquidity \in AllowedSizes /\ i.drawdown \in AllowedSizes
      /\ i.history \in AllowedSizes
  BY DEF Inputs, AllowedSizes, Tiers
<1>3. \A cap \in Int, missing \in AllowedSizes : OptionalCap(cap, missing) \in AllowedSizes
  BY DEF OptionalCap, BucketDown, AllowedSizes, Tiers
<1>4. /\ 1 \in AllowedSizes /\ 5 \in AllowedSizes
      /\ Sizing.externalCap \in Int /\ Sizing.marginCap \in Int
      /\ Sizing.liveMax \in Int /\ Sizing.globalMax \in Int
  BY SizingAssumption DEF Unset, AllowedSizes, Tiers
<1>5. OptionalCap(Portfolio(left), 5) = BucketDown(Portfolio(left))
  BY <1>1 DEF OptionalCap, Unset
<1>6. \A cap \in Int : BucketDown(cap) \in AllowedSizes
  BY LargestSizeWithin
<1>. QED
  BY <1>1, <1>2, <1>3, <1>4, <1>5, <1>6 DEF Caps

\* The contracts that execute are an allowed size within what is left of the
\* position cap, in every mode and also for inputs that failed validation.
THEOREM ExecutedWithinPosition ==
  ASSUME NEW left \in Nat, NEW i \in Inputs(left)
  PROVE  Executed(i) \in AllowedSizes /\ Executed(i) <= left
<1>. DEFINE all == {i.proposed} \cup Caps(i)
            p == BucketDown(Portfolio(left))
<1>1. i.left = left /\ i.proposed \in AllowedSizes /\ i.valid \in BOOLEAN
  BY DEF Inputs, AllowedSizes
<1>2. p \in Caps(i) /\ p \in AllowedSizes /\ p <= left
  BY CapsAreSizes, LargestSizeWithin DEF AllowedSizes, Tiers
<1>3. Least(all) \in AllowedSizes /\ Least(all) <= p
  BY <1>1, <1>2, CapsAreSizes, LeastSize
<1>4. Candidate(i) \in AllowedSizes /\ (~Blocked(i) => Candidate(i) <= left)
  <2>1. Candidate(i) = IF Blocked(i) THEN 0 ELSE Least(all)
    BY <1>3, BucketOfSize DEF Candidate
  <2>. HIDE DEF all, p
  <2>. QED
    BY <1>2, <1>3, <2>1 DEF AllowedSizes, Tiers
<1>5. 0 \in AllowedSizes /\ 1 \in AllowedSizes
  BY DEF AllowedSizes, Tiers
<1>. HIDE DEF all, p
<1>. QED
  BY <1>1, <1>4, <1>5 DEF Executed

-----------------------------------------------------------------------------
(* The documented formula *)

\* The caps as they are, before decide puts each into its bucket.
RawCaps(i) ==
  {i.proposed, i.liquidity, i.drawdown, i.history, Portfolio(i.left),
   Sizing.liveMax, Sizing.globalMax,
   IF Sizing.externalCap # Unset THEN Sizing.externalCap
   ELSE IF Sizing.missingExternalIsOne THEN 1 ELSE 5,
   IF Sizing.marginCap # Unset THEN Sizing.marginCap ELSE 5}

\* A size is within a cap exactly when it is within the cap's bucket.
LEMMA WithinBucket ==
  ASSUME NEW cap \in Nat, NEW n \in AllowedSizes
  PROVE  n <= cap <=> n <= BucketDown(cap)
BY DEF BucketDown, AllowedSizes, Tiers

\* The live candidate is the bucket of the least of all caps, as documented, although
\* decide puts every cap into a bucket before it takes the least and blocks on a cap
\* of zero: the sizes up to the candidate are just those that every cap admits.
THEOREM CandidateIsDocumented ==
  ASSUME NEW left \in Nat, NEW i \in Inputs(left)
  PROVE  /\ Candidate(i) \in AllowedSizes
         /\ \A n \in AllowedSizes : n <= Candidate(i) <=> \A cap \in RawCaps(i) : n <= cap
<1>. DEFINE all == {i.proposed} \cup Caps(i)
<1>1. all \in SUBSET AllowedSizes /\ all # {} /\ AllowedSizes \in SUBSET Nat
  BY CapsAreSizes DEF Inputs, AllowedSizes, Tiers
<1>2. Least(all) \in all /\ \A m \in all : Least(all) <= m
  BY <1>1, LeastSize
<1>3. Candidate(i) = Least(all)
  <2>1. CASE Blocked(i)
    <3>1. 0 \in all /\ Least(all) \in Nat
      BY <1>1, <1>2, <2>1 DEF Blocked
    <3>2. Least(all) <= 0
      BY <1>2, <3>1
    <3>. QED
      BY <2>1, <3>1, <3>2 DEF Candidate
  <2>2. CASE ~Blocked(i)
    BY <1>1, <1>2, <2>2, BucketOfSize DEF Candidate
  <2>. QED
    BY <2>1, <2>2
<1>4. ASSUME NEW n \in AllowedSizes
      PROVE  n <= Candidate(i) <=> \A m \in all : n <= m
  <2>. HIDE DEF all
  <2>1. n \in Nat /\ Least(all) \in Nat /\ \A m \in all : m \in Nat
    BY <1>1, <1>2
  <2>2. ASSUME n <= Least(all), NEW m \in all
        PROVE  n <= m
    BY <1>2, <2>1, <2>2
  <2>. QED
    BY <1>2, <1>3, <2>2
<1>5. ASSUME NEW n \in AllowedSizes
      PROVE  (\A m \in all : n <= m) <=> \A cap \in RawCaps(i) : n <= cap
  <2>1. i.left = left /\ Portfolio(left) \in Nat /\ n <= 5
    BY CapsAreSizes DEF Inputs, AllowedSizes, Tiers
  <2>2. n <= Portfolio(left) <=> n <= OptionalCap(Portfolio(left), 5)
    BY <2>1, WithinBucket DEF OptionalCap, Unset
  <2>3. n <= Sizing.liveMax <=> n <= BucketDown(Sizing.liveMax)
    BY SizingAssumption, WithinBucket DEF Tiers
  <2>4. n <= Sizing.globalMax <=> n <= BucketDown(Sizing.globalMax)
    BY SizingAssumption, WithinBucket DEF Tiers
  <2>5. n <= (IF Sizing.marginCap # Unset THEN Sizing.marginCap ELSE 5)
          <=> n <= OptionalCap(Sizing.marginCap, 5)
    BY SizingAssumption, WithinBucket DEF OptionalCap
  <2>6. n <= (IF Sizing.externalCap # Unset THEN Sizing.externalCap
              ELSE IF Sizing.missingExternalIsOne THEN 1 ELSE 5)
          <=> n <= OptionalCap(Sizing.externalCap, IF Sizing.missingExternalIsOne THEN 1 ELSE 5)
    BY SizingAssumption, WithinBucket DEF OptionalCap
  <2>. QED
    BY <2>1, <2>2, <2>3, <2>4, <2>5, <2>6 DEF Caps, RawCaps
<1>. QED
  BY <1>1, <1>2, <1>3, <1>4, <1>5

-----------------------------------------------------------------------------
(* Modes and the risk engine *)

\* Outside live mode nothing executes more than one contract, whatever the tier.
THEOREM OneUnlessLive ==
  ASSUME NEW left \in Nat, NEW i \in Inputs(left), Sizing.mode # "live"
  PROVE  Executed(i) \in {0, 1}
BY DEF Executed, Inputs

\* A decision that goes on to be ordered has the size of a tier, within what is
\* left of the position cap: the risk engine only takes away from it.
THEOREM SizedWithinPosition ==
  ASSUME NEW left \in Nat, NEW q \in Sized(left)
  PROVE  q \in Tiers /\ q <= left
<1>1. PICK i \in Inputs(left) : q \in AfterRisk(Executed(i)) /\ q # 0
  BY DEF Sized
<1>2. Executed(i) \in AllowedSizes /\ Executed(i) <= left
  BY ExecutedWithinPosition
<1>3. q \in AllowedSizes /\ q <= Executed(i)
  BY <1>1, <1>2 DEF AfterRisk, AllowedSizes, Tiers
<1>. QED
  BY <1>1, <1>2, <1>3 DEF AllowedSizes, Tiers
=============================================================================
