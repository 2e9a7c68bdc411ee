--------------------------- MODULE WatchLoopProofs ---------------------------
(***************************************************************************)
(* What holds of the watch service for any markets, intervals and delays:  *)
(* types, that a catalog that was not written is soon tried again, and     *)
(* that no failure keeps the next discovery away for longer than a cycle.  *)
(***************************************************************************)
EXTENDS WatchLoop, TLAPS

USE WatchAssumption

\* The next discovery comes d after the last one, or after the cycle that was
\* running then: a cycle starts before d and lasts a stream and a sleep.
Fits(d, p, l, s, r) ==
  /\ l > 0 => s + l <= d
  /\ p = "stream" => r <= StreamMax /\ s + r <= d - 1 + StreamMax
  /\ p = "sleep" => s + r <= d - 1 + StreamMax + MaxBackoff
  /\ s < d + StreamMax + MaxBackoff

Within(d) == Fits(d, pc, left, since, rest)

InTime == (found => Within(Refresh)) /\ (~found => Within(Retry))

\* A discovery starts with no time left, or without tickers.
Scheduled ==
  /\ left > 0 /\ found => cached # {}
  /\ pc = "discover" => since = 0 /\ left <= Retry /\ ~found
  /\ pc = "down" => left = 0

Retried == ~catalog => left <= Retry

LEMMA Restarted ==
  /\ 0 \in 0..Refresh /\ Initial \in Initial..MaxBackoff
  /\ 0 \in 0..(StreamMax + MaxBackoff)
  OBVIOUS

-----------------------------------------------------------------------------
(* The parts of a step *)

LEMMA BacksOffTyped ==
  ASSUME TypeOK, BacksOff
  PROVE  /\ pc' = "sleep" /\ rest' \in 0..MaxBackoff
         /\ rest' \in 0..(StreamMax + MaxBackoff) /\ backoff' \in Initial..MaxBackoff
<1>1. backoff \in Initial..MaxBackoff
  BY DEF TypeOK
<1>. QED
  BY <1>1 DEF BacksOff, Least

LEMMA StreamsTyped ==
  ASSUME TypeOK, Streams
  PROVE  /\ pc' = "stream" /\ rest' = StreamMax
         /\ rest' \in 0..(StreamMax + MaxBackoff) /\ backoff' \in Initial..MaxBackoff
  BY DEF TypeOK, Streams

LEMMA SearchOverTyped ==
  ASSUME SearchOver
  PROVE  prefer' \in SUBSET Tickers /\ fallback' \in SUBSET Series /\ rows' \in SUBSET Tickers
  BY DEF SearchOver

LEMMA PassesTyped ==
  ASSUME TypeOK, Passes
  PROVE  /\ rest' = rest - 1 /\ rest' \in 0..(StreamMax + MaxBackoff)
         /\ since' = since + 1 /\ since' \in Nat
         /\ left' \in 0..Refresh /\ left' <= left /\ (left' > 0 => left' = left - 1)
  BY DEF TypeOK, Passes

-----------------------------------------------------------------------------
(* Types *)

\* Every step keeps the types.
LEMMA TypeStep == TypeOK /\ [Next]_vars => TypeOK'
<1>. SUFFICES ASSUME TypeOK, [Next]_vars PROVE TypeOK'
  OBVIOUS
<1>1. CASE Unrest
  <2>1. /\ quoted' \in SUBSET Tickers /\ listed' \in Listings(quoted')
        /\ manifest' \in Manifests /\ calm' \in BOOLEAN
    <3>1. CASE quoted' \in SUBSET Tickers /\ listed' \in Listings(quoted')
               /\ UNCHANGED <<manifest, calm>>
      BY <3>1 DEF TypeOK
    <3>2. CASE quoted' = quoted /\ listed' = listed /\ manifest' \in Manifests /\ calm' \in BOOLEAN
      BY <3>2 DEF TypeOK
    <3>. QED
      BY <1>1, <3>1, <3>2 DEF TypeOK, Unrest
  <2>. QED
    BY <1>1, <2>1 DEF TypeOK, Unrest, searchVars, choiceVars
<1>2. CASE Discover
  <2>1. CASE pc' = "discover" /\ prefer' = manifest /\ fallback' = Series /\ rows' = {}
             /\ UNCHANGED <<backoff, rest>>
    <3>1. manifest \in SUBSET Tickers
      BY DEF TypeOK, Manifests
    <3>. QED
      BY <1>2, <2>1, <3>1 DEF TypeOK, Discover, worldVars, choiceVars, Steps
  <2>2. CASE BacksOff /\ SearchOver
    BY <1>2, <2>2, BacksOffTyped, SearchOverTyped DEF TypeOK, Discover, worldVars, choiceVars, Steps
  <2>. QED
    BY <1>2, <2>1, <2>2 DEF Discover
<1>16. CASE StreamAgain
  BY <1>16, StreamsTyped DEF TypeOK, StreamAgain, worldVars, choiceVars, searchVars, Steps
<1>3. CASE DiscoveryFails
  <2>1. left' \in 0..Refresh
    BY <1>3 DEF DiscoveryFails, RetriesSoon
  <2>2. CASE BacksOff
    BY <1>3, <2>1, <2>2, BacksOffTyped, SearchOverTyped
    DEF TypeOK, DiscoveryFails, worldVars, choiceVars, Steps
  <2>3. CASE cached # {} /\ Streams
    BY <1>3, <2>1, <2>3, StreamsTyped, SearchOverTyped
    DEF TypeOK, DiscoveryFails, worldVars, choiceVars, Steps
  <2>. QED
    BY <1>3, <2>2, <2>3 DEF DiscoveryFails, KeepsOn
<1>4. CASE FindsNothing
  <2>2. CASE BacksOff
    BY <1>4, <2>2, BacksOffTyped, SearchOverTyped
    DEF TypeOK, FindsNothing, worldVars, choiceVars, Steps
  <2>3. CASE cached # {} /\ Streams
    BY <1>4, <2>3, StreamsTyped, SearchOverTyped
    DEF TypeOK, FindsNothing, worldVars, choiceVars, Steps
  <2>. QED
    BY <1>4, <2>2, <2>3 DEF FindsNothing, KeepsOn
<1>5. CASE Discovered
  <2>1. cached' \in SUBSET Tickers /\ cached' # {}
    BY <1>5 DEF TypeOK, Discovered
  <2>2. CASE catalog' = TRUE /\ left' = Refresh /\ found' = TRUE /\ Streams
    BY <1>5, <2>1, <2>2, StreamsTyped, SearchOverTyped
    DEF TypeOK, Discovered, worldVars, Steps
  <2>3. CASE BacksOff /\ catalog' = FALSE /\ UNCHANGED <<left, found>>
    BY <1>5, <2>1, <2>3, BacksOffTyped, SearchOverTyped
    DEF TypeOK, Discovered, worldVars, Steps
  <2>. QED
    BY <1>5, <2>2, <2>3 DEF Discovered, WritesCatalog
<1>6. ASSUME NEW t \in Tickers, Prefer(t) PROVE TypeOK'
  <2>1. rows' \in SUBSET Tickers /\ prefer' \in SUBSET Tickers
    BY <1>6 DEF TypeOK, Prefer
  <2>. QED
    BY <1>6, <2>1 DEF TypeOK, Prefer, worldVars, choiceVars
<1>7. ASSUME NEW s \in Series, Fallback(s) PROVE TypeOK'
  <2>1. rows' \in SUBSET Tickers
    BY <1>7 DEF TypeOK, Fallback, InSeries
  <2>2. fallback' \in SUBSET Series
    BY <1>7 DEF TypeOK, Fallback
  <2>. QED
    BY <1>7, <2>1, <2>2 DEF TypeOK, Fallback, worldVars, choiceVars
<1>8. CASE StreamGoesOn
  BY <1>8, PassesTyped DEF TypeOK, StreamGoesOn, worldVars, searchVars, choiceVars
<1>9. CASE StreamTimesOut
  BY <1>9 DEF TypeOK, StreamTimesOut, worldVars, searchVars, choiceVars, Steps
<1>10. CASE StreamFails
  BY <1>10, BacksOffTyped DEF TypeOK, StreamFails, worldVars, searchVars, choiceVars, Steps
<1>11. CASE SleepGoesOn
  BY <1>11, PassesTyped DEF TypeOK, SleepGoesOn, worldVars, searchVars, choiceVars
<1>12. CASE WakeUp
  BY <1>12 DEF TypeOK, WakeUp, worldVars, searchVars, choiceVars, Steps
<1>13. CASE Die
  BY <1>13, SearchOverTyped, Restarted DEF TypeOK, Die, worldVars, Steps
<1>14. CASE Restart
  BY <1>14 DEF TypeOK, Restart, worldVars, searchVars, choiceVars, Steps
<1>15. CASE UNCHANGED vars
  BY <1>15 DEF TypeOK, vars
<1>. QED
  BY <1>1, <1>2, <1>3, <1>4, <1>5, <1>6, <1>7, <1>8, <1>9, <1>10, <1>11, <1>12,
     <1>13, <1>14, <1>15, <1>16 DEF Next, Cycle

LEMMA TypeInit == Init => TypeOK
<1>. SUFFICES ASSUME Init PROVE TypeOK
  OBVIOUS
<1>1. left \in 0..Refresh /\ backoff \in Initial..MaxBackoff
      /\ rest \in 0..(StreamMax + MaxBackoff) /\ since \in Nat
  BY Restarted DEF Init
<1>2. /\ prefer \in SUBSET Tickers /\ fallback \in SUBSET Series /\ rows \in SUBSET Tickers
      /\ cached \in SUBSET Tickers /\ pc \in Steps /\ pc # "stream"
      /\ calm \in BOOLEAN /\ catalog \in BOOLEAN /\ found \in BOOLEAN
  BY Zenon DEF Init, Steps
<1>. QED
  BY <1>1, <1>2 DEF Init, TypeOK

\* The watch's state keeps its types, and it never streams nothing.
THEOREM TypeCorrect == Spec => []TypeOK
<1>. QED
  BY TypeInit, TypeStep, PTL DEF Spec
-----------------------------------------------------------------------------
(* Time *)

Timed == InTime /\ Scheduled /\ Retried

LEMMA TimedInit == Init => Timed
<1>. SUFFICES ASSUME Init PROVE Timed
  OBVIOUS
<1>1. Within(Retry)
  BY DEF Init, Within, Fits
<1>. QED
  BY <1>1 DEF Init, Timed, InTime, Scheduled, Retried

\* A cycle goes on from a discovery just made.
LEMMA StartFits ==
  ASSUME NEW d \in Nat \ {0}, NEW l \in Nat, l <= d
  PROVE  /\ Fits(d, "stream", l, 0, StreamMax)
         /\ \A r \in 0..MaxBackoff : Fits(d, "sleep", l, 0, r)
  BY DEF Fits

LEMMA StartsWithin ==
  ASSUME NEW d \in Nat \ {0}, TypeOK, TypeOK', BacksOff \/ Streams, since' = 0, left' <= d
  PROVE  Within(d)' /\ pc' \in {"sleep", "stream"}
<1>1. PICK l \in Nat : left' = l
  BY DEF TypeOK
<1>2. CASE BacksOff
  BY <1>1, <1>2, BacksOffTyped, StartFits DEF Within
<1>3. CASE Streams
  BY <1>1, <1>3, StreamsTyped, StartFits DEF Within
<1>. QED
  BY <1>2, <1>3

\* The steps of a cycle that discover nothing.
Between ==
  \/ StreamAgain
  \/ StreamGoesOn \/ StreamTimesOut \/ StreamFails \/ SleepGoesOn \/ WakeUp \/ Die

\* What fits goes on fitting: a cycle begins, time passes, a stream ends.
LEMMA BetweenFits ==
  ASSUME NEW d \in Nat \ {0}, NEW p, NEW l \in Nat, NEW s \in Nat, NEW r \in Nat, Fits(d, p, l, s, r)
  PROVE  /\ l > 0 => Fits(d, "stream", l, s, StreamMax)
         /\ r > 0 /\ p \in {"stream", "sleep"} =>
              \A k \in {0, l - 1} : (l > 0 \/ k = 0) => Fits(d, p, k, s + 1, r - 1)
         /\ p = "stream" => \A q \in 0..MaxBackoff : Fits(d, "sleep", l, s, q)
         /\ \A q \in {"connect", "down"} : Fits(d, q, l, s, r) /\ Fits(d, q, 0, s, 0)
<1>1. l > 0 => Fits(d, "stream", l, s, StreamMax)
  BY DEF Fits
<1>2. ASSUME r > 0, p \in {"stream", "sleep"}, NEW k \in {0, l - 1}, l > 0 \/ k = 0
      PROVE  Fits(d, p, k, s + 1, r - 1)
  BY <1>2 DEF Fits
<1>3. ASSUME p = "stream", NEW q \in 0..MaxBackoff PROVE Fits(d, "sleep", l, s, q)
  BY <1>3 DEF Fits
<1>4. ASSUME NEW q \in {"connect", "down"} PROVE Fits(d, q, l, s, r) /\ Fits(d, q, 0, s, 0)
  BY <1>4 DEF Fits
<1>. QED
  BY <1>1, <1>2, <1>3, <1>4

LEMMA BetweenWithin ==
  ASSUME NEW d \in Nat \ {0}, TypeOK, Between, Within(d)
  PROVE  Within(d)'
<1>1. left \in Nat /\ since \in Nat /\ rest \in Nat /\ Fits(d, pc, left, since, rest)
  BY DEF TypeOK, Within
<1>2. CASE StreamAgain
  <2>1. rest' = StreamMax /\ pc' = "stream" /\ left' = left /\ left > 0 /\ since' = since
    BY <1>2, StreamsTyped DEF StreamAgain
  <2>. QED
    BY <1>1, <1>2, <2>1, BetweenFits DEF Within
<1>3. CASE StreamGoesOn \/ SleepGoesOn
  <2>1. /\ pc' = pc /\ rest' = rest - 1 /\ since' = since + 1
        /\ left' \in {0, left - 1} /\ (left > 0 \/ left' = 0)
        /\ rest > 0 /\ pc \in {"stream", "sleep"}
    BY <1>3 DEF StreamGoesOn, SleepGoesOn, Passes
  <2>2. Fits(d, pc, left', since + 1, rest - 1)
    BY <1>1, <2>1, BetweenFits
  <2>. QED
    BY <2>1, <2>2 DEF Within
<1>4. CASE StreamTimesOut
  <2>1. pc = "stream" /\ rest' = Healthy /\ pc' = "sleep" /\ since' = since /\ left' = left
    BY <1>4 DEF StreamTimesOut
  <2>2. Fits(d, "sleep", left, since, Healthy)
    BY <1>1, <2>1, BetweenFits
  <2>. QED
    BY <2>1, <2>2 DEF Within
<1>5. CASE StreamFails
  <2>1. pc = "stream" /\ rest' \in 0..MaxBackoff /\ pc' = "sleep" /\ since' = since /\ left' = left
    BY <1>5, BacksOffTyped DEF StreamFails
  <2>2. Fits(d, "sleep", left, since, rest')
    BY <1>1, <2>1, BetweenFits
  <2>. QED
    BY <2>1, <2>2 DEF Within
<1>6. CASE WakeUp
  <2>1. pc' = "connect" /\ rest' = rest /\ since' = since /\ left' = left
    BY <1>6 DEF WakeUp
  <2>. QED
    BY <1>1, <2>1, BetweenFits DEF Within
<1>7. CASE Die
  <2>1. pc' = "down" /\ rest' = 0 /\ since' = since /\ left' = 0
    BY <1>7 DEF Die
  <2>. QED
    BY <1>1, <2>1, BetweenFits DEF Within
<1>. QED
  BY <1>2, <1>3, <1>4, <1>5, <1>6, <1>7 DEF Between

LEMMA TimedStep == TypeOK /\ TypeOK' /\ Timed /\ [Next]_vars => Timed'
<1>. SUFFICES ASSUME TypeOK, TypeOK', Timed, [Next]_vars PROVE Timed'
  OBVIOUS
<1>a. left \in 0..Refresh /\ found \in BOOLEAN
  BY DEF TypeOK
<1>b. Refresh \in Nat \ {0} /\ Retry \in Nat \ {0} /\ Retry <= Refresh
  OBVIOUS
<1>1. CASE UNCHANGED <<pc, cached, catalog, left, rest, found, since>>
  BY <1>1 DEF Timed, InTime, Within, Fits, Scheduled, Retried
<1>2. CASE Between
  <2>1. found' = found
    BY <1>2 DEF Between, StreamAgain, StreamGoesOn, StreamTimesOut, StreamFails, SleepGoesOn, WakeUp, Die
  <2>2. InTime'
    BY <1>2, <1>b, <2>1, BetweenWithin DEF Timed, InTime
  <2>3. /\ (left' = left /\ cached' = cached) \/ (left' <= left /\ cached' = cached) \/ left' = 0
        /\ catalog' = catalog \/ left' = 0
        /\ pc' # "discover" /\ (pc' = "down" => left' = 0)
        /\ left' \in Nat
    BY <1>2, <1>a, StreamsTyped, BacksOffTyped, PassesTyped
    DEF Between, StreamAgain, StreamGoesOn, StreamTimesOut, StreamFails, SleepGoesOn, WakeUp, Die, choiceVars
  <2>. QED
    BY <1>a, <1>b, <2>1, <2>2, <2>3 DEF Timed, Scheduled, Retried
<1>3. CASE Discover
  <2>1. /\ left' = left /\ cached' = cached /\ catalog' = catalog
        /\ since' = 0 /\ found' = FALSE /\ pc # "discover"
        /\ pc' = "discover" \/ BacksOff
    BY <1>3 DEF Discover, choiceVars
  <2>2. left <= Retry
    BY <1>3, <1>a, <1>b DEF Discover, Timed, InTime, Within, Fits, Scheduled, TypeOK
  <2>3. CASE pc' = "discover"
    BY <2>3, <1>a, <1>b, <2>1, <2>2 DEF Timed, InTime, Within, Fits, Scheduled, Retried
  <2>4. CASE BacksOff
    <3>1. Within(Retry)' /\ pc' \in {"sleep", "stream"}
      BY <1>b, <2>1, <2>2, <2>4, StartsWithin
    <3>. QED
      BY <2>1, <2>2, <3>1 DEF Timed, InTime, Scheduled, Retried
  <2>. QED
    BY <2>1, <2>3, <2>4
<1>4. CASE DiscoveryFails \/ FindsNothing
  <2>1. since' = 0 /\ found' = FALSE /\ left' <= Retry /\ (BacksOff \/ Streams)
    BY <1>4, <1>a, <1>b
    DEF DiscoveryFails, FindsNothing, RetriesSoon, KeepsOn, Timed, Scheduled
  <2>2. Within(Retry)' /\ pc' \in {"sleep", "stream"}
    BY <1>b, <2>1, StartsWithin
  <2>. QED
    BY <2>1, <2>2 DEF Timed, InTime, Scheduled, Retried
<1>5. CASE Discovered
  <2>1. cached' # {} /\ since' = 0 /\ left <= Retry /\ ~found
    BY <1>5 DEF Discovered, Timed, Scheduled
  <2>2. CASE catalog' = TRUE /\ left' = Refresh /\ found' = TRUE /\ Streams
    <3>1. Within(Refresh)' /\ pc' \in {"sleep", "stream"}
      BY <1>b, <2>1, <2>2, StartsWithin
    <3>. QED
      BY <2>1, <2>2, <3>1 DEF Timed, InTime, Scheduled, Retried
  <2>3. CASE BacksOff /\ catalog' = FALSE /\ UNCHANGED <<left, found>>
    <3>1. Within(Retry)' /\ pc' \in {"sleep", "stream"}
      BY <1>b, <2>1, <2>3, StartsWithin
    <3>. QED
      BY <2>1, <2>3, <3>1 DEF Timed, InTime, Scheduled, Retried
  <2>. QED
    BY <1>5, <2>2, <2>3 DEF Discovered, WritesCatalog
<1>6. CASE Restart
  <2>1. pc = "down" /\ pc' = "connect" /\ left' = left /\ catalog' = catalog /\ since' = 0 /\ found' = FALSE
    BY <1>6 DEF Restart, choiceVars
  <2>2. left = 0
    BY <2>1 DEF Timed, Scheduled
  <2>. QED
    BY <1>b, <2>1, <2>2 DEF Timed, InTime, Within, Fits, Scheduled, Retried
<1>7. CASE Unrest \/ (\E t \in Tickers : Prefer(t)) \/ (\E s \in Series : Fallback(s))
  BY <1>1, <1>7 DEF Unrest, Prefer, Fallback, choiceVars
<1>. QED
  BY <1>1, <1>2, <1>3, <1>4, <1>5, <1>6, <1>7 DEF Next, Cycle, Between, vars

\* However many streams, writes and discoveries fail, the next discovery comes
\* within a cycle of its time.
THEOREM DiscoveriesKeepComing == Spec => []DiscoveryInTime
<1>1. TypeOK /\ Timed /\ [Next]_vars => (TypeOK /\ Timed)'
  BY TypeStep, TimedStep
<1>2. Timed => DiscoveryInTime
  BY DEF Timed, InTime, Within, Fits, DiscoveryInTime
<1>. QED
  BY TypeInit, TimedInit, <1>1, <1>2, PTL DEF Spec

\* A catalog write that fails is made up for after a retry interval, not after
\* a whole refresh interval.
THEOREM CatalogIsRetried == Spec => []CatalogSoonRight
<1>1. TypeOK /\ Timed /\ [Next]_vars => (TypeOK /\ Timed)'
  BY TypeStep, TimedStep
<1>2. Timed => CatalogSoonRight
  BY DEF Timed, Retried, CatalogSoonRight
<1>. QED
  BY TypeInit, TimedInit, <1>1, <1>2, PTL DEF Spec

=============================================================================
