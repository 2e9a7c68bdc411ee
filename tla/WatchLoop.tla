------------------------------ MODULE WatchLoop ------------------------------
(***************************************************************************)
(* The watch service around the orderbook stream.  Every cycle it finds    *)
(* out which markets to stream, if the last discovery is too old, streams  *)
(* them for a while, and sleeps: shortly after a full stream, with         *)
(* exponential backoff after a failure.                                    *)
(*                                                                         *)
(* A discovery first asks for the tickers of the decision refresh's        *)
(* manifest, then fills every series with open markets whose books are not *)
(* empty.  It replaces the tickers in memory and then writes the catalog,  *)
(* the file the decision refresh imports its active markets from.          *)
(*                                                                         *)
(* Time is counted in units that pass only while the service streams or    *)
(* sleeps.  What happens inside a stream is module OrderbookStream.        *)
(***************************************************************************)
EXTENDS Integers, FiniteSets

CONSTANTS
  Tickers,     \* markets of the exchange
  Series,      \* the series the service watches
  SeriesOf,    \* the series of each ticker
  MaxListed,   \* max_markets_per_series: the one page of a series' open markets asked for
  MaxQuoted,   \* max_quoted_per_series
  MaxPreferred,  \* max_preferred_tickers: how much of the manifest is read
  Refresh,     \* discovery_refresh_seconds
  Retry,       \* the minute after which a failed discovery is tried again
  StreamMax,   \* stream_max_seconds
  Initial, MaxBackoff,  \* reconnect_initial_seconds, reconnect_max_seconds
  Healthy      \* healthy_cycle_delay_seconds

ASSUME WatchAssumption ==
  /\ SeriesOf \in [Tickers -> Series]
  /\ MaxListed \in Nat \ {0} /\ MaxQuoted \in Nat \ {0} /\ MaxPreferred \in Nat \ {0}
  /\ StreamMax \in Nat \ {0}
  /\ Refresh \in Nat \ {0} /\ Retry \in 1..Refresh
  /\ Initial \in Nat \ {0} /\ MaxBackoff \in Nat \ {0} /\ Initial <= MaxBackoff
  /\ Healthy \in 0..MaxBackoff

VARIABLES
  quoted,   \* the exchange: markets whose books are not empty
  listed,   \* the exchange: those of them that are open and in the first page of their series
  manifest, \* the first tickers of the manifest the decision refresh published
  calm,     \* the exchange, the network and the disk are at rest
  pc,
  prefer,   \* manifest tickers this discovery has not asked for yet
  fallback, \* series this discovery has not filled yet
  rows,     \* tickers this discovery has found
  cached,   \* cached_tickers
  catalog,  \* the catalog file is of the discovery cached_tickers came from
  left,     \* time to next_discovery_at
  backoff,  \* backoff_seconds
  rest,     \* time this stream, or this sleep, has left
  found,    \* history: the last discovery raised nothing and found a book
  since     \* history: time since a discovery was last due and tried

vars == <<quoted, listed, manifest, calm, pc, prefer, fallback, rows, cached, catalog,
          left, backoff, rest, found, since>>
worldVars == <<quoted, listed, manifest, calm>>
searchVars == <<prefer, fallback, rows>>
choiceVars == <<cached, catalog>>

Steps == {"down", "connect", "discover", "stream", "sleep"}
InSeries(s) == {t \in Tickers : SeriesOf[t] = s}
Least(a, b) == IF a <= b THEN a ELSE b

\* What get_markets may list of some markets, and what load_actionable_tickers may return.
Listings(S) ==
  {L \in SUBSET S : \A s \in Series : Cardinality(L \cap InSeries(s)) <= MaxListed}
Manifests == {M \in SUBSET Tickers : Cardinality(M) <= MaxPreferred}

-----------------------------------------------------------------------------
(* The exchange, the decision refresh and the weather *)

\* Unrest ends in the runs that ask what must happen in the end.
Unrest ==
  /\ ~calm
  /\ \/ /\ quoted' \in SUBSET Tickers /\ listed' \in Listings(quoted')
        /\ UNCHANGED <<manifest, calm>>
     \/ manifest' \in Manifests /\ UNCHANGED <<quoted, listed, calm>>
     \/ calm' = TRUE /\ UNCHANGED <<quoted, listed, manifest>>
  /\ UNCHANGED <<pc, searchVars, choiceVars, left, backoff, rest, found, since>>

-----------------------------------------------------------------------------
(* A cycle *)

\* The delay is the backoff so far, and the next one is twice as long.
BacksOff ==
  /\ pc' = "sleep" /\ rest' = backoff
  /\ backoff' = Least(2 * backoff, MaxBackoff)

Streams == pc' = "stream" /\ rest' = StreamMax /\ UNCHANGED backoff

\* The rows of a discovery are not used after it.
SearchOver == prefer' = {} /\ fallback' = {} /\ rows' = {}

\* Mistake: a cycle that found nothing streams what there is, be it nothing.
StreamsAnyway == Streams

\* What a cycle goes on with when it has found nothing: the tickers it had.
KeepsOn == IF cached = {} THEN BacksOff ELSE Streams

\* A discovery is due: it begins, or its status file cannot be written.
Discover ==
  /\ pc = "connect" /\ (cached = {} \/ left = 0)
  /\ since' = 0 /\ found' = FALSE
  /\ \/ /\ pc' = "discover"
        /\ prefer' = manifest /\ fallback' = Series /\ rows' = {}
        /\ UNCHANGED <<backoff, rest>>
     \/ ~calm /\ BacksOff /\ SearchOver
  /\ UNCHANGED <<worldVars, choiceVars, left>>

\* The tickers of an earlier discovery will do.
StreamAgain ==
  /\ pc = "connect" /\ cached # {} /\ left > 0
  /\ Streams
  /\ UNCHANGED <<worldVars, searchVars, choiceVars, left, found, since>>

\* Mistake: a preferred ticker is kept only when its book has levels.
PreferQuoted(t) ==
  /\ pc = "discover" /\ t \in prefer
  /\ prefer' = prefer \ {t}
  /\ \/ ~calm /\ UNCHANGED rows
     \/ rows' = rows \cup ({t} \cap quoted)
  /\ UNCHANGED <<worldVars, pc, fallback, choiceVars, left, backoff, rest, found, since>>

\* get_orderbook of the next preferred ticker may fail; a ticker with an empty
\* book, or without a market, is kept for the stream to recover.
Prefer(t) ==
  /\ pc = "discover" /\ t \in prefer
  /\ prefer' = prefer \ {t}
  /\ \/ ~calm /\ UNCHANGED rows
     \/ rows' = rows \cup {t}
  /\ UNCHANGED <<worldVars, pc, fallback, choiceVars, left, backoff, rest, found, since>>

\* Mistake: the quota counts the rows of every series.
AnyRoom(s) == MaxQuoted - Cardinality(rows)

\* What max_quoted_per_series leaves after the preferred tickers.
Room(s) == MaxQuoted - Cardinality(rows \cap InSeries(s))

\* The next series: as many markets with a book as there is room for, from one page
\* of its open markets.
Fallback(s) ==
  /\ pc = "discover" /\ prefer = {} /\ s \in fallback
  /\ fallback' = fallback \ {s}
  /\ LET open == (InSeries(s) \ rows) \cap listed
     IN  \/ Room(s) <= 0 /\ UNCHANGED rows
         \/ /\ Room(s) > 0
            /\ \E S \in SUBSET open :
                 /\ Cardinality(S) = Least(Room(s), Cardinality(open))
                 /\ rows' = rows \cup S
  /\ UNCHANGED <<worldVars, pc, prefer, choiceVars, left, backoff, rest, found, since>>

\* Mistake: a failed discovery waits as long as a good one.
RetriesLate == left' = Refresh

RetriesSoon == left' = Retry

\* get_markets or get_orderbook of a series raises.
DiscoveryFails ==
  /\ pc = "discover" /\ prefer = {} /\ ~calm
  /\ \E s \in fallback : Room(s) > 0
  /\ RetriesSoon
  /\ KeepsOn /\ SearchOver
  /\ UNCHANGED <<worldVars, choiceVars, found, since>>

\* No ticker at all: next_discovery_at stays as it was.
FindsNothing ==
  /\ pc = "discover" /\ prefer = {} /\ fallback = {} /\ rows = {}
  /\ KeepsOn /\ SearchOver
  /\ UNCHANGED <<worldVars, choiceVars, left, found, since>>

\* Mistake: the next discovery is scheduled before the catalog is written.
ScheduledFirst ==
  \/ catalog' = TRUE /\ left' = Refresh /\ found' = TRUE /\ Streams
  \/ ~calm /\ left' = Refresh /\ BacksOff /\ catalog' = FALSE /\ UNCHANGED found

\* The catalog is replaced in one piece, and the next discovery scheduled; or
\* the write fails and the cycle backs off.
WritesCatalog ==
  \/ catalog' = TRUE /\ left' = Refresh /\ found' = TRUE /\ Streams
  \/ ~calm /\ BacksOff /\ catalog' = FALSE /\ UNCHANGED <<left, found>>

\* The tickers in memory are replaced before the catalog is written.
Discovered ==
  /\ pc = "discover" /\ prefer = {} /\ fallback = {} /\ rows # {}
  /\ cached' = rows
  /\ WritesCatalog /\ SearchOver
  /\ UNCHANGED <<worldVars, since>>

-----------------------------------------------------------------------------
(* Streaming and sleeping *)

\* A unit of time.
Passes ==
  /\ rest > 0 /\ rest' = rest - 1
  /\ left' = (IF left > 0 THEN left - 1 ELSE 0)
  /\ since' = since + 1

StreamGoesOn ==
  /\ pc = "stream" /\ Passes
  /\ UNCHANGED <<worldVars, pc, searchVars, choiceVars, backoff, found>>

\* The stream's time is over: a healthy cycle.
StreamTimesOut ==
  /\ pc = "stream" /\ rest = 0
  /\ pc' = "sleep" /\ rest' = Healthy /\ backoff' = Initial
  /\ UNCHANGED <<worldVars, searchVars, choiceVars, left, found, since>>

\* The stream closes or raises.
StreamFails ==
  /\ pc = "stream" /\ rest > 0 /\ ~calm
  /\ BacksOff
  /\ UNCHANGED <<worldVars, searchVars, choiceVars, left, found, since>>

SleepGoesOn ==
  /\ pc = "sleep" /\ Passes
  /\ UNCHANGED <<worldVars, pc, searchVars, choiceVars, backoff, found>>

WakeUp ==
  /\ pc = "sleep" /\ rest = 0
  /\ pc' = "connect"
  /\ UNCHANGED <<worldVars, searchVars, choiceVars, left, backoff, rest, found, since>>

\* The service dies, and with it all it had in memory.
Die ==
  /\ pc # "down" /\ ~calm
  /\ pc' = "down" /\ SearchOver
  /\ cached' = {} /\ catalog' = FALSE /\ left' = 0 /\ backoff' = Initial /\ rest' = 0
  /\ UNCHANGED <<worldVars, found, since>>

\* systemd starts it again.
Restart ==
  /\ pc = "down"
  /\ pc' = "connect" /\ since' = 0 /\ found' = FALSE
  /\ UNCHANGED <<worldVars, searchVars, choiceVars, left, backoff, rest>>

-----------------------------------------------------------------------------
Init ==
  /\ quoted \in SUBSET Tickers /\ listed \in Listings(quoted)
  /\ manifest \in Manifests /\ calm = FALSE
  /\ pc = "connect" /\ prefer = {} /\ fallback = {} /\ rows = {}
  /\ cached = {} /\ catalog = FALSE
  /\ left = 0 /\ backoff = Initial /\ rest = 0
  /\ found = FALSE /\ since = 0

Cycle ==
  \/ Discover \/ StreamAgain \/ DiscoveryFails \/ FindsNothing \/ Discovered
  \/ (\E t \in Tickers : Prefer(t)) \/ (\E s \in Series : Fallback(s))
  \/ StreamGoesOn \/ StreamTimesOut \/ StreamFails \/ SleepGoesOn \/ WakeUp
  \/ Restart

Next == Unrest \/ Cycle \/ Die

Spec == Init /\ [][Next]_vars

\* The process runs, and systemd restarts it; nothing is promised of the world.
FairSpec == Spec /\ WF_vars(Cycle)

-----------------------------------------------------------------------------
(* Properties *)

\* The state has its types, and the watch never streams no tickers.
TypeOK ==
  /\ quoted \in SUBSET Tickers /\ listed \in Listings(quoted)
  /\ manifest \in Manifests /\ calm \in BOOLEAN
  /\ pc \in Steps
  /\ prefer \in SUBSET Tickers /\ fallback \in SUBSET Series /\ rows \in SUBSET Tickers
  /\ cached \in SUBSET Tickers /\ catalog \in BOOLEAN
  /\ left \in 0..Refresh /\ backoff \in Initial..MaxBackoff
  /\ rest \in 0..(StreamMax + MaxBackoff) /\ since \in Nat
  /\ found \in BOOLEAN
  /\ pc = "stream" => cached # {}

\* While the watch streams tickers the catalog is not about, because a write
\* failed, it never waits longer for the next discovery than after a failed one.
CatalogSoonRight ==
  pc = "stream" /\ ~catalog => left <= Retry

\* Whatever streams, writes and discoveries fail, the next discovery starts
\* within one cycle of its time: the refresh interval after a good one, the
\* retry interval after a bad one.
DiscoveryInTime ==
  since < (IF found THEN Refresh ELSE Retry) + StreamMax + MaxBackoff

Streamed(t) == pc = "stream" /\ t \in cached

\* Once the world is calm, every candidate the decision refresh asks for, as far
\* as its manifest is read, is streamed again and again, even while its book is empty.
CandidatesStreamed ==
  \A t \in Tickers : <>[](calm /\ t \in manifest) => []<>Streamed(t)

\* Once the world is calm, a series with a quoted market in its first page has a
\* quoted one streamed, provided the manifest does not crowd it out with tickers that
\* have none. A quoted market behind the first page is not looked for.
SeriesServed ==
  \A s \in Series :
    <>[](calm /\ InSeries(s) \cap listed # {} /\ manifest \subseteq quoted)
      => []<>(\E t \in InSeries(s) \cap quoted : Streamed(t))

=============================================================================
