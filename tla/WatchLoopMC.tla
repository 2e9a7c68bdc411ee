----------------------------- MODULE WatchLoopMC -----------------------------
\* Instance of WatchLoop: two markets of one series and one of another, and
\* cycles short enough for a refresh interval to end inside any of them.
EXTENDS WatchLoop
CONSTANTS t1, t2, u1, crypto, weather
SeriesOfTicker == [t \in {t1, t2, u1} |-> IF t = u1 THEN weather ELSE crypto]
=============================================================================
