--------------------------- MODULE MCWatchMonitor ---------------------------
(* Values for model-checking WatchMonitor, and the rate limiter its prices come *)
(* through (TokenBucket).                                                       *)
EXTENDS WatchMonitor, TokenBucket

AllFailures == {"price", "chart", "database"}
AnalystResistances == <<3>>
AnalystSupports == <<1, 3>>

\* No property relates the two: they are explored one at a time, each beside one
\* initial state of the other.  What an idle caller needs does not matter.
MarketStill == Init /\ price = [t \in Tickers |-> 1]
NobodyCalls == BucketInit /\ need = [c \in Callers |-> 1]

PollingInit == Init /\ NobodyCalls

PollingNext ==
  \/ Next /\ NobodyCalls /\ window = 0 /\ UNCHANGED bucketVars
  \/ BucketNext /\ MarketStill /\ UNCHANGED vars

PollingSpec == PollingInit /\ [][PollingNext]_<<vars, bucketVars>>
=============================================================================
