---------------------------- MODULE LitePipeline ----------------------------
(***************************************************************************)
(* The single-container mode: one task that scores the prints of the       *)
(* provider one at a time (Pipeline, app/pipeline/realtime.py), over an    *)
(* in-memory stand-in for Redis (core/redis_client.py) that caches what    *)
(* the context providers fetch and fans the scored flow out to the         *)
(* websocket clients.  The alert gate and the dispatch are those of        *)
(* AlertGate, with this process as the only replica.                       *)
(*                                                                         *)
(* The task awaits its fetches, the provider and the alert channels; there *)
(* time passes.  Clients come, hear and go.  A step may fail: process()  *)
(* is abandoned, and the next print is taken.  A crash loses all but the   *)
(* database.  Which prints qualify for an alert is given by a constant here.*)
(***************************************************************************)
EXTENDS Trackers

CONSTANTS
  Feed,          \* the prints the provider has, each with its contract
  Qualifying,    \* those should_alert() is true of
  Clients,       \* one connection each
  Channels, Configured, Never, Grace, Cooldown,   \* see AlertGate
  ContextTTL, EarningsTTL, RegimeTTL,             \* CACHE_TTL of the providers
  FetchMax,      \* a fetch is over (or timed out) after so many ticks
  Nothing,       \* no cache entry, no print
  MaxTime, MaxBoots, MaxFaults   \* bounds: the clock, starts, abandoned prints

\* Context and earnings are cached per ticker in the code; the model has one entry of each.
ASSUME OneTicker == \A p, q \in Feed : p.ticker = q.ticker

ASSUME LiteAssumption ==
  /\ IsFiniteSet(Feed) /\ Nothing \notin Feed
  /\ \A p \in Feed : p.contract \in Contracts /\ p.ticker \in Tickers /\ p.sweep \in BOOLEAN
  /\ {ContextTTL, EarningsTTL, RegimeTTL, FetchMax, MaxTime, MaxBoots, MaxFaults} \subseteq Nat

VARIABLES
  now, boots, started, last, pc, subject, status, heard, audit,   \* AlertGate's
  stage,      \* where process() is
  print,      \* the print it processes
  since,      \* when the current fetch began
  sampled,    \* when the data in hand were fetched
  cache,      \* _MemoryRedis._kv
  trackers,
  seen,       \* UnusualWhalesProvider._seen
  arrivals,   \* every print recorded since the start, and when
  rows,       \* the stored flow: print, signals, and which arrival it was
  faults,
  published,  \* payloads handed to the broker, in order
  joined,     \* how many there were when a client subscribed
  inbox,      \* the client's queue in the broker
  got,        \* what the client received
  link        \* its connection, as the server sees it

Lite == "lite"

Gate == INSTANCE AlertGate WITH Replicas <- {Lite}

gateVars == <<boots, started, last, pc, subject, status, heard, audit>>
workVars == <<stage, print, since, sampled, cache, trackers, seen, arrivals, rows, faults>>
liveVars == <<published, joined, inbox, got, link>>
vars == <<now, gateVars, workVars, liveVars>>

Keys == {"context", "earnings", "regime"}
Fetching == {"polygon", "finnhub", "vix"}

TTL == [context |-> ContextTTL, earnings |-> EarningsTTL, regime |-> RegimeTTL]

EmptyCache == [key \in Keys |-> Nothing]

-----------------------------------------------------------------------------
(* The process: time, start, crash, a failed step. *)

Tick ==
  /\ Gate!Tick
  /\ stage \in Fetching => now - since < FetchMax
  /\ stage \in Fetching \cup {"idle"}
  /\ UNCHANGED <<workVars, liveVars>>

Start ==
  /\ Gate!Start(Lite)
  /\ stage' = "idle"
  /\ trackers' = NoTrackers
  /\ cache' = EmptyCache
  /\ seen' = {}
  /\ arrivals' = <<>>
  /\ rows' = {}     \* the rows of earlier runs are not looked at again
  /\ UNCHANGED <<print, since, sampled, faults, liveVars>>

Crash ==
  /\ Gate!Stop(Lite)
  /\ stage' = "down"
  /\ link' = [c \in Clients |-> IF link[c] = "off" THEN "off" ELSE "closed"]
  /\ inbox' = [c \in Clients |-> <<>>]
  /\ UNCHANGED <<print, since, sampled, cache, trackers, seen, arrivals, rows, faults,
                 published, joined, got>>

\* An exception out of process() is logged by run().
Abandon ==
  /\ faults < MaxFaults
  /\ faults' = faults + 1
  /\ stage' = "idle"
  /\ print' = Nothing

-----------------------------------------------------------------------------
(* The caches. *)

\* _MemoryRedis.get(): an entry may be served until it has expired.
Mutant_NeverExpires(key) == cache[key] # Nothing
Cached(key) == cache[key] # Nothing /\ cache[key].until >= now

\* setex()
Mutant_OneTTL(key, data) ==
  cache' = [cache EXCEPT ![key] = [until |-> now + EarningsTTL, data |-> data]]
Store(key, data) == cache' = [cache EXCEPT ![key] = [until |-> now + TTL[key], data |-> data]]

\* The data in hand, with those of a cache entry.
Refreshed(data) == [key \in Keys |-> IF key \in DOMAIN data THEN data[key] ELSE sampled[key]]

\* A lookup that is answered from the cache, or begins a fetch.
LookUp(key, onHit, onMiss) ==
  /\ stage = key
  /\ IF Cached(key)
     THEN /\ sampled' = Refreshed(cache[key].data)
          /\ stage' = onHit
          /\ UNCHANGED since
     ELSE /\ stage' = onMiss
          /\ since' = now
          /\ UNCHANGED sampled
  /\ UNCHANGED <<now, gateVars, print, cache, trackers, seen, arrivals, rows, faults, liveVars>>

\* get_context(), days_to_earnings() (inside it) and get_regime()
LookUpContext  == LookUp("context", "regime", "polygon")
LookUpEarnings == LookUp("earnings", "priors", "finnhub")
LookUpRegime   == LookUp("regime", "score", "vix")

\* A fetch ends, with data or (on an error) with none; either may be as old as
\* the request.
FetchEnds ==
  /\ \/ /\ stage = "polygon" /\ stage' = "earnings"
        /\ sampled' = [sampled EXCEPT !.context = since]
        /\ UNCHANGED cache
     \/ /\ stage = "finnhub" /\ stage' = "priors"
        /\ sampled' = [sampled EXCEPT !.earnings = since]
        /\ Store("earnings", [earnings |-> since])
     \/ /\ stage = "vix" /\ stage' = "score"
        /\ sampled' = [sampled EXCEPT !.regime = since]
        /\ Store("regime", [regime |-> since])
  /\ since' = 0
  /\ UNCHANGED <<now, gateVars, print, trackers, seen, arrivals, rows, faults, liveVars>>

\* The end of get_context(): the context is cached, earnings and all, unless the
\* priors file could not be read.
Priors ==
  /\ stage = "priors"
  /\ \/ /\ Store("context", [context |-> sampled.context, earnings |-> sampled.earnings])
        /\ stage' = "regime"
        /\ UNCHANGED <<print, faults>>
     \/ Abandon /\ UNCHANGED cache
  /\ UNCHANGED <<now, gateVars, since, sampled, trackers, seen, arrivals, rows, liveVars>>

-----------------------------------------------------------------------------
(* process() *)

\* The provider yields a print it has not yielded since the start.
Take(p) ==
  /\ stage = "idle" /\ pc[Lite] = "idle"
  /\ p \notin seen
  /\ seen' = seen \cup {p}
  /\ print' = p
  /\ stage' = "context"
  /\ UNCHANGED <<now, gateVars, since, sampled, cache, trackers, arrivals, rows, faults, liveVars>>

\* The trackers take note of the print, and it is scored with what they answer.
Score ==
  /\ stage = "score"
  /\ trackers' = Recorded(trackers, print, now)
  /\ arrivals' = Append(arrivals, [print |-> print, at |-> now,
                                   signals |-> Signals(trackers, print, now)])
  /\ sampled' = [key \in Keys |-> 0]
  /\ stage' = "store"
  /\ UNCHANGED <<now, gateVars, print, since, cache, seen, rows, faults, liveVars>>

\* _persist()
Persist ==
  /\ stage = "store"
  /\ \/ /\ rows' = rows \cup {Len(arrivals)}
        /\ stage' = "publish"
        /\ UNCHANGED <<print, faults>>
     \/ Abandon /\ UNCHANGED rows
  /\ UNCHANGED <<now, gateVars, since, sampled, cache, trackers, seen, arrivals, liveVars>>

Listening == {c \in Clients : link[c] \in {"on", "gone", "leaving"}}

\* _Broker.publish(): into the queue of every subscriber.
Mutant_OneQueue(n) ==
  inbox' = [c \in Clients |-> IF c \in Listening /\ inbox[c] = <<>> THEN <<n>> ELSE inbox[c]]
FanOut(n) ==
  inbox' = [c \in Clients |-> IF c \in Listening THEN Append(inbox[c], n) ELSE inbox[c]]

\* publish(), and then the gate, if the print qualifies.
Announce ==
  /\ stage = "publish"
  /\ FanOut(Len(arrivals))
  /\ published' = Append(published, Len(arrivals))
  /\ IF print \in Qualifying
     THEN Gate!Ask(Lite, print.contract)
     ELSE UNCHANGED <<now, gateVars>>
  /\ stage' = "idle"
  /\ print' = Nothing
  /\ UNCHANGED <<since, sampled, cache, trackers, seen, arrivals, rows, faults,
                 joined, got, link>>

\* dispatch() and _record_alert(), as in AlertGate; no print is taken meanwhile.
\* Here a failure to record ends process() only.
Dispatch ==
  /\ \/ \E ch \in Channels : Gate!Send(Lite, ch)
     \/ Gate!Record(Lite)
  /\ UNCHANGED <<workVars, liveVars>>

RecordFails ==
  /\ pc[Lite] = "dispatch"
  /\ \A ch \in Channels : status[Lite][ch] # "pending"
  /\ Abandon
  /\ pc' = [pc EXCEPT ![Lite] = "idle"]
  /\ UNCHANGED <<now, boots, started, last, subject, status, heard, audit, since, sampled,
                 cache, trackers, seen, arrivals, rows, liveVars>>

-----------------------------------------------------------------------------
(* /ws/flow: a client, and the coroutine that serves it. *)

Subscribe(c) ==
  /\ link[c] = "off" /\ stage # "down"
  /\ link' = [link EXCEPT ![c] = "on"]
  /\ joined' = [joined EXCEPT ![c] = Len(published)]
  /\ UNCHANGED <<now, gateVars, workVars, published, inbox, got>>

\* The client goes away; nobody reads from the socket, so nobody notices.
HangUp(c) ==
  /\ link[c] = "on"
  /\ link' = [link EXCEPT ![c] = "gone"]
  /\ UNCHANGED <<now, gateVars, workVars, published, joined, inbox, got>>

\* The next payload of the queue is sent.  To a client that is gone that fails,
\* which ends the loop over subscribe().
Serve(c) ==
  /\ link[c] \in {"on", "gone"}
  /\ inbox[c] # <<>>
  /\ inbox' = [inbox EXCEPT ![c] = Tail(@)]
  /\ IF link[c] = "on"
     THEN got' = [got EXCEPT ![c] = Append(@, Head(inbox[c]))] /\ UNCHANGED link
     ELSE link' = [link EXCEPT ![c] = "leaving"] /\ UNCHANGED got
  /\ UNCHANGED <<now, gateVars, workVars, published, joined>>

\* The generator is finalised: _Broker.remove().
Mutant_NotRemoved(c) == FALSE
Unsubscribe(c) ==
  /\ link[c] = "leaving"
  /\ link' = [link EXCEPT ![c] = "closed"]
  /\ inbox' = [inbox EXCEPT ![c] = <<>>]
  /\ UNCHANGED <<now, gateVars, workVars, published, joined, got>>

-----------------------------------------------------------------------------

LiveFeed == INSTANCE LiveFeed WITH
  MaxFlows <- MaxBoots * Cardinality(Feed), over <- {c \in Clients : link[c] \notin {"off", "on"}}

Init ==
  /\ Gate!Init
  /\ stage = "down" /\ print = Nothing /\ since = 0
  /\ sampled = [key \in Keys |-> 0]
  /\ cache = EmptyCache
  /\ trackers = NoTrackers
  /\ seen = {} /\ arrivals = <<>> /\ rows = {} /\ faults = 0
  /\ published = <<>>
  /\ joined = [c \in Clients |-> LiveFeed!NotJoined]
  /\ inbox = [c \in Clients |-> <<>>]
  /\ got = [c \in Clients |-> <<>>]
  /\ link = [c \in Clients |-> "off"]

Next ==
  \/ Tick \/ Start \/ Crash
  \/ \E p \in Feed : Take(p)
  \/ LookUpContext \/ LookUpEarnings \/ LookUpRegime \/ FetchEnds \/ Priors
  \/ Score \/ Persist \/ Announce \/ Dispatch \/ RecordFails
  \/ \E c \in Clients : Subscribe(c) \/ HangUp(c) \/ Serve(c) \/ Unsubscribe(c)

\* The event loop runs the coroutine of a client whose queue has something, and
\* the finaliser of one that ended.
Spec ==
  /\ Init /\ [][Next]_vars
  /\ \A c \in Clients : WF_vars(Serve(c)) /\ WF_vars(Unsubscribe(c))

-----------------------------------------------------------------------------
(* Properties. *)

\* Every variable of this module has its type, and no window outgrows its maxlen.
TypeOK ==
  /\ stage \in {"down", "idle", "context", "polygon", "earnings", "finnhub", "priors",
                "regime", "vix", "score", "store", "publish"}
  /\ print \in Feed \cup {Nothing}
  /\ since \in 0..MaxTime
  /\ sampled \in [Keys -> 0..MaxTime]
  /\ seen \subseteq Feed
  /\ \A s \in Tickers : Len(trackers.prints[s]) <= MaxEvents /\ Len(trackers.ivs[s]) <= MaxEvents
  /\ \A k \in Contracts : Len(trackers.follows[k]) <= MaxEvents
  /\ rows \subseteq DOMAIN arrivals
  /\ Len(arrivals) <= Cardinality(Feed)
  /\ faults \in 0..MaxFaults
  /\ link \in [Clients -> {"off", "on", "gone", "leaving", "closed"}]

\* The arrivals up to the n-th that were not older than window when it came.
Within(n, window) == {i \in 1..n : arrivals[n].at - arrivals[i].at <= window}

\* Of those, the ones there is room for: the newest.
Newest(S) == {i \in S : Cardinality({j \in S : j > i}) < MaxEvents}

\* What a window has of the arrivals of S, one after the other.
Listed(S, entry) ==
  [k \in 1..Cardinality(S) |-> entry[CHOOSE i \in S : Cardinality({j \in S : j < i}) = k - 1]]

\* The IVs an IV is ranked among.
Ranked(S, entry) == {entry[i].iv : i \in S}

Arrived == DOMAIN arrivals
SweepsOf(k)  == {i \in Arrived : arrivals[i].print.sweep /\ arrivals[i].print.contract = k}
PrintsOf(s)  == {i \in Arrived : arrivals[i].print.ticker = s}
IvsOf(s)     == {i \in PrintsOf(s) : arrivals[i].print.iv # Unknown}
FollowsOf(k) == {i \in Arrived : arrivals[i].print.contract = k}

\* What the trackers note of an arrival.
SweepNote  == [i \in Arrived |-> [at |-> arrivals[i].at]]
PrintNote  == [i \in Arrived |->
                 [at |-> arrivals[i].at, strike |-> arrivals[i].print.strike,
                  premium |-> arrivals[i].print.premium, call |-> arrivals[i].print.call]]
IvNote     == [i \in Arrived |-> [at |-> arrivals[i].at, iv |-> arrivals[i].print.iv]]
FollowNote == [i \in Arrived |-> [at |-> arrivals[i].at, premium |-> arrivals[i].print.premium]]

\* The signals a print is scored with are what the flow before it says, counted
\* from scratch, whatever was appended to the windows, pushed out of them and evicted
\* since the start: also the flow whose processing failed, and never the print itself
\* where a tracker promises "the prints that preceded this one".
SignalsFromArrivals ==
  stage = "store" =>
    LET n         == Len(arrivals)
        p         == arrivals[n].print
        s         == arrivals[n].signals
        Sweeps    == SweepsOf(p.contract) \cap Within(n, SweepWindow)
        Prints    == Newest(PrintsOf(p.ticker) \cap Within(n, SequenceWindow))
        Ivs       == Newest((IvsOf(p.ticker) \ {n}) \cap Within(n, IvWindow))
        Additions == Newest((FollowsOf(p.contract) \ {n}) \cap Within(n, FollowWindow))
        sequence  == Listed(Prints, PrintNote)
        ivs       == Ranked(Ivs, IvNote)
    IN  /\ s.repeated = IF p.sweep THEN Cardinality(Sweeps) ELSE 0
        /\ s.count = Cardinality(Prints)
        /\ s.cadence = CadenceAccel(sequence)
        /\ s.ladder = StrikeLadder(sequence)
        /\ s.velocity = Premiums(sequence) \div SequenceWindow
        /\ s.ivRank = IF p.iv = Unknown \/ Cardinality(Ivs) < MinHistory THEN Unknown
                      ELSE IF Min(ivs) = Max(ivs) THEN 500 ELSE Ramp(p.iv, Min(ivs), Max(ivs))
        /\ s.follow = FollowThrough(Listed(Additions, FollowNote))

\* No print is scored with data older than the caches' times to live and the fetches in
\* between allow.  The context is looked up first: two more fetches may follow its own.
ContextFresh == stage = "score" => now - sampled.context <= ContextTTL + 3 * FetchMax

\* The date of the earnings is cached twice, the second time with the context.
EarningsFresh ==
  stage = "score" => now - sampled.earnings <= EarningsTTL + ContextTTL + 2 * FetchMax

\* Nothing is fetched after the regime.
RegimeFresh == stage = "score" => now - sampled.regime <= RegimeTTL + FetchMax

\* The websocket clients get what LiveFeed promises.
ImplementsLiveFeed == LiveFeed!Spec

\* No queue stays full: what is published is heard, or the queue of a client that
\* went away is taken out of the broker when the next payload cannot be sent.
QueuesDrain == \A c \in Clients : inbox[c] # <<>> ~> inbox[c] = <<>>

-----------------------------------------------------------------------------
(* The inductive invariants behind the properties (the proofs are in          *)
(* LitePipeline_proofs).                                                      *)

Stages == Fetching \cup {"down", "idle", "context", "earnings", "priors", "regime", "score",
                         "store", "publish"}

\* What the caches hold of each key: when the entry expires, and how old its data are.
Entries(fields) == [until : Nat, data : [fields -> 0..MaxTime]]

\* The variables of the fetches have their types.
FetchType ==
  /\ now \in 0..MaxTime
  /\ stage \in Stages
  /\ since \in 0..MaxTime
  /\ sampled \in [Keys -> 0..MaxTime]
  /\ cache \in [context  : {Nothing} \cup Entries({"context", "earnings"}),
               earnings : {Nothing} \cup Entries({"earnings"}),
               regime   : {Nothing} \cup Entries({"regime"})]

\* An entry was fetched before it was stored: its data are not much older than the
\* time to live it had then.
EntriesFresh ==
  /\ cache.context # Nothing =>
       /\ cache.context.until - cache.context.data.context <= ContextTTL + 2 * FetchMax
       /\ cache.context.until - cache.context.data.earnings
            <= ContextTTL + EarningsTTL + FetchMax
  /\ cache.earnings # Nothing =>
       cache.earnings.until - cache.earnings.data.earnings <= EarningsTTL + FetchMax
  /\ cache.regime # Nothing =>
       cache.regime.until - cache.regime.data.regime <= RegimeTTL + FetchMax

\* How old the data in hand may be at each stage of process(); a fetch that is under
\* way adds the time it has taken.
FreshByStage ==
  /\ stage \in Fetching => since <= now /\ now - since <= FetchMax
  /\ stage = "earnings" => now - sampled.context <= FetchMax
  /\ stage = "finnhub" => since - sampled.context <= FetchMax
  /\ stage = "priors" => /\ now - sampled.context <= 2 * FetchMax
                         /\ now - sampled.earnings <= EarningsTTL + FetchMax
  /\ stage = "regime" => /\ now - sampled.context <= ContextTTL + 2 * FetchMax
                         /\ now - sampled.earnings <= ContextTTL + EarningsTTL + FetchMax
  /\ stage = "vix" => /\ since - sampled.context <= ContextTTL + 2 * FetchMax
                      /\ since - sampled.earnings <= ContextTTL + EarningsTTL + FetchMax

FreshEnough == ContextFresh /\ EarningsFresh /\ RegimeFresh

FreshInv == FetchType /\ EntriesFresh /\ FreshByStage /\ FreshEnough

\* The stages at which a print is in hand that no tracker has recorded yet.
Unrecorded == Fetching \cup {"context", "earnings", "priors", "regime", "score"}

\* One task: while an alert is dispatched no print is processed.
OneTask ==
  /\ stage \in Stages
  /\ pc \in [{Lite} -> {"down", "idle", "dispatch"}]
  /\ pc[Lite] = "down" <=> stage = "down"
  /\ pc[Lite] = "dispatch" => stage = "idle"

\* A print is recorded at most once in a run.
ArrivalsInv ==
  /\ OneTask
  /\ boots \in [{Lite} -> 0..MaxBoots] /\ (stage # "down" => boots[Lite] # 0)
  /\ seen \subseteq Feed
  /\ arrivals \in Seq(Range(arrivals))
  /\ Len(arrivals) + (IF stage \in Unrecorded THEN 1 ELSE 0) <= Cardinality(seen)
  /\ stage \in {"store", "publish"} => arrivals # <<>>

\* dq is a window of the arrivals of S, kept up to time t: it has the notes of the
\* arrivals q[1], q[2] and so on, in order, and all newer ones of S.  One that is
\* missing is too old, or there is no room for it.
Keeps(dq, q, S, note, t, window, limited) ==
  /\ q \in [1..Len(dq) -> S]
  /\ \A k \in DOMAIN q : dq[k] = note[q[k]]
  /\ \A k, l \in DOMAIN q : k < l => q[k] < q[l]
  /\ \A i \in S \ Range(q) :
       /\ \A k \in DOMAIN q : i < q[k]
       /\ t - note[i].at > window \/ (limited /\ Len(dq) = MaxEvents)
  /\ limited => Len(dq) <= MaxEvents

IsWindow(dq, S, note, t, window, limited) ==
  /\ dq \in Seq(Range(note))
  /\ \E q \in [1..Len(dq) -> S] : Keeps(dq, q, S, note, t, window, limited)

\* Every tracker has a window of the arrivals it is about.
TrackersInv ==
  /\ trackers = [sweeps |-> trackers.sweeps, prints |-> trackers.prints,
                 ivs |-> trackers.ivs, follows |-> trackers.follows]
  /\ DOMAIN trackers.sweeps = Contracts /\ DOMAIN trackers.prints = Tickers
  /\ DOMAIN trackers.ivs = Tickers /\ DOMAIN trackers.follows = Contracts
  /\ \A k \in Contracts :
       /\ IsWindow(trackers.sweeps[k], SweepsOf(k), SweepNote, now, SweepWindow, FALSE)
       /\ IsWindow(trackers.follows[k], FollowsOf(k), FollowNote, now, FollowWindow, TRUE)
  /\ \A s \in Tickers :
       /\ IsWindow(trackers.prints[s], PrintsOf(s), PrintNote, now, SequenceWindow, TRUE)
       /\ IsWindow(trackers.ivs[s], IvsOf(s), IvNote, now, IvWindow, TRUE)

\* The arrivals are of the feed, and in order of time.
TimesInv ==
  /\ now \in Nat
  /\ stage \in Unrecorded => print \in Feed
  /\ \A i \in Arrived : arrivals[i].print \in Feed /\ arrivals[i].at \in 0..now
  /\ \A i, j \in Arrived : i < j => arrivals[i].at <= arrivals[j].at

SignalsInv == ArrivalsInv /\ TimesInv /\ TrackersInv /\ SignalsFromArrivals

\* What a connected client received, and what waits in its queue, are together what
\* was published since it joined.
ClientsInv ==
  /\ published \in Seq(1..(MaxBoots * Cardinality(Feed)))
  /\ joined \in [Clients -> Nat]
  /\ inbox \in [Clients -> Seq(Nat)]
  /\ got \in [Clients -> Seq(Nat)]
  /\ link \in [Clients -> {"off", "on", "gone", "leaving", "closed"}]
  /\ \A c \in Clients :
       /\ link[c] = "off" => joined[c] = LiveFeed!NotJoined /\ got[c] = <<>> /\ inbox[c] = <<>>
       /\ link[c] = "on" =>
            /\ Len(published) = joined[c] + Len(got[c]) + Len(inbox[c])
            /\ \A i \in 1..Len(inbox[c]) : inbox[c][i] = published[joined[c] + Len(got[c]) + i]

FeedInv == ArrivalsInv /\ ClientsInv
=============================================================================
