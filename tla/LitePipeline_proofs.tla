------------------------ MODULE LitePipeline_proofs ------------------------
(***************************************************************************)
(* Proofs about LitePipeline: how old the data are that a print is scored  *)
(* with, and that the websocket clients get what LiveFeed promises.        *)
(***************************************************************************)
EXTENDS LitePipeline, FiniteSetTheorems, SequenceTheorems, WellFoundedInduction, TLAPS

-----------------------------------------------------------------------------
(* The caches and what is fetched. *)

\* Nothing is cached in the beginning, and nothing in hand.
LEMMA FreshInit == Init => FreshInv
<1> SUFFICES ASSUME Init
             PROVE  FreshInv
  OBVIOUS
<1>1. FetchType
  BY LiteAssumption DEF Init, Gate!Init, FetchType, Stages, EmptyCache, Keys
<1>2. EntriesFresh /\ FreshByStage /\ FreshEnough
  BY LiteAssumption
     DEF Init, EntriesFresh, FreshByStage, FreshEnough,
         ContextFresh, EarningsFresh, RegimeFresh, EmptyCache, Keys, Fetching
<1>3. QED
  BY <1>1, <1>2 DEF FreshInv

\* A step that leaves clock, caches and data alone, and goes where the age of the data
\* does not matter.
LEMMA QuietFetches ==
  ASSUME FreshInv, UNCHANGED <<now, since, sampled, cache>>,
         stage' = stage \/ stage' \in {"down", "idle", "context", "store", "publish"}
  PROVE  FreshInv'
BY DEF FreshInv, FetchType, EntriesFresh, FreshByStage, FreshEnough,
       ContextFresh, EarningsFresh, RegimeFresh, Stages, Fetching

\* Time passes, but not without end during a fetch.
LEMMA TickFetches == FreshInv /\ Tick => FreshInv'
<1> SUFFICES ASSUME FreshInv, Tick
             PROVE  FreshInv'
  OBVIOUS
<1>1. /\ now' = now + 1 /\ now' \in 0..MaxTime
      /\ UNCHANGED <<stage, since, sampled, cache>>
      /\ stage \in Fetching => now - since < FetchMax
      /\ stage \in Fetching \cup {"idle"}
  BY LiteAssumption DEF Tick, Gate!Tick, workVars, FreshInv, FetchType
<1>2. FetchType' /\ EntriesFresh'
  BY <1>1 DEF FreshInv, FetchType, EntriesFresh
<1>3. FreshByStage' /\ FreshEnough'
  BY <1>1, LiteAssumption DEF FreshInv, FetchType, FreshByStage, FreshEnough,
                              ContextFresh, EarningsFresh, RegimeFresh, Fetching
<1>4. QED
  BY <1>2, <1>3 DEF FreshInv

\* What a lookup finds has not expired.
LEMMA CachedData ==
  ASSUME FreshInv, NEW key \in Keys, Cached(key)
  PROVE  /\ cache[key].until >= now /\ cache[key].until \in Nat
         /\ key = "context" => cache[key].data \in [{"context", "earnings"} -> 0..MaxTime]
         /\ key = "earnings" => cache[key].data \in [{"earnings"} -> 0..MaxTime]
         /\ key = "regime" => cache[key].data \in [{"regime"} -> 0..MaxTime]
BY DEF FreshInv, FetchType, Cached, Keys, Entries

\* get_context(): an entry gives the context and the earnings, else the fetches begin.
LEMMA ContextFetches == FreshInv /\ LookUpContext => FreshInv'
<1> SUFFICES ASSUME FreshInv, LookUpContext
             PROVE  FreshInv'
  OBVIOUS
<1>1. stage = "context" /\ UNCHANGED <<now, cache>>
  BY DEF LookUpContext, LookUp
<1>2. CASE Cached("context")
  <2>1. /\ sampled' = Refreshed(cache.context.data)
        /\ stage' = "regime" /\ since' = since
    BY <1>1, <1>2 DEF LookUpContext, LookUp
  <2>2. /\ cache.context.data \in [{"context", "earnings"} -> 0..MaxTime]
        /\ cache.context.until >= now /\ cache.context.until \in Nat
        /\ cache.context # Nothing
    BY <1>2, CachedData DEF Keys, Cached
  <2>3. /\ sampled' \in [Keys -> 0..MaxTime]
        /\ sampled'.context = cache.context.data.context
        /\ sampled'.earnings = cache.context.data.earnings
    BY <2>1, <2>2 DEF FreshInv, FetchType, Keys, Refreshed
  <2>4. FetchType' /\ EntriesFresh'
    BY <1>1, <2>1, <2>3 DEF FreshInv, FetchType, EntriesFresh, Stages
  <2>5. FreshByStage' /\ FreshEnough'
    BY <1>1, <2>1, <2>2, <2>3, LiteAssumption
       DEF FreshInv, FetchType, EntriesFresh, FreshByStage, FreshEnough,
           ContextFresh, EarningsFresh, RegimeFresh, Fetching
  <2>6. QED
    BY <2>4, <2>5 DEF FreshInv
<1>3. CASE ~Cached("context")
  <2>1. stage' = "polygon" /\ since' = now /\ sampled' = sampled
    BY <1>1, <1>3 DEF LookUpContext, LookUp
  <2>2. QED
    BY <1>1, <2>1, LiteAssumption
       DEF FreshInv, FetchType, EntriesFresh, FreshByStage, FreshEnough,
           ContextFresh, EarningsFresh, RegimeFresh, Stages, Fetching
<1>4. QED
  BY <1>2, <1>3

\* days_to_earnings() inside it.
LEMMA EarningsFetches == FreshInv /\ LookUpEarnings => FreshInv'
<1> SUFFICES ASSUME FreshInv, LookUpEarnings
             PROVE  FreshInv'
  OBVIOUS
<1>1. stage = "earnings" /\ UNCHANGED <<now, cache>>
  BY DEF LookUpEarnings, LookUp
<1>2. CASE Cached("earnings")
  <2>1. /\ sampled' = Refreshed(cache.earnings.data)
        /\ stage' = "priors" /\ since' = since
    BY <1>1, <1>2 DEF LookUpEarnings, LookUp
  <2>2. /\ cache.earnings.data \in [{"earnings"} -> 0..MaxTime]
        /\ cache.earnings.until >= now /\ cache.earnings.until \in Nat
        /\ cache.earnings # Nothing
    BY <1>2, CachedData DEF Keys, Cached
  <2>3. /\ sampled' \in [Keys -> 0..MaxTime]
        /\ sampled'.context = sampled.context
        /\ sampled'.earnings = cache.earnings.data.earnings
    BY <2>1, <2>2 DEF FreshInv, FetchType, Keys, Refreshed
  <2>4. FetchType' /\ EntriesFresh'
    BY <1>1, <2>1, <2>3 DEF FreshInv, FetchType, EntriesFresh, Stages
  <2>5. FreshByStage' /\ FreshEnough'
    BY <1>1, <2>1, <2>2, <2>3, LiteAssumption
       DEF FreshInv, FetchType, EntriesFresh, FreshByStage, FreshEnough,
           ContextFresh, EarningsFresh, RegimeFresh, Fetching, Keys
  <2>6. QED
    BY <2>4, <2>5 DEF FreshInv
<1>3. CASE ~Cached("earnings")
  <2>1. stage' = "finnhub" /\ since' = now /\ sampled' = sampled
    BY <1>1, <1>3 DEF LookUpEarnings, LookUp
  <2>2. QED
    BY <1>1, <2>1, LiteAssumption
       DEF FreshInv, FetchType, EntriesFresh, FreshByStage, FreshEnough,
           ContextFresh, EarningsFresh, RegimeFresh, Stages, Fetching
<1>4. QED
  BY <1>2, <1>3

\* get_regime()
LEMMA RegimeFetches == FreshInv /\ LookUpRegime => FreshInv'
<1> SUFFICES ASSUME FreshInv, LookUpRegime
             PROVE  FreshInv'
  OBVIOUS
<1>1. stage = "regime" /\ UNCHANGED <<now, cache>>
  BY DEF LookUpRegime, LookUp
<1>2. CASE Cached("regime")
  <2>1. /\ sampled' = Refreshed(cache.regime.data)
        /\ stage' = "score" /\ since' = since
    BY <1>1, <1>2 DEF LookUpRegime, LookUp
  <2>2. /\ cache.regime.data \in [{"regime"} -> 0..MaxTime]
        /\ cache.regime.until >= now /\ cache.regime.until \in Nat
        /\ cache.regime # Nothing
    BY <1>2, CachedData DEF Keys, Cached
  <2>3. /\ sampled' \in [Keys -> 0..MaxTime]
        /\ sampled'.context = sampled.context /\ sampled'.earnings = sampled.earnings
        /\ sampled'.regime = cache.regime.data.regime
    BY <2>1, <2>2 DEF FreshInv, FetchType, Keys, Refreshed
  <2>4. FetchType' /\ EntriesFresh'
    BY <1>1, <2>1, <2>3 DEF FreshInv, FetchType, EntriesFresh, Stages
  <2>5. FreshByStage' /\ FreshEnough'
    BY <1>1, <2>1, <2>2, <2>3, LiteAssumption
       DEF FreshInv, FetchType, EntriesFresh, FreshByStage, FreshEnough,
           ContextFresh, EarningsFresh, RegimeFresh, Fetching, Keys
  <2>6. QED
    BY <2>4, <2>5 DEF FreshInv
<1>3. CASE ~Cached("regime")
  <2>1. stage' = "vix" /\ since' = now /\ sampled' = sampled
    BY <1>1, <1>3 DEF LookUpRegime, LookUp
  <2>2. QED
    BY <1>1, <2>1, LiteAssumption
       DEF FreshInv, FetchType, EntriesFresh, FreshByStage, FreshEnough,
           ContextFresh, EarningsFresh, RegimeFresh, Stages, Fetching
<1>4. QED
  BY <1>2, <1>3

\* A fetch ends: its data are as old as the request.
LEMMA FetchEndsFetches == FreshInv /\ FetchEnds => FreshInv'
<1> SUFFICES ASSUME FreshInv, FetchEnds
             PROVE  FreshInv'
  OBVIOUS
<1>1. /\ now' = now /\ since' = 0 /\ now \in 0..MaxTime /\ since \in 0..MaxTime
      /\ sampled \in [Keys -> 0..MaxTime]
      /\ stage \in Fetching => since <= now /\ now - since <= FetchMax
  BY DEF FetchEnds, FreshInv, FetchType, FreshByStage
<1>2. CASE stage = "polygon"
  <2>1. /\ stage' = "earnings" /\ cache' = cache
        /\ sampled' = [sampled EXCEPT !.context = since]
    BY <1>2 DEF FetchEnds
  <2>2. sampled' \in [Keys -> 0..MaxTime] /\ sampled'.context = since
    BY <1>1, <2>1 DEF Keys
  <2>3. QED
    BY <1>1, <1>2, <2>1, <2>2, LiteAssumption
       DEF FreshInv, FetchType, EntriesFresh, FreshByStage, FreshEnough,
           ContextFresh, EarningsFresh, RegimeFresh, Stages, Fetching
<1>3. CASE stage = "finnhub"
  <2> DEFINE entry == [until |-> now + TTL["earnings"], data |-> [earnings |-> since]]
  <2>1. /\ stage' = "priors" /\ cache' = [cache EXCEPT !["earnings"] = entry]
        /\ sampled' = [sampled EXCEPT !.earnings = since]
    BY <1>3 DEF FetchEnds, Store
  <2>2. /\ sampled' \in [Keys -> 0..MaxTime] /\ sampled'.earnings = since
        /\ sampled'.context = sampled.context
    BY <1>1, <2>1 DEF Keys
  <2>3. /\ entry \in Entries({"earnings"}) /\ entry.until = now + EarningsTTL
        /\ entry.data.earnings = since
    BY <1>1, LiteAssumption DEF Entries, TTL
  <2> HIDE DEF entry
  <2>4. /\ cache'.context = cache.context /\ cache'.regime = cache.regime
        /\ cache'.earnings = entry
    BY <2>1 DEF FreshInv, FetchType
  <2>5. FetchType'
    BY <1>1, <2>1, <2>2, <2>3, LiteAssumption DEF FreshInv, FetchType, Stages
  <2>6. EntriesFresh'
    BY <1>1, <1>3, <2>3, <2>4, LiteAssumption DEF FreshInv, EntriesFresh, Fetching
  <2>7. FreshByStage' /\ FreshEnough'
    BY <1>1, <1>3, <2>1, <2>2, LiteAssumption
       DEF FreshInv, FreshByStage, FreshEnough,
           ContextFresh, EarningsFresh, RegimeFresh, Fetching, Keys
  <2>8. QED
    BY <2>5, <2>6, <2>7 DEF FreshInv
<1>4. CASE stage = "vix"
  <2> DEFINE entry == [until |-> now + TTL["regime"], data |-> [regime |-> since]]
  <2>1. /\ stage' = "score" /\ cache' = [cache EXCEPT !["regime"] = entry]
        /\ sampled' = [sampled EXCEPT !.regime = since]
    BY <1>4 DEF FetchEnds, Store
  <2>2. /\ sampled' \in [Keys -> 0..MaxTime] /\ sampled'.regime = since
        /\ sampled'.context = sampled.context /\ sampled'.earnings = sampled.earnings
    BY <1>1, <2>1 DEF Keys
  <2>3. /\ entry \in Entries({"regime"}) /\ entry.until = now + RegimeTTL
        /\ entry.data.regime = since
    BY <1>1, LiteAssumption DEF Entries, TTL
  <2> HIDE DEF entry
  <2>4. /\ cache'.context = cache.context /\ cache'.earnings = cache.earnings
        /\ cache'.regime = entry
    BY <2>1 DEF FreshInv, FetchType
  <2>5. FetchType'
    BY <1>1, <2>1, <2>2, <2>3, LiteAssumption DEF FreshInv, FetchType, Stages
  <2>6. EntriesFresh'
    BY <1>1, <1>4, <2>3, <2>4, LiteAssumption DEF FreshInv, EntriesFresh, Fetching
  <2>7. FreshByStage' /\ FreshEnough'
    BY <1>1, <1>4, <2>1, <2>2, LiteAssumption
       DEF FreshInv, FreshByStage, FreshEnough,
           ContextFresh, EarningsFresh, RegimeFresh, Fetching, Keys
  <2>8. QED
    BY <2>5, <2>6, <2>7 DEF FreshInv
<1>5. QED
  BY <1>2, <1>3, <1>4 DEF FetchEnds

\* The context is cached with the earnings date it was built from, which is older.
LEMMA PriorsFetches == FreshInv /\ Priors => FreshInv'
<1> SUFFICES ASSUME FreshInv, Priors
             PROVE  FreshInv'
  OBVIOUS
<1>1. /\ stage = "priors" /\ UNCHANGED <<now, since, sampled>>
      /\ now \in 0..MaxTime /\ sampled \in [Keys -> 0..MaxTime]
  BY DEF Priors, FreshInv, FetchType
<1>2. CASE Abandon /\ cache' = cache
  BY <1>1, <1>2, QuietFetches DEF Abandon
<1>3. CASE /\ Store("context", [context |-> sampled.context, earnings |-> sampled.earnings])
           /\ stage' = "regime"
  <2> DEFINE entry == [until |-> now + TTL["context"],
                       data |-> [context |-> sampled.context, earnings |-> sampled.earnings]]
  <2>1. cache' = [cache EXCEPT !["context"] = entry]
    BY <1>3 DEF Store
  <2>2. /\ entry \in Entries({"context", "earnings"}) /\ entry.until = now + ContextTTL
        /\ entry.data.context = sampled.context /\ entry.data.earnings = sampled.earnings
    BY <1>1, LiteAssumption DEF Entries, TTL, Keys
  <2> HIDE DEF entry
  <2>3. /\ cache'.regime = cache.regime /\ cache'.earnings = cache.earnings
        /\ cache'.context = entry
    BY <2>1 DEF FreshInv, FetchType
  <2>4. FetchType'
    BY <1>1, <1>3, <2>1, <2>2, LiteAssumption DEF FreshInv, FetchType, Stages
  <2>5. EntriesFresh'
    BY <1>1, <2>2, <2>3, LiteAssumption DEF FreshInv, EntriesFresh, FreshByStage, Keys
  <2>6. FreshByStage' /\ FreshEnough'
    BY <1>1, <1>3, LiteAssumption
       DEF FreshInv, FreshByStage, FreshEnough,
           ContextFresh, EarningsFresh, RegimeFresh, Fetching, Keys
  <2>7. QED
    BY <2>4, <2>5, <2>6 DEF FreshInv
<1>4. QED
  BY <1>2, <1>3 DEF Priors

\* A process starts with empty caches.
LEMMA StartFetches == FreshInv /\ Start => FreshInv'
<1> SUFFICES ASSUME FreshInv, Start
             PROVE  FreshInv'
  OBVIOUS
<1>1. /\ stage' = "idle" /\ cache' = EmptyCache
      /\ UNCHANGED <<now, since, sampled>>
  BY DEF Start, Gate!Start
<1>2. QED
  BY <1>1 DEF FreshInv, FetchType, EntriesFresh, FreshByStage, FreshEnough,
              ContextFresh, EarningsFresh, RegimeFresh, Stages,
     Fetching, EmptyCache, Keys

\* Nothing else touches the caches or the data in hand before the score.
LEMMA RestFetches ==
  ASSUME FreshInv,
         \/ Crash \/ \E p \in Feed : Take(p)
         \/ Score \/ Persist \/ Announce \/ Dispatch \/ RecordFails
         \/ \E c \in Clients : Subscribe(c) \/ HangUp(c) \/ Serve(c) \/ Unsubscribe(c)
         \/ UNCHANGED vars
  PROVE  FreshInv'
<1>1. CASE Crash
  BY <1>1, QuietFetches DEF Crash, Gate!Stop
<1>2. CASE \E p \in Feed : Take(p)
  BY <1>2, QuietFetches DEF Take
<1>3. CASE Score
  <2>1. /\ stage' = "store" /\ UNCHANGED <<now, since, cache>>
        /\ sampled' = [key \in Keys |-> 0]
    BY <1>3 DEF Score
  <2>2. QED
    BY <2>1, LiteAssumption
       DEF FreshInv, FetchType, EntriesFresh, FreshByStage, FreshEnough,
           ContextFresh, EarningsFresh, RegimeFresh, Stages, Fetching
<1>4. CASE Persist
  BY <1>4, QuietFetches DEF Persist, Abandon
<1>5. CASE Announce
  BY <1>5, QuietFetches DEF Announce, Gate!Ask
<1>6. CASE Dispatch
  BY <1>6, QuietFetches DEF Dispatch, Gate!Send, Gate!Record, workVars
<1>7. CASE RecordFails
  BY <1>7, QuietFetches DEF RecordFails, Abandon
<1>8. CASE \E c \in Clients : Subscribe(c) \/ HangUp(c) \/ Serve(c) \/ Unsubscribe(c)
  BY <1>8, QuietFetches DEF Subscribe, HangUp, Serve, Unsubscribe, workVars
<1>9. CASE UNCHANGED vars
  BY <1>9, QuietFetches DEF vars, workVars
<1>10. QED
  BY <1>1, <1>2, <1>3, <1>4, <1>5, <1>6, <1>7, <1>8, <1>9

\* No print is scored with data older than the caches' times to live and the
\* fetches in between allow, for every choice of them: the hit of one cache that was
\* filled from another adds both times, and every fetch on the way its limit.
THEOREM ContextIsFresh == Spec => [](ContextFresh /\ EarningsFresh /\ RegimeFresh)
<1>1. Init => FreshInv
  BY FreshInit
<1>2. FreshInv /\ [Next]_vars => FreshInv'
  BY TickFetches, StartFetches, ContextFetches, EarningsFetches, RegimeFetches,
     FetchEndsFetches, PriorsFetches, RestFetches DEF Next
<1>3. FreshInv => ContextFresh /\ EarningsFresh /\ RegimeFresh
  BY DEF FreshInv, FreshEnough
<1>4. QED
  BY <1>1, <1>2, <1>3, PTL DEF Spec

-----------------------------------------------------------------------------
(* Arrivals: a print is recorded at most once in a run. *)

LEMMA AppendToRange ==
  ASSUME NEW s, s \in Seq(Range(s)), NEW x
  PROVE  /\ Append(s, x) \in Seq(Range(Append(s, x)))
         /\ Len(Append(s, x)) = Len(s) + 1
         /\ \A i \in 1..Len(s) : Append(s, x)[i] = s[i]
         /\ Append(s, x)[Len(s) + 1] = x
<1> DEFINE T == Range(s) \cup {x}
           t == Append(s, x)
<1>1. s \in Seq(T) /\ x \in T
  <2>1. s \in Seq(T)
    BY SeqMonotonic
  <2>2. QED
    BY <2>1
<1>2. /\ t \in Seq(T) /\ Len(t) = Len(s) + 1 /\ Len(s) \in Nat
      /\ \A i \in 1..Len(s) : t[i] = s[i]
      /\ t[Len(s) + 1] = x
  BY <1>1, AppendProperties, LenProperties
<1>3. t \in Seq(Range(t))
  <2>1. DOMAIN t = 1..Len(t) /\ t \in [1..Len(t) -> T] /\ Len(t) \in Nat
    BY <1>2, LenProperties
  <2> HIDE DEF t
  <2>2. t \in [1..Len(t) -> Range(t)]
    BY <2>1 DEF Range
  <2>3. QED
    BY <2>1, <2>2
<1>4. QED
  BY <1>2, <1>3

\* A run begins without arrivals.
LEMMA ArrivalsInit == Init => ArrivalsInv
<1> SUFFICES ASSUME Init
             PROVE  ArrivalsInv
  OBVIOUS
<1>1. boots \in [{Lite} -> 0..MaxBoots] /\ stage = "down" /\ seen = {} /\ arrivals = <<>>
  BY LiteAssumption DEF Init, Gate!Init
<1>2. Cardinality({}) = 0
  BY FS_EmptySet
<1>3. QED
  BY <1>1, <1>2 DEF ArrivalsInv, OneTask, Init, Gate!Init, Stages, Unrecorded, Fetching

\* A step that records nothing and takes nothing.
LEMMA QuietArrivals ==
  ASSUME ArrivalsInv, UNCHANGED <<boots, seen, arrivals>>,
         stage' \in Unrecorded => stage \in Unrecorded,
         stage' # "down" => stage # "down", OneTask',
         stage' \in {"store", "publish"} => stage \in {"store", "publish"}
  PROVE  ArrivalsInv'
<1>1. Len(arrivals) \in Nat
  BY LenProperties DEF ArrivalsInv
<1>2. Cardinality(seen) \in Nat
  BY LiteAssumption, FS_Subset, FS_CardinalityType DEF ArrivalsInv
<1>3. QED
  BY <1>1, <1>2 DEF ArrivalsInv

LEMMA StartArrivals == ArrivalsInv /\ Start => ArrivalsInv'
<1> SUFFICES ASSUME ArrivalsInv, Start
             PROVE  ArrivalsInv'
  OBVIOUS
<1>1. /\ stage' = "idle" /\ seen' = {} /\ arrivals' = <<>>
      /\ boots[Lite] < MaxBoots /\ boots' = [boots EXCEPT ![Lite] = @ + 1]
  BY DEF Start, Gate!Start
<1>2. boots' \in [{Lite} -> 0..MaxBoots] /\ boots'[Lite] # 0
  BY <1>1, LiteAssumption DEF ArrivalsInv
<1>3. Cardinality({}) = 0
  BY FS_EmptySet
<1>4. OneTask'
  BY <1>1 DEF ArrivalsInv, OneTask, Start, Gate!Start, Stages
<1>5. QED
  BY <1>1, <1>2, <1>3, <1>4 DEF ArrivalsInv, Unrecorded, Fetching

LEMMA TakeArrivals == ASSUME ArrivalsInv, NEW p \in Feed, Take(p) PROVE ArrivalsInv'
<1>1. /\ stage = "idle" /\ stage' = "context" /\ p \notin seen
      /\ seen' = seen \cup {p} /\ UNCHANGED <<boots, arrivals>>
  BY DEF Take, gateVars
<1>2. IsFiniteSet(seen)
  BY LiteAssumption, FS_Subset DEF ArrivalsInv
<1>3. Cardinality(seen') = Cardinality(seen) + 1 /\ Cardinality(seen) \in Nat
  BY <1>1, <1>2, FS_AddElement, FS_CardinalityType
<1>4. Len(arrivals) \in Nat
  BY LenProperties DEF ArrivalsInv
<1>5. OneTask'
  BY <1>1 DEF ArrivalsInv, OneTask, Take, gateVars, Stages
<1>6. QED
  BY <1>1, <1>3, <1>4, <1>5 DEF ArrivalsInv, OneTask, Unrecorded, Fetching

LEMMA ScoreArrivals == ArrivalsInv /\ Score => ArrivalsInv'
<1> SUFFICES ASSUME ArrivalsInv, Score
             PROVE  ArrivalsInv'
  OBVIOUS
<1> DEFINE x == [print |-> print, at |-> now, signals |-> Signals(trackers, print, now)]
<1>1. /\ stage = "score" /\ stage' = "store" /\ UNCHANGED <<boots, seen>>
      /\ arrivals' = Append(arrivals, x)
  BY DEF Score, gateVars
<1> HIDE DEF x
<1>2. /\ arrivals' \in Seq(Range(arrivals')) /\ Len(arrivals') = Len(arrivals) + 1
      /\ Len(arrivals) \in Nat
  BY <1>1, AppendToRange, LenProperties DEF ArrivalsInv
<1>3. arrivals' # <<>>
  BY <1>2
<1>4. Cardinality(seen) \in Nat
  BY LiteAssumption, FS_Subset, FS_CardinalityType DEF ArrivalsInv
<1>5. OneTask'
  BY <1>1 DEF ArrivalsInv, OneTask, Score, gateVars, Stages
<1>6. QED
  BY <1>1, <1>2, <1>3, <1>4, <1>5 DEF ArrivalsInv, Unrecorded, Fetching

LEMMA NextArrivals == ArrivalsInv /\ [Next]_vars => ArrivalsInv'
<1> SUFFICES ASSUME ArrivalsInv, [Next]_vars
             PROVE  ArrivalsInv'
  OBVIOUS
<1> USE DEF gateVars, Stages, Unrecorded, Fetching
<1>1. CASE Start
  BY <1>1, StartArrivals
<1>2. CASE \E p \in Feed : Take(p)
  BY <1>2, TakeArrivals
<1>3. CASE Score
  BY <1>3, ScoreArrivals
<1>4. CASE Tick
  <2>1. OneTask'
    BY <1>4 DEF ArrivalsInv, OneTask, Tick, Gate!Tick, Gate!gateVars, workVars
  <2>2. QED
    BY <1>4, <2>1, QuietArrivals DEF ArrivalsInv, OneTask, Tick, Gate!Tick, Gate!gateVars, workVars
<1>5. CASE Crash
  <2>1. OneTask'
    BY <1>5 DEF ArrivalsInv, OneTask, Crash, Gate!Stop, Gate!gateVars
  <2>2. QED
    BY <1>5, <2>1, QuietArrivals DEF ArrivalsInv, OneTask, Crash, Gate!Stop, Gate!gateVars
<1>6. CASE LookUpContext
  <2>1. OneTask'
    BY <1>6 DEF ArrivalsInv, OneTask, LookUpContext, LookUp
  <2>2. QED
    BY <1>6, <2>1, QuietArrivals DEF ArrivalsInv, OneTask, LookUpContext, LookUp
<1>7. CASE LookUpEarnings
  <2>1. OneTask'
    BY <1>7 DEF ArrivalsInv, OneTask, LookUpEarnings, LookUp
  <2>2. QED
    BY <1>7, <2>1, QuietArrivals DEF ArrivalsInv, OneTask, LookUpEarnings, LookUp
<1>8. CASE LookUpRegime
  <2>1. OneTask'
    BY <1>8 DEF ArrivalsInv, OneTask, LookUpRegime, LookUp
  <2>2. QED
    BY <1>8, <2>1, QuietArrivals DEF ArrivalsInv, OneTask, LookUpRegime, LookUp
<1>9. CASE FetchEnds
  <2>1. OneTask'
    BY <1>9 DEF ArrivalsInv, OneTask, FetchEnds
  <2>2. QED
    BY <1>9, <2>1, QuietArrivals DEF ArrivalsInv, OneTask, FetchEnds
<1>10. CASE Priors
  <2>1. OneTask'
    BY <1>10 DEF ArrivalsInv, OneTask, Priors, Abandon
  <2>2. QED
    BY <1>10, <2>1, QuietArrivals DEF ArrivalsInv, OneTask, Priors, Abandon
<1>11. CASE Persist
  <2>1. OneTask'
    BY <1>11 DEF ArrivalsInv, OneTask, Persist, Abandon
  <2>2. QED
    BY <1>11, <2>1, QuietArrivals DEF ArrivalsInv, OneTask, Persist, Abandon
<1>12. CASE Announce
  <2>1. OneTask'
    BY <1>12 DEF ArrivalsInv, OneTask, Announce, Gate!Ask
  <2>2. QED
    BY <1>12, <2>1, QuietArrivals DEF ArrivalsInv, OneTask, Announce, Gate!Ask
<1>13. CASE Dispatch
  <2>1. OneTask'
    BY <1>13 DEF ArrivalsInv, OneTask, Dispatch, Gate!Send, Gate!Record, Gate!gateVars, workVars
  <2>2. QED
    BY <1>13, <2>1, QuietArrivals DEF ArrivalsInv, OneTask, Dispatch, Gate!Send, Gate!Record, Gate!gateVars, workVars
<1>14. CASE RecordFails
  <2>1. OneTask'
    BY <1>14 DEF ArrivalsInv, OneTask, RecordFails, Abandon
  <2>2. QED
    BY <1>14, <2>1, QuietArrivals DEF ArrivalsInv, OneTask, RecordFails, Abandon
<1>15. CASE \E c \in Clients : Subscribe(c) \/ HangUp(c) \/ Serve(c) \/ Unsubscribe(c)
  <2>1. OneTask'
    BY <1>15 DEF ArrivalsInv, OneTask, Subscribe, HangUp, Serve, Unsubscribe, workVars
  <2>2. QED
    BY <1>15, <2>1, QuietArrivals DEF ArrivalsInv, OneTask, Subscribe, HangUp, Serve, Unsubscribe, workVars
<1>16. CASE UNCHANGED vars
  <2>1. OneTask'
    BY <1>16 DEF ArrivalsInv, OneTask, vars, workVars
  <2>2. QED
    BY <1>16, <2>1, QuietArrivals DEF ArrivalsInv, OneTask, vars, workVars
<1>17. QED
  BY <1>1, <1>2, <1>3, <1>4, <1>5, <1>6, <1>7, <1>8, <1>9, <1>10, <1>11, <1>12, <1>13,
     <1>14, <1>15, <1>16 DEF Next

\* The arrivals of a run are recorded once, and never while an alert is dispatched.
LEMMA ArrivalsInvariant == Spec => []ArrivalsInv
BY ArrivalsInit, NextArrivals, PTL DEF Spec

-----------------------------------------------------------------------------
(* The clients, and the refinement of LiveFeed. *)

MaxFlows == MaxBoots * Cardinality(Feed)

\* A payload's number is one the live feed knows.
LEMMA PublishedNumber ==
  ASSUME ArrivalsInv, stage = "publish"
  PROVE  Len(arrivals) \in 1..MaxFlows
<1>1. Len(arrivals) \in Nat /\ Len(arrivals) # 0
  BY LenProperties, EmptySeq DEF ArrivalsInv
<1>2. /\ Cardinality(seen) \in Nat /\ Cardinality(Feed) \in Nat
      /\ Cardinality(seen) <= Cardinality(Feed)
  BY LiteAssumption, FS_Subset, FS_CardinalityType DEF ArrivalsInv
<1>3. Len(arrivals) <= Cardinality(Feed)
  BY <1>1, <1>2 DEF ArrivalsInv, Unrecorded, Fetching
<1>4. MaxBoots \in Nat /\ MaxBoots >= 1
  BY LiteAssumption DEF ArrivalsInv
<1>5. \A m, n \in Nat : m >= 1 => n <= m * n /\ m * n \in Nat
  OBVIOUS
<1>6. Cardinality(Feed) <= MaxFlows /\ MaxFlows \in Nat
  BY <1>2, <1>4, <1>5 DEF MaxFlows
<1>7. QED
  BY <1>1, <1>2, <1>3, <1>6

LEMMA MaxFlowsType == MaxFlows \in Nat
<1>1. Cardinality(Feed) \in Nat
  BY LiteAssumption, FS_CardinalityType
<1>2. \A m, n \in Nat : m * n \in Nat
  OBVIOUS
<1>3. QED
  BY <1>1, <1>2, LiteAssumption DEF MaxFlows

LEMMA ClientsInit == Init => ClientsInv
<1> SUFFICES ASSUME Init
             PROVE  ClientsInv
  OBVIOUS
<1>1. LiveFeed!NotJoined \in Nat
  BY MaxFlowsType DEF LiveFeed!NotJoined, MaxFlows
<1>2. QED
  BY <1>1 DEF Init, ClientsInv

\* A client subscribes: it has missed all so far, and will get the rest.
LEMMA SubscribeClients ==
  ASSUME ClientsInv, NEW c \in Clients, Subscribe(c)
  PROVE  ClientsInv' /\ LiveFeed!Join(c)
<1>1. /\ link[c] = "off" /\ link' = [link EXCEPT ![c] = "on"]
      /\ joined' = [joined EXCEPT ![c] = Len(published)]
      /\ UNCHANGED <<published, inbox, got>>
  BY DEF Subscribe
<1>2. Len(published) \in Nat /\ joined[c] = LiveFeed!NotJoined
      /\ got[c] = <<>> /\ inbox[c] = <<>>
  BY <1>1, LenProperties DEF ClientsInv
<1>3. ClientsInv'
  BY <1>1, <1>2 DEF ClientsInv
<1>4. {d \in Clients : link[d] \notin {"off", "on"}}' = {d \in Clients : link[d] \notin {"off", "on"}}
  BY <1>1 DEF ClientsInv
<1>5. QED
  BY <1>1, <1>2, <1>3, <1>4 DEF LiveFeed!Join

\* What reaches a client is the next payload it has not got.
LEMMA ServeClients ==
  ASSUME ClientsInv, NEW c \in Clients, Serve(c)
  PROVE  ClientsInv' /\ (LiveFeed!Hear(c) \/ LiveFeed!End)
<1>1. /\ link[c] \in {"on", "gone"} /\ inbox[c] # <<>>
      /\ inbox' = [inbox EXCEPT ![c] = Tail(@)]
      /\ UNCHANGED <<published, joined>>
  BY DEF Serve
<1>2. /\ inbox[c] \in Seq(Nat) /\ Head(inbox[c]) \in Nat /\ Tail(inbox[c]) \in Seq(Nat)
      /\ Len(inbox[c]) \in Nat \ {0} /\ Len(Tail(inbox[c])) = Len(inbox[c]) - 1
      /\ \A i \in 1..Len(Tail(inbox[c])) : Tail(inbox[c])[i] = inbox[c][i + 1]
      /\ Head(inbox[c]) = inbox[c][1]
  BY <1>1, HeadTailProperties, EmptySeq DEF ClientsInv
<1>3. Len(got[c]) \in Nat /\ joined[c] \in Nat /\ Len(published) \in Nat
  BY LenProperties DEF ClientsInv
<1>4. CASE link[c] = "on"
  <2> DEFINE x == Head(inbox[c])
             next == joined[c] + Len(got[c]) + 1
  <2>1. got' = [got EXCEPT ![c] = Append(@, x)] /\ link' = link
    BY <1>4 DEF Serve
  <2>2. /\ Len(published) = joined[c] + Len(got[c]) + Len(inbox[c])
        /\ \A i \in 1..Len(inbox[c]) : inbox[c][i] = published[joined[c] + Len(got[c]) + i]
    BY <1>4 DEF ClientsInv
  <2>3. next <= Len(published) /\ x = published[next]
    <3>1. 1 \in 1..Len(inbox[c])
      BY <1>2
    <3>2. inbox[c][1] = published[next]
      BY <2>2, <3>1
    <3>3. next <= Len(published)
      BY <1>2, <1>3, <2>2
    <3>4. QED
      BY <1>2, <3>2, <3>3
  <2> HIDE DEF x, next
  <2>4. /\ Append(got[c], x) \in Seq(Nat) /\ Len(Append(got[c], x)) = Len(got[c]) + 1
    BY <1>2, AppendProperties DEF ClientsInv, x
  <2>5. /\ inbox' \in [Clients -> Seq(Nat)] /\ got' \in [Clients -> Seq(Nat)]
        /\ inbox'[c] = Tail(inbox[c]) /\ got'[c] = Append(got[c], x)
        /\ \A d \in Clients \ {c} : inbox'[d] = inbox[d] /\ got'[d] = got[d]
    BY <1>1, <1>2, <2>1, <2>4 DEF ClientsInv
  <2> DEFINE gained == Len(got[c]) + 1
             queue == Tail(inbox[c])
  <2>6. /\ Len(published) = joined[c] + gained + Len(queue)
        /\ \A i \in 1..Len(queue) : queue[i] = published[joined[c] + gained + i]
    <3>1. ASSUME NEW i \in 1..Len(queue)
          PROVE  queue[i] = published[joined[c] + gained + i]
      <4>1. i \in Nat /\ i + 1 \in 1..Len(inbox[c])
        BY <1>2
      <4>2. queue[i] = published[joined[c] + Len(got[c]) + (i + 1)]
        BY <1>2, <2>2, <4>1
      <4>3. joined[c] + gained + i = joined[c] + Len(got[c]) + (i + 1)
        BY <1>3, <4>1, Z3
      <4>4. QED
        BY <4>2, <4>3
    <3>2. Len(published) = joined[c] + gained + Len(queue)
      BY <1>2, <1>3, <2>2, Z3
    <3>3. QED
      BY <3>1, <3>2
  <2>7. ClientsInv'
    <3>1. Len(got'[c]) = gained /\ inbox'[c] = queue
      BY <2>4, <2>5
    <3> HIDE DEF gained, queue
    <3>2. ASSUME NEW d \in Clients, link'[d] = "on"
          PROVE  /\ Len(published') = joined'[d] + Len(got'[d]) + Len(inbox'[d])
                 /\ \A i \in 1..Len(inbox'[d]) :
                      inbox'[d][i] = published'[joined'[d] + Len(got'[d]) + i]
      <4>1. CASE d = c
        BY <1>1, <2>6, <3>1, <4>1
      <4>2. CASE d # c
        BY <1>1, <2>1, <2>5, <3>2, <4>2 DEF ClientsInv
      <4>3. QED
        BY <4>1, <4>2
    <3>3. ASSUME NEW d \in Clients, link'[d] = "off"
          PROVE  joined'[d] = LiveFeed!NotJoined /\ got'[d] = <<>> /\ inbox'[d] = <<>>
      BY <1>1, <1>4, <2>1, <2>5, <3>3 DEF ClientsInv
    <3>4. QED
      BY <1>1, <2>1, <2>5, <3>2, <3>3 DEF ClientsInv
  <2>8. LiveFeed!Hear(c)
    BY <1>1, <1>4, <2>1, <2>3 DEF LiveFeed!Hear, next
  <2>9. QED
    BY <2>7, <2>8
<1>5. CASE link[c] = "gone"
  <2>1. got' = got /\ link' = [link EXCEPT ![c] = "leaving"]
    BY <1>5 DEF Serve
  <2>2. ClientsInv'
    BY <1>1, <1>2, <1>5, <2>1 DEF ClientsInv
  <2>3. LiveFeed!End
    BY <1>1, <1>5, <2>1 DEF LiveFeed!End, ClientsInv
  <2>4. QED
    BY <2>2, <2>3
<1>6. QED
  BY <1>1, <1>4, <1>5

\* Connections end; nothing else changes for the live feed.
LEMMA EndClients ==
  ASSUME ClientsInv, NEW c \in Clients, HangUp(c) \/ Unsubscribe(c)
  PROVE  ClientsInv' /\ LiveFeed!End
<1>1. CASE HangUp(c)
  BY <1>1 DEF HangUp, ClientsInv, LiveFeed!End
<1>2. CASE Unsubscribe(c)
  BY <1>2, EmptySeq DEF Unsubscribe, ClientsInv, LiveFeed!End
<1>3. QED
  BY <1>1, <1>2

LEMMA CrashClients == ClientsInv /\ Crash => ClientsInv' /\ LiveFeed!End
<1> SUFFICES ASSUME ClientsInv, Crash
             PROVE  ClientsInv' /\ LiveFeed!End
  OBVIOUS
<1>1. /\ link' = [c \in Clients |-> IF link[c] = "off" THEN "off" ELSE "closed"]
      /\ inbox' = [c \in Clients |-> <<>>]
      /\ UNCHANGED <<published, joined, got>>
  BY DEF Crash
<1>2. QED
  BY <1>1 DEF ClientsInv, LiveFeed!End

\* A payload goes into the queue of every listening client.
LEMMA AnnounceClients ==
  ArrivalsInv /\ ClientsInv /\ Announce => ClientsInv' /\ LiveFeed!Publish
<1> SUFFICES ASSUME ArrivalsInv, ClientsInv, Announce
             PROVE  ClientsInv' /\ LiveFeed!Publish
  OBVIOUS
<1> DEFINE n == Len(arrivals)
<1>1. /\ stage = "publish" /\ published' = Append(published, n)
      /\ inbox' = [c \in Clients |-> IF c \in Listening THEN Append(inbox[c], n) ELSE inbox[c]]
      /\ UNCHANGED <<joined, got, link>>
  BY DEF Announce, FanOut
<1>2. n \in 1..MaxFlows
  BY <1>1, PublishedNumber
<1> HIDE DEF n
<1>3. /\ published' \in Seq(1..MaxFlows) /\ Len(published') = Len(published) + 1
      /\ Len(published) \in Nat
      /\ \A i \in 1..Len(published) : published'[i] = published[i]
      /\ published'[Len(published) + 1] = n
  BY <1>1, <1>2, AppendProperties, LenProperties DEF ClientsInv, MaxFlows
<1>4. \A c \in Clients :
        /\ Append(inbox[c], n) \in Seq(Nat) /\ Len(Append(inbox[c], n)) = Len(inbox[c]) + 1
        /\ Len(inbox[c]) \in Nat
        /\ \A i \in 1..Len(inbox[c]) : Append(inbox[c], n)[i] = inbox[c][i]
        /\ Append(inbox[c], n)[Len(inbox[c]) + 1] = n
  BY <1>2, MaxFlowsType, AppendProperties, LenProperties DEF ClientsInv
<1>5. inbox' \in [Clients -> Seq(Nat)]
  BY <1>1, <1>4 DEF ClientsInv
<1>6. ASSUME NEW c \in Clients, link'[c] = "on"
      PROVE  /\ Len(published') = joined[c] + Len(got[c]) + Len(inbox'[c])
             /\ \A i \in 1..Len(inbox'[c]) :
                  inbox'[c][i] = published'[joined[c] + Len(got[c]) + i]
  <2>1. /\ Len(published) = joined[c] + Len(got[c]) + Len(inbox[c])
        /\ \A i \in 1..Len(inbox[c]) : inbox[c][i] = published[joined[c] + Len(got[c]) + i]
        /\ inbox'[c] = Append(inbox[c], n)
    BY <1>1, <1>6 DEF ClientsInv, Listening
  <2>2. Len(got[c]) \in Nat /\ joined[c] \in Nat /\ Len(inbox[c]) \in Nat
    BY LenProperties DEF ClientsInv
  <2>3. ASSUME NEW i \in 1..(Len(inbox[c]) + 1)
        PROVE  Append(inbox[c], n)[i] = published'[joined[c] + Len(got[c]) + i]
    <3>1. CASE i <= Len(inbox[c])
      <4>1. i \in 1..Len(inbox[c]) /\ joined[c] + Len(got[c]) + i \in 1..Len(published)
        BY <3>1, <2>1, <2>2
      <4>2. QED
        BY <1>3, <1>4, <2>1, <4>1
    <3>2. CASE i = Len(inbox[c]) + 1
      <4>1. joined[c] + Len(got[c]) + i = Len(published) + 1
        BY <3>2, <2>1, <2>2
      <4>2. QED
        BY <1>3, <1>4, <3>2, <4>1
    <3>3. QED
      BY <3>1, <3>2, <2>2
  <2>4. Len(inbox'[c]) = Len(inbox[c]) + 1
    BY <1>4, <2>1
  <2>5. Len(published') = joined[c] + Len(got[c]) + Len(inbox'[c])
    BY <1>3, <2>1, <2>2, <2>4
  <2>6. QED
    BY <2>1, <2>3, <2>4, <2>5
<1>7. ASSUME NEW c \in Clients, link'[c] = "off"
      PROVE  inbox'[c] = <<>>
  BY <1>1, <1>7 DEF ClientsInv, Listening
<1>8. ClientsInv'
  BY <1>1, <1>3, <1>5, <1>6, <1>7 DEF ClientsInv, MaxFlows
<1>9. LiveFeed!Publish
  BY <1>1, <1>2 DEF LiveFeed!Publish, MaxFlows
<1>10. QED
  BY <1>8, <1>9

\* All other steps leave the live channel alone.
LEMMA RestClients ==
  ASSUME ClientsInv,
         \/ Tick \/ Start \/ \E p \in Feed : Take(p)
         \/ LookUpContext \/ LookUpEarnings \/ LookUpRegime \/ FetchEnds \/ Priors
         \/ Score \/ Persist \/ Dispatch \/ RecordFails
         \/ UNCHANGED vars
  PROVE  ClientsInv' /\ UNCHANGED LiveFeed!vars
<1>1. UNCHANGED liveVars
  BY DEF Tick, Start, Take, LookUpContext, LookUpEarnings, LookUpRegime, LookUp, FetchEnds,
     Priors, Score, Persist, Dispatch, RecordFails, vars
<1>2. QED
  BY <1>1 DEF liveVars, ClientsInv, LiveFeed!vars

LEMMA NextClients ==
  ArrivalsInv /\ ClientsInv /\ [Next]_vars
    => ClientsInv' /\ [LiveFeed!Next]_(LiveFeed!vars)
<1> SUFFICES ASSUME ArrivalsInv, ClientsInv, [Next]_vars
             PROVE  ClientsInv' /\ [LiveFeed!Next]_(LiveFeed!vars)
  OBVIOUS
<1>1. CASE Announce
  BY <1>1, AnnounceClients DEF LiveFeed!Next
<1>2. CASE Crash
  BY <1>2, CrashClients DEF LiveFeed!Next
<1>3. CASE \E c \in Clients : Subscribe(c) \/ HangUp(c) \/ Serve(c) \/ Unsubscribe(c)
  BY <1>3, SubscribeClients, ServeClients, EndClients DEF LiveFeed!Next
<1>4. CASE ~(\/ Announce \/ Crash
             \/ \E c \in Clients : Subscribe(c) \/ HangUp(c) \/ Serve(c) \/ Unsubscribe(c))
  BY <1>4, RestClients DEF Next
<1>5. QED
  BY <1>1, <1>2, <1>3, <1>4

LEMMA LiveFeedInit == Init => LiveFeed!Init
BY DEF Init, LiveFeed!Init

\* The broker, the coroutines that serve the clients and all that can happen to either
\* implement the live feed, for any number of clients and prints: whoever joins hears
\* everything from then on, in order and once, until the connection ends.
THEOREM RefinesLiveFeed == Spec => ImplementsLiveFeed
<1>1. ArrivalsInv /\ ClientsInv /\ [Next]_vars
        => ClientsInv' /\ [LiveFeed!Next]_(LiveFeed!vars)
  BY NextClients
<1>2. QED
  BY <1>1, ClientsInit, LiveFeedInit, ArrivalsInvariant, PTL
     DEF Spec, ImplementsLiveFeed, LiveFeed!Spec

-----------------------------------------------------------------------------
(* The windows of the trackers. *)

\* The notes of some arrivals, numbered in the order in which they came, up to time t.
InTime(note, t) ==
  /\ DOMAIN note \subseteq Nat
  /\ \A i \in DOMAIN note : note[i].at \in 0..t
  /\ \A i, j \in DOMAIN note : i <= j => note[i].at <= note[j].at

\* A set of naturals has a least element.
LEMMA LeastExists ==
  ASSUME NEW S \in SUBSET Nat, S # {}
  PROVE  Min(S) \in S /\ \A y \in S : Min(S) <= y
<1> DEFINE R == {p \in Nat \X Nat : p[1] < p[2]}
<1>1. IsWellFoundedOn(R, Nat)
  BY NatLessThanWellFounded DEF OpToRel
<1> HIDE DEF R
<1>2. PICK x \in S : \A y \in S : ~ (<<y, x>> \in R)
  BY <1>1, WFMin
<1>3. ASSUME NEW y \in S
      PROVE  x <= y
  <2>1. <<y, x>> \notin R /\ x \in Nat /\ y \in Nat
    BY <1>2
  <2>2. QED
    BY <2>1 DEF R
<1>4. QED
  BY <1>3 DEF Min

\* How many there are below each member of an ascending list, and how many there are.
LEMMA AscendingCounts ==
  ASSUME NEW m \in Nat, NEW S \in SUBSET Nat, NEW q \in [1..m -> S],
         \A k, l \in 1..m : k < l => q[k] < q[l],
         NEW k \in 1..(m + 1)
  PROVE  LET below == {q[l] : l \in 1..(k - 1)}
         IN  /\ IsFiniteSet(below) /\ Cardinality(below) = k - 1
             /\ k <= m => below = {j \in Range(q) : j < q[k]}
             /\ k = m + 1 => below = Range(q)
<1> DEFINE below == {q[l] : l \in 1..(k - 1)}
           f == [l \in 1..(k - 1) |-> q[l]]
<1>0. (\A l \in 1..m : q[l] \in Nat) /\ 1..(k - 1) \subseteq 1..m /\ k \in Nat
  <2>1. \A l \in 1..m : q[l] \in S
    OBVIOUS
  <2>2. \A l \in 1..m : q[l] \in Nat
    BY <2>1
  <2>3. k \in Nat /\ \A l \in 1..(k - 1) : l \in 1..m
    OBVIOUS
  <2>4. QED
    BY <2>2, <2>3
<1>1. f \in Bijection(1..(k - 1), below)
  <2>1. f \in [1..(k - 1) -> below] /\ \A y \in below : \E l \in 1..(k - 1) : f[l] = y
    OBVIOUS
  <2>2. ASSUME NEW i \in 1..(k - 1), NEW j \in 1..(k - 1), f[i] = f[j]
        PROVE  i = j
    <3>1. i \in 1..m /\ j \in 1..m /\ q[i] = q[j] /\ q[i] \in Nat
      BY <1>0, <2>2
    <3>2. ~(i < j) /\ ~(j < i)
      BY <3>1
    <3>3. QED
      BY <3>2
  <2>3. QED
    BY <2>1, <2>2 DEF Bijection, Injection, Surjection, IsInjective
<1>2. IsFiniteSet(1..(k - 1)) /\ Cardinality(1..(k - 1)) = k - 1
  BY FS_Interval
<1>3. IsFiniteSet(below) /\ Cardinality(below) = k - 1
  BY <1>1, <1>2, FS_Bijection DEF ExistsBijection
<1>4. ASSUME k <= m
      PROVE  below = {j \in Range(q) : j < q[k]}
  <2>1. \A l \in 1..m : q[l] \in Nat /\ (q[l] < q[k] <=> l <= k - 1)
    <3>1. ASSUME NEW l \in 1..m
          PROVE  q[l] \in Nat /\ (q[l] < q[k] <=> l <= k - 1)
      <4>1. k \in 1..m /\ q[l] \in Nat /\ q[k] \in Nat
        BY <1>0, <1>4
      <4>2. CASE l < k
        BY <4>1, <4>2
      <4>3. CASE l = k
        BY <4>1, <4>3
      <4>4. CASE l > k
        BY <4>1, <4>4
      <4>5. QED
        BY <4>2, <4>3, <4>4
    <3>2. QED
      BY <3>1
  <2>2. QED
    BY <2>1, <1>4 DEF Range
<1>5. k = m + 1 => below = Range(q)
  BY DEF Range
<1>6. QED
  BY <1>3, <1>4, <1>5

\* The list of the members of an ascending list is that list.
LEMMA ListedAscending ==
  ASSUME NEW m \in Nat, NEW q, q \in [1..m -> Nat],
         \A k, l \in 1..m : k < l => q[k] < q[l],
         NEW note, NEW dq, dq = [k \in 1..m |-> note[q[k]]]
  PROVE  Listed(Range(q), note) = dq
<1>0. \A k \in 1..(m + 1) :
        LET below == {q[l] : l \in 1..(k - 1)}
        IN  /\ IsFiniteSet(below) /\ Cardinality(below) = k - 1
            /\ k <= m => below = {j \in Range(q) : j < q[k]}
            /\ k = m + 1 => below = Range(q)
  BY AscendingCounts
<1>1. IsFiniteSet(Range(q)) /\ Cardinality(Range(q)) = m
  <2>1. m + 1 \in 1..(m + 1) /\ (m + 1) - 1 = m
    OBVIOUS
  <2>2. QED
    BY <1>0, <2>1
<1>2. ASSUME NEW k \in 1..m
      PROVE  (CHOOSE i \in Range(q) : Cardinality({j \in Range(q) : j < i}) = k - 1) = q[k]
  <2>1. \A l \in 1..m : Cardinality({j \in Range(q) : j < q[l]}) = l - 1
    <3>1. ASSUME NEW l \in 1..m
          PROVE  Cardinality({j \in Range(q) : j < q[l]}) = l - 1
      <4>1. l \in 1..(m + 1) /\ l <= m
        OBVIOUS
      <4>2. QED
        BY <4>1, <1>0
    <3>2. QED
      BY <3>1
  <2>2. q[k] \in Range(q) /\ Cardinality({j \in Range(q) : j < q[k]}) = k - 1
    BY <2>1 DEF Range
  <2>3. ASSUME NEW i \in Range(q), Cardinality({j \in Range(q) : j < i}) = k - 1
        PROVE  i = q[k]
    <3>1. PICK l \in 1..m : i = q[l]
      BY DEF Range
    <3>2. l - 1 = k - 1
      BY <2>1, <2>3, <3>1
    <3>3. QED
      BY <3>1, <3>2
  <2>4. QED
    BY <2>2, <2>3
<1>3. \A k \in 1..m : note[CHOOSE i \in Range(q) : Cardinality({j \in Range(q) : j < i}) = k - 1]
                      = note[q[k]]
  BY <1>2, Zenon
<1>4. Listed(Range(q), note) = [k \in 1..m |-> note[q[k]]]
  BY <1>1, <1>3, Zenon DEF Listed
<1>5. QED
  BY <1>4

LEMMA RangeAscending ==
  ASSUME NEW m \in Nat, NEW q, q \in [1..m -> Nat],
         \A k, l \in 1..m : k < l => q[k] < q[l]
  PROVE  IsFiniteSet(Range(q)) /\ Cardinality(Range(q)) = m
<1>1. m + 1 \in 1..(m + 1) /\ (m + 1) - 1 = m
  OBVIOUS
<1>2. \A k \in 1..(m + 1) :
        LET below == {q[l] : l \in 1..(k - 1)}
        IN  /\ IsFiniteSet(below) /\ Cardinality(below) = k - 1
            /\ k <= m => below = {j \in Range(q) : j < q[k]}
            /\ k = m + 1 => below = Range(q)
  BY AscendingCounts
<1>3. QED
  BY <1>1, <1>2

-----------------------------------------------------------------------------

\* Evict() leaves a window, of which nothing is too old.
LEMMA EvictKeeps ==
  ASSUME NEW note, NEW t \in Nat, InTime(note, t), NEW S, S \subseteq DOMAIN note,
         NEW dq, dq \in Seq(Range(note)), NEW window \in Nat, NEW limited,
         NEW q, Keeps(dq, q, S, note, t, window, limited)
  PROVE  /\ Evict(dq, t, window) \in Seq(Range(note))
         /\ \E r : /\ Keeps(Evict(dq, t, window), r, S, note, t, window, limited)
                   /\ \A k \in DOMAIN r : t - note[r[k]].at <= window
<1> DEFINE kept == {i \in DOMAIN dq : t - dq[i].at <= window}
           new  == Evict(dq, t, window)
<1>1. /\ Len(dq) \in Nat /\ DOMAIN dq = 1..Len(dq) /\ q \in [1..Len(dq) -> S]
      /\ \A k \in 1..Len(dq) : dq[k] \in Range(note) /\ dq[k] = note[q[k]]
                               /\ q[k] \in DOMAIN note /\ q[k] \in Nat
                               /\ note[q[k]].at \in 0..t
      /\ \A k, l \in 1..Len(dq) : k < l => q[k] < q[l]
  BY LenProperties, ElementOfSeq DEF Keeps, InTime
<1>2. MaxEvents \in Nat \ {0}
  BY TrackersAssumption
<1>3. \A k, l \in 1..Len(dq) : k <= l => note[q[k]].at <= note[q[l]].at
  BY <1>1 DEF InTime
<1>4. ASSUME NEW i \in S \ Range(q)
      PROVE  /\ \A k \in 1..Len(dq) : i < q[k] /\ note[i].at <= note[q[k]].at
             /\ note[i].at \in 0..t
             /\ t - note[i].at > window \/ (limited /\ Len(dq) = MaxEvents)
  BY <1>1 DEF Keeps, InTime
<1>5. CASE kept = {}
  <2>1. new = <<>>
    BY <1>5 DEF Evict
  <2>2. Len(new) = 0 /\ new \in Seq(Range(note))
    BY <2>1, EmptySeq
  <2> DEFINE r == [k \in 1..0 |-> 0]
  <2>3. \A k \in 1..Len(dq) : t - note[q[k]].at > window
    BY <1>1, <1>5
  <2>4. ASSUME NEW i \in S
        PROVE  t - note[i].at > window
    <3>1. CASE i \in Range(q)
      BY <1>1, <2>3, <3>1 DEF Range
    <3>2. CASE i \notin Range(q) /\ Len(dq) # 0
      <4>1. 1 \in 1..Len(dq)
        BY <1>1, <3>2
      <4>2. QED
        BY <1>1, <1>4, <2>3, <3>2, <4>1
    <3>3. CASE i \notin Range(q) /\ Len(dq) = 0
      BY <1>2, <1>4, <3>3
    <3>4. QED
      BY <3>1, <3>2, <3>3
  <2>5. Keeps(new, r, S, note, t, window, limited)
    BY <1>2, <2>2, <2>4 DEF Keeps, Range
  <2>6. QED
    BY <2>2, <2>5
<1>6. CASE kept # {}
  <2> DEFINE m == Min(kept)
             n == Len(dq) - m + 1
             r == [k \in 1..n |-> q[m + k - 1]]
  <2>0. kept \in SUBSET Nat
    BY <1>1
  <2>1. m \in kept /\ \A y \in kept : m <= y
    <3> HIDE DEF kept
    <3>1. QED
      BY <1>6, <2>0, LeastExists
  <2>2. m \in 1..Len(dq) /\ n \in 1..Len(dq)
    BY <1>1, <2>1
  <2> HIDE DEF m
  <2>3. new = SubSeq(dq, m, Len(dq))
    BY <1>6 DEF Evict, m
  <2>4. /\ new \in Seq(Range(note)) /\ Len(new) = n
        /\ \A k \in 1..n : new[k] = dq[m + k - 1]
    BY <1>1, <2>2, <2>3, SubSeqProperties
  <2>5. \A k \in 1..n : m + k - 1 \in 1..Len(dq)
    BY <1>1, <2>2
  <2> HIDE DEF new
  <2>6. \A k \in 1..Len(dq) : k >= m <=> t - note[q[k]].at <= window
    <3>1. t - note[q[m]].at <= window
      BY <1>1, <2>1, <2>2
    <3>2. ASSUME NEW k \in 1..Len(dq), k >= m
          PROVE  t - note[q[k]].at <= window
      BY <1>1, <1>3, <2>2, <3>1, <3>2
    <3>3. ASSUME NEW k \in 1..Len(dq), t - note[q[k]].at <= window
          PROVE  k >= m
      BY <1>1, <2>1, <3>3
    <3>4. QED
      BY <3>2, <3>3
  <2>7. ASSUME NEW i \in S \ Range(r)
        PROVE  /\ \A k \in 1..n : i < r[k]
               /\ t - note[i].at > window \/ (limited /\ Len(new) = MaxEvents)
    <3>1. CASE i \in Range(q)
      <4>1. PICK l \in 1..Len(dq) : i = q[l]
        BY <1>1, <3>1 DEF Range
      <4>2. ~(l >= m)
        <5>1. ASSUME l >= m
              PROVE  FALSE
          <6>1. l - m + 1 \in 1..n /\ m + (l - m + 1) - 1 = l
            BY <1>1, <2>2, <5>1
          <6>2. r[l - m + 1] = i
            BY <4>1, <6>1
          <6>3. QED
            BY <2>7, <6>1, <6>2 DEF Range
        <5>2. QED
          BY <5>1
      <4>3. \A k \in 1..n : i < r[k]
        <5>1. ASSUME NEW k \in 1..n
              PROVE  i < r[k]
          <6>1. m + k - 1 \in 1..Len(dq) /\ l < m + k - 1
            BY <1>1, <2>2, <2>5, <4>2
          <6>2. QED
            BY <1>1, <4>1, <6>1
        <5>2. QED
          BY <5>1
      <4>4. t - note[i].at > window
        BY <1>1, <2>2, <2>6, <4>1, <4>2
      <4>5. QED
        BY <4>3, <4>4
    <3>2. CASE i \notin Range(q)
      <4>1. \A k \in 1..n : i < r[k]
        BY <1>4, <2>5, <3>2
      <4>2. CASE m = 1
        BY <1>4, <2>4, <3>2, <4>2, <1>1
      <4>3. CASE m # 1
        <5>1. 1 \in 1..Len(dq) /\ ~(1 >= m)
          BY <1>1, <2>2, <4>3
        <5>2. t - note[q[1]].at > window /\ note[q[1]].at \in 0..t
          BY <1>1, <2>6, <5>1
        <5>3. note[i].at <= note[q[1]].at /\ note[i].at \in 0..t
          BY <1>4, <3>2, <5>1
        <5>4. QED
          BY <4>1, <5>2, <5>3
      <4>4. QED
        BY <4>1, <4>2, <4>3
    <3>3. QED
      BY <3>1, <3>2
  <2>8. r \in [1..n -> S] /\ \A k \in 1..n : new[k] = note[r[k]]
    BY <1>1, <2>4, <2>5
  <2>9. \A k, l \in 1..n : k < l => r[k] < r[l]
    BY <1>1, <2>2, <2>5
  <2>10. limited => Len(new) <= MaxEvents
    BY <1>1, <1>2, <2>2, <2>4 DEF Keeps
  <2>11. Keeps(new, r, S, note, t, window, limited)
    BY <2>4, <2>7, <2>8, <2>9, <2>10 DEF Keeps
  <2>12. \A k \in DOMAIN r : t - note[r[k]].at <= window
    BY <1>1, <2>2, <2>5, <2>6
  <2>13. QED
    BY <2>4, <2>11, <2>12 DEF new
<1>7. QED
  BY <1>5, <1>6

\* append(), where there is no limit, or room.
LEMMA AppendKeeps ==
  ASSUME NEW note, NEW S \in SUBSET DOMAIN note, DOMAIN note \subseteq Nat,
         NEW n \in DOMAIN note, \A i \in S : i < n, NEW t, NEW window,
         NEW dq \in Seq(Range(note)), NEW limited, limited => Len(dq) < MaxEvents,
         NEW q, Keeps(dq, q, S, note, t, window, limited)
  PROVE  LET new == Append(dq, note[n])
         IN  /\ new \in Seq(Range(note))
             /\ \E r : Keeps(new, r, S \cup {n}, note, t, window, limited)
<1> DEFINE new == Append(dq, note[n])
           len == Len(dq)
           r == [k \in 1..(len + 1) |-> IF k = len + 1 THEN n ELSE q[k]]
<1>1. /\ new \in Seq(Range(note)) /\ Len(new) = len + 1 /\ len \in Nat
      /\ \A k \in 1..len : new[k] = dq[k]
      /\ new[len + 1] = note[n]
  <2>1. note[n] \in Range(note)
    BY DEF Range
  <2>2. QED
    BY <2>1, AppendProperties, LenProperties
<1> HIDE DEF new
<1>2. /\ q \in [1..len -> S] /\ \A k \in 1..len : dq[k] = note[q[k]]
      /\ \A k, l \in 1..len : k < l => q[k] < q[l]
      /\ \A i \in S \ Range(q) : \A k \in 1..len : i < q[k]
  BY DEF Keeps
<1>3. MaxEvents \in Nat \ {0}
  BY TrackersAssumption
<1> HIDE DEF len
<1>4. r \in [1..(len + 1) -> S \cup {n}] /\ \A k \in 1..(len + 1) : new[k] = note[r[k]]
  BY <1>1, <1>2
<1>5. \A k, l \in 1..(len + 1) : k < l => r[k] < r[l]
  BY <1>1, <1>2
<1>6. ASSUME NEW i \in (S \cup {n}) \ Range(r)
      PROVE  /\ \A k \in 1..(len + 1) : i < r[k]
             /\ t - note[i].at > window \/ (limited /\ Len(new) = MaxEvents)
  <2>1. len + 1 \in 1..(len + 1)
    BY <1>1
  <2>2. i # n
    BY <1>6, <2>1 DEF Range
  <2>3. i \in S
    BY <2>2
  <2>4. i \notin Range(q)
    <3>1. ASSUME NEW l \in 1..len, i = q[l]
          PROVE  FALSE
      <4>1. l \in 1..(len + 1) /\ r[l] = i
        BY <1>1, <3>1
      <4>2. QED
        BY <1>6, <4>1 DEF Range
    <3>2. QED
      BY <1>2, <3>1 DEF Range
  <2>5. t - note[i].at > window
    BY <1>1, <1>3, <2>3, <2>4 DEF Keeps, len
  <2>6. QED
    BY <1>1, <1>2, <2>3, <2>4, <2>5
<1>7. limited => Len(new) <= MaxEvents
  BY <1>1, <1>3 DEF len
<1>8. Keeps(new, r, S \cup {n}, note, t, window, limited)
  BY <1>1, <1>4, <1>5, <1>6, <1>7 DEF Keeps
<1>9. QED
  BY <1>1, <1>8 DEF new

\* append() on a deque with a maxlen.
LEMMA PushKeeps ==
  ASSUME NEW note, NEW S \in SUBSET DOMAIN note, DOMAIN note \subseteq Nat,
         NEW n \in DOMAIN note, \A i \in S : i < n, NEW t, NEW window,
         NEW dq \in Seq(Range(note)), NEW q, Keeps(dq, q, S, note, t, window, TRUE)
  PROVE  LET new == Push(dq, note[n])
         IN  /\ new \in Seq(Range(note))
             /\ \E r : Keeps(new, r, S \cup {n}, note, t, window, TRUE)
<1>1. CASE Len(dq) < MaxEvents
  <2>1. Push(dq, note[n]) = Append(dq, note[n])
    BY <1>1 DEF Push
  <2>2. /\ Append(dq, note[n]) \in Seq(Range(note))
        /\ \E r : Keeps(Append(dq, note[n]), r, S \cup {n}, note, t, window, TRUE)
    BY <1>1, AppendKeeps
  <2>3. QED
    BY <2>1, <2>2
<1>2. CASE ~(Len(dq) < MaxEvents)
  <2> DEFINE new == Append(Tail(dq), note[n])
             len == Len(dq)
             r == [k \in 1..len |-> IF k = len THEN n ELSE q[k + 1]]
  <2>1. MaxEvents \in Nat \ {0}
    BY TrackersAssumption
  <2>2. len = MaxEvents /\ len \in Nat \ {0}
    BY <1>2, <2>1, LenProperties DEF Keeps
  <2>3. dq # <<>>
    BY <2>2
  <2>4. /\ Tail(dq) \in Seq(Range(note)) /\ Len(Tail(dq)) = len - 1
        /\ \A k \in 1..(len - 1) : Tail(dq)[k] = dq[k + 1]
    BY <2>3, HeadTailProperties
  <2>5. /\ new \in Seq(Range(note)) /\ Len(new) = len
        /\ \A k \in 1..(len - 1) : new[k] = dq[k + 1]
        /\ new[len] = note[n]
    <3>1. note[n] \in Range(note)
      BY DEF Range
    <3> HIDE DEF len
    <3>2. (len - 1) + 1 = len
      BY <2>2
    <3>3. QED
      BY <2>2, <2>4, <3>1, <3>2, AppendProperties
  <2>6. new = Push(dq, note[n])
    BY <1>2 DEF Push
  <2> HIDE DEF new
  <2>7. /\ q \in [1..len -> S] /\ \A k \in 1..len : dq[k] = note[q[k]]
        /\ \A k, l \in 1..len : k < l => q[k] < q[l]
        /\ \A i \in S \ Range(q) : \A k \in 1..len : i < q[k]
        /\ \A k \in 1..len : q[k] \in S /\ q[k] \in Nat
    BY DEF Keeps
  <2> HIDE DEF len
  <2>8. r \in [1..len -> S \cup {n}] /\ \A k \in 1..len : new[k] = note[r[k]]
    <3>1. ASSUME NEW k \in 1..len
          PROVE  r[k] \in S \cup {n} /\ new[k] = note[r[k]]
      <4>1. CASE k = len
        BY <2>5, <4>1
      <4>2. CASE k # len
        <5>1. k \in 1..(len - 1) /\ k + 1 \in 1..len
          BY <2>2, <4>2
        <5>2. QED
          BY <2>5, <2>7, <4>2, <5>1
      <4>3. QED
        BY <4>1, <4>2
    <3>2. QED
      BY <3>1
  <2>9. \A k, l \in 1..len : k < l => r[k] < r[l]
    BY <2>2, <2>7
  <2>10. ASSUME NEW i \in (S \cup {n}) \ Range(r)
         PROVE  \A k \in 1..len : i < r[k]
    <3>1. i # n /\ i \in S
      BY <2>2, <2>10 DEF Range
    <3>2. CASE i \in Range(q)
      <4>1. PICK l \in 1..len : i = q[l]
        BY <2>7, <3>2 DEF Range
      <4>2. l = 1
        <5>1. ASSUME l # 1
              PROVE  FALSE
          <6>1. l - 1 \in 1..len /\ l - 1 # len /\ (l - 1) + 1 = l
            BY <2>2, <5>1
          <6>2. r[l - 1] = i
            BY <4>1, <6>1
          <6>3. QED
            BY <2>10, <6>1, <6>2 DEF Range
        <5>2. QED
          BY <5>1
      <4>3. ASSUME NEW k \in 1..len
            PROVE  i < r[k]
        <5>1. CASE k = len
          BY <3>1, <5>1
        <5>2. CASE k # len
          <6>1. k + 1 \in 1..len /\ 1 \in 1..len /\ 1 < k + 1
            BY <2>2, <5>2
          <6>2. QED
            BY <2>7, <4>1, <4>2, <5>2, <6>1
        <5>3. QED
          BY <5>1, <5>2
      <4>4. QED
        BY <4>3
    <3>3. CASE i \notin Range(q)
      BY <2>2, <2>7, <3>1, <3>3
    <3>4. QED
      BY <3>2, <3>3
  <2>11. Keeps(new, r, S \cup {n}, note, t, window, TRUE)
    <3>1. DOMAIN r = 1..Len(new) /\ Len(new) = MaxEvents
      BY <2>2, <2>5
    <3> HIDE DEF r
    <3>2. QED
      BY <2>1, <2>5, <2>8, <2>9, <2>10, <3>1 DEF Keeps
  <2>12. QED
    BY <2>5, <2>6, <2>11
<1>3. QED
  BY <1>1, <1>2

\* The arrivals of S that a window should have: those that are not too old, or as many
\* of them as there is room for.
Counted(S, note, t, window, limited) ==
  LET inside == {i \in S : t - note[i].at <= window}
  IN  IF limited THEN Newest(inside) ELSE inside

\* A window of which nothing is too old is what counting from scratch finds.
LEMMA WindowFromScratch ==
  ASSUME NEW note, NEW t \in Nat, InTime(note, t), NEW S, S \subseteq DOMAIN note,
         IsFiniteSet(S), NEW dq, dq \in Seq(Range(note)), NEW window \in Nat,
         NEW limited, NEW q, Keeps(dq, q, S, note, t, window, limited),
         \A k \in DOMAIN q : t - note[q[k]].at <= window
  PROVE  LET listed == Counted(S, note, t, window, limited)
         IN  /\ Len(dq) = Cardinality(listed)
             /\ Listed(listed, note) = dq
             /\ \E r \in [1..Len(dq) -> listed] :
                  Range(r) = listed /\ \A k \in 1..Len(dq) : dq[k] = note[r[k]]
<1> DEFINE inside == {i \in S : t - note[i].at <= window}
           len == Len(dq)
<1>1. /\ len \in Nat /\ q \in [1..len -> S]
      /\ \A k \in 1..len : dq[k] = note[q[k]] /\ q[k] \in Nat /\ q[k] \in inside
      /\ \A k, l \in 1..len : k < l => q[k] < q[l]
  BY LenProperties DEF Keeps, InTime
<1>2. S \in SUBSET Nat /\ inside \in SUBSET S /\ MaxEvents \in Nat \ {0}
  BY TrackersAssumption DEF InTime
<1>3. /\ IsFiniteSet(Range(q)) /\ Cardinality(Range(q)) = len
      /\ Listed(Range(q), note) = dq
  <2>1. \A k, l \in 1..len : k < l => q[k] < q[l]
    BY <1>1
  <2>2. len \in Nat /\ q \in [1..len -> Nat]
    BY <1>1
  <2>3. dq = [k \in 1..len |-> note[q[k]]]
    BY <1>1, LenProperties
  <2> HIDE DEF len
  <2>4. Listed(Range(q), note) = dq
    BY <2>1, <2>2, <2>3, ListedAscending
  <2>5. QED
    BY <2>1, <2>2, <2>4, RangeAscending
<1>5. IsFiniteSet(inside)
  BY <1>2, FS_Subset
<1>6. Range(q) \subseteq inside
  BY <1>1 DEF Range
<1>7. ASSUME NEW i \in inside \ Range(q)
      PROVE  (\A k \in 1..len : i < q[k]) /\ limited /\ len = MaxEvents
  <2>1. i \in S \ Range(q) /\ ~(t - note[i].at > window)
    BY <1>7 DEF InTime
  <2>2. QED
    BY <1>1, <2>1 DEF Keeps
<1>8. CASE ~limited
  <2>1. Range(q) = inside
    BY <1>6, <1>7, <1>8
  <2>2. q \in [1..len -> inside]
    BY <1>1
  <2>3. QED
    BY <1>1, <1>3, <1>8, <2>1, <2>2 DEF Counted
<1>9. CASE limited
  <2>1. ASSUME NEW i \in Range(q)
        PROVE  i \in Newest(inside)
    <3>1. PICK k \in 1..len : i = q[k]
      BY <1>1 DEF Range
    <3>2. len <= MaxEvents
      BY <1>9 DEF Keeps
    <3>3. {j \in inside : j > i} \subseteq Range(q) \ {i}
      <4>1. ASSUME NEW j \in inside, j > i
            PROVE  j \in Range(q) \ {i}
        <5>1. j \in Nat /\ i \in Nat
          BY <1>1, <1>2, <3>1
        <5>2. j # i /\ ~(j < i)
          BY <4>1, <5>1
        <5>3. j \in Range(q)
          BY <1>7, <3>1, <5>2
        <5>4. QED
          BY <5>2, <5>3
      <4>2. QED
        BY <4>1
    <3>4. /\ IsFiniteSet(Range(q) \ {i}) /\ Cardinality(Range(q) \ {i}) = len - 1
      BY <1>3, <2>1, FS_RemoveElement
    <3>5. Cardinality({j \in inside : j > i}) <= len - 1
          /\ Cardinality({j \in inside : j > i}) \in Nat
      <4> HIDE DEF inside
      <4>1. QED
        BY <3>3, <3>4, FS_Subset, FS_CardinalityType
    <3>6. Cardinality({j \in inside : j > i}) < MaxEvents
      BY <1>1, <1>2, <3>2, <3>5
    <3>7. QED
      BY <1>6, <2>1, <3>6 DEF Newest
  <2>2. ASSUME NEW i \in inside \ Range(q)
        PROVE  i \notin Newest(inside)
    <3>1. /\ \A k \in 1..len : i < q[k]
          /\ len = MaxEvents
      BY <1>7
    <3>2. Range(q) \subseteq {j \in inside : j > i}
      <4>1. ASSUME NEW k \in 1..len
            PROVE  q[k] \in {j \in inside : j > i}
        BY <1>1, <1>2, <3>1
      <4>2. QED
        BY <1>1, <4>1 DEF Range
    <3>3. IsFiniteSet({j \in inside : j > i})
      BY <1>5, FS_Subset
    <3>4. /\ len <= Cardinality({j \in inside : j > i})
          /\ Cardinality({j \in inside : j > i}) \in Nat
      <4> HIDE DEF inside
      <4>1. QED
        BY <1>3, <3>2, <3>3, FS_Subset, FS_CardinalityType
    <3>5. ~(Cardinality({j \in inside : j > i}) < MaxEvents)
      BY <1>2, <3>1, <3>4
    <3>6. QED
      BY <3>5 DEF Newest
  <2>3. Newest(inside) \subseteq inside
    BY DEF Newest
  <2>4. Range(q) = Newest(inside)
    <3> HIDE DEF inside
    <3>1. QED
      BY <1>6, <2>1, <2>2, <2>3
  <2>5. q \in [1..len -> Newest(inside)]
    <3>1. \A k \in 1..len : q[k] \in Range(q)
      BY <1>1 DEF Range
    <3> HIDE DEF inside
    <3>2. QED
      BY <1>1, <2>4, <3>1
  <2> HIDE DEF inside
  <2>6. QED
    BY <1>1, <1>3, <1>9, <2>4, <2>5 DEF inside, Counted
<1>10. QED
  BY <1>8, <1>9

-----------------------------------------------------------------------------

\* A window that has what counting from scratch finds.
IsRecount(dq, S, note, t, window, limited) ==
  LET listed == Counted(S, note, t, window, limited)
  IN  /\ IsWindow(dq, S, note, t, window, limited)
      /\ Len(dq) = Cardinality(listed)
      /\ Listed(listed, note) = dq
      /\ \E r \in [1..Len(dq) -> listed] :
           Range(r) = listed /\ \A k \in 1..Len(dq) : dq[k] = note[r[k]]

\* Evict() makes a window such a one.
LEMMA EvictWindow ==
  ASSUME NEW note, NEW t \in Nat, InTime(note, t), NEW S, S \subseteq DOMAIN note,
         IsFiniteSet(S), NEW dq, NEW window \in Nat, NEW limited,
         IsWindow(dq, S, note, t, window, limited)
  PROVE  IsRecount(Evict(dq, t, window), S, note, t, window, limited)
<1> DEFINE new == Evict(dq, t, window)
<1>1. PICK q : Keeps(dq, q, S, note, t, window, limited)
  BY DEF IsWindow
<1>2. dq \in Seq(Range(note))
  BY DEF IsWindow
<1>3. /\ new \in Seq(Range(note))
      /\ \E r : /\ Keeps(new, r, S, note, t, window, limited)
                /\ \A k \in DOMAIN r : t - note[r[k]].at <= window
  <2>1. S \in SUBSET DOMAIN note
    OBVIOUS
  <2>2. QED
    BY <1>1, <1>2, <2>1, EvictKeeps
<1>4. PICK r : /\ Keeps(new, r, S, note, t, window, limited)
               /\ \A k \in DOMAIN r : t - note[r[k]].at <= window
  BY <1>3
<1> HIDE DEF new
<1>5. IsWindow(new, S, note, t, window, limited)
  <2>1. r \in [1..Len(new) -> S]
    BY <1>4 DEF Keeps
  <2>2. QED
    BY <1>3, <1>4, <2>1 DEF IsWindow
<1>6. LET listed == Counted(S, note, t, window, limited)
      IN  /\ Len(new) = Cardinality(listed)
          /\ Listed(listed, note) = new
          /\ \E z \in [1..Len(new) -> listed] :
               Range(z) = listed /\ \A k \in 1..Len(new) : new[k] = note[z[k]]
  <2>1. S \in SUBSET DOMAIN note
    OBVIOUS
  <2>2. QED
    BY <1>3, <1>4, <2>1, WindowFromScratch
<1>7. QED
  BY <1>5, <1>6 DEF new, IsRecount

LEMMA AppendWindow ==
  ASSUME NEW note, DOMAIN note \subseteq Nat, NEW S, S \subseteq DOMAIN note, NEW t,
         NEW n \in DOMAIN note, \A i \in S : i < n, NEW dq, NEW window,
         IsWindow(dq, S, note, t, window, FALSE)
  PROVE  IsWindow(Append(dq, note[n]), S \cup {n}, note, t, window, FALSE)
<1> DEFINE new == Append(dq, note[n])
<1>1. PICK q : Keeps(dq, q, S, note, t, window, FALSE)
  BY DEF IsWindow
<1>2. /\ new \in Seq(Range(note))
      /\ \E r : Keeps(new, r, S \cup {n}, note, t, window, FALSE)
  BY <1>1, AppendKeeps DEF IsWindow
<1> HIDE DEF new
<1>3. PICK r : Keeps(new, r, S \cup {n}, note, t, window, FALSE)
  BY <1>2
<1>4. r \in [1..Len(new) -> S \cup {n}]
  BY <1>3 DEF Keeps
<1>5. QED
  BY <1>2, <1>3, <1>4 DEF IsWindow, new

LEMMA PushWindow ==
  ASSUME NEW note, DOMAIN note \subseteq Nat, NEW S, S \subseteq DOMAIN note, NEW t,
         NEW n \in DOMAIN note, \A i \in S : i < n, NEW dq, NEW window,
         IsWindow(dq, S, note, t, window, TRUE)
  PROVE  IsWindow(Push(dq, note[n]), S \cup {n}, note, t, window, TRUE)
<1> DEFINE new == Push(dq, note[n])
<1>1. PICK q : Keeps(dq, q, S, note, t, window, TRUE)
  BY DEF IsWindow
<1>2. /\ new \in Seq(Range(note))
      /\ \E r : Keeps(new, r, S \cup {n}, note, t, window, TRUE)
  BY <1>1, PushKeeps DEF IsWindow
<1> HIDE DEF new
<1>3. PICK r : Keeps(new, r, S \cup {n}, note, t, window, TRUE)
  BY <1>2
<1>4. r \in [1..Len(new) -> S \cup {n}]
  BY <1>3 DEF Keeps
<1>5. QED
  BY <1>2, <1>3, <1>4 DEF IsWindow, new

\* What was too old stays so, and the arrivals that come do not change those before.
LEMMA LaterWindow ==
  ASSUME NEW note, NEW t \in Nat, InTime(note, t), NEW u \in Nat, t <= u,
         NEW later, DOMAIN note \subseteq DOMAIN later,
         \A i \in DOMAIN note : later[i] = note[i],
         NEW S, S \subseteq DOMAIN note, NEW dq, NEW window \in Nat, NEW limited,
         IsWindow(dq, S, note, t, window, limited)
  PROVE  IsWindow(dq, S, later, u, window, limited)
<1>1. PICK q \in [1..Len(dq) -> S] : Keeps(dq, q, S, note, t, window, limited)
  BY DEF IsWindow
<1>2. dq \in Seq(Range(later))
  <2>1. Range(note) \subseteq Range(later)
    BY DEF Range
  <2>2. dq \in Seq(Range(note))
    BY DEF IsWindow
  <2>3. QED
    BY <2>1, <2>2, SeqMonotonic
<1>3. \A i \in S : later[i] = note[i] /\ note[i].at \in 0..t
  BY DEF InTime
<1>4. ASSUME NEW i \in S \ Range(q)
      PROVE  /\ \A k \in DOMAIN q : i < q[k]
             /\ u - later[i].at > window \/ (limited /\ Len(dq) = MaxEvents)
  BY <1>1, <1>3 DEF Keeps
<1>5. Keeps(dq, q, S, later, u, window, limited)
  BY <1>1, <1>3, <1>4 DEF Keeps
<1>6. QED
  BY <1>2, <1>5 DEF IsWindow

-----------------------------------------------------------------------------
(* The signals. *)

LEMMA EmptyWindow ==
  ASSUME NEW note, NEW t, NEW window, NEW limited
  PROVE  IsWindow(<<>>, {}, note, t, window, limited)
<1> DEFINE q == [k \in 1..0 |-> 0]
<1>1. <<>> \in Seq(Range(note)) /\ Len(<<>>) = 0
  BY EmptySeq
<1>2. q \in [1..0 -> {}] /\ DOMAIN q = {}
  OBVIOUS
<1>3. Keeps(<<>>, q, {}, note, t, window, limited)
  BY <1>1, <1>2, TrackersAssumption DEF Keeps
<1>4. QED
  BY <1>1, <1>2, <1>3 DEF IsWindow

\* The notes are of the arrivals.
LEMMA NotesInTime ==
  ASSUME ArrivalsInv, TimesInv
  PROVE  /\ Arrived = 1..Len(arrivals) /\ Len(arrivals) \in Nat
         /\ DOMAIN SweepNote = Arrived /\ DOMAIN PrintNote = Arrived
         /\ DOMAIN IvNote = Arrived /\ DOMAIN FollowNote = Arrived
         /\ InTime(SweepNote, now) /\ InTime(PrintNote, now)
         /\ InTime(IvNote, now) /\ InTime(FollowNote, now)
<1>1. Arrived = 1..Len(arrivals) /\ Len(arrivals) \in Nat
  BY LenProperties DEF ArrivalsInv, Arrived
<1>2. \A i \in Arrived : i \in Nat /\ arrivals[i].at \in 0..now
  BY <1>1 DEF TimesInv
<1>3. \A i, j \in Arrived : i <= j => arrivals[i].at <= arrivals[j].at
  BY <1>1, <1>2 DEF TimesInv
<1>4. InTime(SweepNote, now)
  BY <1>2, <1>3 DEF InTime, SweepNote
<1>5. InTime(PrintNote, now)
  BY <1>2, <1>3 DEF InTime, PrintNote
<1>6. InTime(IvNote, now)
  BY <1>2, <1>3 DEF InTime, IvNote
<1>7. InTime(FollowNote, now)
  BY <1>2, <1>3 DEF InTime, FollowNote
<1>8. QED
  BY <1>1, <1>4, <1>5, <1>6, <1>7 DEF SweepNote, PrintNote, IvNote, FollowNote

\* The sets of arrivals that the trackers are about.
LEMMA SetsOfArrivals ==
  ASSUME NEW k
  PROVE  /\ SweepsOf(k) \subseteq Arrived /\ PrintsOf(k) \subseteq Arrived
         /\ IvsOf(k) \subseteq Arrived /\ FollowsOf(k) \subseteq Arrived
BY DEF SweepsOf, PrintsOf, IvsOf, FollowsOf

\* Time alone does no harm to a window.
LEMMA AgedWindow ==
  ASSUME NEW note, NEW t \in Nat, InTime(note, t), NEW u \in Nat, t <= u,
         NEW S, S \subseteq DOMAIN note, NEW dq, NEW window \in Nat, NEW limited,
         IsWindow(dq, S, note, t, window, limited)
  PROVE  IsWindow(dq, S, note, u, window, limited)
<1>1. DOMAIN note \subseteq DOMAIN note /\ \A i \in DOMAIN note : note[i] = note[i]
  OBVIOUS
<1>2. QED
  BY <1>1, LaterWindow

\* Nor do the notes of what arrives later.
LEMMA NotedWindow ==
  ASSUME NEW note, NEW t \in Nat, InTime(note, t),
         NEW later, DOMAIN note \subseteq DOMAIN later,
         \A i \in DOMAIN note : later[i] = note[i],
         NEW S, S \subseteq DOMAIN note, NEW dq, NEW window \in Nat, NEW limited,
         IsWindow(dq, S, note, t, window, limited)
  PROVE  IsWindow(dq, S, later, t, window, limited)
<1>1. t <= t
  OBVIOUS
<1>2. QED
  BY <1>1, LaterWindow

LEMMA WindowsAreNat ==
  SweepWindow \in Nat /\ SequenceWindow \in Nat /\ IvWindow \in Nat /\ FollowWindow \in Nat
BY TrackersAssumption

\* A step that records nothing: time passes, and the prints are those of the feed.
LEMMA QuietSignals ==
  ASSUME SignalsInv, ArrivalsInv', UNCHANGED <<trackers, arrivals>>,
         now' \in Nat, now <= now',
         stage' \in Unrecorded => print' \in Feed,
         stage' = "store" => stage = "store"
  PROVE  SignalsInv'
<1> USE DEF SignalsInv
<1>1. TimesInv'
  <2>1. Arrived' = Arrived /\ now \in Nat
    BY DEF Arrived, TimesInv
  <2>2. \A i \in Arrived : arrivals[i].print \in Feed /\ arrivals[i].at \in 0..now'
    BY <2>1 DEF TimesInv
  <2>3. QED
    BY <2>1, <2>2 DEF TimesInv
<1>2. /\ Arrived' = Arrived /\ SweepNote' = SweepNote /\ PrintNote' = PrintNote
      /\ IvNote' = IvNote /\ FollowNote' = FollowNote
      /\ \A k : SweepsOf(k)' = SweepsOf(k) /\ FollowsOf(k)' = FollowsOf(k)
      /\ \A s : PrintsOf(s)' = PrintsOf(s) /\ IvsOf(s)' = IvsOf(s)
      /\ \A n, w : Within(n, w)' = Within(n, w)
  BY DEF Arrived, SweepNote, PrintNote, IvNote, FollowNote, SweepsOf, FollowsOf, PrintsOf,
         IvsOf, Within
<1>3. now \in Nat
  BY DEF TimesInv
<1>4. ASSUME NEW k \in Contracts
      PROVE  /\ IsWindow(trackers.sweeps[k], SweepsOf(k), SweepNote, now', SweepWindow, FALSE)
             /\ IsWindow(trackers.follows[k], FollowsOf(k), FollowNote, now', FollowWindow, TRUE)
  <2>1. IsWindow(trackers.sweeps[k], SweepsOf(k), SweepNote, now, SweepWindow, FALSE)
    BY DEF TrackersInv
  <2>2. IsWindow(trackers.follows[k], FollowsOf(k), FollowNote, now, FollowWindow, TRUE)
    BY DEF TrackersInv
  <2>3. /\ InTime(SweepNote, now) /\ SweepsOf(k) \subseteq DOMAIN SweepNote
        /\ InTime(FollowNote, now) /\ FollowsOf(k) \subseteq DOMAIN FollowNote
    BY NotesInTime, SetsOfArrivals
  <2>4. QED
    BY <1>3, <2>1, <2>2, <2>3, WindowsAreNat, AgedWindow
<1>5. ASSUME NEW s \in Tickers
      PROVE  /\ IsWindow(trackers.prints[s], PrintsOf(s), PrintNote, now', SequenceWindow, TRUE)
             /\ IsWindow(trackers.ivs[s], IvsOf(s), IvNote, now', IvWindow, TRUE)
  <2>1. IsWindow(trackers.prints[s], PrintsOf(s), PrintNote, now, SequenceWindow, TRUE)
    BY DEF TrackersInv
  <2>2. IsWindow(trackers.ivs[s], IvsOf(s), IvNote, now, IvWindow, TRUE)
    BY DEF TrackersInv
  <2>3. /\ InTime(PrintNote, now) /\ PrintsOf(s) \subseteq DOMAIN PrintNote
        /\ InTime(IvNote, now) /\ IvsOf(s) \subseteq DOMAIN IvNote
    BY NotesInTime, SetsOfArrivals
  <2>4. QED
    BY <1>3, <2>1, <2>2, <2>3, WindowsAreNat, AgedWindow
<1>6. TrackersInv'
  BY <1>2, <1>4, <1>5 DEF TrackersInv
<1>7. SignalsFromArrivals'
  BY <1>2 DEF SignalsFromArrivals
<1>8. QED
  BY <1>1, <1>6, <1>7

LEMMA SignalsInit == Init => SignalsInv
<1> SUFFICES ASSUME Init
             PROVE  SignalsInv
  OBVIOUS
<1>1. ArrivalsInv
  BY ArrivalsInit
<1>2. arrivals = <<>> /\ trackers = NoTrackers /\ stage = "down" /\ now \in Nat
  BY DEF Init, Gate!Init
<1>3. Arrived = {}
  BY <1>2 DEF Arrived
<1>4. TimesInv
  BY <1>2, <1>3 DEF TimesInv, Unrecorded, Fetching
<1>5. \A k : SweepsOf(k) = {} /\ PrintsOf(k) = {} /\ IvsOf(k) = {} /\ FollowsOf(k) = {}
  BY <1>3 DEF SweepsOf, PrintsOf, IvsOf, FollowsOf
<1>6. TrackersInv
  BY <1>2, <1>5, EmptyWindow DEF TrackersInv, NoTrackers
<1>7. QED
  BY <1>1, <1>2, <1>4, <1>6 DEF SignalsInv, SignalsFromArrivals

\* A process starts with empty windows, and nothing arrived in it.
LEMMA StartSignals == SignalsInv /\ ArrivalsInv' /\ Start => SignalsInv'
<1> SUFFICES ASSUME SignalsInv, ArrivalsInv', Start
             PROVE  SignalsInv'
  OBVIOUS
<1>1. /\ arrivals' = <<>> /\ trackers' = NoTrackers /\ stage' = "idle"
      /\ now' = now /\ now \in Nat
  BY DEF Start, Gate!Start, SignalsInv, TimesInv
<1>2. Arrived' = {}
  BY <1>1 DEF Arrived
<1>3. TimesInv'
  BY <1>1, <1>2 DEF TimesInv, Unrecorded, Fetching
<1>4. \A k : SweepsOf(k)' = {} /\ PrintsOf(k)' = {} /\ IvsOf(k)' = {} /\ FollowsOf(k)' = {}
  BY <1>2 DEF SweepsOf, PrintsOf, IvsOf, FollowsOf
<1>5. TrackersInv'
  BY <1>1, <1>4, EmptyWindow DEF TrackersInv, NoTrackers
<1>6. QED
  BY <1>1, <1>3, <1>5 DEF SignalsInv, SignalsFromArrivals

\* The print that is scored is the newest arrival.
LEMMA ScoredArrival ==
  ASSUME SignalsInv, ArrivalsInv', Score
  PROVE  LET n == Len(arrivals) + 1
         IN  /\ n \in Nat \ {0} /\ Len(arrivals') = n
             /\ Arrived = 1..(n - 1) /\ Arrived' = 1..n
             /\ \A i \in 1..(n - 1) : arrivals'[i] = arrivals[i]
             /\ arrivals'[n] = [print |-> print, at |-> now,
                                signals |-> Signals(trackers, print, now)]
             /\ stage' = "store" /\ now' = now /\ now \in Nat
             /\ trackers' = Recorded(trackers, print, now)
             /\ print \in Feed /\ print.contract \in Contracts /\ print.ticker \in Tickers
             /\ TimesInv'
<1> DEFINE n == Len(arrivals) + 1
           new == [print |-> print, at |-> now, signals |-> Signals(trackers, print, now)]
<1>1. /\ stage' = "store" /\ now' = now /\ trackers' = Recorded(trackers, print, now)
      /\ arrivals' = Append(arrivals, new) /\ stage = "score"
  BY DEF Score
<1>2. now \in Nat /\ print \in Feed
  BY <1>1 DEF SignalsInv, TimesInv, Unrecorded
<1> HIDE DEF new
<1>3. /\ Len(arrivals') = n /\ Len(arrivals) \in Nat /\ n \in Nat \ {0}
      /\ \A i \in 1..Len(arrivals) : arrivals'[i] = arrivals[i]
      /\ arrivals'[n] = new
      /\ arrivals' \in Seq(Range(arrivals'))
  BY <1>1, AppendToRange, LenProperties DEF SignalsInv, ArrivalsInv
<1>4. /\ Arrived = 1..(n - 1) /\ Arrived' = 1..n /\ n - 1 = Len(arrivals)
  BY <1>3, LenProperties DEF Arrived, SignalsInv, ArrivalsInv
<1>5. new.print = print /\ new.at = now
  BY DEF new
<1> HIDE DEF n
<1>6. TimesInv'
  <2>1. \A i \in 1..(n - 1) : arrivals[i].print \in Feed /\ arrivals[i].at \in 0..now
    BY <1>4 DEF SignalsInv, TimesInv
  <2>2. ASSUME NEW i \in 1..n
        PROVE  arrivals'[i].print \in Feed /\ arrivals'[i].at \in 0..now
    <3>1. CASE i = n
      BY <1>2, <1>3, <1>5, <3>1
    <3>2. CASE i # n
      <4>1. i \in 1..(n - 1)
        BY <1>3, <3>2
      <4>2. QED
        BY <1>3, <1>4, <2>1, <4>1
    <3>3. QED
      BY <3>1, <3>2
  <2>3. ASSUME NEW i \in 1..n, NEW j \in 1..n, i < j
        PROVE  arrivals'[i].at <= arrivals'[j].at
    <3>1. i \in 1..(n - 1)
      BY <1>3, <2>3
    <3>2. CASE j = n
      BY <1>2, <1>3, <1>4, <1>5, <2>1, <3>1, <3>2
    <3>3. CASE j # n
      <4>1. j \in 1..(n - 1)
        BY <1>3, <3>3
      <4>2. QED
        BY <1>3, <1>4, <2>3, <3>1, <4>1 DEF SignalsInv, TimesInv
    <3>4. QED
      BY <3>2, <3>3
  <2>4. QED
    BY <1>1, <1>2, <1>4, <2>2, <2>3 DEF TimesInv, Unrecorded, Fetching
<1>7. print.contract \in Contracts /\ print.ticker \in Tickers
  BY <1>2, LiteAssumption
<1>8. QED
  BY <1>1, <1>2, <1>3, <1>4, <1>6, <1>7 DEF n, new

\* Its notes are added to those there were.
LEMMA ScoredNotes ==
  ASSUME SignalsInv, ArrivalsInv', Score
  PROVE  LET n == Len(arrivals) + 1
         IN  /\ InTime(SweepNote', now) /\ InTime(PrintNote', now)
             /\ InTime(IvNote', now) /\ InTime(FollowNote', now)
             /\ DOMAIN SweepNote' = 1..n /\ DOMAIN PrintNote' = 1..n
             /\ DOMAIN IvNote' = 1..n /\ DOMAIN FollowNote' = 1..n
             /\ \A i \in 1..(n - 1) :
                  /\ SweepNote'[i] = SweepNote[i] /\ PrintNote'[i] = PrintNote[i]
                  /\ IvNote'[i] = IvNote[i] /\ FollowNote'[i] = FollowNote[i]
             /\ SweepNote'[n] = [at |-> now]
             /\ PrintNote'[n] = [at |-> now, strike |-> print.strike,
                                 premium |-> print.premium, call |-> print.call]
             /\ IvNote'[n] = [at |-> now, iv |-> print.iv]
             /\ FollowNote'[n] = [at |-> now, premium |-> print.premium]
<1> DEFINE n == Len(arrivals) + 1
<1>1. /\ n \in Nat \ {0} /\ Arrived = 1..(n - 1) /\ Arrived' = 1..n
      /\ \A i \in 1..(n - 1) : arrivals'[i] = arrivals[i]
      /\ arrivals'[n].print = print /\ arrivals'[n].at = now
      /\ now' = now /\ TimesInv'
  BY ScoredArrival
<1> HIDE DEF n
<1>2. n \in 1..n /\ \A i \in 1..(n - 1) : i \in 1..n
  BY <1>1
<1>3. /\ \A i \in 1..n : i \in Nat /\ arrivals'[i].at \in 0..now
      /\ \A i, j \in 1..n : i < j => arrivals'[i].at <= arrivals'[j].at
  BY <1>1 DEF TimesInv
<1>4. \A i, j \in 1..n : i <= j => arrivals'[i].at <= arrivals'[j].at
  BY <1>3
<1>5. InTime(SweepNote', now)
  BY <1>1, <1>3, <1>4 DEF InTime, SweepNote
<1>6. InTime(PrintNote', now)
  BY <1>1, <1>3, <1>4 DEF InTime, PrintNote
<1>7. InTime(IvNote', now)
  BY <1>1, <1>3, <1>4 DEF InTime, IvNote
<1>8. InTime(FollowNote', now)
  BY <1>1, <1>3, <1>4 DEF InTime, FollowNote
<1>9. /\ DOMAIN SweepNote' = 1..n /\ SweepNote'[n] = [at |-> now]
      /\ \A i \in 1..(n - 1) : SweepNote'[i] = SweepNote[i]
  BY <1>1, <1>2 DEF SweepNote
<1>10. /\ DOMAIN PrintNote' = 1..n
       /\ PrintNote'[n] = [at |-> now, strike |-> print.strike,
                           premium |-> print.premium, call |-> print.call]
       /\ \A i \in 1..(n - 1) : PrintNote'[i] = PrintNote[i]
  BY <1>1, <1>2 DEF PrintNote
<1>11. /\ DOMAIN IvNote' = 1..n /\ IvNote'[n] = [at |-> now, iv |-> print.iv]
       /\ \A i \in 1..(n - 1) : IvNote'[i] = IvNote[i]
  BY <1>1, <1>2 DEF IvNote
<1>12. /\ DOMAIN FollowNote' = 1..n
       /\ FollowNote'[n] = [at |-> now, premium |-> print.premium]
       /\ \A i \in 1..(n - 1) : FollowNote'[i] = FollowNote[i]
  BY <1>1, <1>2 DEF FollowNote
<1>13. QED
  BY <1>5, <1>6, <1>7, <1>8, <1>9, <1>10, <1>11, <1>12 DEF n

\* It joins the arrivals of its contract and its ticker.
LEMMA ScoredSets ==
  ASSUME SignalsInv, ArrivalsInv', Score
  PROVE  LET n == Len(arrivals) + 1
         IN  /\ \A k : SweepsOf(k)' = IF print.sweep /\ print.contract = k
                                      THEN SweepsOf(k) \cup {n} ELSE SweepsOf(k)
             /\ \A k : FollowsOf(k)' = IF print.contract = k
                                       THEN FollowsOf(k) \cup {n} ELSE FollowsOf(k)
             /\ \A s : PrintsOf(s)' = IF print.ticker = s
                                      THEN PrintsOf(s) \cup {n} ELSE PrintsOf(s)
             /\ \A s : IvsOf(s)' = IF print.ticker = s /\ print.iv # Unknown
                                   THEN IvsOf(s) \cup {n} ELSE IvsOf(s)
             /\ \A k : /\ SweepsOf(k) \subseteq 1..(n - 1) /\ FollowsOf(k) \subseteq 1..(n - 1)
                       /\ PrintsOf(k) \subseteq 1..(n - 1) /\ IvsOf(k) \subseteq 1..(n - 1)
                       /\ IsFiniteSet(SweepsOf(k)) /\ IsFiniteSet(FollowsOf(k))
                       /\ IsFiniteSet(PrintsOf(k)) /\ IsFiniteSet(IvsOf(k))
<1> DEFINE n == Len(arrivals) + 1
<1>1. /\ n \in Nat \ {0} /\ Arrived = 1..(n - 1) /\ Arrived' = 1..n
      /\ \A i \in 1..(n - 1) : arrivals'[i] = arrivals[i]
      /\ arrivals'[n].print = print
  BY ScoredArrival
<1> HIDE DEF n
<1>2. 1..n = (1..(n - 1)) \cup {n} /\ n \notin 1..(n - 1)
  BY <1>1
<1>3. ASSUME NEW k
      PROVE  /\ SweepsOf(k)' = IF print.sweep /\ print.contract = k
                               THEN SweepsOf(k) \cup {n} ELSE SweepsOf(k)
             /\ FollowsOf(k)' = IF print.contract = k
                                THEN FollowsOf(k) \cup {n} ELSE FollowsOf(k)
             /\ PrintsOf(k)' = IF print.ticker = k THEN PrintsOf(k) \cup {n} ELSE PrintsOf(k)
  BY <1>1, <1>2 DEF SweepsOf, FollowsOf, PrintsOf
<1>4. ASSUME NEW k
      PROVE  IvsOf(k)' = IF print.ticker = k /\ print.iv # Unknown
                         THEN IvsOf(k) \cup {n} ELSE IvsOf(k)
  BY <1>1, <1>2, <1>3 DEF IvsOf, PrintsOf
<1>5. ASSUME NEW k
      PROVE  /\ SweepsOf(k) \subseteq 1..(n - 1) /\ FollowsOf(k) \subseteq 1..(n - 1)
             /\ PrintsOf(k) \subseteq 1..(n - 1) /\ IvsOf(k) \subseteq 1..(n - 1)
             /\ IsFiniteSet(SweepsOf(k)) /\ IsFiniteSet(FollowsOf(k))
             /\ IsFiniteSet(PrintsOf(k)) /\ IsFiniteSet(IvsOf(k))
  <2>1. IsFiniteSet(1..(n - 1))
    BY <1>1, FS_Interval
  <2>2. /\ SweepsOf(k) \subseteq 1..(n - 1) /\ FollowsOf(k) \subseteq 1..(n - 1)
        /\ PrintsOf(k) \subseteq 1..(n - 1) /\ IvsOf(k) \subseteq 1..(n - 1)
    BY <1>1, SetsOfArrivals
  <2>3. QED
    BY <2>1, <2>2, FS_Subset
<1>6. QED
  BY <1>3, <1>4, <1>5 DEF n

\* The windows before it, with the notes there are after it.
LEMMA CarriedWindows ==
  ASSUME SignalsInv, ArrivalsInv', Score
  PROVE  /\ \A k \in Contracts :
              /\ IsWindow(trackers.sweeps[k], SweepsOf(k), SweepNote', now, SweepWindow, FALSE)
              /\ IsWindow(trackers.follows[k], FollowsOf(k), FollowNote', now, FollowWindow, TRUE)
         /\ \A s \in Tickers :
              /\ IsWindow(trackers.prints[s], PrintsOf(s), PrintNote', now, SequenceWindow, TRUE)
              /\ IsWindow(trackers.ivs[s], IvsOf(s), IvNote', now, IvWindow, TRUE)
<1> DEFINE n == Len(arrivals) + 1
<1>1. /\ DOMAIN SweepNote' = 1..n /\ DOMAIN PrintNote' = 1..n
      /\ DOMAIN IvNote' = 1..n /\ DOMAIN FollowNote' = 1..n
      /\ \A i \in 1..(n - 1) :
           /\ SweepNote'[i] = SweepNote[i] /\ PrintNote'[i] = PrintNote[i]
           /\ IvNote'[i] = IvNote[i] /\ FollowNote'[i] = FollowNote[i]
  BY ScoredNotes
<1>2. /\ DOMAIN SweepNote = 1..(n - 1) /\ DOMAIN PrintNote = 1..(n - 1)
      /\ DOMAIN IvNote = 1..(n - 1) /\ DOMAIN FollowNote = 1..(n - 1)
      /\ InTime(SweepNote, now) /\ InTime(PrintNote, now)
      /\ InTime(IvNote, now) /\ InTime(FollowNote, now)
      /\ now \in Nat /\ n \in Nat
  BY NotesInTime DEF SignalsInv, TimesInv
<1>3. \A k : /\ SweepsOf(k) \subseteq 1..(n - 1) /\ FollowsOf(k) \subseteq 1..(n - 1)
             /\ PrintsOf(k) \subseteq 1..(n - 1) /\ IvsOf(k) \subseteq 1..(n - 1)
  BY ScoredSets
<1> HIDE DEF n
<1>4. now <= now /\ 1..(n - 1) \subseteq 1..n
  BY <1>2
<1>5. ASSUME NEW k \in Contracts
      PROVE  IsWindow(trackers.sweeps[k], SweepsOf(k), SweepNote', now, SweepWindow, FALSE)
  <2>1. IsWindow(trackers.sweeps[k], SweepsOf(k), SweepNote, now, SweepWindow, FALSE)
    BY DEF SignalsInv, TrackersInv
  <2>2. /\ SweepsOf(k) \subseteq DOMAIN SweepNote /\ DOMAIN SweepNote \subseteq DOMAIN SweepNote'
        /\ \A i \in DOMAIN SweepNote : SweepNote'[i] = SweepNote[i]
    BY <1>1, <1>2, <1>3, <1>4
  <2>3. QED
    BY <1>2, <1>4, <2>1, <2>2, WindowsAreNat, NotedWindow
<1>6. ASSUME NEW k \in Contracts
      PROVE  IsWindow(trackers.follows[k], FollowsOf(k), FollowNote', now, FollowWindow, TRUE)
  <2>1. IsWindow(trackers.follows[k], FollowsOf(k), FollowNote, now, FollowWindow, TRUE)
    BY DEF SignalsInv, TrackersInv
  <2>2. /\ FollowsOf(k) \subseteq DOMAIN FollowNote /\ DOMAIN FollowNote \subseteq DOMAIN FollowNote'
        /\ \A i \in DOMAIN FollowNote : FollowNote'[i] = FollowNote[i]
    BY <1>1, <1>2, <1>3, <1>4
  <2>3. QED
    BY <1>2, <1>4, <2>1, <2>2, WindowsAreNat, NotedWindow
<1>7. ASSUME NEW s \in Tickers
      PROVE  IsWindow(trackers.prints[s], PrintsOf(s), PrintNote', now, SequenceWindow, TRUE)
  <2>1. IsWindow(trackers.prints[s], PrintsOf(s), PrintNote, now, SequenceWindow, TRUE)
    BY DEF SignalsInv, TrackersInv
  <2>2. /\ PrintsOf(s) \subseteq DOMAIN PrintNote /\ DOMAIN PrintNote \subseteq DOMAIN PrintNote'
        /\ \A i \in DOMAIN PrintNote : PrintNote'[i] = PrintNote[i]
    BY <1>1, <1>2, <1>3, <1>4
  <2>3. QED
    BY <1>2, <1>4, <2>1, <2>2, WindowsAreNat, NotedWindow
<1>8. ASSUME NEW s \in Tickers
      PROVE  IsWindow(trackers.ivs[s], IvsOf(s), IvNote', now, IvWindow, TRUE)
  <2>1. IsWindow(trackers.ivs[s], IvsOf(s), IvNote, now, IvWindow, TRUE)
    BY DEF SignalsInv, TrackersInv
  <2>2. /\ IvsOf(s) \subseteq DOMAIN IvNote /\ DOMAIN IvNote \subseteq DOMAIN IvNote'
        /\ \A i \in DOMAIN IvNote : IvNote'[i] = IvNote[i]
    BY <1>1, <1>2, <1>3, <1>4
  <2>3. QED
    BY <1>2, <1>4, <2>1, <2>2, WindowsAreNat, NotedWindow
<1>9. QED
  BY <1>5, <1>6, <1>7, <1>8

\* RepeatedSweepTracker.record(): the print is appended, and what is too old leaves.
LEMMA ScoreSweeps ==
  ASSUME SignalsInv, ArrivalsInv', Score, NEW c, c = print.contract
  PROVE  /\ \A k \in Contracts :
              IsWindow(trackers'.sweeps[k], SweepsOf(k)', SweepNote', now, SweepWindow, FALSE)
         /\ print.sweep =>
              Len(SweepsAfter(trackers, print, now)) =
                Cardinality(Counted(SweepsOf(c)', SweepNote', now, SweepWindow, FALSE))
<1> DEFINE n == Len(arrivals) + 1
           S == SweepsOf(c)
<1>1. /\ n \in Nat \ {0} /\ now \in Nat /\ c \in Contracts
      /\ trackers' = Recorded(trackers, print, now)
  BY ScoredArrival
<1>2. /\ InTime(SweepNote', now) /\ DOMAIN SweepNote' = 1..n
      /\ SweepNote'[n] = [at |-> now]
  BY ScoredNotes
<1>3. \A k : /\ SweepsOf(k)' = IF print.sweep /\ c = k THEN SweepsOf(k) \cup {n} ELSE SweepsOf(k)
             /\ SweepsOf(k) \subseteq 1..(n - 1) /\ IsFiniteSet(SweepsOf(k))
  BY ScoredSets
<1>4. \A k \in Contracts :
        IsWindow(trackers.sweeps[k], SweepsOf(k), SweepNote', now, SweepWindow, FALSE)
  BY CarriedWindows
<1>5. \A k \in Contracts :
        trackers'.sweeps[k] = IF k = c THEN SweepsAfter(trackers, print, now)
                              ELSE trackers.sweeps[k]
  BY <1>1 DEF Recorded, SignalsInv, TrackersInv
<1> HIDE DEF n
<1>6. ASSUME print.sweep
      PROVE  /\ IsWindow(SweepsAfter(trackers, print, now), SweepsOf(c)', SweepNote', now,
                         SweepWindow, FALSE)
             /\ Len(SweepsAfter(trackers, print, now)) =
                  Cardinality(Counted(SweepsOf(c)', SweepNote', now, SweepWindow, FALSE))
  <2> DEFINE dq == Append(trackers.sweeps[c], SweepNote'[n])
  <2>1. /\ S \subseteq DOMAIN SweepNote' /\ n \in DOMAIN SweepNote' /\ \A i \in S : i < n
        /\ DOMAIN SweepNote' \subseteq Nat
    BY <1>1, <1>2, <1>3
  <2>2. IsWindow(dq, S \cup {n}, SweepNote', now, SweepWindow, FALSE)
    BY <1>1, <1>4, <2>1, AppendWindow
  <2>3. SweepsAfter(trackers, print, now) = Evict(dq, now, SweepWindow)
    BY <1>2, <1>6 DEF SweepsAfter
  <2>4. /\ SweepsOf(c)' = S \cup {n} /\ S \cup {n} \subseteq DOMAIN SweepNote'
        /\ IsFiniteSet(S \cup {n})
    BY <1>3, <1>6, <2>1, FS_AddElement
  <2> HIDE DEF dq, S
  <2>5. IsRecount(Evict(dq, now, SweepWindow), S \cup {n}, SweepNote', now, SweepWindow, FALSE)
    BY <1>1, <1>2, <2>2, <2>4, WindowsAreNat, EvictWindow
  <2>6. QED
    BY <2>3, <2>4, <2>5 DEF IsRecount
<1>7. ASSUME ~print.sweep
      PROVE  SweepsAfter(trackers, print, now) = trackers.sweeps[c] /\ SweepsOf(c)' = SweepsOf(c)
  BY <1>3, <1>7 DEF SweepsAfter
<1>8. ASSUME NEW k \in Contracts
      PROVE  IsWindow(trackers'.sweeps[k], SweepsOf(k)', SweepNote', now, SweepWindow, FALSE)
  <2>1. CASE k # c
    BY <1>3, <1>4, <1>5, <2>1
  <2>2. CASE k = c
    BY <1>4, <1>5, <1>6, <1>7, <2>2
  <2>3. QED
    BY <2>1, <2>2
<1>9. QED
  BY <1>6, <1>8

\* SequenceTracker.record(): likewise, with a maxlen.
LEMMA ScorePrints ==
  ASSUME SignalsInv, ArrivalsInv', Score, NEW c, c = print.ticker
  PROVE  LET dq     == PrintsAfter(trackers, print, now)
             listed == Counted(PrintsOf(c)', PrintNote', now, SequenceWindow, TRUE)
         IN  /\ \A s \in Tickers :
                  IsWindow(trackers'.prints[s], PrintsOf(s)', PrintNote', now, SequenceWindow, TRUE)
             /\ Len(dq) = Cardinality(listed)
             /\ Listed(listed, PrintNote') = dq
<1> DEFINE n == Len(arrivals) + 1
           S == PrintsOf(c)
           dq == Push(trackers.prints[c], PrintNote'[n])
<1>1. /\ n \in Nat \ {0} /\ now \in Nat /\ c \in Tickers
      /\ trackers' = Recorded(trackers, print, now)
  BY ScoredArrival
<1>2. /\ InTime(PrintNote', now) /\ DOMAIN PrintNote' = 1..n
      /\ PrintNote'[n] = [at |-> now, strike |-> print.strike,
                          premium |-> print.premium, call |-> print.call]
  BY ScoredNotes
<1>3. \A s : /\ PrintsOf(s)' = IF c = s THEN PrintsOf(s) \cup {n} ELSE PrintsOf(s)
             /\ PrintsOf(s) \subseteq 1..(n - 1) /\ IsFiniteSet(PrintsOf(s))
  BY ScoredSets
<1>4. \A s \in Tickers :
        IsWindow(trackers.prints[s], PrintsOf(s), PrintNote', now, SequenceWindow, TRUE)
  BY CarriedWindows
<1>5. \A s \in Tickers :
        trackers'.prints[s] = IF s = c THEN PrintsAfter(trackers, print, now)
                              ELSE trackers.prints[s]
  BY <1>1 DEF Recorded, SignalsInv, TrackersInv
<1>6. PrintsAfter(trackers, print, now) = Evict(dq, now, SequenceWindow)
  BY <1>2 DEF PrintsAfter
<1> HIDE DEF n
<1>7. /\ S \subseteq DOMAIN PrintNote' /\ n \in DOMAIN PrintNote' /\ \A i \in S : i < n
      /\ DOMAIN PrintNote' \subseteq Nat
  BY <1>1, <1>2, <1>3
<1>8. IsWindow(dq, S \cup {n}, PrintNote', now, SequenceWindow, TRUE)
  BY <1>1, <1>4, <1>7, PushWindow
<1>9. /\ PrintsOf(c)' = S \cup {n} /\ S \cup {n} \subseteq DOMAIN PrintNote'
      /\ IsFiniteSet(S \cup {n})
  BY <1>3, <1>7, FS_AddElement
<1> HIDE DEF dq, S
<1>10. LET listed == Counted(PrintsOf(c)', PrintNote', now, SequenceWindow, TRUE)
           new    == PrintsAfter(trackers, print, now)
       IN  /\ IsWindow(new, PrintsOf(c)', PrintNote', now, SequenceWindow, TRUE)
           /\ Len(new) = Cardinality(listed)
           /\ Listed(listed, PrintNote') = new
  <2>1. IsRecount(Evict(dq, now, SequenceWindow), S \cup {n}, PrintNote', now, SequenceWindow, TRUE)
    BY <1>1, <1>2, <1>8, <1>9, WindowsAreNat, EvictWindow
  <2>2. QED
    BY <1>6, <1>9, <2>1 DEF IsRecount
<1>11. \A s \in Tickers :
         IsWindow(trackers'.prints[s], PrintsOf(s)', PrintNote', now, SequenceWindow, TRUE)
  BY <1>3, <1>4, <1>5, <1>10
<1>12. QED
  BY <1>10, <1>11

\* IVRankTracker.record(): what is too old leaves, the answer is about the rest, and only
\* then is the print appended, if it has an IV.
LEMMA ScoreIvs ==
  ASSUME SignalsInv, ArrivalsInv', Score, NEW c, c = print.ticker
  PROVE  LET dq     == IvsBefore(trackers, print, now)
             listed == Counted(IvsOf(c), IvNote', now, IvWindow, TRUE)
         IN  /\ \A s \in Tickers :
                  IsWindow(trackers'.ivs[s], IvsOf(s)', IvNote', now, IvWindow, TRUE)
             /\ Len(dq) = Cardinality(listed)
             /\ {dq[i].iv : i \in DOMAIN dq} = Ranked(listed, IvNote')
<1> DEFINE n == Len(arrivals) + 1
           S == IvsOf(c)
           dq == IvsBefore(trackers, print, now)
           listed == Counted(IvsOf(c), IvNote', now, IvWindow, TRUE)
<1>1. /\ n \in Nat \ {0} /\ now \in Nat /\ c \in Tickers
      /\ trackers' = Recorded(trackers, print, now)
  BY ScoredArrival
<1>2. /\ InTime(IvNote', now) /\ DOMAIN IvNote' = 1..n
      /\ IvNote'[n] = [at |-> now, iv |-> print.iv]
  BY ScoredNotes
<1>3. \A s : /\ IvsOf(s)' = IF c = s /\ print.iv # Unknown THEN IvsOf(s) \cup {n} ELSE IvsOf(s)
             /\ IvsOf(s) \subseteq 1..(n - 1) /\ IsFiniteSet(IvsOf(s))
  BY ScoredSets
<1>4. \A s \in Tickers :
        IsWindow(trackers.ivs[s], IvsOf(s), IvNote', now, IvWindow, TRUE)
  BY CarriedWindows
<1>5. \A s \in Tickers :
        trackers'.ivs[s] = IF s = c THEN IvsAfter(trackers, print, now) ELSE trackers.ivs[s]
  BY <1>1 DEF Recorded, SignalsInv, TrackersInv
<1>6. dq = Evict(trackers.ivs[c], now, IvWindow)
  BY DEF IvsBefore
<1>7. IvsAfter(trackers, print, now) =
        IF print.iv = Unknown THEN trackers.ivs[c] ELSE Push(dq, IvNote'[n])
  BY <1>2 DEF IvsAfter
<1> HIDE DEF n, dq
<1>8. /\ S \subseteq DOMAIN IvNote' /\ n \in DOMAIN IvNote' /\ \A i \in S : i < n
      /\ DOMAIN IvNote' \subseteq Nat /\ IsFiniteSet(S)
  BY <1>1, <1>2, <1>3
<1>9. IsWindow(trackers.ivs[c], S, IvNote', now, IvWindow, TRUE)
  BY <1>1, <1>4
<1> HIDE DEF S
<1>10. /\ IsWindow(dq, S, IvNote', now, IvWindow, TRUE)
       /\ Len(dq) = Cardinality(Counted(S, IvNote', now, IvWindow, TRUE))
       /\ \E r \in [1..Len(dq) -> Counted(S, IvNote', now, IvWindow, TRUE)] :
            /\ Range(r) = Counted(S, IvNote', now, IvWindow, TRUE)
            /\ \A k \in 1..Len(dq) : dq[k] = IvNote'[r[k]]
  <2>1. IsRecount(dq, S, IvNote', now, IvWindow, TRUE)
    BY <1>1, <1>2, <1>6, <1>8, <1>9, WindowsAreNat, EvictWindow
  <2>2. QED
    BY <2>1 DEF IsRecount
<1>11. IsWindow(Push(dq, IvNote'[n]), S \cup {n}, IvNote', now, IvWindow, TRUE)
  BY <1>8, <1>10, PushWindow
<1>12. \A s \in Tickers : IsWindow(trackers'.ivs[s], IvsOf(s)', IvNote', now, IvWindow, TRUE)
  BY <1>3, <1>4, <1>5, <1>7, <1>9, <1>11 DEF S
<1>13. {dq[i].iv : i \in DOMAIN dq} = Ranked(listed, IvNote')
  <2>1. PICK r \in [1..Len(dq) -> listed] :
          Range(r) = listed /\ \A k \in 1..Len(dq) : dq[k] = IvNote'[r[k]]
    BY <1>10 DEF S
  <2>2. DOMAIN dq = 1..Len(dq)
    BY <1>10, LenProperties DEF IsWindow
  <2> HIDE DEF listed
  <2>3. ASSUME NEW i \in 1..Len(dq)
        PROVE  dq[i].iv \in Ranked(listed, IvNote')
    BY <2>1 DEF Ranked
  <2>4. ASSUME NEW j \in listed
        PROVE  \E i \in 1..Len(dq) : IvNote'[j].iv = dq[i].iv
    <3>1. PICK i \in 1..Len(dq) : r[i] = j
      BY <2>1 DEF Range
    <3>2. QED
      BY <2>1, <3>1
  <2>5. QED
    BY <2>2, <2>3, <2>4 DEF Ranked
<1>14. QED
  BY <1>10, <1>12, <1>13 DEF S, dq

\* FollowThroughTracker.record(): likewise, for every print.
LEMMA ScoreFollows ==
  ASSUME SignalsInv, ArrivalsInv', Score, NEW c, c = print.contract
  PROVE  LET dq     == FollowsBefore(trackers, print, now)
             listed == Counted(FollowsOf(c), FollowNote', now, FollowWindow, TRUE)
         IN  /\ \A k \in Contracts :
                  IsWindow(trackers'.follows[k], FollowsOf(k)', FollowNote', now, FollowWindow, TRUE)
             /\ Listed(listed, FollowNote') = dq
<1> DEFINE n == Len(arrivals) + 1
           S == FollowsOf(c)
           dq == FollowsBefore(trackers, print, now)
<1>1. /\ n \in Nat \ {0} /\ now \in Nat /\ c \in Contracts
      /\ trackers' = Recorded(trackers, print, now)
  BY ScoredArrival
<1>2. /\ InTime(FollowNote', now) /\ DOMAIN FollowNote' = 1..n
      /\ FollowNote'[n] = [at |-> now, premium |-> print.premium]
  BY ScoredNotes
<1>3. \A k : /\ FollowsOf(k)' = IF c = k THEN FollowsOf(k) \cup {n} ELSE FollowsOf(k)
             /\ FollowsOf(k) \subseteq 1..(n - 1) /\ IsFiniteSet(FollowsOf(k))
  BY ScoredSets
<1>4. \A k \in Contracts :
        IsWindow(trackers.follows[k], FollowsOf(k), FollowNote', now, FollowWindow, TRUE)
  BY CarriedWindows
<1>5. \A k \in Contracts :
        trackers'.follows[k] = IF k = c THEN Push(dq, FollowNote'[n]) ELSE trackers.follows[k]
  BY <1>1, <1>2 DEF Recorded, SignalsInv, TrackersInv
<1>6. dq = Evict(trackers.follows[c], now, FollowWindow)
  BY DEF FollowsBefore
<1> HIDE DEF n, dq
<1>7. /\ S \subseteq DOMAIN FollowNote' /\ n \in DOMAIN FollowNote' /\ \A i \in S : i < n
      /\ DOMAIN FollowNote' \subseteq Nat /\ IsFiniteSet(S)
  BY <1>1, <1>2, <1>3
<1>8. IsWindow(trackers.follows[c], S, FollowNote', now, FollowWindow, TRUE)
  BY <1>1, <1>4
<1> HIDE DEF S
<1>9. /\ IsWindow(dq, S, FollowNote', now, FollowWindow, TRUE)
      /\ Listed(Counted(S, FollowNote', now, FollowWindow, TRUE), FollowNote') = dq
  <2>1. IsRecount(dq, S, FollowNote', now, FollowWindow, TRUE)
    BY <1>1, <1>2, <1>6, <1>7, <1>8, WindowsAreNat, EvictWindow
  <2>2. QED
    BY <2>1 DEF IsRecount
<1>10. IsWindow(Push(dq, FollowNote'[n]), S \cup {n}, FollowNote', now, FollowWindow, TRUE)
  BY <1>7, <1>9, PushWindow
<1>11. \A k \in Contracts :
         IsWindow(trackers'.follows[k], FollowsOf(k)', FollowNote', now, FollowWindow, TRUE)
  BY <1>3, <1>4, <1>5, <1>10 DEF S
<1>12. QED
  BY <1>9, <1>11 DEF S, dq

\* A print is scored with what the arrivals say, counted from scratch.
LEMMA ScoreSignals == SignalsInv /\ ArrivalsInv' /\ Score => SignalsInv'
<1> SUFFICES ASSUME SignalsInv, ArrivalsInv', Score
             PROVE  SignalsInv'
  OBVIOUS
<1>0. PICK n, c, t : n = Len(arrivals) + 1 /\ c = print.contract /\ t = print.ticker
  OBVIOUS
<1>1. /\ n \in Nat \ {0} /\ Len(arrivals') = n
      /\ Arrived = 1..(n - 1) /\ Arrived' = 1..n
      /\ arrivals'[n] = [print |-> print, at |-> now, signals |-> Signals(trackers, print, now)]
      /\ now' = now /\ now \in Nat
      /\ trackers' = Recorded(trackers, print, now)
      /\ c \in Contracts /\ t \in Tickers
      /\ TimesInv'
  BY <1>0, ScoredArrival
<1>2. /\ \A k \in Contracts :
           IsWindow(trackers'.sweeps[k], SweepsOf(k)', SweepNote', now, SweepWindow, FALSE)
      /\ print.sweep =>
           Len(SweepsAfter(trackers, print, now)) =
             Cardinality(Counted(SweepsOf(c)', SweepNote', now, SweepWindow, FALSE))
  BY <1>0, ScoreSweeps
<1>3. /\ \A s \in Tickers :
           IsWindow(trackers'.prints[s], PrintsOf(s)', PrintNote', now, SequenceWindow, TRUE)
      /\ Len(PrintsAfter(trackers, print, now)) =
           Cardinality(Counted(PrintsOf(t)', PrintNote', now, SequenceWindow, TRUE))
      /\ Listed(Counted(PrintsOf(t)', PrintNote', now, SequenceWindow, TRUE), PrintNote') =
           PrintsAfter(trackers, print, now)
  BY <1>0, ScorePrints
<1>4. PICK before : before = IvsBefore(trackers, print, now)
  OBVIOUS
<1>5. /\ \A s \in Tickers :
           IsWindow(trackers'.ivs[s], IvsOf(s)', IvNote', now, IvWindow, TRUE)
      /\ Len(before) = Cardinality(Counted(IvsOf(t), IvNote', now, IvWindow, TRUE))
      /\ {before[i].iv : i \in DOMAIN before} =
           Ranked(Counted(IvsOf(t), IvNote', now, IvWindow, TRUE), IvNote')
  BY <1>0, <1>4, ScoreIvs
<1>6. /\ \A k \in Contracts :
           IsWindow(trackers'.follows[k], FollowsOf(k)', FollowNote', now, FollowWindow, TRUE)
      /\ Listed(Counted(FollowsOf(c), FollowNote', now, FollowWindow, TRUE), FollowNote') =
           FollowsBefore(trackers, print, now)
  BY <1>0, ScoreFollows
<1>7. TrackersInv'
  <2>1. /\ trackers' = [sweeps |-> trackers'.sweeps, prints |-> trackers'.prints,
                        ivs |-> trackers'.ivs, follows |-> trackers'.follows]
        /\ DOMAIN trackers'.sweeps = Contracts /\ DOMAIN trackers'.prints = Tickers
        /\ DOMAIN trackers'.ivs = Tickers /\ DOMAIN trackers'.follows = Contracts
    BY <1>1 DEF Recorded, SignalsInv, TrackersInv
  <2>2. QED
    BY <1>1, <1>2, <1>3, <1>5, <1>6, <2>1 DEF TrackersInv
<1>8. \A i \in 1..n :
        /\ SweepNote'[i].at = arrivals'[i].at /\ PrintNote'[i].at = arrivals'[i].at
        /\ IvNote'[i].at = arrivals'[i].at /\ FollowNote'[i].at = arrivals'[i].at
  BY <1>1 DEF SweepNote, PrintNote, IvNote, FollowNote
<1>9. \A w : Within(n, w)' = {i \in 1..n : now - arrivals'[i].at <= w}
  BY <1>1 DEF Within
<1>10. /\ SweepsOf(c)' \subseteq 1..n /\ PrintsOf(t)' \subseteq 1..n
       /\ IvsOf(t) \subseteq 1..n /\ IvsOf(t)' \ {n} = IvsOf(t)
       /\ FollowsOf(c) \subseteq 1..n /\ FollowsOf(c)' \ {n} = FollowsOf(c)
  <2>1. \A i \in 1..(n - 1) : i \in 1..n /\ i # n
    BY <1>1
  <2>2. n \in 1..n
    BY <1>1
  <2>3. \A k : /\ SweepsOf(k) \subseteq 1..(n - 1) /\ FollowsOf(k) \subseteq 1..(n - 1)
               /\ PrintsOf(k) \subseteq 1..(n - 1) /\ IvsOf(k) \subseteq 1..(n - 1)
    BY <1>0, ScoredSets
  <2>4. /\ SweepsOf(c)' \subseteq SweepsOf(c) \cup {n} /\ PrintsOf(t)' = PrintsOf(t) \cup {n}
        /\ IvsOf(t)' = IvsOf(t) \cup {n} \/ IvsOf(t)' = IvsOf(t)
        /\ FollowsOf(c)' = FollowsOf(c) \cup {n}
    BY <1>0, ScoredSets
  <2>5. QED
    BY <2>1, <2>2, <2>3, <2>4
<1>11. /\ SweepsOf(c)' \cap Within(n, SweepWindow)'
            = Counted(SweepsOf(c)', SweepNote', now, SweepWindow, FALSE)
       /\ Newest(PrintsOf(t)' \cap Within(n, SequenceWindow)')
            = Counted(PrintsOf(t)', PrintNote', now, SequenceWindow, TRUE)
       /\ Newest((IvsOf(t)' \ {n}) \cap Within(n, IvWindow)')
            = Counted(IvsOf(t), IvNote', now, IvWindow, TRUE)
       /\ Newest((FollowsOf(c)' \ {n}) \cap Within(n, FollowWindow)')
            = Counted(FollowsOf(c), FollowNote', now, FollowWindow, TRUE)
  <2>1. SweepsOf(c)' \cap Within(n, SweepWindow)'
          = {i \in SweepsOf(c)' : now - SweepNote'[i].at <= SweepWindow}
    BY <1>8, <1>9, <1>10
  <2>2. PrintsOf(t)' \cap Within(n, SequenceWindow)'
          = {i \in PrintsOf(t)' : now - PrintNote'[i].at <= SequenceWindow}
    BY <1>8, <1>9, <1>10
  <2>3. (IvsOf(t)' \ {n}) \cap Within(n, IvWindow)'
          = {i \in IvsOf(t) : now - IvNote'[i].at <= IvWindow}
    BY <1>8, <1>9, <1>10
  <2>4. (FollowsOf(c)' \ {n}) \cap Within(n, FollowWindow)'
          = {i \in FollowsOf(c) : now - FollowNote'[i].at <= FollowWindow}
    BY <1>8, <1>9, <1>10
  <2>5. QED
    BY <2>1, <2>2, <2>3, <2>4 DEF Counted
<1>12. SignalsFromArrivals'
  <2>1. PICK s : s = Signals(trackers, print, now)
    OBVIOUS
  <2>2. /\ s.repeated = IF print.sweep THEN Len(SweepsAfter(trackers, print, now)) ELSE 0
        /\ s.count    = Len(PrintsAfter(trackers, print, now))
        /\ s.cadence  = CadenceAccel(PrintsAfter(trackers, print, now))
        /\ s.ladder   = StrikeLadder(PrintsAfter(trackers, print, now))
        /\ s.velocity = Premiums(PrintsAfter(trackers, print, now)) \div SequenceWindow
        /\ s.ivRank   = IvRank(before, print.iv)
        /\ s.follow   = FollowThrough(FollowsBefore(trackers, print, now))
    BY <1>4, <2>1 DEF Signals
  <2>3. s.repeated = IF print.sweep
                     THEN Cardinality(SweepsOf(c)' \cap Within(n, SweepWindow)') ELSE 0
    BY <1>2, <1>11, <2>2
  <2> DEFINE Prints == Newest(PrintsOf(t)' \cap Within(n, SequenceWindow)')
  <2>4. /\ s.count = Cardinality(Prints)
        /\ s.cadence = CadenceAccel(Listed(Prints, PrintNote'))
        /\ s.ladder = StrikeLadder(Listed(Prints, PrintNote'))
        /\ s.velocity = Premiums(Listed(Prints, PrintNote')) \div SequenceWindow
    BY <1>3, <1>11, <2>2
  <2> DEFINE Ivs == Newest((IvsOf(t)' \ {n}) \cap Within(n, IvWindow)')
             ivs == Ranked(Ivs, IvNote')
  <2>5. s.ivRank = IF print.iv = Unknown \/ Cardinality(Ivs) < MinHistory THEN Unknown
                   ELSE IF Min(ivs) = Max(ivs) THEN 500 ELSE Ramp(print.iv, Min(ivs), Max(ivs))
    <3>1. Len(before) = Cardinality(Ivs) /\ {before[i].iv : i \in DOMAIN before} = ivs
      BY <1>5, <1>11
    <3> HIDE DEF Ivs, ivs
    <3>2. QED
      BY <2>2, <3>1 DEF IvRank
  <2> DEFINE Additions == Newest((FollowsOf(c)' \ {n}) \cap Within(n, FollowWindow)')
  <2>6. s.follow = FollowThrough(Listed(Additions, FollowNote'))
    BY <1>6, <1>11, <2>2
  <2>7. /\ arrivals'[Len(arrivals')].print = print /\ arrivals'[Len(arrivals')].signals = s
        /\ Len(arrivals') = n
    BY <1>1, <2>1
  <2> HIDE DEF Prints, Ivs, ivs, Additions
  <2>8. QED
    BY <1>0, <2>3, <2>4, <2>5, <2>6, <2>7
       DEF SignalsFromArrivals, Prints, Ivs, ivs, Additions
<1>13. QED
  BY <1>1, <1>7, <1>12 DEF SignalsInv

LEMMA NextSignals == SignalsInv /\ [Next]_vars => SignalsInv'
<1> SUFFICES ASSUME SignalsInv, [Next]_vars
             PROVE  SignalsInv'
  OBVIOUS
<1>0. ArrivalsInv'
  BY NextArrivals DEF SignalsInv
<1>a. now \in Nat /\ now <= now /\ (stage \in Unrecorded => print \in Feed)
  BY DEF SignalsInv, TimesInv
<1> USE DEF gateVars, Unrecorded, Fetching
<1>1. CASE Start
  BY <1>0, <1>1, StartSignals
<1>2. CASE Score
  BY <1>0, <1>2, ScoreSignals
<1>3. CASE \E p \in Feed : Take(p)
  BY <1>0, <1>a, <1>3, QuietSignals DEF Take
<1>4. CASE Tick
  <2>1. now' = now + 1 /\ UNCHANGED <<trackers, arrivals, stage, print>>
    BY <1>4 DEF Tick, Gate!Tick, workVars
  <2>2. now' \in Nat /\ now <= now'
    BY <1>a, <2>1
  <2>3. QED
    BY <1>0, <1>a, <2>1, <2>2, QuietSignals
<1>5. CASE Crash
  BY <1>0, <1>a, <1>5, QuietSignals DEF Crash, Gate!Stop
<1>6. CASE LookUpContext \/ LookUpEarnings \/ LookUpRegime
  BY <1>0, <1>a, <1>6, QuietSignals DEF LookUpContext, LookUpEarnings, LookUpRegime, LookUp
<1>7. CASE FetchEnds
  BY <1>0, <1>a, <1>7, QuietSignals DEF FetchEnds
<1>8. CASE Priors
  BY <1>0, <1>a, <1>8, QuietSignals DEF Priors, Abandon
<1>9. CASE Persist
  BY <1>0, <1>a, <1>9, QuietSignals DEF Persist, Abandon
<1>10. CASE Announce
  BY <1>0, <1>a, <1>10, QuietSignals DEF Announce, Gate!Ask
<1>11. CASE Dispatch
  BY <1>0, <1>a, <1>11, QuietSignals DEF Dispatch, Gate!Send, Gate!Record, workVars
<1>12. CASE RecordFails
  BY <1>0, <1>a, <1>12, QuietSignals DEF RecordFails, Abandon
<1>13. CASE \E c \in Clients : Subscribe(c) \/ HangUp(c) \/ Serve(c) \/ Unsubscribe(c)
  BY <1>0, <1>a, <1>13, QuietSignals DEF Subscribe, HangUp, Serve, Unsubscribe, workVars
<1>14. CASE UNCHANGED vars
  BY <1>0, <1>a, <1>14, QuietSignals DEF vars, workVars
<1>15. QED
  BY <1>1, <1>2, <1>3, <1>4, <1>5, <1>6, <1>7, <1>8, <1>9, <1>10, <1>11, <1>12, <1>13,
     <1>14 DEF Next

\* What the windows answer about a print is what the arrivals before it say, for every
\* feed, every length of the windows and every maxlen, however prints and time were
\* interleaved and whatever was abandoned in between.
THEOREM SignalsAreFromScratch == Spec => []SignalsFromArrivals
<1>1. Init => SignalsInv
  BY SignalsInit
<1>2. SignalsInv /\ [Next]_vars => SignalsInv'
  BY NextSignals
<1>3. SignalsInv => SignalsFromArrivals
  BY DEF SignalsInv
<1>4. QED
  BY <1>1, <1>2, <1>3, PTL DEF Spec
=============================================================================
