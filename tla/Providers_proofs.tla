------------------------ MODULE Providers_proofs ------------------------
(***************************************************************************)
(* Proofs about the providers.  FlowIngest: no run of the ingest process   *)
(* reports anything twice, and it loses a big trade only to a fall of its  *)
(* price or to a mark of the day before.  TokenBucket, which their         *)
(* requests wait for: the bucket is never overdrawn, no window of time     *)
(* gets more than a full bucket and what drips in, and nobody sleeps while *)
(* there is enough.                                                        *)
(***************************************************************************)
EXTENDS FlowIngest, TokenBucket, FiniteSetTheorems, SequenceTheorems, TLAPS

-----------------------------------------------------------------------------
(* Sequences and volumes. *)

\* What Append() does to a sequence.
LEMMA AppendOne ==
  ASSUME NEW S, NEW s \in Seq(S), NEW e \in S
  PROVE  /\ Append(s, e) \in Seq(S)
         /\ DOMAIN s = 1..Len(s) /\ Len(s) \in Nat
         /\ DOMAIN Append(s, e) = 1..(Len(s) + 1)
         /\ \A i \in 1..Len(s) : Append(s, e)[i] = s[i]
         /\ Append(s, e)[Len(s) + 1] = e
OBVIOUS

\* Nothing is in the empty batch.
LEMMA EmptyBatch == <<>> \in Seq(SnapshotRows) /\ <<>> \in Seq(Alerts) /\ DOMAIN <<>> = {}
OBVIOUS

\* Without a trade there is no big one.
LEMMA NoBurstIsABurst == NoBurst \in Bursts
BY DEF NoBurst, Bursts

LEMMA NoVolumeIsNone ==
  /\ NoVolume \in [Contracts -> Nat]
  /\ \A k \in Contracts : NoVolume[k] = 0 /\ NoVolume[k] <= MaxVolume[k]
BY IngestAssumption DEF NoVolume

-----------------------------------------------------------------------------
(* No run reports anything twice. *)

\* Nothing is reported in the beginning.
LEMMA ReportInit == Init => ReportInv
<1> SUFFICES ASSUME Init
             PROVE  ReportInv
  OBVIOUS
<1>1. TypeOK
  BY NoVolumeIsNone, NoBurstIsABurst, IngestAssumption, EmptyBatch DEF Init, TypeOK, Feeds, Range
<1>2. listed \in Seq(Alerts) /\ InHand /\ stream \in Seq(Events)
  BY EmptyBatch DEF Init, InHand
<1>3. MarksCover /\ ReportedOncePerRun
  BY <1>2, EmptyBatch DEF Init, MarksCover, ReportedOncePerRun
<1>4. QED
  BY <1>1, <1>2, <1>3 DEF ReportInv

\* The events keep their types as the process starts again.
LEMMA EventsStay ==
  ASSUME stream \in Seq(Events), boots \in Nat, boots' \in Nat, boots <= boots'
  PROVE  stream \in Seq(Events')
<1>1. \A e \in Events : e \in Events'
  BY DEF Events
<1>2. QED
  BY <1>1

\* As long as the stream and the run of the process stay as they are, no mark is
\* taken back ...
LEMMA StreamStays ==
  ASSUME ReportInv, stream' = stream, boots' = boots,
         feed' # "down" =>
           /\ feed # "down"
           /\ \A k \in Contracts : seenVol[k] <= seenVol'[k]
           /\ seenIds \subseteq seenIds',
         seenVol' \in [Contracts -> Nat]
  PROVE  MarksCover' /\ ReportedOncePerRun' /\ (\A i \in DOMAIN stream : stream'[i].feed \in Feeds)
<1>1. stream' \in Seq(Events')
  BY DEF ReportInv, MarksCover, Events
<1>2. ASSUME feed' # "down", NEW i \in DOMAIN stream
      PROVE  /\ (stream[i].feed = "polygon" /\ stream[i].boot = boots) =>
                  stream[i].upTo <= seenVol'[stream[i].contract]
             /\ (stream[i].feed = "unusual_whales" /\ stream[i].boot = boots) =>
                  stream[i].alert \in seenIds'
  <2>1. stream[i] \in Events
    BY DEF ReportInv, MarksCover
  <2>2. CASE stream[i].feed = "polygon" /\ stream[i].boot = boots
    <3>1. stream[i].contract \in Contracts /\ stream[i].upTo \in Nat
      BY <2>1, <2>2 DEF Events, MadeUp
    <3>2. /\ stream[i].upTo <= seenVol[stream[i].contract]
          /\ seenVol[stream[i].contract] <= seenVol'[stream[i].contract]
      BY <1>2, <2>2, <3>1 DEF ReportInv, MarksCover
    <3>3. seenVol[stream[i].contract] \in Nat /\ seenVol'[stream[i].contract] \in Nat
      BY <3>1 DEF ReportInv, TypeOK
    <3>4. QED
      BY <2>2, <3>1, <3>2, <3>3
  <2>3. CASE stream[i].feed = "unusual_whales" /\ stream[i].boot = boots
    BY <1>2, <2>3 DEF ReportInv, MarksCover
  <2>4. QED
    BY <2>2, <2>3
<1>3. MarksCover'
  BY <1>1, <1>2 DEF MarksCover
<1>4. ReportedOncePerRun'
  BY DEF ReportInv, ReportedOncePerRun
<1>5. \A i \in DOMAIN stream : stream'[i].feed \in Feeds
  BY DEF ReportInv, TypeOK
<1>6. QED
  BY <1>3, <1>4, <1>5

\* ... and a new event stands for what no event of this run did: it begins at the mark,
\* or its alert has none.
LEMMA StreamGrows ==
  ASSUME ReportInv, NEW e \in Events, feed # "down",
         stream' = Append(stream, e), boots' = boots,
         seenVol' \in [Contracts -> Nat],
         \A k \in Contracts : seenVol[k] <= seenVol'[k],
         seenIds \subseteq seenIds',
         e.feed = "polygon" =>
           /\ e.boot = boots
           /\ e.from = seenVol[e.contract] /\ e.upTo <= seenVol'[e.contract],
         e.feed = "unusual_whales" =>
           e.boot = boots /\ e.alert \notin seenIds /\ e.alert \in seenIds'
  PROVE  MarksCover' /\ ReportedOncePerRun' /\ (\A i \in DOMAIN stream' : stream'[i].feed \in Feeds)
<1>1. /\ stream \in Seq(Events) /\ DOMAIN stream = 1..Len(stream) /\ Len(stream) \in Nat
      /\ stream' \in Seq(Events) /\ DOMAIN stream' = 1..(Len(stream) + 1)
      /\ \A i \in DOMAIN stream : stream'[i] = stream[i] /\ stream[i] \in Events
      /\ stream'[Len(stream) + 1] = e
  BY AppendOne DEF ReportInv, MarksCover
<1>2. \A i \in DOMAIN stream' : i \in DOMAIN stream \/ stream'[i] = e
  BY <1>1
<1>3. \A x \in Events : x.feed = "polygon" => x.contract \in Contracts /\ x.upTo \in Nat
  BY DEF Events, MadeUp
<1>4. \A k \in Contracts : seenVol[k] \in Nat /\ seenVol'[k] \in Nat
  BY DEF ReportInv, TypeOK
<1>5. ASSUME NEW i \in DOMAIN stream'
      PROVE  /\ (stream'[i].feed = "polygon" /\ stream'[i].boot = boots) =>
                  stream'[i].upTo <= seenVol'[stream'[i].contract]
             /\ (stream'[i].feed = "unusual_whales" /\ stream'[i].boot = boots) =>
                  stream'[i].alert \in seenIds'
  <2>1. CASE stream'[i] = e
    BY <2>1
  <2>2. CASE i \in DOMAIN stream
    <3>1. /\ (stream[i].feed = "polygon" /\ stream[i].boot = boots) =>
               stream[i].upTo <= seenVol[stream[i].contract]
          /\ (stream[i].feed = "unusual_whales" /\ stream[i].boot = boots) =>
               stream[i].alert \in seenIds
      BY <2>2 DEF ReportInv, MarksCover
    <3>2. stream[i] \in Events /\ stream'[i] = stream[i]
      BY <1>1, <2>2
    <3>3. stream[i].feed = "polygon" =>
            /\ stream[i].upTo \in Nat
            /\ seenVol[stream[i].contract] \in Nat /\ seenVol'[stream[i].contract] \in Nat
            /\ seenVol[stream[i].contract] <= seenVol'[stream[i].contract]
      BY <3>2, <1>3, <1>4
    <3>4. QED
      BY <3>1, <3>2, <3>3
  <2>3. QED
    BY <1>2, <2>1, <2>2
<1>6. MarksCover'
  <2>1. Events' = Events
    BY DEF Events
  <2>2. QED
    BY <1>1, <1>5, <2>1 DEF MarksCover
<1>7. ASSUME NEW i \in DOMAIN stream', NEW j \in DOMAIN stream', i < j,
             stream'[i].feed = stream'[j].feed
      PROVE  /\ (stream'[i].feed = "polygon" /\ stream'[i].contract = stream'[j].contract
                   /\ stream'[i].boot = stream'[j].boot) =>
                  stream'[j].from >= stream'[i].upTo
             /\ (stream'[i].feed = "unusual_whales" /\ stream'[i].boot = stream'[j].boot) =>
                  stream'[i].alert # stream'[j].alert
  <2>1. i \in DOMAIN stream /\ stream'[i] = stream[i]
    BY <1>1, <1>7
  <2>2. CASE j \in DOMAIN stream
    <3>1. stream'[j] = stream[j]
      BY <1>1, <2>2
    <3>2. QED
      BY <1>7, <2>1, <2>2, <3>1 DEF ReportInv, ReportedOncePerRun
  <2>3. CASE stream'[j] = e
    <3>1. /\ (stream[i].feed = "polygon" /\ stream[i].boot = boots) =>
               stream[i].upTo <= seenVol[stream[i].contract]
          /\ (stream[i].feed = "unusual_whales" /\ stream[i].boot = boots) =>
               stream[i].alert \in seenIds
      BY <2>1 DEF ReportInv, MarksCover
    <3>2. stream[i].feed = "polygon" =>
            stream[i].upTo \in Nat /\ seenVol[stream[i].contract] \in Nat
      BY <1>1, <1>3, <1>4, <2>1
    <3>3. QED
      BY <1>7, <2>1, <2>3, <3>1, <3>2
  <2>4. QED
    BY <1>2, <2>2, <2>3
<1>8. \A i \in DOMAIN stream' : stream'[i].feed \in Feeds
  BY <1>1, <1>2 DEF Events, MadeUp, Feeds
<1>9. ReportedOncePerRun'
  BY <1>7, <1>8 DEF ReportedOncePerRun, Feeds
<1>10. QED
  BY <1>6, <1>8, <1>9

\* The last big trade is the one just made, or the one before at the new price.
LEMMA BurstAfterTrade ==
  ASSUME NEW k \in Contracts, NEW n \in Nat, NEW p \in Nat,
         burst[k] \in Bursts, volume[k] \in Nat
  PROVE  /\ BurstAfter(k, n, p) \in Bursts
         /\ \/ /\ n * p >= MinPremium
               /\ BurstAfter(k, n, p) = [upTo |-> volume[k] + n, size |-> n, kept |-> TRUE]
            \/ /\ BurstAfter(k, n, p).upTo = burst[k].upTo
               /\ BurstAfter(k, n, p).size = burst[k].size
               /\ BurstAfter(k, n, p).kept =>
                    burst[k].kept /\ burst[k].size * p >= MinPremium
<1>1. CASE n * p >= MinPremium
  BY <1>1 DEF BurstAfter, Bursts
<1>2. CASE ~(n * p >= MinPremium)
  <2>1. BurstAfter(k, n, p) =
          [burst[k] EXCEPT !.kept = burst[k].kept /\ burst[k].size * p >= MinPremium]
    BY <1>2 DEF BurstAfter
  <2>2. (burst[k].kept /\ burst[k].size * p >= MinPremium) \in BOOLEAN
    OBVIOUS
  <2>3. QED
    BY <2>1, <2>2 DEF Bursts
<1>3. QED
  BY <1>1, <1>2

\* The vendors and the history are not what the events are compared with.
LEMMA VendorsKeepReports == ReportInv /\ Vendors => ReportInv'
<1> SUFFICES ASSUME ReportInv, Vendors
             PROVE  ReportInv'
  OBVIOUS
<1>1. /\ UNCHANGED <<runVars, feed, markVars, batch, stream>>
      /\ volume' \in [Contracts -> Nat] /\ \A k \in Contracts : volume'[k] <= MaxVolume[k]
      /\ price' \in [Contracts -> Nat] /\ burst' \in [Contracts -> Bursts]
      /\ checked' \in {checked, NoVolume} /\ carried' \in {carried, seenVol}
      /\ day' \in 1..MaxDay
      /\ listed' \in Seq(Alerts)
  <2>1. ASSUME NEW k \in Contracts, NEW n \in Sizes[k], NEW p \in Prices[k], Trade(k, n, p)
        PROVE  <1>1!:
    <3>1. n \in Nat /\ p \in Nat /\ volume[k] \in Nat /\ volume[k] + n \in Nat
      <4>1. n \in Nat /\ p \in Nat
        BY IngestAssumption
      <4>2. volume[k] \in Nat
        BY DEF ReportInv, TypeOK
      <4>3. QED
        BY <4>1, <4>2
    <3>2. BurstAfter(k, n, p) \in Bursts
      BY <3>1, BurstAfterTrade DEF ReportInv, TypeOK
    <3>3. /\ volume' = [volume EXCEPT ![k] = volume[k] + n] /\ volume[k] + n <= MaxVolume[k]
          /\ price' = [price EXCEPT ![k] = p]
          /\ burst' = [burst EXCEPT ![k] = BurstAfter(k, n, p)]
          /\ UNCHANGED <<day, listed, runVars, feed, markVars, batch, stream, checked, carried>>
      BY <2>1 DEF Trade
    <3>4. QED
      BY <3>1, <3>2, <3>3 DEF ReportInv, TypeOK, runVars, markVars
  <2>2. CASE NewDay
    BY <2>2, NoVolumeIsNone, NoBurstIsABurst, IngestAssumption
       DEF NewDay, ReportInv, TypeOK, runVars, markVars
  <2>3. ASSUME NEW a \in Alerts, List(a)
        PROVE  <1>1!:
    BY <2>3, AppendOne DEF List, ReportInv, TypeOK, runVars, markVars
  <2>4. QED
    BY <2>1, <2>2, <2>3 DEF Vendors
<1>2. \A i \in DOMAIN stream : stream'[i].feed \in Feeds
  BY <1>1 DEF ReportInv, TypeOK
<1>3. TypeOK'
  <2>1. Range(listed') \subseteq Alerts
    BY <1>1, RangeOfSeq
  <2>2. \A f \in {checked', carried'} :
          f \in [Contracts -> Nat] /\ \A k \in Contracts : f[k] <= MaxVolume[k]
    BY <1>1, NoVolumeIsNone DEF ReportInv, TypeOK
  <2>3. QED
    BY <1>1, <1>2, <2>1, <2>2 DEF ReportInv, TypeOK, runVars, markVars
<1>4. InHand'
  <2>1. feed = "down" => checked' = NoVolume
    BY <1>1 DEF ReportInv, InHand
  <2>2. QED
    BY <1>1, <2>1 DEF ReportInv, InHand, runVars, markVars
<1>5. MarksCover' /\ ReportedOncePerRun'
  <2>1. \A k \in Contracts : seenVol[k] <= seenVol[k] /\ seenVol \in [Contracts -> Nat]
    BY DEF ReportInv, TypeOK
  <2>2. QED
    BY <1>1, <2>1 DEF ReportInv, MarksCover, ReportedOncePerRun, Events, runVars, markVars
<1>6. QED
  BY <1>1, <1>3, <1>4, <1>5 DEF ReportInv

\* A new run has no marks, and no event is of it yet.
LEMMA StartKeepsReports == ReportInv /\ Start => ReportInv'
<1> SUFFICES ASSUME ReportInv, Start
             PROVE  ReportInv'
  OBVIOUS
<1>1. /\ feed = "down" /\ boots' = boots + 1 /\ feed' = FeedOf(keys)
      /\ UNCHANGED <<vendorVars, choice, keys, markVars, batch, stream, checked, carried>>
      /\ boots \in Nat /\ boots' \in 0..MaxBoots /\ boots' > 0
  BY IngestAssumption DEF Start, ReportInv, TypeOK
<1>2. feed' \in Feeds /\ (feed' \in {"polygon", "unusual_whales"} => feed' \in keys)
  BY <1>1 DEF FeedOf, Selected, Feeds
<1>3. TypeOK'
  BY <1>1, <1>2 DEF ReportInv, TypeOK, vendorVars, markVars
<1>4. InHand'
  BY <1>1, <1>2, EmptyBatch DEF ReportInv, InHand, Feeds, vendorVars, markVars
<1>5. MarksCover'
  <2>1. stream \in Seq(Events')
    BY <1>1, EventsStay DEF ReportInv, MarksCover
  <2>2. \A i \in DOMAIN stream : stream[i].feed # "synthetic" => stream[i].boot # boots'
    <3>1. \A i \in DOMAIN stream : stream[i] \in Events
      BY DEF ReportInv, MarksCover
    <3>2. \A e \in Events : e.feed # "synthetic" => e.boot \in 1..boots
      BY DEF Events, MadeUp
    <3>3. QED
      BY <1>1, <3>1, <3>2
  <2>3. QED
    BY <1>1, <2>1, <2>2 DEF MarksCover
<1>6. ReportedOncePerRun'
  BY <1>1 DEF ReportInv, ReportedOncePerRun
<1>7. QED
  BY <1>1, <1>3, <1>4, <1>5, <1>6 DEF ReportInv, vendorVars

\* What the process had marked dies with it.
LEMMA CrashKeepsReports == ReportInv /\ Crash => ReportInv'
<1> SUFFICES ASSUME ReportInv, Crash
             PROVE  ReportInv'
  OBVIOUS
<1>1. /\ feed' = "down" /\ batch' = <<>>
      /\ seenVol' = NoVolume /\ checked' = NoVolume /\ carried' = NoVolume /\ seenIds' = {}
      /\ UNCHANGED <<vendorVars, runVars, stream>>
  BY DEF Crash
<1>2. MarksCover' /\ ReportedOncePerRun' /\ (\A i \in DOMAIN stream : stream'[i].feed \in Feeds)
  BY <1>1, NoVolumeIsNone, StreamStays DEF runVars
<1>3. TypeOK'
  BY <1>1, <1>2, NoVolumeIsNone DEF ReportInv, TypeOK, vendorVars, runVars
<1>4. InHand'
  BY <1>1 DEF InHand
<1>5. QED
  BY <1>1, <1>2, <1>3, <1>4 DEF ReportInv, vendorVars

\* The rows of a snapshot are those of the contracts.
LEMMA SnapshotsAreRows ==
  ASSUME ReportInv, NEW rows \in Snapshots
  PROVE  /\ rows \in Seq(SnapshotRows)
         /\ \A i \in DOMAIN rows :
              /\ rows[i].contract \in Contracts /\ rows[i].day = day
              /\ rows[i].volume = volume[rows[i].contract]
              /\ rows[i].price = price[rows[i].contract]
<1>1. PICK f \in Rankings :
        rows = [i \in 1..Depth |-> [contract |-> f[i], volume |-> volume[f[i]],
                                    price |-> price[f[i]], day |-> day]]
  BY DEF Snapshots
<1>2. Cardinality(Paged) \in Nat /\ Paged \subseteq Contracts
  BY FS_Subset, FS_CardinalityType, IngestAssumption
<1>3. Depth \in Nat /\ Depth <= Cardinality(Paged)
  BY <1>2, IngestAssumption DEF Depth
<1>4. \A i \in 1..Depth : f[i] \in Contracts
  BY <1>2, <1>3 DEF Rankings
<1>5. \A i \in 1..Depth : rows[i] \in SnapshotRows
  BY <1>1, <1>4 DEF ReportInv, TypeOK, SnapshotRows
<1>6. rows \in Seq(SnapshotRows) /\ DOMAIN rows = 1..Depth
  BY <1>1, <1>3, <1>5
<1>7. QED
  BY <1>1, <1>4, <1>6

\* Between polls: a new batch, or a feed that was refused.
LEMMA PollKeepsReports ==
  ReportInv /\ (PollContracts \/ FetchAlerts \/ Refused \/ UNCHANGED vars) => ReportInv'
<1> SUFFICES ASSUME ReportInv, PollContracts \/ FetchAlerts \/ Refused \/ UNCHANGED vars
             PROVE  ReportInv'
  OBVIOUS
<1>1. /\ UNCHANGED <<vendorVars, runVars, markVars, stream, checked, carried>>
      /\ feed' = feed \/ (feed = "polygon" /\ feed' = "synthetic")
  BY DEF PollContracts, FetchAlerts, Refused, vars
<1>2. MarksCover' /\ ReportedOncePerRun' /\ (\A i \in DOMAIN stream : stream'[i].feed \in Feeds)
  <2>1. \A k \in Contracts : seenVol[k] <= seenVol[k] /\ seenVol \in [Contracts -> Nat]
    BY DEF ReportInv, TypeOK
  <2>2. QED
    BY <1>1, <2>1, StreamStays DEF ReportInv, TypeOK, runVars, markVars
<1>3. TypeOK'
  BY <1>1, <1>2 DEF ReportInv, TypeOK, Feeds, vendorVars, runVars, markVars
<1>4. InHand'
  <2>1. CASE PollContracts
    <3>1. /\ batch' \in Seq(SnapshotRows) /\ feed' = feed /\ feed = "polygon"
          /\ \A i \in DOMAIN batch' : batch'[i].volume <= MaxVolume[batch'[i].contract]
      BY <2>1, SnapshotsAreRows DEF PollContracts, ReportInv, TypeOK
    <3>2. QED
      BY <1>1, <3>1 DEF ReportInv, InHand, runVars, markVars
  <2>2. CASE FetchAlerts
    <3>1. /\ batch' \in Seq(Alerts) /\ feed' = feed /\ feed = "unusual_whales"
      <4>1. /\ batch' = OnTheList /\ feed' = feed /\ feed = "unusual_whales"
            /\ listed \in Seq(Alerts) /\ Len(listed) \in Nat /\ Window \in Nat
        BY <2>2, IngestAssumption DEF FetchAlerts, ReportInv
      <4>2. OnTheList \in Seq(Alerts)
        BY <4>1, SubSeqProperties DEF OnTheList
      <4>3. QED
        BY <4>1, <4>2
    <3>2. QED
      BY <1>1, <3>1 DEF ReportInv, InHand, runVars, markVars
  <2>3. CASE Refused \/ UNCHANGED vars
    BY <1>1, <2>3 DEF Refused, vars, ReportInv, InHand, runVars, markVars
  <2>4. QED
    BY <2>1, <2>2, <2>3
<1>5. QED
  BY <1>1, <1>2, <1>3, <1>4 DEF ReportInv, vendorVars

\* A print that is made up stands for no trade.
LEMMA SynthesiseKeepsReports == ReportInv /\ Synthesise => ReportInv'
<1> SUFFICES ASSUME ReportInv, Synthesise
             PROVE  ReportInv'
  OBVIOUS
<1>1. /\ feed = "synthetic" /\ stream' = Append(stream, MadeUp)
      /\ UNCHANGED <<vendorVars, runVars, feed, markVars, batch, checked, carried>>
  BY DEF Synthesise
<1>2. MarksCover' /\ ReportedOncePerRun' /\ (\A i \in DOMAIN stream' : stream'[i].feed \in Feeds)
  <2>1. MadeUp \in Events /\ MadeUp.feed = "synthetic"
    BY DEF Events, MadeUp
  <2>2. /\ seenVol' \in [Contracts -> Nat] /\ seenIds \subseteq seenIds'
        /\ \A k \in Contracts : seenVol[k] <= seenVol'[k]
    BY <1>1 DEF ReportInv, TypeOK, markVars
  <2>3. QED
    BY <1>1, <2>1, <2>2, StreamGrows DEF runVars
<1>3. TypeOK'
  BY <1>1, <1>2 DEF ReportInv, TypeOK, vendorVars, runVars, markVars
<1>4. InHand'
  BY <1>1 DEF ReportInv, InHand, runVars, markVars
<1>5. QED
  BY <1>1, <1>2, <1>3, <1>4 DEF ReportInv, vendorVars

\* An alert is put on the stream only without its mark, and then it has one.
LEMMA NormaliseKeepsReports == ReportInv /\ NormaliseAlert => ReportInv'
<1> SUFFICES ASSUME ReportInv, NormaliseAlert
             PROVE  ReportInv'
  OBVIOUS
<1> DEFINE a == Head(batch)
           e == [feed |-> "unusual_whales", alert |-> a, boot |-> boots]
<1>1. /\ feed = "unusual_whales" /\ batch \in Seq(Alerts) /\ batch # <<>>
      /\ seenIds' = seenIds \cup {a} /\ batch' \in {<<>>, Tail(batch)}
      /\ stream' = stream \/ (a \notin seenIds /\ stream' = Append(stream, e))
      /\ UNCHANGED <<vendorVars, runVars, feed, seenVol, checked, carried>>
  BY DEF NormaliseAlert, IdsAfter, ReportInv, InHand
<1>2. a \in Alerts /\ batch' \in Seq(Alerts)
  <2>1. a \in Alerts /\ Tail(batch) \in Seq(Alerts)
    BY <1>1
  <2>2. QED
    BY <1>1, <2>1, EmptyBatch
<1>3. /\ seenVol' \in [Contracts -> Nat] /\ seenIds \subseteq seenIds'
      /\ \A k \in Contracts : seenVol[k] <= seenVol'[k]
      /\ boots' = boots /\ boots \in Nat /\ boots > 0
  BY <1>1, IngestAssumption DEF ReportInv, TypeOK, InHand, runVars
<1>4. MarksCover' /\ ReportedOncePerRun' /\ (\A i \in DOMAIN stream' : stream'[i].feed \in Feeds)
  <2>1. CASE stream' = stream
    BY <1>1, <1>3, <2>1, StreamStays
  <2>2. CASE a \notin seenIds /\ stream' = Append(stream, e)
    <3>1. /\ e \in Events /\ e.feed = "unusual_whales" /\ e.boot = boots
          /\ e.alert \notin seenIds /\ e.alert \in seenIds'
      BY <1>1, <1>2, <1>3, <2>2 DEF Events
    <3> HIDE DEF e
    <3>2. QED
      BY <1>1, <1>3, <2>2, <3>1, StreamGrows
  <2>3. QED
    BY <1>1, <2>1, <2>2
<1>5. TypeOK'
  BY <1>1, <1>2, <1>4 DEF ReportInv, TypeOK, vendorVars, runVars
<1>6. InHand'
  BY <1>1, <1>2 DEF ReportInv, InHand, runVars
<1>7. QED
  BY <1>1, <1>4, <1>5, <1>6 DEF ReportInv, vendorVars

\* What a row does: the mark is the volume of the row if that is fresh, and an event
\* begins at the mark.
LEMMA ConvertedRow ==
  ASSUME ReportInv, ConvertContract
  PROVE  LET row == Head(batch) IN
         /\ batch \in Seq(SnapshotRows) /\ batch # <<>>
         /\ row = batch[1] /\ 1 \in DOMAIN batch /\ row \in SnapshotRows
         /\ row.volume <= MaxVolume[row.contract]
         /\ seenVol' \in [Contracts -> Nat]
         /\ \A k \in Contracts : seenVol[k] <= seenVol'[k] /\ seenVol'[k] <= MaxVolume[k]
         /\ \A k \in Contracts : k # row.contract => seenVol'[k] = seenVol[k]
         /\ IF Fresh(row) THEN seenVol'[row.contract] = row.volume
            ELSE UNCHANGED seenVol
         /\ IF Fresh(row) /\ BigEnough(row) /\ row.contract \notin BrokenRows
            THEN stream' = Append(stream, Burst(row)) ELSE stream' = stream
         /\ Burst(row) \in Events
         /\ batch' \in Seq(SnapshotRows)
         /\ \A i \in DOMAIN batch' : \E j \in DOMAIN batch : batch'[i] = batch[j]
         /\ checked' = IF (Fresh(row) /\ BigEnough(row) /\ row.contract \in BrokenRows)
                            \/ row.day # day THEN checked
                       ELSE [checked EXCEPT ![row.contract] = row.volume]
         /\ carried' = IF row.day # day THEN seenVol' ELSE carried
         /\ UNCHANGED <<vendorVars, runVars, feed, seenIds>>
<1> DEFINE row == Head(batch)
<1>1. /\ feed = "polygon" /\ batch \in Seq(SnapshotRows) /\ batch # <<>>
      /\ seenVol' = SeenAfter(row) /\ batch' \in {<<>>, Tail(batch)}
      /\ UNCHANGED <<vendorVars, runVars, feed, seenIds>>
  BY DEF ConvertContract, ReportInv, InHand
<1>2. /\ row = batch[1] /\ 1 \in DOMAIN batch /\ row \in SnapshotRows
      /\ row.volume <= MaxVolume[row.contract]
      /\ row.contract \in Contracts /\ row.volume \in Nat /\ row.day \in 1..MaxDay
  <2>1. row = batch[1] /\ 1 \in DOMAIN batch /\ row \in SnapshotRows
    BY <1>1
  <2>2. QED
    BY <1>1, <2>1 DEF ReportInv, InHand, SnapshotRows
<1>3. /\ seenVol' \in [Contracts -> Nat]
      /\ \A k \in Contracts : seenVol[k] <= seenVol'[k] /\ seenVol'[k] <= MaxVolume[k]
      /\ \A k \in Contracts : k # row.contract => seenVol'[k] = seenVol[k]
      /\ IF Fresh(row) THEN seenVol'[row.contract] = row.volume
         ELSE UNCHANGED seenVol
  <2>1. /\ seenVol \in [Contracts -> Nat] /\ \A k \in Contracts : seenVol[k] <= MaxVolume[k]
    BY DEF ReportInv, TypeOK
  <2>2. CASE Fresh(row)
    <3>1. row.volume > seenVol[row.contract]
      BY <2>2 DEF Fresh
    <3>2. seenVol' = [seenVol EXCEPT ![row.contract] = row.volume]
      BY <1>1, <2>2 DEF SeenAfter
    <3>3. QED
      BY <1>2, <2>1, <2>2, <3>1, <3>2
  <2>3. CASE ~Fresh(row)
    BY <1>1, <2>1, <2>3 DEF SeenAfter
  <2>4. QED
    BY <2>2, <2>3
<1>4. IF Fresh(row) /\ BigEnough(row) /\ row.contract \notin BrokenRows
      THEN stream' = Append(stream, Burst(row)) ELSE stream' = stream
  BY DEF ConvertContract
<1>5. Burst(row) \in Events
  <2>1. boots \in 1..boots /\ seenVol[row.contract] \in Nat
    BY <1>1, <1>2, IngestAssumption DEF ReportInv, TypeOK, InHand
  <2>2. QED
    BY <1>2, <2>1 DEF Burst, Events
<1>6. /\ batch' \in Seq(SnapshotRows)
      /\ \A i \in DOMAIN batch' : \E j \in DOMAIN batch : batch'[i] = batch[j]
  <2>1. /\ Tail(batch) \in Seq(SnapshotRows)
        /\ \A i \in DOMAIN Tail(batch) :
             i + 1 \in DOMAIN batch /\ Tail(batch)[i] = batch[i + 1]
    BY <1>1
  <2>2. QED
    BY <1>1, <2>1, EmptyBatch
<1>7. /\ checked' = IF (Fresh(row) /\ BigEnough(row) /\ row.contract \in BrokenRows)
                         \/ row.day # day THEN checked
                    ELSE [checked EXCEPT ![row.contract] = row.volume]
      /\ carried' = IF row.day # day THEN seenVol' ELSE carried
  BY <1>1 DEF ConvertContract
<1>8. QED
  BY <1>1, <1>2, <1>3, <1>4, <1>5, <1>6, <1>7

\* So a row reports what the mark has not covered, and covers it.
LEMMA ConvertKeepsReports == ReportInv /\ ConvertContract => ReportInv'
<1> SUFFICES ASSUME ReportInv, ConvertContract
             PROVE  ReportInv'
  OBVIOUS
<1> DEFINE row == Head(batch)
<1>1. /\ row \in SnapshotRows /\ row.volume <= MaxVolume[row.contract]
      /\ seenVol' \in [Contracts -> Nat]
      /\ \A k \in Contracts : seenVol[k] <= seenVol'[k] /\ seenVol'[k] <= MaxVolume[k]
      /\ batch \in Seq(SnapshotRows) /\ batch' \in Seq(SnapshotRows)
      /\ \A i \in DOMAIN batch' : \E j \in DOMAIN batch : batch'[i] = batch[j]
      /\ checked' \in {checked, [checked EXCEPT ![row.contract] = row.volume]}
      /\ carried' \in {carried, seenVol'}
      /\ feed = "polygon"
      /\ UNCHANGED <<vendorVars, runVars, feed, seenIds>>
  BY ConvertedRow DEF ConvertContract
<1>2. /\ \/ stream' = stream
         \/ /\ stream' = Append(stream, Burst(row)) /\ Burst(row) \in Events
            /\ Fresh(row) /\ seenVol'[row.contract] = row.volume
  BY ConvertedRow
<1>3. MarksCover' /\ ReportedOncePerRun' /\ (\A i \in DOMAIN stream' : stream'[i].feed \in Feeds)
  <2>1. CASE stream' = stream
    BY <1>1, <2>1, StreamStays DEF runVars
  <2>2. CASE /\ stream' = Append(stream, Burst(row)) /\ Burst(row) \in Events
             /\ seenVol'[row.contract] = row.volume
    <3>1. row.volume \in Nat /\ row.volume <= row.volume
      BY <1>1 DEF SnapshotRows
    <3>2. /\ Burst(row).boot = boots /\ Burst(row).feed = "polygon"
          /\ Burst(row).from = seenVol[Burst(row).contract]
          /\ Burst(row).upTo <= seenVol'[Burst(row).contract]
      BY <2>2, <3>1 DEF Burst
    <3>3. QED
      BY <1>1, <2>2, <3>2, StreamGrows DEF runVars
  <2>3. QED
    BY <1>2, <2>1, <2>2
<1>4. TypeOK'
  <2>1. \A f \in {checked', carried'} :
          f \in [Contracts -> Nat] /\ \A k \in Contracts : f[k] <= MaxVolume[k]
    <3>1. row.contract \in Contracts /\ row.volume \in Nat
      BY <1>1 DEF SnapshotRows
    <3>2. checked' \in [Contracts -> Nat] /\ \A k \in Contracts : checked'[k] <= MaxVolume[k]
      BY <1>1, <3>1 DEF ReportInv, TypeOK
    <3>3. carried' \in [Contracts -> Nat] /\ \A k \in Contracts : carried'[k] <= MaxVolume[k]
      BY <1>1 DEF ReportInv, TypeOK
    <3>4. QED
      BY <3>2, <3>3
  <2>2. QED
    BY <1>1, <1>3, <2>1 DEF ReportInv, TypeOK, vendorVars, runVars
<1>5. InHand'
  <2>1. \A i \in DOMAIN batch' : batch'[i].volume <= MaxVolume[batch'[i].contract]
    BY <1>1 DEF ReportInv, InHand
  <2>2. QED
    BY <1>1, <2>1 DEF ReportInv, InHand, runVars
<1>6. QED
  BY <1>1, <1>3, <1>4, <1>5 DEF ReportInv, vendorVars

\* Every step keeps the invariant.
LEMMA ReportNext == ReportInv /\ [Next]_vars => ReportInv'
BY VendorsKeepReports, StartKeepsReports, CrashKeepsReports, PollKeepsReports,
   SynthesiseKeepsReports, NormaliseKeepsReports, ConvertKeepsReports
   DEF Next, Ingest

LEMMA ReportInvariant == Spec => []ReportInv
BY ReportInit, ReportNext, PTL DEF Spec

\* The state of the process is well-typed, and a provider without its key is never
\* polled.
THEOREM IngestTypes == Spec => []TypeOK
<1>1. ReportInv => TypeOK
  BY DEF ReportInv
<1>2. QED
  BY <1>1, ReportInvariant, PTL

\* Within a run of the process no traded contract and no alert is reported twice.
THEOREM NothingIsReportedTwice == Spec => []ReportedOncePerRun
<1>1. ReportInv => ReportedOncePerRun
  BY DEF ReportInv
<1>2. QED
  BY <1>1, ReportInvariant, PTL

-----------------------------------------------------------------------------
(* A big trade is lost only to a fall of its price or to an older mark. *)

\* The volume from which a contract is unusual.
LEMMA Threshold ==
  ASSUME NEW k \in Contracts, NEW v \in Nat
  PROVE  /\ MinVolOi * OpenInterest[k] \in Nat
         /\ Unusual([contract |-> k, volume |-> v]) <=> v >= MinVolOi * OpenInterest[k]
<1>1. MinVolOi \in Nat /\ OpenInterest[k] \in Nat
  BY IngestAssumption
<1>2. QED
  BY <1>1 DEF Unusual

\* More contracts cost more.
LEMMA MoreCostsMore ==
  ASSUME NEW a \in Nat, NEW b \in Nat, NEW p \in Nat, a <= b
  PROVE  a * p \in Nat /\ b * p \in Nat /\ a * p <= b * p
<1>1. PICK d \in Nat : b = a + d
  <2>1. b - a \in Nat /\ b = a + (b - a)
    OBVIOUS
  <2>2. QED
    BY <2>1
<1>2. (a + d) * p = a * p + d * p
  OBVIOUS
<1>3. a * p \in Nat /\ d * p \in Nat
  OBVIOUS
<1>4. QED
  BY <1>1, <1>2, <1>3

\* The volumes, the prices and the trades are numbers.
LEMMA VolumesAreNumbers ==
  ASSUME ReportInv, NEW k \in Contracts
  PROVE  /\ volume[k] \in Nat /\ checked[k] \in Nat /\ seenVol[k] \in Nat
         /\ carried[k] \in Nat /\ price[k] \in Nat
         /\ burst[k] \in Bursts
         /\ burst[k].upTo \in Nat /\ burst[k].size \in Nat /\ burst[k].kept \in BOOLEAN
         /\ MinPremium \in Nat /\ day \in Nat
BY IngestAssumption DEF ReportInv, TypeOK, Bursts

\* Nothing was traded before the first day.
LEMMA BurstInit == Init => BurstInv
<1> SUFFICES ASSUME Init
             PROVE  BurstInv
  OBVIOUS
<1>1. ReportInv
  BY ReportInit
<1>2. \A k \in Contracts :
        /\ burst[k].upTo = 0 /\ burst[k].size = 0 /\ burst[k].kept = FALSE
        /\ volume[k] = 0 /\ checked[k] = 0 /\ seenVol[k] = 0 /\ carried[k] = 0
  BY NoVolumeIsNone DEF Init, NoBurst
<1>3. VolumesOfToday /\ MarksOfToday
  BY <1>2 DEF VolumesOfToday, MarksOfToday, Clear, Worth
<1>4. RowsInHand
  BY DEF Init, RowsInHand
<1>5. BurstsAreReported
  BY <1>2 DEF BurstsAreReported, Due
<1>6. QED
  BY <1>1, <1>3, <1>4, <1>5 DEF BurstInv

\* What is reported stays so while the day and the last big trade are the same.
LEMMA ReportsStay ==
  ASSUME BurstInv, day' = day,
         stream' = stream \/ \E e \in Events : stream' = Append(stream, e),
         NEW k, burst'[k].upTo = burst[k].upTo, Reported(k)
  PROVE  Reported(k)'
<1>1. \A i \in DOMAIN stream : i \in DOMAIN stream' /\ stream'[i] = stream[i]
  <2>1. CASE stream' = stream
    BY <2>1
  <2>2. ASSUME NEW e \in Events, stream' = Append(stream, e)
        PROVE  <1>1!:
    BY <2>2, AppendOne DEF BurstInv, ReportInv, MarksCover
  <2>3. QED
    BY <2>1, <2>2
<1>2. QED
  BY <1>1 DEF Reported

\* A step that leaves volumes, marks, rows and history alone and takes no event away.
LEMMA QuietKeepsBursts ==
  ASSUME BurstInv, ReportInv',
         UNCHANGED <<day, volume, price, burst, checked, carried, seenVol>>,
         stream' = stream \/ \E e \in Events : stream' = Append(stream, e),
         feed' = "polygon" => feed = "polygon" /\ UNCHANGED batch
  PROVE  BurstInv'
<1>1. BurstsAreReported'
  <2>1. ASSUME NEW k \in Contracts \ BrokenRows, Due(k)', burst'[k].kept,
               carried'[k] + burst'[k].size <= burst'[k].upTo
        PROVE  Reported(k)'
    <3>1. Reported(k)
      BY <2>1 DEF BurstInv, BurstsAreReported, Due, Unusual
    <3>2. QED
      BY <3>1, ReportsStay
  <2>2. QED
    BY <2>1 DEF BurstsAreReported
<1>2. RowsInHand'
  BY DEF BurstInv, RowsInHand, Clear, Worth
<1>3. VolumesOfToday' /\ MarksOfToday'
  BY DEF BurstInv, VolumesOfToday, MarksOfToday, Clear, Worth, Unusual
<1>4. QED
  BY <1>1, <1>2, <1>3 DEF BurstInv

\* What is known of a row in hand.
LEMMA RowInHand ==
  ASSUME BurstInv, feed = "polygon", NEW i \in DOMAIN batch
  PROVE  LET row == batch[i] IN
         /\ row \in SnapshotRows /\ row.contract \in Contracts
         /\ row.volume \in Nat /\ row.price \in Nat
         /\ row.day \in Nat /\ row.day <= day
         /\ row.day # day => checked = NoVolume
         /\ row.day = day =>
              /\ checked[row.contract] <= row.volume /\ row.volume <= volume[row.contract]
              /\ Clear(row.volume, row.contract)
              /\ burst[row.contract].upTo <= row.volume => Worth(row.price, row.contract)
         /\ \A j \in DOMAIN batch :
              /\ batch[j].day = row.day
              /\ batch[j].contract = row.contract => batch[j] = row
<1>1. batch[i] \in SnapshotRows
  BY DEF BurstInv, ReportInv, InHand
<1>2. /\ batch[i].contract \in Contracts /\ batch[i].volume \in Nat
      /\ batch[i].price \in Nat /\ batch[i].day \in Nat
  BY <1>1, IngestAssumption DEF SnapshotRows
<1>3. RowsInHand
  BY DEF BurstInv
<1>4. QED
  BY <1>1, <1>2, <1>3 DEF RowsInHand

\* A trade is beyond everything that was looked at: it is not due before the next poll.
LEMMA TradeKeepsBursts ==
  ASSUME BurstInv, ReportInv',
         NEW k \in Contracts, NEW n \in Sizes[k], NEW p \in Prices[k], Trade(k, n, p)
  PROVE  BurstInv'
<1> DEFINE new == BurstAfter(k, n, p)
<1>1. /\ volume' = [volume EXCEPT ![k] = volume[k] + n]
      /\ price' = [price EXCEPT ![k] = p]
      /\ burst' = [burst EXCEPT ![k] = new]
      /\ UNCHANGED <<day, feed, seenVol, batch, stream, checked, carried>>
      /\ volume \in [Contracts -> Nat] /\ price \in [Contracts -> Nat]
      /\ burst \in [Contracts -> Bursts]
  BY DEF Trade, BurstInv, ReportInv, TypeOK, runVars, markVars
<1>2. n \in Nat /\ n > 0 /\ p \in Nat /\ volume[k] \in Nat
  BY IngestAssumption, VolumesAreNumbers DEF BurstInv
<1>3. \A c \in Contracts :
        /\ volume[c] \in Nat /\ checked[c] \in Nat /\ seenVol[c] \in Nat /\ carried[c] \in Nat
        /\ burst[c].upTo \in Nat /\ burst[c].size \in Nat /\ burst[c] \in Bursts
  BY VolumesAreNumbers DEF BurstInv
<1>4. \/ n * p >= MinPremium /\ new = [upTo |-> volume[k] + n, size |-> n, kept |-> TRUE]
      \/ /\ new.upTo = burst[k].upTo /\ new.size = burst[k].size
         /\ new.kept => burst[k].kept /\ burst[k].size * p >= MinPremium
  BY <1>2, <1>3, BurstAfterTrade
<1> HIDE DEF new
<1>5. \A c \in Contracts :
        /\ volume'[c] = IF c = k THEN volume[k] + n ELSE volume[c]
        /\ price'[c] = IF c = k THEN p ELSE price[c]
        /\ burst'[c] = IF c = k THEN new ELSE burst[c]
  BY <1>1
\* It is either the new trade or the old one, which has kept its worth at most so far.
<1>6. ASSUME NEW c \in Contracts
      PROVE  \/ /\ c = k /\ burst'[c].upTo = volume[c] + n /\ burst'[c].size = n
                /\ n * p >= MinPremium
             \/ /\ burst'[c].upTo = burst[c].upTo /\ burst'[c].size = burst[c].size
                /\ burst'[c].kept => burst[c].kept
                /\ c = k /\ burst'[c].kept => burst[c].size * p >= MinPremium
  BY <1>4, <1>5
<1>7. ASSUME NEW x \in Nat, NEW c \in Contracts, x <= volume[c], Clear(x, c)
      PROVE  x <= volume'[c] /\ Clear(x, c)'
  <2>1. x <= volume'[c]
    BY <1>2, <1>3, <1>5, <1>7
  <2>2. Clear(x, c)'
    BY <1>2, <1>3, <1>6, <1>7 DEF Clear
  <2>3. QED
    BY <2>1, <2>2
<1>8. VolumesOfToday'
  <2>1. ASSUME NEW c \in Contracts
        PROVE  /\ burst'[c].upTo <= volume'[c]
               /\ burst'[c].upTo # 0 => burst'[c].size > 0
    BY <1>2, <1>3, <1>5, <1>6 DEF BurstInv, VolumesOfToday
  <2>2. ASSUME NEW c \in Contracts
        PROVE  Clear(0, c)' /\ checked'[c] <= volume'[c] /\ Clear(checked[c], c)'
    <3>1. /\ Clear(0, c) /\ 0 <= volume[c]
          /\ checked[c] <= volume[c] /\ Clear(checked[c], c)
      BY <1>3 DEF BurstInv, VolumesOfToday
    <3>2. Clear(0, c)'
      BY <1>7, <3>1
    <3>3. ASSUME NEW x \in Nat, x = checked[c]
          PROVE  x <= volume'[c] /\ Clear(x, c)'
      BY <1>7, <3>1, <3>3
    <3>4. checked'[c] = checked[c] /\ checked[c] \in Nat
      BY <1>1, <1>3
    <3>5. QED
      BY <3>2, <3>3, <3>4 DEF Clear
  <2>3. ASSUME NEW c \in Contracts
        PROVE  Worth(price[c], c)'
    <3>1. Worth(price[c], c)
      BY DEF BurstInv, VolumesOfToday
    <3>2. QED
      BY <1>5, <1>6, <3>1 DEF Worth
  <2>4. QED
    BY <2>1, <2>2, <2>3 DEF VolumesOfToday, Clear, Worth
<1>9. RowsInHand'
  <2>1. ASSUME NEW i \in DOMAIN batch, feed = "polygon", batch[i].day = day
        PROVE  LET row == batch[i] IN
               /\ row.volume <= volume'[row.contract]
               /\ Clear(row.volume, row.contract)'
               /\ burst'[row.contract].upTo <= row.volume =>
                    (burst'[row.contract].kept =>
                       burst'[row.contract].size * row.price >= MinPremium)
    <3> DEFINE c == batch[i].contract
               v == batch[i].volume
    <3>1. /\ c \in Contracts /\ v \in Nat /\ v <= volume[c] /\ Clear(v, c)
          /\ burst[c].upTo <= v => Worth(batch[i].price, c)
          /\ batch'[i] = batch[i]
      BY <1>1, <2>1, RowInHand
    <3>2. v <= volume'[c] /\ Clear(v, c)'
      BY <1>1, <1>7, <3>1 DEF Clear
    <3>3. burst'[c].upTo <= v =>
            (burst'[c].kept => burst'[c].size * batch[i].price >= MinPremium)
      BY <1>2, <1>3, <1>6, <3>1 DEF Worth
    <3>4. QED
      BY <3>1, <3>2, <3>3
  <2>2. QED
    BY <1>1, <2>1 DEF BurstInv, RowsInHand, Clear, Worth
<1>10. MarksOfToday'
  BY <1>1 DEF BurstInv, MarksOfToday, Unusual
<1>11. BurstsAreReported'
  <2>1. ASSUME NEW c \in Contracts \ BrokenRows, Due(c)', burst'[c].kept,
               carried'[c] + burst'[c].size <= burst'[c].upTo
        PROVE  Reported(c)'
    <3>1. burst'[c].upTo = burst[c].upTo /\ burst'[c].size = burst[c].size /\ burst[c].kept
      <4>1. CASE burst'[c].upTo = volume[c] + n
        <5>1. checked[c] <= volume[c] /\ checked[c] \in Nat /\ volume[c] \in Nat
          BY <1>3 DEF BurstInv, VolumesOfToday
        <5>2. ~ (checked'[c] >= burst'[c].upTo)
          BY <1>1, <1>2, <4>1, <5>1
        <5>3. QED
          BY <2>1, <5>2 DEF Due
      <4>2. QED
        BY <1>6, <2>1, <4>1
    <3>2. Due(c) /\ carried[c] + burst[c].size <= burst[c].upTo
      BY <1>1, <2>1, <3>1 DEF Due, Unusual
    <3>3. Reported(c)
      BY <2>1, <3>1, <3>2 DEF BurstInv, BurstsAreReported
    <3>4. QED
      BY <1>1, <3>1, <3>3, ReportsStay
  <2>2. QED
    BY <2>1 DEF BurstsAreReported
<1>12. QED
  BY <1>8, <1>9, <1>10, <1>11 DEF BurstInv

\* On a new day nothing was traded or looked at; the rows and the marks are older.
LEMMA NewDayKeepsBursts == BurstInv /\ ReportInv' /\ NewDay => BurstInv'
<1> SUFFICES ASSUME BurstInv, ReportInv', NewDay
             PROVE  BurstInv'
  OBVIOUS
<1>1. /\ day' = day + 1 /\ volume' = NoVolume /\ burst' = [k \in Contracts |-> NoBurst]
      /\ checked' = NoVolume /\ carried' = seenVol
      /\ UNCHANGED <<price, feed, seenVol, batch>>
      /\ day \in Nat
  BY IngestAssumption DEF NewDay, runVars, markVars, BurstInv, ReportInv, TypeOK
<1>2. \A k \in Contracts :
        /\ burst'[k].upTo = 0 /\ burst'[k].size = 0 /\ burst'[k].kept = FALSE
        /\ volume'[k] = 0 /\ checked'[k] = 0
        /\ seenVol'[k] = carried'[k] /\ carried'[k] \in Nat
  BY <1>1, NoVolumeIsNone, VolumesAreNumbers DEF NoBurst, BurstInv
<1>3. VolumesOfToday' /\ MarksOfToday'
  BY <1>2 DEF VolumesOfToday, MarksOfToday, Clear, Worth
<1>4. RowsInHand'
  <2>1. ASSUME NEW i \in DOMAIN batch, feed = "polygon"
        PROVE  /\ batch[i].day <= day' /\ batch[i].day # day'
               /\ \A j \in DOMAIN batch :
                    /\ batch[j].day = batch[i].day
                    /\ batch[j].contract = batch[i].contract => batch[j] = batch[i]
    <3>1. batch[i].day \in Nat /\ batch[i].day <= day
      BY <2>1, RowInHand
    <3>2. batch[i].day <= day' /\ batch[i].day # day'
      BY <1>1, <3>1
    <3>3. QED
      BY <2>1, <3>2, RowInHand
  <2>2. QED
    BY <1>1, <2>1 DEF RowsInHand
<1>5. BurstsAreReported'
  BY <1>2 DEF BurstsAreReported, Due
<1>6. QED
  BY <1>3, <1>4, <1>5 DEF BurstInv

\* A process that is down, or has just started, has looked at nothing.
LEMMA RestartKeepsBursts == BurstInv /\ ReportInv' /\ (Start \/ Crash) => BurstInv'
<1> SUFFICES ASSUME BurstInv, ReportInv', Start \/ Crash
             PROVE  BurstInv'
  OBVIOUS
<1>1. /\ seenVol' = NoVolume /\ checked' = NoVolume /\ batch' = <<>>
      /\ UNCHANGED <<day, volume, price, burst>>
  BY DEF Start, Crash, BurstInv, ReportInv, InHand, vendorVars, runVars, markVars
<1>2. \A c \in Contracts :
        /\ checked'[c] = 0 /\ volume[c] \in Nat
        /\ burst[c].upTo \in Nat /\ burst[c].upTo <= volume[c] /\ Clear(0, c)
        /\ burst[c].upTo # 0 => burst[c].size > 0
        /\ Worth(price[c], c)
  BY <1>1, NoVolumeIsNone, VolumesAreNumbers DEF BurstInv, VolumesOfToday
<1>3. VolumesOfToday'
  BY <1>1, <1>2 DEF VolumesOfToday, Clear, Worth
<1>4. RowsInHand'
  BY <1>1, EmptyBatch DEF RowsInHand
<1>5. MarksOfToday'
  <2>1. CASE Start
    BY <2>1 DEF Start, BurstInv, MarksOfToday, Unusual, markVars
  <2>2. CASE Crash
    BY <2>2, NoVolumeIsNone DEF Crash, MarksOfToday
  <2>3. QED
    BY <2>1, <2>2
<1>6. BurstsAreReported'
  <2>1. \A c \in Contracts : burst'[c].upTo # 0 => ~ (checked'[c] >= burst'[c].upTo)
    BY <1>1, <1>2
  <2>2. QED
    BY <2>1 DEF BurstsAreReported, Due
<1>7. QED
  BY <1>3, <1>4, <1>5, <1>6 DEF BurstInv

\* A poll sees the volumes and the prices of now, and every big trade that was made.
LEMMA PollKeepsBursts == BurstInv /\ ReportInv' /\ PollContracts => BurstInv'
<1> SUFFICES ASSUME BurstInv, ReportInv', PollContracts
             PROVE  BurstInv'
  OBVIOUS
<1>1. /\ batch' \in Snapshots
      /\ UNCHANGED <<day, volume, price, burst, feed, seenVol, stream, checked, carried>>
  BY DEF PollContracts, vendorVars, runVars, markVars
<1>2. \A i \in DOMAIN batch' :
        LET row == batch'[i] IN
        /\ row \in SnapshotRows /\ row.day = day /\ row.contract \in Contracts
        /\ row.volume = volume[row.contract] /\ row.price = price[row.contract]
  BY <1>1, SnapshotsAreRows DEF BurstInv
<1>3. RowsInHand'
  <2>1. ASSUME NEW i \in DOMAIN batch'
        PROVE  LET row == batch'[i] IN
               /\ row.day = day /\ day <= day
               /\ checked[row.contract] <= row.volume
               /\ row.volume <= volume[row.contract]
               /\ Clear(row.volume, row.contract)
               /\ Worth(row.price, row.contract)
    <3> DEFINE k == batch'[i].contract
    <3>1. /\ batch'[i].day = day /\ k \in Contracts /\ batch'[i].volume = volume[k]
          /\ batch'[i].price = price[k]
      BY <1>2
    <3>2. /\ volume[k] \in Nat /\ burst[k].upTo \in Nat /\ day \in Nat
          /\ checked[k] <= volume[k] /\ burst[k].upTo <= volume[k]
          /\ Worth(price[k], k)
      BY <3>1, VolumesAreNumbers DEF BurstInv, VolumesOfToday
    <3>3. volume[k] <= volume[k] /\ Clear(volume[k], k) /\ day <= day
      BY <3>2 DEF Clear
    <3>4. QED
      BY <3>1, <3>2, <3>3
  <2>2. ASSUME NEW i \in DOMAIN batch', NEW j \in DOMAIN batch'
        PROVE  /\ batch'[j].day = batch'[i].day
               /\ batch'[j].contract = batch'[i].contract => batch'[j] = batch'[i]
    BY <1>2, <2>2 DEF SnapshotRows
  <2>3. QED
    BY <1>1, <2>1, <2>2 DEF RowsInHand, Clear, Worth
<1>4. VolumesOfToday' /\ MarksOfToday'
  BY <1>1 DEF BurstInv, VolumesOfToday, MarksOfToday, Clear, Worth, Unusual
<1>5. BurstsAreReported'
  BY <1>1 DEF BurstInv, BurstsAreReported, Due, Reported, Unusual
<1>6. QED
  BY <1>3, <1>4, <1>5 DEF BurstInv

\* What a row of today leaves of the history: its volume is what was looked at last,
\* unless it ended the poll.  An older row leaves it alone.
LEMMA LookedAt ==
  ASSUME BurstInv, ConvertContract
  PROVE  LET row == Head(batch) IN
         /\ row = batch[1] /\ 1 \in DOMAIN batch
         /\ row.contract \in Contracts /\ row.volume \in Nat /\ row.price \in Nat
         /\ \A i \in DOMAIN batch' : \E j \in DOMAIN batch : batch'[i] = batch[j]
         /\ \A k \in Contracts : k # row.contract => checked'[k] = checked[k]
         /\ checked'[row.contract] \in {checked[row.contract], row.volume}
         /\ row.day # day => checked' = checked /\ checked = NoVolume /\ carried' = seenVol'
         /\ row.day = day =>
              /\ carried' = carried
              /\ row.contract \notin BrokenRows => checked'[row.contract] = row.volume
<1> DEFINE row == Head(batch)
<1>1. /\ batch \in Seq(SnapshotRows) /\ row = batch[1] /\ 1 \in DOMAIN batch
      /\ \A i \in DOMAIN batch' : \E j \in DOMAIN batch : batch'[i] = batch[j]
      /\ checked' = IF (Fresh(row) /\ BigEnough(row) /\ row.contract \in BrokenRows)
                         \/ row.day # day THEN checked
                    ELSE [checked EXCEPT ![row.contract] = row.volume]
      /\ carried' = IF row.day # day THEN seenVol' ELSE carried
      /\ feed = "polygon"
  BY ConvertedRow DEF BurstInv, ConvertContract
<1>2. /\ row.contract \in Contracts /\ row.volume \in Nat /\ row.price \in Nat
      /\ row.day # day => checked = NoVolume
  BY <1>1, RowInHand
<1>3. checked \in [Contracts -> Nat]
  BY DEF BurstInv, ReportInv, TypeOK
<1>4. /\ \A k \in Contracts : k # row.contract => checked'[k] = checked[k]
      /\ checked'[row.contract] \in {checked[row.contract], row.volume}
      /\ row.day # day => checked' = checked
      /\ (row.day = day /\ row.contract \notin BrokenRows) =>
           checked'[row.contract] = row.volume
  BY <1>1, <1>2, <1>3
<1>5. QED
  BY <1>1, <1>2, <1>4

\* A row of today takes its mark along, and a big trade that it covers is in its event
\* unless it was in one before.
LEMMA ConvertKeepsBursts == BurstInv /\ ReportInv' /\ ConvertContract => BurstInv'
<1> SUFFICES ASSUME BurstInv, ReportInv', ConvertContract
             PROVE  BurstInv'
  OBVIOUS
<1> DEFINE row == Head(batch)
           c == row.contract
           v == row.volume
<1>1. UNCHANGED <<day, volume, price, burst, feed>> /\ feed = "polygon"
  BY ConvertedRow DEF BurstInv, ConvertContract, vendorVars, runVars
<1>2. /\ IF Fresh(row) THEN seenVol'[c] = v ELSE UNCHANGED seenVol
      /\ \A k \in Contracts : k # c => seenVol'[k] = seenVol[k]
      /\ IF Fresh(row) /\ BigEnough(row) /\ c \notin BrokenRows
         THEN stream' = Append(stream, Burst(row)) ELSE stream' = stream
      /\ Burst(row) \in Events
  BY ConvertedRow DEF BurstInv
<1>3. stream' = Append(stream, Burst(row)) =>
        Len(stream) + 1 \in DOMAIN stream' /\ stream'[Len(stream) + 1] = Burst(row)
  <2>1. stream \in Seq(Events)
    BY DEF BurstInv, ReportInv, MarksCover
  <2>2. QED
    BY <1>2, <2>1, AppendOne
<1>4. /\ row = batch[1] /\ 1 \in DOMAIN batch
      /\ c \in Contracts /\ v \in Nat /\ row.price \in Nat
      /\ \A i \in DOMAIN batch' : \E j \in DOMAIN batch : batch'[i] = batch[j]
      /\ \A k \in Contracts : k # c => checked'[k] = checked[k]
      /\ checked'[c] \in {checked[c], v}
      /\ row.day # day => checked' = checked /\ checked = NoVolume /\ carried' = seenVol'
      /\ row.day = day => carried' = carried /\ (c \notin BrokenRows => checked'[c] = v)
  BY LookedAt
<1>5. /\ row.day = day =>
           /\ checked[c] <= v /\ v <= volume[c] /\ Clear(v, c)
           /\ burst[c].upTo <= v => Worth(row.price, c)
      /\ \A j \in DOMAIN batch :
           batch[j].day = row.day /\ (batch[j].contract = c => batch[j] = row)
  BY <1>1, <1>4, RowInHand
<1>6. \A k \in Contracts :
        /\ volume[k] \in Nat /\ checked[k] \in Nat /\ seenVol[k] \in Nat /\ carried[k] \in Nat
        /\ burst[k].upTo \in Nat /\ burst[k].size \in Nat /\ MinPremium \in Nat
  BY VolumesAreNumbers DEF BurstInv
<1> HIDE DEF row
<1>7. VolumesOfToday'
  <2>1. ASSUME NEW k \in Contracts
        PROVE  checked'[k] <= volume[k] /\ Clear(checked'[k], k)
    <3>1. checked[k] <= volume[k] /\ Clear(checked[k], k)
      BY DEF BurstInv, VolumesOfToday
    <3>2. CASE k # c \/ row.day # day
      BY <1>4, <3>1, <3>2
    <3>3. CASE k = c /\ row.day = day
      BY <1>4, <1>5, <3>1, <3>3
    <3>4. QED
      BY <3>2, <3>3
  <2>2. QED
    BY <1>1, <2>1 DEF BurstInv, VolumesOfToday, Clear, Worth
<1>8. RowsInHand'
  <2>1. ASSUME NEW i \in DOMAIN batch'
        PROVE  LET other == batch'[i] IN
               /\ other.day <= day
               /\ other.day # day => checked' = NoVolume
               /\ other.day = day =>
                    /\ checked'[other.contract] <= other.volume
                    /\ other.volume <= volume[other.contract]
                    /\ Clear(other.volume, other.contract)
                    /\ burst[other.contract].upTo <= other.volume =>
                         Worth(other.price, other.contract)
               /\ \A j \in DOMAIN batch' :
                    /\ batch'[j].day = other.day
                    /\ batch'[j].contract = other.contract => batch'[j] = other
    <3>1. PICK j \in DOMAIN batch : batch'[i] = batch[j]
      BY <1>4
    <3> DEFINE other == batch'[i]
    <3>2. /\ other.contract \in Contracts /\ other.volume \in Nat
          /\ other.day <= day
          /\ other.day = day =>
               /\ checked[other.contract] <= other.volume
               /\ other.volume <= volume[other.contract]
               /\ Clear(other.volume, other.contract)
               /\ burst[other.contract].upTo <= other.volume =>
                    Worth(other.price, other.contract)
          /\ \A l \in DOMAIN batch :
               /\ batch[l].day = other.day
               /\ batch[l].contract = other.contract => batch[l] = other
      BY <1>1, <3>1, RowInHand
    <3>3. other.day = row.day /\ (other.contract = c => other = row)
      BY <1>5, <3>1
    <3> HIDE DEF other
    <3>4. other.day = day => checked'[other.contract] <= other.volume
      <4>1. CASE other.contract = c
        <5>1. other = row /\ v <= v
          BY <1>4, <3>3, <4>1
        <5>2. QED
          BY <1>4, <1>5, <3>3, <5>1
      <4>2. CASE other.contract # c
        BY <1>4, <3>2, <4>2
      <4>3. QED
        BY <4>1, <4>2
    <3>5. other.day # day => checked' = NoVolume
      BY <1>4, <3>3
    <3>6. ASSUME NEW l \in DOMAIN batch'
          PROVE  /\ batch'[l].day = other.day
                 /\ batch'[l].contract = other.contract => batch'[l] = other
      <4>1. PICK m \in DOMAIN batch : batch'[l] = batch[m]
        BY <1>4
      <4>2. QED
        BY <3>2, <4>1
    <3>7. QED
      BY <3>2, <3>4, <3>5, <3>6 DEF other
  <2>2. QED
    BY <1>1, <2>1 DEF RowsInHand, Clear, Worth
<1>9. ASSUME NEW k \in Contracts
      PROVE  Unusual([contract |-> k, volume |-> checked[k]])
               <=> checked[k] >= MinVolOi * OpenInterest[k]
  BY <1>6, Threshold
\* The mark before the row ...
<1>10. ASSUME NEW k \in Contracts \ BrokenRows
       PROVE  seenVol[k] = IF checked[k] > carried[k] /\ checked[k] >= MinVolOi * OpenInterest[k]
                           THEN checked[k] ELSE carried[k]
  BY <1>9 DEF BurstInv, MarksOfToday
\* ... and what a row of today makes of it.
<1>11. ASSUME row.day = day, c \notin BrokenRows
       PROVE  /\ seenVol'[c] = IF v > carried[c] /\ v >= MinVolOi * OpenInterest[c]
                               THEN v ELSE carried[c]
              /\ seenVol[c] < v /\ v >= MinVolOi * OpenInterest[c] => Fresh(row)
  <2> DEFINE t == MinVolOi * OpenInterest[c]
  <2>1. t \in Nat /\ (Unusual(row) <=> v >= t)
    <3>1. MinVolOi \in Nat /\ OpenInterest[c] \in Nat
      BY <1>4, IngestAssumption
    <3>2. QED
      BY <3>1 DEF Unusual
  <2>2. seenVol[c] = IF checked[c] > carried[c] /\ checked[c] >= t
                     THEN checked[c] ELSE carried[c]
    BY <1>4, <1>10, <1>11
  <2> HIDE DEF t
  <2>3. /\ v \in Nat /\ checked[c] \in Nat /\ seenVol[c] \in Nat /\ carried[c] \in Nat
        /\ checked[c] <= v
    BY <1>4, <1>5, <1>6, <1>11
  <2>4. Fresh(row) <=> v > 0 /\ v >= t /\ v > seenVol[c]
    BY <2>1 DEF Fresh
  <2>5. seenVol[c] < v /\ v >= t => Fresh(row)
    BY <2>3, <2>4
  <2>6. CASE Fresh(row)
    <3>1. seenVol'[c] = v /\ v > carried[c] /\ v >= t
      BY <1>2, <2>2, <2>3, <2>4, <2>6
    <3>2. QED
      BY <2>5, <3>1 DEF t
  <2>7. CASE ~Fresh(row)
    <3>1. seenVol'[c] = seenVol[c]
      BY <1>2, <2>7
    <3>2. seenVol[c] = IF v > carried[c] /\ v >= t THEN v ELSE carried[c]
      BY <2>1, <2>2, <2>3, <2>4, <2>7
    <3>3. QED
      BY <2>5, <3>1, <3>2 DEF t
  <2>8. QED
    BY <2>6, <2>7
<1>12. MarksOfToday'
  <2>1. CASE row.day # day
    <3>1. \A k \in Contracts : checked'[k] = 0 /\ carried'[k] = seenVol'[k] /\ carried'[k] \in Nat
      BY <1>4, <2>1, NoVolumeIsNone, VolumesAreNumbers, ConvertedRow DEF BurstInv
    <3>2. QED
      BY <3>1 DEF MarksOfToday
  <2>2. CASE row.day = day
    <3>1. ASSUME NEW k \in Contracts \ BrokenRows
          PROVE  seenVol'[k] =
                   IF checked'[k] > carried'[k]
                        /\ Unusual([contract |-> k, volume |-> checked'[k]])
                   THEN checked'[k] ELSE carried'[k]
      <4>1. CASE k = c
        <5>1. Unusual([contract |-> c, volume |-> v]) <=> v >= MinVolOi * OpenInterest[c]
          BY <1>4, Threshold
        <5>2. QED
          BY <1>4, <1>11, <2>2, <3>1, <4>1, <5>1
      <4>2. CASE k # c
        BY <1>2, <1>4, <2>2, <3>1, <4>2 DEF BurstInv, MarksOfToday
      <4>3. QED
        BY <4>1, <4>2
    <3>2. QED
      BY <3>1 DEF MarksOfToday, Unusual
  <2>3. QED
    BY <2>1, <2>2
<1>13. ASSUME NEW k \in Contracts \ BrokenRows, Due(k)', burst'[k].kept,
              carried'[k] + burst'[k].size <= burst'[k].upTo
       PROVE  Reported(k)'
  <2>1. row.day = day
    <3>1. CASE row.day # day
      <4>1. checked'[k] = 0 /\ burst[k].upTo \in Nat
        BY <1>4, <1>6, <3>1, NoVolumeIsNone
      <4>2. QED
        BY <1>1, <1>13, <4>1 DEF Due
    <3>2. QED
      BY <3>1
  <2>2. /\ carried[k] + burst[k].size <= burst[k].upTo /\ burst[k].kept
        /\ burst[k].upTo # 0 /\ burst[k].size > 0
        /\ checked'[k] >= burst[k].upTo
        /\ Unusual([contract |-> k, volume |-> checked'[k]])
    BY <1>1, <1>4, <1>13, <2>1 DEF Due, BurstInv, VolumesOfToday, Unusual
  <2>3. ASSUME Due(k)
        PROVE  Reported(k)'
    <3>1. Reported(k)
      BY <2>2, <2>3 DEF BurstInv, BurstsAreReported
    <3>2. QED
      BY <1>1, <1>2, <3>1, ReportsStay
  <2>4. CASE k # c
    <3>1. Due(k)
      BY <1>4, <2>2, <2>4 DEF Due
    <3>2. QED
      BY <2>3, <3>1
  <2>5. CASE k = c
    <3> DEFINE t == MinVolOi * OpenInterest[c]
               b == burst[c]
    <3>1. /\ v >= b.upTo /\ v >= t /\ t \in Nat
          /\ seenVol[c] = IF checked[c] > carried[c] /\ checked[c] >= t
                          THEN checked[c] ELSE carried[c]
          /\ Clear(checked[c], c)
          /\ b.kept /\ b.size > 0 /\ b.upTo # 0 /\ carried[c] + b.size <= b.upTo
      BY <1>4, <1>10, <2>1, <2>2, <2>5, Threshold DEF BurstInv, VolumesOfToday
    <3>2. /\ v \in Nat /\ b.upTo \in Nat /\ b.size \in Nat /\ seenVol[c] \in Nat
          /\ checked[c] \in Nat /\ carried[c] \in Nat
      BY <1>4, <1>6
    <3>3. Unusual([contract |-> c, volume |-> checked[c]]) <=> checked[c] >= t
      BY <1>4, <1>9
    <3>4. checked[c] < b.upTo => checked[c] + b.size <= b.upTo
      BY <3>1 DEF Clear
    <3>5. b.size * row.price >= MinPremium
      <4>1. Worth(row.price, c)
        BY <1>5, <2>1, <3>1, <3>2
      <4>2. QED
        BY <3>1, <4>1 DEF Worth
    <3> HIDE DEF t, b
    <3>6. CASE seenVol[c] < b.upTo
      <4>1. seenVol[c] + b.size <= b.upTo
        BY <3>1, <3>2, <3>4, <3>6
      <4>2. seenVol[c] < v /\ v - seenVol[c] \in Nat /\ b.size <= v - seenVol[c]
        BY <3>1, <3>2, <4>1
      <4>3. BigEnough(row)
        <5>1. /\ b.size * row.price \in Nat /\ (v - seenVol[c]) * row.price \in Nat
              /\ b.size * row.price <= (v - seenVol[c]) * row.price
          BY <1>4, <3>2, <4>2, MoreCostsMore
        <5>2. MinPremium \in Nat
          BY <1>4, <1>6
        <5>3. (v - seenVol[c]) * row.price >= MinPremium
          BY <3>5, <5>1, <5>2
        <5>4. QED
          BY <5>3 DEF BigEnough
      <4>4. Fresh(row)
        BY <1>11, <2>1, <2>5, <3>1, <4>2 DEF t
      <4>5. stream' = Append(stream, Burst(row))
        BY <1>2, <2>5, <4>3, <4>4
      <4>6. /\ Burst(row).feed = "polygon" /\ Burst(row).contract = c
            /\ Burst(row).day = day /\ Burst(row).from = seenVol[c] /\ Burst(row).upTo = v
        BY <2>1 DEF Burst
      <4>7. b.upTo <= v
        BY <3>1, <3>2
      <4>8. QED
        BY <1>1, <1>3, <2>5, <3>6, <4>5, <4>6, <4>7 DEF Reported, b
    <3>7. CASE ~ (seenVol[c] < b.upTo)
      <4>1. checked[c] >= b.upTo /\ checked[c] >= t
        BY <3>1, <3>2, <3>7
      <4>2. Due(k)
        BY <2>5, <3>1, <3>3, <4>1 DEF Due, b
      <4>3. QED
        BY <2>3, <4>2
    <3>8. QED
      BY <3>6, <3>7
  <2>6. QED
    BY <2>4, <2>5
<1>14. QED
  BY <1>7, <1>8, <1>12, <1>13 DEF BurstInv, BurstsAreReported

\* Every step keeps the invariant.
LEMMA BurstNext == BurstInv /\ [Next]_vars => BurstInv'
<1> SUFFICES ASSUME BurstInv, [Next]_vars
             PROVE  BurstInv'
  OBVIOUS
<1>1. ReportInv'
  BY ReportNext DEF BurstInv
<1>2. CASE \E a \in Alerts : List(a)
  BY <1>1, <1>2, QuietKeepsBursts DEF List, runVars, markVars
<1>3. CASE Synthesise \/ FetchAlerts \/ Refused \/ UNCHANGED vars
  <2>1. MadeUp \in Events
    BY DEF Events
  <2>2. /\ UNCHANGED <<day, volume, price, burst, checked, carried, seenVol>>
        /\ feed' = "polygon" => feed = "polygon" /\ UNCHANGED batch
        /\ stream' = stream \/ stream' = Append(stream, MadeUp)
    BY <1>3 DEF Synthesise, FetchAlerts, Refused, vars, vendorVars, runVars, markVars
  <2>3. QED
    BY <1>1, <2>1, <2>2, QuietKeepsBursts
<1>4. CASE NormaliseAlert
  <2> DEFINE e == [feed |-> "unusual_whales", alert |-> Head(batch), boot |-> boots]
  <2>1. /\ UNCHANGED <<day, volume, price, burst, checked, carried, seenVol, feed>>
        /\ feed = "unusual_whales"
        /\ stream' = stream \/ stream' = Append(stream, e)
        /\ batch \in Seq(Alerts) /\ batch # <<>> /\ boots \in 1..boots
    BY <1>4, IngestAssumption
       DEF NormaliseAlert, vendorVars, runVars, BurstInv, ReportInv, InHand, TypeOK
  <2>2. e \in Events
    <3>1. Head(batch) \in Alerts
      BY <2>1
    <3>2. QED
      BY <2>1, <3>1 DEF Events
  <2> HIDE DEF e
  <2>3. QED
    BY <1>1, <2>1, <2>2, QuietKeepsBursts
<1>5. QED
  BY <1>1, <1>2, <1>3, <1>4, TradeKeepsBursts, NewDayKeepsBursts, RestartKeepsBursts,
     PollKeepsBursts, ConvertKeepsBursts DEF Next, Vendors, Ingest

LEMMA BurstInvariant == Spec => []BurstInv
BY BurstInit, BurstNext, PTL DEF Spec

\* The process has reported the last big trade of the day of every unusual contract it
\* has looked at, unless the price fell before the poll or a mark of an earlier day was
\* above the volume the trade began at.  How the volume is cut into polls, what was
\* refused before and how often the process died makes no difference.
THEOREM NoBurstIsLost == Spec => []BurstsAreReported
<1>1. BurstInv => BurstsAreReported
  BY DEF BurstInv
<1>2. QED
  BY <1>1, BurstInvariant, PTL

-----------------------------------------------------------------------------
(* The rate limiter: arithmetic. *)

\* Dripping is additive.
LEMMA Drips ==
  ASSUME NEW a \in Int, NEW b \in Int
  PROVE  /\ Rate * a \in Int
         /\ Rate * (a + b) = Rate * a + Rate * b
         /\ a * Rate = Rate * a
         /\ a >= 0 => Rate * a >= 0
BY BucketAssumption

\* Before the last of the ticks for d, fewer than d grains have dripped in.
LEMMA BeforeTicksFor ==
  ASSUME NEW d \in Nat, NEW k \in Nat, k <= TicksFor(d) - 1
  PROVE  k * Rate < d
<1> DEFINE m == d + Rate - 1
           q == m \div Rate
<1>1. Rate \in Nat /\ Rate > 0 /\ m \in Nat
  BY BucketAssumption
<1>2. q \in Nat /\ Rate * q <= m
  BY <1>1
<1>3. k <= q - 1
  BY DEF TicksFor
<1> HIDE DEF q
<1>4. Rate * (q - 1) = Rate * q - Rate
  BY <1>1, <1>2
<1>5. Rate * k <= Rate * (q - 1)
  BY <1>1, <1>2, <1>3
<1>6. Rate * k <= d - 1
  BY <1>1, <1>2, <1>4, <1>5
<1>7. QED
  BY <1>1, <1>6

\* Sleeping takes a natural number of ticks.
LEMMA TicksForType ==
  ASSUME NEW d \in Nat
  PROVE  TicksFor(d) \in Nat
<1>1. Rate \in Nat /\ Rate > 0 /\ d + Rate - 1 \in Nat
  BY BucketAssumption
<1>2. QED
  BY <1>1 DEF TicksFor

\* A refill adds what dripped in, and never passes the capacity.
LEMMA RefilledBounds ==
  ASSUME BucketTypeOK
  PROVE  /\ Refilled \in 0..Capacity
         /\ Refilled <= tokens + Rate * (now - updated)
<1>1. /\ now \in Nat /\ updated \in Nat /\ updated <= now
      /\ tokens \in Nat /\ tokens <= Capacity /\ Capacity \in Nat
  BY BucketAssumption DEF BucketTypeOK
<1>2. now - updated \in Int /\ now - updated >= 0
  BY <1>1
<1> DEFINE drip == Rate * (now - updated)
<1>3. drip \in Int /\ drip >= 0 /\ (now - updated) * Rate = drip
  BY <1>2, Drips
<1>4. Refilled = Least(Capacity, tokens + drip)
  BY <1>3 DEF Refilled
<1> HIDE DEF drip
<1>5. QED
  BY <1>1, <1>3, <1>4 DEF Least, drip

-----------------------------------------------------------------------------
(* Types. *)

\* The invariant holds at the start and is kept by every step.
LEMMA TypeStep ==
  /\ BucketInit => BucketTypeOK
  /\ BucketTypeOK /\ [BucketNext]_bucketVars => BucketTypeOK'
<1>1. BucketInit => BucketTypeOK
  BY BucketAssumption DEF BucketInit, BucketTypeOK
<1>2. ASSUME BucketTypeOK, [BucketNext]_bucketVars
      PROVE  BucketTypeOK'
  <2>0. now \in Nat /\ MaxTime \in Nat
    BY <1>2, BucketAssumption DEF BucketTypeOK
  <2>1. CASE Tick
    BY <1>2, <2>0, <2>1 DEF BucketTypeOK, Tick
  <2>2. ASSUME NEW c \in Callers, Call(c)
        PROVE  BucketTypeOK'
    BY <1>2, <2>2 DEF BucketTypeOK, Call
  <2>3. ASSUME NEW c \in Callers, Take(c)
        PROVE  BucketTypeOK'
    <3>1. Refilled \in 0..Capacity /\ need[c] \in Nat
      BY <1>2, RefilledBounds, BucketAssumption DEF BucketTypeOK
    <3>2. tokens' \in 0..Capacity
      BY <2>3, <3>1, BucketAssumption DEF Take, Enough
    <3>3. spent' \in Nat
      BY <1>2, <2>3, <3>1 DEF BucketTypeOK, Take
    <3>4. QED
      BY <1>2, <2>0, <2>3, <3>2, <3>3 DEF BucketTypeOK, Take
  <2>4. ASSUME NEW c \in Callers, Sleep(c)
        PROVE  BucketTypeOK'
    <3>1. Refilled \in 0..Capacity /\ need[c] \in Nat /\ Capacity \in Nat
      BY <1>2, RefilledBounds, BucketAssumption DEF BucketTypeOK
    <3>2. need[c] - Refilled \in Nat
      BY <2>4, <3>1 DEF Sleep, Enough
    <3>3. now + Wait(need[c] - Refilled) \in Nat
      BY <2>0, <3>2, TicksForType DEF Wait
    <3>4. QED
      BY <1>2, <2>0, <2>4, <3>1, <3>3 DEF BucketTypeOK, Sleep
  <2>5. ASSUME NEW c \in Callers, Wake(c)
        PROVE  BucketTypeOK'
    BY <1>2, <2>5 DEF BucketTypeOK, Wake
  <2>6. CASE UNCHANGED bucketVars
    BY <1>2, <2>6 DEF BucketTypeOK, bucketVars
  <2>7. QED
    BY <1>2, <2>1, <2>2, <2>3, <2>4, <2>5, <2>6 DEF BucketNext
<1>3. QED
  BY <1>1, <1>2

\* The bucket is never overdrawn nor filled past its capacity, for any callers,
\* costs, rate and capacity.
THEOREM BucketTypeCorrect == BucketSpec => []BucketTypeOK
BY TypeStep, PTL DEF BucketSpec

-----------------------------------------------------------------------------
(* The window. *)

\* WindowInv holds at the start and is kept by every step.
LEMMA WindowStep ==
  /\ BucketInit => WindowInv
  /\ BucketTypeOK /\ WindowInv /\ [BucketNext]_bucketVars => WindowInv'
<1>1. ASSUME BucketInit
      PROVE  WindowInv
  <2>1. Rate * 0 = 0 /\ Capacity \in Nat /\ window \in Nat
    BY <1>1, BucketAssumption DEF BucketInit
  <2>2. updated >= window => Rate * (updated - window) = 0
    BY <1>1, <2>1 DEF BucketInit
  <2>3. QED
    BY <1>1, <2>1, <2>2 DEF BucketInit, WindowInv
<1>2. ASSUME BucketTypeOK, WindowInv, [BucketNext]_bucketVars
      PROVE  WindowInv'
  <2>1. /\ now \in Nat /\ updated \in Nat /\ window \in Nat /\ spent \in Nat
        /\ tokens \in Nat /\ Capacity \in Nat /\ updated <= now
        /\ tokens <= Capacity
    BY <1>2, BucketAssumption DEF BucketTypeOK
  \* What a refill at time now leaves of the bound on the window.
  <2>2. /\ now >= window => spent + Refilled <= Capacity + Rate * (now - window)
        /\ now < window => spent = 0
        /\ Refilled \in Nat
    <3>1. Refilled \in Nat /\ Refilled <= Capacity
          /\ Refilled <= tokens + Rate * (now - updated)
      BY <1>2, <2>1, RefilledBounds
    <3>2. CASE updated >= window
      <4>1. /\ updated - window \in Int /\ now - updated \in Int
            /\ now - window = (updated - window) + (now - updated)
        BY <2>1
      <4>2. /\ Rate * (now - window)
                 = Rate * (updated - window) + Rate * (now - updated)
            /\ Rate * (updated - window) \in Int
            /\ Rate * (now - updated) \in Int
        BY <4>1, Drips
      <4>3. spent + tokens <= Capacity + Rate * (updated - window)
        BY <1>2, <3>2 DEF WindowInv
      <4>4. QED
        BY <2>1, <3>1, <3>2, <4>2, <4>3
    <3>3. CASE updated < window
      <4>1. spent = 0
        BY <1>2, <3>3 DEF WindowInv
      <4>2. now >= window => Rate * (now - window) \in Int /\ Rate * (now - window) >= 0
        BY <2>1, Drips
      <4>3. QED
        BY <2>1, <3>1, <4>1, <4>2
    <3>4. QED
      BY <2>1, <3>2, <3>3
  <2>3. ASSUME NEW c \in Callers, Take(c)
        PROVE  WindowInv'
    <3>1. /\ tokens' = Refilled - need[c]
          /\ updated' = now /\ window' = window
          /\ spent' = IF now >= window THEN spent + need[c] ELSE spent
      BY <2>3 DEF Take
    <3>2. need[c] \in Nat
      BY <1>2, BucketAssumption DEF BucketTypeOK
    <3>3. now >= window => Rate * (now - window) \in Int
      BY <2>1, Drips
    <3>4. QED
      BY <2>1, <2>2, <3>1, <3>2, <3>3 DEF WindowInv
  <2>4. ASSUME NEW c \in Callers, Sleep(c)
        PROVE  WindowInv'
    BY <2>1, <2>2, <2>4 DEF Sleep, WindowInv
  <2>5. CASE UNCHANGED <<tokens, updated, window, spent>>
    BY <1>2, <2>5 DEF WindowInv
  <2>6. QED
    BY <1>2, <2>3, <2>4, <2>5 DEF BucketNext, Tick, Call, Wake, bucketVars
<1>3. QED
  BY <1>1, <1>2

\* No window of time, wherever it starts and however long it lasts, gets more
\* than a full bucket and what drips in during it.
THEOREM WindowIsBounded == BucketSpec => []WindowBudget
<1>1. BucketTypeOK /\ WindowInv => WindowBudget
  <2> SUFFICES ASSUME BucketTypeOK, WindowInv
               PROVE  WindowBudget
    OBVIOUS
  <2>1. /\ now \in Nat /\ updated \in Nat /\ window \in Nat /\ spent \in Nat
        /\ tokens \in Nat /\ Capacity \in Nat /\ updated <= now
    BY BucketAssumption DEF BucketTypeOK
  <2>2. CASE updated >= window
    <3>1. /\ updated - window \in Int /\ now - updated \in Int /\ now - updated >= 0
          /\ now - window = (updated - window) + (now - updated)
      BY <2>1, <2>2
    <3>2. /\ Rate * (now - window)
               = Rate * (updated - window) + Rate * (now - updated)
          /\ Rate * (updated - window) \in Int
          /\ Rate * (now - updated) \in Int /\ Rate * (now - updated) >= 0
      BY <3>1, Drips
    <3>3. QED
      BY <2>1, <2>2, <3>2 DEF WindowInv, WindowBudget
  <2>3. CASE updated < window
    <3>1. now >= window => Rate * (now - window) \in Int /\ Rate * (now - window) >= 0
      BY <2>1, Drips
    <3>2. Rate * 0 = 0
      BY BucketAssumption
    <3>3. QED
      BY <2>1, <2>3, <3>1, <3>2 DEF WindowInv, WindowBudget
  <2>4. QED
    BY <2>1, <2>2, <2>3
<1>2. QED
  BY <1>1, TypeStep, WindowStep, PTL DEF BucketSpec

-----------------------------------------------------------------------------
(* Sleeping. *)

\* A later refill shows the same level at every later time, less what was taken.
LEMMA LevelAfterRefill ==
  ASSUME BucketTypeOK, NEW n \in Nat, NEW t \in Nat, t >= now,
         tokens' = Refilled - n, updated' = now
  PROVE  LevelAt(t)' <= LevelAt(t)
<1>1. /\ now \in Nat /\ updated \in Nat /\ updated <= now
      /\ tokens \in Nat /\ tokens <= Capacity /\ Capacity \in Nat
  BY BucketAssumption DEF BucketTypeOK
<1> DEFINE a == Rate * (now - updated)
           b == Rate * (t - now)
<1>2. /\ a \in Int /\ b \in Int /\ b >= 0
      /\ (t - updated) * Rate = a + b
      /\ (t - now) * Rate = b
      /\ (now - updated) * Rate = a
  <2>1. /\ now - updated \in Int /\ t - now \in Int /\ t - now >= 0
        /\ t - updated = (now - updated) + (t - now)
        /\ t - updated \in Int
    BY <1>1
  <2>2. Rate * (t - updated) = a + b
    BY <2>1, Drips
  <2>3. QED
    BY <2>1, <2>2, Drips
<1>3. /\ LevelAt(t) = Least(Capacity, tokens + (a + b))
      /\ LevelAt(t)' = Least(Capacity, (Refilled - n) + b)
      /\ Refilled = Least(Capacity, tokens + a)
  BY <1>2 DEF LevelAt, Refilled
<1> HIDE DEF a, b
<1>4. QED
  BY <1>1, <1>2, <1>3 DEF Least

\* SleepInv holds at the start and is kept by every step.
LEMMA SleepStep ==
  /\ BucketInit => SleepInv
  /\ BucketTypeOK /\ SleepInv /\ [BucketNext]_bucketVars => SleepInv'
<1>1. BucketInit => SleepInv
  BY DEF BucketInit, SleepInv
<1>2. ASSUME BucketTypeOK, SleepInv, [BucketNext]_bucketVars
      PROVE  SleepInv'
  <2>1. /\ now \in Nat /\ updated \in Nat /\ updated <= now
        /\ Capacity \in Nat
        /\ \A c \in Callers : need[c] \in Nat /\ wake[c] \in Nat
        /\ Refilled \in Nat
    <3>1. Refilled \in 0..Capacity
      BY <1>2, RefilledBounds
    <3>2. Refilled \in Nat
      BY <3>1
    <3>3. \A c \in Callers : need[c] \in Nat /\ wake[c] \in Nat
      BY <1>2, BucketAssumption DEF BucketTypeOK
    <3>4. QED
      BY <1>2, <3>2, <3>3, BucketAssumption DEF BucketTypeOK
  \* Those already asleep stay short of tokens when somebody refills.
  <2>2. ASSUME NEW n \in Nat, tokens' = Refilled - n, updated' = now,
               NEW d \in Callers, pc[d] = "asleep", need'[d] = need[d],
               wake'[d] = wake[d],
               NEW t \in now..(wake[d] - 1)
        PROVE  LevelAt(t)' < need'[d]
    <3>1. t \in Nat /\ t >= now /\ t \in updated..(wake[d] - 1)
      BY <2>1
    <3>2. LevelAt(t) < need[d]
      BY <1>2, <2>2, <3>1 DEF SleepInv
    <3>3. LevelAt(t)' <= LevelAt(t)
      BY <1>2, <2>2, <3>1, LevelAfterRefill
    <3>4. LevelAt(t) \in Int /\ LevelAt(t)' \in Int
      <4>1. t - updated \in Int /\ t - now \in Int
        BY <2>1, <3>1
      <4>2. (t - updated) * Rate \in Int /\ (t - now) * Rate \in Int
        BY <4>1, Drips
      <4>3. QED
        BY <1>2, <2>1, <2>2, <4>2, BucketAssumption DEF BucketTypeOK, LevelAt, Least
    <3>5. QED
      BY <2>1, <2>2, <3>2, <3>3, <3>4
  <2>3. ASSUME NEW c \in Callers, Take(c)
        PROVE  SleepInv'
    <3>1. /\ tokens' = Refilled - need[c] /\ need[c] \in Nat
          /\ updated' = now /\ need' = need /\ wake' = wake
          /\ pc' = [pc EXCEPT ![c] = "idle"]
      BY <2>1, <2>3 DEF Take
    <3>2. \A d \in Callers : pc'[d] = "asleep" => pc[d] = "asleep"
      BY <1>2, <3>1 DEF BucketTypeOK
    <3>3. QED
      BY <2>2, <3>1, <3>2 DEF SleepInv
  <2>4. ASSUME NEW c \in Callers, Sleep(c)
        PROVE  SleepInv'
    <3>1. /\ tokens' = Refilled /\ updated' = now /\ need' = need
          /\ wake' = [wake EXCEPT ![c] = now + Wait(need[c] - Refilled)]
          /\ pc' = [pc EXCEPT ![c] = "asleep"]
          /\ pc[c] = "ready"
          /\ Refilled < need[c]
      BY <2>1, <2>4 DEF Sleep, Enough
    <3>2. ASSUME NEW d \in Callers, d # c, pc'[d] = "asleep",
                 NEW t \in now..(wake'[d] - 1)
          PROVE  LevelAt(t)' < need'[d]
      <4>1. pc[d] = "asleep" /\ wake'[d] = wake[d] /\ need'[d] = need[d]
        BY <1>2, <3>1, <3>2 DEF BucketTypeOK
      <4>2. tokens' = Refilled - 0
        BY <2>1, <3>1
      <4>3. QED
        BY <2>2, <3>1, <3>2, <4>1, <4>2
    <3>3. ASSUME NEW t \in now..(wake'[c] - 1)
          PROVE  LevelAt(t)' < need'[c]
      <4>1. wake'[c] = now + TicksFor(need[c] - Refilled)
        BY <1>2, <3>1 DEF BucketTypeOK, Wait
      <4>2. need[c] - Refilled \in Nat
        BY <2>1, <3>1
      <4>3. /\ t - now \in Nat
            /\ t - now <= TicksFor(need[c] - Refilled) - 1
        BY <2>1, <4>1, <4>2, TicksForType
      <4>4. (t - now) * Rate < need[c] - Refilled
        BY <4>2, <4>3, BeforeTicksFor
      <4>5. (t - now) * Rate \in Int
        BY <4>3, Drips
      <4>6. LevelAt(t)' = Least(Capacity, Refilled + (t - now) * Rate)
        BY <3>1 DEF LevelAt
      <4>7. QED
        BY <2>1, <3>1, <4>4, <4>5, <4>6 DEF Least
    <3>4. QED
      BY <3>1, <3>2, <3>3 DEF SleepInv
  <2>5. CASE Tick
    BY <1>2, <2>5 DEF Tick, SleepInv, LevelAt
  <2>6. ASSUME NEW c \in Callers, Call(c) \/ Wake(c)
        PROVE  SleepInv'
    <3>1. \A d \in Callers : pc'[d] = "asleep" =>
            pc[d] = "asleep" /\ need'[d] = need[d] /\ wake' = wake
      BY <1>2, <2>6 DEF BucketTypeOK, Call, Wake
    <3>2. tokens' = tokens /\ updated' = updated
      BY <2>6 DEF Call, Wake
    <3>3. QED
      BY <1>2, <3>1, <3>2 DEF SleepInv, LevelAt
  <2>7. CASE UNCHANGED bucketVars
    BY <1>2, <2>7 DEF bucketVars, SleepInv, LevelAt
  <2>8. QED
    BY <1>2, <2>3, <2>4, <2>5, <2>6, <2>7 DEF BucketNext
<1>3. QED
  BY <1>1, <1>2

\* Nobody sleeps while the bucket holds enough for it, for any number of callers
\* that overtake each other.
THEOREM SleepIsNeeded == BucketSpec => []NoNeedlessSleep
<1>1. BucketTypeOK /\ SleepInv => NoNeedlessSleep
  <2> SUFFICES ASSUME BucketTypeOK, SleepInv,
                      NEW c \in Callers, pc[c] = "asleep", now < wake[c]
               PROVE  Refilled < need[c]
    BY DEF NoNeedlessSleep
  <2>1. now \in updated..(wake[c] - 1)
    BY DEF BucketTypeOK
  <2>2. LevelAt(now) < need[c]
    BY <2>1 DEF SleepInv
  <2>3. QED
    BY <2>2 DEF LevelAt, Refilled
<1>2. QED
  BY <1>1, TypeStep, SleepStep, PTL DEF BucketSpec
=============================================================================
