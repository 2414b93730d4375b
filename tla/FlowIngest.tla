----------------------------- MODULE FlowIngest -----------------------------
(***************************************************************************)
(* The ingest process (app/pipeline/ingest.py): it selects a provider by   *)
(* its settings and puts what the provider yields on the stream.           *)
(*   - polygon_flow.py polls the day volume of option contracts and yields *)
(*     what was traded since the poll before;                              *)
(*   - unusual_whales.py polls a list of alerts and yields the new ones;   *)
(*   - without a key, or when Polygon refuses it, prints are made up.      *)
(* A premium is contracts times price, without the hundred shares of a     *)
(* contract.  One underlying is polled; the process may die and start      *)
(* again, with nothing remembered.                                         *)
(***************************************************************************)
EXTENDS Naturals, Sequences, FiniteSets, SequencesExt

CONSTANTS
  Providers,      \* values of flow_provider
  KeySets,        \* sets of keys that may be configured
  Contracts,
  Paged,          \* those on the first polygon_flow_max_pages pages of the chain
  OpenInterest,   \* of each contract
  MinVolOi,       \* flow_min_vol_oi
  MinPremium,     \* flow_min_premium
  TopContracts,   \* polygon_flow_top_contracts
  BrokenRows,     \* contracts and alerts whose rows cannot be converted
  Sizes, Prices,  \* of the trades in each contract
  MaxVolume,      \* bound: volume of each contract in a day
  MaxDay,         \* bound: days
  MaxBoots,       \* bound: starts of the process
  Alerts,
  Window          \* how many alerts the vendor lists

ASSUME IngestAssumption ==
  /\ IsFiniteSet(Contracts) /\ Paged \subseteq Contracts
  /\ OpenInterest \in [Contracts -> Nat] /\ MaxVolume \in [Contracts -> Nat]
  /\ {Sizes, Prices} \subseteq [Contracts -> SUBSET (Nat \ {0})]
  /\ {MinVolOi, MinPremium, TopContracts, MaxDay, MaxBoots, Window} \subseteq Nat
  /\ MaxDay > 0

VARIABLES
  \* the vendors
  day,
  volume,    \* of each contract, today
  price,     \* of its last trade
  burst,     \* history: its last trade today that was worth MinPremium
  listed,    \* the alerts on the list, and those that were
  \* the process
  choice, keys, boots,
  feed,      \* where run_ingest() takes its events from
  seenVol,   \* _seen_vol of PolygonFlowProvider
  seenIds,   \* _seen of UnusualWhalesProvider
  batch,     \* rows of the last poll that are still to be converted
  stream,    \* what was enqueued
  checked,   \* history: the volume today up to which a contract was looked at
  carried    \* history: its mark that is of an earlier day

vendorVars == <<day, volume, price, burst, listed>>
runVars == <<choice, keys, boots>>
markVars == <<seenVol, seenIds>>
vars == <<vendorVars, runVars, feed, markVars, batch, stream, checked, carried>>

NoVolume == [k \in Contracts |-> 0]

\* A big trade: the volume after it, its size, and whether it has been worth MinPremium
\* at every price since.
Bursts == [upTo : Nat, size : Nat, kept : BOOLEAN]
NoBurst == [upTo |-> 0, size |-> 0, kept |-> FALSE]

\* _select_provider().
Selected ==
  IF choice = "polygon" \/ (choice = "auto" /\ "polygon" \in keys)
  THEN "polygon" ELSE "unusual_whales"

-----------------------------------------------------------------------------
(* The vendors.  What a provider that is not polled could see is left out. *)
(* A poll that fails or is rate-limited changes nothing: it is a stutter.   *)

\* The last big trade, when n contracts are traded at p.
BurstAfter(k, n, p) ==
  IF n * p >= MinPremium
  THEN [upTo |-> volume[k] + n, size |-> n, kept |-> TRUE]
  ELSE [burst[k] EXCEPT !.kept = @ /\ burst[k].size * p >= MinPremium]

Trade(k, n, p) ==
  /\ Selected = "polygon" /\ Selected \in keys
  /\ volume[k] + n <= MaxVolume[k]
  /\ volume' = [volume EXCEPT ![k] = @ + n]
  /\ price' = [price EXCEPT ![k] = p]
  /\ burst' = [burst EXCEPT ![k] = BurstAfter(k, n, p)]
  /\ UNCHANGED <<day, listed, runVars, feed, markVars, batch, stream, checked, carried>>

NewDay ==
  /\ Selected = "polygon" /\ Selected \in keys
  /\ day < MaxDay
  /\ day' = day + 1
  /\ volume' = NoVolume /\ burst' = [k \in Contracts |-> NoBurst]
  /\ checked' = NoVolume /\ carried' = seenVol
  /\ UNCHANGED <<price, listed, runVars, feed, markVars, batch, stream>>

List(a) ==
  /\ Selected = "unusual_whales" /\ Selected \in keys
  /\ a \notin Range(listed)
  /\ listed' = Append(listed, a)
  /\ UNCHANGED <<day, volume, price, burst, runVars, feed, markVars, batch, stream, checked,
                 carried>>

OnTheList == LET n == Len(listed) IN
  SubSeq(listed, IF n > Window THEN n - Window + 1 ELSE 1, n)
-----------------------------------------------------------------------------
(* run_ingest(). *)

\* Without its key the provider makes its prints up from the start.
Mutant_AnyKeyWillDo(configured) == IF configured # {} THEN Selected ELSE "synthetic"
FeedOf(configured) == IF Selected \in configured THEN Selected ELSE "synthetic"

Start ==
  /\ feed = "down" /\ boots < MaxBoots
  /\ boots' = boots + 1
  /\ feed' = FeedOf(keys)
  /\ UNCHANGED <<vendorVars, choice, keys, markVars, batch, stream, checked, carried>>

\* The process dies, and its marks with it.
Crash ==
  /\ feed # "down"
  /\ feed' = "down"
  /\ seenVol' = NoVolume /\ seenIds' = {} /\ batch' = <<>>
  /\ checked' = NoVolume /\ carried' = NoVolume
  /\ UNCHANGED <<vendorVars, runVars, stream>>

\* _synthetic_stream(): one print stands for all of them.
MadeUp == [feed |-> "synthetic"]

Synthesise ==
  /\ feed = "synthetic"
  /\ MadeUp \notin Range(stream)
  /\ stream' = Append(stream, MadeUp)
  /\ UNCHANGED <<vendorVars, runVars, feed, markVars, batch, checked, carried>>
-----------------------------------------------------------------------------
(* PolygonFlowProvider.stream(). *)

\* The contracts of the pages that are read, the busiest first; those of the same
\* volume come in any order.
Rankings ==
  {f \in [1..Cardinality(Paged) -> Paged] :
     /\ Range(f) = Paged
     /\ \A i, j \in DOMAIN f : i < j => volume[f[i]] >= volume[f[j]]}

\* How many of them are kept: all, if no limit is set.
Depth == IF TopContracts \in 1..Cardinality(Paged)
         THEN TopContracts ELSE Cardinality(Paged)

\* What _snapshot() may return.  (The day of a row is for the history: the code does
\* not look at it.)
Snapshots ==
  {[i \in 1..Depth |-> [contract |-> f[i], volume |-> volume[f[i]],
                        price |-> price[f[i]], day |-> day]] : f \in Rankings}

PollContracts ==
  /\ feed = "polygon" /\ batch = <<>>
  /\ batch' \in Snapshots
  /\ UNCHANGED <<vendorVars, runVars, feed, markVars, stream, checked, carried>>

\* 401 or 403: from here on the prints are made up.
Refused ==
  /\ feed = "polygon" /\ batch = <<>>
  /\ feed' = "synthetic"
  /\ UNCHANGED <<vendorVars, runVars, markVars, batch, stream, checked, carried>>

\* Without open interest the ratio is infinite.
Unusual(row) == row.volume >= MinVolOi * OpenInterest[row.contract]

Fresh(row) == row.volume > 0 /\ Unusual(row) /\ row.volume > seenVol[row.contract]

\* The mark is set as soon as the row is fresh, before the premium is looked at.
Mutant_MarkedUnusualOrNot(row) ==
  [seenVol EXCEPT ![row.contract] = IF row.volume > @ THEN row.volume ELSE @]
SeenAfter(row) ==
  IF Fresh(row) THEN [seenVol EXCEPT ![row.contract] = row.volume] ELSE seenVol

\* The event of a fresh row: what was traded since the mark.
Mutant_WholeDay(row) ==
  [feed |-> "polygon", contract |-> row.contract, from |-> 0,
   upTo |-> row.volume, day |-> row.day, boot |-> boots]
Burst(row) ==
  [feed |-> "polygon", contract |-> row.contract, from |-> seenVol[row.contract],
   upTo |-> row.volume, day |-> row.day, boot |-> boots]

\* The premium is what was traded since the mark at the price of the row.
BigEnough(row) == (row.volume - seenVol[row.contract]) * row.price >= MinPremium

\* _to_event() of the next row.  A row that raises ends the poll.
ConvertContract ==
  /\ feed = "polygon" /\ batch # <<>>
  /\ LET row == Head(batch)
         wanted == Fresh(row) /\ BigEnough(row)
         raises == wanted /\ row.contract \in BrokenRows
     IN  /\ seenVol' = SeenAfter(row)
         /\ stream' = IF wanted /\ ~raises THEN Append(stream, Burst(row)) ELSE stream
         /\ batch' = IF raises THEN <<>> ELSE Tail(batch)
         /\ checked' = IF raises \/ row.day # day THEN checked
                       ELSE [checked EXCEPT ![row.contract] = row.volume]
         /\ carried' = IF row.day # day THEN SeenAfter(row) ELSE carried
  /\ UNCHANGED <<vendorVars, runVars, feed, seenIds>>
-----------------------------------------------------------------------------
(* UnusualWhalesProvider.stream(). *)

FetchAlerts ==
  /\ feed = "unusual_whales" /\ batch = <<>>
  /\ batch' = OnTheList
  /\ UNCHANGED <<vendorVars, runVars, feed, markVars, stream, checked, carried>>

\* An id is marked before its row is converted.
Mutant_MarkedWhenYielded(a) == IF a \in BrokenRows THEN seenIds ELSE seenIds \cup {a}
IdsAfter(a) == seenIds \cup {a}

NormaliseAlert ==
  /\ feed = "unusual_whales" /\ batch # <<>>
  /\ LET a == Head(batch)
         raises == a \notin seenIds /\ a \in BrokenRows
     IN  /\ seenIds' = IdsAfter(a)
         /\ batch' = IF raises THEN <<>> ELSE Tail(batch)
         /\ stream' = IF a \in seenIds \/ raises THEN stream
                      ELSE Append(stream, [feed |-> "unusual_whales", alert |-> a,
                                           boot |-> boots])
  /\ UNCHANGED <<vendorVars, runVars, feed, seenVol, checked, carried>>
-----------------------------------------------------------------------------
Init ==
  /\ day = 1 /\ volume = NoVolume /\ price = NoVolume /\ listed = <<>>
  /\ burst = [k \in Contracts |-> NoBurst]
  /\ choice \in Providers /\ keys \in KeySets
  /\ boots = 0 /\ feed = "down"
  /\ seenVol = NoVolume /\ seenIds = {} /\ batch = <<>>
  /\ stream = <<>> /\ checked = NoVolume /\ carried = NoVolume

Vendors ==
  \/ \E k \in Contracts : \E n \in Sizes[k], p \in Prices[k] : Trade(k, n, p)
  \/ NewDay
  \/ \E a \in Alerts : List(a)

Ingest == Synthesise \/ PollContracts \/ ConvertContract \/ FetchAlerts \/ NormaliseAlert

Next == Vendors \/ Start \/ Crash \/ Refused \/ Ingest

Spec == Init /\ [][Next]_vars

\* The process goes on polling while it runs.
FairSpec == Spec /\ WF_vars(Ingest)
-----------------------------------------------------------------------------
(* Properties. *)

Feeds == {"polygon", "unusual_whales", "synthetic"}

\* Every variable has its type; only a provider with its key is polled.
TypeOK ==
  /\ \A f \in {volume, seenVol, checked, carried} :
       f \in [Contracts -> Nat] /\ \A k \in Contracts : f[k] <= MaxVolume[k]
  /\ price \in [Contracts -> Nat] /\ burst \in [Contracts -> Bursts]
  /\ day \in 1..MaxDay /\ boots \in 0..MaxBoots
  /\ feed \in Feeds \cup {"down"}
  /\ feed \in {"polygon", "unusual_whales"} => feed \in keys
  /\ seenIds \subseteq Alerts /\ Range(listed) \subseteq Alerts
  /\ \A i \in DOMAIN stream : stream[i].feed \in Feeds

\* In one run of the process no traded contract is reported twice, and no alert:
\* what each event stands for begins where an earlier one ended.
ReportedOncePerRun ==
  \A i, j \in DOMAIN stream :
    (i < j /\ stream[i].feed = stream[j].feed /\ stream[i].feed # "synthetic") =>
      CASE stream[i].feed = "polygon" ->
             (stream[i].contract = stream[j].contract /\ stream[i].boot = stream[j].boot)
               => stream[j].from >= stream[i].upTo
        [] OTHER -> stream[i].boot = stream[j].boot => stream[i].alert # stream[j].alert

\* The last big trade of today has been looked at, in a contract that is unusual.
Due(k) ==
  /\ burst[k].upTo # 0 /\ checked[k] >= burst[k].upTo
  /\ Unusual([contract |-> k, volume |-> checked[k]])

\* It is in an event of today.
Reported(k) ==
  \E i \in DOMAIN stream :
    /\ stream[i].feed = "polygon" /\ stream[i].contract = k /\ stream[i].day = day
    /\ stream[i].from < burst[k].upTo /\ burst[k].upTo <= stream[i].upTo

\* Only two things hide a big trade that was looked at: a fall of the price before the
\* poll, and a mark of an earlier day that is above where the trade began.  However
\* the volume grows between polls, whatever was refused before and after any crash,
\* the others are reported.
BurstsAreReported ==
  \A k \in Contracts \ BrokenRows :
    (/\ Due(k) /\ burst[k].kept
     /\ carried[k] + burst[k].size <= burst[k].upTo) => Reported(k)

\* "emit a normalised FlowEvent per fresh burst of volume" (polygon_flow.py:7).  It
\* fails for both reasons (the second in run flow_next_day).
EveryBurstReported == \A k \in Contracts \ BrokenRows : Due(k) => Reported(k)

\* An alert that stays on the list is put on the stream, whatever other rows do to
\* the polls.
AlertsGetThrough ==
  \A a \in Alerts \ BrokenRows :
    (feed = "unusual_whales" /\ a \in Range(OnTheList)) ~>
      \/ feed # "unusual_whales" \/ a \notin Range(OnTheList)
      \/ \E i \in DOMAIN stream : stream[i].feed = feed /\ stream[i].alert = a

-----------------------------------------------------------------------------
(* The inductive invariants behind the properties (the proofs are in          *)
(* Providers_proofs).                                                         *)

SnapshotRows == [contract : Contracts, volume : Nat, price : Nat, day : 1..MaxDay]

Events ==
  {MadeUp}
    \cup [feed : {"polygon"}, contract : Contracts, from : Nat, upTo : Nat,
          day : 1..MaxDay, boot : 1..boots]
    \cup [feed : {"unusual_whales"}, alert : Alerts, boot : 1..boots]

\* What is in hand belongs to the feed; a process that is down has nothing in hand and
\* no marks.
InHand ==
  /\ feed = "polygon" => /\ batch \in Seq(SnapshotRows)
                         /\ \A i \in DOMAIN batch :
                              batch[i].volume <= MaxVolume[batch[i].contract]
  /\ feed = "unusual_whales" => batch \in Seq(Alerts)
  /\ feed \in {"synthetic", "down"} => batch = <<>>
  /\ feed = "down" => seenVol = NoVolume /\ seenIds = {} /\ checked = NoVolume
  /\ feed # "down" => boots > 0

\* The marks are above everything this run of the process has reported.
MarksCover ==
  /\ stream \in Seq(Events)
  /\ feed # "down" => \A i \in DOMAIN stream :
       /\ (stream[i].feed = "polygon" /\ stream[i].boot = boots) =>
            stream[i].upTo <= seenVol[stream[i].contract]
       /\ (stream[i].feed = "unusual_whales" /\ stream[i].boot = boots) =>
            stream[i].alert \in seenIds

ReportInv == TypeOK /\ listed \in Seq(Alerts) /\ InHand /\ MarksCover /\ ReportedOncePerRun

\* A volume v of contract k that was seen before the last big trade is below where that
\* began.
Clear(v, k) == v < burst[k].upTo => v + burst[k].size <= burst[k].upTo

\* The last big trade is worth MinPremium at price p, if it was at every price since.
Worth(p, k) == burst[k].kept => burst[k].size * p >= MinPremium

\* What was looked at, of the volume of today.
VolumesOfToday ==
  \A k \in Contracts :
    /\ burst[k].upTo <= volume[k] /\ Clear(0, k)
    /\ burst[k].upTo # 0 => burst[k].size > 0
    /\ checked[k] <= volume[k] /\ Clear(checked[k], k)
    /\ Worth(price[k], k)

\* The rows in hand are of one poll.  Those of today are not older than what was looked
\* at, and those of an earlier day come before anything of today is looked at.
RowsInHand ==
  feed = "polygon" => \A i \in DOMAIN batch :
    LET row == batch[i] IN
    /\ row.day <= day
    /\ row.day # day => checked = NoVolume
    /\ row.day = day =>
         /\ checked[row.contract] <= row.volume /\ row.volume <= volume[row.contract]
         /\ Clear(row.volume, row.contract)
         /\ burst[row.contract].upTo <= row.volume => Worth(row.price, row.contract)
    /\ \A j \in DOMAIN batch :
         /\ batch[j].day = row.day
         /\ batch[j].contract = row.contract => batch[j] = row

\* The mark of a contract is what was looked at today once that is unusual and above the
\* mark of the days before, and that one until then.
MarksOfToday ==
  \A k \in Contracts \ BrokenRows :
    seenVol[k] =
      IF checked[k] > carried[k] /\ Unusual([contract |-> k, volume |-> checked[k]])
      THEN checked[k] ELSE carried[k]

BurstInv ==
  /\ ReportInv
  /\ VolumesOfToday
  /\ RowsInHand
  /\ MarksOfToday
  /\ BurstsAreReported
=============================================================================
