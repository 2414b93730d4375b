------------------------ MODULE WatchMonitor_proofs ------------------------
(***************************************************************************)
(* Proofs about WatchMonitor: its types, that no message is repeated       *)
(* within the cooldown, and that a crossing whose level was fetched is     *)
(* announced, an analyst's always, the chart's unless today's bar took the *)
(* level off the chart.  All follow from the inductive invariant           *)
(* MonitorInv.                                                             *)
(***************************************************************************)
EXTENDS WatchMonitor, FiniteSetTheorems, SequenceTheorems, WellFoundedInduction, TLAPS

-----------------------------------------------------------------------------
(* The extremes of a set of prices. *)

\* A set of naturals that is not empty has a least member.
LEMMA LeastExists ==
  ASSUME NEW S \in SUBSET Nat, S # {}
  PROVE  \E x \in S : \A y \in S : x <= y
<1> DEFINE R == {p \in Nat \X Nat : p[1] < p[2]}
<1>1. IsWellFoundedOn(R, Nat)
  BY NatLessThanWellFounded DEF OpToRel
<1> HIDE DEF R
<1>2. PICK x \in S : \A y \in S : ~ (<<y, x>> \in R)
  BY <1>1, WFMin
<1>3. ASSUME NEW y \in S
      PROVE  x <= y
  <2>1. <<y, x>> \notin R
    BY <1>2
  <2>2. x \in Nat /\ y \in Nat
    OBVIOUS
  <2>3. ~ (y < x)
    BY <2>1, <2>2 DEF R
  <2>4. QED
    BY <2>2, <2>3
<1>4. QED
  BY <1>3

\* The least of some prices is one of them.
LEMMA MinIsOneOfThem ==
  ASSUME NEW S \in SUBSET Prices, S # {}
  PROVE  Min(S) \in S
<1>1. S \in SUBSET Nat
  BY MonitorAssumption DEF Prices
<1>2. \E x \in S : \A y \in S : x <= y
  BY <1>1, LeastExists
<1>3. QED
  BY <1>2 DEF Min

\* So is the greatest.
LEMMA MaxIsOneOfThem ==
  ASSUME NEW S \in SUBSET Prices, S # {}
  PROVE  Max(S) \in S
<1> DEFINE bounds == {n \in Nat : \A y \in S : y <= n}
<1>1. S \in SUBSET Nat /\ MaxPrice \in bounds
  BY MonitorAssumption DEF Prices
<1>2. PICK n \in bounds : \A m \in bounds : n <= m
  <2>1. bounds \in SUBSET Nat /\ bounds # {}
    BY <1>1
  <2>2. QED
    BY <2>1, LeastExists
<1>3. ASSUME n \notin S
      PROVE  FALSE
  <2>1. \A y \in S : y \in Nat /\ y < n
    BY <1>1, <1>2, <1>3
  <2>2. n - 1 \in bounds
    BY <2>1
  <2>3. QED
    BY <1>2, <2>2
<1>4. \E x \in S : \A y \in S : x >= y
  BY <1>1, <1>2, <1>3
<1>5. QED
  BY <1>4 DEF Max

-----------------------------------------------------------------------------
(* The levels. *)

\* The chart has two levels.
LEMMA ChartLevelsType ==
  ASSUME NEW t \in Tickers, high[t] \in Prices, low[t] \in Prices
  PROVE  ChartLevels(t) \in Seq(LevelRecords) /\ Len(ChartLevels(t)) = 2
<1>1. BreakoutAbove(t) \in Prices
  <2>1. Above(t) \in SUBSET Prices
    BY MonitorAssumption DEF Above
  <2>2. QED
    BY <2>1, MinIsOneOfThem DEF BreakoutAbove
<1>2. BreakdownBelow(t) \in Prices
  <2>1. Below(t) \in SUBSET Prices
    BY MonitorAssumption DEF Below
  <2>2. QED
    BY <2>1, MaxIsOneOfThem DEF BreakdownBelow
<1>3. QED
  BY <1>1, <1>2 DEF ChartLevels, Level, LevelRecords

\* Prices make levels.
LEMMA OfOneKind ==
  ASSUME NEW s \in Seq(Prices), NEW kind \in {"resistance", "support"}
  PROVE  [k \in DOMAIN s |-> Level(kind, s[k])] \in Seq(LevelRecords)
<1>1. /\ DOMAIN s = 1..Len(s) /\ Len(s) \in Nat
      /\ \A k \in DOMAIN s : Level(kind, s[k]) \in LevelRecords
  BY DEF Level, LevelRecords
<1>2. [k \in 1..Len(s) |-> Level(kind, s[k])] \in [1..Len(s) -> LevelRecords]
  BY <1>1
<1>3. QED
  BY <1>1, <1>2, SeqDef

\* The analyst's are levels.
LEMMA AnalystLevelsType == AnalystLevels \in Seq(LevelRecords)
<1>1. Resistances \in Seq(Prices) /\ Supports \in Seq(Prices)
  BY MonitorAssumption
<1>2. [k \in DOMAIN Resistances |-> Level("resistance", Resistances[k])] \in Seq(LevelRecords)
  BY <1>1, OfOneKind
<1>3. [k \in DOMAIN Supports |-> Level("support", Supports[k])] \in Seq(LevelRecords)
  BY <1>1, OfOneKind
<1>4. QED
  BY <1>2, <1>3 DEF AnalystLevels

\* The parts of a concatenation are in it.
LEMMA PartsOfConcatenation ==
  ASSUME NEW s \in Seq(LevelRecords), NEW u \in Seq(LevelRecords)
  PROVE  /\ s \o u \in Seq(LevelRecords) /\ Len(s \o u) = Len(s) + Len(u)
         /\ \A k \in DOMAIN s : \E l \in DOMAIN (s \o u) : (s \o u)[l] = s[k]
         /\ \A k \in DOMAIN u : \E l \in DOMAIN (s \o u) : (s \o u)[l] = u[k]
<1>1. s \o u \in Seq(LevelRecords) /\ Len(s \o u) = Len(s) + Len(u)
  OBVIOUS
<1>2. ASSUME NEW k \in DOMAIN s
      PROVE  k \in DOMAIN (s \o u) /\ (s \o u)[k] = s[k]
  OBVIOUS
<1>3. ASSUME NEW k \in DOMAIN u
      PROVE  Len(s) + k \in DOMAIN (s \o u) /\ (s \o u)[Len(s) + k] = u[k]
  OBVIOUS
<1>4. QED
  BY <1>1, <1>2, <1>3

\* What MessageFor returns, and when.
LEMMA MessageForIs ==
  ASSUME NEW t, NEW level, NEW prev, NEW now
  PROVE  LET message == MessageFor(t, level, prev, now) IN
         /\ message \in Notices \cup {"none"}
         /\ message \in Notices => ~Cooled(lastAlert[<<t, level.value, message>>])
         /\ Crossed(level.kind, prev, now, level.value) =>
              message = "cross" \/ Cooled(lastAlert[<<t, level.value, "cross">>])
BY DEF MessageFor, Notices

-----------------------------------------------------------------------------
(* Every step keeps the inductive invariant. *)

\* Steps between two rounds of the loop.
LEMMA LoopUntouched ==
  ASSUME MonitorInv,
         UNCHANGED <<cycle, current, levels, checked, lastAlert, sent>>,
         todo' \subseteq todo
  PROVE  LoopInv' /\ MarksInv' /\ ComparedInv' /\ AnalystsAreThere'
<1> USE DEF MonitorInv
<1>1. LoopInv'
  BY DEF LoopInv
<1>2. MarksInv'
  BY DEF MarksInv
<1>3. ComparedInv'
  BY DEF ComparedInv, WentThrough, Announced
<1>4. AnalystsAreThere'
  BY DEF AnalystsAreThere, AnalystLevels
<1>5. QED
  BY <1>1, <1>2, <1>3, <1>4

\* The chart of a ticker whose bars a step leaves alone.
LEMMA SameCharts ==
  ASSUME NEW t, close'[t] = close[t], high'[t] = high[t], low'[t] = low[t]
  PROVE  ChartLevels(t)' = ChartLevels(t)
BY DEF ChartLevels, BreakoutAbove, BreakdownBelow, Above, Below

\* Such a step for the tickers without a bar of today, between two rounds of the loop.
LEMMA ChartsUntouched ==
  ASSUME MonitorInv, UNCHANGED <<shown, current, levels>>, live \subseteq live',
         \A t \in Tickers \ live' :
           close'[t] = close[t] /\ high'[t] = high[t] /\ low'[t] = low[t]
  PROVE  ChartsStand'
<1>1. \A t \in Tickers \ live' : ChartLevels(t)' = ChartLevels(t) /\ t \notin live
  BY SameCharts
<1>2. \A t \in Tickers \ live' : shown'[t] \in {<<>>, ChartLevels(t)'}
  BY <1>1 DEF MonitorInv, ChartsStand
<1>3. ASSUME current # Nothing, current.ticker \notin live'
      PROVE  /\ current.shown \in {<<>>, ChartLevels(current.ticker)'}
             /\ levels # <<>> /\ ChartIsThere =>
                  \A k \in DOMAIN ChartLevels(current.ticker)' :
                    Listed(ChartLevels(current.ticker)'[k])
  <2>1. current.ticker \in Tickers
    BY <1>3 DEF MonitorInv, TypeOK, Comparisons
  <2>2. ChartLevels(current.ticker)' = ChartLevels(current.ticker) /\ current.ticker \notin live
    BY <1>1, <1>3, <2>1
  <2>3. QED
    BY <1>3, <2>2 DEF MonitorInv, ChartsStand
<1>4. ChartIsThere' <=> ChartIsThere
  BY DEF ChartIsThere, AnalystLevels
<1>5. \A l : Listed(l)' <=> Listed(l)
  BY DEF Listed
<1>6. QED
  BY <1>2, <1>3, <1>4, <1>5 DEF ChartsStand

\* The extremes of today's bar are prices.
LEMMA TodaysBarType ==
  ASSUME TypeOK, NEW t \in Tickers, NEW p \in Prices, TodaysBar(t, p)
  PROVE  /\ {close', high', low'} \subseteq [Tickers -> Prices]
         /\ \A u \in Tickers \ {t} :
              close'[u] = close[u] /\ high'[u] = high[u] /\ low'[u] = low[u]
<1>1. /\ {close, high, low} \subseteq [Tickers -> Prices]
      /\ {high[t], p} \in SUBSET Prices /\ {low[t], p} \in SUBSET Prices
  BY DEF TypeOK
<1>2. Max({high[t], p}) \in Prices /\ Min({low[t], p}) \in Prices
  BY <1>1, MaxIsOneOfThem, MinIsOneOfThem
<1>3. /\ close' = [close EXCEPT ![t] = p]
      /\ high' = [high EXCEPT ![t] = Max({high[t], p})]
      /\ low' = [low EXCEPT ![t] = Min({low[t], p})]
  BY DEF TodaysBar
<1>4. QED
  BY <1>1, <1>2, <1>3

\* The market moves, or today's bar comes up: the bars of the days before stay.
LEMMA MarketStep ==
  ASSUME MonitorInv, NEW t \in Tickers, Move(t) \/ BarAppears(t)
  PROVE  MonitorInv'
<1>1. /\ live \subseteq live' /\ live' \subseteq live \cup {t}
      /\ UNCHANGED <<watched, monitorVars, shown>>
  BY DEF Move, BarAppears
<1>2. TypeOK
  BY DEF MonitorInv
<1>3. price' \in [Tickers -> Prices]
  BY <1>2 DEF Move, BarAppears, TypeOK
<1>4. /\ \/ \E p \in Prices : TodaysBar(t, p) /\ t \in live'
         \/ UNCHANGED <<close, high, low>>
  BY <1>2 DEF Move, BarAppears, TypeOK
<1>5. /\ {close', high', low'} \subseteq [Tickers -> Prices]
      /\ \A u \in Tickers \ live' :
           close'[u] = close[u] /\ high'[u] = high[u] /\ low'[u] = low[u]
  <2>1. CASE UNCHANGED <<close, high, low>>
    BY <1>2, <2>1 DEF TypeOK
  <2>2. CASE \E p \in Prices : TodaysBar(t, p) /\ t \in live'
    BY <1>2, <2>2, TodaysBarType
  <2>3. QED
    BY <1>4, <2>1, <2>2
<1>6. TypeOK'
  <2>1. live' \subseteq Tickers
    BY <1>1, <1>2 DEF TypeOK
  <2>2. QED
    BY <1>1, <1>2, <1>3, <1>5, <2>1 DEF TypeOK, monitorVars
<1>7. LoopInv' /\ MarksInv' /\ ComparedInv' /\ AnalystsAreThere'
  BY <1>1, LoopUntouched DEF monitorVars
<1>8. ChartsStand'
  BY <1>1, <1>5, ChartsUntouched DEF monitorVars
<1>9. QED
  BY <1>6, <1>7, <1>8 DEF MonitorInv

\* The watchlist changes, or nothing does.
LEMMA WatchlistStep ==
  ASSUME MonitorInv,
         \/ UNCHANGED vars
         \/ \E t \in Tickers : AddTicker(t) \/ RemoveTicker(t)
  PROVE  MonitorInv'
<1>1. UNCHANGED <<marketVars, monitorVars, shown>> /\ watched' \subseteq Tickers
  BY DEF vars, AddTicker, RemoveTicker, MonitorInv, TypeOK
<1>2. TypeOK'
  BY <1>1 DEF MonitorInv, TypeOK, marketVars, monitorVars
<1>3. LoopInv' /\ MarksInv' /\ ComparedInv' /\ AnalystsAreThere'
  BY <1>1, LoopUntouched DEF monitorVars
<1>4. ChartsStand'
  BY <1>1, ChartsUntouched DEF monitorVars, marketVars
<1>5. QED
  BY <1>2, <1>3, <1>4 DEF MonitorInv

\* A cycle starts when the one before is over.
LEMMA StartCycleStep ==
  ASSUME MonitorInv, StartCycle
  PROVE  MonitorInv'
<1>1. /\ current = Nothing /\ cycle' = cycle + 1 /\ cycle < MaxCycles
      /\ todo' \subseteq Tickers
      /\ UNCHANGED <<marketVars, watched, current, levels, checked, lastPrice,
                     lastAlert, sent, shown>>
  BY DEF StartCycle, MonitorInv, TypeOK
<1>2. cycle \in Nat /\ MaxCycles \in Nat
  BY MonitorAssumption DEF MonitorInv, TypeOK
<1>3. TypeOK'
  BY <1>1, <1>2 DEF MonitorInv, TypeOK, marketVars
<1>4. LoopInv'
  BY <1>1, <1>2 DEF MonitorInv, LoopInv
<1>5. MarksInv'
  <2>1. \A key \in Keys : lastAlert[key] <= cycle + 1
    BY <1>2 DEF MonitorInv, TypeOK, MarksInv
  <2>2. QED
    BY <1>1, <2>1 DEF MonitorInv, MarksInv
<1>6. ComparedInv'
  <2>1. checked = 0
    BY <1>1 DEF MonitorInv, LoopInv
  <2>2. QED
    BY <1>1, <2>1 DEF ComparedInv
<1>7. AnalystsAreThere'
  BY <1>1 DEF MonitorInv, AnalystsAreThere, AnalystLevels
<1>8. ChartsStand'
  BY <1>1, ChartsUntouched DEF marketVars
<1>9. QED
  BY <1>3, <1>4, <1>5, <1>6, <1>7, <1>8 DEF MonitorInv

\* A reading becomes the baseline; the levels are not fetched yet.
LEMMA ReadPriceStep ==
  ASSUME MonitorInv, NEW t \in Tickers, ReadPrice(t)
  PROVE  MonitorInv'
<1>1. /\ t \in todo /\ current = Nothing
      /\ todo' = todo \ {t}
      /\ lastPrice' = [lastPrice EXCEPT ![t] = price[t]]
      /\ shown' = [shown EXCEPT ![t] = ChartLevels(t)]
      /\ current' = ToCompare(t)
      /\ UNCHANGED <<marketVars, watched, cycle, levels, checked, lastAlert, sent>>
  BY DEF ReadPrice
<1>2. levels = <<>> /\ checked = 0 /\ cycle > 0
  BY <1>1 DEF MonitorInv, LoopInv
<1>3. ChartLevels(t) \in Seq(LevelRecords) /\ price[t] \in Prices
  BY ChartLevelsType DEF MonitorInv, TypeOK
<1>4. ToCompare(t) \in Comparisons \cup {Nothing}
  <2>1. lastPrice[t] # NoPrice => Comparison(t) \in Comparisons
    BY <1>3 DEF MonitorInv, TypeOK, Comparison, Comparisons
  <2>2. QED
    BY <2>1 DEF ToCompare
<1>5. TypeOK'
  BY <1>1, <1>3, <1>4 DEF MonitorInv, TypeOK, marketVars
<1>6. LoopInv'
  BY <1>1, <1>2 DEF LoopInv
<1>7. MarksInv'
  BY <1>1 DEF MonitorInv, MarksInv
<1>8. ComparedInv' /\ AnalystsAreThere'
  BY <1>1, <1>2 DEF ComparedInv, AnalystsAreThere
<1>9. ChartsStand'
  <2>1. \A u \in Tickers \ live : shown[u] \in {<<>>, ChartLevels(u)}
    BY DEF MonitorInv, ChartsStand
  <2>2. \A u \in Tickers \ live : shown'[u] \in {<<>>, ChartLevels(u)}
    BY <1>1, <2>1 DEF MonitorInv, TypeOK
  <2>3. current' # Nothing => current'.ticker = t /\ current'.shown = shown[t]
    BY <1>1 DEF ToCompare, Comparison
  <2>4. /\ \A u : ChartLevels(u)' = ChartLevels(u)
        /\ live' = live
    BY <1>1, SameCharts DEF marketVars
  <2>5. QED
    BY <1>1, <1>2, <2>1, <2>2, <2>3, <2>4 DEF ChartsStand
<1>10. QED
  BY <1>5, <1>6, <1>7, <1>8, <1>9 DEF MonitorInv

\* A ticker, or the rest of a cycle, is given up.
LEMMA GiveUpStep ==
  ASSUME MonitorInv, LevelsFail \/ \E t \in Tickers : PriceFails(t)
  PROVE  MonitorInv'
<1>1. /\ current' \in {current, Nothing} /\ todo' \subseteq todo
      /\ levels = <<>>
      /\ UNCHANGED <<marketVars, watched, cycle, levels, checked, lastPrice, lastAlert,
                     sent, shown>>
  BY DEF LevelsFail, PriceFails, MonitorInv, LoopInv
<1>2. TypeOK'
  BY <1>1 DEF MonitorInv, TypeOK, marketVars
<1>3. LoopInv'
  BY <1>1 DEF MonitorInv, LoopInv
<1>4. MarksInv'
  BY <1>1 DEF MonitorInv, MarksInv
<1>5. ComparedInv' /\ AnalystsAreThere'
  BY <1>1 DEF MonitorInv, LoopInv, ComparedInv, AnalystsAreThere
<1>6. ChartsStand'
  <2>1. CASE current' = current
    BY <1>1, <2>1, ChartsUntouched DEF marketVars
  <2>2. CASE current' = Nothing
    <3>1. \A t : ChartLevels(t)' = ChartLevels(t)
      BY <1>1, SameCharts DEF marketVars
    <3>2. QED
      BY <1>1, <2>2, <3>1 DEF MonitorInv, ChartsStand, marketVars
  <2>3. QED
    BY <1>1, <2>1, <2>2
<1>7. QED
  BY <1>2, <1>3, <1>4, <1>5, <1>6 DEF MonitorInv

\* The levels arrive: the analyst's always, the chart's on top of them or not.
LEMMA FetchLevelsStep ==
  ASSUME MonitorInv, FetchLevels
  PROVE  MonitorInv'
<1> DEFINE t == current.ticker
<1>1. /\ current # Nothing /\ levels = <<>>
      /\ levels' = ChartLevels(t) \o AnalystLevels \/ levels' = AnalystLevels
      /\ current' = IF levels' = <<>> THEN Nothing ELSE current
      /\ UNCHANGED <<marketVars, watched, cycle, todo, checked, lastPrice, lastAlert,
                     sent, shown>>
  BY DEF FetchLevels
<1>2. checked = 0 /\ cycle > 0 /\ current \in Comparisons /\ t \in Tickers
  BY <1>1 DEF MonitorInv, LoopInv, TypeOK, Comparisons
<1>3. ChartLevels(t) \in Seq(LevelRecords) /\ AnalystLevels \in Seq(LevelRecords)
  BY <1>2, ChartLevelsType, AnalystLevelsType DEF MonitorInv, TypeOK
<1> DEFINE both == ChartLevels(t) \o AnalystLevels
<1>4. /\ both \in Seq(LevelRecords)
      /\ \A k \in DOMAIN ChartLevels(t) : \E l \in DOMAIN both : both[l] = ChartLevels(t)[k]
      /\ \A k \in DOMAIN AnalystLevels : \E l \in DOMAIN both : both[l] = AnalystLevels[k]
  <2> DEFINE chart == ChartLevels(t)
             analyst == AnalystLevels
  <2>1. chart \in Seq(LevelRecords) /\ analyst \in Seq(LevelRecords)
    BY <1>3
  <2> HIDE DEF chart, analyst
  <2>2. /\ chart \o analyst \in Seq(LevelRecords)
        /\ \A k \in DOMAIN chart : \E l \in DOMAIN (chart \o analyst) : (chart \o analyst)[l] = chart[k]
        /\ \A k \in DOMAIN analyst :
             \E l \in DOMAIN (chart \o analyst) : (chart \o analyst)[l] = analyst[k]
    BY <2>1, PartsOfConcatenation
  <2>3. QED
    BY <2>2 DEF chart, analyst
<1>5. levels' = both \/ levels' = AnalystLevels
  BY <1>1
<1> HIDE DEF both, t
<1>6. /\ levels' \in Seq(LevelRecords)
      /\ \A k \in DOMAIN AnalystLevels : \E l \in DOMAIN levels' : levels'[l] = AnalystLevels[k]
  BY <1>3, <1>4, <1>5
<1>7. TypeOK'
  BY <1>1, <1>6 DEF MonitorInv, TypeOK, marketVars
<1>8. LoopInv'
  <2>1. levels' # <<>> => Len(levels') > 0
    BY <1>6
  <2>2. QED
    BY <1>1, <1>2, <2>1 DEF LoopInv
<1>9. MarksInv'
  BY <1>1 DEF MonitorInv, MarksInv
<1>10. ComparedInv'
  BY <1>1, <1>2 DEF ComparedInv
<1>11. AnalystsAreThere'
  BY <1>6 DEF AnalystsAreThere, AnalystLevels
<1>12. ChartsStand'
  <2>1. /\ \A u \in Tickers \ live : shown[u] \in {<<>>, ChartLevels(u)}
        /\ t \notin live => current.shown \in {<<>>, ChartLevels(t)}
    BY <1>1 DEF MonitorInv, ChartsStand, t
  <2>2. current' # Nothing => current' = current /\ current'.ticker = t
    BY <1>1 DEF t
  <2>3. /\ \A u : ChartLevels(u)' = ChartLevels(u)
        /\ AnalystLevels' = AnalystLevels
        /\ live' = live
    BY <1>1, SameCharts DEF marketVars, AnalystLevels
  <2>4. ASSUME Len(levels') > Len(AnalystLevels)
        PROVE  \A k \in DOMAIN ChartLevels(t) :
                 \E l \in DOMAIN levels' : levels'[l] = ChartLevels(t)[k]
    <3>1. levels' # AnalystLevels
      BY <1>3, <2>4
    <3>2. QED
      BY <1>4, <1>5, <3>1
  <2>5. QED
    BY <1>1, <2>1, <2>2, <2>3, <2>4 DEF ChartsStand, ChartIsThere, Listed
<1>13. QED
  BY <1>7, <1>8, <1>9, <1>10, <1>11, <1>12 DEF MonitorInv

\* A message goes out: its mark is the cycle, and no other mark changes.
LEMMA TellMarks ==
  ASSUME MonitorInv, NEW t \in Tickers, NEW value \in Prices, NEW message \in Notices,
         Tell(t, value, message), UNCHANGED cycle, cycle > 0
  PROVE  /\ lastAlert' \in [Keys -> 0..MaxCycles]
         /\ sent' \in Seq(Messages)
         /\ MarksInv'
         /\ Len(sent') = Len(sent) + 1
         /\ \A k \in DOMAIN sent : k \in DOMAIN sent' /\ sent'[k] = sent[k]
         /\ sent'[Len(sent')] =
              [ticker |-> t, message |-> message, value |-> value, at |-> cycle]
<1> DEFINE new == [ticker |-> t, message |-> message, value |-> value, at |-> cycle]
           mark == <<t, value, message>>
<1>1. /\ lastAlert' = [lastAlert EXCEPT ![mark] = cycle] /\ sent' = Append(sent, new)
      /\ cycle \in 0..MaxCycles /\ cycle > 0 /\ MaxCycles \in Nat
      /\ lastAlert \in [Keys -> 0..MaxCycles] /\ sent \in Seq(Messages)
  BY MonitorAssumption DEF Tell, MonitorInv, TypeOK
<1>2. /\ mark \in Keys /\ new \in Messages
      /\ mark[1] = t /\ mark[2] = value /\ mark[3] = message
      /\ new.ticker = t /\ new.value = value /\ new.message = message /\ new.at = cycle
  BY <1>1 DEF Keys, Messages
<1>3. \A k \in DOMAIN sent :
        /\ <<sent[k].ticker, sent[k].value, sent[k].message>> \in Keys
        /\ sent[k].at \in Nat
  <2>1. \A k \in DOMAIN sent : sent[k] \in Messages
    BY <1>1
  <2>2. \A m \in Messages : <<m.ticker, m.value, m.message>> \in Keys /\ m.at \in Nat
    BY DEF Keys, Messages
  <2>3. QED
    BY <2>1, <2>2
<1>4. \A key \in Keys :
        lastAlert'[key] = (IF key = mark THEN cycle ELSE lastAlert[key])
  BY <1>1, <1>2
<1> HIDE DEF new, mark
<1>5. /\ lastAlert' \in [Keys -> 0..MaxCycles] /\ sent' \in Seq(Messages)
      /\ Len(sent') = Len(sent) + 1
      /\ DOMAIN sent' = DOMAIN sent \cup {Len(sent')}
      /\ \A k \in DOMAIN sent : k \in DOMAIN sent' /\ sent'[k] = sent[k]
      /\ sent'[Len(sent')] = new /\ Len(sent') \in DOMAIN sent'
  BY <1>1, <1>2
<1>6. MarksInv'
  <2>1. \A key \in Keys : lastAlert'[key] <= cycle'
    BY <1>1, <1>4 DEF MonitorInv, MarksInv
  <2>2. ASSUME NEW k \in DOMAIN sent'
        PROVE  sent'[k].at <= lastAlert'[<<sent'[k].ticker, sent'[k].value, sent'[k].message>>]
    <3>1. CASE k \in DOMAIN sent
      <4>1. sent'[k] = sent[k]
        BY <1>5, <3>1
      <4>2. /\ sent[k].at <= lastAlert[<<sent[k].ticker, sent[k].value, sent[k].message>>]
            /\ lastAlert[<<sent[k].ticker, sent[k].value, sent[k].message>>] <= cycle
        BY <1>3, <3>1 DEF MonitorInv, MarksInv
      <4>3. lastAlert[<<sent[k].ticker, sent[k].value, sent[k].message>>] \in Nat
        BY <1>1, <1>3, <3>1
      <4>4. QED
        BY <1>1, <1>3, <1>4, <3>1, <4>1, <4>2, <4>3
    <3>2. CASE k = Len(sent')
      <4>1. sent'[k] = new
        BY <1>5, <3>2
      <4>2. <<sent'[k].ticker, sent'[k].value, sent'[k].message>> = mark /\ sent'[k].at = cycle
        BY <1>2, <4>1 DEF mark
      <4>3. lastAlert'[mark] = cycle /\ cycle <= cycle
        BY <1>1, <1>2, <1>4
      <4>4. QED
        BY <4>2, <4>3
    <3>3. QED
      BY <1>5, <3>1, <3>2
  <2>3. ASSUME NEW key \in Keys, lastAlert'[key] # 0
        PROVE  \E k \in DOMAIN sent' :
                 sent'[k] = [ticker |-> key[1], message |-> key[3], value |-> key[2],
                             at |-> lastAlert'[key]]
    <3>1. CASE key = mark
      <4>1. lastAlert'[key] = cycle
        BY <1>2, <1>4, <3>1
      <4>2. new = [ticker |-> key[1], message |-> key[3], value |-> key[2],
                   at |-> lastAlert'[key]]
        BY <1>2, <3>1, <4>1 DEF new
      <4>3. QED
        BY <1>5, <4>2
    <3>2. CASE key # mark
      <4>1. lastAlert'[key] = lastAlert[key]
        BY <1>4, <3>2
      <4>2. PICK k \in DOMAIN sent :
              sent[k] = [ticker |-> key[1], message |-> key[3], value |-> key[2],
                         at |-> lastAlert[key]]
        BY <2>3, <4>1 DEF MonitorInv, MarksInv
      <4>3. QED
        BY <1>5, <4>1, <4>2
    <3>3. QED
      BY <3>1, <3>2
  <2>4. QED
    BY <2>1, <2>2, <2>3 DEF MarksInv
<1>7. QED
  BY <1>5, <1>6 DEF new

\* What was announced stays so during a cycle.
LEMMA AnnouncedStays ==
  ASSUME UNCHANGED cycle, NEW t, NEW value, Announced(sent, t, value),
         \A k \in DOMAIN sent : k \in DOMAIN sent' /\ sent'[k] = sent[k]
  PROVE  Announced(sent', t, value) /\ Announced(sent, t, value)'
BY DEF Announced

\* After a round the level it was about has its message if the price crossed it.
LEMMA RoundAnnounces ==
  ASSUME MonitorInv, CheckLevel
  PROVE  /\ current \in Comparisons /\ checked + 1 \in DOMAIN levels
         /\ lastAlert' \in [Keys -> 0..MaxCycles] /\ sent' \in Seq(Messages)
         /\ MarksInv'
         /\ \A k \in DOMAIN sent : k \in DOMAIN sent' /\ sent'[k] = sent[k]
         /\ WentThrough(levels[checked + 1]) =>
              Announced(sent', current.ticker, levels[checked + 1].value)
<1> DEFINE t == current.ticker
           level == levels[checked + 1]
           message == MessageFor(t, level, current.prev, current.now)
<1>1. /\ levels # <<>>
      /\ IF message = "none" THEN UNCHANGED <<lastAlert, sent>>
                            ELSE Tell(t, level.value, message)
      /\ UNCHANGED cycle
  BY DEF CheckLevel
<1>2. current \in Comparisons /\ checked + 1 \in DOMAIN levels /\ cycle > 0
  BY <1>1 DEF MonitorInv, LoopInv, TypeOK
<1>3. level \in LevelRecords /\ t \in Tickers
  BY <1>2 DEF MonitorInv, TypeOK, Comparisons
<1>4. level.value \in Prices /\ level.kind \in {"resistance", "support"}
  BY <1>3 DEF LevelRecords
<1>5. /\ message \in Notices \cup {"none"}
      /\ Crossed(level.kind, current.prev, current.now, level.value) =>
           message = "cross" \/ Cooled(lastAlert[<<t, level.value, "cross">>])
  BY MessageForIs
<1>6. "none" \notin Notices /\ "cross" \in Notices
  BY DEF Notices
<1>7. WentThrough(level) => Crossed(level.kind, current.prev, current.now, level.value)
  BY DEF WentThrough, Crossed
<1> HIDE DEF level, t, message
<1>8. /\ lastAlert' \in [Keys -> 0..MaxCycles] /\ sent' \in Seq(Messages)
      /\ MarksInv'
      /\ \A k \in DOMAIN sent : k \in DOMAIN sent' /\ sent'[k] = sent[k]
  <2>1. CASE message = "none"
    <3>1. UNCHANGED <<lastAlert, sent, cycle>>
      BY <1>1, <2>1
    <3>2. QED
      BY <3>1 DEF MonitorInv, TypeOK, MarksInv
  <2>2. CASE message # "none"
    BY <1>1, <1>2, <1>3, <1>4, <1>5, <2>2, TellMarks
  <2>3. QED
    BY <2>1, <2>2
<1>9. ASSUME WentThrough(level)
      PROVE  Announced(sent', t, level.value)
  <2>1. message = "cross" \/ Cooled(lastAlert[<<t, level.value, "cross">>])
    BY <1>5, <1>7, <1>9
  <2>2. CASE message = "cross"
    <3>1. Tell(t, level.value, message)
      BY <1>1, <1>6, <2>2
    <3>2. /\ Len(sent') = Len(sent) + 1 /\ sent' \in Seq(Messages)
          /\ sent'[Len(sent')] =
               [ticker |-> t, message |-> message, value |-> level.value, at |-> cycle]
      BY <1>1, <1>2, <1>3, <1>4, <1>6, <2>2, <3>1, TellMarks
    <3>3. Len(sent') \in DOMAIN sent'
      <4>1. sent \in Seq(Messages)
        BY DEF MonitorInv, TypeOK
      <4>2. QED
        BY <3>2, <4>1
    <3>4. QED
      BY <2>2, <3>2, <3>3 DEF Announced
  <2>3. CASE Cooled(lastAlert[<<t, level.value, "cross">>])
    <3> DEFINE key == <<t, level.value, "cross">>
    <3>1. /\ key \in Keys /\ lastAlert[key] # 0 /\ cycle - lastAlert[key] < Cooldown
          /\ key[1] = t /\ key[2] = level.value /\ key[3] = "cross"
      BY <1>3, <1>4, <1>6, <2>3 DEF Keys, Cooled
    <3> HIDE DEF key
    <3>2. PICK k \in DOMAIN sent :
            sent[k] = [ticker |-> key[1], message |-> key[3], value |-> key[2],
                       at |-> lastAlert[key]]
      BY <3>1 DEF MonitorInv, MarksInv
    <3>3. /\ sent[k].ticker = t /\ sent[k].value = level.value /\ sent[k].message = "cross"
          /\ cycle - sent[k].at < Cooldown
      BY <3>1, <3>2
    <3>4. k \in DOMAIN sent' /\ sent'[k] = sent[k]
      BY <1>8
    <3>5. QED
      BY <3>3, <3>4 DEF Announced
  <2>4. QED
    BY <2>1, <2>2, <2>3
<1>10. QED
  BY <1>2, <1>8, <1>9 DEF level, t

\* A round of the loop.
LEMMA CheckLevelStep ==
  ASSUME MonitorInv, CheckLevel
  PROVE  MonitorInv'
<1>1. /\ current \in Comparisons /\ checked + 1 \in DOMAIN levels
      /\ lastAlert' \in [Keys -> 0..MaxCycles] /\ sent' \in Seq(Messages)
      /\ MarksInv'
      /\ \A k \in DOMAIN sent : k \in DOMAIN sent' /\ sent'[k] = sent[k]
      /\ WentThrough(levels[checked + 1]) =>
           Announced(sent', current.ticker, levels[checked + 1].value)
  BY RoundAnnounces
<1>2. /\ levels # <<>>
      /\ IF checked + 1 = Len(levels)
         THEN checked' = 0 /\ levels' = <<>> /\ current' = Nothing
         ELSE checked' = checked + 1 /\ UNCHANGED <<levels, current>>
      /\ UNCHANGED <<marketVars, watched, cycle, todo, lastPrice, shown>>
  BY DEF CheckLevel
<1>3. /\ levels \in Seq(LevelRecords) /\ Len(levels) \in Nat /\ DOMAIN levels = 1..Len(levels)
      /\ checked \in Nat /\ checked + 1 <= Len(levels)
      /\ \A t \in Tickers : shown[t] \in Seq(LevelRecords)
  BY <1>1 DEF MonitorInv, TypeOK
<1>4. TypeOK'
  <2>1. /\ levels' \in Seq(LevelRecords) /\ checked' \in Nat
        /\ current' \in Comparisons \cup {Nothing}
    <3>1. <<>> \in Seq(LevelRecords) /\ 0 \in Nat /\ checked + 1 \in Nat
      BY <1>3
    <3>2. CASE checked + 1 = Len(levels)
      BY <1>2, <3>1, <3>2
    <3>3. CASE checked + 1 # Len(levels)
      BY <1>1, <1>2, <1>3, <3>1, <3>3
    <3>4. QED
      BY <3>2, <3>3
  <2>2. QED
    BY <1>1, <1>2, <2>1 DEF MonitorInv, TypeOK, marketVars
<1>5. LoopInv'
  <2>1. CASE checked + 1 = Len(levels)
    BY <1>2, <2>1 DEF MonitorInv, LoopInv
  <2>2. CASE checked + 1 # Len(levels)
    <3>1. checked + 1 < Len(levels)
      <4>1. checked \in Nat /\ Len(levels) \in Nat /\ checked + 1 <= Len(levels)
        BY <1>3
      <4>2. QED
        BY <2>2, <4>1
    <3>2. QED
      BY <1>2, <2>2, <3>1 DEF MonitorInv, LoopInv
  <2>3. QED
    BY <2>1, <2>2
<1>6. ComparedInv'
  <2>1. CASE checked + 1 = Len(levels)
    BY <1>2, <2>1 DEF ComparedInv
  <2>2. CASE checked + 1 # Len(levels)
    <3>1. checked' = checked + 1 /\ UNCHANGED <<levels, current, cycle>>
      BY <1>2, <2>2
    <3>2. ASSUME NEW k \in 1..(checked + 1), WentThrough(levels[k])
          PROVE  Announced(sent, current.ticker, levels[k].value)'
      <4>1. CASE k = checked + 1
        BY <1>1, <3>1, <3>2, <4>1 DEF Announced
      <4>2. CASE k # checked + 1
        <5>1. k \in 1..checked
          BY <1>3, <4>2
        <5>2. Announced(sent, current.ticker, levels[k].value)
          BY <3>2, <5>1 DEF MonitorInv, ComparedInv
        <5>3. QED
          BY <1>1, <3>1, <5>2 DEF Announced
      <4>3. QED
        BY <4>1, <4>2
    <3>3. \A k : WentThrough(levels[k])' <=> WentThrough(levels[k])
      BY <3>1 DEF WentThrough
    <3>4. QED
      BY <3>1, <3>2, <3>3 DEF ComparedInv
  <2>3. QED
    BY <2>1, <2>2
<1>7. AnalystsAreThere'
  BY <1>2 DEF MonitorInv, AnalystsAreThere, AnalystLevels
<1>8. ChartsStand'
  <2>1. CASE checked + 1 = Len(levels)
    <3>1. \A t : ChartLevels(t)' = ChartLevels(t)
      BY <1>2, SameCharts DEF marketVars
    <3>2. QED
      BY <1>2, <2>1, <3>1 DEF MonitorInv, ChartsStand, marketVars
  <2>2. CASE checked + 1 # Len(levels)
    BY <1>2, <2>2, ChartsUntouched DEF marketVars
  <2>3. QED
    BY <2>1, <2>2
<1>9. QED
  BY <1>1, <1>4, <1>5, <1>6, <1>7, <1>8 DEF MonitorInv

\* The first state has sent nothing.
LEMMA InitMonitorInv == Init => MonitorInv
<1> SUFFICES ASSUME Init
             PROVE  MonitorInv
  OBVIOUS
<1>1. \A t \in Tickers : high[t] \in Prices /\ low[t] \in Prices
  <2>1. ASSUME NEW t \in Tickers
        PROVE  /\ SwingHighs \cup {price[t]} \in SUBSET Prices
               /\ SwingLows \cup {price[t]} \in SUBSET Prices
    BY MonitorAssumption DEF Init
  <2>2. QED
    BY <2>1, MaxIsOneOfThem, MinIsOneOfThem DEF Init
<1>2. /\ high \in [Tickers -> Prices] /\ low \in [Tickers -> Prices]
      /\ 0 \in 0..MaxCycles
  <2>1. /\ high = [t \in Tickers |-> high[t]]
        /\ low = [t \in Tickers |-> low[t]]
    BY DEF Init
  <2>2. 0 \in 0..MaxCycles
    BY MonitorAssumption
  <2>3. QED
    BY <1>1, <2>1, <2>2
<1>3. TypeOK
  BY <1>2 DEF Init, TypeOK
<1>4. LoopInv /\ MarksInv /\ ComparedInv /\ AnalystsAreThere
  BY DEF Init, LoopInv, MarksInv, ComparedInv, AnalystsAreThere
<1>5. ChartsStand
  BY DEF Init, ChartsStand
<1>6. QED
  BY <1>3, <1>4, <1>5 DEF MonitorInv

\* Every step keeps the invariant.
LEMMA NextMonitorInv == MonitorInv /\ [Next]_vars => MonitorInv'
BY MarketStep, WatchlistStep, StartCycleStep, ReadPriceStep, GiveUpStep, FetchLevelsStep,
   CheckLevelStep DEF Next

LEMMA MonitorInvariant == Spec => []MonitorInv
BY InitMonitorInv, NextMonitorInv, PTL DEF Spec

-----------------------------------------------------------------------------
(* The theorems. *)

\* Every variable of the monitor has its type.
THEOREM MonitorTypes == Spec => []TypeOK
<1>1. MonitorInv => TypeOK
  BY DEF MonitorInv
<1>2. QED
  BY <1>1, MonitorInvariant, PTL

\* A message that goes out is a cooldown away from those like it.
LEMMA RoundIsSpaced ==
  ASSUME MonitorInv, SpacedMessages, CheckLevel
  PROVE  SpacedMessages'
<1> DEFINE t == current.ticker
           level == levels[checked + 1]
           message == MessageFor(t, level, current.prev, current.now)
           new == [ticker |-> t, message |-> message, value |-> level.value, at |-> cycle]
           mark == <<t, level.value, message>>
<1>1. /\ levels # <<>>
      /\ IF message = "none" THEN UNCHANGED <<lastAlert, sent>>
                            ELSE Tell(t, level.value, message)
  BY DEF CheckLevel
<1>2. CASE message = "none"
  BY <1>1, <1>2 DEF SpacedMessages
<1>3. CASE message # "none"
  <2>1. message \in Notices /\ ~Cooled(lastAlert[mark])
    BY <1>3, MessageForIs
  <2>2. current \in Comparisons /\ level \in LevelRecords
    BY <1>1 DEF MonitorInv, LoopInv, TypeOK
  <2>3. mark \in Keys
    BY <2>1, <2>2 DEF Keys, Comparisons, LevelRecords
  <2>4. /\ sent' = Append(sent, new) /\ sent \in Seq(Messages)
        /\ cycle \in Nat /\ Cooldown \in Nat /\ lastAlert[mark] \in Nat
        /\ lastAlert[mark] <= cycle
    BY <1>1, <1>3, <2>3, MonitorAssumption DEF Tell, MonitorInv, TypeOK, MarksInv
  <2>5. new.ticker = t /\ new.value = level.value /\ new.message = message /\ new.at = cycle
    OBVIOUS
  <2>6. lastAlert[mark] # 0 => lastAlert[mark] + Cooldown <= cycle
    BY <2>1, <2>4 DEF Cooled
  <2> HIDE DEF new
  <2>7. ASSUME NEW i \in DOMAIN sent,
               sent[i].ticker = t, sent[i].value = level.value, sent[i].message = message
        PROVE  cycle >= sent[i].at + Cooldown
    <3>1. sent[i].at \in Nat /\ sent[i].at >= 1
      <4>1. sent[i] \in Messages
        BY <2>4
      <4>2. QED
        BY <4>1 DEF Messages
    <3>2. sent[i].at <= lastAlert[mark]
      BY <2>7 DEF MonitorInv, MarksInv
    <3> HIDE DEF mark
    <3>3. QED
      BY <2>4, <2>6, <3>1, <3>2
  <2>8. /\ DOMAIN sent' = 1..(Len(sent) + 1) /\ DOMAIN sent = 1..Len(sent) /\ Len(sent) \in Nat
        /\ \A k \in DOMAIN sent : sent'[k] = sent[k]
        /\ sent'[Len(sent) + 1] = new
    BY <2>4
  <2>9. ASSUME NEW i \in DOMAIN sent', NEW j \in DOMAIN sent', i < j,
               sent'[i].ticker = sent'[j].ticker, sent'[i].value = sent'[j].value,
               sent'[i].message = sent'[j].message
        PROVE  sent'[j].at >= sent'[i].at + Cooldown
    <3>1. i \in DOMAIN sent /\ (j \in DOMAIN sent \/ j = Len(sent) + 1)
      BY <2>8, <2>9
    <3>2. CASE j \in DOMAIN sent
      BY <2>8, <2>9, <3>1, <3>2 DEF SpacedMessages
    <3>3. CASE j = Len(sent) + 1
      <4>1. sent'[j] = new /\ sent'[i] = sent[i]
        BY <2>8, <3>1, <3>3
      <4>2. QED
        BY <2>5, <2>7, <2>9, <3>1, <4>1
    <3>4. QED
      BY <3>1, <3>2, <3>3
  <2>10. QED
    BY <2>9 DEF SpacedMessages
<1>4. QED
  BY <1>2, <1>3

\* For every cooldown and all lists of levels, the same message about the same level
\* is not sent twice within the cooldown.
THEOREM MessagesAreSpaced == Spec => []SpacedMessages
<1>1. Init => SpacedMessages
  BY DEF Init, SpacedMessages
<1>2. ASSUME MonitorInv, SpacedMessages, [Next]_vars
      PROVE  SpacedMessages'
  <2>1. CASE CheckLevel
    BY <1>2, <2>1, RoundIsSpaced
  <2>2. CASE ~CheckLevel
    <3>1. UNCHANGED sent
      BY <1>2, <2>2 DEF Next, vars, monitorVars, StartCycle, FetchLevels, LevelsFail, Move, BarAppears,
                        AddTicker, RemoveTicker, ReadPrice, PriceFails
    <3>2. QED
      BY <1>2, <3>1 DEF SpacedMessages
  <2>3. QED
    BY <2>1, <2>2
<1>3. QED
  BY <1>1, <1>2, MonitorInvariant, PTL DEF Spec

\* At the end of the loop every level it went over has had its message.
LEMMA AllAnnounced ==
  ASSUME MonitorInv, [Next]_vars, Finished
  PROVE  /\ \A l \in DOMAIN levels : WentThrough(levels[l]) =>
              Announced(sent', current.ticker, levels[l].value)
         /\ current # Nothing
<1>1. CheckLevel
  <2>1. levels # <<>> /\ levels' = <<>> /\ current # Nothing
    BY DEF Finished, MonitorInv, LoopInv
  <2>2. QED
    BY <2>1 DEF Next, vars, monitorVars, StartCycle, FetchLevels, LevelsFail, Move, BarAppears,
                AddTicker, RemoveTicker, ReadPrice, PriceFails
<1>2. /\ \A k \in DOMAIN sent : k \in DOMAIN sent' /\ sent'[k] = sent[k]
      /\ WentThrough(levels[checked + 1]) =>
           Announced(sent', current.ticker, levels[checked + 1].value)
  BY <1>1, RoundAnnounces
<1>3. /\ levels \in Seq(LevelRecords) /\ Len(levels) \in Nat /\ DOMAIN levels = 1..Len(levels)
      /\ checked \in Nat /\ checked + 1 = Len(levels)
  BY <1>1 DEF MonitorInv, TypeOK, CheckLevel, Finished
<1>4. ASSUME NEW l \in DOMAIN levels, WentThrough(levels[l])
      PROVE  Announced(sent', current.ticker, levels[l].value)
  <2>1. CASE l = checked + 1
    BY <1>2, <1>4, <2>1
  <2>2. CASE l # checked + 1
    <3>1. l \in 1..checked
      BY <1>3, <2>2
    <3>2. Announced(sent, current.ticker, levels[l].value)
      BY <1>4, <3>1 DEF MonitorInv, ComparedInv
    <3>3. QED
      BY <1>2, <3>2 DEF Announced
  <2>3. QED
    BY <2>1, <2>2
<1>5. QED
  BY <1>4 DEF Finished, MonitorInv, LoopInv

\* Whatever the levels of the chart do, a crossing of an analyst level between two
\* readings of a ticker whose levels were fetched is announced.
THEOREM AnalystLevelsAreAnnounced == Spec => AnalystCrossingAnnounced
<1>1. ASSUME MonitorInv, [Next]_vars, Finished,
             NEW k \in DOMAIN AnalystLevels, WentThrough(AnalystLevels[k])
      PROVE  Announced(sent', current.ticker, AnalystLevels[k].value)
  <2>1. PICK l \in DOMAIN levels : levels[l] = AnalystLevels[k]
    BY <1>1 DEF MonitorInv, AnalystsAreThere, Finished
  <2>2. QED
    BY <1>1, <2>1, AllAnnounced
<1>2. MonitorInv /\ [Next]_vars =>
        [Finished => \A k \in DOMAIN AnalystLevels :
           WentThrough(AnalystLevels[k])
             => Announced(sent', current.ticker, AnalystLevels[k].value)]_vars
  BY <1>1
<1>3. QED
  BY <1>2, MonitorInvariant, PTL DEF Spec, AnalystCrossingAnnounced

\* For every market, watchlist and choice of levels, a crossing of a level the chart
\* showed at the reading before is announced, too, unless today's bar is among the
\* bars and has taken the level off the chart (as run watch_todays_bar shows it can).
THEOREM ChartLevelsAreAnnounced == Spec => OnlyTodaysBarHides
<1>1. ASSUME MonitorInv, [Next]_vars, Finished, ChartIsThere,
             NEW k \in DOMAIN current.shown, WentThrough(current.shown[k])
      PROVE  \/ Announced(sent', current.ticker, current.shown[k].value)
             \/ current.ticker \in live /\ ~Listed(current.shown[k])
  <2>1. current # Nothing /\ levels # <<>>
    BY <1>1, AllAnnounced DEF Finished
  <2>2. CASE Listed(current.shown[k])
    <3>1. PICK l \in DOMAIN levels : levels[l] = current.shown[k]
      BY <2>2 DEF Listed
    <3>2. QED
      BY <1>1, <3>1, AllAnnounced
  <2>3. CASE current.ticker \notin live
    <3>1. current.shown = ChartLevels(current.ticker)
      <4>1. current.shown \in {<<>>, ChartLevels(current.ticker)}
        BY <1>1, <2>1, <2>3 DEF MonitorInv, ChartsStand
      <4>2. current.shown # <<>>
        BY <1>1
      <4>3. QED
        BY <4>1, <4>2
    <3>2. Listed(current.shown[k])
      BY <1>1, <2>1, <2>3, <3>1 DEF MonitorInv, ChartsStand
    <3>3. QED
      BY <2>2, <3>2
  <2>4. QED
    BY <2>2, <2>3
<1>2. MonitorInv /\ [Next]_vars =>
        [Finished /\ ChartIsThere =>
           \A k \in DOMAIN current.shown :
             WentThrough(current.shown[k])
               => \/ Announced(sent', current.ticker, current.shown[k].value)
                  \/ current.ticker \in live /\ ~Listed(current.shown[k])]_vars
  BY <1>1
<1>3. QED
  BY <1>2, MonitorInvariant, PTL DEF Spec, OnlyTodaysBarHides
=============================================================================
