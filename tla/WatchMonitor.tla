---------------------------- MODULE WatchMonitor ----------------------------
(***************************************************************************)
(* The watchlist price monitor (app/jobs/watch_monitor.py) with the chart  *)
(* levels it asks for (breakout_above and breakdown_below of               *)
(* app/analysis/technicals.py) and the analyst levels of the database.     *)
(* The market moves between any two steps of the monitor.                  *)
(*                                                                         *)
(* A price is a natural number.  The clock counts poll cycles, so the      *)
(* cooldown is a number of cycles.  The daily bars are reduced to their    *)
(* swing highs and lows, the highest high, the lowest low and the last     *)
(* close.  analyze() asks for the bars up to now (lines 111-114), so       *)
(* today's unfinished bar is among them from some moment of the day on.    *)
(***************************************************************************)
EXTENDS Naturals, Sequences, FiniteSets, FiniteSetsExt

CONSTANTS
  Tickers,
  MaxPrice,     \* bound: prices are 1..MaxPrice
  SwingHighs,   \* of the daily bars, the same for every ticker
  SwingLows,
  Resistances,  \* the lists of the AnalystLevels row, the same for every ticker
  Supports,
  Failures,     \* subset of {"price", "chart", "database"}: what may fail
  ApproachPct,  \* watchlist_approach_pct
  Cooldown,     \* alert_cooldown_min, in cycles
  MaxCycles,    \* bound: poll cycles
  NoPrice

Prices == 1..MaxPrice

ASSUME MonitorAssumption ==
  /\ MaxPrice \in Nat /\ MaxCycles \in Nat /\ Cooldown \in Nat
  /\ SwingHighs \cup SwingLows \subseteq Prices
  /\ {Resistances, Supports} \subseteq Seq(Prices)
  /\ Failures \subseteq {"price", "chart", "database"}
  /\ NoPrice \notin Prices

VARIABLES
  \* the market
  price,
  close,      \* last close of the daily bars
  high, low,  \* their extremes
  live,       \* the tickers whose bar of today is among them already
  \* the watchlist table
  watched,
  \* the monitor
  cycle,
  todo,       \* tickers left in this cycle
  current,    \* the ticker that is being checked, with both prices
  levels,     \* its levels, once they are fetched
  checked,    \* how many of them have been compared
  lastPrice,  \* _last_price
  lastAlert,  \* _last_alert, its keys taken apart
  sent,       \* history: every message
  shown       \* history: the chart levels at the last reading of a ticker

marketVars == <<price, close, high, low, live>>
monitorVars == <<cycle, todo, current, levels, checked, lastPrice, lastAlert, sent>>
vars == <<marketVars, watched, monitorVars, shown>>

\* The keys "TICKER:level" and "TICKER:level:approach".
Notices == {"cross", "near"}
Keys == Tickers \X Prices \X Notices

Nothing == [ticker |-> "none"]

Distance(a, b) == IF a >= b THEN a - b ELSE b - a

-----------------------------------------------------------------------------
(* The market and the watchlist. *)

\* The last of the daily bars is today's, and p is the price.
TodaysBar(t, p) ==
  /\ close' = [close EXCEPT ![t] = p]
  /\ high' = [high EXCEPT ![t] = Max({@, p})]
  /\ low' = [low EXCEPT ![t] = Min({@, p})]

\* The price jumps.  Today's bar follows it once it is among the bars.
Move(t) ==
  \E p \in Prices \ {price[t]} :
    /\ price' = [price EXCEPT ![t] = p]
    /\ IF t \in live THEN TodaysBar(t, p) ELSE UNCHANGED <<close, high, low>>
    /\ UNCHANGED <<live, watched, monitorVars, shown>>

\* Today's bar comes up among the daily bars.
BarAppears(t) ==
  /\ t \notin live
  /\ live' = live \cup {t}
  /\ TodaysBar(t, price[t])
  /\ UNCHANGED <<price, watched, monitorVars, shown>>

\* POST and DELETE of a watchlist entry; the monitor is not told.
AddTicker(t) ==
  /\ t \notin watched
  /\ watched' = watched \cup {t}
  /\ UNCHANGED <<marketVars, monitorVars, shown>>

RemoveTicker(t) ==
  /\ t \in watched
  /\ watched' = watched \ {t}
  /\ UNCHANGED <<marketVars, monitorVars, shown>>

-----------------------------------------------------------------------------
(* The levels of a ticker: analyze() keeps the swing highs above the last      *)
(* close by more than 0.2 %, and the swing lows below it by more than that.    *)

Above(t) == {h \in SwingHighs : 1000 * h > 1002 * close[t]}
Below(t) == {l \in SwingLows : 1000 * l < 998 * close[t]}

BreakoutAbove(t) ==
  IF Above(t) = {} THEN high[t] ELSE Min(Above(t))

BreakdownBelow(t) ==
  IF Below(t) = {} THEN low[t] ELSE Max(Below(t))

Level(kind, value) == [kind |-> kind, value |-> value]

ChartLevels(t) ==
  <<Level("resistance", BreakoutAbove(t)), Level("support", BreakdownBelow(t))>>

AnalystLevels ==
  [k \in DOMAIN Resistances |-> Level("resistance", Resistances[k])]
  \o [k \in DOMAIN Supports |-> Level("support", Supports[k])]

-----------------------------------------------------------------------------
(* _check() of one level, prev and now being the two prices. *)

CrossedUp(prev, now, value) == prev < value /\ value <= now
CrossedDown(prev, now, value) == prev > value /\ value >= now

Mutant_PastOnly(kind, prev, now, value) ==
  IF kind = "resistance" THEN prev < value /\ value < now
                         ELSE prev > value /\ value > now
Crossed(kind, prev, now, value) ==
  IF kind = "resistance" THEN CrossedUp(prev, now, value)
                         ELSE CrossedDown(prev, now, value)

\* Inside the band around the level now, outside of it before.
Approached(prev, now, value) ==
  /\ 100 * Distance(now, value) <= ApproachPct * value
  /\ 100 * Distance(prev, value) > ApproachPct * value

Mutant_NeverCooled(last) == FALSE
Cooled(last) == last # 0 /\ cycle - last < Cooldown

Mutant_OneCooldown(t, level, prev, now) ==
  IF \E notice \in Notices : Cooled(lastAlert[<<t, level.value, notice>>]) THEN "none"
  ELSE IF Crossed(level.kind, prev, now, level.value) THEN "cross"
       ELSE IF Approached(prev, now, level.value) THEN "near" ELSE "none"

\* The message for a level of t; "none" if there is none.
MessageFor(t, level, prev, now) ==
  IF Crossed(level.kind, prev, now, level.value)
     /\ ~Cooled(lastAlert[<<t, level.value, "cross">>])
  THEN "cross"
  ELSE IF Approached(prev, now, level.value)
          /\ ~Cooled(lastAlert[<<t, level.value, "near">>])
       THEN "near"
       ELSE "none"

-----------------------------------------------------------------------------
(* run(). *)

\* A cycle starts: _tickers() reads the watchlist.  If it raises, the cycle is over.
StartCycle ==
  /\ todo = {} /\ current = Nothing
  /\ cycle < MaxCycles
  /\ cycle' = cycle + 1
  /\ \/ todo' = watched
     \/ "database" \in Failures /\ todo' = {}
  /\ UNCHANGED <<marketVars, watched, current, levels, checked, lastPrice,
                 lastAlert, sent, shown>>

\* What is left to do for a ticker that was read: nothing without an earlier price.
Comparison(t) ==
  [ticker |-> t, prev |-> lastPrice[t], now |-> price[t],
   shown |-> shown[t]]

ToCompare(t) == IF lastPrice[t] = NoPrice THEN Nothing ELSE Comparison(t)

\* current_price() answers for the next ticker.  Its price becomes the baseline
\* at once; without an earlier one nothing else is done.
ReadPrice(t) ==
  /\ t \in todo /\ current = Nothing
  /\ todo' = todo \ {t}
  /\ lastPrice' = [lastPrice EXCEPT ![t] = price[t]]
  /\ shown' = [shown EXCEPT ![t] = ChartLevels(t)]
  /\ current' = ToCompare(t)
  /\ UNCHANGED <<marketVars, watched, cycle, levels, checked, lastAlert, sent>>

\* No price (current_price() turns every exception into None): the ticker is skipped in this cycle.
PriceFails(t) ==
  /\ "price" \in Failures
  /\ t \in todo /\ current = Nothing
  /\ todo' = todo \ {t}
  /\ UNCHANGED <<marketVars, watched, cycle, current, levels, checked, lastPrice,
                 lastAlert, sent, shown>>

\* The levels are there, the chart's before the analyst's.  A failing analyze()
\* leaves out those of the chart.
FetchLevels ==
  /\ current # Nothing /\ levels = <<>>
  /\ \/ levels' = ChartLevels(current.ticker) \o AnalystLevels
     \/ "chart" \in Failures /\ levels' = AnalystLevels
  /\ current' = IF levels' = <<>> THEN Nothing ELSE current
  /\ UNCHANGED <<marketVars, watched, cycle, todo, checked, lastPrice, lastAlert,
                 sent, shown>>

\* A message goes out and leaves a mark, which the levels after it see.
Tell(t, value, message) ==
  /\ lastAlert' = [lastAlert EXCEPT ![<<t, value, message>>] = cycle]
  /\ sent' = Append(sent, [ticker |-> t, message |-> message, value |-> value,
                           at |-> cycle])

\* One round of the loop: the next level is compared with the two prices.
CheckLevel ==
  LET t == current.ticker
      level == levels[checked + 1]
      message == MessageFor(t, level, current.prev, current.now)
  IN  /\ levels # <<>>
      /\ IF message = "none" THEN UNCHANGED <<lastAlert, sent>>
                            ELSE Tell(t, level.value, message)
      /\ IF checked + 1 = Len(levels)
         THEN checked' = 0 /\ levels' = <<>> /\ current' = Nothing
         ELSE checked' = checked + 1 /\ UNCHANGED <<levels, current>>
      /\ UNCHANGED <<marketVars, watched, cycle, todo, lastPrice, shown>>

\* _analyst() raises: run() gives up the rest of the cycle.
LevelsFail ==
  /\ "database" \in Failures
  /\ current # Nothing /\ levels = <<>>
  /\ current' = Nothing
  /\ todo' = {}
  /\ UNCHANGED <<marketVars, watched, cycle, levels, checked, lastPrice, lastAlert,
                 sent, shown>>

Init ==
  /\ price \in [Tickers -> Prices]
  /\ close = price
  /\ high = [t \in Tickers |-> Max(SwingHighs \cup {price[t]})]
  /\ low = [t \in Tickers |-> Min(SwingLows \cup {price[t]})]
  /\ live = {}
  /\ watched = Tickers
  /\ cycle = 0
  /\ todo = {}
  /\ current = Nothing
  /\ levels = <<>>
  /\ checked = 0
  /\ lastPrice = [t \in Tickers |-> NoPrice]
  /\ lastAlert = [key \in Keys |-> 0]
  /\ sent = <<>>
  /\ shown = [t \in Tickers |-> <<>>]

Next ==
  \/ StartCycle
  \/ FetchLevels
  \/ CheckLevel
  \/ LevelsFail
  \/ \E t \in Tickers :
       \/ Move(t)
       \/ BarAppears(t)
       \/ AddTicker(t)
       \/ RemoveTicker(t)
       \/ ReadPrice(t)
       \/ PriceFails(t)

Spec == Init /\ [][Next]_vars
-----------------------------------------------------------------------------
(* Properties. *)

LevelRecords == [kind : {"resistance", "support"}, value : Prices]

Comparisons ==
  [ticker : Tickers, prev : Prices, now : Prices, shown : Seq(LevelRecords)]

Messages == [ticker : Tickers, message : Notices, value : Prices, at : 1..MaxCycles]

\* Every variable has its type.
TypeOK ==
  /\ {price, close, high, low} \subseteq [Tickers -> Prices]
  /\ live \subseteq Tickers
  /\ watched \subseteq Tickers
  /\ cycle \in 0..MaxCycles
  /\ todo \subseteq Tickers
  /\ current \in Comparisons \cup {Nothing}
  /\ levels \in Seq(LevelRecords)
  /\ checked \in Nat
  /\ lastPrice \in [Tickers -> Prices \cup {NoPrice}]
  /\ lastAlert \in [Keys -> 0..MaxCycles]
  /\ sent \in Seq(Messages)
  /\ shown \in [Tickers -> Seq(LevelRecords)]

\* The price went through a level between the last two readings of its ticker.
WentThrough(l) ==
  \/ l.kind = "resistance" /\ CrossedUp(current.prev, current.now, l.value)
  \/ l.kind = "support" /\ CrossedDown(current.prev, current.now, l.value)

\* A crossing of the level was announced in this cycle or not longer than a
\* cooldown ago.
Announced(messages, t, value) ==
  \E k \in DOMAIN messages :
    /\ messages[k].ticker = t /\ messages[k].value = value
    /\ messages[k].message = "cross"
    /\ messages[k].at = cycle \/ cycle - messages[k].at < Cooldown

\* The last level of a ticker has been compared.
Finished == levels # <<>> /\ levels' = <<>>

\* The levels of the chart are those that come on top of the analyst's.
ChartIsThere == Len(levels) > Len(AnalystLevels)

\* When the levels could be fetched, a price that crossed an analyst level between
\* two readings has been announced at the end of the loop, or the level was within
\* the cooldown ("pings you when its price crosses a key level", watch_monitor.py).
\* Messages of the other kind, and about other levels, do not stand in the way.
AnalystCrossingAnnounced ==
  [][Finished => \A k \in DOMAIN AnalystLevels :
       WentThrough(AnalystLevels[k])
         => Announced(sent', current.ticker, AnalystLevels[k].value)]_vars

\* The same for the levels the chart showed at the reading before ("the mechanical
\* breakout/breakdown from the technical analysis", watch_monitor.py:4), when the
\* chart is there.  It fails (run watch_todays_bar): today's bar takes the level off
\* the chart before the price is compared with it.
ChartCrossingAnnounced ==
  [][Finished /\ ChartIsThere =>
       \A k \in DOMAIN current.shown :
         WentThrough(current.shown[k])
           => Announced(sent', current.ticker, current.shown[k].value)]_vars

\* The level is among those the loop goes over.
Listed(l) == \E k \in DOMAIN levels : levels[k] = l

\* What holds of them: only today's bar costs a crossing of a chart level its
\* message.  Without it every crossing is announced, and with it every crossing of
\* a level that is still on the chart.
OnlyTodaysBarHides ==
  [][Finished /\ ChartIsThere =>
       \A k \in DOMAIN current.shown :
         WentThrough(current.shown[k])
           => \/ Announced(sent', current.ticker, current.shown[k].value)
              \/ current.ticker \in live /\ ~Listed(current.shown[k])]_vars

\* The same message about the same level is not repeated within the cooldown, be
\* it a chart level, an analyst level or both.
SpacedMessages ==
  \A i, j \in DOMAIN sent :
    (/\ i < j
     /\ sent[i].ticker = sent[j].ticker /\ sent[i].value = sent[j].value
     /\ sent[i].message = sent[j].message) => sent[j].at >= sent[i].at + Cooldown

-----------------------------------------------------------------------------
(* The inductive invariants (the proofs are in WatchMonitor_proofs).          *)

\* The loop is somewhere in the levels of the current ticker.
LoopInv ==
  /\ levels # <<>> => current # Nothing /\ checked < Len(levels)
  /\ levels = <<>> => checked = 0
  /\ current # Nothing => cycle > 0
  /\ todo # {} => cycle > 0

\* The mark of a key is the cycle of the last message about it.
MarksInv ==
  /\ \A key \in Keys : lastAlert[key] <= cycle
  /\ \A k \in DOMAIN sent : sent[k].at <= lastAlert[<<sent[k].ticker, sent[k].value, sent[k].message>>]
  /\ \A key \in Keys : lastAlert[key] # 0 =>
       \E k \in DOMAIN sent :
         sent[k] = [ticker |-> key[1], message |-> key[3], value |-> key[2], at |-> lastAlert[key]]

\* The levels compared so far have had their message.
ComparedInv ==
  \A k \in 1..checked :
    WentThrough(levels[k]) => Announced(sent, current.ticker, levels[k].value)

\* The loop runs over the analyst's levels, and over the chart's if they are there.
AnalystsAreThere ==
  levels # <<>> =>
    \A k \in DOMAIN AnalystLevels : \E l \in DOMAIN levels : levels[l] = AnalystLevels[k]

\* The bars of the days before do not move, and so the levels of the chart do not.
ChartsStand ==
  /\ \A t \in Tickers \ live : shown[t] \in {<<>>, ChartLevels(t)}
  /\ current # Nothing /\ current.ticker \notin live =>
       /\ current.shown \in {<<>>, ChartLevels(current.ticker)}
       /\ levels # <<>> /\ ChartIsThere =>
            \A k \in DOMAIN ChartLevels(current.ticker) : Listed(ChartLevels(current.ticker)[k])

MonitorInv ==
  /\ TypeOK
  /\ LoopInv
  /\ MarksInv
  /\ ComparedInv
  /\ AnalystsAreThere
  /\ ChartsStand
=============================================================================
