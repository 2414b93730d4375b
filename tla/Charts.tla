------------------------------- MODULE Charts -------------------------------
(***************************************************************************)
(* What is read off a ticker's daily bars (app/analysis): the swing        *)
(* pivots, the support and resistance zones and the option scenarios made  *)
(* of them (support_resistance.py), and the trade of the breakout screener *)
(* (screener.py).                                                          *)
(*                                                                         *)
(* Prices are in cents; bounds that are a part of a price, or of the       *)
(* average true range, in 1/10000 of a cent; scores are per mille.  How    *)
(* the indicators (Bollinger width, moving averages, RSI, MACD, volume)    *)
(* are computed is left out: the screener scores a chart under any of a    *)
(* set of readings of them.  Behaviours extend a chart bar by bar.         *)
(***************************************************************************)
EXTENDS Normalize

CONSTANTS
  Markets,      \* sets of bars [high, low, close]: a chart is made of one of them
  MinBars,      \* below it there are no levels
  MaxBars,      \* bound: the length of a chart
  SwingWindow,  \* _SWING_WINDOW
  AtrPeriod,
  YearOfBars,   \* the 252 bars of the 52-week extremes
  MaxPerSide,   \* levels per side
  Readings,     \* of the indicators; those that need a longer history may be None
  None

ASSUME ChartAssumption ==
  /\ {SwingWindow, MaxPerSide} \subseteq Nat
  /\ {MinBars, AtrPeriod, YearOfBars} \subseteq Nat \ {0}
  /\ \A market \in Markets : \A bar \in market :
       /\ {bar.low, bar.close, bar.high} \subseteq Nat \ {0}
       /\ bar.low <= bar.close /\ bar.close <= bar.high

VARIABLE bars

Spot == Last(bars).close
Fine == 10000
Cents(x) == (x + Fine \div 2) \div Fine
Apart(a, b) == IF a >= b THEN a - b ELSE b - a

-----------------------------------------------------------------------------
(* The bars. *)

Near(i) == {j \in DOMAIN bars : Apart(i, j) <= SwingWindow}

SwingHighs == {i \in DOMAIN bars : \A j \in Near(i) : bars[i].high >= bars[j].high}
SwingLows == {i \in DOMAIN bars : \A j \in Near(i) : bars[i].low <= bars[j].low}

Year == {i \in DOMAIN bars : i > Len(bars) - YearOfBars}
High52 == Max({bars[i].high : i \in Year})
Low52 == Min({bars[i].low : i \in Year})

TrueRange(i) ==
  Larger(bars[i].high - bars[i].low,
         IF i = 1 THEN 0 ELSE Larger(Apart(bars[i].high, bars[i - 1].close),
                                     Apart(bars[i].low, bars[i - 1].close)))

\* The average true range, or 0 for a chart too short.
Atr ==
  IF Len(bars) <= AtrPeriod THEN 0
  ELSE MapThenSumSet(TrueRange, (Len(bars) - AtrPeriod + 1)..Len(bars)) \div AtrPeriod

-----------------------------------------------------------------------------
(* find_levels() *)

\* Half a typical day, or 0.75 % of the price.
Tolerance == Larger(5000 * Atr, 75 * Spot)

\* The price itself: not actionable.
Straddled(price) == Apart(price, Spot) * 1000 < 2 * Spot

Pivots ==
  {[price |-> bars[i].high, bar |-> i, of |-> "high"] : i \in SwingHighs}
    \cup {[price |-> bars[i].low, bar |-> i, of |-> "low"] : i \in SwingLows}

\* Pivots are of one zone when each is close to the one below it.
Opens(p) ==
  \A q \in Pivots : q.price < p.price => (p.price - q.price) * Fine > Tolerance

Zones ==
  LET floors == {p.price : p \in {q \in Pivots : Opens(q)}}
      Zone(floor) == {p \in Pivots : /\ p.price >= floor
                                     /\ \A other \in floors : other > floor => p.price < other}
  IN  {Zone(floor) : floor \in floors}

\* Later touches weigh more.
Weight(p) == Len(bars) + p.bar - 1

ZonePrice(zone) ==
  LET weighted(p) == p.price * Weight(p)
      sum   == MapThenSumSet(weighted, zone)
      total == MapThenSumSet(Weight, zone)
  IN  (2 * sum + total) \div (2 * total)

Kind(price) == IF price > Spot THEN "resistance" ELSE "support"

ZoneLevel(zone) ==
  LET price == ZonePrice(zone)
  IN  [price |-> price, kind |-> Kind(price),
       low |-> Min({p.price : p \in zone}), high |-> Max({p.price : p \in zone})]

ZoneLevels == {level \in {ZoneLevel(zone) : zone \in Zones} : ~Straddled(level.price)}

Uncovered(price, levels) ==
  \A level \in levels : Apart(level.price, price) * Fine > Tolerance

\* The 52-week extremes are levels of their own where no zone has them.
WithExtreme(levels, price, kind) ==
  IF /\ price > 0 /\ ~Straddled(price)
     /\ IF kind = "resistance" THEN price > Spot ELSE price < Spot
     /\ Uncovered(price, levels)
  THEN levels \cup {[price |-> price, kind |-> kind, low |-> price, high |-> price]}
  ELSE levels

Levels ==
  IF Len(bars) < MinBars THEN {}
  ELSE WithExtreme(WithExtreme(ZoneLevels, High52, "resistance"), Low52, "support")

Nearer(a, b) == Apart(a.price, Spot) < Apart(b.price, Spot)

InOrder(levels, before(_, _)) ==
  LET place(a) == Cardinality({b \in levels : before(b, a)})
      n == Min({MaxPerSide, Cardinality(levels)})
  IN  [k \in 1..n |-> CHOOSE a \in levels : place(a) = k - 1]

\* Mutant: the widest zone first.
Mutant_WidestFirst(levels) ==
  LET wider(a, b) == \/ a.high - a.low > b.high - b.low
                     \/ (a.high - a.low = b.high - b.low /\ Nearer(a, b))
  IN  InOrder(levels, wider)

\* The levels of a side, the nearest first.
Ranked(levels) == InOrder(levels, Nearer)

-----------------------------------------------------------------------------
(* build_playbook() *)

\* A third of a typical day, or 0.4 % of the price.
Buffer == Larger(3500 * Atr, 40 * Spot)

JustBelow(price) == Cents(price * Fine - Buffer)
JustAbove(price) == Cents(price * Fine + Buffer)

Play(name, entry, target, stop) ==
  [name |-> name, entry |-> entry, target |-> target, stop |-> stop]

\* The next level, or as far again as the opposite side is away, or three typical days.
Beyond(levels, opposite, sign) ==
  IF Len(levels) > 1 THEN levels[2].price
  ELSE IF opposite # <<>> THEN 2 * levels[1].price - opposite[1].price
  ELSE IF Atr > 0 THEN levels[1].price + 3 * sign * Atr ELSE None

Playbook ==
  LET levels == Levels
      res == Ranked({level \in levels : level.kind = "resistance"})
      sup == Ranked({level \in levels : level.kind = "support"})
  IN  (IF res = <<>> THEN {}
       ELSE {Play("breakout", res[1].price, Beyond(res, sup, 1), JustBelow(res[1].low))})
      \cup (IF sup = <<>> THEN {}
            ELSE {Play("breakdown", sup[1].price, Beyond(sup, res, -1), JustAbove(sup[1].high))})
      \cup (IF res = <<>> \/ sup = <<>> THEN {}
            ELSE {Play("bounce", sup[1].price, res[1].price, JustBelow(sup[1].low)),
                  Play("rejection", res[1].price, sup[1].price, JustAbove(res[1].high))})

Calls == {"breakout", "bounce"}

-----------------------------------------------------------------------------
(* The setup score of evaluate() in screener.py, of a chart and a reading:
     width    share of the last months whose Bollinger bands were narrower
     tighter  narrower than twenty sessions ago
     dryup, pickup   how quiet the volume was, and how much of it came back
     above50, stacked, rising   the price over its 50-day average, the 20-day
              average over it, and it over its own past
     rsi, macd ("up", "down", "flat"), month (the change in percent)            *)

Peaks == {h \in {bars[i].high : i \in SwingHighs} : h * 1000 > Spot * 1001}
Troughs == {l \in {bars[i].low : i \in SwingLows} : l * 1000 < Spot * 999}

Coil(r) ==
  IF r.width = None THEN 0 ELSE Clamp(One - r.width + (IF r.tighter THEN 100 ELSE 0))

\* How close the price is pressed under the next ceiling, or to its 52-week high.
Proximity ==
  LET primed == (High52 - Spot) * 20000 <= 1001 * Spot
  IN  Clamp((IF Peaks = {} THEN 850
             ELSE Clamp((2 * (3 * One * Spot - 20000 * (Min(Peaks) - Spot)) + 3 * Spot) \div (6 * Spot)))
            + (IF primed THEN 100 ELSE 0))

Volume(r) ==
  IF r.dryup = None THEN 500 ELSE Clamp(400 + (400 * r.dryup + 300 * r.pickup + 500) \div One)

Trend(r) ==
  (IF r.above50 THEN 500 ELSE 0) + (IF r.stacked THEN 250 ELSE 0) + (IF r.rising THEN 250 ELSE 0)

Momentum(r) ==
  LET room == CASE r.rsi = None -> 500
                [] r.rsi # None /\ r.rsi > 72 -> 250
                [] r.rsi \in 66..72 -> 600
                [] r.rsi \in 50..65 -> 900
                [] r.rsi \in 45..49 -> 700
                [] r.rsi \in 38..44 -> 450
                [] OTHER -> 250
      turn == CASE r.macd = "up" -> 100 [] r.macd = "down" -> -100 [] OTHER -> 0
  IN  Clamp(room + turn)

Strength(r) ==
  CASE r.month = None -> 500
    [] r.month # None /\ r.month < 0 -> Clamp(500 + 25 * r.month)
    [] r.month \in 0..4 -> 600
    [] r.month \in 5..40 -> 900
    [] r.month \in 41..60 -> 700
    [] OTHER -> 500

SetupScore(r) ==
  (28 * Coil(r) + 22 * Proximity + 15 * Volume(r) + 15 * Trend(r) + 12 * Momentum(r)
     + 8 * Strength(r) + 50) \div 100

Classification(r) ==
  LET score == SetupScore(r)
  IN  IF score >= 750 /\ Proximity >= 600 /\ Coil(r) >= 500 THEN "imminent"
      ELSE IF Coil(r) >= 700 /\ score >= 600 THEN "coiling"
      ELSE IF Trend(r) >= 750 /\ Momentum(r) >= 700 /\ score >= 600 THEN "leader"
      ELSE IF score >= 500 THEN "basing" ELSE "none"

-----------------------------------------------------------------------------
(* The trade of evaluate() *)

Trigger == IF Peaks = {} THEN High52 ELSE Min(Peaks)
Stop == IF Troughs = {} THEN Low52 ELSE Max(Troughs)

Higher == {h \in {bars[i].high : i \in SwingHighs} : h * 1000 > Trigger * 1001}

\* The next swing high, or the height of the base again, or three typical days.
Target ==
  IF Higher # {} THEN Min(Higher)
  ELSE IF Troughs # {} THEN 2 * Trigger - Stop
  ELSE IF Atr > 0 THEN Trigger + 3 * Atr ELSE None

-----------------------------------------------------------------------------

ChartInit == bars = <<>>

NextBar ==
  /\ Len(bars) < MaxBars
  /\ \E market \in Markets :
       /\ Range(bars) \subseteq market
       /\ \E bar \in market : bars' = Append(bars, bar)

ChartSpec == ChartInit /\ [][NextBar]_bars

-----------------------------------------------------------------------------
(* Properties. *)

\* Every trade read off a chart has its stop on the losing side of the entry and its
\* target on the winning side, whichever zone, extreme, projection or buffer they come
\* from: the plays of the playbook, and the trade of the screener, which brackets the
\* price.  Below $1.25 the buffer is less than half a cent and a play's stop may round to its
\* entry.  What the screener calls imminent is not chased: its trigger is within 7.5 % of the
\* price (7.51 % where the score is rounded up), under any reading of the indicators, blue sky
\* included.
TradesPointTheRightWay ==
  Len(bars) >= MinBars =>
    /\ \A play \in Playbook :
         LET dir == IF play.name \in Calls THEN 1 ELSE -1
         IN  /\ dir * (play.entry - play.stop) >= IF Spot > 125 THEN 1 ELSE 0
             /\ play.target # None => dir * (play.target - play.entry) > 0
    /\ Stop <= Spot /\ Spot <= Trigger
    /\ Target # None => Trigger < Target
    /\ (\E r \in Readings : Classification(r) = "imminent") => (Trigger - Spot) * 10000 <= 751 * Spot
=============================================================================
