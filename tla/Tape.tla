-------------------------------- MODULE Tape --------------------------------
(***************************************************************************)
(* What is read off the stored prints: the feeds, the roll-up per contract *)
(* and the leaderboard of the read API (api/routes/flow.py), the smart     *)
(* money score (scoring/smart_money.py), and the shortlists of the nightly *)
(* jobs (jobs/digest.py, ai_scanner.py, screener_scan.py).                 *)
(*                                                                         *)
(* A print is stored with its features and its score:                      *)
(*   ticker, call, line (strike and expiry), side, size, opening,          *)
(*   premium (in units of 250 000 dollars), volOi and ivRank (per mille),  *)
(*   confidence (per mille)                                                *)
(* The queries look back over a window of time; the first `old` prints     *)
(* have left it.  Ties fall in the order of arrival (the database leaves   *)
(* it open).                                                               *)
(***************************************************************************)
EXTENDS Normalize, SequencesExt

CONSTANTS
  Universe,        \* the screener's universe
  Setups,         \* [Universe -> per mille]: what the charts score
  Prints,         \* the prints that may be stored
  MaxPrints,      \* bound: the prints stored
  RowLimit,       \* .limit(200)
  Picks,          \* setups of a digest
  ScanTop,        \* ai_scan_top_n
  ScreenTop,      \* screener_top_n
  MinSetup,       \* screener_min_score
  FeedLimit,      \* prints of a feed
  RollupLimit,    \* contracts of the roll-up
  BoardLimit,     \* tickers of the leaderboard
  MinBoard,       \* min_premium of the leaderboard
  UnusualVolOi, UnusualPremium,
  NoFlow

ASSUME TapeAssumption ==
  /\ {RowLimit, Picks, ScanTop, ScreenTop, FeedLimit, RollupLimit, BoardLimit,
      MinSetup, MinBoard, UnusualVolOi, UnusualPremium} \subseteq Nat
  /\ \A p \in Prints :
       /\ p.premium \in Nat \ {0}
       /\ {p.size, p.volOi} \subseteq Nat
       /\ {p.ivRank, p.confidence} \subseteq 0..One
  /\ IsFiniteSet(Universe)
  /\ Setups \in [Universe -> 0..One]
  /\ NoFlow \notin Nat

VARIABLES tape, old

tapeVars == <<tape, old>>

-----------------------------------------------------------------------------
(* Helpers. *)

InWindow == (old + 1)..Len(tape)

Contract(i) == [ticker |-> tape[i].ticker, call |-> tape[i].call, line |-> tape[i].line]

Sum(f(_), S) == MapThenSumSet(f, S)
Premium(i) == tape[i].premium
Premiums(S) == Sum(Premium, S)

\* ORDER BY key DESC LIMIT n.
Top(S, key(_), n) ==
  LET before(a, b) == key(a) > key(b) \/ (key(a) = key(b) /\ a < b)
      place(a) == Cardinality({b \in S : before(b, a)})
  IN  [k \in 1..Min({n, Cardinality(S)}) |-> CHOOSE a \in S : place(a) = k - 1]

\* The first of every key in a listing.
Distinct(list, key(_)) ==
  LET firsts == {k \in DOMAIN list : \A j \in 1..(k - 1) : key(list[j]) # key(list[k])}
  IN  [i \in 1..Cardinality(firsts) |->
         list[CHOOSE k \in firsts : Cardinality({j \in firsts : j < k}) = i - 1]]

FirstOf(list, n) == SubSeq(list, 1, Min({n, Len(list)}))

-----------------------------------------------------------------------------
(* api/routes/flow.py *)

\* GET /flow/recent?sort=premium&side=ask: "the big buys feed".
BigBuys == Top({i \in DOMAIN tape : tape[i].side = "ask"}, Premium, FeedLimit)

PrintsOf(contract) == {i \in InWindow : Contract(i) = contract}
Traded == {Contract(i) : i \in InWindow}

\* A row of GET /flow/contracts; its share of bought is None where nothing is directional.
RollupRow(contract) ==
  LET mine == PrintsOf(contract)
      Size(i) == tape[i].size
      Volume(side) == Sum(Size, {i \in mine : tape[i].side = side})
  IN  [premium |-> Premiums(mine),
       bought |-> Volume("ask"), sold |-> Volume("bid"),
       opening |-> \E i \in mine : tape[i].opening]

BullShare(row) ==
  IF row.bought + row.sold = 0 THEN 0 ELSE (1000 * row.bought) \div (row.bought + row.sold)

\* The contracts with the most premium.
Rollup ==
  {contract \in Traded :
     Cardinality({other \in Traded : RollupRow(other).premium > RollupRow(contract).premium})
       < RollupLimit}

-----------------------------------------------------------------------------
(* smart_money.py *)

\* The logistic of the premium that hit the ask: half at $500 000.
BoughtScore(units) ==
  LET curve == <<339, 417, 500, 583, 661, 731, 791, 841, 881, 912, 935, 953, 966>>
  IN  curve[Min({units, 12}) + 1]

OfTicker(t) == {i \in InWindow : tape[i].ticker = t}

\* "Confidence weighted by premium so a single big print dominates".
Conviction(t) ==
  LET weighted(i) == tape[i].confidence * Premium(i)
  IN  Sum(weighted, OfTicker(t)) \div Premiums(OfTicker(t))


\* Mutant: counts the contracts opened.
Mutant_ContractsOpened(t) ==
  LET n == Cardinality(OfTicker(t))
  IN  IF n < 3 THEN 0
      ELSE (1000 * Cardinality({Contract(i) : i \in {j \in OfTicker(t) : tape[j].opening}})) \div n

\* An opening share of fewer than three prints does not count.
OpeningShare(t) ==
  LET n == Cardinality(OfTicker(t))
  IN  IF n < 3 THEN 0
      ELSE (1000 * Cardinality({i \in OfTicker(t) : tape[i].opening})) \div n

AvgIvRank(t) ==
  LET rank(i) == tape[i].ivRank
  IN  Sum(rank, OfTicker(t)) \div Cardinality(OfTicker(t))

VolOiScore(t) ==
  Clamp((2 * (Max({tape[i].volOi : i \in OfTicker(t)}) - 500)) \div 19)

Breadth(t) ==
  Clamp((1000 * (Cardinality({Contract(i) : i \in OfTicker(t)}) - 1)) \div 9)

SmartMoney(t) ==
  (30 * BoughtScore(Premiums({i \in OfTicker(t) : tape[i].side = "ask"}))
     + 20 * VolOiScore(t) + 15 * OpeningShare(t) + 10 * (One - AvgIvRank(t))
     + 15 * Conviction(t) + 10 * Breadth(t)) \div 100

\* The tickers of GET /flow/smart-money, which are of those with enough premium.
OnTheTape == {t \in Universe : OfTicker(t) # {} /\ Premiums(OfTicker(t)) >= MinBoard}

Leaderboard ==
  {t \in OnTheTape :
     Cardinality({other \in OnTheTape : SmartMoney(other) > SmartMoney(t)}) < BoardLimit}

-----------------------------------------------------------------------------
(* The nightly jobs. *)

\* The unusual opening prints.
Qualifying ==
  {i \in InWindow : /\ tape[i].opening
                    /\ tape[i].volOi >= UnusualVolOi
                    /\ tape[i].premium >= UnusualPremium}

\* Mutant: ORDER BY observed_at DESC.
Mutant_NewestRows ==
  LET newness(i) == i IN Top(Qualifying, newness, RowLimit)

LargestRows == Top(Qualifying, Premium, RowLimit)

\* build_digest(): the prints listed, one per contract.
Digest == FirstOf(Distinct(LargestRows, Contract), Picks)

TickerAt(i) == tape[i].ticker
TickersOf(list) == [k \in DOMAIN list |-> TickerAt(list[k])]

\* _top_tickers() of the AI scan.
ScanTickers == TickersOf(FirstOf(Distinct(LargestRows, TickerAt), ScanTop))

\* _unusual_call_flow(): the largest print, or NoFlow.
CallFlow(t) ==
  LET calls == {i \in Qualifying : tape[i].call /\ tape[i].ticker = t}
  IN  IF calls = {} THEN NoFlow ELSE Max({Premium(i) : i \in calls})

\* run_screen(): flow adds 8 points and goes first.
Boosted(t) == IF CallFlow(t) = NoFlow THEN Setups[t] ELSE Min({One, Setups[t] + 80})

Precedes(a, b) ==
  \/ CallFlow(a) # NoFlow /\ CallFlow(b) = NoFlow
  \/ /\ (CallFlow(a) = NoFlow) = (CallFlow(b) = NoFlow)
     /\ Boosted(a) > Boosted(b)

Candidates ==
  {t \in Universe : /\ Boosted(t) >= MinSetup
                   /\ Cardinality({u \in Universe : Boosted(u) >= MinSetup /\ Precedes(u, t)})
                        < ScreenTop}

-----------------------------------------------------------------------------
(* The tape grows at its end, and the window leaves its beginning behind. *)

TapeInit == tape = <<>> /\ old = 0

\* A print is stored with its features and score (see ScoringConsumer and LitePipeline).
Store(p) ==
  /\ Len(tape) < MaxPrints
  /\ tape' = Append(tape, p)
  /\ UNCHANGED old

\* The oldest print in the window leaves it.
Leave ==
  /\ old < Len(tape)
  /\ old' = old + 1
  /\ UNCHANGED tape

TapeNext == Leave \/ \E p \in Prints : Store(p)

TapeSpec == TapeInit /\ [][TapeNext]_tapeVars

-----------------------------------------------------------------------------
(* Properties. *)

\* The digest is the top of the day: one print per contract, the largest it had, and
\* no contract left out is larger than one listed; it is short of setups only when
\* there are no more, or more prints than the query's LIMIT, which is applied before
\* repeated contracts are dropped.  The AI scan writes up the same tickers in the same
\* order, as far as both go.  No print of the feed of big buys is smaller than one it
\* leaves out.
ShortlistIsTheTop ==
  LET listed == {Contract(Digest[k]) : k \in DOMAIN Digest}
      tickers == TickersOf(Distinct(Digest, TickerAt))
      shorter == Min({Len(tickers), Len(ScanTickers)})
  IN  /\ Cardinality(listed) = Len(Digest)
      /\ \A i \in Qualifying, k \in DOMAIN Digest :
           Contract(i) = Contract(Digest[k]) \/ Contract(i) \notin listed
             => Premium(i) <= Premium(Digest[k])
      /\ Len(Digest) < Picks =>
           \/ \A i \in Qualifying : Contract(i) \in listed
           \/ Cardinality(Qualifying) > RowLimit
      /\ SubSeq(tickers, 1, shorter) = SubSeq(ScanTickers, 1, shorter)
      /\ \A i \in DOMAIN tape, k \in DOMAIN BigBuys :
           tape[i].side = "ask" /\ i \notin Range(BigBuys) => Premium(i) <= Premium(BigBuys[k])

\* An aggressive, unusual, opening buy of calls, with at least the conviction of what
\* the ticker traded before and no dearer volatility.
Strong(p) ==
  /\ p.call /\ p.side = "ask" /\ p.opening
  /\ p.volOi >= UnusualVolOi /\ p.premium >= UnusualPremium
  /\ OfTicker(p.ticker) # {} =>
       p.confidence >= Conviction(p.ticker) /\ p.ivRank <= AvgIvRank(p.ticker)

\* The views agree on what is bullish: one more strong print lowers no score of its
\* ticker or contract and costs neither its place in any listing.
StrongPrintNeverDemotes ==
  [][\A p \in Prints :
       tape' = Append(tape, p) /\ Strong(p) =>
         LET t == p.ticker
             contract == [ticker |-> t, call |-> p.call, line |-> p.line]
         IN  /\ OfTicker(t) # {} => SmartMoney(t)' >= SmartMoney(t)
             /\ t \in Leaderboard => t \in Leaderboard'
             /\ contract \in Rollup =>
                  /\ contract \in Rollup'
                  /\ BullShare(RollupRow(contract))' >= BullShare(RollupRow(contract))
             /\ t \in Range(ScanTickers) => t \in Range(ScanTickers)'
             /\ t \in Candidates => t \in Candidates'
    ]_tapeVars
=============================================================================
