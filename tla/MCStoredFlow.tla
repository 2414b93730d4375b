---------------------------- MODULE MCStoredFlow ----------------------------
(* Values for model-checking ScoringConsumer, which stores the scored flow, and *)
(* what is read off the stored flow (Tape) and off price charts (Charts).       *)
EXTENDS ScoringConsumer, Charts, Tape

Bar(high, low, close) == [high |-> high, low |-> low, close |-> close]

\* A stock at a hundred dollars, quiet or swinging, and one below a dollar.
TwoMarkets ==
  {{Bar(10000, 9900, 9950), Bar(10120, 10050, 10100), Bar(10300, 10100, 10200),
    Bar(9700, 9500, 9600), Bar(10000, 9500, 9980)},
   {Bar(50, 49, 50), Bar(100, 51, 100), Bar(200, 100, 150), Bar(51, 50, 50)}}

Reading(width, tighter, dryup, pickup, trending, rsi, macd, month) ==
  [width |-> width, tighter |-> tighter, dryup |-> dryup, pickup |-> pickup,
   above50 |-> trending, stacked |-> trending, rising |-> trending,
   rsi |-> rsi, macd |-> macd, month |-> month]

\* The best setup there is, a short history, a quiet leader, a falling knife.
SomeReadings ==
  {Reading(50, TRUE, 800, 700, TRUE, 58, "up", 12),
   Reading(None, FALSE, None, None, TRUE, None, "flat", None),
   Reading(300, FALSE, 500, 0, TRUE, 70, "down", 50),
   Reading(900, TRUE, 0, 0, FALSE, 30, "down", -15)}

PrintOf(ticker, call, line, side, opening, premium, volOi, ivRank, confidence) ==
  [ticker |-> ticker, call |-> call, line |-> line, side |-> side, size |-> 10 * premium,
   opening |-> opening, premium |-> premium, volOi |-> volOi, ivRank |-> ivRank,
   confidence |-> confidence]

SomePrints ==
  {PrintOf("A", TRUE, "near", "ask", TRUE, 2, 6000, 300, 700),
   PrintOf("A", TRUE, "near", "ask", TRUE, 4, 9000, 200, 900),
   PrintOf("A", TRUE, "far", "bid", FALSE, 3, 400, 500, 300),
   PrintOf("A", FALSE, "near", "mid", TRUE, 3, 6000, 500, 600),
   PrintOf("B", TRUE, "near", "ask", TRUE, 3, 6000, 500, 800),
   PrintOf("B", FALSE, "far", "bid", TRUE, 5, 7000, 800, 500),
   PrintOf("C", TRUE, "near", "ask", TRUE, 2, 5000, 500, 500)}

SomeSetups == [t \in {"A", "B", "C"} |-> CASE t = "A" -> 640 [] t = "B" -> 900 [] OTHER -> 720]

\* No property relates the three: they are explored one at a time, each beside the
\* initial state of the others.
StoredInit == Init /\ ChartInit /\ TapeInit

StoredNext ==
  \/ Next /\ ChartInit /\ TapeInit /\ UNCHANGED <<bars, tapeVars>>
  \/ NextBar /\ Init /\ TapeInit /\ UNCHANGED <<vars, tapeVars>>
  \/ TapeNext /\ Init /\ ChartInit /\ UNCHANGED <<vars, bars>>

StoredSpec ==
  StoredInit /\ [][StoredNext]_<<vars, bars, tapeVars>> /\ WorkerFairness
=============================================================================
