------------------------------ MODULE MCAlerts ------------------------------
(* Values for model-checking ScoredAlerts and AlertGate: what qualifies for an *)
(* alert, and what the gate then lets out.                                     *)
EXTENDS ScoredAlerts, AlertGate, TLC

EverySetting == Settings

ConfigDefaults ==
  [callsOtmOnly |-> TRUE, requireOpening |-> FALSE, capIvRank |-> FALSE,
   bullishOnly |-> FALSE, unusualActivity |-> TRUE]

Company(float, si, borrow, gamma) ==
  [float |-> float, shortInterest |-> si, borrow |-> borrow, gamma |-> gamma]

KindsOfEvidence ==
  [sweep     |-> <<FALSE, TRUE>>,
   volOi     |-> <<500, 6000>>,
   premium   |-> <<100, 1000>>,
   volume    |-> <<[options |-> 0, stock |-> 0, oiChange |-> 0],
                   [options |-> 10000, stock |-> 5000, oiChange |-> 1500]>>,
   company   |-> <<Company(600, 5, 5, 0), NoFloat, Company(8, 28, 90, -900)>>,
   attention |-> <<[social |-> 0, news |-> 0, earnings |-> 999, history |-> 0, hitRate |-> 0],
                   [social |-> 800, news |-> 700, earnings |-> 5, history |-> 400, hitRate |-> 600]>>,
   flow      |-> <<[repeated |-> 0, cadence |-> 0, ladder |-> 0, follow |-> 0],
                   [repeated |-> 4, cadence |-> 500, ladder |-> 500, follow |-> 800]>>,
   terms     |-> <<[otm |-> -20, dte |-> 50], [otm |-> 70, dte |-> 10]>>,
   ivRank    |-> <<950, 200>>]

SomeTapes ==
  {NoVix,
   [vix |-> 30, rising |-> TRUE, weak |-> TRUE, shortGamma |-> TRUE, smallCapsLead |-> TRUE],
   [vix |-> 25, rising |-> FALSE, weak |-> FALSE, shortGamma |-> TRUE, smallCapsLead |-> TRUE],
   [vix |-> 12, rising |-> FALSE, weak |-> FALSE, shortGamma |-> FALSE, smallCapsLead |-> FALSE]}

Symmetry == Permutations(Contracts)

\* No property relates the two: they are explored one at a time, the gate beside the
\* event that none is stronger than, under the default settings.
Strongest ==
  /\ settings = Defaults /\ print = NoPrint
  /\ event = [confidence |-> 2, allowedClass |-> TRUE, contract |-> "call",
              moneyness |-> "otm", structure |-> "bullish", features |-> NoFeatures]

AlertsInit == ScoredInit /\ Init

AlertsNext ==
  \/ ScoredNext /\ Init /\ UNCHANGED vars
  \/ Next /\ Strongest /\ UNCHANGED scoredVars

AlertsSpec == AlertsInit /\ [][AlertsNext]_<<scoredVars, vars>>
=============================================================================
