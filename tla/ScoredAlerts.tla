---------------------------- MODULE ScoredAlerts ----------------------------
(***************************************************************************)
(* From a print to the alert: the score of Scoring decides the event that  *)
(* AlertRules judges.  Behaviours start from an event (as in AlertRules)   *)
(* or from a weak print, and add evidence, one kind at a time.             *)
(***************************************************************************)
EXTENDS AlertRules, Scoring

CONSTANTS
  NoPrint,       \* the event comes from nowhere
  Evidence,      \* for every kind of evidence its values, the weakest first
  Sides, Structures, ContractTypes, Macros,
  Defaults,      \* the settings of config.py
  MaxIvRank      \* alert_max_iv_rank, for those that cap it

Shares == 0..One

\* What a kind of evidence may be.
EvidenceTypes ==
  [sweep     |-> BOOLEAN,
   volOi     |-> Nat,
   premium   |-> Nat,
   volume    |-> [options : Nat, stock : Nat, oiChange : Int],
   company   |-> [float : Nat, shortInterest : Nat, borrow : Nat, gamma : Int] \cup {NoFloat},
   attention |-> [social : Shares, news : Shares, earnings : Nat, history : Shares,
                  hitRate : Shares],
   flow      |-> [repeated : Nat, cadence : Shares, ladder : Shares, follow : Shares],
   terms     |-> [otm : Int, dte : Nat],
   ivRank    |-> Shares]

Tapes ==
  [vix : Nat, rising : BOOLEAN, weak : BOOLEAN, shortGamma : BOOLEAN, smallCapsLead : BOOLEAN]
    \cup {NoVix}

\* Everything a print may be.
Prints ==
  [side : {"ask", "bid", "mid", "unknown"}, structure : {"single", "bullish", "neutral"},
   contract : {"call", "put"}, macro : Tapes, sweep : EvidenceTypes.sweep,
   volOi : EvidenceTypes.volOi, premium : EvidenceTypes.premium,
   volume : EvidenceTypes.volume, company : EvidenceTypes.company,
   attention : EvidenceTypes.attention, flow : EvidenceTypes.flow,
   terms : EvidenceTypes.terms, ivRank : EvidenceTypes.ivRank]

ASSUME ScoredAssumption ==
  /\ DOMAIN Evidence = DOMAIN EvidenceTypes
  /\ \A kind \in DOMAIN EvidenceTypes :
       Evidence[kind] \in Seq(EvidenceTypes[kind]) /\ Evidence[kind] # <<>>
  /\ Sides \subseteq {"ask", "bid", "mid", "unknown"}
  /\ Structures \subseteq {"single", "bullish", "neutral"}
  /\ ContractTypes \subseteq {"call", "put"}
  /\ Macros \subseteq Tapes
  /\ NoPrint \notin Prints

VARIABLE print

scoredVars == <<rulesVars, print>>

Level(x, threshold) == IF x < threshold THEN 0 ELSE IF x = threshold THEN 1 ELSE 2

\* The event behind a scored print, against the thresholds of config.py.
EventOf(p, s) ==
  [confidence   |-> Level(s.confidence, 700),
   allowedClass |-> s.label \in {"EXPLOSION", "MOMENTUM"},
   contract     |-> p.contract,
   moneyness    |-> IF p.terms.otm > 0 THEN "otm" ELSE "not_otm",
   structure    |-> IF p.structure = "neutral" THEN "other" ELSE p.structure,
   features     |->
     [opening |-> IsOpening(p), volOi |-> Level(VolOi(p), 5000),
      premium |-> Level(p.premium, 500), dte |-> Level(p.terms.dte, 60),
      ivRank  |-> IF p.ivRank = 500 THEN "unknown" ELSE IF p.ivRank > MaxIvRank THEN "high"
                  ELSE "low"]]

Alerted(p, s) == ShouldAlert(Defaults, EventOf(p, s))

\* What speaks against a passive print (a hedge is big, and early) is drawn at the
\* start, and not added later.
Ambiguous == {"premium", "attention"}

WeakPrints ==
  {[side |-> side, structure |-> structure, contract |-> contract, macro |-> macro,
    premium |-> premium, attention |-> attention,
    sweep |-> Evidence.sweep[1], volOi |-> Evidence.volOi[1], volume |-> Evidence.volume[1],
    company |-> Evidence.company[1], flow |-> Evidence.flow[1], terms |-> Evidence.terms[1],
    ivRank |-> Evidence.ivRank[1]] :
     side \in Sides, structure \in Structures, contract \in ContractTypes, macro \in Macros,
     premium \in ToSet(Evidence.premium), attention \in ToSet(Evidence.attention)}

MoreEvidence ==
  \E kind \in DOMAIN Evidence : \E i \in 1..(Len(Evidence[kind]) - 1) :
    /\ print[kind] = Evidence[kind][i]
    /\ Passive(print) => kind \notin Ambiguous
    /\ print' = [print EXCEPT ![kind] = Evidence[kind][i + 1]]
    /\ event' = EventOf(print', Score(print'))
    /\ UNCHANGED settings

ScoredInit ==
  \/ RulesInit /\ print = NoPrint
  \/ /\ print \in WeakPrints
     /\ event = EventOf(print, Score(print))
     /\ settings = Defaults

ScoredNext ==
  \/ print = NoPrint /\ RulesNext /\ UNCHANGED print
  \/ print # NoPrint /\ MoreEvidence

ScoredSpec == ScoredInit /\ [][ScoredNext]_scoredVars

-----------------------------------------------------------------------------
(* Properties (StrongerStillAlerts of AlertRules is checked of all steps, those *)
(* of a print included).                                                     *)

\* "One strong leg cannot trigger" (engine.py): whatever two of the legs say, an
\* explosion setup has some conviction, some volume and some fuel.
OneLegIsNotEnough ==
  print # NoPrint =>
    LET s == Score(print)
        c == s.components
    IN  s.label = "EXPLOSION" => Min({c.conviction, c.volume, c.fuel}) >= 240

\* "The absence of side data isn't mistaken for a bearish/sold print"
\* (features.py): without the side a print does no worse than the same print sold, and
\* no better than bought; "fresh opening volume swamping existing OI" makes it as good.
UnknownSideIsNotSold ==
  print.side = "unknown" =>
    LET As(side) == [print EXCEPT !.side = side]
        sold     == Score(As("bid"))
        unknown  == Score(print)
        bought   == Score(As("ask"))
    IN  /\ unknown.components.fake <= sold.components.fake
        /\ unknown.confidence \in sold.confidence..bought.confidence
        /\ Alerted(As("bid"), sold) => Alerted(print, unknown)
        /\ print.volOi >= 5000 => unknown = bought

\* Not knowing is no evidence against a print: neither at the gates (the features, the
\* IV rank) nor in the score (the side).
UnknownIsNoEvidence ==
  /\ UnknownNeverSuppresses
  /\ print # NoPrint => UnknownSideIsNotSold
=============================================================================
