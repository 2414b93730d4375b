------------------------------- MODULE Scoring -------------------------------
(***************************************************************************)
(* The score of one print: its features, the component scores, the gates   *)
(* against noise and hedges, the market regime, the confidence and the     *)
(* label (app/scoring).  Shares, ratios (2x is 2000), moneyness and ranks  *)
(* are in per mille, premiums in thousands of dollars, floats in millions  *)
(* of shares; products are rounded down.  The parts of the code that only  *)
(* word the reasons, and the components and the weighted base that no      *)
(* probability uses (urgency, base), are left out; the calibrators are the *)
(* identity, as in _engine.                                                *)
(*                                                                         *)
(* A print comes with its context:                                         *)
(*   side       "ask", "bid", "mid" or "unknown"                           *)
(*   structure  "single", "bullish" or "neutral"                           *)
(*   contract, sweep, volOi, premium, ivRank                               *)
(*   terms      [otm, dte]                                                 *)
(*   volume     [options, stock, oiChange]: ratios to the usual volume     *)
(*   company    [float, shortInterest, borrow, gamma], or NoFloat          *)
(*   attention  [social, news, earnings, history, hitRate]                 *)
(*   flow       [repeated, cadence, ladder, follow]: see Trackers          *)
(*   macro      [vix, rising, weak, shortGamma, smallCapsLead], or NoVix   *)
(***************************************************************************)
EXTENDS Normalize

CONSTANTS NoFloat, NoVix

Share(w, x) == Times(w, x)
Not(x) == One - x

-----------------------------------------------------------------------------
(* features.py *)

\* "Unknown" is never taken for a sold print.
AskSideRatio(p) == IF p.side = "ask" THEN One ELSE IF p.side = "bid" THEN 0 ELSE 500

Mutant_AlwaysKnown(p) == TRUE
AggressorKnown(p) == p.side # "unknown"

SweepUrgency(p) ==
  Clamp((IF p.sweep THEN 500 ELSE 0)
        + (CASE p.side = "ask" -> 300
             [] p.side = "unknown" -> Share(300, Ramp(p.volOi, 0, 5000))
             [] OTHER -> 0)
        + Share(200, Ramp(p.premium, 0, 1000)))

VolOi(p) == IF p.volOi > 50000 THEN 50000 ELSE p.volOi

IsOpening(p) == VolOi(p) >= One

-----------------------------------------------------------------------------
(* engine.py *)

Opening(p) == Ramp(VolOi(p), 1000, 5000)

\* Without the side, fresh volume swamping open interest stands in for it.
Conviction(p) ==
  LET aggression == IF AggressorKnown(p) THEN AskSideRatio(p) ELSE Opening(p)
      s == Share(450, aggression) + Share(350, SweepUrgency(p))
           + Share(200, Ramp(p.flow.repeated, 1, 5))
           + Share(120, p.flow.cadence) + Share(80, p.flow.ladder)
           + Share(150, p.flow.follow)
           + (IF p.structure = "bullish" THEN 100 ELSE 0)
  IN  Clamp(IF p.side = "mid" THEN s \div 2 ELSE s)

VolumeConfirmation(p) ==
  Clamp(Larger(Share(380, Ramp(p.volume.options, 2000, 10000))
                 + Share(250, Ramp(p.volume.stock, 1500, 5000))
                 + Share(200, Ramp(p.volume.oiChange, 200, 1500))
                 + Share(170, Opening(p)),
               Share(850, Opening(p))))

\* Dealers short of gamma, near-dated calls out of the money.
GammaSqueeze(p) ==
  IF p.company.gamma >= 0 \/ p.contract = "put" THEN 0
  ELSE SoftAnd(Ramp(-p.company.gamma, 0, One),
               Larger(Not(Ramp(p.terms.dte, 0, 30)), 200),
               Larger(Ramp(p.terms.otm, 0, 200), 200))

SqueezeFuel(p) ==
  IF p.company = NoFloat THEN 0
  ELSE Clamp(Share(300, Clamp(((100 - p.company.float) * One) \div 95))
             + Share(280, Ramp(p.company.shortInterest, 10, 30))
             + Share(140, Ramp(p.company.borrow, 20, 100))
             + Share(280, GammaSqueeze(p)))

Catalyst(p) ==
  Share(450, p.attention.social) + Share(300, p.attention.news)
    + Share(250, Not(Ramp(p.attention.earnings, 0, 14)))

\* Only volatility cheaper than its middle rank lifts the score.
IvLift(p) == Clamp(2 * (500 - p.ivRank))

Geometry(p) ==
  LET off == IF p.terms.otm >= 70 THEN p.terms.otm - 70 ELSE 70 - p.terms.otm
  IN  Share(600, Not(Ramp(off, 0, 150))) + Share(400, Not(Ramp(p.terms.dte, 0, 45)))

FakeFlow(p) ==
  Clamp((IF p.side = "mid" THEN 350 ELSE 0)
        + (IF AggressorKnown(p) /\ AskSideRatio(p) = 0 THEN 250 ELSE 0)
        + Share(250, Not(Ramp(p.volume.options, 1000, 5000)))
        + Share(150, Not(SweepUrgency(p)))
        + Share(150, Ramp(p.ivRank, 850, 1000)))

Passive(p) == AggressorKnown(p) /\ AskSideRatio(p) <= 500

BigCap(p) == p.company # NoFloat /\ p.company.float > 500

Hedging(p) ==
  (CASE p.structure = "bullish" -> 50 [] p.structure = "neutral" -> 400 [] OTHER -> 0)
  + (IF p.contract = "put" /\ BigCap(p) /\ p.terms.otm \in -49..49 THEN 300 ELSE 0)
  + (IF Passive(p) /\ p.premium > 500 /\ p.terms.dte > 30 THEN 200 ELSE 0)
  + (IF Passive(p) /\ p.attention.earnings <= 7 /\ p.premium > 250 THEN 150 ELSE 0)
  + (IF p.attention.social + p.attention.news < 400 THEN 100 ELSE 0)

\* Everything the probabilities are made of.
Components(p) ==
  [conviction |-> Conviction(p), volume |-> VolumeConfirmation(p), fuel |-> SqueezeFuel(p),
   catalyst |-> Catalyst(p), geometry |-> Geometry(p), fake |-> FakeFlow(p),
   hedge |-> Clamp(Hedging(p))]

\* What noise and hedges leave of a bullish probability.
Damp(c) == Times(Not(Share(850, c.fake)), Not(Share(700, c.hedge)))

Momentum(c) == Share(500, c.conviction) + Share(350, c.volume) + Share(150, c.geometry)

Squeeze(c) == Share(550, c.fuel) + Share(250, c.conviction) + Share(200, c.volume)

\* "Corroboration across the three independent legs".
Mutant_AverageOfTheLegs(c) == (c.conviction + c.volume + c.fuel) \div 3
Core(c) == SoftAnd(c.conviction, c.volume, c.fuel)

Boost(c, p) ==
  700 + Share(300, Max({c.catalyst, p.attention.history, c.geometry, IvLift(p),
                        p.attention.hitRate}))

-----------------------------------------------------------------------------
(* regime.py *)

Neutral == [bullish |-> 1000, confidence |-> 1000]

\* detect_regime(): the first that fits.
RegimeOf(m) ==
  IF m = NoVix THEN Neutral
  ELSE IF m.vix >= 28 /\ m.rising /\ m.weak THEN [bullish |-> 550, confidence |-> 800]
  ELSE IF m.vix \in 18..29 /\ m.shortGamma /\ m.smallCapsLead
       THEN [bullish |-> 1120, confidence |-> 1040]
  ELSE IF m.vix < 14 /\ ~m.smallCapsLead THEN [bullish |-> 750, confidence |-> 850]
  ELSE Neutral

-----------------------------------------------------------------------------
(* classifier.py *)

\* The probabilities, scaled by the regime.
Probs(c, p) ==
  LET damp      == Damp(c)
      bullish   == RegimeOf(p.macro).bullish
      Scaled(x) == Clamp(Times(Clamp(Times(x, damp)), bullish))
  IN  [explosion |-> Scaled(Times(Core(c), Boost(c, p))), squeeze |-> Scaled(Squeeze(c)),
       momentum |-> Scaled(Momentum(c)), fake |-> c.fake, hedge |-> c.hedge]

\* The strongest bullish probability and the breadth of the evidence.
ConfidenceOf(probs, c, p) ==
  LET bullish == Max({probs.explosion, probs.squeeze, probs.momentum})
      broad   == {leg \in {"conviction", "volume", "fuel", "catalyst"} : c[leg] > 500}
      raw     == Times(Share(700, bullish) + Share(300, 250 * Cardinality(broad)),
                       Not(probs.fake \div 2))
  IN  Clamp(Times(Clamp(raw), RegimeOf(p.macro).confidence))

LabelOf(probs, confidence) ==
  LET sure == confidence >= 500
  IN  IF probs.hedge >= 600 /\ ~sure THEN "HEDGING"
      ELSE IF probs.fake >= 600 /\ ~sure THEN "FAKE"
      ELSE IF probs.explosion >= 700 /\ probs.squeeze >= 500 THEN "EXPLOSION"
      ELSE IF probs.momentum >= 650 THEN "MOMENTUM"
      ELSE IF sure THEN "WATCHLIST"
      ELSE IF probs.hedge >= 500 THEN "INSTITUTIONAL"
      ELSE IF probs.fake >= 500 THEN "HEDGING"
      ELSE "NORMAL"

\* classify_features()
Score(p) ==
  LET c          == Components(p)
      probs      == Probs(c, p)
      confidence == ConfidenceOf(probs, c, p)
  IN  [label |-> LabelOf(probs, confidence), confidence |-> confidence, components |-> c]
=============================================================================
