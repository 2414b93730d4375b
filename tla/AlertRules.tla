----------------------------- MODULE AlertRules -----------------------------
(***************************************************************************)
(* Which scored events qualify for an alert: should_alert() and the two    *)
(* gates behind it (app/alerts/base.py).  A measure is compared with one   *)
(* threshold only, so it is 0 (below), 1 (at it) or 2 (above).             *)
(* Behaviours start from any event under any settings and strengthen the   *)
(* event, one measure at a time.                                           *)
(***************************************************************************)
EXTENDS Naturals

CONSTANTS
  NoFeatures,   \* should_alert(result, event) without a feature vector
  AllSettings   \* the settings to start from

Levels == 0..2
At == 1

\* An opening print is one whose volume is at least its open interest, so
\* whatever reaches the threshold on vol/OI is one.
Measures ==
  {f \in [opening : BOOLEAN, ivRank : {"unknown", "low", "high"},
          volOi : Levels, premium : Levels, dte : Levels] :
     f.volOi >= At => f.opening}

Events ==
  [confidence : Levels, allowedClass : BOOLEAN, contract : {"call", "put"},
   moneyness : {"otm", "not_otm", "unknown"}, structure : {"single", "bullish", "other"},
   features : Measures \cup {NoFeatures}]

Settings ==
  [callsOtmOnly : BOOLEAN, requireOpening : BOOLEAN, capIvRank : BOOLEAN,
   bullishOnly : BOOLEAN, unusualActivity : BOOLEAN]

ASSUME RulesAssumption == NoFeatures \notin Measures

VARIABLES event, settings

rulesVars == <<event, settings>>

-----------------------------------------------------------------------------

\* An unknown spot counts as out of the money.
IsOtmCall(e) == e.moneyness \in {"otm", "unknown"}

Mutant_UnknownIvIsHigh(s, f) ==
  /\ s.requireOpening => f.opening
  /\ s.capIvRank => f.ivRank = "low"
FeatureGates(s, f) ==
  /\ s.requireOpening => f.opening
  /\ s.capIvRank => f.ivRank # "high"

ConfidenceGate(s, e) ==
  /\ e.confidence >= At
  /\ e.allowedClass
  /\ (s.callsOtmOnly /\ e.contract = "call") => IsOtmCall(e)
  /\ e.features # NoFeatures => FeatureGates(s, e.features)
  /\ s.bullishOnly => e.structure # "other"

Mutant_PremiumBelow(s, f) ==
  /\ s.unusualActivity
  /\ f.opening
  /\ f.volOi >= At
  /\ f.premium <= At
  /\ f.dte <= At
UnusualActivityGate(s, f) ==
  /\ s.unusualActivity
  /\ f.opening
  /\ f.volOi >= At
  /\ f.premium >= At
  /\ f.dte <= At

ShouldAlert(s, e) ==
  \/ ConfidenceGate(s, e)
  \/ e.features # NoFeatures /\ UnusualActivityGate(s, e.features)

-----------------------------------------------------------------------------

\* The print turns out bigger, nearer, surer or cheaper in volatility.
Strengthen ==
  \/ /\ event.confidence < 2
     /\ event' = [event EXCEPT !.confidence = @ + 1]
  \/ /\ event.features # NoFeatures
     /\ \/ event' = [event EXCEPT !.features.opening = TRUE]
        \/ event' = [event EXCEPT !.features.ivRank = "low"]
        \/ /\ event.features.opening
           /\ event.features.volOi < 2
           /\ event' = [event EXCEPT !.features.volOi = @ + 1]
        \/ /\ event.features.premium < 2
           /\ event' = [event EXCEPT !.features.premium = @ + 1]
        \/ /\ event.features.dte > 0
           /\ event' = [event EXCEPT !.features.dte = @ - 1]

RulesInit == event \in Events /\ settings \in AllSettings

RulesNext == Strengthen /\ UNCHANGED settings

RulesSpec == RulesInit /\ [][RulesNext]_rulesVars

-----------------------------------------------------------------------------
(* Properties. *)

\* A stronger event never loses its alert: the two gates are monotone in every
\* measure, and joined by "or".
StrongerStillAlerts ==
  [][ShouldAlert(settings, event) => ShouldAlert(settings', event')]_rulesVars

\* Not knowing never suppresses an alert that conviction alone would send: not
\* the IV rank (its sentinel is exempt), and not the whole vector ("Skipped when
\* features aren't passed").
UnknownNeverSuppresses ==
  LET f == event.features
      With(g) == [event EXCEPT !.features = g]
  IN  f # NoFeatures =>
        /\ ConfidenceGate(settings, event) => ConfidenceGate(settings, With(NoFeatures))
        /\ ShouldAlert(settings, With([f EXCEPT !.ivRank = "low"]))
             <=> ShouldAlert(settings, With([f EXCEPT !.ivRank = "unknown"]))
=============================================================================
