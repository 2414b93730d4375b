---------------------------- MODULE MCFlowIngest ----------------------------
(* Values for model-checking FlowIngest. *)
EXTENDS FlowIngest, TLC

CONSTANTS k1, k2, k3, a1, a2, a3

\* One contract with a standing interest, which it takes two trades to exceed, a
\* new one, and one that the pages do not reach.
Interest == k1 :> 3 @@ k2 :> 0 @@ k3 :> 0
MostTraded == k1 :> 4 @@ k2 :> 2 @@ k3 :> 1
Trades == k1 :> {1, 2} @@ k2 :> {2} @@ k3 :> {1}
TwoPrices == k1 :> {1, 2} @@ k2 :> {1} @@ k3 :> {2}

\* The new one alone, at one price.
OneInterest == k2 :> 0
OneVolume == k2 :> 2
OneTrade == k2 :> {2}
OnePrice == k2 :> {2}

\* With a key "polygon" selects like "auto", and "synthetic" like "unusual_whales".
AnyProvider == {"auto", "unusual_whales"}
PolygonOnly == {"polygon"}
AnyKey == {{}, {"polygon"}, {"unusual_whales"}}
PolygonKey == {{"polygon"}}
=============================================================================
