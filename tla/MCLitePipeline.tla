--------------------------- MODULE MCLitePipeline ---------------------------
(* Values for model-checking LitePipeline: three prints of one ticker.      *)
EXTENDS LitePipeline

CONSTANTS k1, k2, s1

APrint(contract, sweep, iv, premium, strike) ==
  [contract |-> contract, ticker |-> s1, sweep |-> sweep, iv |-> iv,
   premium |-> premium, strike |-> strike, call |-> TRUE]

ThreePrints ==
  {APrint(k1, TRUE, 3, 2, 10), APrint(k1, TRUE, 5, 1, 10), APrint(k2, FALSE, 4, 4, 12)}

Surest == {p \in ThreePrints : p.iv = 5}

\* The trackers, the alert and the client have their time; after it only the caches
\* grow old, in behaviours in which nobody connected, no alert went out and nothing failed.
CONSTANT FeedTime

Focus ==
  now <= FeedTime \/ (faults = 0 /\ heard = {} /\ \A c \in Clients : link[c] = "off")

FocusedSpec ==
  /\ Init /\ [][Next /\ Focus']_vars
  /\ \A c \in Clients : WF_vars(Serve(c)) /\ WF_vars(Unsubscribe(c))
=============================================================================
