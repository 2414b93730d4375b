----------------------------- MODULE MCFlywheel -----------------------------
(* Values for model-checking Flywheel. *)
EXTENDS Flywheel, TLC

CONSTANTS f1, f2, f3, gme, bbby

\* Two prints of one ticker on Thursday and Friday, one of another on Thursday.
TickerOfFlow == f1 :> gme @@ f2 :> gme @@ f3 :> bbby
TimeOfFlow == f1 :> 2 @@ f2 :> 5 @@ f3 :> 3

Closes(thu, fri, mon, tue, wed, later) ==
  1 :> thu @@ 2 :> fri @@ 5 :> mon @@ 6 :> tue @@ 7 :> wed @@ 8 :> later

\* Through the target; through the stop and up; or nowhere.  The other ticker goes
\* through the target, or is halted.
SomePaths ==
  gme :> {Closes(100, 100, 121, 100, 100, 100), Closes(100, 90, 121, 90, 121, 121),
          Closes(100, 100, 100, 100, 100, 100)}
  @@ bbby :> {Closes(100, 100, 121, 121, 121, 121), 1 :> 100 @@ 2 :> 121}
=============================================================================
