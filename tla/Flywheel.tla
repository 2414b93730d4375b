------------------------------ MODULE Flywheel ------------------------------
(***************************************************************************)
(* The learning loop (app/jobs/nightly.py): backfill() labels the prints   *)
(* whose horizon is over from the daily closes, retrain() rebuilds the     *)
(* artifacts from the labels, and a scoring process that runs meanwhile    *)
(* loads them again when their files change.                               *)
(*                                                                         *)
(* Every day has two times, the session still open and closed.  The bar of *)
(* the current session is there while it is open, with the price so far.   *)
(* What an artifact holds is the set of prints it was built from; the two  *)
(* that no scoring process reads (the classifier and the calibrator) are   *)
(* left out, and so are the reports after them, which change nothing here. *)
(***************************************************************************)
EXTENDS Naturals, FiniteSetsExt, SequencesExt

CONSTANTS
  Flows,          \* the prints, in the order of their rows
  Tickers,
  TickerOf,       \* the ticker of a print
  ObservedAt,     \* when it was observed
  Paths,          \* the daily closes of a ticker, by day of session: what they may be
  Prices,         \* what a price so far may be
  FirstDay, LastDay,
  Horizon,        \* sessions after the entry: BARRIERS[SQUEEZE].horizon
  Lookback,       \* LOOKBACK_DAYS
  MinRows, MinPositives,
  MaxFaults,      \* bound: failing requests and dying processes
  NoOutcome, NoFile

ASSUME FlywheelAssumption ==
  /\ Horizon \in Nat \ {0} /\ FirstDay \in Nat
  /\ TickerOf \in [Flows -> Tickers] /\ ObservedAt \in [Flows -> Nat]
  /\ \A t \in Tickers : \A closes \in Paths[t] :
       IsFiniteSet(DOMAIN closes) /\ DOMAIN closes \subseteq Nat \ {0}

Artifacts == {"library", "priors"}

VARIABLES
  now,
  path,      \* the closes of every ticker
  outcomes,  \* the table
  pc,        \* of the nightly job
  ranOn,     \* the day of its last run
  left,      \* the selected prints whose tickers were not fetched yet
  added,     \* the rows of its session, not committed yet
  frame,     \* the training frame
  disk,      \* the files of models/
  served,    \* what the scoring process holds of them
  touched,   \* the files whose mtime is not the one it saw last
  faults

job == <<pc, ranOn, left, added, frame>>
server == <<served, touched>>
vars == <<now, path, outcomes, job, disk, server, faults>>

Day(t) == t \div 2
Open(t) == t % 2 = 0
Today == Day(now)

-----------------------------------------------------------------------------
(* labeling.py *)

TargetHit(price, entry) == 5 * price >= 6 * entry
StopHit(price, entry) == 10 * price <= 9 * entry

Mutant_StopsAnywhere(window) ==
  LET entry == window[1]
  IN  IF /\ \E i \in DOMAIN window : TargetHit(window[i], entry)
         /\ \A i \in DOMAIN window : ~StopHit(window[i], entry)
      THEN 1 ELSE 0

\* Whichever barrier is touched first decides.
TripleBarrierLabel(window) ==
  LET entry   == window[1]
      hits    == {i \in 2..Len(window) :
                    TargetHit(window[i], entry) \/ StopHit(window[i], entry)}
  IN  IF hits # {} /\ TargetHit(window[Min(hits)], entry) THEN 1 ELSE 0

-----------------------------------------------------------------------------
(* backfill.py *)

Mutant_OnlyTheNewest ==
  {f \in Flows : outcomes[f] = NoOutcome /\ Day(ObservedAt[f]) = Today - (Horizon + 1)}
\* Prints without an outcome that are old enough by the calendar.
Unlabelled ==
  {f \in Flows : /\ outcomes[f] = NoOutcome
                 /\ ObservedAt[f] <= now - 2 * (Horizon + 1)
                 /\ ObservedAt[f] + 2 * Lookback >= now}

\* The closes from the day of the print on; for the session that is open, soFar.
Forward(f, soFar) ==
  LET closes == path[TickerOf[f]]
      days   == {d \in DOMAIN closes : Day(ObservedAt[f]) <= d /\ d <= Today}
      At(d)  == IF d = Today /\ Open(now) THEN soFar ELSE closes[d]
  IN  [i \in 1..Cardinality(days) |->
         At(CHOOSE d \in days : Cardinality({c \in days : c < d}) = i - 1)]

\* A row of the table, or nothing if there are too few closes.  (The model notes, too,
\* whether the last session was still open.)
OutcomeOf(f, forward) ==
  IF Len(forward) < Horizon + 1 THEN NoOutcome
  ELSE [label |-> TripleBarrierLabel(SubSeq(forward, 1, Horizon + 1)),
        open  |-> Open(now) /\ Today \in DOMAIN path[TickerOf[f]] /\ Len(forward) = Horizon + 1]

-----------------------------------------------------------------------------
(* nightly.py: backfill() *)

Idle == pc = "idle"
NoRows == [f \in Flows |-> NoOutcome]

StartRun ==
  /\ Idle /\ ranOn < Today
  /\ ranOn' = Today
  /\ pc' = IF Unlabelled = {} THEN "train" ELSE "fetch"
  /\ left' = Unlabelled
  /\ UNCHANGED <<now, path, outcomes, added, frame, disk, server, faults>>

\* One ticker's window, and the rows for all of its prints that it covers.
Fetch(t) ==
  /\ pc = "fetch"
  /\ \E f \in left : TickerOf[f] = t
  /\ \E soFar \in Prices :
       added' = [f \in Flows |-> IF f \in left /\ TickerOf[f] = t
                                 THEN OutcomeOf(f, Forward(f, soFar)) ELSE added[f]]
  /\ left' = {f \in left : TickerOf[f] # t}
  /\ UNCHANGED <<now, path, outcomes, pc, ranOn, frame, disk, server, faults>>

Commit ==
  /\ pc = "fetch" /\ left = {}
  /\ outcomes' = [f \in Flows |-> IF added[f] # NoOutcome THEN added[f] ELSE outcomes[f]]
  /\ pc' = "train"
  /\ added' = NoRows
  /\ UNCHANGED <<now, path, ranOn, left, frame, disk, server, faults>>

-----------------------------------------------------------------------------
(* nightly.py: retrain() *)

Labelled == {f \in Flows : outcomes[f] # NoOutcome}
Positives == {f \in Labelled : outcomes[f].label = 1}

LoadFrame ==
  /\ pc = "train"
  /\ frame' = Labelled
  /\ pc' = IF Cardinality(Labelled) < MinRows \/ Cardinality(Positives) < MinPositives
           THEN "idle" ELSE "library"
  /\ UNCHANGED <<now, path, outcomes, ranOn, left, added, disk, server, faults>>

\* A file is written in place: for a moment only a part of it is there, and after a
\* crash in this moment until the next save.
BeginSave(file) ==
  /\ pc = file
  /\ disk[file] # NoFile => disk[file].whole
  /\ disk' = [disk EXCEPT ![file] = [rows |-> frame, whole |-> FALSE]]
  /\ touched' = touched \cup {file}
  /\ UNCHANGED <<now, path, outcomes, job, served, faults>>

EndSave(file) ==
  /\ pc = file
  /\ disk[file] # NoFile /\ ~disk[file].whole
  /\ disk' = [disk EXCEPT ![file] = [rows |-> frame, whole |-> TRUE]]
  /\ touched' = touched \cup {file}
  /\ pc' = IF file = "library" THEN "priors" ELSE "idle"
  /\ UNCHANGED <<now, path, outcomes, ranOn, left, added, frame, served, faults>>

\* A request that fails four times, or a process that dies: the rest of the run is
\* lost, and with it what was not committed.
Break ==
  /\ ~Idle /\ faults < MaxFaults
  /\ pc' = "idle" /\ left' = {} /\ added' = NoRows
  /\ faults' = faults + 1
  /\ UNCHANGED <<now, path, outcomes, ranOn, frame, disk, server>>

-----------------------------------------------------------------------------
(* The scoring process: _get_library() and get_priors(), once their interval *)
(* is over.                                                                  *)

Mutant_OnlyOnce(file) == file \in touched /\ served[file] = NoFile
Changed(file) == file \in touched

\* The new mtime is noted before the file is read: of a part of a file nothing is
\* loaded, the call raises, and what was served before stays.
CheckFile(file) ==
  /\ Changed(file)
  /\ touched' = touched \ {file}
  /\ served' = IF disk[file].whole THEN [served EXCEPT ![file] = disk[file].rows] ELSE served
  /\ UNCHANGED <<now, path, outcomes, job, disk, faults>>

Restart ==
  /\ faults < MaxFaults
  /\ served' = [file \in Artifacts |-> NoFile]
  /\ touched' = {file \in Artifacts : disk[file] # NoFile}
  /\ faults' = faults + 1
  /\ UNCHANGED <<now, path, outcomes, job, disk>>

-----------------------------------------------------------------------------

\* The scheduler starts a run on every day.  The clock matters to the backfill only.
Tick ==
  /\ pc \in {"idle", "fetch"}
  /\ now < 2 * LastDay + 1
  /\ ~Open(now) => ranOn = Today
  /\ now' = now + 1
  /\ UNCHANGED <<path, outcomes, job, disk, server, faults>>

Init ==
  /\ now = 2 * FirstDay
  /\ path \in {p \in [Tickers -> UNION Range(Paths)] : \A t \in Tickers : p[t] \in Paths[t]}
  /\ outcomes = NoRows
  /\ pc = "idle" /\ ranOn = 0
  /\ left = {} /\ added = NoRows /\ frame = {}
  /\ disk = [file \in Artifacts |-> NoFile]
  /\ served = [file \in Artifacts |-> NoFile]
  /\ touched = {}
  /\ faults = 0

Work ==
  \/ StartRun
  \/ \E t \in Tickers : Fetch(t)
  \/ Commit
  \/ LoadFrame
  \/ \E file \in Artifacts : BeginSave(file) \/ EndSave(file)

Next ==
  \/ Tick
  \/ Work
  \/ Break
  \/ \E file \in Artifacts : CheckFile(file)
  \/ Restart

Spec == Init /\ [][Next]_vars

\* A run that started goes on, time passes, and prints keep coming to be scored.
Fairness ==
  /\ WF_vars(Tick) /\ WF_vars(Work)
  /\ \A file \in Artifacts : WF_vars(CheckFile(file))

FairSpec == Spec /\ Fairness

-----------------------------------------------------------------------------
(* Properties. *)

\* The sessions a label is about: the day of the print and Horizon more.
Window(f) ==
  LET days == {d \in DOMAIN path[TickerOf[f]] : d >= Day(ObservedAt[f])}
  IN  {d \in days : Cardinality({c \in days : c < d}) <= Horizon}

\* A row is written once the last of these sessions is there, and it is true: the target
\* was hit, and the stop was not hit before.  It can be wrong only if that session was
\* still open and nothing was hit before.
Holds(f, row) ==
  LET closes   == path[TickerOf[f]]
      window   == Window(f)
      entry    == closes[Min(window)]
      later    == window \ {Min(window)}
      final    == IF row.open THEN later \ {Max(later)} ELSE later
      Hit(d)   == TargetHit(closes[d], entry)
      Stop(d)  == StopHit(closes[d], entry)
      won      == \E d \in later : Hit(d) /\ \A c \in later : c < d => ~Stop(c)
  IN  /\ Cardinality(later) = Horizon
      /\ \A d \in later : 2 * d <= now
      /\ (final = later \/ \E d \in final : Hit(d) \/ Stop(d)) => (row.label = 1 <=> won)

\* Every label that was written holds, then: only a session still open can have misled it.
OnlyOpenSessionsMislead == \A f \in Labelled : Holds(f, outcomes[f])

\* A label is of a "horizon [that] has fully elapsed" (backfill.py:55): it is what the
\* final closes say.  It fails (run flywheel_open_session): the cutoff counts days from
\* the time of the print, so the last session of the horizon may be open.
LabelsHold == \A f \in Labelled : Holds(f, [outcomes[f] EXCEPT !.open = FALSE])

\* The inductive invariant: so does every row of the session, which the clock, a crash or
\* other prints cannot make wrong.
ClosesType == now \in Nat /\ \A t \in Tickers : path[t] \in Paths[t]
RowsHold == \A f \in Flows : added[f] # NoOutcome => Holds(f, added[f])

LabelsInv == ClosesType /\ RowsHold /\ OnlyOpenSessionsMislead

\* Every print whose horizon is over gets its label, on one of the next nights:
\* also one whose ticker was not reached for an error with another's.
Due(f) ==
  /\ now >= ObservedAt[f] + 2 * (Horizon + 1)
  /\ Today + MaxFaults < LastDay
  /\ Cardinality({d \in DOMAIN path[TickerOf[f]] :
                    Day(ObservedAt[f]) <= d /\ 2 * d < now}) > Horizon

EveryHorizonLabelled == \A f \in Flows : Due(f) ~> outcomes[f] # NoOutcome

\* Whatever the scoring process read while the files were written or left in parts,
\* in the end it serves the artifacts that are there.
LatestIsServed ==
  \A file \in Artifacts :
    []<>(disk[file] # NoFile => (disk[file].whole => served[file] = disk[file].rows))
=============================================================================
