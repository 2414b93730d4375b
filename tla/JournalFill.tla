----------------------------- MODULE JournalFill -----------------------------
(***************************************************************************)
(* The trade-idea journal: rows created and deleted over the API           *)
(* (app/api/routes/journal.py) while the background job fills in their     *)
(* follow-up prices (app/jobs/journal_fill.py).                            *)
(*                                                                         *)
(* A price is represented by where it comes from: a quote by the time it   *)
(* was taken, a daily open or close by the day of its session.  Time is    *)
(* counted in parts of a day.  next_open_price and next_close_price are    *)
(* written together, so one field stands for both.                         *)
(***************************************************************************)
EXTENDS Naturals, FiniteSets, FiniteSetsExt

CONSTANTS
  Ids,            \* bound: rows ever created
  PartsOfDay,
  MaxDay,         \* bound: the last day
  LastEntryDay,   \* bound: the last day on which rows are created
  Sessions,       \* the days on which the market is open
  IntradayWait,   \* journal_intraday_hours, in parts of a day
  NoBars,         \* rows of tickers whose daily bars never come
  MaxOutages,     \* bound: failing requests, other than for NoBars
  Absent, Gone,   \* a row not created yet, and a deleted one
  None

Days == 0..MaxDay
Times == 0..(PartsOfDay * (MaxDay + 1) - 1)

Rows == [created : Times, intraday : Times \cup {None},
         next : Days \cup {None}, day3 : Days \cup {None}]

ASSUME JournalAssumption ==
  /\ PartsOfDay \in Nat \ {0}
  /\ Sessions \subseteq Days
  /\ NoBars \subseteq Ids
  /\ {MaxDay, LastEntryDay, IntradayWait, MaxOutages} \subseteq Nat
  /\ None \notin Times \cup Days \cup Ids
  /\ Absent # Gone /\ {Absent, Gone} \cap Rows = {}

VARIABLES
  now,      \* the clock
  latest,   \* the last session whose bar the provider has, or None
  rows,     \* the table journal_entry
  started,  \* now of run_once()
  batch,    \* the rows run_once() selected, as its session sees them
  left,     \* those it has not looked at
  current,  \* the one whose bars it waits for, or None
  changed,  \* "changed" of _fill_one()
  dirty,    \* rows that differ from the table
  updated,  \* a _fill_one() returned True
  outages

jobVars == <<started, batch, left, current, changed, dirty, updated>>
vars == <<now, latest, rows, jobVars, outages>>

Day(t) == t \div PartsOfDay

IsRow(r) == r \notin {Absent, Gone}
-----------------------------------------------------------------------------
(* The world. *)

Tick ==
  /\ now + 1 \in Times
  /\ now' = now + 1
  /\ UNCHANGED <<latest, rows, jobVars, outages>>

\* The provider adds the bar of the next session, on its day or later.
Publish ==
  LET coming == {s \in Sessions : s <= Day(now) /\ (latest # None => s > latest)} IN
  /\ coming # {}
  /\ latest' = Min(coming)
  /\ UNCHANGED <<now, rows, jobVars, outages>>

Outage == outages < MaxOutages /\ outages' = outages + 1
-----------------------------------------------------------------------------
(* The API. *)

Create(i) ==
  /\ rows[i] = Absent
  /\ Day(now) <= LastEntryDay
  /\ rows' = [rows EXCEPT ![i] = [created |-> now, intraday |-> None,
                                  next |-> None, day3 |-> None]]
  /\ UNCHANGED <<now, latest, jobVars, outages>>

Delete(i) ==
  /\ IsRow(rows[i])
  /\ rows' = [rows EXCEPT ![i] = Gone]
  /\ UNCHANGED <<now, latest, jobVars, outages>>
-----------------------------------------------------------------------------
(* run_once(). *)

Idle == batch = <<>>

Unfilled == {i \in Ids : IsRow(rows[i]) /\ rows[i].day3 = None}

Select ==
  /\ Idle /\ Unfilled # {}
  /\ started' = now
  /\ batch' = [i \in Unfilled |-> rows[i]]
  /\ left' = Unfilled
  /\ current' = None /\ changed' = FALSE
  /\ dirty' = {} /\ updated' = FALSE
  /\ UNCHANGED <<now, latest, rows, outages>>

Mutant_AlwaysDue(row) == started >= row.created + IntradayWait
IntradayDue(row) == row.intraday = None /\ started >= row.created + IntradayWait

\* The first half of _fill_one(): the quote, when it is due.  A failing
\* current_price() answers None.
Quote(i) ==
  /\ i \in left /\ current = None
  /\ left' = left \ {i}
  /\ current' = i
  /\ \/ /\ IntradayDue(batch[i])
        /\ batch' = [batch EXCEPT ![i].intraday = now]
        /\ changed' = TRUE /\ dirty' = dirty \cup {i}
        /\ UNCHANGED outages
     \/ /\ IntradayDue(batch[i]) /\ Outage
        /\ changed' = FALSE
        /\ UNCHANGED <<batch, dirty>>
     \/ /\ ~IntradayDue(batch[i])
        /\ changed' = FALSE
        /\ UNCHANGED <<batch, dirty, outages>>
  /\ UNCHANGED <<now, latest, rows, started, updated>>

\* The sessions daily_bars() returns, without today's.
Mutant_WithToday == {s \in Sessions : latest # None /\ s <= latest /\ s <= Day(started)}
Completed == {s \in Sessions : latest # None /\ s <= latest /\ s < Day(started)}

\* The earliest of a set of sessions; None if there is none.
Earliest(sessions) == IF sessions = {} THEN None ELSE Min(sessions)

Mutant_SameDay(row) == Earliest({s \in Completed : s >= Day(row.created)})
NextSession(row) == Earliest({s \in Completed : s > Day(row.created)})
Day3Session(row) == Earliest({s \in Completed : s >= Day(row.created) + 3})

Filled(row) ==
  [row EXCEPT !.next = IF @ = None THEN NextSession(row) ELSE @,
              !.day3 = IF @ = None THEN Day3Session(row) ELSE @]

\* The second half: the daily bars.
Bars ==
  /\ current # None
  /\ current \notin NoBars
  /\ LET row == Filled(batch[current]) IN
       /\ batch' = [batch EXCEPT ![current] = row]
       /\ dirty' = IF row # batch[current] THEN dirty \cup {current} ELSE dirty
       /\ updated' = (updated \/ changed \/ row # batch[current])
  /\ current' = None
  /\ UNCHANGED <<now, latest, rows, started, left, changed, outages>>

\* daily_bars() raises after its retries: the row is given up, with what the
\* quote changed still in the session.
Mutant_GiveUpAll == {}
LeftAfterFailure == left

BarsFail ==
  /\ current # None
  /\ \/ current \in NoBars /\ UNCHANGED outages
     \/ Outage
  /\ current' = None
  /\ left' = LeftAfterFailure
  /\ UNCHANGED <<now, latest, rows, started, batch, changed, dirty, updated>>

\* The session is closed: without a commit its changes are gone.
Close == batch' = <<>> /\ started' = 0 /\ left' = {} /\ current' = None
         /\ changed' = FALSE /\ dirty' = {} /\ updated' = FALSE

Done == ~Idle /\ left = {} /\ current = None

\* The rows run_once() leaves: those of its session, or those of before.
Mutant_Restored ==
  IF updated THEN [i \in Ids |-> IF i \in dirty THEN batch[i] ELSE rows[i]] ELSE rows
Committed ==
  IF updated /\ \A i \in dirty : IsRow(rows[i])
  THEN [i \in Ids |-> IF i \in dirty THEN batch[i] ELSE rows[i]]
  ELSE rows

\* The commit.  An update of a row that was deleted meanwhile matches nothing,
\* which raises and rolls everything back.
Commit ==
  /\ Done
  /\ rows' = Committed
  /\ Close
  /\ UNCHANGED <<now, latest, outages>>

\* The worker dies and starts again.
Crash ==
  /\ ~Idle
  /\ Outage
  /\ Close
  /\ UNCHANGED <<now, latest, rows>>

Init ==
  /\ now = 0 /\ latest = None
  /\ rows = [i \in Ids |-> Absent]
  /\ started = 0 /\ batch = <<>> /\ left = {} /\ current = None
  /\ changed = FALSE /\ dirty = {} /\ updated = FALSE
  /\ outages = 0

Job == Select \/ Bars \/ BarsFail \/ Commit \/ \E i \in Ids : Quote(i)

Next ==
  \/ Tick \/ Publish \/ Job \/ Crash
  \/ \E i \in Ids : Create(i) \/ Delete(i)

Spec == Init /\ [][Next]_vars

\* The loop of the job keeps running, time passes and bars are published.
FairSpec == Spec /\ WF_vars(Tick) /\ WF_vars(Publish) /\ WF_vars(Job)
-----------------------------------------------------------------------------
(* Properties. *)

\* Every variable has its type, and the job holds rows that were created.
TypeOK ==
  /\ now \in Times
  /\ latest \in Sessions \cup {None}
  /\ rows \in [Ids -> Rows \cup {Absent, Gone}]
  /\ started \in Times /\ started <= now
  /\ ~Idle => batch \in [DOMAIN batch -> Rows] /\ DOMAIN batch \subseteq Ids
  /\ left \subseteq Ids /\ dirty \subseteq Ids /\ current \in Ids \cup {None}
  /\ \A i \in left \cup dirty \cup ({current} \ {None}) : rows[i] # Absent
  /\ outages \in 0..MaxOutages

\* A price that was written is final, and so is a deletion: no pass of the job that
\* read the row earlier replaces the one or undoes the other.
WrittenOnce ==
  [][\A i \in Ids :
       /\ rows[i] = Gone => rows'[i] = Gone
       /\ IsRow(rows[i]) /\ IsRow(rows'[i]) =>
            \A f \in {"intraday", "next", "day3"} :
              rows[i][f] # None => rows'[i][f] = rows[i][f]]_vars

\* s is the first session of the market on the given day or later.
IsFirstFrom(s, day) ==
  /\ s \in Sessions /\ s >= day
  /\ \A y \in Sessions : y >= day => s <= y

\* The sessions after the entry of a resolved row, up to the one of its last price.
SessionsUsed(r) == {s \in Sessions : Day(r.created) < s /\ s <= r.day3}

\* The follow-up prices look neither back nor ahead, whenever the job and the provider
\* get round to it: the next session's is of the first session after the entry, the
\* last price is not of a session before that one nor of one after the third, a row
\* with the last price has the other, and every session was over when it was written.
RightSessions ==
  \A i \in Ids : IsRow(rows[i]) =>
    LET r == rows[i] IN
    /\ r.next # None => IsFirstFrom(r.next, Day(r.created) + 1) /\ r.next < Day(now)
    /\ r.day3 # None => /\ r.next # None /\ r.next <= r.day3
                        /\ r.day3 \in Sessions /\ r.day3 < Day(now)
                        /\ Cardinality(SessionsUsed(r)) <= 3

\* The ideas are measured alike, as the statistics over all of them take for granted
\* (api/routes/journal.py:128): the later of two is measured in no earlier session, and
\* those of a day in the same, however late the job was for either of them.
MeasuredAlike ==
  \A i, j \in Ids :
    (/\ IsRow(rows[i]) /\ IsRow(rows[j])
     /\ Day(rows[i].created) <= Day(rows[j].created)) =>
      \A f \in {"next", "day3"} :
        rows[i][f] # None /\ rows[j][f] # None => rows[i][f] <= rows[j][f]

\* What the documentation says of the last price: "the close ~3 sessions later"
\* (journal_fill.py:4), give or take one.  It fails (run journal_third_session).
AboutThreeSessions ==
  \A i \in Ids : IsRow(rows[i]) /\ rows[i].day3 # None =>
    Cardinality(SessionsUsed(rows[i])) \in 2..4

\* Every idea is resolved or deleted in the end; a ticker without bars does not
\* keep the others waiting ("one bad ticker can't stop the rest").
EveryIdeaResolved ==
  \A i \in Ids \ NoBars :
    IsRow(rows[i]) ~> (rows[i] = Gone \/ (IsRow(rows[i]) /\ rows[i].day3 # None))

-----------------------------------------------------------------------------
(* The inductive invariant behind the properties (the proofs are in           *)
(* JournalFill_proofs).                                                       *)

\* No price of r is missing or different in s.
Extends(r, s) ==
  /\ s.created = r.created
  /\ r.intraday # None => s.intraday = r.intraday
  /\ r.next # None => s.next = r.next
  /\ r.day3 # None => s.day3 = r.day3

\* The sessions _fill_one() takes the prices from: the first after the entry, and the
\* first three calendar days after it or later.
OfItsSessions(r) ==
  /\ r.next # None => IsFirstFrom(r.next, Day(r.created) + 1) /\ r.next < Day(now)
  /\ r.day3 # None => /\ r.next # None
                      /\ IsFirstFrom(r.day3, Day(r.created) + 3) /\ r.day3 < Day(now)

RowsOfTheirSessions == \A i \in Ids : IsRow(rows[i]) => OfItsSessions(rows[i])

\* What the job is at, it has in its session; and its copy of a row that still exists
\* is that row with more prices, of its sessions: nobody else writes them.
SessionInv ==
  /\ Idle => left = {} /\ current = None /\ dirty = {}
  /\ left \cup dirty \cup ({current} \ {None}) \subseteq DOMAIN batch
  /\ \A i \in DOMAIN batch :
       /\ rows[i] # Absent
       /\ IsRow(rows[i]) => Extends(rows[i], batch[i])
       /\ OfItsSessions(batch[i])

IInv == TypeOK /\ SessionInv /\ RowsOfTheirSessions
=============================================================================
