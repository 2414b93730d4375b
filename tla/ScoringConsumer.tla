-------------------------- MODULE ScoringConsumer --------------------------
(***************************************************************************)
(* The durable half of the pipeline: one Redis stream, its consumer group  *)
(* and the replicas of ScoringConsumer that share it                       *)
(* (app/core/queue.py, app/pipeline/consumer.py).                          *)
(*                                                                         *)
(* A replica is one asyncio task, so its own steps are sequential; replicas *)
(* interleave at every call to Redis or the database.  An event is its     *)
(* stream id.  What is abstracted:                                         *)
(*   - scoring: handle() returns, or raises for the events in Fallible;    *)
(*   - wall-clock time: FLUSH_INTERVAL has elapsed or not, and the 60 s    *)
(*     idle time of a pending entry is the set "stale";                    *)
(*   - AlertGate: it may let any event in Alertable through, or not;       *)
(*   - MAXLEN trimming: the stream keeps every event.                      *)
(* An error raised by Redis or the database escapes run() and ends the     *)
(* process: it is a Crash at that step.                                    *)
(***************************************************************************)
EXTENDS Naturals, Sequences, FiniteSets, FiniteSetsExt

CONSTANTS
  Consumers,     \* the consumer names in use (hostname-pid)
  Nobody,        \* owner of an entry that is not pending
  MaxEvents,     \* bound: events ever enqueued
  MaxCrashes,    \* bound: processes that ever die
  Fallible,      \* events for which handle() may raise
  Alertable,     \* events should_alert() lets through
  Batch,         \* count= of XREADGROUP
  FlushSize,     \* FLUSH_SIZE
  ReclaimCount   \* count= of XAUTOCLAIM

ASSUME ConstantsAssumption ==
  /\ Nobody \notin Consumers
  /\ MaxEvents \in Nat
  /\ MaxCrashes \in Nat
  /\ Fallible \subseteq 1..MaxEvents
  /\ Alertable \subseteq 1..MaxEvents
  /\ Batch \in Nat \ {0}
  /\ FlushSize \in Nat \ {0}
  /\ ReclaimCount \in Nat \ {0}

Ids == 1..MaxEvents

VARIABLES
  \* Redis: the stream and the group
  produced,       \* the stream holds ids 1..produced
  lastDelivered,  \* last id handed out by a ">" read
  pel,            \* pending entries list: the owner of an id, or Nobody
  stale,          \* pending ids idle for at least min_idle_ms
  deliveries,     \* times an id was delivered (Redis keeps this count)
  \* the database and the outside world
  rows,           \* raw_flow rows committed for an id
  published,      \* ids broadcast on the live channel
  alerted,        \* ids for which a notification went out
  audit,          \* ids with a row in the alert table
  dropped,        \* ids given up after handle() raised
  \* each process
  pc,
  cursor,         \* backlog_id of consume(): "backlog" is "0", "live" is ">"
  inbox,          \* ids fetched or reclaimed, not handled yet
  buf,            \* BatchWriter._buf
  pendingIds,     \* ScoringConsumer._pending_ids
  written,        \* rows flush() returned, not published yet
  crashes

groupVars == <<produced, lastDelivered, pel, stale, deliveries>>
worldVars == <<rows, published, alerted, audit, dropped>>
procVars  == <<pc, cursor, inbox, buf, pendingIds, written>>
vars == <<groupVars, worldVars, procVars, crashes>>

Steps == {"down", "recover", "fetch", "handle", "flush",
          "publish", "alert", "record", "ack"}

-----------------------------------------------------------------------------
(* The stream and the consumer group. *)

\* How many times i occurs in s.
Occurrences(s, i) == Cardinality({k \in DOMAIN s : s[k] = i})

\* The n smallest members of S: Redis answers in id order, at most n entries.
First(n, S) == {i \in S : Cardinality({j \in S : j < i}) < n}

\* The entry a loop over S, in id order, takes next.
Oldest(S) == {i \in S : \A j \in S : i <= j}

Pending(c) == {i \in Ids : pel[i] = c}

\* Delivered to someone and no longer pending: acknowledged.
Settled == {i \in Ids : i <= lastDelivered /\ pel[i] = Nobody}

\* Redis records a delivery of S to c and restarts the idle time.
Deliver(S, c) ==
  /\ pel' = [i \in Ids |-> IF i \in S THEN c ELSE pel[i]]
  /\ stale' = stale \ S
  /\ deliveries' = [i \in Ids |-> IF i \in S THEN deliveries[i] + 1
                                             ELSE deliveries[i]]

\* XACK removes ids from the group's list, whoever owns them.
XAck(S) ==
  /\ pel' = [i \in Ids |-> IF i \in S THEN Nobody ELSE pel[i]]
  /\ stale' = stale \ S
  /\ UNCHANGED deliveries

\* enqueue(): XADD of the next event by the ingest producer.
Enqueue ==
  /\ produced < MaxEvents
  /\ produced' = produced + 1
  /\ UNCHANGED <<lastDelivered, pel, stale, deliveries, worldVars, procVars,
                 crashes>>

\* A minute passes: every entry pending now may be claimed by another process.
Age ==
  /\ stale # {i \in Ids : pel[i] # Nobody}
  /\ stale' = {i \in Ids : pel[i] # Nobody}
  /\ UNCHANGED <<produced, lastDelivered, pel, deliveries, worldVars, procVars,
                 crashes>>

-----------------------------------------------------------------------------
(* run(): recovery, then the two reads of consume(). *)

\* A process starts: reclaim_stale() claims what has been idle for a minute.
ReclaimStale(c) ==
  LET claimed == First(ReclaimCount, stale) IN
  /\ pc[c] = "down"
  /\ Deliver(claimed, c)
  /\ inbox' = [inbox EXCEPT ![c] = claimed]
  /\ cursor' = [cursor EXCEPT ![c] = "backlog"]
  /\ pc' = [pc EXCEPT ![c] = IF claimed = {} THEN "fetch" ELSE "recover"]
  /\ UNCHANGED <<produced, lastDelivered, worldVars, buf, pendingIds, written,
                 crashes>>

\* writer.add() and _pending_ids.append(), the last two lines of handle().
Accept(c, i) ==
  /\ buf' = [buf EXCEPT ![c] = Append(@, i)]
  /\ pendingIds' = [pendingIds EXCEPT ![c] = Append(@, i)]

\* The recovery loop handles a reclaimed entry; it never looks at the flush
\* conditions.
HandleReclaimed(c) ==
  /\ pc[c] = "recover"
  /\ \E i \in Oldest(inbox[c]) :
       /\ Accept(c, i)
       /\ inbox' = [inbox EXCEPT ![c] = inbox[c] \ {i}]
       /\ pc' = [pc EXCEPT ![c] = IF inbox[c] = {i} THEN "fetch" ELSE "recover"]
  /\ UNCHANGED <<groupVars, worldVars, cursor, written, crashes>>

\* backlog_id after the entries of one answer.
Mutant_NeverLive(entries) == "backlog"
Mutant_LiveAtOnce(entries) == "live"
NextCursor(entries) == IF Cardinality(entries) < Batch THEN "live" ELSE "backlog"

\* consume() with backlog_id "0": this name's pending entries from the start.
\* A short answer switches to ">" once its entries are handled.
ReadBacklog(c) ==
  LET entries == First(Batch, Pending(c)) IN
  /\ pc[c] = "fetch"
  /\ cursor[c] = "backlog"
  /\ Deliver(entries, c)
  /\ inbox' = [inbox EXCEPT ![c] = entries]
  /\ cursor' = [cursor EXCEPT ![c] = NextCursor(entries)]
  /\ pc' = [pc EXCEPT ![c] = IF entries = {} THEN "fetch" ELSE "handle"]
  /\ UNCHANGED <<produced, lastDelivered, worldVars, buf, pendingIds, written,
                 crashes>>

\* The group's last-delivered id after it handed out entries.
LastDeliveredAfter(entries) == lastDelivered + Cardinality(entries)

\* consume() with backlog_id ">": entries nobody was given yet.  An empty
\* stream answers nothing, consume() polls again and run() gets no event.
ReadNew(c) ==
  LET fresh == {i \in Ids : lastDelivered < i /\ i <= produced}
      entries == First(Batch, fresh)
  IN
  /\ pc[c] = "fetch"
  /\ cursor[c] = "live"
  /\ entries # {}
  /\ Deliver(entries, c)
  /\ lastDelivered' = LastDeliveredAfter(entries)
  /\ inbox' = [inbox EXCEPT ![c] = entries]
  /\ pc' = [pc EXCEPT ![c] = "handle"]
  /\ UNCHANGED <<produced, worldVars, cursor, buf, pendingIds, written, crashes>>

-----------------------------------------------------------------------------
(* run(): the consume loop. *)

Resume(S) == IF S = {} THEN "fetch" ELSE "handle"

\* The test after every event: enough rows, or FLUSH_INTERVAL has elapsed.
FlushCheck(c, size, rest) ==
  \E elapsed \in BOOLEAN :
    pc' = [pc EXCEPT ![c] = IF size >= FlushSize \/ elapsed
                            THEN "flush" ELSE Resume(rest)]

\* handle() returns.
Handle(c) ==
  /\ pc[c] = "handle"
  /\ \E i \in Oldest(inbox[c]) :
       /\ Accept(c, i)
       /\ inbox' = [inbox EXCEPT ![c] = inbox[c] \ {i}]
       /\ FlushCheck(c, Len(buf[c]) + 1, inbox[c] \ {i})
  /\ UNCHANGED <<groupVars, worldVars, cursor, written, crashes>>

\* handle() raises: the event is acknowledged and given up.
HandleFailed(c) ==
  /\ pc[c] = "handle"
  /\ \E i \in Oldest(inbox[c]) :
       /\ i \in Fallible
       /\ XAck({i})
       /\ dropped' = dropped \cup {i}
       /\ inbox' = [inbox EXCEPT ![c] = inbox[c] \ {i}]
       /\ FlushCheck(c, Len(buf[c]), inbox[c] \ {i})
  /\ UNCHANGED <<produced, lastDelivered, rows, published, alerted, audit,
                 cursor, buf, pendingIds, written, crashes>>

-----------------------------------------------------------------------------
(* _flush(). *)

\* The commit is forgotten.
Mutant_NoCommit(c) ==
  /\ pc[c] = "flush"
  /\ written' = [written EXCEPT ![c] = buf[c]]
  /\ buf' = [buf EXCEPT ![c] = <<>>]
  /\ pc' = [pc EXCEPT ![c] = IF buf[c] = <<>> THEN "ack" ELSE "publish"]
  /\ UNCHANGED <<groupVars, worldVars, cursor, inbox, pendingIds, crashes>>

\* The buffer is not emptied.
Mutant_BufferKept(c) ==
  /\ pc[c] = "flush"
  /\ rows' = [i \in Ids |-> rows[i] + Occurrences(buf[c], i)]
  /\ written' = [written EXCEPT ![c] = buf[c]]
  /\ pc' = [pc EXCEPT ![c] = IF buf[c] = <<>> THEN "ack" ELSE "publish"]
  /\ UNCHANGED <<groupVars, published, alerted, audit, dropped, cursor, inbox,
                 buf, pendingIds, crashes>>

\* The rows are paired with the wrong events.
Mutant_Shifted(c) ==
  /\ pc[c] = "flush"
  /\ rows' = [i \in Ids |-> rows[i] + Occurrences(buf[c], i)]
  /\ written' = [written EXCEPT ![c] = [k \in DOMAIN buf[c] |-> buf[c][k] + 1]]
  /\ buf' = [buf EXCEPT ![c] = <<>>]
  /\ pc' = [pc EXCEPT ![c] = IF buf[c] = <<>> THEN "ack" ELSE "publish"]
  /\ UNCHANGED <<groupVars, published, alerted, audit, dropped, cursor, inbox,
                 pendingIds, crashes>>

\* BatchWriter.flush(): the buffer is taken and committed in one transaction.
WriteBatch(c) ==
  /\ pc[c] = "flush"
  /\ rows' = [i \in Ids |-> rows[i] + Occurrences(buf[c], i)]
  /\ written' = [written EXCEPT ![c] = buf[c]]
  /\ buf' = [buf EXCEPT ![c] = <<>>]
  /\ pc' = [pc EXCEPT ![c] = IF buf[c] = <<>> THEN "ack" ELSE "publish"]
  /\ UNCHANGED <<groupVars, published, alerted, audit, dropped, cursor, inbox,
                 pendingIds, crashes>>

\* The step of _flush() after an event, w being what is left to publish.
Mutant_FirstOnly(w) == "ack"
AfterEvent(w) == IF w = <<>> THEN "ack" ELSE "publish"

\* publish() of the next row; an alertable event that the gate
\* lets through is notified next.
Publish(c) ==
  /\ pc[c] = "publish"
  /\ published' = published \cup {Head(written[c])}
  /\ \/ /\ Head(written[c]) \in Alertable
        /\ pc' = [pc EXCEPT ![c] = "alert"]
        /\ UNCHANGED written
     \/ /\ pc' = [pc EXCEPT ![c] = AfterEvent(Tail(written[c]))]
        /\ written' = [written EXCEPT ![c] = Tail(@)]
  /\ UNCHANGED <<groupVars, rows, alerted, audit, dropped, cursor, inbox, buf,
                 pendingIds, crashes>>

\* The alert row is skipped.
Mutant_NoRecord(c) ==
  /\ pc[c] = "alert"
  /\ alerted' = alerted \cup {Head(written[c])}
  /\ written' = [written EXCEPT ![c] = Tail(@)]
  /\ pc' = [pc EXCEPT ![c] = AfterEvent(Tail(written[c]))]
  /\ UNCHANGED <<groupVars, rows, published, audit, dropped, cursor, inbox, buf,
                 pendingIds, crashes>>

\* dispatcher.dispatch(): the notification leaves.
Dispatch(c) ==
  /\ pc[c] = "alert"
  /\ alerted' = alerted \cup {Head(written[c])}
  /\ pc' = [pc EXCEPT ![c] = "record"]
  /\ UNCHANGED <<groupVars, rows, published, audit, dropped, cursor, inbox, buf,
                 pendingIds, written, crashes>>

\* _record_alert(): its row in the alert table, a transaction of its own.
RecordAlert(c) ==
  /\ pc[c] = "record"
  /\ audit' = audit \cup {Head(written[c])}
  /\ written' = [written EXCEPT ![c] = Tail(@)]
  /\ pc' = [pc EXCEPT ![c] = AfterEvent(Tail(written[c]))]
  /\ UNCHANGED <<groupVars, rows, published, alerted, dropped, cursor, inbox,
                 buf, pendingIds, crashes>>

\* The ids _flush() acknowledges: everything handled since the last flush.
Mutant_AckAllPending(c) == Pending(c)
ToAck(c) == Range(pendingIds[c])

\* ack(), the end of _flush().
AckBatch(c) ==
  /\ pc[c] = "ack"
  /\ XAck(ToAck(c))
  /\ pendingIds' = [pendingIds EXCEPT ![c] = <<>>]
  /\ pc' = [pc EXCEPT ![c] = Resume(inbox[c])]
  /\ UNCHANGED <<produced, lastDelivered, worldVars, cursor, inbox, buf,
                 written, crashes>>

-----------------------------------------------------------------------------
(* The end of a process: everything it held in memory is gone.  It was      *)
(* killed, or an exception escaped run(): an error of Redis or the database *)
(* at any call, or handle() raising in the recovery loop, which has no try. *)

Crash(c) ==
  /\ pc[c] # "down"
  /\ crashes < MaxCrashes
  /\ crashes' = crashes + 1
  /\ pc' = [pc EXCEPT ![c] = "down"]
  /\ cursor' = [cursor EXCEPT ![c] = "backlog"]
  /\ inbox' = [inbox EXCEPT ![c] = {}]
  /\ buf' = [buf EXCEPT ![c] = <<>>]
  /\ pendingIds' = [pendingIds EXCEPT ![c] = <<>>]
  /\ written' = [written EXCEPT ![c] = <<>>]
  /\ UNCHANGED <<groupVars, worldVars>>


Init ==
  /\ produced = 0
  /\ lastDelivered = 0
  /\ pel = [i \in Ids |-> Nobody]
  /\ stale = {}
  /\ deliveries = [i \in Ids |-> 0]
  /\ rows = [i \in Ids |-> 0]
  /\ published = {}
  /\ alerted = {}
  /\ audit = {}
  /\ dropped = {}
  /\ pc = [c \in Consumers |-> "down"]
  /\ cursor = [c \in Consumers |-> "backlog"]
  /\ inbox = [c \in Consumers |-> {}]
  /\ buf = [c \in Consumers |-> <<>>]
  /\ pendingIds = [c \in Consumers |-> <<>>]
  /\ written = [c \in Consumers |-> <<>>]
  /\ crashes = 0

\* What a running process does on its own.
Work(c) ==
  \/ HandleReclaimed(c)
  \/ ReadBacklog(c)
  \/ ReadNew(c)
  \/ Handle(c)
  \/ HandleFailed(c)
  \/ WriteBatch(c)
  \/ Publish(c)
  \/ Dispatch(c)
  \/ RecordAlert(c)
  \/ AckBatch(c)

Next ==
  \/ Enqueue
  \/ Age
  \/ \E c \in Consumers :
       \/ ReclaimStale(c)
       \/ Work(c)
       \/ Crash(c)

Spec == Init /\ [][Next]_vars

\* asyncio keeps running a task that is not waiting.
WorkerFairness == \A c \in Consumers : WF_vars(Work(c))

FairSpec == Spec /\ WorkerFairness

-----------------------------------------------------------------------------
(* Properties. *)

\* Every variable has its type.
TypeOK ==
  /\ produced \in 0..MaxEvents
  /\ lastDelivered \in 0..produced
  /\ pel \in [Ids -> Consumers \cup {Nobody}]
  /\ stale \subseteq Ids
  /\ deliveries \in [Ids -> Nat]
  /\ rows \in [Ids -> Nat]
  /\ published \subseteq Ids
  /\ alerted \subseteq Ids
  /\ audit \subseteq Ids
  /\ dropped \subseteq Ids
  /\ pc \in [Consumers -> Steps]
  /\ cursor \in [Consumers -> {"backlog", "live"}]
  /\ inbox \in [Consumers -> SUBSET Ids]
  /\ buf \in [Consumers -> Seq(Ids)]
  /\ pendingIds \in [Consumers -> Seq(Ids)]
  /\ written \in [Consumers -> Seq(Ids)]
  /\ crashes \in 0..MaxCrashes

Stored == {i \in Ids : rows[i] > 0}

\* No acknowledged event is lost, whatever crashes: an event leaves the
\* pending list only after it was committed and broadcast, or after handle()
\* raised for it (consumer.py: _flush acks last; run acks a poison pill).
NoAckedEventLost ==
  \A i \in Settled : i \in dropped \/ (i \in Stored /\ i \in published)

\* A process past its backlog still holds, unhandled or waiting for the ack,
\* every entry the group lists as pending on it: consume() reads the backlog
\* to its end before it reads new entries, so none is forgotten until restart.
LiveHoldsItsPending ==
  \A c \in Consumers :
    cursor[c] = "live" => Pending(c) \subseteq inbox[c] \cup Range(pendingIds[c])

\* Where copies of an event are held in memory: in an inbox (0), at places of a buffer.
Copies(i) ==
  {<<c, 0>> : c \in {d \in Consumers : i \in inbox[d]}}
    \cup UNION {{<<c, k>> : k \in {l \in DOMAIN buf[c] : buf[c][l] = i}} : c \in Consumers}

\* A delivery is written at most once: the rows of an event and its copies in
\* the processes never outnumber the times Redis delivered it, so every
\* duplicate row goes back to a second delivery (BatchWriter.flush takes the
\* buffer before it writes).
RowsPerDelivery ==
  \A i \in Ids : rows[i] + Cardinality(Copies(i)) <= deliveries[i]

\* Queue and replicas together are an at-least-once queue: every step of theirs
\* is a step of the abstract queue or none.
Abstract == INSTANCE AtLeastOnce WITH
  sent <- produced, stored <- Stored, shown <- published,
  givenUp <- dropped, settled <- Settled

\* Nothing the replicas do settles an event that was not stored and broadcast or
\* given up, or takes back what was done (queue.py: "at-least-once delivery").
ImplementsAtLeastOnce == Abstract!Spec

\* What an outsider sees of an event comes after what it refers to: the alert
\* row after the notification, that after the broadcast, that after the commit
\* of the row whose id they carry (_flush, _record_alert).
SeenInOrder ==
  audit \subseteq alerted /\ alerted \subseteq published /\ published \subseteq Stored

\* A notification has its row in the alert table unless a process died between
\* the two, or is between them now (_flush: dispatch, then _record_alert).
UnauditedOnlyByCrash ==
  crashes = 0 =>
    \A i \in alerted \ audit :
      \E c \in Consumers : pc[c] = "record" /\ Head(written[c]) = i

\* While processes run, every event of the stream is eventually delivered to one
\* of them: recovery and the backlog come to an end (consume() leaves "0" for
\* ">").
EventuallyDelivered ==
  \A i \in Ids :
    (i <= produced) ~> (i <= lastDelivered \/ \A c \in Consumers : pc[c] = "down")

\* FLUSH_INTERVAL "bound[s] alert latency": a handled event does not wait in the
\* buffer of a running process for ever.
BufferIsFlushed ==
  \A c \in Consumers : (buf[c] # <<>>) ~> (buf[c] = <<>>)

\* "pending entries are re-claimed": what a process that died left pending does
\* not stay with it while another process runs.  The program does not have this
\* property: reclaim_stale() is called at the start only (README, section 6).
DeadEntriesReclaimed ==
  \A c \in Consumers, i \in Ids :
    (pc[c] = "down" /\ pel[i] = c) ~> (pel[i] # c \/ \A d \in Consumers : pc[d] = "down")

-----------------------------------------------------------------------------
(* The inductive invariant behind NoAckedEventLost and ImplementsAtLeastOnce *)
(* (the proofs are in ScoringConsumer_proofs).                               *)

Delivered == {i \in Ids : i <= lastDelivered}

\* Whatever is pending or held by a process was delivered.
HeldIsDelivered ==
  /\ \A i \in Ids : pel[i] # Nobody => i \in Delivered
  /\ \A i \in stale : pel[i] # Nobody
  /\ \A c \in Consumers :
       /\ inbox[c] \subseteq Delivered
       /\ Range(buf[c]) \subseteq Delivered
       /\ Range(pendingIds[c]) \subseteq Delivered
       /\ Range(written[c]) \subseteq Delivered

\* The ids to acknowledge are those of the buffered events, until _flush() takes
\* the buffer; then it stays empty to the end of _flush().
BufferMatchesPending ==
  \A c \in Consumers :
    IF pc[c] \in {"publish", "alert", "record", "ack"}
    THEN buf[c] = <<>>
    ELSE pendingIds[c] = buf[c]

\* Inside _flush(), the ids to acknowledge are committed, and those not yet
\* broadcast are still in the list of written rows.
FlushProgress ==
  \A c \in Consumers :
    /\ pc[c] \in {"publish", "alert", "record"} =>
         /\ written[c] # <<>>
         /\ Range(written[c]) \subseteq Stored
         /\ Range(pendingIds[c]) \subseteq Stored
         /\ Range(pendingIds[c]) \subseteq Range(written[c]) \cup published
    /\ pc[c] \in {"alert", "record"} => Head(written[c]) \in published
    /\ pc[c] = "ack" => Range(pendingIds[c]) \subseteq Stored \cap published

IInv ==
  /\ TypeOK
  /\ HeldIsDelivered
  /\ BufferMatchesPending
  /\ FlushProgress
  /\ NoAckedEventLost

\* An alert whose row is being written has been sent.
RecordIsOfAnAlert ==
  \A c \in Consumers : pc[c] = "record" => Head(written[c]) \in alerted

\* With IInv this is inductive: the order of the effects of _flush().
EffectsInv ==
  /\ SeenInOrder
  /\ UnauditedOnlyByCrash
  /\ RecordIsOfAnAlert

\* run() asks for more only when everything it was given is handled.
FetchHoldsNothing ==
  \A c \in Consumers : pc[c] = "fetch" => inbox[c] = {}

\* With IInv this is inductive: nothing pending is forgotten.
BacklogInv ==
  /\ LiveHoldsItsPending
  /\ FetchHoldsNothing

\* With IInv this is inductive: what is held can be counted, and was delivered as often.
DeliveryInv ==
  /\ \A i \in Ids : IsFiniteSet(Copies(i))
  /\ RowsPerDelivery
=============================================================================
