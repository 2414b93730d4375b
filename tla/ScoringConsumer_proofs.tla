----------------------- MODULE ScoringConsumer_proofs -----------------------
(***************************************************************************)
(* Proofs about ScoringConsumer: its types, that no acknowledged event is  *)
(* lost and no pending one forgotten, that its effects come in their       *)
(* order, that no event has more rows than deliveries, and that it         *)
(* implements AtLeastOnce.  All follow from the                            *)
(* inductive invariant IInv, which has one lemma per action; the order of  *)
(* the effects needs EffectsInv, too, the backlog BacklogInv, and the      *)
(* account of rows and deliveries DeliveryInv.                             *)
(***************************************************************************)
EXTENDS ScoringConsumer, FiniteSetTheorems, SequenceTheorems, WellFoundedInduction, TLAPS

-----------------------------------------------------------------------------

(* Facts about the operators. *)

\* First(n, S) only picks from S.
LEMMA FirstSubset ==
  ASSUME NEW n, NEW S
  PROVE  First(n, S) \subseteq S
BY DEF First

\* The n smallest of the ids after a are the next ones, without a gap.
LEMMA FirstOfInterval ==
  ASSUME NEW a \in Nat, NEW b \in Nat, NEW n \in Nat, a <= b
  PROVE  LET m == IF n <= b - a THEN n ELSE b - a
         IN  /\ First(n, (a + 1)..b) = (a + 1)..(a + m)
             /\ Cardinality(First(n, (a + 1)..b)) = m
<1> DEFINE m == IF n <= b - a THEN n ELSE b - a
           S == (a + 1)..b
<1>1. ASSUME NEW i \in S
      PROVE  Cardinality({j \in S : j < i}) = i - 1 - a
  <2>1. i \in Int /\ a + 1 <= i /\ i <= b
    OBVIOUS
  <2>2. {j \in S : j < i} = (a + 1)..(i - 1)
    BY <2>1
  <2>3. a + 1 \in Int /\ i - 1 \in Int
    BY <2>1
  <2>4. Cardinality((a + 1)..(i - 1))
          = IF a + 1 > i - 1 THEN 0 ELSE (i - 1) - (a + 1) + 1
    BY <2>3, FS_Interval
  <2>5. Cardinality((a + 1)..(i - 1)) = i - 1 - a
    BY <2>1, <2>4
  <2>6. QED
    BY <2>2, <2>5
<1>2. First(n, S) = (a + 1)..(a + m)
  <2>1. ASSUME NEW i \in S
        PROVE  Cardinality({j \in S : j < i}) < n <=> i <= a + m
    <3>1. i \in Int /\ i <= b /\ Cardinality({j \in S : j < i}) = i - 1 - a
      BY <1>1
    <3>2. i - 1 - a < n <=> i <= a + m
      BY <3>1
    <3>3. QED
      BY <3>1, <3>2
  <2>2. First(n, S) = {i \in S : i <= a + m}
    BY <2>1 DEF First
  <2>3. {i \in S : i <= a + m} = (a + 1)..(a + m)
    OBVIOUS
  <2>4. QED
    BY <2>2, <2>3
<1>3. Cardinality((a + 1)..(a + m)) = m
  <2>1. m \in Nat /\ a + 1 \in Int /\ a + m \in Int
    OBVIOUS
  <2>2. Cardinality((a + 1)..(a + m))
          = IF a + 1 > a + m THEN 0 ELSE (a + m) - (a + 1) + 1
    BY <2>1, FS_Interval
  <2>3. QED
    BY <2>1, <2>2
<1>4. QED
  BY <1>2, <1>3

\* An id occurs in a sequence exactly when it is one of its elements.
LEMMA OccurrencesCount ==
  ASSUME NEW T, NEW s \in Seq(T), NEW i
  PROVE  /\ Occurrences(s, i) \in Nat
         /\ Occurrences(s, i) > 0 <=> i \in Range(s)
<1> DEFINE P == {k \in DOMAIN s : s[k] = i}
<1>1. DOMAIN s = 1..Len(s) /\ Len(s) \in Nat
  BY LenProperties
<1>2. IsFiniteSet(DOMAIN s)
  BY <1>1, FS_Interval
<1>3. IsFiniteSet(P)
  BY <1>2, FS_Subset
<1>4. Cardinality(P) \in Nat /\ (Cardinality(P) = 0 <=> P = {})
  BY <1>3, FS_CardinalityType, FS_EmptySet
<1>5. P # {} <=> i \in Range(s)
  BY DEF Range
<1>6. QED
  BY <1>4, <1>5 DEF Occurrences

\* The empty sequence has no elements.
LEMMA RangeOfEmpty == Range(<<>>) = {}
BY DEF Range

\* Append adds one element.
LEMMA RangeOfAppend ==
  ASSUME NEW T, NEW s \in Seq(T), NEW x \in T
  PROVE  /\ Append(s, x) \in Seq(T)
         /\ Range(Append(s, x)) = Range(s) \cup {x}
<1>1. /\ Len(Append(s, x)) = Len(s) + 1
      /\ \A k \in 1..Len(s) : Append(s, x)[k] = s[k]
      /\ Append(s, x)[Len(s) + 1] = x
      /\ Append(s, x) \in Seq(T)
  BY AppendProperties
<1>2. /\ DOMAIN s = 1..Len(s)
      /\ DOMAIN Append(s, x) = 1..(Len(s) + 1)
      /\ Len(s) \in Nat
  BY <1>1, LenProperties
<1>3. Range(Append(s, x)) = Range(s) \cup {x}
  BY <1>1, <1>2 DEF Range
<1>4. QED
  BY <1>1, <1>3

\* What Tail removes is the head.
LEMMA RangeOfTail ==
  ASSUME NEW T, NEW s \in Seq(T), s # <<>>
  PROVE  /\ Head(s) \in T
         /\ Tail(s) \in Seq(T)
         /\ Range(s) = {Head(s)} \cup Range(Tail(s))
<1>1. /\ Head(s) = s[1]
      /\ Head(s) \in T
      /\ Tail(s) \in Seq(T)
      /\ Len(Tail(s)) = Len(s) - 1
      /\ \A k \in 1..Len(Tail(s)) : Tail(s)[k] = s[k + 1]
  BY HeadTailProperties
<1>2. /\ DOMAIN s = 1..Len(s) /\ Len(s) \in Nat /\ Len(s) > 0
      /\ DOMAIN Tail(s) = 1..Len(Tail(s))
  BY <1>1, LenProperties, EmptySeq
<1>3. ASSUME NEW k \in DOMAIN s
      PROVE  s[k] \in {Head(s)} \cup Range(Tail(s))
  <2>1. CASE k = 1
    BY <1>1, <2>1
  <2>2. CASE k # 1
    <3>1. k - 1 \in 1..Len(Tail(s)) /\ Tail(s)[k - 1] = s[k]
      BY <1>1, <1>2, <2>2
    <3>2. QED
      BY <3>1, <1>2 DEF Range
  <2>3. QED
    BY <2>1, <2>2
<1>4. ASSUME NEW k \in DOMAIN Tail(s)
      PROVE  Tail(s)[k] \in Range(s)
  BY <1>1, <1>2 DEF Range
<1>5. Head(s) \in Range(s)
  BY <1>1, <1>2 DEF Range
<1>6. QED
  BY <1>1, <1>3, <1>4, <1>5 DEF Range

-----------------------------------------------------------------------------
(* Facts about the consumer group. *)

\* Delivering ids to a replica keeps the types of the pending list.
LEMMA DeliverType ==
  ASSUME TypeOK, NEW c \in Consumers, NEW S \in SUBSET Ids, Deliver(S, c)
  PROVE  /\ pel' \in [Ids -> Consumers \cup {Nobody}]
         /\ stale' \subseteq Ids
         /\ deliveries' \in [Ids -> Nat]
BY DEF TypeOK, Deliver

\* So does acknowledging them.
LEMMA XAckType ==
  ASSUME TypeOK, NEW S, XAck(S)
  PROVE  /\ pel' \in [Ids -> Consumers \cup {Nobody}]
         /\ stale' \subseteq Ids
         /\ deliveries' \in [Ids -> Nat]
BY DEF TypeOK, XAck

\* A ">" read hands out the ids right after the last delivered one.
LEMMA NewEntries ==
  ASSUME TypeOK
  PROVE  LET fresh == {i \in Ids : lastDelivered < i /\ i <= produced}
             entries == First(Batch, fresh)
         IN  /\ LastDeliveredAfter(entries) \in lastDelivered..produced
             /\ entries = (lastDelivered + 1)..LastDeliveredAfter(entries)
             /\ entries \subseteq Ids
<1> DEFINE fresh == {i \in Ids : lastDelivered < i /\ i <= produced}
           m == IF Batch <= produced - lastDelivered
                THEN Batch ELSE produced - lastDelivered
<1>1. /\ lastDelivered \in Nat /\ produced \in Nat /\ Batch \in Nat
      /\ lastDelivered <= produced /\ produced <= MaxEvents /\ MaxEvents \in Nat
  BY ConstantsAssumption DEF TypeOK
<1>2. fresh = (lastDelivered + 1)..produced
  BY <1>1 DEF Ids
<1>3. /\ First(Batch, fresh) = (lastDelivered + 1)..(lastDelivered + m)
      /\ Cardinality(First(Batch, fresh)) = m
  BY <1>1, <1>2, FirstOfInterval
<1>4. m \in Nat /\ lastDelivered + m <= produced
  BY <1>1
<1>5. LastDeliveredAfter(First(Batch, fresh)) = lastDelivered + m
  BY <1>3 DEF LastDeliveredAfter
<1>6. (lastDelivered + 1)..(lastDelivered + m) \subseteq Ids
  BY <1>1, <1>4 DEF Ids
<1>7. lastDelivered + m \in lastDelivered..produced
  BY <1>1, <1>4
<1>8. QED
  BY <1>3, <1>5, <1>6, <1>7

-----------------------------------------------------------------------------
(* The inductive invariant, one lemma per action. *)

\* A new event is not delivered yet: it touches none of what the invariant ties.
LEMMA EnqueueStep == IInv /\ Enqueue => IInv'
<1> SUFFICES ASSUME IInv, Enqueue
             PROVE  IInv'
  OBVIOUS
<1> USE DEF worldVars, procVars, Enqueue
<1>1. TypeOK'
  BY ConstantsAssumption DEF IInv, TypeOK
<1>2. HeldIsDelivered'
  BY DEF IInv, HeldIsDelivered, Delivered
<1>3. BufferMatchesPending' /\ FlushProgress'
  BY DEF IInv, BufferMatchesPending, FlushProgress, Stored
<1>4. NoAckedEventLost'
  BY DEF IInv, NoAckedEventLost, Settled, Stored
<1>5. QED
  BY <1>1, <1>2, <1>3, <1>4 DEF IInv

\* Only entries that are pending become stale.
LEMMA AgeStep == IInv /\ Age => IInv'
<1> SUFFICES ASSUME IInv, Age
             PROVE  IInv'
  OBVIOUS
<1> USE DEF worldVars, procVars, Age
<1>1. TypeOK'
  BY DEF IInv, TypeOK
<1>2. HeldIsDelivered'
  BY DEF IInv, HeldIsDelivered, Delivered
<1>3. BufferMatchesPending' /\ FlushProgress'
  BY DEF IInv, BufferMatchesPending, FlushProgress, Stored
<1>4. NoAckedEventLost'
  BY DEF IInv, NoAckedEventLost, Settled, Stored
<1>5. QED
  BY <1>1, <1>2, <1>3, <1>4 DEF IInv

\* What a starting replica claims was pending, hence delivered, and it starts
\* with nothing buffered.
LEMMA ReclaimStaleStep ==
  ASSUME IInv, NEW c \in Consumers, ReclaimStale(c)
  PROVE  IInv'
<1> DEFINE claimed == First(ReclaimCount, stale)
<1>1. claimed \subseteq stale /\ claimed \in SUBSET Ids
  BY FirstSubset DEF IInv, TypeOK
<1>2. claimed \subseteq Delivered
  BY <1>1 DEF IInv, TypeOK, HeldIsDelivered
<1>3. /\ pc[c] = "down"
      /\ Deliver(claimed, c)
      /\ inbox' = [inbox EXCEPT ![c] = claimed]
      /\ cursor' = [cursor EXCEPT ![c] = "backlog"]
      /\ pc' = [pc EXCEPT ![c] = IF claimed = {} THEN "fetch" ELSE "recover"]
      /\ UNCHANGED <<produced, lastDelivered, worldVars, buf, pendingIds, written,
                     crashes>>
  BY DEF ReclaimStale
<1> HIDE DEF claimed
<1> USE <1>3 DEF worldVars
<1>4. TypeOK'
  BY <1>1, DeliverType DEF IInv, TypeOK, Steps
<1>5. HeldIsDelivered'
  BY <1>1, <1>2, ConstantsAssumption
     DEF IInv, TypeOK, HeldIsDelivered, Delivered, Deliver
<1>6. BufferMatchesPending' /\ FlushProgress'
  BY DEF IInv, TypeOK, BufferMatchesPending, FlushProgress, Stored, Steps
<1>7. NoAckedEventLost'
  BY ConstantsAssumption
     DEF IInv, TypeOK, NoAckedEventLost, Settled, Stored, Deliver
<1>8. QED
  BY <1>4, <1>5, <1>6, <1>7 DEF IInv

\* A reclaimed event enters the buffer and the ids to acknowledge together.
LEMMA HandleReclaimedStep ==
  ASSUME IInv, NEW c \in Consumers, HandleReclaimed(c)
  PROVE  IInv'
<1>1. PICK i \in inbox[c] :
        /\ Accept(c, i)
        /\ inbox' = [inbox EXCEPT ![c] = inbox[c] \ {i}]
        /\ pc' = [pc EXCEPT ![c] = IF inbox[c] = {i} THEN "fetch" ELSE "recover"]
  BY DEF HandleReclaimed, Oldest
<1>2. /\ pc[c] = "recover"
      /\ UNCHANGED <<groupVars, worldVars, cursor, written, crashes>>
  BY DEF HandleReclaimed
<1>3. /\ i \in Ids /\ i \in Delivered
      /\ buf[c] \in Seq(Ids) /\ pendingIds[c] \in Seq(Ids)
  BY DEF IInv, TypeOK, HeldIsDelivered
<1>4. /\ Append(buf[c], i) \in Seq(Ids)
      /\ Range(Append(buf[c], i)) = Range(buf[c]) \cup {i}
      /\ Append(pendingIds[c], i) \in Seq(Ids)
      /\ Range(Append(pendingIds[c], i)) = Range(pendingIds[c]) \cup {i}
  BY <1>3, RangeOfAppend
<1> USE <1>1, <1>2 DEF worldVars, groupVars, Accept
<1>5. TypeOK'
  BY <1>4 DEF IInv, TypeOK, Steps
<1>6. HeldIsDelivered'
  BY <1>3, <1>4 DEF IInv, TypeOK, HeldIsDelivered, Delivered
<1>7. BufferMatchesPending' /\ FlushProgress'
  BY DEF IInv, TypeOK, BufferMatchesPending, FlushProgress, Stored, Steps
<1>8. NoAckedEventLost'
  BY DEF IInv, NoAckedEventLost, Settled, Stored
<1>9. QED
  BY <1>5, <1>6, <1>7, <1>8 DEF IInv

\* The backlog is made of entries pending on the replica, hence delivered.
LEMMA ReadBacklogStep ==
  ASSUME IInv, NEW c \in Consumers, ReadBacklog(c)
  PROVE  IInv'
<1> DEFINE entries == First(Batch, Pending(c))
<1>1. entries \in SUBSET Ids /\ \A i \in entries : pel[i] = c
  BY FirstSubset DEF Pending
<1>2. entries \subseteq Delivered
  BY <1>1, ConstantsAssumption DEF IInv, HeldIsDelivered
<1>3. /\ pc[c] = "fetch"
      /\ Deliver(entries, c)
      /\ inbox' = [inbox EXCEPT ![c] = entries]
      /\ cursor' = [cursor EXCEPT ![c] = NextCursor(entries)]
      /\ pc' = [pc EXCEPT ![c] = IF entries = {} THEN "fetch" ELSE "handle"]
      /\ UNCHANGED <<produced, lastDelivered, worldVars, buf, pendingIds, written,
                     crashes>>
  BY DEF ReadBacklog
<1> HIDE DEF entries
<1> USE <1>3 DEF worldVars
<1>4. TypeOK'
  BY <1>1, DeliverType DEF IInv, TypeOK, NextCursor, Steps
<1>5. HeldIsDelivered'
  BY <1>1, <1>2, ConstantsAssumption
     DEF IInv, TypeOK, HeldIsDelivered, Delivered, Deliver
<1>6. BufferMatchesPending' /\ FlushProgress'
  BY DEF IInv, TypeOK, BufferMatchesPending, FlushProgress, Stored, Steps
<1>7. NoAckedEventLost'
  BY ConstantsAssumption
     DEF IInv, TypeOK, NoAckedEventLost, Settled, Stored, Deliver
<1>8. QED
  BY <1>4, <1>5, <1>6, <1>7 DEF IInv

\* The entries of a ">" read become delivered and pending in the same step.
LEMMA ReadNewStep ==
  ASSUME IInv, NEW c \in Consumers, ReadNew(c)
  PROVE  IInv'
<1> DEFINE fresh == {i \in Ids : lastDelivered < i /\ i <= produced}
           entries == First(Batch, fresh)
           last == LastDeliveredAfter(entries)
<1>1. /\ last \in lastDelivered..produced
      /\ entries = (lastDelivered + 1)..last
      /\ entries \in SUBSET Ids
  BY NewEntries DEF IInv
<1>2. /\ pc[c] = "fetch"
      /\ Deliver(entries, c)
      /\ lastDelivered' = last
      /\ inbox' = [inbox EXCEPT ![c] = entries]
      /\ pc' = [pc EXCEPT ![c] = "handle"]
      /\ UNCHANGED <<produced, worldVars, cursor, buf, pendingIds, written, crashes>>
  BY DEF ReadNew
<1>3. lastDelivered \in Nat /\ produced \in 0..MaxEvents /\ MaxEvents \in Nat
  BY ConstantsAssumption DEF IInv, TypeOK
<1> HIDE DEF entries, last
<1> USE <1>2 DEF worldVars
<1>4. TypeOK'
  <2>1. lastDelivered' \in 0..produced'
    BY <1>1, <1>3
  <2>2. QED
    BY <1>1, <2>1, DeliverType DEF IInv, TypeOK, Steps
<1>5. \A i \in Ids : i \in Delivered' <=> i \in Delivered \/ i \in entries
  BY <1>1, <1>3 DEF Delivered, Ids
<1>6. HeldIsDelivered'
  BY <1>1, <1>5, ConstantsAssumption
     DEF IInv, TypeOK, HeldIsDelivered, Delivered, Deliver
<1>7. BufferMatchesPending' /\ FlushProgress'
  BY DEF IInv, TypeOK, BufferMatchesPending, FlushProgress, Stored, Steps
<1>8. Settled' \subseteq Settled
  BY <1>5, ConstantsAssumption DEF Settled, Delivered, Deliver
<1>9. NoAckedEventLost'
  BY <1>8 DEF IInv, NoAckedEventLost, Stored
<1>10. QED
  BY <1>4, <1>6, <1>7, <1>9 DEF IInv

\* A handled event enters the buffer and the ids to acknowledge together.
LEMMA HandleStep ==
  ASSUME IInv, NEW c \in Consumers, Handle(c)
  PROVE  IInv'
<1>1. PICK i \in inbox[c] :
        /\ Accept(c, i)
        /\ inbox' = [inbox EXCEPT ![c] = inbox[c] \ {i}]
        /\ FlushCheck(c, Len(buf[c]) + 1, inbox[c] \ {i})
  BY DEF Handle, Oldest
<1>2. /\ pc[c] = "handle"
      /\ UNCHANGED <<groupVars, worldVars, cursor, written, crashes>>
  BY DEF Handle
<1>3. /\ i \in Ids /\ i \in Delivered
      /\ buf[c] \in Seq(Ids) /\ pendingIds[c] \in Seq(Ids)
  BY DEF IInv, TypeOK, HeldIsDelivered
<1>4. /\ Append(buf[c], i) \in Seq(Ids)
      /\ Range(Append(buf[c], i)) = Range(buf[c]) \cup {i}
      /\ Append(pendingIds[c], i) \in Seq(Ids)
      /\ Range(Append(pendingIds[c], i)) = Range(pendingIds[c]) \cup {i}
  BY <1>3, RangeOfAppend
<1>5. PICK next \in {"fetch", "handle", "flush"} : pc' = [pc EXCEPT ![c] = next]
  BY <1>1 DEF FlushCheck, Resume
<1> USE <1>1, <1>2, <1>5 DEF worldVars, groupVars, Accept
<1>6. TypeOK'
  BY <1>4 DEF IInv, TypeOK, Steps
<1>7. HeldIsDelivered'
  BY <1>3, <1>4 DEF IInv, TypeOK, HeldIsDelivered, Delivered
<1>8. BufferMatchesPending' /\ FlushProgress'
  BY DEF IInv, TypeOK, BufferMatchesPending, FlushProgress, Stored, Steps
<1>9. NoAckedEventLost'
  BY DEF IInv, NoAckedEventLost, Settled, Stored
<1>10. QED
  BY <1>6, <1>7, <1>8, <1>9 DEF IInv

\* An event that handle() refuses is settled and dropped in the same step.
LEMMA HandleFailedStep ==
  ASSUME IInv, NEW c \in Consumers, HandleFailed(c)
  PROVE  IInv'
<1>1. PICK i \in inbox[c] :
        /\ XAck({i})
        /\ dropped' = dropped \cup {i}
        /\ inbox' = [inbox EXCEPT ![c] = inbox[c] \ {i}]
        /\ FlushCheck(c, Len(buf[c]), inbox[c] \ {i})
  BY DEF HandleFailed, Oldest
<1>2. /\ pc[c] = "handle"
      /\ UNCHANGED <<produced, lastDelivered, rows, published, alerted, audit,
                     cursor, buf, pendingIds, written, crashes>>
  BY DEF HandleFailed
<1>3. i \in Ids /\ i \in Delivered
  BY DEF IInv, TypeOK, HeldIsDelivered
<1>4. PICK next \in {"fetch", "handle", "flush"} : pc' = [pc EXCEPT ![c] = next]
  BY <1>1 DEF FlushCheck, Resume
<1> USE <1>1, <1>2, <1>4
<1>5. TypeOK'
  BY <1>3, XAckType DEF IInv, TypeOK, Steps
<1>6. HeldIsDelivered'
  BY <1>3 DEF IInv, TypeOK, HeldIsDelivered, Delivered, XAck
<1>7. BufferMatchesPending' /\ FlushProgress'
  BY DEF IInv, TypeOK, BufferMatchesPending, FlushProgress, Stored, Steps
<1>8. NoAckedEventLost'
  BY DEF IInv, NoAckedEventLost, Settled, Stored, XAck
<1>9. QED
  BY <1>5, <1>6, <1>7, <1>8 DEF IInv

\* A commit stores exactly what the buffer held, and what was stored stays so.
LEMMA WriteBatchStores ==
  ASSUME IInv, NEW c \in Consumers, WriteBatch(c)
  PROVE  /\ rows' \in [Ids -> Nat]
         /\ Stored' = Stored \cup Range(buf[c])
<1>1. /\ rows \in [Ids -> Nat]
      /\ buf[c] \in Seq(Ids)
      /\ Range(buf[c]) \subseteq Ids
  BY DEF IInv, TypeOK, HeldIsDelivered, Delivered
<1>2. rows' = [i \in Ids |-> rows[i] + Occurrences(buf[c], i)]
  BY DEF WriteBatch
<1>3. ASSUME NEW i \in Ids
      PROVE  /\ Occurrences(buf[c], i) \in Nat
             /\ Occurrences(buf[c], i) > 0 <=> i \in Range(buf[c])
  BY <1>1, OccurrencesCount
<1>4. ASSUME NEW i \in Ids
      PROVE  /\ rows'[i] \in Nat
             /\ rows'[i] > 0 <=> rows[i] > 0 \/ i \in Range(buf[c])
  BY <1>1, <1>2, <1>3
<1>5. QED
  BY <1>1, <1>2, <1>4 DEF Stored

\* After the commit every id waiting for the ack is stored and still to publish.
LEMMA WriteBatchStep ==
  ASSUME IInv, NEW c \in Consumers, WriteBatch(c)
  PROVE  IInv'
<1>1. /\ rows' \in [Ids -> Nat]
      /\ Stored' = Stored \cup Range(buf[c])
  BY WriteBatchStores
<1>2. /\ pc[c] = "flush"
      /\ written' = [written EXCEPT ![c] = buf[c]]
      /\ buf' = [buf EXCEPT ![c] = <<>>]
      /\ pc' = [pc EXCEPT ![c] = IF buf[c] = <<>> THEN "ack" ELSE "publish"]
      /\ UNCHANGED <<groupVars, published, alerted, audit, dropped, cursor, inbox,
                     pendingIds, crashes>>
  BY DEF WriteBatch
<1>3. pendingIds[c] = buf[c]
  BY <1>2 DEF IInv, BufferMatchesPending
<1>4. <<>> \in Seq(Ids) /\ Range(<<>>) = {}
  BY EmptySeq DEF Range
<1> USE <1>2 DEF groupVars
<1>5. TypeOK'
  BY <1>1, <1>4 DEF IInv, TypeOK, Steps
<1>6. HeldIsDelivered'
  BY <1>4 DEF IInv, TypeOK, HeldIsDelivered, Delivered
<1>7. BufferMatchesPending'
  BY DEF IInv, TypeOK, BufferMatchesPending, Steps
<1>8. FlushProgress'
  BY <1>1, <1>3, <1>4 DEF IInv, TypeOK, FlushProgress, Steps
<1>9. NoAckedEventLost'
  BY <1>1 DEF IInv, NoAckedEventLost, Settled
<1>10. QED
  BY <1>5, <1>6, <1>7, <1>8, <1>9 DEF IInv

\* What leaves the list of written rows has just been published.
LEMMA PublishStep ==
  ASSUME IInv, NEW c \in Consumers, Publish(c)
  PROVE  IInv'
<1> DEFINE w == written[c]
<1>1. /\ pc[c] = "publish"
      /\ published' = published \cup {Head(w)}
      /\ UNCHANGED <<groupVars, rows, alerted, audit, dropped, cursor, inbox, buf,
                     pendingIds, crashes>>
  BY DEF Publish
<1>2. w \in Seq(Ids) /\ w # <<>>
  BY <1>1 DEF IInv, TypeOK, FlushProgress
<1>3. /\ Head(w) \in Ids
      /\ Tail(w) \in Seq(Ids)
      /\ Range(w) = {Head(w)} \cup Range(Tail(w))
  BY <1>2, RangeOfTail
<1> Tail(w) = <<>> => Range(Tail(w)) = {}
  BY RangeOfEmpty
<1>4. Stored' = Stored
  BY <1>1 DEF Stored
<1> USE <1>1 DEF groupVars
<1>5. CASE /\ pc' = [pc EXCEPT ![c] = "alert"]
           /\ UNCHANGED written
  <2> USE <1>5
  <2>1. TypeOK'
    BY <1>3 DEF IInv, TypeOK, Steps
  <2>2. HeldIsDelivered' /\ BufferMatchesPending'
    BY DEF IInv, TypeOK, HeldIsDelivered, BufferMatchesPending, Delivered, Steps
  <2>3. FlushProgress'
    BY <1>2, <1>4 DEF IInv, TypeOK, FlushProgress, Steps
  <2>4. NoAckedEventLost'
    BY <1>4 DEF IInv, NoAckedEventLost, Settled
  <2>5. QED
    BY <2>1, <2>2, <2>3, <2>4 DEF IInv
<1>6. CASE /\ pc' = [pc EXCEPT ![c] = AfterEvent(Tail(w))]
           /\ written' = [written EXCEPT ![c] = Tail(@)]
  <2> USE <1>6
  <2>1. TypeOK'
    BY <1>3 DEF IInv, TypeOK, AfterEvent, Steps
  <2>2. HeldIsDelivered'
    BY <1>3 DEF IInv, TypeOK, HeldIsDelivered, Delivered
  <2>3. BufferMatchesPending'
    BY DEF IInv, TypeOK, BufferMatchesPending, AfterEvent, Steps
  <2>4. FlushProgress'
    BY <1>3, <1>4 DEF IInv, TypeOK, FlushProgress, AfterEvent, Steps
  <2>5. NoAckedEventLost'
    BY <1>4 DEF IInv, NoAckedEventLost, Settled
  <2>6. QED
    BY <2>1, <2>2, <2>3, <2>4, <2>5 DEF IInv
<1>7. QED
  BY <1>5, <1>6 DEF Publish

\* The notification changes nothing the invariant speaks of but the step.
LEMMA DispatchStep ==
  ASSUME IInv, NEW c \in Consumers, Dispatch(c)
  PROVE  IInv'
<1>1. /\ pc[c] = "alert"
      /\ alerted' = alerted \cup {Head(written[c])}
      /\ pc' = [pc EXCEPT ![c] = "record"]
      /\ UNCHANGED <<groupVars, rows, published, audit, dropped, cursor, inbox, buf,
                     pendingIds, written, crashes>>
  BY DEF Dispatch
<1>2. Head(written[c]) \in Ids
  BY <1>1, RangeOfTail DEF IInv, TypeOK, FlushProgress
<1> USE <1>1 DEF groupVars
<1>3. TypeOK'
  BY <1>2 DEF IInv, TypeOK, Steps
<1>4. HeldIsDelivered' /\ BufferMatchesPending'
  BY DEF IInv, TypeOK, HeldIsDelivered, BufferMatchesPending, Delivered, Steps
<1>5. FlushProgress'
  BY DEF IInv, TypeOK, FlushProgress, Stored, Steps
<1>6. NoAckedEventLost'
  BY DEF IInv, NoAckedEventLost, Settled, Stored
<1>7. QED
  BY <1>3, <1>4, <1>5, <1>6 DEF IInv

\* The row whose alert was recorded had been published before.
LEMMA RecordAlertStep ==
  ASSUME IInv, NEW c \in Consumers, RecordAlert(c)
  PROVE  IInv'
<1> DEFINE w == written[c]
<1>1. /\ pc[c] = "record"
      /\ audit' = audit \cup {Head(w)}
      /\ written' = [written EXCEPT ![c] = Tail(@)]
      /\ pc' = [pc EXCEPT ![c] = AfterEvent(Tail(w))]
      /\ UNCHANGED <<groupVars, rows, published, alerted, dropped, cursor, inbox,
                     buf, pendingIds, crashes>>
  BY DEF RecordAlert
<1>2. /\ w \in Seq(Ids) /\ w # <<>>
      /\ Head(w) \in published
  BY <1>1 DEF IInv, TypeOK, FlushProgress
<1>3. /\ Head(w) \in Ids
      /\ Tail(w) \in Seq(Ids)
      /\ Range(w) = {Head(w)} \cup Range(Tail(w))
  BY <1>2, RangeOfTail
<1> Tail(w) = <<>> => Range(Tail(w)) = {}
  BY RangeOfEmpty
<1>4. Stored' = Stored
  BY <1>1 DEF Stored
<1> USE <1>1 DEF groupVars
<1>5. TypeOK'
  BY <1>3 DEF IInv, TypeOK, AfterEvent, Steps
<1>6. HeldIsDelivered'
  BY <1>3 DEF IInv, TypeOK, HeldIsDelivered, Delivered
<1>7. BufferMatchesPending'
  BY DEF IInv, TypeOK, BufferMatchesPending, AfterEvent, Steps
<1>8. FlushProgress'
  BY <1>2, <1>3, <1>4 DEF IInv, TypeOK, FlushProgress, AfterEvent, Steps
<1>9. NoAckedEventLost'
  BY <1>4 DEF IInv, NoAckedEventLost, Settled
<1>10. QED
  BY <1>5, <1>6, <1>7, <1>8, <1>9 DEF IInv

\* Everything acknowledged is stored and published.
LEMMA AckBatchStep ==
  ASSUME IInv, NEW c \in Consumers, AckBatch(c)
  PROVE  IInv'
<1>1. /\ pc[c] = "ack"
      /\ XAck(ToAck(c))
      /\ pendingIds' = [pendingIds EXCEPT ![c] = <<>>]
      /\ pc' = [pc EXCEPT ![c] = Resume(inbox[c])]
      /\ UNCHANGED <<produced, lastDelivered, worldVars, cursor, inbox, buf,
                     written, crashes>>
  BY DEF AckBatch
<1>2. ToAck(c) \subseteq Stored \cap published
  BY <1>1 DEF IInv, FlushProgress, ToAck
<1>3. <<>> \in Seq(Ids) /\ Range(<<>>) = {}
  BY EmptySeq DEF Range
<1>4. pc'[c] \in {"fetch", "handle"} /\ pendingIds'[c] = <<>>
  BY <1>1 DEF IInv, TypeOK, Resume
<1> USE <1>1 DEF worldVars
<1>5. TypeOK'
  BY <1>3, XAckType DEF IInv, TypeOK, Resume, Steps
<1>6. HeldIsDelivered'
  BY <1>3 DEF IInv, TypeOK, HeldIsDelivered, Delivered, XAck
<1>7. FlushProgress'
  BY <1>4 DEF IInv, TypeOK, FlushProgress, Stored, Resume, Steps
<1>8. NoAckedEventLost'
  BY <1>2 DEF IInv, NoAckedEventLost, Settled, Stored, XAck
<1>9. BufferMatchesPending'
  BY <1>4 DEF IInv, TypeOK, BufferMatchesPending, Resume, Steps
<1>10. QED
  BY <1>5, <1>6, <1>7, <1>8, <1>9 DEF IInv

\* A crash empties the memory of the process; what it held stays pending.
LEMMA CrashStep ==
  ASSUME IInv, NEW c \in Consumers, Crash(c)
  PROVE  IInv'
<1>1. /\ crashes < MaxCrashes
      /\ crashes' = crashes + 1
      /\ pc' = [pc EXCEPT ![c] = "down"]
      /\ cursor' = [cursor EXCEPT ![c] = "backlog"]
      /\ inbox' = [inbox EXCEPT ![c] = {}]
      /\ buf' = [buf EXCEPT ![c] = <<>>]
      /\ pendingIds' = [pendingIds EXCEPT ![c] = <<>>]
      /\ written' = [written EXCEPT ![c] = <<>>]
      /\ UNCHANGED <<groupVars, worldVars>>
  BY DEF Crash
<1>2. <<>> \in Seq(Ids) /\ Range(<<>>) = {}
  BY EmptySeq DEF Range
<1> USE <1>1 DEF groupVars, worldVars
<1>3. TypeOK'
  BY <1>2, ConstantsAssumption DEF IInv, TypeOK, Steps
<1>4. HeldIsDelivered'
  BY <1>2 DEF IInv, TypeOK, HeldIsDelivered, Delivered
<1>5. BufferMatchesPending' /\ FlushProgress'
  BY DEF IInv, TypeOK, BufferMatchesPending, FlushProgress, Stored, Steps
<1>6. NoAckedEventLost'
  BY DEF IInv, NoAckedEventLost, Settled, Stored
<1>7. QED
  BY <1>3, <1>4, <1>5, <1>6 DEF IInv

\* Nothing was delivered yet.
LEMMA InitIInv == Init => IInv
<1> SUFFICES ASSUME Init
             PROVE  IInv
  OBVIOUS
<1>1. TypeOK
  BY ConstantsAssumption, EmptySeq DEF Init, TypeOK, Steps
<1>2. HeldIsDelivered
  BY RangeOfEmpty DEF Init, HeldIsDelivered
<1>3. BufferMatchesPending /\ FlushProgress
  BY DEF Init, BufferMatchesPending, FlushProgress
<1>4. NoAckedEventLost
  BY DEF Init, NoAckedEventLost, Settled, Ids
<1>5. QED
  BY <1>1, <1>2, <1>3, <1>4 DEF IInv

\* Every step keeps the invariant.
LEMMA NextIInv == IInv /\ [Next]_vars => IInv'
<1> SUFFICES ASSUME IInv, [Next]_vars
             PROVE  IInv'
  OBVIOUS
<1>1. CASE Enqueue
  BY <1>1, EnqueueStep
<1>2. CASE Age
  BY <1>2, AgeStep
<1>3. ASSUME NEW c \in Consumers, ReclaimStale(c) \/ Crash(c)
      PROVE  IInv'
  BY <1>3, ReclaimStaleStep, CrashStep
<1>4. ASSUME NEW c \in Consumers, Work(c)
      PROVE  IInv'
  BY <1>4, HandleReclaimedStep, ReadBacklogStep, ReadNewStep, HandleStep,
     HandleFailedStep, WriteBatchStep, PublishStep, DispatchStep,
     RecordAlertStep, AckBatchStep DEF Work
<1>5. CASE UNCHANGED vars
  BY <1>5 DEF vars, groupVars, worldVars, procVars, IInv, TypeOK,
     HeldIsDelivered, Delivered, BufferMatchesPending, FlushProgress, Stored,
     NoAckedEventLost, Settled
<1>6. QED
  BY <1>1, <1>2, <1>3, <1>4, <1>5 DEF Next

\* The inductive invariant holds in every reachable state.
LEMMA InductiveInvariant == Spec => []IInv
BY InitIInv, NextIInv, PTL DEF Spec

\* Every variable keeps its type, for any number of replicas, events and crashes.
THEOREM TypeCorrect == Spec => []TypeOK
<1>1. IInv => TypeOK
  BY DEF IInv
<1>2. QED
  BY <1>1, InductiveInvariant, PTL

\* No acknowledged event is lost, for any number of replicas, events and crashes
\* and any batch, flush and reclaim sizes.
THEOREM NothingLost == Spec => []NoAckedEventLost
<1>1. IInv => NoAckedEventLost
  BY DEF IInv
<1>2. QED
  BY <1>1, InductiveInvariant, PTL

-----------------------------------------------------------------------------
(* The effects of _flush() happen in their order. *)

\* A step that has no effect outside and moves no process into or out of the
\* recording of an alert.
LEMMA QuietStep ==
  ASSUME EffectsInv,
         Stored \subseteq Stored',
         UNCHANGED <<published, alerted, audit, crashes>>,
         \A d \in Consumers : pc[d] = "record" \/ pc'[d] = "record" =>
                                pc'[d] = pc[d] /\ written'[d] = written[d]
  PROVE  EffectsInv'
<1>1. SeenInOrder'
  BY DEF EffectsInv, SeenInOrder
<1>2. RecordIsOfAnAlert'
  BY DEF EffectsInv, RecordIsOfAnAlert
<1>3. ASSUME crashes' = 0, NEW i \in alerted' \ audit'
      PROVE  \E c \in Consumers : pc'[c] = "record" /\ Head(written'[c]) = i
  <2>1. PICK c \in Consumers : pc[c] = "record" /\ Head(written[c]) = i
    BY <1>3 DEF EffectsInv, UnauditedOnlyByCrash
  <2>2. pc'[c] = "record" /\ written'[c] = written[c]
    BY <2>1
  <2>3. QED
    BY <2>1, <2>2
<1>4. UnauditedOnlyByCrash'
  BY <1>3 DEF UnauditedOnlyByCrash
<1>5. QED
  BY <1>1, <1>2, <1>4 DEF EffectsInv

\* What is broadcast was committed.
LEMMA PublishEffects ==
  ASSUME IInv, EffectsInv, NEW c \in Consumers, Publish(c)
  PROVE  EffectsInv'
<1> DEFINE w == written[c]
<1>1. /\ pc[c] = "publish"
      /\ published' = published \cup {Head(w)}
      /\ \/ pc' = [pc EXCEPT ![c] = "alert"] /\ UNCHANGED written
         \/ /\ pc' = [pc EXCEPT ![c] = AfterEvent(Tail(w))]
            /\ written' = [written EXCEPT ![c] = Tail(@)]
      /\ UNCHANGED <<rows, alerted, audit, crashes>>
  BY DEF Publish
<1>2. w \in Seq(Ids) /\ w # <<>> /\ Range(w) \subseteq Stored
  BY <1>1 DEF IInv, TypeOK, FlushProgress
<1>3. Head(w) \in Stored
  BY <1>2, RangeOfTail
<1>4. Stored' = Stored
  BY <1>1 DEF Stored
<1>5. pc'[c] # "record" /\ \A d \in Consumers \ {c} : pc'[d] = pc[d] /\ written'[d] = written[d]
  BY <1>1 DEF IInv, TypeOK, AfterEvent
<1>6. SeenInOrder'
  BY <1>1, <1>3, <1>4 DEF EffectsInv, SeenInOrder
<1>7. RecordIsOfAnAlert'
  BY <1>1, <1>5 DEF EffectsInv, RecordIsOfAnAlert
<1>8. ASSUME crashes' = 0, NEW i \in alerted' \ audit'
      PROVE  \E d \in Consumers : pc'[d] = "record" /\ Head(written'[d]) = i
  <2>1. PICK d \in Consumers : pc[d] = "record" /\ Head(written[d]) = i
    BY <1>1, <1>8 DEF EffectsInv, UnauditedOnlyByCrash
  <2>2. d # c
    BY <1>1, <2>1
  <2>3. QED
    BY <1>5, <2>1, <2>2
<1>9. UnauditedOnlyByCrash'
  BY <1>8 DEF UnauditedOnlyByCrash
<1>10. QED
  BY <1>6, <1>7, <1>9 DEF EffectsInv

\* What is notified was broadcast, and its row is written next.
LEMMA DispatchEffects ==
  ASSUME IInv, EffectsInv, NEW c \in Consumers, Dispatch(c)
  PROVE  EffectsInv'
<1>1. /\ pc[c] = "alert"
      /\ alerted' = alerted \cup {Head(written[c])}
      /\ pc' = [pc EXCEPT ![c] = "record"]
      /\ UNCHANGED <<rows, published, audit, written, crashes>>
  BY DEF Dispatch
<1>2. Head(written[c]) \in published
  BY <1>1 DEF IInv, FlushProgress
<1>3. pc'[c] = "record" /\ \A d \in Consumers \ {c} : pc'[d] = pc[d]
  BY <1>1 DEF IInv, TypeOK
<1>4. SeenInOrder'
  BY <1>1, <1>2 DEF EffectsInv, SeenInOrder, Stored
<1>5. RecordIsOfAnAlert'
  BY <1>1, <1>3 DEF EffectsInv, RecordIsOfAnAlert
<1>6. ASSUME crashes' = 0, NEW i \in alerted' \ audit'
      PROVE  \E d \in Consumers : pc'[d] = "record" /\ Head(written'[d]) = i
  <2>1. CASE i = Head(written[c])
    BY <1>1, <1>3, <2>1
  <2>2. CASE i # Head(written[c])
    <3>1. PICK d \in Consumers : pc[d] = "record" /\ Head(written[d]) = i
      BY <1>1, <1>6, <2>2 DEF EffectsInv, UnauditedOnlyByCrash
    <3>2. QED
      BY <1>1, <1>3, <3>1
  <2>3. QED
    BY <2>1, <2>2
<1>7. UnauditedOnlyByCrash'
  BY <1>6 DEF UnauditedOnlyByCrash
<1>8. QED
  BY <1>4, <1>5, <1>7 DEF EffectsInv

\* What is recorded was notified; another alert without its row is another process's.
LEMMA RecordAlertEffects ==
  ASSUME IInv, EffectsInv, NEW c \in Consumers, RecordAlert(c)
  PROVE  EffectsInv'
<1>1. /\ pc[c] = "record"
      /\ audit' = audit \cup {Head(written[c])}
      /\ written' = [written EXCEPT ![c] = Tail(@)]
      /\ pc' = [pc EXCEPT ![c] = AfterEvent(Tail(written[c]))]
      /\ UNCHANGED <<rows, published, alerted, crashes>>
  BY DEF RecordAlert
<1>2. Head(written[c]) \in alerted
  BY <1>1 DEF EffectsInv, RecordIsOfAnAlert
<1>3. pc'[c] # "record" /\ \A d \in Consumers \ {c} : pc'[d] = pc[d] /\ written'[d] = written[d]
  BY <1>1 DEF IInv, TypeOK, AfterEvent
<1>4. SeenInOrder'
  BY <1>1, <1>2 DEF EffectsInv, SeenInOrder, Stored
<1>5. RecordIsOfAnAlert'
  BY <1>1, <1>3 DEF EffectsInv, RecordIsOfAnAlert
<1>6. ASSUME crashes' = 0, NEW i \in alerted' \ audit'
      PROVE  \E d \in Consumers : pc'[d] = "record" /\ Head(written'[d]) = i
  <2>1. PICK d \in Consumers : pc[d] = "record" /\ Head(written[d]) = i
    BY <1>1, <1>6 DEF EffectsInv, UnauditedOnlyByCrash
  <2>2. d # c
    BY <1>1, <1>6, <2>1
  <2>3. QED
    BY <1>3, <2>1, <2>2
<1>7. UnauditedOnlyByCrash'
  BY <1>6 DEF UnauditedOnlyByCrash
<1>8. QED
  BY <1>4, <1>5, <1>7 DEF EffectsInv

\* A crash may leave an alert without its row, and takes nothing back.
LEMMA CrashEffects ==
  ASSUME IInv, EffectsInv, NEW c \in Consumers, Crash(c)
  PROVE  EffectsInv'
<1>1. /\ crashes' = crashes + 1
      /\ pc' = [pc EXCEPT ![c] = "down"]
      /\ written' = [written EXCEPT ![c] = <<>>]
      /\ UNCHANGED <<rows, published, alerted, audit>>
  BY DEF Crash, worldVars
<1>2. crashes' # 0
  BY <1>1, ConstantsAssumption DEF IInv, TypeOK
<1>3. pc'[c] # "record" /\ \A d \in Consumers \ {c} : pc'[d] = pc[d] /\ written'[d] = written[d]
  BY <1>1 DEF IInv, TypeOK
<1>4. SeenInOrder'
  BY <1>1 DEF EffectsInv, SeenInOrder, Stored
<1>5. RecordIsOfAnAlert'
  BY <1>1, <1>3 DEF EffectsInv, RecordIsOfAnAlert
<1>6. UnauditedOnlyByCrash'
  BY <1>2 DEF UnauditedOnlyByCrash
<1>7. QED
  BY <1>4, <1>5, <1>6 DEF EffectsInv

\* Reading and handling events has no effect outside, and a commit only adds rows.
LEMMA HandlingEffects ==
  ASSUME IInv, EffectsInv, NEW c \in Consumers,
         \/ ReclaimStale(c) \/ HandleReclaimed(c) \/ ReadBacklog(c) \/ ReadNew(c)
         \/ Handle(c) \/ HandleFailed(c) \/ WriteBatch(c) \/ AckBatch(c)
  PROVE  EffectsInv'
<1>1. /\ UNCHANGED <<published, alerted, audit, crashes>>
      /\ pc[c] # "record" /\ pc'[c] # "record"
      /\ \A d \in Consumers \ {c} : pc'[d] = pc[d] /\ written'[d] = written[d]
  <2> USE DEF IInv, TypeOK, worldVars, Resume, FlushCheck
  <2>1. CASE ReclaimStale(c)
    BY <2>1 DEF ReclaimStale
  <2>2. CASE HandleReclaimed(c)
    BY <2>2 DEF HandleReclaimed
  <2>3. CASE ReadBacklog(c)
    BY <2>3 DEF ReadBacklog
  <2>4. CASE ReadNew(c)
    BY <2>4 DEF ReadNew
  <2>5. CASE Handle(c)
    BY <2>5 DEF Handle
  <2>6. CASE HandleFailed(c)
    BY <2>6 DEF HandleFailed
  <2>7. CASE WriteBatch(c)
    BY <2>7 DEF WriteBatch
  <2>8. CASE AckBatch(c)
    BY <2>8 DEF AckBatch
  <2>9. QED
    BY <2>1, <2>2, <2>3, <2>4, <2>5, <2>6, <2>7, <2>8
<1>2. Stored \subseteq Stored'
  <2>1. CASE WriteBatch(c)
    BY <2>1, WriteBatchStores
  <2>2. CASE ~WriteBatch(c)
    <3>1. rows' = rows
      BY <2>2 DEF worldVars, ReclaimStale, HandleReclaimed, ReadBacklog, ReadNew,
                  Handle, HandleFailed, AckBatch
    <3>2. QED
      BY <3>1 DEF Stored
  <2>3. QED
    BY <2>1, <2>2
<1>3. QED
  BY <1>1, <1>2, QuietStep

\* Every step keeps the order of the effects.
LEMMA NextEffects == IInv /\ EffectsInv /\ [Next]_vars => EffectsInv'
<1> SUFFICES ASSUME IInv, EffectsInv, [Next]_vars
             PROVE  EffectsInv'
  OBVIOUS
<1>1. CASE Enqueue \/ Age \/ UNCHANGED vars
  <2>1. UNCHANGED <<rows, published, alerted, audit, crashes, pc, written>>
    BY <1>1 DEF Enqueue, Age, vars, worldVars, procVars
  <2>2. Stored' = Stored
    BY <2>1 DEF Stored
  <2>3. QED
    BY <2>1, <2>2, QuietStep
<1>2. ASSUME NEW c \in Consumers, ReclaimStale(c) \/ Work(c) \/ Crash(c)
      PROVE  EffectsInv'
  BY <1>2, HandlingEffects, PublishEffects, DispatchEffects, RecordAlertEffects,
     CrashEffects DEF Work
<1>3. QED
  BY <1>1, <1>2 DEF Next

LEMMA EffectsInvariant == Spec => []EffectsInv
<1>1. Init => EffectsInv
  BY DEF Init, EffectsInv, SeenInOrder, UnauditedOnlyByCrash, RecordIsOfAnAlert, Stored
<1>2. QED
  BY <1>1, NextEffects, InductiveInvariant, PTL DEF Spec

\* _flush() commits before it broadcasts, broadcasts before it alerts, and alerts
\* before it writes the alert row, in whatever order replicas and crashes come.
THEOREM EffectsInOrder == Spec => []SeenInOrder
<1>1. EffectsInv => SeenInOrder
  BY DEF EffectsInv
<1>2. QED
  BY <1>1, EffectsInvariant, PTL

\* Only a process that died between dispatch() and _record_alert() leaves a
\* notification without its row.
THEOREM AlertsAreAudited == Spec => []UnauditedOnlyByCrash
<1>1. EffectsInv => UnauditedOnlyByCrash
  BY DEF EffectsInv
<1>2. QED
  BY <1>1, EffectsInvariant, PTL

-----------------------------------------------------------------------------
(* Every row goes back to a delivery. *)

\* Where the copies of an event are.
LEMMA CopiesAre ==
  ASSUME NEW i, NEW x
  PROVE  x \in Copies(i) <=>
           \/ \E c \in Consumers : i \in inbox[c] /\ x = <<c, 0>>
           \/ \E c \in Consumers : \E k \in DOMAIN buf[c] : buf[c][k] = i /\ x = <<c, k>>
BY DEF Copies

\* A step after which an event has no more copies and no fewer deliveries.
LEMMA NoMoreCopies ==
  ASSUME DeliveryInv, NEW i \in Ids, IInv, IInv',
         Copies(i)' \subseteq Copies(i), rows'[i] = rows[i], deliveries'[i] >= deliveries[i]
  PROVE  IsFiniteSet(Copies(i)') /\ rows'[i] + Cardinality(Copies(i)') <= deliveries'[i]
<1>1. /\ IsFiniteSet(Copies(i)) /\ rows[i] + Cardinality(Copies(i)) <= deliveries[i]
      /\ rows[i] \in Nat /\ deliveries[i] \in Nat /\ deliveries'[i] \in Nat
  BY DEF DeliveryInv, RowsPerDelivery, IInv, TypeOK
<1>2. /\ IsFiniteSet(Copies(i)') /\ Cardinality(Copies(i)') <= Cardinality(Copies(i))
      /\ Cardinality(Copies(i)) \in Nat /\ Cardinality(Copies(i)') \in Nat
  BY <1>1, FS_Subset, FS_CardinalityType
<1>3. QED
  BY <1>1, <1>2

\* One element more, at most one more to count.
LEMMA OneAdded ==
  ASSUME NEW S, IsFiniteSet(S), NEW x
  PROVE  /\ IsFiniteSet(S \cup {x}) /\ Cardinality(S) \in Nat
         /\ Cardinality(S \cup {x}) <= Cardinality(S) + 1
<1>1. Cardinality(S) \in Nat
  BY FS_CardinalityType
<1>2. /\ IsFiniteSet(S \cup {x})
      /\ Cardinality(S \cup {x}) = IF x \in S THEN Cardinality(S) ELSE Cardinality(S) + 1
  BY FS_AddElement
<1>3. QED
  BY <1>1, <1>2

\* One element replaced by another: nothing more to count.
LEMMA OneReplaced ==
  ASSUME NEW S, IsFiniteSet(S), NEW x \in S, NEW y,
         NEW T, T \subseteq (S \ {x}) \cup {y}
  PROVE  /\ IsFiniteSet(T) /\ Cardinality(T) \in Nat /\ Cardinality(S) \in Nat
         /\ Cardinality(T) <= Cardinality(S)
<1>1. /\ IsFiniteSet(S \ {x}) /\ Cardinality(S) \in Nat
      /\ Cardinality(S \ {x}) = Cardinality(S) - 1
  BY FS_RemoveElement, FS_CardinalityType
<1>2. /\ IsFiniteSet((S \ {x}) \cup {y}) /\ Cardinality((S \ {x}) \cup {y}) \in Nat
      /\ Cardinality((S \ {x}) \cup {y}) <= Cardinality(S \ {x}) + 1
  BY <1>1, OneAdded, FS_CardinalityType
<1>3. IsFiniteSet(T) /\ Cardinality(T) <= Cardinality((S \ {x}) \cup {y})
  BY <1>2, FS_Subset
<1>4. Cardinality(T) \in Nat
  BY <1>3, FS_CardinalityType
<1>5. QED
  BY <1>1, <1>2, <1>3, <1>4

\* A step after which an event has at most one copy more, and one more delivery.
LEMMA OneMoreCopy ==
  ASSUME DeliveryInv, NEW i \in Ids, IInv, IInv', NEW x,
         Copies(i)' \subseteq Copies(i) \cup {x},
         rows'[i] = rows[i], deliveries'[i] = deliveries[i] + 1
  PROVE  IsFiniteSet(Copies(i)') /\ rows'[i] + Cardinality(Copies(i)') <= deliveries'[i]
<1>1. /\ IsFiniteSet(Copies(i)) /\ rows[i] + Cardinality(Copies(i)) <= deliveries[i]
      /\ rows[i] \in Nat /\ deliveries[i] \in Nat
  BY DEF DeliveryInv, RowsPerDelivery, IInv, TypeOK
<1>2. /\ IsFiniteSet(Copies(i) \cup {x}) /\ Cardinality(Copies(i)) \in Nat
      /\ Cardinality(Copies(i) \cup {x}) <= Cardinality(Copies(i)) + 1
  BY <1>1, OneAdded
<1>3. /\ IsFiniteSet(Copies(i)') /\ Cardinality(Copies(i)') <= Cardinality(Copies(i) \cup {x})
      /\ Cardinality(Copies(i) \cup {x}) \in Nat /\ Cardinality(Copies(i)') \in Nat
  BY <1>2, FS_Subset, FS_CardinalityType
<1>4. QED
  BY <1>1, <1>2, <1>3

\* Steps that leave inboxes and buffers alone, or empty them.
LEMMA QuietDeliveries ==
  ASSUME DeliveryInv, IInv, IInv', UNCHANGED <<rows, deliveries>>,
         \A c \in Consumers : inbox'[c] \subseteq inbox[c] /\ buf'[c] \in {buf[c], <<>>}
  PROVE  DeliveryInv'
<1>1. ASSUME NEW i \in Ids
      PROVE  Copies(i)' \subseteq Copies(i)
  <2>1. ASSUME NEW x \in Copies(i)'
        PROVE  x \in Copies(i)
    <3>1. \/ \E c \in Consumers : i \in inbox'[c] /\ x = <<c, 0>>
          \/ \E c \in Consumers : \E k \in DOMAIN buf'[c] : buf'[c][k] = i /\ x = <<c, k>>
      BY CopiesAre DEF Copies
    <3>2. \/ \E c \in Consumers : i \in inbox[c] /\ x = <<c, 0>>
          \/ \E c \in Consumers : \E k \in DOMAIN buf[c] : buf[c][k] = i /\ x = <<c, k>>
      BY <3>1
    <3>3. QED
      BY <3>2, CopiesAre
  <2>2. QED
    BY <2>1
<1>2. \A i \in Ids : deliveries'[i] >= deliveries[i] /\ rows'[i] = rows[i]
  BY DEF IInv, TypeOK
<1>3. \A i \in Ids :
        IsFiniteSet(Copies(i)') /\ rows'[i] + Cardinality(Copies(i)') <= deliveries'[i]
  BY <1>1, <1>2, NoMoreCopies
<1>4. QED
  BY <1>3 DEF DeliveryInv, RowsPerDelivery

\* What is delivered to a process is in its inbox once, whatever was there before.
LEMMA DeliverOnce ==
  ASSUME DeliveryInv, IInv, IInv', NEW c \in Consumers, NEW S \in SUBSET Ids,
         Deliver(S, c), inbox' = [inbox EXCEPT ![c] = S], UNCHANGED <<rows, buf>>
  PROVE  DeliveryInv'
<1>1. /\ inbox'[c] = S /\ \A d \in Consumers : d # c => inbox'[d] = inbox[d]
      /\ \A i \in Ids : deliveries'[i] = IF i \in S THEN deliveries[i] + 1 ELSE deliveries[i]
      /\ \A i \in Ids : deliveries[i] \in Nat /\ rows'[i] = rows[i]
  BY DEF Deliver, IInv, TypeOK
<1>2. ASSUME NEW i \in Ids, NEW x \in Copies(i)'
      PROVE  x \in Copies(i) \/ (i \in S /\ x = <<c, 0>>)
  <2>1. \/ \E d \in Consumers : i \in inbox'[d] /\ x = <<d, 0>>
        \/ \E d \in Consumers : \E k \in DOMAIN buf[d] : buf[d][k] = i /\ x = <<d, k>>
    BY <1>2 DEF Copies
  <2>2. \/ i \in S /\ x = <<c, 0>>
        \/ \E d \in Consumers : i \in inbox[d] /\ x = <<d, 0>>
        \/ \E d \in Consumers : \E k \in DOMAIN buf[d] : buf[d][k] = i /\ x = <<d, k>>
    BY <1>1, <2>1
  <2>3. QED
    BY <2>2, CopiesAre
<1>3. ASSUME NEW i \in Ids
      PROVE  IsFiniteSet(Copies(i)') /\ rows'[i] + Cardinality(Copies(i)') <= deliveries'[i]
  <2>1. CASE i \in S
    <3>1. Copies(i)' \subseteq Copies(i) \cup {<<c, 0>>}
      BY <1>2
    <3>2. QED
      BY <1>1, <2>1, <3>1, OneMoreCopy
  <2>2. CASE i \notin S
    <3>1. Copies(i)' \subseteq Copies(i)
      BY <1>2, <2>2
    <3>2. deliveries'[i] >= deliveries[i]
      BY <1>1, <2>2
    <3>3. QED
      BY <1>1, <3>1, <3>2, NoMoreCopies
  <2>3. QED
    BY <2>1, <2>2
<1>4. QED
  BY <1>3 DEF DeliveryInv, RowsPerDelivery

\* handle() moves one copy of one event from the inbox to the end of the buffer.
LEMMA HandleDeliveries ==
  ASSUME IInv, IInv', DeliveryInv, NEW c \in Consumers, HandleReclaimed(c) \/ Handle(c)
  PROVE  DeliveryInv'
<1>1. PICK h \in inbox[c] : Accept(c, h) /\ inbox' = [inbox EXCEPT ![c] = inbox[c] \ {h}]
  BY DEF HandleReclaimed, Handle, Oldest
<1>2. UNCHANGED <<rows, deliveries>>
  BY DEF HandleReclaimed, Handle, groupVars, worldVars
<1> DEFINE end == Len(buf[c]) + 1
<1>3. /\ h \in Ids /\ buf[c] \in Seq(Ids)
      /\ inbox'[c] = inbox[c] \ {h} /\ buf'[c] = Append(buf[c], h)
      /\ \A d \in Consumers : d # c => inbox'[d] = inbox[d] /\ buf'[d] = buf[d]
  BY <1>1 DEF Accept, IInv, TypeOK
<1>4. /\ end \notin DOMAIN buf[c] /\ DOMAIN buf[c] = 1..Len(buf[c]) /\ Len(buf[c]) \in Nat
      /\ DOMAIN buf'[c] = DOMAIN buf[c] \cup {end}
      /\ buf'[c][end] = h /\ \A k \in DOMAIN buf[c] : buf'[c][k] = buf[c][k]
  BY <1>3
<1> HIDE DEF end
<1>5. ASSUME NEW i \in Ids, NEW x \in Copies(i)'
      PROVE  \/ x \in Copies(i) /\ (i = h => x # <<c, 0>>)
             \/ i = h /\ x = <<c, end>>
  <2>1. \/ \E d \in Consumers : i \in inbox'[d] /\ x = <<d, 0>>
        \/ \E d \in Consumers : \E k \in DOMAIN buf'[d] : buf'[d][k] = i /\ x = <<d, k>>
    BY <1>5 DEF Copies
  <2>2. CASE \E d \in Consumers : i \in inbox'[d] /\ x = <<d, 0>>
    <3>1. PICK d \in Consumers : i \in inbox'[d] /\ x = <<d, 0>>
      BY <2>2
    <3>2. i \in inbox[d] /\ (i = h => d # c)
      BY <1>3, <3>1
    <3>3. x \in Copies(i)
      BY <3>1, <3>2, CopiesAre
    <3>4. QED
      BY <3>1, <3>2, <3>3
  <2>3. CASE \E d \in Consumers : \E k \in DOMAIN buf'[d] : buf'[d][k] = i /\ x = <<d, k>>
    <3>0. PICK d \in Consumers : \E k \in DOMAIN buf'[d] : buf'[d][k] = i /\ x = <<d, k>>
      BY <2>3
    <3>1. PICK k \in DOMAIN buf'[d] : buf'[d][k] = i /\ x = <<d, k>>
      BY <3>0
    <3>2. buf[d] \in Seq(Ids)
      BY DEF IInv, TypeOK
    <3>3. CASE k \in DOMAIN buf[d]
      <4>1. buf[d][k] = i
        BY <1>3, <1>4, <3>1, <3>3
      <4>2. k # 0
        BY <3>2, <3>3
      <4>3. x \in Copies(i)
        BY <3>1, <3>3, <4>1, CopiesAre
      <4>4. QED
        BY <3>1, <4>2, <4>3
    <3>4. CASE k \notin DOMAIN buf[d]
      BY <1>3, <1>4, <3>1, <3>4
    <3>5. QED
      BY <3>3, <3>4
  <2>4. QED
    BY <2>1, <2>2, <2>3
<1>6. ASSUME NEW i \in Ids
      PROVE  IsFiniteSet(Copies(i)') /\ rows'[i] + Cardinality(Copies(i)') <= deliveries'[i]
  <2>1. CASE i = h
    <3>1. <<c, 0>> \in Copies(i)
      BY <1>1, <2>1, CopiesAre
    <3>2. Copies(i)' \subseteq (Copies(i) \ {<<c, 0>>}) \cup {<<c, end>>}
      BY <1>5, <2>1
    <3>3. IsFiniteSet(Copies(i)) /\ rows[i] + Cardinality(Copies(i)) <= deliveries[i]
      BY DEF DeliveryInv, RowsPerDelivery
    <3>4. /\ IsFiniteSet(Copies(i)') /\ Cardinality(Copies(i)') <= Cardinality(Copies(i))
          /\ Cardinality(Copies(i)) \in Nat /\ Cardinality(Copies(i)') \in Nat
      BY <3>1, <3>2, <3>3, OneReplaced
    <3>5. rows[i] \in Nat /\ deliveries[i] \in Nat
      BY DEF IInv, TypeOK
    <3>6. QED
      BY <1>2, <3>3, <3>4, <3>5
  <2>2. CASE i # h
    <3>1. Copies(i)' \subseteq Copies(i)
      BY <1>5, <2>2
    <3>2. deliveries'[i] >= deliveries[i] /\ rows'[i] = rows[i]
      BY <1>2 DEF IInv, TypeOK
    <3>3. QED
      BY <3>1, <3>2, NoMoreCopies
  <2>3. QED
    BY <2>1, <2>2
<1>7. QED
  BY <1>6 DEF DeliveryInv, RowsPerDelivery

\* The places of an event in a buffer are as many as its occurrences.
Places(c, s, i) == {<<c, k>> : k \in {l \in DOMAIN s : s[l] = i}}

LEMMA PlacesAreOccurrences ==
  ASSUME NEW c, NEW s \in Seq(Ids), NEW i
  PROVE  IsFiniteSet(Places(c, s, i)) /\ Cardinality(Places(c, s, i)) = Occurrences(s, i)
<1> DEFINE P == {k \in DOMAIN s : s[k] = i}
           G == Places(c, s, i)
           f == [k \in P |-> <<c, k>>]
<1>1. IsFiniteSet(P)
  <2>1. DOMAIN s = 1..Len(s) /\ Len(s) \in Nat
    OBVIOUS
  <2>2. IsFiniteSet(DOMAIN s)
    BY <2>1, FS_Interval
  <2>3. QED
    BY <2>2, FS_Subset
<1>2. f \in Bijection(P, G)
  <2>1. f \in [P -> G]
    BY DEF Places
  <2>2. \A k, l \in P : f[k] = f[l] => k = l
    OBVIOUS
  <2>3. \A x \in G : \E k \in P : f[k] = x
    BY DEF Places
  <2> HIDE DEF P, f, G
  <2>4. f \in Injection(P, G)
    BY <2>1, <2>2 DEF Injection, IsInjective
  <2>5. QED
    BY <2>1, <2>3, <2>4 DEF Bijection, Surjection
<1>3. QED
  BY <1>1, <1>2, FS_Bijection DEF Occurrences, ExistsBijection

\* flush() turns the copies in the buffer into rows, one for one.
LEMMA WriteBatchDeliveries ==
  ASSUME IInv, IInv', DeliveryInv, NEW c \in Consumers, WriteBatch(c)
  PROVE  DeliveryInv'
<1>1. /\ \A i \in Ids : rows'[i] = rows[i] + Occurrences(buf[c], i)
      /\ buf' = [buf EXCEPT ![c] = <<>>]
      /\ UNCHANGED <<inbox, deliveries>>
  BY DEF WriteBatch, groupVars
<1>2. /\ buf[c] \in Seq(Ids) /\ buf'[c] = <<>>
      /\ \A d \in Consumers : d # c => buf'[d] = buf[d]
  BY <1>1 DEF IInv, TypeOK
<1>3. ASSUME NEW i \in Ids
      PROVE  IsFiniteSet(Copies(i)') /\ rows'[i] + Cardinality(Copies(i)') <= deliveries'[i]
  <2> DEFINE G == Places(c, buf[c], i)
  <2>1. \A x : x \in G <=> \E k \in DOMAIN buf[c] : buf[c][k] = i /\ x = <<c, k>>
    BY DEF Places
  <2> HIDE DEF G
  <2>2. IsFiniteSet(G) /\ Cardinality(G) = Occurrences(buf[c], i)
    BY <1>2, PlacesAreOccurrences DEF G
  <2>3. G \subseteq Copies(i)
    BY <2>1, CopiesAre
  <2>4. ASSUME NEW x \in Copies(i)'
        PROVE  x \in Copies(i) \ G
    <3>1. \/ \E d \in Consumers : i \in inbox[d] /\ x = <<d, 0>>
          \/ \E d \in Consumers : \E k \in DOMAIN buf'[d] : buf'[d][k] = i /\ x = <<d, k>>
      BY <1>1, <2>4 DEF Copies
    <3>2. 0 \notin DOMAIN buf[c]
      BY <1>2
    <3>3. CASE \E d \in Consumers : i \in inbox[d] /\ x = <<d, 0>>
      BY <2>1, <3>2, <3>3, CopiesAre
    <3>4. CASE \E d \in Consumers : \E k \in DOMAIN buf'[d] : buf'[d][k] = i /\ x = <<d, k>>
      <4>0. PICK d \in Consumers : \E k \in DOMAIN buf'[d] : buf'[d][k] = i /\ x = <<d, k>>
        BY <3>4
      <4>1. PICK k \in DOMAIN buf'[d] : buf'[d][k] = i /\ x = <<d, k>>
        BY <4>0
      <4>2. d # c
        BY <1>2, <4>1
      <4>3. k \in DOMAIN buf[d] /\ buf[d][k] = i
        BY <1>2, <4>1, <4>2
      <4>4. QED
        BY <2>1, <4>1, <4>2, <4>3, CopiesAre
    <3>5. QED
      BY <3>1, <3>3, <3>4
  <2>5. /\ IsFiniteSet(Copies(i)) /\ rows[i] + Cardinality(Copies(i)) <= deliveries[i]
        /\ rows[i] \in Nat /\ deliveries[i] \in Nat
    BY DEF DeliveryInv, RowsPerDelivery, IInv, TypeOK
  <2>6. /\ IsFiniteSet(Copies(i) \ G)
        /\ Cardinality(Copies(i) \ G) = Cardinality(Copies(i)) - Cardinality(G)
    <3>1. Copies(i) \cap G = G
      BY <2>3
    <3>2. QED
      BY <2>5, <3>1, FS_Difference
  <2>7. Copies(i)' \subseteq Copies(i) \ G
    BY <2>4
  <2>8. IsFiniteSet(Copies(i)') /\ Cardinality(Copies(i)') <= Cardinality(Copies(i) \ G)
    BY <2>6, <2>7, FS_Subset
  <2>9. /\ Cardinality(Copies(i)') \in Nat /\ Cardinality(Copies(i)) \in Nat
        /\ Cardinality(G) \in Nat
    BY <2>2, <2>5, <2>8, FS_CardinalityType
  <2>10. rows'[i] = rows[i] + Cardinality(G) /\ deliveries'[i] = deliveries[i]
    BY <1>1, <2>2
  <2>11. QED
    BY <2>5, <2>6, <2>8, <2>9, <2>10
<1>4. QED
  BY <1>3 DEF DeliveryInv, RowsPerDelivery

\* Every step keeps the account.
LEMMA NextDeliveries == IInv /\ DeliveryInv /\ [Next]_vars => DeliveryInv'
<1> SUFFICES ASSUME IInv, DeliveryInv, [Next]_vars
             PROVE  DeliveryInv'
  OBVIOUS
<1>1. IInv'
  BY NextIInv
<1>2. CASE Enqueue \/ Age \/ UNCHANGED vars
  <2>1. UNCHANGED <<rows, deliveries, inbox, buf>>
    BY <1>2 DEF Enqueue, Age, vars, groupVars, worldVars, procVars
  <2>2. QED
    BY <1>1, <2>1, QuietDeliveries
<1>3. ASSUME NEW c \in Consumers, ReclaimStale(c) \/ Work(c) \/ Crash(c)
      PROVE  DeliveryInv'
  <2>1. CASE ReclaimStale(c)
    <3>1. First(ReclaimCount, stale) \in SUBSET Ids
      BY FirstSubset DEF IInv, TypeOK
    <3>2. QED
      BY <1>1, <2>1, <3>1, DeliverOnce DEF ReclaimStale, worldVars
  <2>2. CASE ReadBacklog(c)
    <3>1. First(Batch, Pending(c)) \in SUBSET Ids
      BY FirstSubset DEF Pending
    <3>2. QED
      BY <1>1, <2>2, <3>1, DeliverOnce DEF ReadBacklog, worldVars
  <2>3. CASE ReadNew(c)
    <3>1. First(Batch, {i \in Ids : lastDelivered < i /\ i <= produced}) \in SUBSET Ids
      BY FirstSubset
    <3>2. QED
      BY <1>1, <2>3, <3>1, DeliverOnce DEF ReadNew, worldVars
  <2>4. CASE HandleReclaimed(c) \/ Handle(c)
    BY <1>1, <2>4, HandleDeliveries
  <2>5. CASE WriteBatch(c)
    BY <1>1, <2>5, WriteBatchDeliveries
  <2>6. CASE HandleFailed(c) \/ Publish(c) \/ Dispatch(c) \/ RecordAlert(c)
             \/ AckBatch(c) \/ Crash(c)
    <3>1. UNCHANGED <<rows, deliveries>>
      BY <2>6 DEF HandleFailed, Publish, Dispatch, RecordAlert, AckBatch, Crash, XAck,
                  groupVars, worldVars
    <3>2. \A d \in Consumers : inbox'[d] \subseteq inbox[d] /\ buf'[d] \in {buf[d], <<>>}
      BY <2>6 DEF HandleFailed, Publish, Dispatch, RecordAlert, AckBatch, Crash, IInv, TypeOK
    <3>3. QED
      BY <1>1, <3>1, <3>2, QuietDeliveries
  <2>7. QED
    BY <1>3, <2>1, <2>2, <2>3, <2>4, <2>5, <2>6 DEF Work
<1>4. QED
  BY <1>2, <1>3 DEF Next

\* Rows are written for deliveries and for nothing else: however replicas interleave
\* and die, an event has at most as many rows as Redis delivered it times, less the
\* copies that are still to be written.
THEOREM EveryRowHasItsDelivery == Spec => []RowsPerDelivery
<1>1. Init => DeliveryInv
  <2>1. ASSUME Init, NEW i \in Ids
        PROVE  IsFiniteSet(Copies(i)) /\ rows[i] + Cardinality(Copies(i)) <= deliveries[i]
    <3>1. \A c \in Consumers : inbox[c] = {} /\ DOMAIN buf[c] = {}
      BY <2>1 DEF Init
    <3>2. \A x : x \notin Copies(i)
      BY <3>1, CopiesAre
    <3>3. Copies(i) = {}
      BY <3>2
    <3>4. IsFiniteSet(Copies(i)) /\ Cardinality(Copies(i)) = 0
      BY <3>3, FS_EmptySet
    <3>5. QED
      BY <2>1, <3>4 DEF Init
  <2>2. QED
    BY <2>1 DEF DeliveryInv, RowsPerDelivery
<1>2. DeliveryInv => RowsPerDelivery
  BY DEF DeliveryInv
<1>3. QED
  BY <1>1, <1>2, NextDeliveries, InductiveInvariant, PTL DEF Spec

-----------------------------------------------------------------------------
(* The backlog is read to its end. *)

\* A set of naturals that is not empty has a least member.
LEMMA LeastExists ==
  ASSUME NEW S \in SUBSET Nat, S # {}
  PROVE  \E x \in S : \A y \in S : x <= y
<1> DEFINE R == {p \in Nat \X Nat : p[1] < p[2]}
<1>1. IsWellFoundedOn(R, Nat)
  BY NatLessThanWellFounded DEF OpToRel
<1> HIDE DEF R
<1>2. PICK x \in S : \A y \in S : ~ (<<y, x>> \in R)
  BY <1>1, WFMin
<1>3. ASSUME NEW y \in S
      PROVE  x <= y
  <2>1. <<y, x>> \notin R
    BY <1>2
  <2>2. x \in Nat /\ y \in Nat
    OBVIOUS
  <2>3. ~ (y < x)
    BY <2>1, <2>2 DEF R
  <2>4. QED
    BY <2>2, <2>3
<1>4. QED
  BY <1>3

\* An answer shorter than asked for leaves nothing out: the ids below the least one
\* it would leave out are all in it, and there are at least as many as asked for.
LEMMA ShortAnswerIsAll ==
  ASSUME NEW S \in SUBSET Ids, NEW n \in Nat, Cardinality(First(n, S)) < n
  PROVE  First(n, S) = S
<1> DEFINE rest == S \ First(n, S)
<1>1. rest \subseteq Nat /\ IsFiniteSet(First(n, S))
  <2>1. IsFiniteSet(Ids)
    BY ConstantsAssumption, FS_Interval DEF Ids
  <2>2. First(n, S) \subseteq S
    BY FirstSubset
  <2>3. S \subseteq Nat
    BY ConstantsAssumption DEF Ids
  <2>4. QED
    BY <2>1, <2>2, <2>3, FS_Subset
<1>2. ASSUME rest # {}
      PROVE  FALSE
  <2>1. PICK x \in rest : \A y \in rest : x <= y
    BY <1>1, <1>2, LeastExists
  <2>2. ~ (Cardinality({j \in S : j < x}) < n)
    BY DEF First
  <2>3. {j \in S : j < x} \subseteq First(n, S)
    <3>1. ASSUME NEW j \in S, j < x, j \notin First(n, S)
          PROVE  FALSE
      <4>1. j \in rest
        BY <3>1
      <4>2. x <= j /\ j \in Nat /\ x \in Nat
        BY <1>1, <2>1, <4>1
      <4>3. QED
        BY <3>1, <4>2
    <3>2. QED
      BY <3>1
  <2>4. /\ Cardinality({j \in S : j < x}) \in Nat
        /\ Cardinality(First(n, S)) \in Nat
        /\ Cardinality({j \in S : j < x}) <= Cardinality(First(n, S))
    BY <1>1, <2>3, FS_Subset, FS_CardinalityType
  <2>5. QED
    BY <2>2, <2>4
<1>3. QED
  BY <1>2, FirstSubset

\* A step of one replica takes entries from the others at most.
LEMMA BacklogOfOne ==
  ASSUME BacklogInv, NEW c \in Consumers,
         \A d \in Consumers \ {c} :
           /\ pc'[d] = pc[d] /\ cursor'[d] = cursor[d]
           /\ inbox'[d] = inbox[d] /\ pendingIds'[d] = pendingIds[d]
           /\ \A i \in Ids : pel'[i] = d => pel[i] = d,
         pc'[c] = "fetch" => inbox'[c] = {},
         cursor'[c] = "live" =>
           \A i \in Ids : pel'[i] = c => i \in inbox'[c] \cup Range(pendingIds'[c])
  PROVE  BacklogInv'
<1>1. LiveHoldsItsPending'
  <2>1. ASSUME NEW d \in Consumers, cursor'[d] = "live", NEW i \in Ids, pel'[i] = d
        PROVE  i \in inbox'[d] \cup Range(pendingIds'[d])
    BY <2>1 DEF BacklogInv, LiveHoldsItsPending, Pending
  <2>2. QED
    BY <2>1 DEF LiveHoldsItsPending, Pending
<1>2. FetchHoldsNothing'
  BY DEF BacklogInv, FetchHoldsNothing
<1>3. QED
  BY <1>1, <1>2 DEF BacklogInv

\* A replica starts, and dies, with the backlog to read.
LEMMA StartCrashBacklog ==
  ASSUME IInv, BacklogInv, NEW c \in Consumers, ReclaimStale(c) \/ Crash(c)
  PROVE  BacklogInv'
<1>1. CASE ReclaimStale(c)
  <2>1. cursor'[c] = "backlog" /\ (pc'[c] = "fetch" => inbox'[c] = {})
    BY <1>1 DEF IInv, TypeOK, ReclaimStale
  <2>2. \A d \in Consumers \ {c} :
          /\ pc'[d] = pc[d] /\ cursor'[d] = cursor[d]
          /\ inbox'[d] = inbox[d] /\ pendingIds'[d] = pendingIds[d]
          /\ \A i \in Ids : pel'[i] = d => pel[i] = d
    BY <1>1 DEF IInv, TypeOK, ReclaimStale, Deliver
  <2>3. QED
    BY <2>1, <2>2, BacklogOfOne
<1>2. CASE Crash(c)
  <2>1. cursor'[c] = "backlog" /\ inbox'[c] = {}
    BY <1>2 DEF IInv, TypeOK, Crash
  <2>2. \A d \in Consumers \ {c} :
          /\ pc'[d] = pc[d] /\ cursor'[d] = cursor[d]
          /\ inbox'[d] = inbox[d] /\ pendingIds'[d] = pendingIds[d]
          /\ \A i \in Ids : pel'[i] = d => pel[i] = d
    BY <1>2 DEF IInv, TypeOK, Crash, groupVars
  <2>3. QED
    BY <2>1, <2>2, BacklogOfOne
<1>3. QED
  BY <1>1, <1>2

\* A replica goes live only when the answer is all that is pending on it.
LEMMA ReadBacklogBacklog ==
  ASSUME IInv, BacklogInv, NEW c \in Consumers, ReadBacklog(c)
  PROVE  BacklogInv'
<1> DEFINE entries == First(Batch, Pending(c))
<1>1. /\ Deliver(entries, c)
      /\ inbox' = [inbox EXCEPT ![c] = entries]
      /\ cursor' = [cursor EXCEPT ![c] = NextCursor(entries)]
      /\ pc' = [pc EXCEPT ![c] = IF entries = {} THEN "fetch" ELSE "handle"]
      /\ UNCHANGED pendingIds
  BY DEF ReadBacklog
<1>2. cursor'[c] = "live" => Pending(c) \subseteq entries
  <2>1. cursor'[c] = NextCursor(entries)
    BY <1>1 DEF IInv, TypeOK
  <2>2. Pending(c) \in SUBSET Ids /\ Batch \in Nat
    BY ConstantsAssumption DEF Pending
  <2>3. Cardinality(entries) < Batch => entries = Pending(c)
    BY <2>2, ShortAnswerIsAll
  <2>4. QED
    BY <2>1, <2>3 DEF NextCursor
<1>3. \A i \in entries : pel[i] = c
  BY FirstSubset DEF Pending
<1> HIDE DEF entries
<1>4. inbox'[c] = entries /\ (pc'[c] = "fetch" => entries = {})
  BY <1>1 DEF IInv, TypeOK
<1>5. cursor'[c] = "live" =>
        \A i \in Ids : pel'[i] = c => i \in inbox'[c] \cup Range(pendingIds'[c])
  BY <1>1, <1>2, <1>4 DEF Deliver, Pending
<1>6. \A d \in Consumers \ {c} :
        /\ pc'[d] = pc[d] /\ cursor'[d] = cursor[d]
        /\ inbox'[d] = inbox[d] /\ pendingIds'[d] = pendingIds[d]
        /\ \A i \in Ids : pel'[i] = d => pel[i] = d
  BY <1>1 DEF IInv, TypeOK, Deliver
<1>7. QED
  BY <1>4, <1>5, <1>6, BacklogOfOne

\* New entries are asked for with empty hands.
LEMMA ReadNewBacklog ==
  ASSUME IInv, BacklogInv, NEW c \in Consumers, ReadNew(c)
  PROVE  BacklogInv'
<1> DEFINE entries == First(Batch, {i \in Ids : lastDelivered < i /\ i <= produced})
<1>1. /\ pc[c] = "fetch" /\ cursor[c] = "live"
      /\ Deliver(entries, c)
      /\ inbox' = [inbox EXCEPT ![c] = entries]
      /\ pc' = [pc EXCEPT ![c] = "handle"]
      /\ UNCHANGED <<cursor, pendingIds>>
  BY DEF ReadNew
<1> HIDE DEF entries
<1>2. inbox[c] = {}
  BY <1>1 DEF BacklogInv, FetchHoldsNothing
<1>3. pc'[c] = "handle" /\ inbox'[c] = entries
  BY <1>1 DEF IInv, TypeOK
<1>4. ASSUME NEW i \in Ids, pel'[i] = c
      PROVE  i \in inbox'[c] \cup Range(pendingIds'[c])
  BY <1>1, <1>2, <1>3, <1>4 DEF BacklogInv, LiveHoldsItsPending, Pending, Deliver
<1>5. \A d \in Consumers \ {c} :
        /\ pc'[d] = pc[d] /\ cursor'[d] = cursor[d]
        /\ inbox'[d] = inbox[d] /\ pendingIds'[d] = pendingIds[d]
        /\ \A i \in Ids : pel'[i] = d => pel[i] = d
  BY <1>1 DEF IInv, TypeOK, Deliver
<1>6. QED
  BY <1>3, <1>4, <1>5, BacklogOfOne

\* What is handled leaves the inbox for the ids to acknowledge.
LEMMA HandleBacklog ==
  ASSUME IInv, BacklogInv, NEW c \in Consumers, HandleReclaimed(c) \/ Handle(c)
  PROVE  BacklogInv'
<1>1. PICK i \in inbox[c] :
        /\ Accept(c, i)
        /\ inbox' = [inbox EXCEPT ![c] = inbox[c] \ {i}]
  BY DEF HandleReclaimed, Handle, Oldest
<1>2. UNCHANGED <<pel, cursor>>
  BY DEF HandleReclaimed, Handle, groupVars
<1>3. /\ pc'[c] = "fetch" => inbox'[c] = {}
      /\ \A d \in Consumers \ {c} : pc'[d] = pc[d]
  <2>1. CASE HandleReclaimed(c)
    BY <2>1 DEF IInv, TypeOK, HandleReclaimed, Oldest
  <2>2. CASE Handle(c)
    BY <2>2 DEF IInv, TypeOK, Handle, FlushCheck, Resume, Oldest
  <2>3. QED
    BY <2>1, <2>2
<1>4. Range(pendingIds'[c]) = Range(pendingIds[c]) \cup {i}
  <2>1. i \in Ids /\ pendingIds[c] \in Seq(Ids)
    BY DEF IInv, TypeOK
  <2>2. pendingIds'[c] = Append(pendingIds[c], i)
    BY <1>1 DEF IInv, TypeOK, Accept
  <2>3. QED
    BY <2>1, <2>2, RangeOfAppend
<1>5. inbox'[c] = inbox[c] \ {i}
  BY <1>1 DEF IInv, TypeOK
<1>6. cursor'[c] = "live" =>
        \A k \in Ids : pel'[k] = c => k \in inbox'[c] \cup Range(pendingIds'[c])
  BY <1>2, <1>4, <1>5 DEF BacklogInv, LiveHoldsItsPending, Pending
<1>7. \A d \in Consumers \ {c} :
        /\ cursor'[d] = cursor[d] /\ inbox'[d] = inbox[d] /\ pendingIds'[d] = pendingIds[d]
        /\ \A k \in Ids : pel'[k] = d => pel[k] = d
  BY <1>1, <1>2 DEF IInv, TypeOK, Accept
<1>8. QED
  BY <1>3, <1>6, <1>7, BacklogOfOne

\* What is acknowledged is no longer pending.
LEMMA AckBacklog ==
  ASSUME IInv, BacklogInv, NEW c \in Consumers, HandleFailed(c) \/ AckBatch(c)
  PROVE  BacklogInv'
<1>1. CASE HandleFailed(c)
  <2>1. PICK i \in inbox[c] :
          /\ XAck({i})
          /\ inbox' = [inbox EXCEPT ![c] = inbox[c] \ {i}]
          /\ FlushCheck(c, Len(buf[c]), inbox[c] \ {i})
    BY <1>1 DEF HandleFailed, Oldest
  <2>2. UNCHANGED <<cursor, pendingIds>>
    BY <1>1 DEF HandleFailed
  <2>3. /\ inbox'[c] = inbox[c] \ {i}
        /\ pc'[c] = "fetch" => inbox'[c] = {}
    BY <2>1 DEF IInv, TypeOK, FlushCheck, Resume
  <2>4. cursor'[c] = "live" =>
          \A k \in Ids : pel'[k] = c => k \in inbox'[c] \cup Range(pendingIds'[c])
    BY <2>1, <2>2, <2>3, ConstantsAssumption
       DEF BacklogInv, LiveHoldsItsPending, Pending, XAck
  <2>5. \A d \in Consumers \ {c} :
          /\ pc'[d] = pc[d] /\ cursor'[d] = cursor[d]
          /\ inbox'[d] = inbox[d] /\ pendingIds'[d] = pendingIds[d]
          /\ \A k \in Ids : pel'[k] = d => pel[k] = d
    BY <2>1, <2>2, ConstantsAssumption DEF IInv, TypeOK, FlushCheck, XAck
  <2>6. QED
    BY <2>3, <2>4, <2>5, BacklogOfOne
<1>2. CASE AckBatch(c)
  <2>1. /\ XAck(ToAck(c))
        /\ pendingIds' = [pendingIds EXCEPT ![c] = <<>>]
        /\ pc' = [pc EXCEPT ![c] = Resume(inbox[c])]
        /\ UNCHANGED <<cursor, inbox>>
    BY <1>2 DEF AckBatch
  <2>2. pc'[c] = "fetch" => inbox'[c] = {}
    BY <2>1 DEF IInv, TypeOK, Resume
  <2>3. cursor'[c] = "live" =>
          \A k \in Ids : pel'[k] = c => k \in inbox'[c] \cup Range(pendingIds'[c])
    BY <2>1, ConstantsAssumption
       DEF BacklogInv, LiveHoldsItsPending, Pending, XAck, ToAck
  <2>4. \A d \in Consumers \ {c} :
          /\ pc'[d] = pc[d] /\ cursor'[d] = cursor[d]
          /\ inbox'[d] = inbox[d] /\ pendingIds'[d] = pendingIds[d]
          /\ \A k \in Ids : pel'[k] = d => pel[k] = d
    BY <2>1, ConstantsAssumption DEF IInv, TypeOK, XAck
  <2>5. QED
    BY <2>2, <2>3, <2>4, BacklogOfOne
<1>3. QED
  BY <1>1, <1>2

\* Inside _flush() nothing is read or acknowledged.
LEMMA FlushBacklog ==
  ASSUME IInv, BacklogInv, NEW c \in Consumers,
         WriteBatch(c) \/ Publish(c) \/ Dispatch(c) \/ RecordAlert(c)
  PROVE  BacklogInv'
<1>1. UNCHANGED <<pel, cursor, inbox, pendingIds>>
  BY DEF WriteBatch, Publish, Dispatch, RecordAlert, groupVars
<1>2. pc'[c] # "fetch" /\ \A d \in Consumers \ {c} : pc'[d] = pc[d]
  BY DEF IInv, TypeOK, WriteBatch, Publish, Dispatch, RecordAlert, AfterEvent
<1>3. cursor'[c] = "live" =>
        \A i \in Ids : pel'[i] = c => i \in inbox'[c] \cup Range(pendingIds'[c])
  BY <1>1 DEF BacklogInv, LiveHoldsItsPending, Pending
<1>4. QED
  BY <1>1, <1>2, <1>3, BacklogOfOne

\* Every step keeps the backlog.
LEMMA NextBacklog == IInv /\ BacklogInv /\ [Next]_vars => BacklogInv'
<1> SUFFICES ASSUME IInv, BacklogInv, [Next]_vars
             PROVE  BacklogInv'
  OBVIOUS
<1>1. CASE Enqueue \/ Age \/ UNCHANGED vars
  <2>1. UNCHANGED <<pel, pc, cursor, inbox, pendingIds>>
    BY <1>1 DEF Enqueue, Age, vars, groupVars, procVars
  <2>2. QED
    BY <2>1 DEF BacklogInv, LiveHoldsItsPending, FetchHoldsNothing, Pending
<1>2. ASSUME NEW c \in Consumers, ReclaimStale(c) \/ Work(c) \/ Crash(c)
      PROVE  BacklogInv'
  BY <1>2, StartCrashBacklog, ReadBacklogBacklog, ReadNewBacklog, HandleBacklog,
     AckBacklog, FlushBacklog DEF Work
<1>3. QED
  BY <1>1, <1>2 DEF Next

\* A replica past its backlog holds everything the group lists as pending on it, for
\* any batch size: consume() leaves "0" exactly when the backlog is exhausted.
THEOREM NothingForgotten == Spec => []LiveHoldsItsPending
<1>1. Init => BacklogInv
  BY DEF Init, BacklogInv, LiveHoldsItsPending, FetchHoldsNothing
<1>2. BacklogInv => LiveHoldsItsPending
  BY DEF BacklogInv
<1>3. QED
  BY <1>1, <1>2, NextBacklog, InductiveInvariant, PTL DEF Spec

-----------------------------------------------------------------------------
(* The refinement of AtLeastOnce. *)

\* The queue starts empty, with nothing settled.
LEMMA AbstractInit == Init => Abstract!Init
BY DEF Init, Abstract!Init, Stored, Settled, Ids

\* Each action is one step of the abstract queue, or none.
LEMMA AbstractStep ==
  IInv /\ [Next]_vars => [Abstract!Next]_(Abstract!vars)
<1> SUFFICES ASSUME IInv, [Next]_vars
             PROVE  [Abstract!Next]_(Abstract!vars)
  OBVIOUS
<1> USE DEF groupVars, worldVars, procVars, Abstract!vars
<1>1. CASE Enqueue
  <2>1. Stored' = Stored /\ Settled' = Settled
    BY <1>1 DEF Enqueue, Stored, Settled
  <2>2. Abstract!Send
    BY <1>1, <2>1 DEF Enqueue, Abstract!Send
  <2>3. QED
    BY <2>2 DEF Abstract!Next
<1>2. CASE Age
  BY <1>2 DEF Age, Stored, Settled
<1>3. ASSUME NEW c \in Consumers, ReclaimStale(c)
      PROVE  UNCHANGED Abstract!vars
  <2>1. First(ReclaimCount, stale) \subseteq stale
    BY FirstSubset
  <2>2. Settled' = Settled
    BY <1>3, <2>1, ConstantsAssumption
       DEF ReclaimStale, Deliver, Settled, IInv, TypeOK, HeldIsDelivered
  <2>3. QED
    BY <1>3, <2>2 DEF ReclaimStale, Stored
<1>4. ASSUME NEW c \in Consumers, ReadBacklog(c)
      PROVE  UNCHANGED Abstract!vars
  <2>1. \A i \in First(Batch, Pending(c)) : pel[i] = c
    BY FirstSubset DEF Pending
  <2>2. Settled' = Settled
    BY <1>4, <2>1, ConstantsAssumption DEF ReadBacklog, Deliver, Settled
  <2>3. QED
    BY <1>4, <2>2 DEF ReadBacklog, Stored
<1>5. ASSUME NEW c \in Consumers, ReadNew(c)
      PROVE  UNCHANGED Abstract!vars
  <2> DEFINE fresh == {i \in Ids : lastDelivered < i /\ i <= produced}
             entries == First(Batch, fresh)
             last == LastDeliveredAfter(entries)
  <2>1. last \in lastDelivered..produced /\ entries = (lastDelivered + 1)..last
    BY NewEntries DEF IInv
  <2>2. Deliver(entries, c) /\ lastDelivered' = last
    BY <1>5 DEF ReadNew
  <2>3. lastDelivered \in Nat /\ produced \in Nat
    BY ConstantsAssumption DEF IInv, TypeOK
  <2> HIDE DEF entries, last
  <2>4. Settled' = Settled
    BY <2>1, <2>2, <2>3, ConstantsAssumption DEF Deliver, Settled, Ids
  <2>5. QED
    BY <1>5, <2>4 DEF ReadNew, Stored
<1>6. ASSUME NEW c \in Consumers, HandleFailed(c)
      PROVE  Abstract!Next
  <2>1. PICK i \in inbox[c] : XAck({i}) /\ dropped' = dropped \cup {i}
    BY <1>6 DEF HandleFailed, Oldest
  <2>2. i \in Delivered /\ i \in 1..produced
    BY ConstantsAssumption DEF IInv, TypeOK, HeldIsDelivered, Delivered, Ids
  <2>3. Settled' = Settled \cup {i}
    BY <1>6, <2>1, <2>2 DEF HandleFailed, XAck, Settled, Delivered
  <2>4. Abstract!GiveUp(i)
    BY <1>6, <2>1, <2>3 DEF HandleFailed, Stored, Abstract!GiveUp
  <2>5. QED
    BY <2>2, <2>4 DEF Abstract!Next, Abstract!Sent
<1>7. ASSUME NEW c \in Consumers, WriteBatch(c)
      PROVE  Abstract!Next
  <2>1. Stored' = Stored \cup Range(buf[c])
    BY <1>7, WriteBatchStores
  <2>2. Settled' = Settled
    BY <1>7 DEF WriteBatch, Settled
  <2>3. Abstract!Store(Range(buf[c]))
    BY <1>7, <2>1, <2>2 DEF WriteBatch, Abstract!Store
  <2>4. Range(buf[c]) \subseteq 1..produced
    BY ConstantsAssumption DEF IInv, TypeOK, HeldIsDelivered, Delivered, Ids
  <2>5. QED
    BY <2>3, <2>4 DEF Abstract!Next, Abstract!Sent
<1>8. ASSUME NEW c \in Consumers, Publish(c)
      PROVE  Abstract!Next
  <2> DEFINE i == Head(written[c])
  <2>1. /\ written[c] \in Seq(Ids) /\ written[c] # <<>>
        /\ Range(written[c]) \subseteq Stored \cap Delivered
    BY <1>8 DEF Publish, IInv, TypeOK, FlushProgress, HeldIsDelivered
  <2>2. i \in Stored /\ i \in Delivered
    BY <2>1, RangeOfTail
  <2>3. i \in 1..produced
    BY <2>2, ConstantsAssumption DEF Delivered, Ids, IInv, TypeOK
  <2>4. Abstract!Show(i)
    BY <1>8, <2>2 DEF Publish, Stored, Settled, Abstract!Show
  <2>5. QED
    BY <2>3, <2>4 DEF Abstract!Next, Abstract!Sent
<1>9. ASSUME NEW c \in Consumers, AckBatch(c)
      PROVE  Abstract!Next
  <2>1. ToAck(c) \subseteq Stored \cap published /\ ToAck(c) \subseteq Delivered
    BY <1>9 DEF AckBatch, ToAck, IInv, FlushProgress, HeldIsDelivered
  <2>2. ToAck(c) \subseteq 1..produced
    BY <2>1, ConstantsAssumption DEF Delivered, Ids, IInv, TypeOK
  <2>3. Settled' = Settled \cup ToAck(c)
    BY <1>9, <2>1 DEF AckBatch, XAck, Settled, Delivered
  <2>4. Abstract!Settle(ToAck(c))
    BY <1>9, <2>1, <2>3 DEF AckBatch, Stored, Abstract!Settle
  <2>5. QED
    BY <2>2, <2>4 DEF Abstract!Next, Abstract!Sent
<1>10. ASSUME NEW c \in Consumers,
              HandleReclaimed(c) \/ Handle(c) \/ Dispatch(c) \/ RecordAlert(c)
                \/ Crash(c)
       PROVE  UNCHANGED Abstract!vars
  BY <1>10 DEF HandleReclaimed, Handle, Dispatch, RecordAlert, Crash, Stored,
     Settled
<1>11. CASE UNCHANGED vars
  BY <1>11 DEF vars, Stored, Settled
<1>12. QED
  BY <1>1, <1>2, <1>3, <1>4, <1>5, <1>6, <1>7, <1>8, <1>9, <1>10, <1>11
     DEF Next, Work

\* The replicas and the consumer group together implement the abstract
\* at-least-once queue, for every value of the constants.
THEOREM RefinesAtLeastOnce == Spec => ImplementsAtLeastOnce
<1>1. Init => Abstract!Init
  BY AbstractInit
<1>2. IInv /\ [Next]_vars => [Abstract!Next]_(Abstract!vars)
  BY AbstractStep
<1>3. QED
  BY <1>1, <1>2, InductiveInvariant, PTL DEF Spec, ImplementsAtLeastOnce,
     Abstract!Spec
=============================================================================
