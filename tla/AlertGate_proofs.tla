--------------------------- MODULE AlertGate_proofs ---------------------------
(***************************************************************************)
(* Proofs about AlertGate, for any replicas, contracts and channels, any   *)
(* grace period and cooldown: alerts of one run are spaced and follow the  *)
(* grace period, a mark is that of a recorded alert, and the alert table   *)
(* tells the truth.                                                        *)
(***************************************************************************)
EXTENDS AlertGate, TLAPS

-----------------------------------------------------------------------------
(* Types. *)

LEMMA TypeInit == Init => TypeOK
BY GateAssumption DEF Init, TypeOK, Answers

\* Every step keeps the types; a dispatch needs RunInv, as its alert has a mark.
LEMMA TypeStep ==
  ASSUME TypeOK, RunInv, [Next]_vars
  PROVE  TypeOK'
<1>0. /\ now \in Nat /\ MaxTime \in Nat /\ MaxBoots \in Nat
      /\ Never \notin Nat /\ Configured \subseteq Channels
  BY GateAssumption DEF TypeOK
<1>1. CASE Tick
  BY <1>0, <1>1 DEF TypeOK, Tick, gateVars
<1>2. ASSUME NEW r \in Replicas, Start(r)
      PROVE  TypeOK'
  BY <1>0, <1>2 DEF TypeOK, Start
<1>3. ASSUME NEW r \in Replicas, Stop(r)
      PROVE  TypeOK'
  BY <1>3 DEF TypeOK, Stop, gateVars
<1>4. ASSUME NEW r \in Replicas, NEW k \in Contracts, Ask(r, k)
      PROVE  TypeOK'
  <2>1. MarkAfter(r, k) \in 0..now \cup {Never}
    BY <1>0 DEF TypeOK, MarkAfter
  <2>2. last' \in [Replicas -> [Contracts -> 0..now' \cup {Never}]]
    BY <1>4, <2>1 DEF TypeOK, Ask
  <2>3. CASE Allowed(r, k)
    <3>1. [ch \in Channels |-> "pending"] \in [Channels -> Answers]
      BY DEF Answers
    <3>2. status' = [status EXCEPT ![r] = [ch \in Channels |-> "pending"]]
      BY <1>4, <2>3 DEF Ask
    <3>3. status' \in [Replicas -> [Channels -> Answers]]
      BY <3>1, <3>2 DEF TypeOK
    <3>4. /\ pc' = [pc EXCEPT ![r] = "dispatch"]
          /\ subject' = [subject EXCEPT ![r] = k]
          /\ UNCHANGED <<now, boots, started, heard, audit>>
      BY <1>4, <2>3 DEF Ask
    <3>5. /\ pc' \in [Replicas -> {"down", "idle", "dispatch"}]
          /\ subject' \in [Replicas -> Contracts]
      BY <3>4 DEF TypeOK
    <3>6. QED
      BY <2>2, <3>3, <3>4, <3>5 DEF TypeOK
  <2>4. CASE ~Allowed(r, k)
    BY <1>4, <2>2, <2>4 DEF TypeOK, Ask, Alerts
  <2>5. QED
    BY <2>3, <2>4
<1>5. ASSUME NEW r \in Replicas, pc[r] = "dispatch"
      PROVE  Current(r) \in Alerts
  <2>1. boots[r] \in 1..MaxBoots
    BY <1>0, <1>5 DEF TypeOK, RunInv
  <2>2. last[r][subject[r]] \in 0..MaxTime
    BY <1>0, <1>5 DEF TypeOK, RunInv
  <2>3. QED
    BY <2>1, <2>2 DEF TypeOK, Alerts, Current
<1>6. ASSUME NEW r \in Replicas, NEW ch \in Channels, Send(r, ch)
      PROVE  TypeOK'
  <2>1. /\ status' \in [Replicas -> [Channels -> Answers]]
        /\ heard' \subseteq heard \cup {<<Current(r), ch>>}
        /\ pc[r] = "dispatch"
    BY <1>6 DEF TypeOK, Send, StatusOf, Answers
  <2>2. heard' \subseteq Alerts \X Channels
    BY <1>5, <2>1 DEF TypeOK
  <2>3. QED
    BY <1>6, <2>1, <2>2 DEF TypeOK, Send, gateVars, Alerts
<1>7. ASSUME NEW r \in Replicas, Record(r)
      PROVE  TypeOK'
  <2>1. Current(r) \in Alerts /\ status[r] \in [Channels -> Answers]
    BY <1>5, <1>7 DEF Record, TypeOK
  <2>2. audit' \subseteq [alert : Alerts, channels : [Channels -> Answers]]
    BY <1>7, <2>1 DEF TypeOK, Record
  <2>3. QED
    BY <1>7, <2>2 DEF TypeOK, Record, gateVars, Alerts
<1>8. CASE UNCHANGED vars
  BY <1>8 DEF TypeOK, vars, gateVars, Alerts
<1>9. QED
  BY <1>1, <1>2, <1>3, <1>4, <1>6, <1>7, <1>8 DEF Next

\* What TypeOK says of a gate.
LEMMA GateType ==
  ASSUME TypeOK
  PROVE  /\ boots \in [Replicas -> Nat]
         /\ started \in [Replicas -> Nat]
         /\ pc \in [Replicas -> {"down", "idle", "dispatch"}]
         /\ \A q \in Replicas : DOMAIN last[q] = Contracts
         /\ DOMAIN last = Replicas
         /\ \A q \in Replicas, k \in Contracts : last[q][k] \in Nat \cup {Never}
<1>1. now \in Nat /\ MaxBoots \in Nat
  BY GateAssumption DEF TypeOK
<1>2. boots \in [Replicas -> Nat]
  BY <1>1 DEF TypeOK
<1>3. started \in [Replicas -> Nat]
  BY <1>1 DEF TypeOK
<1>4. \A q \in Replicas : last[q] \in [Contracts -> 0..now \cup {Never}]
  BY DEF TypeOK
<1>5. \A q \in Replicas, k \in Contracts : last[q][k] \in Nat \cup {Never}
  BY <1>1, <1>4
<1>6. QED
  BY <1>2, <1>3, <1>4, <1>5 DEF TypeOK

\* What TypeOK says of an alert that was heard.
LEMMA HeardType ==
  ASSUME TypeOK, NEW h \in heard
  PROVE  /\ h[1].by \in Replicas /\ h[1].boot \in Nat /\ h[1].boot > 0
         /\ h[1].contract \in Contracts /\ h[1].at \in Nat
         /\ h[2] \in Channels /\ h = <<h[1], h[2]>>
<1>1. h \in Alerts \X Channels
  BY DEF TypeOK
<1>2. h[1] \in Alerts /\ h[2] \in Channels /\ h = <<h[1], h[2]>>
  BY <1>1
<1>3. QED
  BY <1>2, GateAssumption DEF Alerts

-----------------------------------------------------------------------------
(* The steps.  Each action keeps the rest of the inductive invariant. *)

\* Nothing that the invariants look at changes.
LEMMA StutterStep ==
  ASSUME IInv, UNCHANGED <<gateVars, pc, subject, status, heard, audit>>
  PROVE  RunInv' /\ MarkInv' /\ ApartInOneRun' /\ RecordInv' /\ AnswerInv'
BY DEF IInv, gateVars, RunInv, MarkInv, OfThisRun, ApartInOneRun, RecordInv,
       AnswerInv, Current

\* A new run: no mark yet, and nothing was heard of it.
LEMMA StartStep ==
  ASSUME IInv, NEW r \in Replicas, Start(r)
  PROVE  RunInv' /\ MarkInv' /\ ApartInOneRun' /\ RecordInv' /\ AnswerInv'
<1>1. /\ boots' = [boots EXCEPT ![r] = @ + 1]
      /\ started' = [started EXCEPT ![r] = now]
      /\ last' = [last EXCEPT ![r] = [k \in Contracts |-> Never]]
      /\ pc' = [pc EXCEPT ![r] = "idle"]
      /\ UNCHANGED <<subject, status, heard, audit>>
  BY DEF Start
<1>2. /\ boots \in [Replicas -> Nat] /\ started \in [Replicas -> Nat]
      /\ pc \in [Replicas -> {"down", "idle", "dispatch"}]
      /\ DOMAIN last = Replicas
  BY GateType DEF IInv
<1>3. RunInv'
  <2>1. ASSUME NEW h \in heard
        PROVE  h[1].boot <= boots'[h[1].by]
    BY <1>1, <1>2, <2>1, HeardType DEF IInv, RunInv
  <2>2. QED
    BY <1>1, <1>2, <2>1 DEF IInv, RunInv
<1>4. MarkInv'
  <2> SUFFICES ASSUME NEW q \in Replicas, NEW k \in Contracts
               PROVE  /\ last'[q][k] # Never => last'[q][k] >= started'[q] + Grace
                      /\ \A h \in heard : OfThisRun(h[1], q, k)' =>
                           /\ last'[q][k] # Never
                           /\ \/ h[1].at = last'[q][k]
                              \/ last'[q][k] >= h[1].at + Cooldown
                           /\ h[1].at <= last'[q][k]
                           /\ h[1].at >= started'[q] + Grace
    BY <1>1 DEF MarkInv
  <2>1. CASE q = r
    <3>1. last'[q][k] = Never
      BY <1>1, <1>2, <2>1
    <3>2. ASSUME NEW h \in heard
          PROVE  ~OfThisRun(h[1], q, k)'
      BY <1>1, <1>2, <2>1, HeardType DEF IInv, RunInv, OfThisRun
    <3>3. QED
      BY <3>1, <3>2
  <2>2. CASE q # r
    BY <1>1, <1>2, <2>2 DEF IInv, MarkInv, OfThisRun
  <2>3. QED
    BY <2>1, <2>2
<1>5. ApartInOneRun'
  BY <1>1 DEF IInv, ApartInOneRun
<1>6. RecordInv'
  <2> SUFFICES ASSUME NEW q \in Replicas, NEW k \in Contracts,
                      pc'[q] # "down", last'[q][k] # Never,
                      pc'[q] = "dispatch" => subject[q] # k
               PROVE  \E a \in audit :
                        a.alert = [by |-> q, boot |-> boots'[q], contract |-> k,
                                   at |-> last'[q][k]]
    BY <1>1 DEF RecordInv
  <2>1. q # r
    BY <1>1, <1>2
  <2>2. QED
    BY <1>1, <1>2, <2>1 DEF IInv, RecordInv
<1>7. AnswerInv'
  <2>1. ASSUME NEW q \in Replicas, pc'[q] = "dispatch"
        PROVE  pc[q] = "dispatch" /\ Current(q)' = Current(q)
    BY <1>1, <1>2, <2>1 DEF Current
  <2>2. QED
    BY <1>1, <2>1 DEF IInv, AnswerInv
<1>8. QED
  BY <1>3, <1>4, <1>5, <1>6, <1>7

\* The marks of a stopped replica stay as they are.
LEMMA StopStep ==
  ASSUME IInv, NEW r \in Replicas, Stop(r)
  PROVE  RunInv' /\ MarkInv' /\ ApartInOneRun' /\ RecordInv' /\ AnswerInv'
<1>1. /\ pc' = [pc EXCEPT ![r] = "down"]
      /\ UNCHANGED <<boots, started, last, subject, status, heard, audit>>
      /\ pc \in [Replicas -> {"down", "idle", "dispatch"}]
  BY GateType DEF Stop, gateVars, IInv
<1>2. ASSUME NEW q \in Replicas, pc'[q] # "down"
      PROVE  pc'[q] = pc[q]
  BY <1>1, <1>2
<1>3. QED
  BY <1>1, <1>2 DEF IInv, RunInv, MarkInv, OfThisRun, ApartInOneRun, RecordInv,
     AnswerInv, Current

\* An allowed event gets its mark, which is later than the grace period and a
\* cooldown after the mark before; a refused one changes nothing.
LEMMA AskStep ==
  ASSUME IInv, NEW r \in Replicas, NEW k \in Contracts, Ask(r, k)
  PROVE  RunInv' /\ MarkInv' /\ ApartInOneRun' /\ RecordInv' /\ AnswerInv'
<1>1. /\ last' = [last EXCEPT ![r][k] = MarkAfter(r, k)]
      /\ pc[r] = "idle"
      /\ UNCHANGED <<now, boots, started, heard, audit>>
  BY DEF Ask
<1>2. /\ boots \in [Replicas -> Nat] /\ started \in [Replicas -> Nat]
      /\ pc \in [Replicas -> {"down", "idle", "dispatch"}]
      /\ DOMAIN last = Replicas
      /\ \A q \in Replicas : DOMAIN last[q] = Contracts
      /\ \A q \in Replicas, l \in Contracts : last[q][l] \in Nat \cup {Never}
      /\ subject \in [Replicas -> Contracts]
      /\ status \in [Replicas -> [Channels -> Answers]]
      /\ now \in Nat /\ Never \notin Nat /\ Grace \in Nat /\ Cooldown \in Nat
  BY GateType, GateAssumption DEF IInv, TypeOK
<1>3. \A q \in Replicas, l \in Contracts :
        last'[q][l] = IF q = r /\ l = k THEN MarkAfter(r, k) ELSE last[q][l]
  BY <1>1, <1>2
<1>4. CASE ~Allowed(r, k)
  <2>1. /\ \A q \in Replicas, l \in Contracts : last'[q][l] = last[q][l]
        /\ UNCHANGED <<boots, started, pc, subject, status, heard, audit>>
    BY <1>1, <1>3, <1>4 DEF MarkAfter, Ask
  <2>2. RunInv' /\ MarkInv' /\ ApartInOneRun' /\ RecordInv'
    BY <2>1, <1>2 DEF IInv, RunInv, MarkInv, OfThisRun, ApartInOneRun, RecordInv
  <2>3. \A q \in Replicas : Current(q)' = Current(q)
    BY <2>1, <1>2 DEF Current
  <2>4. AnswerInv'
    BY <2>1, <2>3 DEF IInv, AnswerInv
  <2>5. QED
    BY <2>2, <2>4
<1>5. CASE Allowed(r, k)
  <2>1. /\ pc' = [pc EXCEPT ![r] = "dispatch"]
        /\ subject' = [subject EXCEPT ![r] = k]
        /\ status' = [status EXCEPT ![r] = [ch \in Channels |-> "pending"]]
        /\ last'[r][k] = now
    BY <1>3, <1>5 DEF Ask, MarkAfter
  <2>2. RunInv'
    BY <1>1, <1>2, <1>3, <2>1 DEF IInv, RunInv
  <2>3. /\ now >= started[r] + Grace
        /\ last[r][k] # Never => now >= last[r][k] + Cooldown
    <3>1. started[r] \in Nat /\ started[r] <= now
      BY <1>2 DEF IInv, TypeOK
    <3>2. last[r][k] # Never => last[r][k] \in Nat
      BY <1>2
    <3>3. last[r][k] # Never => last[r][k] <= now
      BY <1>2 DEF IInv, TypeOK
    <3>4. QED
      BY <1>2, <1>5, <3>1, <3>2, <3>3 DEF Allowed, InGrace, Cooling
  <2>4. MarkInv'
    <3> SUFFICES ASSUME NEW q \in Replicas, NEW l \in Contracts
                 PROVE  /\ last'[q][l] # Never => last'[q][l] >= started[q] + Grace
                        /\ \A h \in heard : OfThisRun(h[1], q, l) =>
                             /\ last'[q][l] # Never
                             /\ \/ h[1].at = last'[q][l]
                                \/ last'[q][l] >= h[1].at + Cooldown
                             /\ h[1].at <= last'[q][l]
                             /\ h[1].at >= started[q] + Grace
      BY <1>1 DEF MarkInv, OfThisRun
    <3>1. CASE q = r /\ l = k
      <4>1. last'[q][l] = now /\ now # Never
        BY <1>2, <2>1, <3>1
      <4>2. ASSUME NEW h \in heard, OfThisRun(h[1], r, k)
            PROVE  /\ now >= h[1].at + Cooldown /\ h[1].at <= now
                   /\ h[1].at >= started[r] + Grace
        <5>1. /\ last[r][k] # Never /\ last[r][k] \in Nat
              /\ h[1].at <= last[r][k] /\ h[1].at \in Nat
              /\ h[1].at >= started[r] + Grace
          BY <1>2, <4>2, HeardType DEF IInv, MarkInv
        <5>2. QED
          BY <1>2, <2>3, <5>1
      <4>3. QED
        BY <2>3, <3>1, <4>1, <4>2
    <3>2. CASE ~(q = r /\ l = k)
      <4>1. last'[q][l] = last[q][l]
        BY <1>3, <3>2
      <4>2. QED
        BY <4>1 DEF IInv, MarkInv
    <3>3. QED
      BY <3>1, <3>2
  <2>5. ApartInOneRun'
    BY <1>1 DEF IInv, ApartInOneRun
  <2>6. RecordInv'
    <3> SUFFICES ASSUME NEW q \in Replicas, NEW l \in Contracts,
                        pc'[q] # "down", last'[q][l] # Never,
                        pc'[q] = "dispatch" => subject'[q] # l
                 PROVE  \E a \in audit :
                          a.alert = [by |-> q, boot |-> boots[q], contract |-> l,
                                     at |-> last'[q][l]]
      BY <1>1 DEF RecordInv
    <3>1. ~(q = r /\ l = k)
      BY <1>2, <2>1
    <3>2. last'[q][l] = last[q][l]
      BY <1>3, <3>1
    <3>3. pc[q] # "down" /\ (pc[q] = "dispatch" => subject[q] # l)
      BY <1>1, <1>2, <2>1
    <3>4. QED
      BY <3>2, <3>3 DEF IInv, RecordInv
  <2>7. AnswerInv'
    <3>1. ASSUME NEW q \in Replicas, NEW ch \in Channels, pc'[q] = "dispatch"
          PROVE  /\ status'[q][ch] = "sent" => <<Current(q)', ch>> \in heard
                 /\ status'[q][ch] = "skipped" => ch \notin Configured
      <4>1. CASE q = r
        <5>1. status'[q][ch] = "pending"
          BY <1>2, <2>1, <4>1
        <5>2. QED
          BY <5>1
      <4>2. CASE q # r
        <5>1. status'[q] = status[q] /\ pc[q] = "dispatch" /\ subject'[q] = subject[q]
          BY <1>2, <2>1, <3>1, <4>2
        <5>2. last'[q][subject[q]] = last[q][subject[q]]
          BY <1>2, <1>3, <4>2
        <5>3. Current(q)' = Current(q)
          BY <1>1, <5>1, <5>2 DEF Current
        <5>4. QED
          BY <5>1, <5>3 DEF IInv, AnswerInv
      <4>3. QED
        BY <4>1, <4>2
    <3>2. QED
      BY <1>1, <3>1 DEF IInv, AnswerInv
  <2>8. QED
    BY <2>2, <2>4, <2>5, <2>6, <2>7
<1>6. QED
  BY <1>4, <1>5

\* A channel answers: at most the current alert is added to what was heard.
LEMMA SendStep ==
  ASSUME IInv, NEW r \in Replicas, NEW ch \in Channels, Send(r, ch)
  PROVE  RunInv' /\ MarkInv' /\ ApartInOneRun' /\ RecordInv' /\ AnswerInv'
<1> DEFINE new == <<Current(r), ch>>
           k == subject[r]
<1>1. PICK answer \in IF ch \in Configured THEN {"sent", "error"} ELSE {"skipped"},
           arrives \in BOOLEAN :
        /\ answer = "sent" => arrives
        /\ answer = "skipped" => ~arrives
        /\ status' = [status EXCEPT ![r][ch] = answer]
        /\ heard' = IF arrives THEN heard \cup {new} ELSE heard
  BY DEF Send, StatusOf
<1>2. /\ pc[r] = "dispatch"
      /\ UNCHANGED <<now, boots, started, last, pc, subject, audit>>
  BY DEF Send, gateVars
<1>3. /\ boots \in [Replicas -> Nat] /\ started \in [Replicas -> Nat]
      /\ \A q \in Replicas, l \in Contracts : last[q][l] \in Nat \cup {Never}
      /\ subject \in [Replicas -> Contracts]
      /\ status \in [Replicas -> [Channels -> Answers]]
      /\ Never \notin Nat /\ Cooldown \in Nat
  BY GateType, GateAssumption DEF IInv, TypeOK
<1>4. /\ heard \subseteq heard' /\ heard' \subseteq heard \cup {new}
      /\ new \in heard' => ch \in Configured \/ new \in heard
      /\ answer = "sent" => new \in heard'
      /\ answer = "skipped" => ch \notin Configured
  BY <1>1
<1>5. /\ Current(r) = [by |-> r, boot |-> boots[r], contract |-> k, at |-> last[r][k]]
      /\ k \in Contracts /\ last[r][k] # Never /\ last[r][k] \in Nat
      /\ Current(r).by = r /\ Current(r).boot = boots[r] /\ Current(r).contract = k
      /\ Current(r).at = last[r][k]
  BY <1>2, <1>3 DEF Current, IInv, RunInv
<1>6. new[1] = Current(r) /\ new[2] = ch
  OBVIOUS
<1> HIDE DEF new, k
<1>7. RunInv'
  <2>1. ASSUME NEW h \in heard'
        PROVE  h[1].boot <= boots[h[1].by] /\ h[2] \in Configured
    <3>1. CASE h \in heard
      BY <3>1 DEF IInv, RunInv
    <3>2. CASE h = new /\ h \notin heard
      BY <1>3, <1>4, <1>5, <1>6, <3>2
    <3>3. QED
      BY <1>4, <3>1, <3>2
  <2>2. QED
    BY <1>2, <2>1 DEF IInv, RunInv
<1>8. MarkInv'
  <2>1. ASSUME NEW q \in Replicas, NEW l \in Contracts, NEW h \in heard',
               OfThisRun(h[1], q, l)
        PROVE  /\ last[q][l] # Never
               /\ h[1].at = last[q][l] \/ last[q][l] >= h[1].at + Cooldown
               /\ h[1].at <= last[q][l]
               /\ h[1].at >= started[q] + Grace
    <3>1. CASE h \in heard
      BY <2>1, <3>1 DEF IInv, MarkInv
    <3>2. CASE h = new
      <4>1. q = r /\ l = k /\ h[1].at = last[r][k]
        BY <1>5, <1>6, <2>1, <3>2 DEF OfThisRun
      <4>2. last[r][k] >= started[r] + Grace
        BY <1>5 DEF IInv, MarkInv
      <4>3. QED
        BY <1>5, <4>1, <4>2
    <3>3. QED
      BY <1>4, <3>1, <3>2
  <2>2. QED
    BY <1>2, <2>1 DEF IInv, MarkInv, OfThisRun
<1>9. ApartInOneRun'
  <2> SUFFICES ASSUME NEW h \in heard', NEW g \in heard',
                      h[1].by = g[1].by, h[1].boot = g[1].boot,
                      h[1].contract = g[1].contract, h[1].at < g[1].at
               PROVE  g[1].at - h[1].at >= Cooldown
    BY DEF ApartInOneRun
  <2>1. CASE h \in heard /\ g \in heard
    BY <2>1 DEF IInv, ApartInOneRun
  <2>2. CASE h \in heard /\ g = new
    <3>1. OfThisRun(h[1], r, k) /\ g[1].at = last[r][k] /\ h[1].at \in Nat
      BY <1>5, <1>6, <2>2, HeardType DEF OfThisRun, IInv
    <3>2. last[r][k] >= h[1].at + Cooldown
      BY <1>5, <2>2, <3>1 DEF IInv, MarkInv
    <3>3. QED
      BY <1>3, <1>5, <3>1, <3>2
  <2>3. CASE h = new /\ g \in heard
    <3>1. OfThisRun(g[1], r, k) /\ h[1].at = last[r][k] /\ g[1].at \in Nat
      BY <1>5, <1>6, <2>3, HeardType DEF OfThisRun, IInv
    <3>2. g[1].at <= last[r][k]
      BY <1>5, <2>3, <3>1 DEF IInv, MarkInv
    <3>3. QED
      BY <1>5, <3>1, <3>2
  <2>4. CASE h = new /\ g = new
    BY <1>5, <1>6, <2>4
  <2>5. QED
    BY <1>4, <2>1, <2>2, <2>3, <2>4
<1>10. RecordInv'
  BY <1>2 DEF IInv, RecordInv
<1>11. AnswerInv'
  <2>1. ASSUME NEW q \in Replicas, NEW c \in Channels, pc[q] = "dispatch"
        PROVE  /\ status'[q][c] = "sent" => <<Current(q), c>> \in heard'
               /\ status'[q][c] = "skipped" => c \notin Configured
    <3>1. CASE q = r /\ c = ch
      <4>1. status'[q][c] = answer
        BY <1>1, <1>3, <3>1
      <4>2. QED
        BY <1>4, <3>1, <4>1 DEF new
    <3>2. CASE ~(q = r /\ c = ch)
      <4>1. status'[q][c] = status[q][c]
        BY <1>1, <1>3, <3>2
      <4>2. QED
        BY <1>4, <2>1, <4>1 DEF IInv, AnswerInv
    <3>3. QED
      BY <3>1, <3>2
  <2>2. \A q \in Replicas : Current(q)' = Current(q)
    BY <1>2 DEF Current
  <2>3. QED
    BY <1>2, <1>4, <2>1, <2>2 DEF IInv, AnswerInv
<1>12. QED
  BY <1>7, <1>8, <1>9, <1>10, <1>11

\* The dispatched alert is recorded with the answers.
LEMMA RecordStep ==
  ASSUME IInv, NEW r \in Replicas, Record(r)
  PROVE  RunInv' /\ MarkInv' /\ ApartInOneRun' /\ RecordInv' /\ AnswerInv'
<1> DEFINE new == [alert |-> Current(r), channels |-> status[r]]
<1>1. /\ pc[r] = "dispatch"
      /\ audit' = audit \cup {new}
      /\ pc' = [pc EXCEPT ![r] = "idle"]
      /\ UNCHANGED <<boots, started, last, subject, status, heard>>
      /\ pc \in [Replicas -> {"down", "idle", "dispatch"}]
  BY GateType DEF Record, gateVars, IInv
<1>2. new.alert = Current(r) /\ new.channels = status[r]
  OBVIOUS
<1> HIDE DEF new
<1>3. RunInv' /\ MarkInv' /\ ApartInOneRun'
  BY <1>1 DEF IInv, RunInv, MarkInv, OfThisRun, ApartInOneRun
<1>4. RecordInv'
  <2> SUFFICES ASSUME NEW q \in Replicas, NEW l \in Contracts,
                      pc'[q] # "down", last[q][l] # Never,
                      pc'[q] = "dispatch" => subject[q] # l
               PROVE  \E a \in audit' :
                        a.alert = [by |-> q, boot |-> boots[q], contract |-> l,
                                   at |-> last[q][l]]
    BY <1>1 DEF RecordInv
  <2>1. CASE q = r /\ l = subject[r]
    BY <1>1, <1>2, <2>1 DEF Current
  <2>2. CASE ~(q = r /\ l = subject[r])
    BY <1>1, <2>2 DEF IInv, RecordInv
  <2>3. QED
    BY <2>1, <2>2
<1>5. AnswerInv'
  <2>1. ASSUME NEW q \in Replicas, pc'[q] = "dispatch"
        PROVE  pc[q] = "dispatch"
    BY <1>1, <2>1
  <2>2. \A q \in Replicas : Current(q)' = Current(q)
    BY <1>1 DEF Current
  <2>3. ASSUME NEW ch \in Channels
        PROVE  /\ new.channels[ch] = "sent" => <<new.alert, ch>> \in heard
               /\ new.channels[ch] = "skipped" => ch \notin Configured
    BY <1>1, <1>2 DEF IInv, AnswerInv
  <2>4. QED
    BY <1>1, <2>1, <2>2, <2>3 DEF IInv, AnswerInv
<1>6. QED
  BY <1>3, <1>4, <1>5

-----------------------------------------------------------------------------
(* The theorems. *)

LEMMA InductiveInvariant == Spec => []IInv
<1>1. Init => IInv
  <2> SUFFICES ASSUME Init PROVE IInv
    OBVIOUS
  <2>1. RunInv /\ MarkInv /\ ApartInOneRun /\ RecordInv /\ AnswerInv
    BY DEF Init, RunInv, MarkInv, ApartInOneRun, RecordInv, AnswerInv
  <2>2. QED
    BY <2>1, TypeInit DEF IInv
<1>2. IInv /\ [Next]_vars => IInv'
  <2> SUFFICES ASSUME IInv, [Next]_vars PROVE IInv'
    OBVIOUS
  <2>1. TypeOK'
    BY TypeStep DEF IInv
  <2>2. RunInv' /\ MarkInv' /\ ApartInOneRun' /\ RecordInv' /\ AnswerInv'
    <3>1. CASE Tick \/ UNCHANGED vars
      <4>1. UNCHANGED <<gateVars, pc, subject, status, heard, audit>>
        BY <3>1 DEF Tick, vars
      <4>2. QED
        BY <4>1, StutterStep
    <3>2. CASE \E r \in Replicas : Start(r) \/ Stop(r) \/ Record(r)
      BY <3>2, StartStep, StopStep, RecordStep
    <3>3. CASE \E r \in Replicas, k \in Contracts : Ask(r, k)
      BY <3>3, AskStep
    <3>4. CASE \E r \in Replicas, ch \in Channels : Send(r, ch)
      BY <3>4, SendStep
    <3>5. QED
      BY <3>1, <3>2, <3>3, <3>4 DEF Next
  <2>3. QED
    BY <2>1, <2>2 DEF IInv
<1>3. QED
  BY <1>1, <1>2, PTL DEF Spec

\* Every variable keeps its type.
THEOREM GateTypeCorrect == Spec => []TypeOK
<1>1. IInv => TypeOK
  BY DEF IInv
<1>2. QED
  BY <1>1, InductiveInvariant, PTL

\* What one run of one replica sends about one contract is a cooldown apart, for
\* any cooldown, and however long a dispatch takes.
THEOREM AlertsAreApart == Spec => []ApartInOneRun
<1>1. IInv => ApartInOneRun
  BY DEF IInv
<1>2. QED
  BY <1>1, InductiveInvariant, PTL

\* No replica sends anything during its grace period.
THEOREM GraceIsQuiet == Spec => []QuietAfterStart
<1>1. IInv => QuietAfterStart
  <2> SUFFICES ASSUME IInv, NEW r \in Replicas, NEW h \in heard,
                      h[1].by = r, h[1].boot = boots[r]
               PROVE  h[1].at - started[r] >= Grace
    BY DEF QuietAfterStart
  <2>1. /\ OfThisRun(h[1], r, h[1].contract) /\ h[1].contract \in Contracts
        /\ h[1].at \in Nat
    BY HeardType DEF OfThisRun, IInv
  <2>2. h[1].at >= started[r] + Grace
    BY <2>1 DEF IInv, MarkInv
  <2>3. started[r] \in Nat /\ Grace \in Nat
    BY GateType, GateAssumption DEF IInv
  <2>4. QED
    BY <2>1, <2>2, <2>3
<1>2. QED
  BY <1>1, InductiveInvariant, PTL

\* Only a recorded alert closes the gate of a replica that waits for events.
THEOREM SilenceHasACause == Spec => []SilencedByAnAlert
<1>1. IInv => SilencedByAnAlert
  BY DEF IInv, RecordInv, SilencedByAnAlert
<1>2. QED
  BY <1>1, InductiveInvariant, PTL

\* The alert table tells what each channel did.
THEOREM TableIsTrue == Spec => []AuditIsTrue
<1>1. IInv => AuditIsTrue
  <2> SUFFICES ASSUME IInv, NEW a \in audit, NEW ch \in Channels
               PROVE  /\ a.channels[ch] = "sent" => <<a.alert, ch>> \in heard
                      /\ a.channels[ch] = "skipped" => <<a.alert, ch>> \notin heard
    BY DEF AuditIsTrue
  <2>1. \A h \in heard : h[2] \in Configured
    BY DEF IInv, RunInv
  <2>2. <<a.alert, ch>>[2] = ch
    OBVIOUS
  <2>3. QED
    BY <2>1, <2>2 DEF IInv, AnswerInv
<1>2. QED
  BY <1>1, InductiveInvariant, PTL
=============================================================================
