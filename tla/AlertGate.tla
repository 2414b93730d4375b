------------------------------ MODULE AlertGate ------------------------------
(***************************************************************************)
(* The alerts of the live pipeline (app/alerts/base.py): every replica of  *)
(* the consumer has an AlertGate of its own, in memory, and a dispatcher   *)
(* that fans a notification out to the channels and hands their answers to *)
(* _record_alert().  A replica handles one event at a time, so one         *)
(* dispatch at a time; the channels answer in any order.                   *)
(*                                                                         *)
(* Time is a number of ticks; the grace period and the cooldown are in     *)
(* ticks too.  Events whose scores qualify may come at any time, for any   *)
(* contract.  A channel that reports an error may have delivered the       *)
(* message all the same (the answer was lost).                             *)
(***************************************************************************)
EXTENDS Naturals

CONSTANTS
  Replicas,
  Contracts,
  Channels,
  Configured,   \* the channels with credentials
  Never,        \* no alert yet
  Grace,        \* alert_startup_grace_sec
  Cooldown,     \* alert_cooldown_min
  MaxTime,      \* bound: the clock
  MaxBoots      \* bound: starts of one replica

ASSUME GateAssumption ==
  /\ Configured \subseteq Channels
  /\ Never \notin Nat
  /\ Grace \in Nat
  /\ Cooldown \in Nat
  /\ MaxTime \in Nat
  /\ MaxBoots \in Nat

VARIABLES
  now,
  boots,      \* how often a replica was started
  started,    \* AlertGate._started
  last,       \* AlertGate._last
  pc,
  subject,    \* the contract of the event being dispatched
  status,     \* the answers of the channels so far
  heard,      \* what reached the user
  audit       \* the alert table

gateVars == <<boots, started, last>>
vars == <<now, gateVars, pc, subject, status, heard, audit>>

Answers == {"pending", "sent", "skipped", "error"}

Tick ==
  /\ now < MaxTime
  /\ now' = now + 1
  /\ UNCHANGED <<gateVars, pc, subject, status, heard, audit>>

\* A replica starts with an empty gate.
Start(r) ==
  /\ pc[r] = "down"
  /\ boots[r] < MaxBoots
  /\ boots' = [boots EXCEPT ![r] = @ + 1]
  /\ started' = [started EXCEPT ![r] = now]
  /\ last' = [last EXCEPT ![r] = [k \in Contracts |-> Never]]
  /\ pc' = [pc EXCEPT ![r] = "idle"]
  /\ UNCHANGED <<now, subject, status, heard, audit>>

\* It stops, perhaps in the middle of a dispatch.
Stop(r) ==
  /\ pc[r] # "down"
  /\ pc' = [pc EXCEPT ![r] = "down"]
  /\ UNCHANGED <<now, gateVars, subject, status, heard, audit>>

-----------------------------------------------------------------------------

Mutant_NoGrace(r) == FALSE
InGrace(r) == now - started[r] < Grace

Mutant_NoCooldown(r, k) == last[r][k] # Never /\ now = last[r][k]
Cooling(r, k) == last[r][k] # Never /\ now - last[r][k] < Cooldown

Allowed(r, k) == ~InGrace(r) /\ ~Cooling(r, k)

\* The gate notes the time of the alerts it lets through.
Mutant_MarkRefused(r, k) == IF InGrace(r) THEN last[r][k] ELSE now
MarkAfter(r, k) == IF Allowed(r, k) THEN now ELSE last[r][k]

\* allow() for a qualifying event of contract k; an allowed one is dispatched.
Ask(r, k) ==
  /\ pc[r] = "idle"
  /\ last' = [last EXCEPT ![r][k] = MarkAfter(r, k)]
  /\ IF Allowed(r, k)
     THEN /\ pc' = [pc EXCEPT ![r] = "dispatch"]
          /\ subject' = [subject EXCEPT ![r] = k]
          /\ status' = [status EXCEPT ![r] = [ch \in Channels |-> "pending"]]
     ELSE UNCHANGED <<pc, subject, status>>
  /\ UNCHANGED <<now, boots, started, heard, audit>>

\* The alert a replica is busy with.
Current(r) ==
  [by |-> r, boot |-> boots[r], contract |-> subject[r], at |-> last[r][subject[r]]]

\* What dispatch() notes for an answer: an exception is "error".
Mutant_ErrorNotSeen(answer) == IF answer = "error" THEN "sent" ELSE answer
StatusOf(answer) == answer

\* One channel answers: gather() waits for all, in any order.
Send(r, ch) ==
  /\ pc[r] = "dispatch"
  /\ status[r][ch] = "pending"
  /\ \E answer \in IF ch \in Configured THEN {"sent", "error"} ELSE {"skipped"},
        arrives \in BOOLEAN :
       /\ answer = "sent" => arrives
       /\ answer = "skipped" => ~arrives
       /\ status' = [status EXCEPT ![r][ch] = StatusOf(answer)]
       /\ heard' = IF arrives THEN heard \cup {<<Current(r), ch>>} ELSE heard
  /\ UNCHANGED <<now, gateVars, pc, subject, audit>>

\* All have answered: _record_alert() stores the alert with their answers.
Record(r) ==
  /\ pc[r] = "dispatch"
  /\ \A ch \in Channels : status[r][ch] # "pending"
  /\ audit' = audit \cup {[alert |-> Current(r), channels |-> status[r]]}
  /\ pc' = [pc EXCEPT ![r] = "idle"]
  /\ UNCHANGED <<now, gateVars, subject, status, heard>>

Init ==
  /\ now = 0
  /\ boots = [r \in Replicas |-> 0]
  /\ started = [r \in Replicas |-> 0]
  /\ last = [r \in Replicas |-> [k \in Contracts |-> Never]]
  /\ pc = [r \in Replicas |-> "down"]
  /\ subject \in [Replicas -> Contracts]
  /\ status = [r \in Replicas |-> [ch \in Channels |-> "pending"]]
  /\ heard = {}
  /\ audit = {}

Next ==
  \/ Tick
  \/ \E r \in Replicas :
       \/ Start(r)
       \/ Stop(r)
       \/ \E k \in Contracts : Ask(r, k)
       \/ \E ch \in Channels : Send(r, ch)
       \/ Record(r)

Spec == Init /\ [][Next]_vars

-----------------------------------------------------------------------------
(* Properties. *)

Alerts == [by : Replicas, boot : 1..MaxBoots, contract : Contracts, at : 0..MaxTime]

\* Every variable has its type.
TypeOK ==
  /\ now \in 0..MaxTime
  /\ boots \in [Replicas -> 0..MaxBoots]
  /\ started \in [Replicas -> 0..now]
  /\ last \in [Replicas -> [Contracts -> 0..now \cup {Never}]]
  /\ pc \in [Replicas -> {"down", "idle", "dispatch"}]
  /\ subject \in [Replicas -> Contracts]
  /\ status \in [Replicas -> [Channels -> Answers]]
  /\ heard \subseteq Alerts \X Channels
  /\ audit \subseteq [alert : Alerts, channels : [Channels -> Answers]]

\* What one run of one replica sends about one contract is at least a cooldown
\* apart ("a single busy contract can't alert repeatedly", base.py).
ApartInOneRun ==
  \A h, g \in heard :
    (h[1].by = g[1].by /\ h[1].boot = g[1].boot /\ h[1].contract = g[1].contract
       /\ h[1].at < g[1].at) => g[1].at - h[1].at >= Cooldown

\* A replica keeps quiet during its grace period, also when it is restarted
\* ("on boot ... suppress alerts during the grace window", base.py).
QuietAfterStart ==
  \A r \in Replicas, h \in heard :
    (h[1].by = r /\ h[1].boot = boots[r]) => h[1].at - started[r] >= Grace

\* The gate is closed for a contract only because of an alert that was recorded:
\* refused events do not prolong the silence.
SilencedByAnAlert ==
  \A r \in Replicas, k \in Contracts :
    (pc[r] = "idle" /\ last[r][k] # Never) =>
      \E a \in audit :
        a.alert = [by |-> r, boot |-> boots[r], contract |-> k, at |-> last[r][k]]

\* The alert table tells the truth about the channels: "sent" was delivered,
\* "skipped" was not (dispatch() pairs each answer with its channel).
AuditIsTrue ==
  \A a \in audit, ch \in Channels :
    /\ a.channels[ch] = "sent" => <<a.alert, ch>> \in heard
    /\ a.channels[ch] = "skipped" => <<a.alert, ch>> \notin heard

-----------------------------------------------------------------------------
(* The inductive invariants behind the properties (the proofs are in         *)
(* AlertGate_proofs).                                                        *)

\* An alert of the current run of replica r about contract k.
OfThisRun(h, r, k) == h.by = r /\ h.boot = boots[r] /\ h.contract = k

\* A replica that runs was started.  What was heard is of a run that began, in
\* the past, and went out over a channel with credentials; the alert being
\* dispatched has its mark.
RunInv ==
  /\ \A r \in Replicas :
       /\ pc[r] # "down" => boots[r] > 0
       /\ pc[r] = "dispatch" => last[r][subject[r]] # Never
  /\ \A h \in heard :
       /\ h[1].boot <= boots[h[1].by]
       /\ h[2] \in Configured

\* Marks are set, and messages sent, after the grace period.  A mark is not older
\* than what was heard in the same run about the same contract; and what is older
\* than the mark is older by a cooldown.
MarkInv ==
  \A r \in Replicas, k \in Contracts :
    /\ last[r][k] # Never => last[r][k] >= started[r] + Grace
    /\ \A h \in heard : OfThisRun(h[1], r, k) =>
         /\ last[r][k] # Never
         /\ h[1].at = last[r][k] \/ last[r][k] >= h[1].at + Cooldown
         /\ h[1].at <= last[r][k]
         /\ h[1].at >= started[r] + Grace

\* A mark is that of a recorded alert, or of the one being dispatched.
RecordInv ==
  \A r \in Replicas, k \in Contracts :
    (/\ pc[r] # "down" /\ last[r][k] # Never
     /\ pc[r] = "dispatch" => subject[r] # k) =>
      \E a \in audit :
        a.alert = [by |-> r, boot |-> boots[r], contract |-> k, at |-> last[r][k]]

\* The answers so far are true of the alert being dispatched.
AnswerInv ==
  /\ \A r \in Replicas, ch \in Channels : pc[r] = "dispatch" =>
       /\ status[r][ch] = "sent" => <<Current(r), ch>> \in heard
       /\ status[r][ch] = "skipped" => ch \notin Configured
  /\ \A a \in audit, ch \in Channels :
       /\ a.channels[ch] = "sent" => <<a.alert, ch>> \in heard
       /\ a.channels[ch] = "skipped" => ch \notin Configured

IInv ==
  /\ TypeOK
  /\ RunInv
  /\ MarkInv
  /\ ApartInOneRun
  /\ RecordInv
  /\ AnswerInv
=============================================================================
