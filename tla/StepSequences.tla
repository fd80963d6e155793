---------------------------- MODULE StepSequences ----------------------------
(***************************************************************************)
(* Step sequences (packages/core/src/usecases/step-sequences.ts): users    *)
(* enrolled in a sequence of messages receive them one after the other,    *)
(* each some delay after the one before.                                   *)
(*                                                                         *)
(* Dispatchers are callers of processDueStepSequenceEnrollments (the       *)
(* polling tick, the cron process, POST /step-sequences/process), Clients  *)
(* are the other API requests.  One step is one SQL statement or one event *)
(* of a platform call; as in PostScheduler, the actors of one process      *)
(* interleave only while a call is pending.  One sequence is modelled.     *)
(* What other sequences share with it is the limits of an account, counted *)
(* here like those of the sequence, and the batches of findActiveDue, in   *)
(* which their due rows take up to OthersDue places.                       *)
(*                                                                         *)
(* An instant is its distance from now.  A tick reads the clock once, so   *)
(* time is taken to stand still while a batch is processed.                *)
(***************************************************************************)
EXTENDS Integers, Sequences, FiniteSets

CONSTANTS Enrollments, Dispatchers, Clients,
          HostOf,        \* the OS process each actor runs in
          Ops,           \* the API operations that are offered
          MessageLists,  \* the message lists of requests: sequences of delays
          MaxSteps,      \* the longest of them
          Jitter,        \* seconds of jitter in time units
          BackoffTime,   \* backoffSeconds in time units
          Limit, Window, \* at most Limit deliveries per Window time units
          BatchSize,     \* limit of findActiveDue
          OthersDue,     \* bound on the due rows of other sequences
          MaxFailures,   \* bound on calls that fail or lose their answer
          MaxCrashes,    \* bound on process crashes
          None

Actors == Dispatchers \cup Clients
Hosts  == {HostOf[a] : a \in Actors}
Steps  == 0..(MaxSteps - 1)

ASSUME StepActorsAssumption ==
    /\ Dispatchers \cap Clients = {}
    /\ IsFiniteSet(Dispatchers)
    /\ None \notin Enrollments

ASSUME StepBoundsAssumption ==
    /\ MessageLists \subseteq Seq(Nat)
    /\ \A list \in MessageLists : list # <<>> /\ Len(list) <= MaxSteps
    /\ MaxSteps \in Nat
    /\ Jitter \in Nat /\ BackoffTime \in Nat
    /\ Limit \in Nat /\ Window \in Nat /\ BatchSize \in Nat /\ OthersDue \in Nat
    /\ MaxFailures \in Nat /\ MaxCrashes \in Nat

\* The rows of a paused sequence stay due.  Enough of them fill every batch, and
\* then nothing is promised to the enrollments of this one.
ASSUME PlacesAssumption == OthersDue < BatchSize

VARIABLES seq,        \* the step_sequences row with its step_messages
          enr,        \* the step_enrollments row of each enrollment
          sent,       \* sent[e][i]: how often the platform accepted step i
          unrecorded, \* how many of those acceptances no one recorded
          pc, loc,    \* where each actor is, and its local variables
          failures, crashes

vars == <<seq, enr, sent, unrecorded, pc, loc, failures, crashes>>
accepted == <<sent, unrecorded>>
bounds   == <<failures, crashes>>

-----------------------------------------------------------------------------
NoRow == [status |-> "absent", step |-> 0, dueIn |-> 0, ago |-> Window]

Rows == [status : {"absent", "active", "cancelled", "completed", "deleted"},
         step : Nat,           \* currentStepIndex, from 0
         dueIn : Int,          \* nextStepAt
         ago : 0..Window]      \* lastDeliveredAt; Window when longer ago

\* The messages of the sequence: none between the statements that replace them.
Lists == MessageLists \cup {<<>>}

SequenceRows == [status : {"absent", "active", "paused", "deleted"},
                 backoffIn : Nat,       \* deliveryBackoffUntil
                 messages : Lists]

NoLocals == [batch |-> {}, rows |-> [e \in Enrollments |-> NoRow],
             cur |-> None, list |-> <<>>]

Locals == [batch : SUBSET Enrollments,
           rows : [Enrollments -> Rows],    \* the batch as Scan read it
           cur : Enrollments \cup {None},
           list : Lists]                 \* the messages as read, or to insert

Yielding == {"idle", "sending", "accepted"}
Handling == {"count", "messages", "complete", "sending", "accepted", "advance",
             "backOff"}
PCs == Handling \cup {"idle", "batch", "insertMessages", "deleteMessages",
                      "deleteSequence"}

TypeOK ==
    /\ seq \in SequenceRows
    /\ enr \in [Enrollments -> Rows]
    /\ sent \in [Enrollments -> [Steps -> Nat]]
    /\ unrecorded \in [Enrollments -> Nat]
    /\ pc \in [Actors -> PCs]
    /\ loc \in [Actors -> Locals]
    /\ failures \in Nat /\ crashes \in Nat

Init ==
    /\ seq = [status |-> "absent", backoffIn |-> 0, messages |-> <<>>]
    /\ enr = [e \in Enrollments |-> NoRow]
    /\ sent = [e \in Enrollments |-> [i \in Steps |-> 0]]
    /\ unrecorded = [e \in Enrollments |-> 0]
    /\ pc = [a \in Actors |-> "idle"]
    /\ loc = [a \in Actors |-> NoLocals]
    /\ failures = 0 /\ crashes = 0

-----------------------------------------------------------------------------
\* Actor a runs its next statement: alone in its process until it yields.
Turn(a, l) ==
    /\ pc[a] = l
    /\ \A b \in Actors \ {a} : HostOf[b] = HostOf[a] => pc[b] \in Yielding

Goto(a, l)      == pc' = [pc EXCEPT ![a] = l]
SetLocals(a, r) == loc' = [loc EXCEPT ![a] = r]
SetRow(e, r)    == enr' = [enr EXCEPT ![e] = r]

\* The request is answered, or the tick ends with an exception.
Finish(a) == Goto(a, "idle") /\ SetLocals(a, NoLocals)

\* The loop goes on with the rest of the batch.
Continue(d, batch) ==
    IF batch = {} THEN Finish(d)
    ELSE Goto(d, "batch") /\ SetLocals(d, [loc[d] EXCEPT !.batch = batch,
                                                        !.cur = None, !.list = <<>>])

Row(d) == loc[d].rows[loc[d].cur]

-----------------------------------------------------------------------------
(* processDueStepSequenceEnrollments. *)

DueFirstStep(e) ==
    enr[e].status = "active" /\ enr[e].dueIn <= 0 /\ enr[e].step = 0

Due(e) == enr[e].status = "active" /\ enr[e].dueIn <= 0

\* findActiveDue has no ORDER BY: any BatchSize of the due rows of all sequences.
Scan(d) ==
    /\ Turn(d, "idle")
    /\ \E batch \in SUBSET {e \in Enrollments : Due(e)} :
         /\ batch # {} /\ Cardinality(batch) <= BatchSize
         /\ \/ Cardinality(batch) + OthersDue >= BatchSize
            \/ batch = {e \in Enrollments : Due(e)}
         /\ SetLocals(d, [NoLocals EXCEPT !.batch = batch,
              !.rows = [e \in Enrollments |-> IF e \in batch THEN enr[e] ELSE NoRow]])
    /\ Goto(d, "batch")
    /\ UNCHANGED <<seq, enr, accepted, bounds>>

OpenDuringBackoff(d, e) ==
    /\ seq.status = "active"
    /\ loc[d].rows[e].dueIn <= -Jitter

\* Active, no backoff, and the jitter after nextStepAt is over.
Open(d, e) ==
    /\ seq.status = "active" /\ seq.backoffIn = 0
    /\ loc[d].rows[e].dueIn <= -Jitter

LoadSequence(d) ==
    /\ Turn(d, "batch")
    /\ \E e \in loc[d].batch :
         \/ /\ Open(d, e)
            /\ Goto(d, "count")
            /\ SetLocals(d, [loc[d] EXCEPT !.batch = @ \ {e}, !.cur = e])
         \/ ~Open(d, e) /\ Continue(d, loc[d].batch \ {e})
    /\ UNCHANGED <<seq, enr, accepted, bounds>>

Recent == {e \in Enrollments : enr[e].ago < Window /\ enr[e].status # "deleted"}

RateLimitedPast == Cardinality(Recent) > Limit

RateLimited == Cardinality(Recent) >= Limit

CountDeliveries(d) ==
    /\ Turn(d, "count")
    /\ \/ RateLimited /\ Continue(d, loc[d].batch)
       \/ ~RateLimited /\ Goto(d, "messages") /\ UNCHANGED loc
    /\ UNCHANGED <<seq, enr, accepted, bounds>>

\* Step i of a list is its element i + 1.
HasStep(list, i) == i + 1 \in DOMAIN list

LoadMessages(d) ==
    /\ Turn(d, "messages")
    /\ \/ /\ HasStep(seq.messages, Row(d).step)
          /\ Goto(d, "sending")
          /\ SetLocals(d, [loc[d] EXCEPT !.list = seq.messages])
       \/ /\ ~HasStep(seq.messages, Row(d).step)
          /\ Goto(d, "complete") /\ UNCHANGED loc
    /\ UNCHANGED <<seq, enr, accepted, bounds>>

\* The account is inactive (go on), or gone or unreadable (throw).
AccountFails(d) ==
    /\ Turn(d, "messages")
    /\ HasStep(seq.messages, Row(d).step)
    /\ failures < MaxFailures /\ failures' = failures + 1
    /\ Continue(d, loc[d].batch) \/ Finish(d)
    /\ UNCHANGED <<seq, enr, accepted, crashes>>

\* An UPDATE of a deleted row is followed by an exception.
Gone(e) == enr[e].status = "deleted"

Complete(d) ==
    /\ Turn(d, "complete")
    /\ \/ Gone(loc[d].cur) /\ Finish(d) /\ UNCHANGED enr
       \/ /\ ~Gone(loc[d].cur)
          /\ SetRow(loc[d].cur, [enr[loc[d].cur] EXCEPT !.status = "completed"])
          /\ Continue(d, loc[d].batch)
    /\ UNCHANGED <<seq, accepted, bounds>>

\* The platform's side of sendReply.
Accept(d) ==
    /\ pc[d] = "sending"
    /\ sent' = [sent EXCEPT ![loc[d].cur][Row(d).step] = @ + 1]
    /\ Goto(d, "accepted")
    /\ UNCHANGED <<seq, enr, unrecorded, loc, bounds>>

Reply(d) ==
    /\ Turn(d, "accepted")
    /\ Goto(d, "advance")
    /\ UNCHANGED <<seq, enr, accepted, loc, bounds>>

\* The step is out, the caller sees an exception.
LoseReply(d) ==
    /\ Turn(d, "accepted")
    /\ failures < MaxFailures /\ failures' = failures + 1
    /\ unrecorded' = [unrecorded EXCEPT ![loc[d].cur] = @ + 1]
    /\ Finish(d)
    /\ UNCHANGED <<seq, enr, sent, crashes>>

\* Refused for a rate limit, or refused otherwise (throw).
Refuse(d) ==
    /\ Turn(d, "sending")
    /\ failures < MaxFailures /\ failures' = failures + 1
    /\ (Goto(d, "backOff") /\ UNCHANGED loc) \/ Finish(d)
    /\ UNCHANGED <<seq, enr, accepted, crashes>>

BackOff(d) ==
    /\ Turn(d, "backOff")
    /\ \/ seq.status = "deleted" /\ Finish(d) /\ UNCHANGED seq
       \/ /\ seq.status # "deleted"
          /\ seq' = [seq EXCEPT !.backoffIn = BackoffTime]
          /\ Continue(d, loc[d].batch)
    /\ UNCHANGED <<enr, accepted, bounds>>

AdvancedBySkipping(d) ==
    [enr[loc[d].cur] EXCEPT
       !.step = Row(d).step + 2, !.ago = 0,
       !.status = IF HasStep(loc[d].list, Row(d).step + 2) THEN @ ELSE "completed",
       !.dueIn = 0]

AdvancedInPlace(d) ==
    [enr[loc[d].cur] EXCEPT !.ago = 0, !.dueIn = loc[d].list[Row(d).step + 1]]

AdvancedNeverDue(d) ==
    [enr[loc[d].cur] EXCEPT !.step = Row(d).step + 1, !.ago = 0, !.dueIn = None]

\* From the row and the messages as they were read before the call; the
\* status is only written at the last step.
Advanced(d) ==
    LET i    == Row(d).step + 1
        last == ~HasStep(loc[d].list, i) IN
    [enr[loc[d].cur] EXCEPT
       !.step = i, !.ago = 0,
       !.status = IF last THEN "completed" ELSE @,
       !.dueIn = IF last THEN 0 ELSE loc[d].list[i + 1]]

Advance(d) ==
    /\ Turn(d, "advance")
    /\ \/ Gone(loc[d].cur) /\ Finish(d) /\ UNCHANGED enr
       \/ /\ ~Gone(loc[d].cur)
          /\ SetRow(loc[d].cur, Advanced(d))
          /\ Continue(d, loc[d].batch)
    /\ UNCHANGED <<seq, accepted, bounds>>

-----------------------------------------------------------------------------
(* API requests.  All of them run in one process, where nothing comes between *)
(* their reads and their first write.                                        *)

Offered(c, op) ==
    op \in Ops /\ Turn(c, "idle") /\ seq.status \in {"active", "paused"}

\* The messages of a new sequence are inserted as those of a replacement are.
CreateSequence(c) ==
    /\ Turn(c, "idle") /\ seq.status = "absent"
    /\ \E status \in {"active", "paused"} : seq' = [seq EXCEPT !.status = status]
    /\ \E list \in MessageLists : SetLocals(c, [NoLocals EXCEPT !.list = list])
    /\ Goto(c, "insertMessages")
    /\ UNCHANGED <<enr, accepted, bounds>>

EnrollFromOne(c) ==
    /\ Offered(c, "enroll")
    /\ seq.status = "active" /\ seq.messages # <<>>
    /\ \E e \in Enrollments :
         /\ enr[e].status = "absent"
         /\ SetRow(e, [NoRow EXCEPT !.status = "active", !.step = 1,
                                   !.dueIn = seq.messages[1]])
    /\ UNCHANGED <<seq, accepted, pc, loc, bounds>>

Enroll(c) ==
    /\ Offered(c, "enroll")
    /\ seq.status = "active" /\ seq.messages # <<>>
    /\ \E e \in Enrollments :
         /\ enr[e].status = "absent"
         /\ SetRow(e, [NoRow EXCEPT !.status = "active", !.dueIn = seq.messages[1]])
    /\ UNCHANGED <<seq, accepted, pc, loc, bounds>>

\* updateStepEnrollment checks that the row exists, not what it says.
UpdateEnrollment(c) ==
    /\ Offered(c, "cancel")
    /\ \E e \in Enrollments, status \in {"cancelled", "completed"} :
         /\ enr[e].status \notin {"absent", "deleted"}
         /\ SetRow(e, [enr[e] EXCEPT !.status = status])
    /\ UNCHANGED <<seq, accepted, pc, loc, bounds>>

SetStatus(c) ==
    /\ Offered(c, "pause")
    /\ \E status \in {"active", "paused"} : seq' = [seq EXCEPT !.status = status]
    /\ UNCHANGED <<enr, accepted, pc, loc, bounds>>

\* replaceForSequence deletes the messages and then inserts the new ones.
ReplaceMessages(c) ==
    /\ Offered(c, "replace")
    /\ \E list \in MessageLists : SetLocals(c, [NoLocals EXCEPT !.list = list])
    /\ seq' = [seq EXCEPT !.messages = <<>>]
    /\ Goto(c, "insertMessages")
    /\ UNCHANGED <<enr, accepted, bounds>>

InsertMessages(c) ==
    /\ Turn(c, "insertMessages")
    /\ seq' = [seq EXCEPT !.messages = loc[c].list]
    /\ Finish(c)
    /\ UNCHANGED <<enr, accepted, bounds>>

DeleteEnrollments(c) ==
    /\ Offered(c, "delete")
    /\ enr' = [e \in Enrollments |-> IF enr[e].status = "absent" THEN enr[e]
                                     ELSE [enr[e] EXCEPT !.status = "deleted"]]
    /\ Goto(c, "deleteMessages")
    /\ UNCHANGED <<seq, accepted, loc, bounds>>

DeleteMessages(c) ==
    /\ Turn(c, "deleteMessages")
    /\ seq' = [seq EXCEPT !.messages = <<>>]
    /\ Goto(c, "deleteSequence")
    /\ UNCHANGED <<enr, accepted, loc, bounds>>

DeleteSequence(c) ==
    /\ Turn(c, "deleteSequence")
    /\ seq' = [seq EXCEPT !.status = "deleted"]
    /\ Finish(c)
    /\ UNCHANGED <<enr, accepted, bounds>>

-----------------------------------------------------------------------------
(* Time and crashes. *)

Less(n, floor) == IF n > floor THEN n - 1 ELSE n

Tick ==
    /\ \A d \in Dispatchers : pc[d] = "idle"
    /\ seq' = [seq EXCEPT !.backoffIn = Less(@, 0)]
    /\ enr' = [e \in Enrollments |->
                 [enr[e] EXCEPT !.dueIn = Less(@, -Jitter),
                                !.ago = IF @ < Window THEN @ + 1 ELSE @]]
    /\ UNCHANGED <<accepted, pc, loc, bounds>>

Crash(h) ==
    /\ crashes < MaxCrashes /\ crashes' = crashes + 1
    /\ pc' = [a \in Actors |-> IF HostOf[a] = h THEN "idle" ELSE pc[a]]
    /\ loc' = [a \in Actors |-> IF HostOf[a] = h THEN NoLocals ELSE loc[a]]
    /\ unrecorded' = [e \in Enrollments |-> unrecorded[e] +
         Cardinality({d \in Dispatchers : /\ HostOf[d] = h /\ loc[d].cur = e
                                          /\ pc[d] \in {"accepted", "advance"}})]
    /\ UNCHANGED <<seq, enr, sent, failures>>

-----------------------------------------------------------------------------
Handle(d) ==
    \/ LoadSequence(d) \/ CountDeliveries(d) \/ LoadMessages(d) \/ Complete(d)
    \/ AccountFails(d) \/ BackOff(d) \/ Advance(d)

ProviderStep(d) == Accept(d) \/ Reply(d) \/ LoseReply(d) \/ Refuse(d)

RequestStep(c) ==
    \/ CreateSequence(c) \/ Enroll(c) \/ UpdateEnrollment(c) \/ SetStatus(c)
    \/ ReplaceMessages(c) \/ InsertMessages(c)
    \/ DeleteEnrollments(c) \/ DeleteMessages(c) \/ DeleteSequence(c)

Next ==
    \/ \E d \in Dispatchers : Scan(d) \/ Handle(d) \/ ProviderStep(d)
    \/ \E c \in Clients : RequestStep(c)
    \/ Tick
    \/ \E h \in Hosts : Crash(h)

Spec == Init /\ [][Next]_vars

\* The poller goes on after every tick (worker/scheduler.ts:232), calls are
\* answered and, however often it polls, time passes between two ticks.
Fairness ==
    /\ \A d \in Dispatchers : WF_vars(Scan(d) \/ Handle(d)) /\ WF_vars(ProviderStep(d))
    /\ SF_vars(Tick)

FairSpec == Spec /\ Fairness

-----------------------------------------------------------------------------
(* Properties. *)

\* Steps reach a user in order and none is left out, whatever dispatchers,
\* replaced messages, lost answers and crashes do.
InOrder ==
    \A e \in Enrollments : \A i, j \in Steps :
       i < j /\ sent[e][j] > 0 => sent[e][i] > 0

\* A step is sent once, plus once for every acceptance nobody recorded.
SentOnce ==
    \A e \in Enrollments, i \in Steps : sent[e][i] <= 1 + unrecorded[e]

\* A dispatcher that completes an enrollment after its last step has sent it
\* every step of the messages it read.
CompletedIsSent ==
    [][\A d \in Dispatchers :
          LET e == loc[d].cur IN
          /\ pc[d] = "advance" /\ pc'[d] # "advance"
          /\ enr[e].status # "completed" /\ enr'[e].status = "completed"
          => \A i \in Steps : HasStep(loc[d].list, i) => sent[e][i] > 0]_vars

\* The users whose delivery is out and about to be recorded.
Delivering ==
    {loc[d].cur : d \in {b \in Dispatchers : pc[b] \in {"accepted", "advance"}}}

\* The deliveries that are recorded within Window and those about to be are no
\* more than Limit, though a batch is read before its first delivery is recorded.
\* A delivery whose record was lost (unrecorded) or deleted with its enrollment is
\* not counted, by the code or here: with those, more users are written to.
LimitKept == Cardinality(Recent \cup Delivering) <= Limit

\* After the platform asked for a pause, nothing is sent until it is over.
BackoffKept ==
    [][\A d \in Dispatchers : pc[d] # "sending" /\ pc'[d] = "sending" =>
                                seq.backoffIn = 0]_vars

\* Every enrollment ends while its sequence is not paused, whichever due rows a
\* batch takes, if only finitely many calls fail and the due rows of the other
\* sequences, paused ones included, never fill a batch (PlacesAssumption).
EnrollmentsEnd ==
    \A e \in Enrollments : enr[e].status = "active" ~>
                             enr[e].status # "active" \/ seq.status # "active"

\* test "does not send cancelled or completed enrollments"
\* (step-sequences.test.ts:375): no call starts for such an enrollment.
ClosedNotSent ==
    [][\A d \in Dispatchers : pc[d] # "sending" /\ pc'[d] = "sending" =>
                                enr[loc[d].cur].status = "active"]_vars
=============================================================================
