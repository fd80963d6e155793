------------------------- MODULE PostSchedulerProofs -------------------------
(***************************************************************************)
(* TLAPS proofs about PostScheduler, for every number of posts, jobs,      *)
(* dispatchers, requests, processes, crashes and lost replies.             *)
(***************************************************************************)
EXTENDS PostScheduler, FiniteSetTheorems, TLAPS

-----------------------------------------------------------------------------
(* Type correctness.  An actor's locals are typed by the statement it is at: *)
(* a dispatcher in executeJob has a job and has counted its try, a request   *)
(* that works on a job has one.                                              *)

LocalsAt(a, l, r) ==
    /\ a \in Workers => /\ l \in {"idle", "batch"} \cup Executing
                        /\ l \in Executing => r.cur \in Jobs /\ r.attempt >= 1
    /\ a \in Clients => /\ l \notin (Executing \ Publishing) \cup {"batch"}
                        /\ l \in {"reschedule", "cancelRead", "cancelDraft", "cancelJob"}
                             => r.cur \in Jobs

LocalsOK == \A a \in Actors : LocalsAt(a, pc[a], loc[a])

\* TypeOK but for the statements: a module that adds requests to this one adds
\* statements, and these proofs hold there too.
Typed ==
    /\ post \in [Posts -> PostStatus]
    /\ job \in [Jobs -> Rows]
    /\ platform \in [Posts -> Nat]
    /\ lost \in [Posts -> Nat]
    /\ pc = [a \in Actors |-> pc[a]]
    /\ loc \in [Actors -> Locals]
    /\ crashes \in Nat

TypeInv == Typed /\ LocalsOK

\* A step leads to statements of this module only.
StaysIn == \A S : pc \in [Actors -> PCs \cup S] => pc' \in [Actors -> PCs \cup S]

\* Actor a goes to statement l with locals r.
Moves(a, l, r) ==
    /\ pc' = [pc EXCEPT ![a] = l]
    /\ loc' = [loc EXCEPT ![a] = r]
    /\ LocalsAt(a, l, r)

LEMMA BackoffType ==
    ASSUME NEW n \in Nat, n >= 1
    PROVE  BackoffFor(n) \in Nat
<1>1. Len(Backoff) \in Nat BY BoundsAssumption
<1>2. (IF n < Len(Backoff) THEN n ELSE Len(Backoff)) \in 1..Len(Backoff)
  BY <1>1, BoundsAssumption
<1> QED BY <1>2, BoundsAssumption DEF BackoffFor

LEMMA NoRowType == NoRow \in Rows
  BY BoundsAssumption DEF NoRow, Rows, JobStatus, Live, Waiting, LastErrors

LEMMA NoLocalsType == NoLocals \in Locals
  BY BoundsAssumption DEF NoLocals, Locals, ErrClasses

LEMMA InitTypeInv == Init => TypeInv
<1> SUFFICES ASSUME Init PROVE TypeInv OBVIOUS
<1> USE DEF Init
<1>1. Typed
  BY NoRowType, NoLocalsType DEF Typed, PostStatus
<1>2. LocalsOK
  BY DEF LocalsOK, LocalsAt, Executing, Publishing, Actors
<1> QED BY <1>1, <1>2 DEF TypeInv

LEMMA MoveTypes ==
    ASSUME TypeInv, NEW a \in Actors, NEW l, NEW r \in Locals, Moves(a, l, r)
    PROVE  /\ pc' = [b \in Actors |-> pc'[b]]
           /\ l \in PCs => StaysIn
           /\ loc' \in [Actors -> Locals]
           /\ LocalsOK'
<1>1. pc' = [b \in Actors |-> pc'[b]] /\ loc' \in [Actors -> Locals]
  BY DEF TypeInv, Typed, Moves
<1>3. l \in PCs => StaysIn
  BY DEF Moves, StaysIn
<1>2. ASSUME NEW b \in Actors PROVE LocalsAt(b, pc'[b], loc'[b])
  <2>1. CASE b = a BY <2>1 DEF TypeInv, Typed, Moves
  <2>2. CASE b # a BY <2>2 DEF TypeInv, Typed, LocalsOK, Moves
  <2> QED BY <2>1, <2>2
<1> QED BY <1>1, <1>2, <1>3 DEF LocalsOK

LEMMA NextCandidateMoves ==
    ASSUME TypeInv, NEW w \in Workers, NextCandidate(w)
    PROVE  \E l \in PCs, r \in Locals : Moves(w, l, r)
<1> DEFINE l == IF loc[w].cand = {} THEN "idle" ELSE "batch"
           r == [NoLocals EXCEPT !.cand = loc[w].cand]
<1>1. w \in Actors /\ w \notin Clients BY ActorsAssumption DEF Actors
<1>2. l \in PCs BY DEF PCs
<1>3. r \in Locals
  BY <1>1, NoLocalsType DEF TypeInv, Typed, Locals
<1>4. LocalsAt(w, l, r)
  BY <1>1 DEF LocalsAt, Executing, Publishing
<1>5. Moves(w, l, r)
  BY <1>4 DEF Moves, NextCandidate, Goto, SetLocals
<1> QED BY <1>2, <1>3, <1>5

\* Every statement of a dispatcher moves it to a well-typed place.
LEMMA WorkerMoves ==
    ASSUME TypeInv, NEW w \in Workers, WorkerStep(w)
    PROVE  \E l \in PCs, r \in Locals : Moves(w, l, r)
<1> w \in Actors /\ loc[w] \in Locals /\ LocalsAt(w, pc[w], loc[w])
     /\ pc = [b \in Actors |-> pc[b]] /\ loc \in [Actors -> Locals] /\ job \in [Jobs -> Rows]
  BY DEF TypeInv, Typed, LocalsOK, Actors
<1> w \notin Clients BY ActorsAssumption
<1> USE NoLocalsType DEF Turn, Goto, SetLocals, Moves, LocalsAt, Executing, Publishing, Locals, PCs
<1>1. ASSUME Scan(w) PROVE \E l \in PCs, r \in Locals : Moves(w, l, r)
  BY <1>1 DEF Scan
<1>2. ASSUME Lock(w) PROVE \E l \in PCs, r \in Locals : Moves(w, l, r)
  <2>1. PICK j \in loc[w].cand :
           SetLocals(w, [loc[w] EXCEPT !.cand = @ \ {j}, !.cur = j, !.tgt = job[j].post,
                                       !.attempt = job[j].attemptCount + 1])
    BY <1>2 DEF Lock
  <2> DEFINE r == [loc[w] EXCEPT !.cand = @ \ {j}, !.cur = j, !.tgt = job[j].post,
                                 !.attempt = job[j].attemptCount + 1]
  <2>2. j \in Jobs /\ job[j].post \in Posts \cup {None} /\ job[j].attemptCount \in Nat
    BY DEF Rows
  <2>a. j \in Jobs /\ job[j].post \in Posts \cup {None} /\ job[j].attemptCount + 1 \in Nat
    BY <2>2
  <2>3. r \in Locals
    BY ONLY <2>a, loc[w] \in Locals DEF Locals
  <2>4. r.cur = j /\ r.attempt >= 1 BY <2>2
  <2>5. Moves(w, "markRunning", r)
    BY <1>2, <2>1, <2>2, <2>4 DEF Lock
  <2> QED BY <2>3, <2>5
<1>3. ASSUME Skip(w) PROVE \E l \in PCs, r \in Locals : Moves(w, l, r)
  BY <1>3 DEF Skip
<1>4. ASSUME MarkRunning(w) PROVE \E l \in PCs, r \in Locals : Moves(w, l, r)
  BY <1>4 DEF MarkRunning
<1>5. ASSUME LoadPost(w) PROVE \E l \in PCs, r \in Locals : Moves(w, l, r)
  BY <1>5 DEF LoadPost
<1>6. ASSUME ResetPost(w) PROVE \E l \in PCs, r \in Locals : Moves(w, l, r)
  BY <1>6 DEF ResetPost
<1>7. ASSUME SucceedJob(w) PROVE \E l \in PCs, r \in Locals : Moves(w, l, r)
  <2>1. NextCandidate(w) BY <1>7 DEF SucceedJob
  <2> QED BY ONLY <2>1, NextCandidateMoves, TypeInv
<1>8. ASSUME RetryJob(w) PROVE \E l \in PCs, r \in Locals : Moves(w, l, r)
  <2>1. NextCandidate(w) BY <1>8 DEF RetryJob
  <2> QED BY ONLY <2>1, NextCandidateMoves, TypeInv
<1>9. ASSUME FailJob(w) PROVE \E l \in PCs, r \in Locals : Moves(w, l, r)
  BY <1>9 DEF FailJob
<1>10. ASSUME FailPost(w) PROVE \E l \in PCs, r \in Locals : Moves(w, l, r)
  <2>1. NextCandidate(w) BY <1>10 DEF FailPost
  <2> QED BY ONLY <2>1, NextCandidateMoves, TypeInv
<1> QED BY <1>1, <1>2, <1>3, <1>4, <1>5, <1>6, <1>7, <1>8, <1>9, <1>10 DEF WorkerStep, ExecuteStep

\* So does every statement of a request,
LEMMA ClientMoves ==
    ASSUME TypeInv, NEW c \in Clients, RequestStart(c) \/ RequestStep(c)
    PROVE  \E l \in PCs, r \in Locals : Moves(c, l, r)
<1> c \in Actors /\ loc[c] \in Locals /\ LocalsAt(c, pc[c], loc[c])
     /\ pc = [b \in Actors |-> pc[b]] /\ loc \in [Actors -> Locals]
  BY DEF TypeInv, Typed, LocalsOK, Actors
<1> c \notin Workers BY ActorsAssumption
<1> USE NoLocalsType, BoundsAssumption
    DEF Turn, Goto, SetLocals, Respond, Moves, LocalsAt, Executing, Publishing, Locals, PCs
<1>1. ASSUME StartSchedule(c) PROVE \E l \in PCs, r \in Locals : Moves(c, l, r)
  <2>1. PICK p \in Posts, d \in 1..MaxDelay, m \in MaxAttemptsChoices :
           SetLocals(c, [NoLocals EXCEPT !.tgt = p, !.delay = d, !.maxAttempts = m])
    BY ONLY <1>1 DEF StartSchedule
  <2> DEFINE r == [NoLocals EXCEPT !.tgt = p, !.delay = d, !.maxAttempts = m]
  <2>2. r \in Locals
    BY ONLY NoLocals \in Locals, p \in Posts, d \in 0..MaxDelay, m \in Nat DEF Locals
  <2>3. Moves(c, "schedulePost", r) BY <1>1, <2>1 DEF StartSchedule
  <2> QED BY <2>2, <2>3
<1>2. ASSUME SchedulePost(c) PROVE \E l \in PCs, r \in Locals : Moves(c, l, r)
  BY <1>2 DEF SchedulePost
<1>3. ASSUME CreateJob(c) PROVE \E l \in PCs, r \in Locals : Moves(c, l, r)
  BY <1>3 DEF CreateJob
<1>4. ASSUME StartReschedule(c) PROVE \E l \in PCs, r \in Locals : Moves(c, l, r)
  <2>1. PICK j \in Jobs, d \in 1..MaxDelay :
           SetLocals(c, [NoLocals EXCEPT !.cur = j, !.delay = d])
    BY <1>4 DEF StartReschedule
  <2> DEFINE r == [NoLocals EXCEPT !.cur = j, !.delay = d]
  <2>2. r \in Locals
    BY ONLY NoLocals \in Locals, j \in Jobs, d \in 0..MaxDelay DEF Locals
  <2>3. r.cur = j BY DEF NoLocals
  <2>4. Moves(c, "reschedule", r) BY <1>4, <2>1, <2>3 DEF StartReschedule
  <2> QED BY <2>2, <2>4
<1>5. ASSUME Reschedule(c) PROVE \E l \in PCs, r \in Locals : Moves(c, l, r)
  BY <1>5 DEF Reschedule
<1>6. ASSUME StartCancel(c) PROVE \E l \in PCs, r \in Locals : Moves(c, l, r)
  <2>1. PICK j \in Jobs : SetLocals(c, [NoLocals EXCEPT !.cur = j, !.tgt = job[j].post])
    BY <1>6 DEF StartCancel
  <2> DEFINE r == [NoLocals EXCEPT !.cur = j, !.tgt = job[j].post]
  <2>2. job[j].post \in Posts \cup {None} BY DEF TypeInv, Typed, Rows
  <2>3. r \in Locals
    BY ONLY NoLocals \in Locals, j \in Jobs, <2>2 DEF Locals
  <2>4. r.cur = j BY DEF NoLocals
  <2>5. Moves(c, "cancelRead", r) BY <1>6, <2>1, <2>4 DEF StartCancel
  <2> QED BY <2>3, <2>5
<1>7. ASSUME CancelRead(c) PROVE \E l \in PCs, r \in Locals : Moves(c, l, r)
  BY <1>7 DEF CancelRead
<1>8. ASSUME CancelDraft(c) PROVE \E l \in PCs, r \in Locals : Moves(c, l, r)
  BY <1>8 DEF CancelDraft
<1>9. ASSUME CancelJob(c) PROVE \E l \in PCs, r \in Locals : Moves(c, l, r)
  BY <1>9 DEF CancelJob
<1>10. ASSUME StartPublish(c) PROVE \E l \in PCs, r \in Locals : Moves(c, l, r)
  BY <1>10 DEF StartPublish
<1>11. ASSUME StartDelete(c) PROVE \E l \in PCs, r \in Locals : Moves(c, l, r)
  BY <1>11 DEF StartDelete
<1>12. ASSUME DeleteAnswered(c) PROVE \E l \in PCs, r \in Locals : Moves(c, l, r)
  BY <1>12 DEF DeleteAnswered
<1>13. ASSUME Delete(c) PROVE \E l \in PCs, r \in Locals : Moves(c, l, r)
  BY <1>13 DEF Delete
<1> QED BY <1>1, <1>2, <1>3, <1>4, <1>5, <1>6, <1>7, <1>8, <1>9, <1>10, <1>11, <1>12, <1>13
       DEF RequestStart, RequestStep

\* and every step of a publication, whoever asked for it.
LEMMA PublicationMoves ==
    ASSUME TypeInv, NEW a \in Actors, PublishStep(a) \/ ProviderStep(a)
    PROVE  \E l \in PCs, r \in Locals : Moves(a, l, r)
<1> loc[a] \in Locals /\ LocalsAt(a, pc[a], loc[a]) /\ NoLocals \in Locals
     /\ pc = [b \in Actors |-> pc[b]] /\ loc \in [Actors -> Locals]
  BY NoLocalsType DEF TypeInv, Typed, LocalsOK
<1> a \in Workers <=> a \notin Clients BY ActorsAssumption DEF Actors
<1> USE DEF Turn, Goto, SetLocals, Respond, Throw, ReturnPublished, Moves, LocalsAt,
            Executing, Publishing, Locals, PCs, ErrClasses
<1>1. ASSUME Publish(a) PROVE \E l \in PCs, r \in Locals : Moves(a, l, r)
  BY <1>1 DEF Publish
<1>2. ASSUME NoAccount(a) PROVE \E l \in PCs, r \in Locals : Moves(a, l, r)
  BY <1>2 DEF NoAccount
<1>3. ASSUME MarkPublishing(a) PROVE \E l \in PCs, r \in Locals : Moves(a, l, r)
  BY <1>3 DEF MarkPublishing
<1>4. ASSUME RecordPublished(a) PROVE \E l \in PCs, r \in Locals : Moves(a, l, r)
  BY <1>4 DEF RecordPublished
<1>5. ASSUME RecordFailed(a) PROVE \E l \in PCs, r \in Locals : Moves(a, l, r)
  BY <1>5 DEF RecordFailed
<1>0. loc = [loc EXCEPT ![a] = loc[a]] OBVIOUS
<1>6. ASSUME Accept(a) PROVE \E l \in PCs, r \in Locals : Moves(a, l, r)
  <2>1. Moves(a, "accepted", loc[a]) BY <1>0, <1>6 DEF Accept
  <2> QED BY <2>1
<1>7. ASSUME Reject(a) PROVE \E l \in PCs, r \in Locals : Moves(a, l, r)
  <2>1. PICK class \in {"retryable", "permanent"} :
               \/ SetLocals(a, [loc[a] EXCEPT !.err = class]) /\ Goto(a, "recordFailed")
               \/ Throw(a, class)
    BY <1>7 DEF Reject
  <2> DEFINE r == [loc[a] EXCEPT !.err = class]
  <2>2. r \in Locals BY ONLY loc[a] \in Locals, class \in ErrClasses DEF Locals
  <2>3. r.cur = loc[a].cur /\ r.attempt = loc[a].attempt OBVIOUS
  <2>4. CASE Throw(a, class)
    BY <1>7, <2>4 DEF Reject
  <2>5. CASE SetLocals(a, [loc[a] EXCEPT !.err = class]) /\ Goto(a, "recordFailed")
    <3>1. Moves(a, "recordFailed", r) BY <1>7, <2>3, <2>5 DEF Reject
    <3> QED BY <2>2, <3>1
  <2> QED BY <2>1, <2>4, <2>5
<1>8. ASSUME Reply(a) PROVE \E l \in PCs, r \in Locals : Moves(a, l, r)
  <2>1. Moves(a, "recordPublished", loc[a]) BY <1>0, <1>8 DEF Reply
  <2> QED BY <2>1
<1>9. ASSUME LoseReply(a) PROVE \E l \in PCs, r \in Locals : Moves(a, l, r)
  BY <1>9 DEF LoseReply
<1> QED BY <1>1, <1>2, <1>3, <1>4, <1>5, <1>6, <1>7, <1>8, <1>9 DEF PublishStep, ProviderStep

-----------------------------------------------------------------------------
\* Which steps write which table.
LEMMA JobWriters ==
    ASSUME Next
    PROVE  \/ UNCHANGED job
           \/ \E w \in Workers : Lock(w) \/ MarkRunning(w) \/ SucceedJob(w)
                                \/ RetryJob(w) \/ FailJob(w)
           \/ \E c \in Clients : CreateJob(c) \/ Reschedule(c) \/ CancelJob(c)
           \/ Tick
<1>1. ASSUME NEW w \in Workers, Scan(w) \/ Skip(w) \/ LoadPost(w) \/ ResetPost(w) \/ FailPost(w)
      PROVE  UNCHANGED job
  BY <1>1 DEF Scan, Skip, LoadPost, ResetPost, FailPost
<1>2. ASSUME NEW c \in Clients,
             RequestStart(c) \/ SchedulePost(c) \/ CancelRead(c) \/ CancelDraft(c)
             \/ DeleteAnswered(c) \/ Delete(c)
      PROVE  UNCHANGED job
  BY <1>2 DEF RequestStart, StartSchedule, StartReschedule, StartCancel, StartPublish,
              StartDelete, SchedulePost, CancelRead, CancelDraft, DeleteAnswered, Delete
<1>3. ASSUME NEW a \in Actors, PublishStep(a) \/ ProviderStep(a)
      PROVE  UNCHANGED job
  BY <1>3 DEF PublishStep, ProviderStep, Publish, NoAccount, MarkPublishing,
              RecordPublished, RecordFailed, Accept, Reject, Reply, LoseReply
<1>4. ASSUME NEW h \in Hosts, Crash(h) PROVE UNCHANGED job
  BY <1>4 DEF Crash
<1> QED BY <1>1, <1>2, <1>3, <1>4 DEF Next, WorkerStep, ExecuteStep, RequestStep

LEMMA RowType ==
    ASSUME TypeInv, NEW j, NEW r, j \in Jobs => r \in Rows, SetJob(j, r)
    PROVE  job' \in [Jobs -> Rows]
  BY DEF TypeInv, Typed, SetJob

\* The updates of lockJob, executeJob and updateSchedule yield rows.
LEMMA LockedType ==
    ASSUME NEW r \in Rows
    PROVE  [r EXCEPT !.status = "locked", !.lockedFor = 0] \in Rows
<1>1. 0 \in 0..LockTimeout /\ "locked" \in JobStatus
  BY BoundsAssumption DEF JobStatus, Live
<1> QED BY ONLY <1>1, r \in Rows DEF Rows

LEMMA OutcomeType ==
    ASSUME NEW r \in Rows, NEW st \in JobStatus, NEW n \in Nat, NEW e \in LastErrors
    PROVE  [r EXCEPT !.status = st, !.lockedFor = 0, !.nextRetryIn = n, !.lastError = e] \in Rows
<1>1. 0 \in 0..LockTimeout BY BoundsAssumption
<1> QED BY ONLY <1>1, r \in Rows, st \in JobStatus, n \in Nat, e \in LastErrors DEF Rows

LEMMA RescheduledType ==
    ASSUME NEW r \in Rows, NEW d \in 0..MaxDelay
    PROVE  [r EXCEPT !.status = "pending", !.lockedFor = 0,
                     !.scheduledIn = d, !.nextRetryIn = 0] \in Rows
<1>1. 0 \in 0..LockTimeout /\ "pending" \in JobStatus
  BY BoundsAssumption DEF JobStatus, Live, Waiting
<1> QED BY ONLY <1>1, r \in Rows, d \in 0..MaxDelay DEF Rows

LEMMA AgedType == ASSUME NEW r \in Rows PROVE Aged(r) \in Rows
<1>1. Less(r.scheduledIn) \in 0..MaxDelay /\ Less(r.nextRetryIn) \in Nat
  BY BoundsAssumption DEF Rows, Less
<1> DEFINE lf == IF r.status \in {"locked", "running"} /\ r.lockedFor < LockTimeout
                 THEN r.lockedFor + 1 ELSE r.lockedFor
<1>2. lf \in 0..LockTimeout BY BoundsAssumption DEF Rows
<1>3. Aged(r) = [r EXCEPT !.scheduledIn = Less(r.scheduledIn),
                          !.nextRetryIn = Less(r.nextRetryIn), !.lockedFor = lf]
  BY DEF Aged, Rows
<1> HIDE DEF lf
<1> QED BY ONLY <1>1, <1>2, <1>3, r \in Rows DEF Rows

LEMMA RowTypes ==
    ASSUME TypeInv, Next
    PROVE  job' \in [Jobs -> Rows]
<1> USE DEF JobStatus, Live, Waiting, LastErrors
<1>0. job \in [Jobs -> Rows] /\ loc \in [Actors -> Locals] /\ LockTimeout \in Nat
      /\ MaxDelay \in Nat
  BY BoundsAssumption DEF TypeInv, Typed
<1>1. ASSUME NEW w \in Workers, Lock(w) PROVE job' \in [Jobs -> Rows]
  <2>1. PICK j \in Jobs : SetJob(j, [job[j] EXCEPT !.status = "locked", !.lockedFor = 0])
    BY <1>0, <1>1 DEF Lock, Actors, Locals
  <2>2. [job[j] EXCEPT !.status = "locked", !.lockedFor = 0] \in Rows
    BY <1>0, LockedType
  <2> QED BY <2>1, <2>2, RowType
<1>2. ASSUME NEW w \in Workers, MarkRunning(w) PROVE job' \in [Jobs -> Rows]
  <2> DEFINE j == loc[w].cur
             r == [job[j] EXCEPT !.status = "running", !.attemptCount = loc[w].attempt]
  <2>1. loc[w].attempt \in Nat BY <1>0 DEF Actors, Locals
  <2>2. j \in Jobs => r \in Rows
    BY ONLY <1>0, <2>1 DEF Rows, JobStatus, Live
  <2>3. SetJob(j, r) BY <1>2 DEF MarkRunning
  <2> QED BY <2>2, <2>3, RowType
<1>3. ASSUME NEW w \in Workers, SucceedJob(w) PROVE job' \in [Jobs -> Rows]
  <2> DEFINE j == loc[w].cur
             r == [job[j] EXCEPT !.status = "succeeded", !.lockedFor = 0,
                                 !.nextRetryIn = 0, !.lastError = "null"]
  <2>1. j \in Jobs => r \in Rows BY <1>0, OutcomeType
  <2>2. SetJob(j, r) BY <1>3 DEF SucceedJob
  <2> QED BY <2>1, <2>2, RowType
<1>4. ASSUME NEW w \in Workers, RetryJob(w) PROVE job' \in [Jobs -> Rows]
  <2> DEFINE j == loc[w].cur
             b == BackoffFor(loc[w].attempt)
             r == [job[j] EXCEPT !.status = "retrying", !.lockedFor = 0,
                                 !.nextRetryIn = b, !.lastError = "retryable"]
  <2>1. w \in Actors /\ pc[w] = "failJob" BY <1>4 DEF RetryJob, Turn, Actors
  <2>2. loc[w].attempt \in Nat /\ loc[w].attempt >= 1
    BY <1>0, <2>1 DEF TypeInv, LocalsOK, LocalsAt, Locals, Executing
  <2>3. b \in Nat BY <2>2, BackoffType
  <2>4. j \in Jobs => r \in Rows
    BY <1>0, <2>3, OutcomeType
  <2>5. SetJob(j, r) BY <1>4 DEF RetryJob
  <2> QED BY <2>4, <2>5, RowType
<1>5. ASSUME NEW w \in Workers, FailJob(w) PROVE job' \in [Jobs -> Rows]
  <2> DEFINE j == loc[w].cur
             r == [job[j] EXCEPT !.status = "failed", !.lockedFor = 0,
                                 !.nextRetryIn = 0, !.lastError = "terminal"]
  <2>1. j \in Jobs => r \in Rows BY <1>0, OutcomeType
  <2>2. SetJob(j, r) BY <1>5 DEF FailJob
  <2> QED BY <2>1, <2>2, RowType
<1>6. ASSUME NEW c \in Clients, CreateJob(c) PROVE job' \in [Jobs -> Rows]
  <2>1. loc[c] \in Locals BY <1>0 DEF Actors
  <2> DEFINE r == [NoRow EXCEPT !.status = "pending", !.post = loc[c].tgt,
                                !.scheduledIn = loc[c].delay,
                                !.maxAttempts = loc[c].maxAttempts]
  <2>2. r \in Rows
    BY ONLY NoRowType, <2>1 DEF Rows, Locals, JobStatus, Live, Waiting
  <2>3. PICK j \in Jobs : SetJob(j, r) BY <1>6 DEF CreateJob, Slots
  <2> QED BY <2>2, <2>3, RowType
<1>7. ASSUME NEW c \in Clients, Reschedule(c) PROVE job' \in [Jobs -> Rows]
  <2>1. loc[c] \in Locals BY <1>0 DEF Actors
  <2> DEFINE j == loc[c].cur
             r == [job[j] EXCEPT !.status = "pending", !.lockedFor = 0,
                                 !.scheduledIn = loc[c].delay, !.nextRetryIn = 0]
  <2>2. loc[c].delay \in 0..MaxDelay BY <2>1 DEF Locals
  <2>3. j \in Jobs => r \in Rows BY <1>0, <2>2, RescheduledType
  <2>4. SetJob(j, r) BY <1>7 DEF Reschedule
  <2> QED BY <2>3, <2>4, RowType
<1>8. ASSUME NEW c \in Clients, CancelJob(c) PROVE job' \in [Jobs -> Rows]
  <2> DEFINE j == loc[c].cur
             r == [job[j] EXCEPT !.status = "failed", !.lastError = "canceled_by_user"]
  <2>1. j \in Jobs => r \in Rows
    BY ONLY <1>0 DEF Rows, JobStatus, LastErrors
  <2>2. SetJob(j, r) BY <1>8 DEF CancelJob
  <2> QED BY <2>1, <2>2, RowType
<1>9. ASSUME Tick PROVE job' \in [Jobs -> Rows]
  BY <1>0, <1>9, AgedType DEF Tick
<1> QED BY <1>0, <1>1, <1>2, <1>3, <1>4, <1>5, <1>6, <1>7, <1>8, <1>9, JobWriters

LEMMA PostTypes ==
    ASSUME TypeInv, Next
    PROVE  /\ post' \in [Posts -> PostStatus]
           /\ platform' \in [Posts -> Nat]
           /\ lost' \in [Posts -> Nat]
           /\ crashes' \in Nat
<1>0. /\ post \in [Posts -> PostStatus] /\ platform \in [Posts -> Nat]
      /\ lost \in [Posts -> Nat] /\ crashes \in Nat
  BY DEF TypeInv, Typed
<1> USE <1>0 DEF SetPost, PostStatus, sns
<1> DEFINE Goal == /\ post' \in [Posts -> PostStatus]
                   /\ platform' \in [Posts -> Nat]
                   /\ lost' \in [Posts -> Nat]
                   /\ crashes' \in Nat
<1>1. ASSUME NEW w \in Workers, WorkerStep(w) PROVE Goal
  BY <1>1 DEF WorkerStep, ExecuteStep, Scan, Lock, Skip, MarkRunning, LoadPost, ResetPost,
              SucceedJob, RetryJob, FailJob, FailPost
<1>2. ASSUME NEW c \in Clients, RequestStart(c) PROVE Goal
  BY <1>2 DEF RequestStart, StartSchedule, StartReschedule, StartCancel, StartPublish,
              StartDelete
<1>3. ASSUME NEW c \in Clients, RequestStep(c) PROVE Goal
  BY <1>3 DEF RequestStep, SchedulePost, CreateJob, Reschedule, CancelRead, CancelDraft,
              CancelJob, DeleteAnswered, Delete
<1>4. ASSUME NEW a \in Actors, PublishStep(a) PROVE Goal
  BY <1>4 DEF PublishStep, Publish, NoAccount, MarkPublishing, RecordPublished, RecordFailed
<1>5. ASSUME NEW a \in Actors, ProviderStep(a) PROVE Goal
  BY <1>5 DEF ProviderStep, Accept, Reject, Reply, LoseReply
<1>6. ASSUME Tick PROVE Goal
  BY <1>6 DEF Tick
<1>7. ASSUME NEW h \in Hosts, Crash(h) PROVE Goal
  <2>1. IsFiniteSet(Actors) BY ActorsAssumption, FS_Union DEF Actors
  <2>2. \A p \in Posts : Cardinality(Unrecorded(h, p)) \in Nat
    BY <2>1, FS_Subset, FS_CardinalityType DEF Unrecorded
  <2> QED BY <1>7, <2>2 DEF Crash
<1> QED BY <1>1, <1>2, <1>3, <1>4, <1>5, <1>6, <1>7 DEF Next

LEMMA StepTypeInv == TypeInv /\ [Next]_vars => TypeInv' /\ StaysIn
<1> SUFFICES ASSUME TypeInv, [Next]_vars PROVE TypeInv' /\ StaysIn OBVIOUS
<1> DEFINE Placed == /\ pc' = [b \in Actors |-> pc'[b]] /\ StaysIn
                     /\ loc' \in [Actors -> Locals]
                     /\ LocalsOK'
<1>1. ASSUME UNCHANGED vars PROVE TypeInv' /\ StaysIn
  BY <1>1 DEF vars, TypeInv, Typed, LocalsOK, LocalsAt, StaysIn
<1>2. ASSUME Next PROVE Placed
  <2>1. ASSUME NEW a \in Actors, \E l \in PCs, r \in Locals : Moves(a, l, r) PROVE Placed
    BY <2>1, MoveTypes DEF StaysIn
  <2>2. ASSUME NEW w \in Workers, WorkerStep(w) PROVE Placed
    BY <2>1, <2>2, WorkerMoves DEF Actors
  <2>3. ASSUME NEW c \in Clients, RequestStart(c) \/ RequestStep(c) PROVE Placed
    BY <2>1, <2>3, ClientMoves DEF Actors
  <2>4. ASSUME NEW a \in Actors, PublishStep(a) \/ ProviderStep(a) PROVE Placed
    BY <2>1, <2>4, PublicationMoves
  <2>5. ASSUME Tick PROVE Placed
    <3>1. pc' = pc /\ loc' = [a \in Actors |-> [loc[a] EXCEPT !.delay = Less(@)]]
      BY <2>5 DEF Tick
    <3>2. ASSUME NEW r \in Locals PROVE [r EXCEPT !.delay = Less(@)] \in Locals
      BY BoundsAssumption DEF Locals, Less
    <3>3. loc' \in [Actors -> Locals] BY <3>1, <3>2 DEF TypeInv, Typed
    <3>4. \A a \in Actors : loc'[a].cur = loc[a].cur /\ loc'[a].attempt = loc[a].attempt
      BY <3>1 DEF TypeInv, Typed, Locals
    <3> QED BY <3>1, <3>3, <3>4 DEF TypeInv, Typed, LocalsOK, LocalsAt, StaysIn
  <2>6. ASSUME NEW h \in Hosts, Crash(h) PROVE Placed
    <3>1. /\ pc' = [b \in Actors |-> pc'[b]] /\ loc' \in [Actors -> Locals]
          /\ StaysIn
      BY <2>6, NoLocalsType DEF Crash, TypeInv, Typed, StaysIn, PCs
    <3>2. ASSUME NEW a \in Actors PROVE LocalsAt(a, pc'[a], loc'[a])
      <4>1. LocalsAt(a, "idle", NoLocals) BY DEF LocalsAt, Executing, Publishing
      <4>2. \/ pc'[a] = "idle" /\ loc'[a] = NoLocals
            \/ pc'[a] = pc[a] /\ loc'[a] = loc[a]
        BY <2>6 DEF Crash
      <4> QED BY <4>1, <4>2 DEF TypeInv, LocalsOK
    <3> QED BY <3>1, <3>2 DEF LocalsOK
  <2> QED BY <1>2, <2>2, <2>3, <2>4, <2>5, <2>6 DEF Next
<1>3. ASSUME Next PROVE TypeInv' /\ StaysIn
  BY <1>2, <1>3, RowTypes, PostTypes DEF TypeInv, Typed
<1> QED BY <1>1, <1>3

InPCs == pc \in [Actors -> PCs]

\* Every variable keeps its type in every behaviour, for all constants.
THEOREM TypeCorrect == Spec => []TypeOK
<1>1. Init => TypeInv /\ InPCs BY InitTypeInv DEF Init, InPCs, PCs
<1>2. TypeInv /\ InPCs => TypeOK BY DEF TypeInv, Typed, InPCs, TypeOK
<1>3. TypeInv /\ InPCs /\ [Next]_vars => (TypeInv /\ InPCs)'
  <2>1. TypeInv /\ [Next]_vars => TypeInv' /\ StaysIn BY StepTypeInv
  <2>2. PCs \cup {} = PCs OBVIOUS
  <2> QED BY <2>1, <2>2 DEF StaysIn, InPCs
<1> QED BY <1>1, <1>2, <1>3, PTL DEF Spec

-----------------------------------------------------------------------------
(* Mutual exclusion of executions and the bound on tries.  Both rest on the  *)
(* same invariant: while a dispatcher executes a job, the row's status keeps *)
(* lockJob away from it, and a row lockJob accepts has a try left.           *)

\* Either everything runs in one process, or nothing reschedules: between the
\* check and the write of updateSchedule another process may lock the job.
SafeDeployment ==
    (\A a, b \in Actors : HostOf[a] = HostOf[b]) \/ "reschedule" \notin Ops

Past == Executing \ {"markRunning"}

Canceling == {"cancelRead", "cancelDraft", "cancelJob"}

\* The row of a job in execution (cancelSchedule may have failed it).
Held ==
    \A w \in Workers :
      /\ pc[w] = "markRunning" =>
           \/ job[loc[w].cur].status = "failed"
           \/ /\ job[loc[w].cur].status = "locked"
              /\ job[loc[w].cur].lockedFor < LockTimeout
      /\ pc[w] \in Past => job[loc[w].cur].status \in {"running", "failed"}

MayTry(r) == r.attemptCount < r.maxAttempts \/ r.attemptCount = 0

\* A row that waits has a try left, and executeJob counts it.
TriesCounted ==
    /\ \A j \in Jobs : job[j].status \in Waiting \cup {"locked"} => MayTry(job[j])
    /\ \A w \in Workers :
         /\ pc[w] = "markRunning" => /\ loc[w].attempt = job[loc[w].cur].attemptCount + 1
                                    /\ MayTry(job[loc[w].cur])
         /\ pc[w] \in Past => loc[w].attempt = job[loc[w].cur].attemptCount

\* What updateSchedule checked still holds when it writes.
RescheduleFresh ==
    \A c \in Clients : pc[c] = "reschedule" =>
       "reschedule" \in Ops /\ job[loc[c].cur].status \in Waiting

ExecutionInv ==
    Held /\ JobExclusive /\ TriesCounted /\ AttemptsBounded /\ RescheduleFresh

LEMMA InitExecutionInv == Init => ExecutionInv
<1> SUFFICES ASSUME Init PROVE ExecutionInv OBVIOUS
<1>1. \A w \in Workers : pc[w] = "idle" BY DEF Init, Actors
<1>2. \A c \in Clients : pc[c] = "idle" BY DEF Init, Actors
<1>3. \A j \in Jobs : job[j].status = "absent" /\ job[j].attemptCount = 0
                       /\ job[j].maxAttempts = 0
  BY DEF Init, NoRow
<1> QED BY <1>1, <1>2, <1>3 DEF ExecutionInv, Held, JobExclusive, Executes, TriesCounted,
        AttemptsBounded, RescheduleFresh, Executing, Publishing, Past, Waiting

\* While an actor has its turn, no other request is between the check and the
\* write of updateSchedule.
LEMMA NoOtherReschedule ==
    ASSUME SafeDeployment, ExecutionInv, NEW a \in Actors, NEW l, Turn(a, l)
    PROVE  \A c \in Clients \ {a} : pc[c] # "reschedule"
<1> SUFFICES ASSUME NEW c \in Clients \ {a}, pc[c] = "reschedule" PROVE FALSE OBVIOUS
<1>1. "reschedule" \in Ops BY DEF ExecutionInv, RescheduleFresh
<1>2. HostOf[c] = HostOf[a] BY <1>1 DEF SafeDeployment, Actors
<1>3. pc[c] \in Yielding BY <1>2 DEF Turn, Actors
<1> QED BY <1>3 DEF Yielding

\* Steps that write no row: a dispatcher moves on within executeJob with its
\* job and try, or leaves it; a request that will reschedule has checked.
Onward ==
    \A w \in Workers :
       \/ pc'[w] \notin Executing
       \/ /\ loc'[w].cur = loc[w].cur /\ loc'[w].attempt = loc[w].attempt
          /\ pc'[w] = pc[w] \/ (pc[w] \in Past /\ pc'[w] \in Past)

Checked ==
    \A c \in Clients : pc'[c] = "reschedule" =>
       \/ pc[c] = "reschedule" /\ loc'[c].cur = loc[c].cur
       \/ "reschedule" \in Ops /\ job[loc'[c].cur].status \in Waiting

LEMMA QuietStep ==
    ASSUME ExecutionInv, UNCHANGED job, Onward, Checked
    PROVE  ExecutionInv'
<1> USE DEF ExecutionInv, Onward
<1>1. Held' BY DEF Held, Past, Executing
<1>2. JobExclusive' BY DEF JobExclusive, Executes, Past
<1>3. TriesCounted' BY DEF TriesCounted, Past, Executing
<1>4. AttemptsBounded' BY DEF AttemptsBounded
<1>5. RescheduleFresh' BY DEF RescheduleFresh, Checked
<1> QED BY <1>1, <1>2, <1>3, <1>4, <1>5

\* Steps that write the row of a job nobody else executes.
LEMMA OwnRowStep ==
    ASSUME TypeInv, ExecutionInv,
           NEW a \in Actors, NEW l, NEW x, NEW j \in Jobs, NEW r,
           pc' = [pc EXCEPT ![a] = l], loc' = [loc EXCEPT ![a] = x],
           job' = [job EXCEPT ![j] = r],
           \A v \in Workers \ {a} : ~Executes(v, j),
           \A c \in Clients \ {a} : pc[c] # "reschedule", l # "reschedule",
           r.status \in Waiting \cup {"locked"} => MayTry(r),
           r.attemptCount <= r.maxAttempts \/ r.attemptCount <= 1,
           a \in Workers /\ l \in Executing => x.cur = j,
           l = "markRunning" => /\ r.status = "locked" /\ r.lockedFor < LockTimeout
                                /\ x.attempt = r.attemptCount + 1 /\ MayTry(r),
           l \in Past => r.status \in {"running", "failed"} /\ x.attempt = r.attemptCount
    PROVE  ExecutionInv'
<1>0. /\ job' \in [Jobs -> {job'[i] : i \in Jobs}] /\ job'[j] = r
      /\ \A i \in Jobs \ {j} : job'[i] = job[i]
      /\ pc'[a] = l /\ loc'[a] = x
      /\ \A b \in Actors \ {a} : pc'[b] = pc[b] /\ loc'[b] = loc[b]
  BY DEF TypeInv, Typed
<1>1. ASSUME NEW v \in Workers, pc'[v] \in Executing
      PROVE  \/ v = a /\ loc'[v].cur = j
             \/ /\ v # a /\ pc'[v] = pc[v] /\ loc'[v] = loc[v]
                /\ loc[v].cur \in Jobs \ {j} /\ job'[loc[v].cur] = job[loc[v].cur]
  <2>1. CASE v = a BY <1>0, <1>1, <2>1
  <2>2. CASE v # a
    <3>1. v \in Actors /\ pc'[v] = pc[v] /\ loc'[v] = loc[v] BY <1>0, <2>2 DEF Actors
    <3>2. loc[v].cur \in Jobs BY <1>1, <3>1 DEF TypeInv, LocalsOK, LocalsAt
    <3>3. loc[v].cur # j BY <1>1, <2>2, <3>1 DEF Executes
    <3> QED BY <1>0, <2>2, <3>1, <3>2, <3>3
  <2> QED BY <2>1, <2>2
<1>2. "markRunning" \in Executing /\ Past \subseteq Executing BY DEF Past, Executing
<1>3. Held'
  BY <1>0, <1>1, <1>2 DEF ExecutionInv, Held
<1>4. JobExclusive'
  BY <1>0, <1>1 DEF ExecutionInv, JobExclusive, Executes
<1>5. TriesCounted'
  BY <1>0, <1>1, <1>2 DEF ExecutionInv, TriesCounted
<1>6. AttemptsBounded'
  BY <1>0 DEF ExecutionInv, AttemptsBounded
<1>7. RescheduleFresh'
  BY <1>0 DEF RescheduleFresh, Actors
<1> QED BY <1>3, <1>4, <1>5, <1>6, <1>7 DEF ExecutionInv

\* The row of a job in execution cannot be locked, and is not waiting.
LEMMA ExecutedRow ==
    ASSUME TypeInv, ExecutionInv, NEW w \in Workers, pc[w] \in Executing
    PROVE  /\ loc[w].cur \in Jobs /\ ~Lockable(loc[w].cur)
           /\ job[loc[w].cur].status \in {"locked", "running", "failed"}
           /\ pc[w] \in Past => job[loc[w].cur].status \in {"running", "failed"}
           /\ \A v \in Workers \ {w} : ~Executes(v, loc[w].cur)
<1>1. w \in Actors /\ loc[w].cur \in Jobs
  BY DEF TypeInv, LocalsOK, LocalsAt, Actors
<1>2. job[loc[w].cur].lockedFor \in Nat BY <1>1 DEF TypeInv, Typed, Rows
<1>3. pc[w] = "markRunning" \/ pc[w] \in Past BY DEF Past
<1>4. Held BY DEF ExecutionInv
<1>5. LockTimeout \in Nat BY BoundsAssumption
<1>6. ~Lockable(loc[w].cur) /\ job[loc[w].cur].status \in {"locked", "running", "failed"}
  BY <1>2, <1>3, <1>4, <1>5 DEF Held, Lockable, Waiting
<1>7. \A v \in Workers \ {w} : ~Executes(v, loc[w].cur)
  BY <1>1 DEF ExecutionInv, JobExclusive, Executes
<1>8. pc[w] \in Past => job[loc[w].cur].status \in {"running", "failed"}
  BY <1>4 DEF Held
<1> QED BY <1>1, <1>6, <1>7, <1>8

LEMMA LockStep ==
    ASSUME SafeDeployment, TypeInv, ExecutionInv, NEW w \in Workers, Lock(w)
    PROVE  ExecutionInv'
<1>0. w \in Actors /\ loc[w].cand \in SUBSET Jobs BY DEF TypeInv, Typed, Actors, Locals
<1>1. PICK j \in Jobs :
         /\ Lockable(j)
         /\ SetJob(j, [job[j] EXCEPT !.status = "locked", !.lockedFor = 0])
         /\ SetLocals(w, [loc[w] EXCEPT !.cand = @ \ {j}, !.cur = j, !.tgt = job[j].post,
                                        !.attempt = job[j].attemptCount + 1])
  BY <1>0 DEF Lock
<1> DEFINE r == [job[j] EXCEPT !.status = "locked", !.lockedFor = 0]
           x == [loc[w] EXCEPT !.cand = @ \ {j}, !.cur = j, !.tgt = job[j].post,
                               !.attempt = job[j].attemptCount + 1]
<1>2. \A v \in Workers \ {w} : ~Executes(v, j)
  BY <1>1, ExecutedRow DEF Executes
<1>3. \A c \in Clients \ {w} : pc[c] # "reschedule"
  BY <1>0, NoOtherReschedule DEF Lock
<1>4. MayTry(job[j])
  BY <1>1 DEF ExecutionInv, TriesCounted, Lockable
<1>5. /\ r.status = "locked" /\ r.lockedFor = 0
      /\ r.attemptCount = job[j].attemptCount /\ r.maxAttempts = job[j].maxAttempts
  BY DEF TypeInv, Typed, Rows
<1>6. x.cur = j /\ x.attempt = job[j].attemptCount + 1
  BY <1>0 DEF TypeInv, Typed, Locals
<1>7. MayTry(r) /\ (r.attemptCount <= r.maxAttempts \/ r.attemptCount <= 1)
  BY <1>4, <1>5 DEF MayTry, ExecutionInv, AttemptsBounded
<1>8. /\ pc' = [pc EXCEPT ![w] = "markRunning"] /\ loc' = [loc EXCEPT ![w] = x]
      /\ job' = [job EXCEPT ![j] = r]
  BY <1>1 DEF Lock, Goto, SetLocals, SetJob
<1>9. 0 < LockTimeout BY BoundsAssumption
<1> HIDE DEF r, x
<1> QED BY <1>0, <1>2, <1>3, <1>5, <1>6, <1>7, <1>8, <1>9, OwnRowStep DEF Past

LEMMA MarkRunningStep ==
    ASSUME SafeDeployment, TypeInv, ExecutionInv, NEW w \in Workers, MarkRunning(w)
    PROVE  ExecutionInv'
<1> DEFINE j == loc[w].cur
           r == [job[j] EXCEPT !.status = "running", !.attemptCount = loc[w].attempt]
<1>1. w \in Actors /\ pc[w] = "markRunning" BY DEF MarkRunning, Turn, Actors
<1>2. j \in Jobs /\ \A v \in Workers \ {w} : ~Executes(v, j)
  BY <1>1, ExecutedRow DEF Executing
<1>3. \A c \in Clients \ {w} : pc[c] # "reschedule"
  BY <1>1, NoOtherReschedule DEF MarkRunning
<1>4. loc[w].attempt = job[j].attemptCount + 1 /\ MayTry(job[j])
  BY <1>1 DEF ExecutionInv, TriesCounted
<1>5. job[j].attemptCount \in Nat /\ job[j].maxAttempts \in Nat
  BY <1>2 DEF TypeInv, Typed, Rows
<1>6. /\ r.status = "running" /\ r.attemptCount = loc[w].attempt
      /\ r.maxAttempts = job[j].maxAttempts
  BY <1>2 DEF TypeInv, Typed, Rows
<1>7. r.attemptCount <= r.maxAttempts \/ r.attemptCount <= 1
  BY <1>4, <1>5, <1>6 DEF MayTry
<1>8. /\ pc' = [pc EXCEPT ![w] = "loadPost"] /\ loc' = [loc EXCEPT ![w] = loc[w]]
      /\ job' = [job EXCEPT ![j] = r]
  BY <1>1 DEF MarkRunning, Goto, SetJob, TypeInv, Typed
<1> HIDE DEF r
<1> QED BY <1>1, <1>2, <1>3, <1>6, <1>7, <1>8, OwnRowStep DEF Waiting

LEMMA OutcomeStep ==
    ASSUME SafeDeployment, TypeInv, ExecutionInv, NEW w \in Workers,
           SucceedJob(w) \/ RetryJob(w) \/ FailJob(w)
    PROVE  ExecutionInv'
<1>1. w \in Actors /\ pc[w] \in Past
  BY DEF SucceedJob, RetryJob, FailJob, Turn, Actors, Past, Executing
<1> DEFINE j == loc[w].cur
<1>2. j \in Jobs /\ \A v \in Workers \ {w} : ~Executes(v, j)
  BY <1>1, ExecutedRow DEF Past
<1>3. \A c \in Clients \ {w} : pc[c] # "reschedule"
  BY <1>1, NoOtherReschedule DEF SucceedJob, RetryJob, FailJob
<1>4. loc[w].attempt = job[j].attemptCount
  BY <1>1 DEF ExecutionInv, TriesCounted
<1>5. job[j] \in Rows /\ loc[w] \in Locals BY <1>1, <1>2 DEF TypeInv, Typed
<1>6. job[j].attemptCount <= job[j].maxAttempts \/ job[j].attemptCount <= 1
  BY <1>2 DEF ExecutionInv, AttemptsBounded
<1> DEFINE l == IF loc[w].cand = {} THEN "idle" ELSE "batch"
           x == [NoLocals EXCEPT !.cand = loc[w].cand]
<1>7. l \notin Executing /\ l # "reschedule" BY DEF Executing, Publishing
<1>8. CASE SucceedJob(w)
  <2> DEFINE r == [job[j] EXCEPT !.status = "succeeded", !.lockedFor = 0,
                                 !.nextRetryIn = 0, !.lastError = "null"]
  <2>1. /\ r.status = "succeeded" /\ r.attemptCount = job[j].attemptCount
        /\ r.maxAttempts = job[j].maxAttempts
    BY <1>5 DEF Rows
  <2>2. /\ pc' = [pc EXCEPT ![w] = l] /\ loc' = [loc EXCEPT ![w] = x]
        /\ job' = [job EXCEPT ![j] = r]
    BY <1>8 DEF SucceedJob, NextCandidate, Goto, SetLocals, SetJob
  <2> HIDE DEF r, l, x, j
  <2> QED BY <1>1, <1>2, <1>3, <1>6, <1>7, <2>1, <2>2, OwnRowStep DEF Waiting, Past, Executing
<1>9. CASE RetryJob(w)
  <2> DEFINE r == [job[j] EXCEPT !.status = "retrying", !.lockedFor = 0,
                                 !.nextRetryIn = BackoffFor(loc[w].attempt),
                                 !.lastError = "retryable"]
  <2>1. /\ r.status = "retrying" /\ r.attemptCount = job[j].attemptCount
        /\ r.maxAttempts = job[j].maxAttempts
    BY <1>5 DEF Rows
  <2>2. /\ pc' = [pc EXCEPT ![w] = l] /\ loc' = [loc EXCEPT ![w] = x]
        /\ job' = [job EXCEPT ![j] = r]
    BY <1>9 DEF RetryJob, NextCandidate, Goto, SetLocals, SetJob
  <2>3. MayTry(r) BY <1>4, <1>9, <2>1 DEF RetryJob, ShouldRetry, MayTry
  <2> HIDE DEF r, l, x, j
  <2> QED BY <1>1, <1>2, <1>3, <1>6, <1>7, <2>1, <2>2, <2>3, OwnRowStep DEF Past, Executing
<1>10. CASE FailJob(w)
  <2> DEFINE r == [job[j] EXCEPT !.status = "failed", !.lockedFor = 0,
                                 !.nextRetryIn = 0, !.lastError = "terminal"]
  <2>1. /\ r.status = "failed" /\ r.attemptCount = job[j].attemptCount
        /\ r.maxAttempts = job[j].maxAttempts
    BY <1>5 DEF Rows
  <2>2. /\ pc' = [pc EXCEPT ![w] = "failPost"] /\ loc' = [loc EXCEPT ![w] = loc[w]]
        /\ job' = [job EXCEPT ![j] = r]
    BY <1>1, <1>10 DEF FailJob, Goto, SetJob, TypeInv, Typed
  <2> HIDE DEF r
  <2> QED BY <1>1, <1>2, <1>3, <1>4, <1>6, <2>1, <2>2, OwnRowStep DEF Waiting
<1> QED BY <1>8, <1>9, <1>10

LEMMA CreateStep ==
    ASSUME SafeDeployment, TypeInv, ExecutionInv, NEW c \in Clients, CreateJob(c)
    PROVE  ExecutionInv'
<1> DEFINE r == [NoRow EXCEPT !.status = "pending", !.post = loc[c].tgt,
                              !.scheduledIn = loc[c].delay,
                              !.maxAttempts = loc[c].maxAttempts]
<1>1. PICK j \in Jobs : job[j].status = "absent" /\ SetJob(j, r)
  BY DEF CreateJob, Slots
<1>2. c \in Actors /\ c \notin Workers BY ActorsAssumption DEF Actors
<1>3. \A v \in Workers \ {c} : ~Executes(v, j)
  BY <1>1, ExecutedRow DEF Executes
<1>4. \A d \in Clients \ {c} : pc[d] # "reschedule"
  BY <1>2, NoOtherReschedule DEF CreateJob
<1>5. r.status = "pending" /\ r.attemptCount = 0 /\ r.maxAttempts \in Nat
  BY <1>2 DEF NoRow, TypeInv, Typed, Locals
<1>6. /\ pc' = [pc EXCEPT ![c] = "idle"] /\ loc' = [loc EXCEPT ![c] = NoLocals]
      /\ job' = [job EXCEPT ![j] = r]
  BY <1>1 DEF CreateJob, Respond, Goto, SetLocals, SetJob
<1>7. /\ "idle" \notin Executing /\ "idle" \notin Past /\ "idle" # "reschedule"
      /\ "idle" # "markRunning"
  BY DEF Past, Executing, Publishing
<1>8. MayTry(r) /\ r.attemptCount <= 1 BY <1>5 DEF MayTry
<1> HIDE DEF r
<1>9. TypeInv /\ ExecutionInv OBVIOUS
<1> QED BY ONLY <1>1, <1>2, <1>3, <1>4, <1>6, <1>7, <1>8, <1>9, OwnRowStep

LEMMA RescheduleStep ==
    ASSUME SafeDeployment, TypeInv, ExecutionInv, NEW c \in Clients, Reschedule(c)
    PROVE  ExecutionInv'
<1> DEFINE j == loc[c].cur
           r == [job[j] EXCEPT !.status = "pending", !.lockedFor = 0,
                               !.scheduledIn = loc[c].delay, !.nextRetryIn = 0]
<1>1. c \in Actors /\ c \notin Workers /\ pc[c] = "reschedule"
  BY ActorsAssumption DEF Actors, Reschedule, Turn
<1>2. j \in Jobs BY <1>1 DEF TypeInv, LocalsOK, LocalsAt
<1>3. job[j].status \in Waiting BY <1>1 DEF ExecutionInv, RescheduleFresh
<1>4. \A v \in Workers \ {c} : ~Executes(v, j)
  BY <1>3, ExecutedRow DEF Executes, Waiting
<1>5. \A d \in Clients \ {c} : pc[d] # "reschedule"
  BY <1>1, NoOtherReschedule DEF Reschedule
<1>6. /\ r.status = "pending" /\ r.attemptCount = job[j].attemptCount
      /\ r.maxAttempts = job[j].maxAttempts
  BY <1>2 DEF TypeInv, Typed, Rows
<1>7. MayTry(r) BY <1>2, <1>3, <1>6 DEF ExecutionInv, TriesCounted, MayTry
<1>8. r.attemptCount <= r.maxAttempts \/ r.attemptCount <= 1
  BY <1>2, <1>6 DEF ExecutionInv, AttemptsBounded
<1>9. /\ pc' = [pc EXCEPT ![c] = "idle"] /\ loc' = [loc EXCEPT ![c] = NoLocals]
      /\ job' = [job EXCEPT ![j] = r]
  BY DEF Reschedule, Respond, Goto, SetLocals, SetJob
<1> HIDE DEF r, j
<1> QED BY <1>1, <1>2, <1>4, <1>5, <1>6, <1>7, <1>8, <1>9, OwnRowStep
        DEF Past, Executing, Publishing

\* cancelSchedule may overwrite the row of a job in execution: it fails it.
LEMMA CancelStep ==
    ASSUME SafeDeployment, TypeInv, ExecutionInv, NEW c \in Clients, CancelJob(c)
    PROVE  ExecutionInv'
<1> DEFINE j == loc[c].cur
<1>1. c \in Actors /\ c \notin Workers /\ pc[c] = "cancelJob"
  BY ActorsAssumption DEF Actors, CancelJob, Turn
<1>2. j \in Jobs BY <1>1 DEF TypeInv, LocalsOK, LocalsAt
<1>3. \A d \in Clients \ {c} : pc[d] # "reschedule"
  BY <1>1, NoOtherReschedule DEF CancelJob
<1>4. /\ job'[j].status = "failed"
      /\ \A i \in Jobs : /\ job'[i].attemptCount = job[i].attemptCount
                         /\ job'[i].maxAttempts = job[i].maxAttempts
                         /\ i # j => job'[i] = job[i]
  BY <1>2 DEF CancelJob, SetJob, TypeInv, Typed, Rows
<1>5. /\ \A w \in Workers : pc'[w] = pc[w] /\ loc'[w] = loc[w]
      /\ \A d \in Clients : pc'[d] # "reschedule"
  BY <1>1, <1>3 DEF CancelJob, Respond, Goto, SetLocals, TypeInv, Typed, Actors
<1>6. \A w \in Workers : pc[w] = "markRunning" \/ pc[w] \in Past => loc[w].cur \in Jobs
  BY DEF TypeInv, LocalsOK, LocalsAt, Actors, Past, Executing
<1>7. Held' BY <1>4, <1>5, <1>6 DEF ExecutionInv, Held
<1>8. JobExclusive' BY <1>5 DEF ExecutionInv, JobExclusive, Executes
<1>9. TriesCounted'
  BY <1>4, <1>5, <1>6 DEF ExecutionInv, TriesCounted, MayTry, Waiting
<1>10. AttemptsBounded' BY <1>4 DEF ExecutionInv, AttemptsBounded
<1>11. RescheduleFresh' BY <1>5 DEF RescheduleFresh
<1> QED BY <1>7, <1>8, <1>9, <1>10, <1>11 DEF ExecutionInv

\* Time passes; the lease of a dispatcher about to write "running" holds.
LEMMA TickStep ==
    ASSUME TypeInv, ExecutionInv, Tick
    PROVE  ExecutionInv'
<1>1. \A i \in Jobs : /\ job'[i].status = job[i].status
                     /\ job'[i].attemptCount = job[i].attemptCount
                     /\ job'[i].maxAttempts = job[i].maxAttempts
                     /\ \/ job'[i].lockedFor = job[i].lockedFor
                        \/ job'[i].lockedFor = job[i].lockedFor + 1
  BY DEF Tick, Aged, TypeInv, Typed, Rows
<1>2. pc' = pc /\ \A a \in Actors : /\ loc'[a].cur = loc[a].cur
                                   /\ loc'[a].attempt = loc[a].attempt
  BY DEF Tick, TypeInv, Typed, Locals
<1>3. \A w \in Workers : pc[w] \in Executing => loc[w].cur \in Jobs
  BY DEF TypeInv, LocalsOK, LocalsAt, Actors
<1>4. \A i \in Jobs : job[i].lockedFor \in Nat BY DEF TypeInv, Typed, Rows
<1>5. LockTimeout \in Nat BY BoundsAssumption
<1>6. "markRunning" \in Executing /\ Past \subseteq Executing BY DEF Past, Executing
<1>7. Held'
  <2> SUFFICES ASSUME NEW w \in Workers, pc[w] \in Executing
               PROVE  /\ pc[w] = "markRunning" =>
                           \/ job'[loc[w].cur].status = "failed"
                           \/ /\ job'[loc[w].cur].status = "locked"
                              /\ job'[loc[w].cur].lockedFor < LockTimeout
                      /\ pc[w] \in Past => job'[loc[w].cur].status \in {"running", "failed"}
    BY <1>2, <1>6 DEF Held, Actors
  <2> DEFINE j == loc[w].cur
  <2>1. j \in Jobs BY <1>3
  <2>2. job'[j].status = job[j].status BY <1>1, <2>1
  <2>3. pc[w] = "markRunning" => job[j].lockedFor + 1 < LockTimeout
    BY DEF Tick, LeaseHonoured
  <2>4. pc[w] = "markRunning" => job'[j].lockedFor < LockTimeout
    BY <1>1, <1>4, <1>5, <2>1, <2>3
  <2> QED BY <2>2, <2>4 DEF ExecutionInv, Held
<1>8. JobExclusive' BY <1>2 DEF ExecutionInv, JobExclusive, Executes, Actors
<1>9. TriesCounted'
  BY <1>1, <1>2, <1>3, <1>6 DEF ExecutionInv, TriesCounted, MayTry, Actors
<1>10. AttemptsBounded' BY <1>1 DEF ExecutionInv, AttemptsBounded
<1>11. RescheduleFresh'
  <2>1. \A c \in Clients : pc[c] = "reschedule" => loc[c].cur \in Jobs
    BY DEF TypeInv, LocalsOK, LocalsAt, Actors
  <2> QED BY <1>1, <1>2, <2>1 DEF ExecutionInv, RescheduleFresh, Actors
<1> QED BY <1>7, <1>8, <1>9, <1>10, <1>11 DEF ExecutionInv

\* One actor moves and writes no row.
LEMMA QuietActor ==
    ASSUME TypeInv, ExecutionInv, UNCHANGED job,
           NEW a \in Actors, NEW l, NEW x,
           pc' = [pc EXCEPT ![a] = l], loc' = [loc EXCEPT ![a] = x],
           a \in Workers /\ l \in Executing =>
             /\ pc[a] \in Past /\ l \in Past
             /\ x.cur = loc[a].cur /\ x.attempt = loc[a].attempt,
           a \in Clients /\ l = "reschedule" =>
             "reschedule" \in Ops /\ job[x.cur].status \in Waiting
    PROVE  ExecutionInv'
<1>1. /\ pc'[a] = l /\ loc'[a] = x
      /\ \A b \in Actors \ {a} : pc'[b] = pc[b] /\ loc'[b] = loc[b]
  BY DEF TypeInv, Typed
<1>2. Onward BY <1>1 DEF Onward, Actors
<1>3. Checked BY <1>1 DEF Checked, Actors
<1> QED BY <1>2, <1>3, QuietStep

\* What an actor does when it writes no row: a dispatcher moves on within
\* executeJob with its job and its try, or leaves it; a request that goes on to
\* reschedule or cancel has checked the job.
Quiet(a) ==
    \E l, x :
       /\ pc' = [pc EXCEPT ![a] = l] /\ loc' = [loc EXCEPT ![a] = x]
       /\ a \in Workers /\ l \in Executing =>
             /\ pc[a] \in Past \ {"failPost"} /\ l \in Past
             /\ x.cur = loc[a].cur /\ x.attempt = loc[a].attempt
       /\ a \in Clients /\ l = "reschedule" =>
             "reschedule" \in Ops /\ job[x.cur].status \in Waiting
       /\ a \in Clients /\ l \in Canceling =>
             \/ pc[a] \in Canceling /\ x.cur = loc[a].cur
             \/ "cancel" \in Ops /\ job[x.cur].status \in Waiting \cup {"failed"}

LEMMA QuietKeepsExecution ==
    ASSUME TypeInv, ExecutionInv, UNCHANGED job, NEW a \in Actors, Quiet(a)
    PROVE  ExecutionInv'
  BY QuietActor DEF Quiet

LEMMA QuietWorkerStep ==
    ASSUME TypeInv, NEW w \in Workers,
           Scan(w) \/ Skip(w) \/ LoadPost(w) \/ ResetPost(w) \/ FailPost(w)
    PROVE  UNCHANGED job /\ Quiet(w)
<1>1. w \in Actors /\ w \notin Clients BY ActorsAssumption DEF Actors
<1>2. UNCHANGED job BY DEF Scan, Skip, LoadPost, ResetPost, FailPost
<1>3. \/ \E l \in {"idle", "batch"} : \E x :
            pc' = [pc EXCEPT ![w] = l] /\ loc' = [loc EXCEPT ![w] = x]
      \/ \E l \in {"resetPost", "publish"} :
            /\ pc[w] \in Past \ {"failPost"}
            /\ pc' = [pc EXCEPT ![w] = l] /\ loc' = loc
  <2>1. CASE Scan(w) BY <2>1 DEF Scan, Goto, SetLocals
  <2>2. CASE Skip(w) BY <2>2 DEF Skip, Goto, SetLocals
  <2>3. CASE LoadPost(w)
    BY <2>3 DEF LoadPost, Turn, Goto, Past, Executing
  <2>4. CASE ResetPost(w)
    BY <2>4 DEF ResetPost, Turn, Goto, Past, Executing
  <2>5. CASE FailPost(w) BY <2>5 DEF FailPost, NextCandidate, Goto, SetLocals
  <2> QED BY <2>1, <2>2, <2>3, <2>4, <2>5
<1>4. /\ {"idle", "batch"} \cap Executing = {}
      /\ {"resetPost", "publish"} \subseteq Past
  BY DEF Past, Executing, Publishing
<1>5. loc = [loc EXCEPT ![w] = loc[w]] BY <1>1 DEF TypeInv, Typed
<1>6. CASE \E l \in {"idle", "batch"} : \E x :
              pc' = [pc EXCEPT ![w] = l] /\ loc' = [loc EXCEPT ![w] = x]
  BY <1>1, <1>2, <1>4, <1>6 DEF Quiet
<1>7. CASE \E l \in {"resetPost", "publish"} :
              /\ pc[w] \in Past \ {"failPost"}
              /\ pc' = [pc EXCEPT ![w] = l] /\ loc' = loc
  BY <1>1, <1>2, <1>4, <1>5, <1>7 DEF Quiet
<1> QED BY <1>3, <1>6, <1>7

LEMMA QuietClientStep ==
    ASSUME TypeInv, NEW c \in Clients,
           RequestStart(c) \/ SchedulePost(c) \/ CancelRead(c) \/ CancelDraft(c)
           \/ DeleteAnswered(c) \/ Delete(c)
    PROVE  UNCHANGED job /\ Quiet(c)
<1>1. c \in Actors /\ c \notin Workers BY ActorsAssumption DEF Actors
<1>2. UNCHANGED job
  BY DEF RequestStart, StartSchedule, StartReschedule, StartCancel, StartPublish,
         StartDelete, SchedulePost, CancelRead, CancelDraft, DeleteAnswered, Delete
<1>3. loc = [loc EXCEPT ![c] = loc[c]] BY <1>1 DEF TypeInv, Typed
<1>4. CASE StartReschedule(c)
  <2>1. PICK i \in Jobs, d \in 1..MaxDelay :
           /\ job[i].status \in Waiting
           /\ loc' = [loc EXCEPT ![c] = [NoLocals EXCEPT !.cur = i, !.delay = d]]
    BY <1>4 DEF StartReschedule, SetLocals
  <2>2. [NoLocals EXCEPT !.cur = i, !.delay = d].cur = i BY DEF NoLocals
  <2>3. "reschedule" \in Ops /\ pc' = [pc EXCEPT ![c] = "reschedule"]
    BY <1>4 DEF StartReschedule, Goto
  <2>4. "reschedule" \notin Canceling BY DEF Canceling
  <2> QED BY <1>1, <1>2, <2>1, <2>2, <2>3, <2>4 DEF Quiet
<1>5. CASE StartCancel(c)
  <2>1. PICK i \in Jobs :
           /\ job[i].status \in Waiting \cup {"failed"}
           /\ loc' = [loc EXCEPT ![c] = [NoLocals EXCEPT !.cur = i, !.tgt = job[i].post]]
    BY <1>5 DEF StartCancel, SetLocals
  <2>2. [NoLocals EXCEPT !.cur = i, !.tgt = job[i].post].cur = i BY DEF NoLocals
  <2>3. "cancel" \in Ops /\ pc' = [pc EXCEPT ![c] = "cancelRead"]
    BY <1>5 DEF StartCancel, Goto
  <2> QED BY <1>1, <1>2, <2>1, <2>2, <2>3 DEF Quiet
<1>6. CASE CancelRead(c) \/ CancelDraft(c)
  <2>1. \E l \in Canceling : pc' = [pc EXCEPT ![c] = l]
    BY <1>6 DEF CancelRead, CancelDraft, Goto, Canceling
  <2>2. pc[c] \in Canceling /\ loc' = loc
    BY <1>6 DEF CancelRead, CancelDraft, Turn, Canceling
  <2>3. "reschedule" \notin Canceling BY DEF Canceling
  <2>4. \A l \in Canceling : l # "reschedule" BY <2>3
  <2> QED BY <1>1, <1>2, <1>3, <2>1, <2>2, <2>4 DEF Quiet
<1>7. CASE \/ StartSchedule(c) \/ StartPublish(c) \/ StartDelete(c)
           \/ SchedulePost(c) \/ DeleteAnswered(c) \/ Delete(c)
  <2>1. \E l, x : /\ l \notin Canceling \cup {"reschedule"}
                  /\ pc' = [pc EXCEPT ![c] = l] /\ loc' = [loc EXCEPT ![c] = x]
    BY <1>3, <1>7 DEF StartSchedule, StartPublish, StartDelete, SchedulePost,
       DeleteAnswered, Delete, Goto, SetLocals, Respond, Canceling
  <2> QED BY <1>1, <1>2, <2>1 DEF Quiet
<1> QED BY <1>4, <1>5, <1>6, <1>7 DEF RequestStart

\* A dispatcher stays within executeJob with its job and its try, a request
\* never ends up rescheduling or canceling.
LEMMA QuietPublicationStep ==
    ASSUME TypeInv, NEW a \in Actors, PublishStep(a) \/ ProviderStep(a)
    PROVE  UNCHANGED job /\ Quiet(a)
<1>1. UNCHANGED job
  BY DEF PublishStep, ProviderStep, Publish, NoAccount, MarkPublishing,
         RecordPublished, RecordFailed, Accept, Reject, Reply, LoseReply
<1>2. loc = [loc EXCEPT ![a] = loc[a]] BY DEF TypeInv, Typed
<1>3. \A e : LET x == [loc[a] EXCEPT !.err = e] IN
              x.cur = loc[a].cur /\ x.attempt = loc[a].attempt
  BY DEF TypeInv, Typed, Locals
<1> DEFINE After(l, x) == pc' = [pc EXCEPT ![a] = l] /\ loc' = [loc EXCEPT ![a] = x]
           Steady == \E l \in Past : \E x : /\ pc[a] \in Publishing /\ After(l, x)
                                        /\ x.cur = loc[a].cur /\ x.attempt = loc[a].attempt
           Answered == a \notin Workers /\ After("idle", NoLocals)
<1>4. /\ Publishing \subseteq Past /\ {"succeedJob", "failJob"} \subseteq Past
      /\ "reschedule" \notin Past /\ Past \cap Canceling = {}
      /\ "failPost" \notin Publishing
      /\ {"markPublishing", "calling", "accepted", "recordPublished", "recordFailed"}
           \subseteq Past
  BY DEF Past, Executing, Publishing, Canceling
<1>5. ASSUME NEW e, Throw(a, e), pc[a] \in Publishing PROVE Steady \/ Answered
  <2>1. CASE a \in Workers
    <3> DEFINE x == [loc[a] EXCEPT !.err = e]
    <3>1. After("failJob", x) BY <1>5, <2>1 DEF Throw, Goto, SetLocals
    <3>2. x.cur = loc[a].cur /\ x.attempt = loc[a].attempt BY <1>3
    <3> HIDE DEF x, After
    <3> QED BY <1>4, <1>5, <3>1, <3>2
  <2>2. CASE a \notin Workers BY <1>5, <2>2 DEF Throw, Respond, Goto, SetLocals
  <2> QED BY <2>1, <2>2
<1>6. ASSUME NEW l \in Past, Goto(a, l), UNCHANGED loc, pc[a] \in Publishing PROVE Steady
  BY <1>2, <1>6 DEF Goto
<1>7. ASSUME NEW l \in Past, NEW e, Goto(a, l), SetLocals(a, [loc[a] EXCEPT !.err = e]),
             pc[a] \in Publishing
      PROVE  Steady
  BY <1>3, <1>7 DEF Goto, SetLocals
<1>8. Steady \/ Answered
  <2>0. /\ {"publish", "markPublishing", "calling", "accepted", "recordPublished",
             "recordFailed"} \subseteq Publishing
    BY DEF Publishing
  <2>1. CASE Publish(a) BY <1>4, <1>5, <1>6, <2>0, <2>1 DEF Publish, Turn
  <2>2. CASE NoAccount(a) BY <1>5, <2>0, <2>2 DEF NoAccount, Turn
  <2>3. CASE MarkPublishing(a) BY <1>4, <1>5, <1>6, <2>0, <2>3 DEF MarkPublishing, Turn
  <2>4. CASE RecordPublished(a)
    <3>1. ReturnPublished(a) /\ pc[a] \in Publishing BY <2>0, <2>4 DEF RecordPublished, Turn
    <3>2. CASE a \in Workers BY <1>4, <1>6, <3>1, <3>2 DEF ReturnPublished
    <3>3. CASE a \notin Workers
      BY <3>1, <3>3 DEF ReturnPublished, Respond, Goto, SetLocals
    <3> QED BY <3>2, <3>3
  <2>5. CASE RecordFailed(a) BY <1>5, <2>0, <2>5 DEF RecordFailed, Turn
  <2>6. CASE Accept(a) BY <1>4, <1>6, <2>0, <2>6 DEF Accept
  <2>7. CASE Reject(a) BY <1>4, <1>5, <1>7, <2>0, <2>7 DEF Reject, Turn
  <2>8. CASE Reply(a) BY <1>4, <1>6, <2>0, <2>8 DEF Reply, Turn
  <2>9. CASE LoseReply(a) BY <1>4, <1>7, <2>0, <2>9 DEF LoseReply, Turn
  <2> HIDE DEF Steady, Answered
  <2> QED BY <2>1, <2>2, <2>3, <2>4, <2>5, <2>6, <2>7, <2>8, <2>9 DEF PublishStep, ProviderStep
<1>9. CASE Steady BY <1>1, <1>4, <1>9 DEF Quiet
<1>10. CASE Answered
  <2>1. "idle" \notin Canceling \cup {"reschedule"} BY DEF Canceling
  <2> QED BY <1>1, <1>10, <2>1 DEF Quiet
<1> QED BY <1>8, <1>9, <1>10

LEMMA CrashStep ==
    ASSUME TypeInv, ExecutionInv, NEW h \in Hosts, Crash(h)
    PROVE  ExecutionInv'
<1>1. \A a \in Actors : \/ pc'[a] = "idle"
                        \/ pc'[a] = pc[a] /\ loc'[a] = loc[a]
  BY DEF Crash
<1>2. Onward BY <1>1 DEF Onward, Actors, Executing, Publishing
<1>3. Checked BY <1>1 DEF Checked, Actors
<1> QED BY <1>2, <1>3, QuietStep DEF Crash

LEMMA StepExecutionInv ==
    ASSUME SafeDeployment
    PROVE  TypeInv /\ ExecutionInv /\ [Next]_vars => ExecutionInv'
<1> SUFFICES ASSUME TypeInv, ExecutionInv, [Next]_vars PROVE ExecutionInv' OBVIOUS
<1>1. ASSUME NEW w \in Workers, WorkerStep(w) PROVE ExecutionInv'
  <2>1. CASE Scan(w) \/ Skip(w) \/ LoadPost(w) \/ ResetPost(w) \/ FailPost(w)
    BY <2>1, QuietWorkerStep, QuietKeepsExecution DEF Actors
  <2> QED BY <1>1, <2>1, LockStep, MarkRunningStep, OutcomeStep DEF WorkerStep, ExecuteStep
<1>2. ASSUME NEW c \in Clients, RequestStart(c) \/ RequestStep(c) PROVE ExecutionInv'
  <2>1. CASE \/ RequestStart(c) \/ SchedulePost(c) \/ CancelRead(c) \/ CancelDraft(c)
             \/ DeleteAnswered(c) \/ Delete(c)
    BY <2>1, QuietClientStep, QuietKeepsExecution DEF Actors
  <2> QED BY <1>2, <2>1, CreateStep, RescheduleStep, CancelStep DEF RequestStep
<1>3. ASSUME NEW a \in Actors, PublishStep(a) \/ ProviderStep(a) PROVE ExecutionInv'
  BY <1>3, QuietPublicationStep, QuietKeepsExecution
<1>4. ASSUME Tick PROVE ExecutionInv' BY <1>4, TickStep
<1>5. ASSUME NEW h \in Hosts, Crash(h) PROVE ExecutionInv' BY <1>5, CrashStep
<1>6. ASSUME UNCHANGED vars PROVE ExecutionInv'
  <2>1. Onward /\ Checked
    BY <1>6 DEF vars, Onward, Checked, ExecutionInv, RescheduleFresh
  <2> QED BY <1>6, <2>1, QuietStep DEF vars
<1> QED BY <1>1, <1>2, <1>3, <1>4, <1>5, <1>6 DEF Next

\* No job is ever executed by two dispatchers at once, however many of them
\* there are, through crashes, stale locks, retries and cancellations.
THEOREM Exclusive ==
    ASSUME SafeDeployment
    PROVE  Spec => []JobExclusive
<1>1. ExecutionInv => JobExclusive BY DEF ExecutionInv
<1> QED BY InitTypeInv, StepTypeInv, InitExecutionInv, StepExecutionInv, <1>1, PTL DEF Spec

\* No job is tried more often than maxAttempts allows.
THEOREM TriesBounded ==
    ASSUME SafeDeployment
    PROVE  Spec => []AttemptsBounded
<1>1. ExecutionInv => AttemptsBounded BY DEF ExecutionInv
<1> QED BY InitTypeInv, StepTypeInv, InitExecutionInv, StepExecutionInv, <1>1, PTL DEF Spec

-----------------------------------------------------------------------------
(* What a row goes through: JobLifecycle, and that a cancellation is final.  *)
(* Both need more than ExecutionInv: a row in execution is not only out of   *)
(* lockJob's reach, nobody fails it either.                                  *)

\* Either everything runs in one process, or nothing reschedules or cancels:
\* between the check and the write of cancelSchedule another process may lock
\* the job, run it and publish its post.
SafeCancels ==
    (\A a, b \in Actors : HostOf[a] = HostOf[b]) \/ Ops \cap {"reschedule", "cancel"} = {}

\* A row in execution is the executor's until it writes the outcome.
OwnRows ==
    \A w \in Workers :
      /\ pc[w] = "markRunning" => job[loc[w].cur].status = "locked"
      /\ pc[w] \in Past \ {"failPost"} => job[loc[w].cur].status = "running"

\* What cancelSchedule checked still holds when it writes.
CancelFresh ==
    \A c \in Clients : pc[c] \in Canceling =>
       "cancel" \in Ops /\ job[loc[c].cur].status \in Waiting \cup {"failed"}

NotTriedYet == \A j \in Jobs : job[j].status = "absent" => job[j].attemptCount = 0

RowInv == OwnRows /\ CancelFresh /\ NotTriedYet

LEMMA InitRowInv == Init => RowInv
<1> SUFFICES ASSUME Init PROVE RowInv OBVIOUS
<1>1. \A a \in Actors : pc[a] = "idle" BY DEF Init
<1>2. \A j \in Jobs : job[j].attemptCount = 0 BY DEF Init, NoRow
<1> QED BY <1>1, <1>2 DEF RowInv, OwnRows, CancelFresh, NotTriedYet, Actors, Past,
        Executing, Publishing, Canceling

LEMMA SafeCancelsIsSafe == SafeCancels => SafeDeployment
  BY DEF SafeCancels, SafeDeployment

\* While an actor has its turn, no other request is between the check and the
\* write of cancelSchedule.
LEMMA NoOtherCancel ==
    ASSUME SafeCancels, RowInv, NEW a \in Actors, NEW l, Turn(a, l)
    PROVE  \A c \in Clients \ {a} : pc[c] \notin Canceling
<1> SUFFICES ASSUME NEW c \in Clients \ {a}, pc[c] \in Canceling PROVE FALSE OBVIOUS
<1>1. "cancel" \in Ops BY DEF RowInv, CancelFresh
<1>2. HostOf[c] = HostOf[a] BY <1>1 DEF SafeCancels, Actors
<1>3. pc[c] \in Yielding BY <1>2 DEF Turn, Actors
<1> QED BY <1>3 DEF Yielding, Canceling

\* One actor moves and writes no row.
LEMMA QuietRows ==
    ASSUME TypeInv, RowInv, UNCHANGED job,
           NEW a \in Actors, NEW l, NEW x,
           pc' = [pc EXCEPT ![a] = l], loc' = [loc EXCEPT ![a] = x],
           a \in Workers /\ l \in Executing \ {"failPost"} =>
             /\ pc[a] \in Past \ {"failPost"} /\ l \in Past /\ x.cur = loc[a].cur,
           a \in Clients /\ l \in Canceling =>
             "cancel" \in Ops /\ job[x.cur].status \in Waiting \cup {"failed"}
    PROVE  RowInv'
<1>1. /\ pc'[a] = l /\ loc'[a] = x
      /\ \A b \in Actors \ {a} : pc'[b] = pc[b] /\ loc'[b] = loc[b]
  BY DEF TypeInv, Typed
<1>2. "markRunning" \in Executing \ {"failPost"} /\ Past \subseteq Executing
      /\ "markRunning" \notin Past
  BY DEF Past, Executing
<1>3. OwnRows' BY <1>1, <1>2 DEF RowInv, OwnRows, Actors
<1>4. CancelFresh' BY <1>1 DEF RowInv, CancelFresh, Actors
<1>5. NotTriedYet' BY DEF RowInv, NotTriedYet
<1> QED BY <1>3, <1>4, <1>5 DEF RowInv

\* One actor writes the row of a job that nobody else executes.
LEMMA WrittenRow ==
    ASSUME TypeInv, RowInv, NEW a \in Actors, NEW l, NEW x, NEW j \in Jobs, NEW r,
           pc' = [pc EXCEPT ![a] = l], loc' = [loc EXCEPT ![a] = x],
           job' = [job EXCEPT ![j] = r], r.status # "absent",
           \A v \in Workers \ {a} : ~Executes(v, j) \/ pc[v] = "failPost",
           \A c \in Clients \ {a} : pc[c] \notin Canceling, l \notin Canceling,
           a \in Workers /\ l = "markRunning" => x.cur = j /\ r.status = "locked",
           a \in Workers /\ l \in Past \ {"failPost"} => x.cur = j /\ r.status = "running"
    PROVE  RowInv'
<1>1. /\ job'[j] = r /\ \A i \in Jobs \ {j} : job'[i] = job[i]
      /\ pc'[a] = l /\ loc'[a] = x
      /\ \A b \in Actors \ {a} : pc'[b] = pc[b] /\ loc'[b] = loc[b]
  BY DEF TypeInv, Typed
<1>2. "markRunning" \in Executing /\ Past \subseteq Executing
      /\ "markRunning" # "failPost"
  BY DEF Past, Executing
<1>3. ASSUME NEW v \in Workers \ {a}, pc'[v] \in Executing, pc'[v] # "failPost"
      PROVE  /\ pc'[v] = pc[v] /\ loc'[v] = loc[v]
             /\ job'[loc[v].cur] = job[loc[v].cur]
  <2>1. v \in Actors /\ pc'[v] = pc[v] /\ loc'[v] = loc[v] BY <1>1 DEF Actors
  <2>2. loc[v].cur \in Jobs \ {j}
    BY <1>3, <2>1 DEF TypeInv, LocalsOK, LocalsAt, Executes
  <2> QED BY <1>1, <2>1, <2>2
<1>4. OwnRows' BY <1>1, <1>2, <1>3 DEF RowInv, OwnRows
<1>5. CancelFresh' BY <1>1 DEF CancelFresh, Actors
<1>6. NotTriedYet' BY <1>1 DEF RowInv, NotTriedYet
<1> QED BY <1>4, <1>5, <1>6 DEF RowInv

\* What a step does to one row.
Stays(r, s)   == /\ r.status \in Waiting \cup {"locked"} /\ s.status \in Waiting \cup {"locked"}
                 /\ s.attemptCount = r.attemptCount
Submits(r, s) == r.status = "absent" /\ s.status \in Waiting /\ s.attemptCount = 0
Begins(r, s)  == /\ r.status = "locked" /\ s.status = "running" /\ MayTry(r)
                 /\ s.attemptCount = r.attemptCount + 1
Retries(r, s) == /\ r.status = "running" /\ s.status \in Waiting
                 /\ r.attemptCount < r.maxAttempts /\ s.attemptCount = r.attemptCount
Ends(r, s)    == /\ r.status = "running" /\ s.status \in {"succeeded", "failed"}
                 /\ s.attemptCount = r.attemptCount
Cancels(r, s) == /\ r.status \in Waiting \cup {"failed"} /\ s.status = "failed"
                 /\ s.lastError = "canceled_by_user" /\ s.attemptCount = r.attemptCount

RowMoves(r, s) ==
    \/ Submits(r, s) /\ s.maxAttempts \in Nat
    \/ /\ Stays(r, s) \/ Begins(r, s) \/ Retries(r, s) \/ Ends(r, s) \/ Cancels(r, s)
       /\ s.maxAttempts = r.maxAttempts

\* Time leaves everything in a row that the properties look at.
Timeless ==
    \A j \in Jobs : /\ job'[j].status = job[j].status
                    /\ job'[j].attemptCount = job[j].attemptCount
                    /\ job'[j].maxAttempts = job[j].maxAttempts
                    /\ job'[j].lastError = job[j].lastError

RowsMove ==
    \/ UNCHANGED job
    \/ Timeless
    \/ \E j \in Jobs : \E s : job' = [job EXCEPT ![j] = s] /\ RowMoves(job[j], s)

LEMMA LockMove ==
    ASSUME SafeCancels, TypeInv, ExecutionInv, RowInv, NEW w \in Workers, Lock(w)
    PROVE  RowInv' /\ RowsMove
<1>0. w \in Actors /\ loc[w].cand \in SUBSET Jobs BY DEF TypeInv, Typed, Actors, Locals
<1>1. PICK j \in Jobs :
         /\ Lockable(j)
         /\ SetJob(j, [job[j] EXCEPT !.status = "locked", !.lockedFor = 0])
         /\ SetLocals(w, [loc[w] EXCEPT !.cand = @ \ {j}, !.cur = j, !.tgt = job[j].post,
                                        !.attempt = job[j].attemptCount + 1])
  BY <1>0 DEF Lock
<1> DEFINE r == [job[j] EXCEPT !.status = "locked", !.lockedFor = 0]
           x == [loc[w] EXCEPT !.cand = @ \ {j}, !.cur = j, !.tgt = job[j].post,
                               !.attempt = job[j].attemptCount + 1]
<1>2. \A v \in Workers \ {w} : ~Executes(v, j)
  BY <1>1, ExecutedRow DEF Executes
<1>3. \A c \in Clients \ {w} : pc[c] \notin Canceling
  BY <1>0, NoOtherCancel DEF Lock
<1>4. /\ r.status = "locked" /\ r.attemptCount = job[j].attemptCount
      /\ r.maxAttempts = job[j].maxAttempts /\ x.cur = j
  BY <1>0 DEF TypeInv, Typed, Rows, Locals
<1>5. /\ pc' = [pc EXCEPT ![w] = "markRunning"] /\ loc' = [loc EXCEPT ![w] = x]
      /\ job' = [job EXCEPT ![j] = r]
  BY <1>1 DEF Lock, Goto, SetLocals, SetJob
<1>6. RowMoves(job[j], r)
  BY <1>1, <1>4 DEF RowMoves, Stays, Lockable
<1>7. "markRunning" \notin Canceling /\ "markRunning" \notin Past
  BY DEF Canceling, Past
<1> HIDE DEF r, x
<1>8. RowInv' BY <1>0, <1>2, <1>3, <1>4, <1>5, <1>7, WrittenRow
<1> QED BY <1>5, <1>6, <1>8 DEF RowsMove

LEMMA MarkRunningMove ==
    ASSUME SafeCancels, TypeInv, ExecutionInv, RowInv, NEW w \in Workers, MarkRunning(w)
    PROVE  RowInv' /\ RowsMove
<1> DEFINE j == loc[w].cur
           r == [job[j] EXCEPT !.status = "running", !.attemptCount = loc[w].attempt]
<1>1. w \in Actors /\ pc[w] = "markRunning" BY DEF MarkRunning, Turn, Actors
<1>2. j \in Jobs /\ \A v \in Workers \ {w} : ~Executes(v, j)
  BY <1>1, ExecutedRow DEF Executing
<1>3. \A c \in Clients \ {w} : pc[c] \notin Canceling
  BY <1>1, NoOtherCancel DEF MarkRunning
<1>4. /\ loc[w].attempt = job[j].attemptCount + 1 /\ MayTry(job[j])
      /\ job[j].status = "locked"
  BY <1>1 DEF ExecutionInv, TriesCounted, RowInv, OwnRows
<1>5. /\ r.status = "running" /\ r.attemptCount = loc[w].attempt
      /\ r.maxAttempts = job[j].maxAttempts
  BY <1>2 DEF TypeInv, Typed, Rows
<1>6. /\ pc' = [pc EXCEPT ![w] = "loadPost"] /\ loc' = [loc EXCEPT ![w] = loc[w]]
      /\ job' = [job EXCEPT ![j] = r]
  BY <1>1 DEF MarkRunning, Goto, SetJob, TypeInv, Typed
<1>7. RowMoves(job[j], r) BY <1>4, <1>5 DEF RowMoves, Begins
<1> HIDE DEF r
<1>8. RowInv' BY <1>1, <1>2, <1>3, <1>5, <1>6, WrittenRow DEF Canceling
<1> QED BY <1>2, <1>6, <1>7, <1>8 DEF RowsMove

LEMMA OutcomeMove ==
    ASSUME SafeCancels, TypeInv, ExecutionInv, RowInv, NEW w \in Workers,
           SucceedJob(w) \/ RetryJob(w) \/ FailJob(w)
    PROVE  RowInv' /\ RowsMove
<1>1. w \in Actors /\ pc[w] \in {"succeedJob", "failJob"}
  BY DEF SucceedJob, RetryJob, FailJob, Turn, Actors
<1>a. pc[w] \in Past \ {"failPost"} /\ pc[w] \in Executing
  BY <1>1 DEF Past, Executing
<1> DEFINE j == loc[w].cur
<1>2. j \in Jobs /\ \A v \in Workers \ {w} : ~Executes(v, j)
  BY <1>a, ExecutedRow
<1>3. \A c \in Clients \ {w} : pc[c] \notin Canceling
  BY <1>1, NoOtherCancel DEF SucceedJob, RetryJob, FailJob
<1>4. job[j].status = "running" /\ loc[w].attempt = job[j].attemptCount
  BY <1>a DEF RowInv, OwnRows, ExecutionInv, TriesCounted
<1>5. job[j] \in Rows BY <1>2 DEF TypeInv, Typed
<1> DEFINE l == IF loc[w].cand = {} THEN "idle" ELSE "batch"
           x == [NoLocals EXCEPT !.cand = loc[w].cand]
<1>6. l \notin Executing /\ l \notin Canceling BY DEF Executing, Publishing, Canceling
<1>b. "markRunning" \in Executing /\ Past \subseteq Executing BY DEF Executing, Past
<1>8. CASE SucceedJob(w)
  <2> DEFINE r == [job[j] EXCEPT !.status = "succeeded", !.lockedFor = 0,
                                 !.nextRetryIn = 0, !.lastError = "null"]
  <2>1. /\ r.status = "succeeded" /\ r.attemptCount = job[j].attemptCount
        /\ r.maxAttempts = job[j].maxAttempts
    BY <1>5 DEF Rows
  <2>2. /\ pc' = [pc EXCEPT ![w] = l] /\ loc' = [loc EXCEPT ![w] = x]
        /\ job' = [job EXCEPT ![j] = r]
    BY <1>8 DEF SucceedJob, NextCandidate, Goto, SetLocals, SetJob
  <2>3. RowMoves(job[j], r) BY <1>4, <2>1 DEF RowMoves, Ends
  <2> HIDE DEF r, l, x, j
  <2>4. RowInv' BY <1>1, <1>2, <1>3, <1>6, <1>b, <2>1, <2>2, WrittenRow
  <2> QED BY <1>2, <2>2, <2>3, <2>4 DEF RowsMove
<1>9. CASE RetryJob(w)
  <2> DEFINE r == [job[j] EXCEPT !.status = "retrying", !.lockedFor = 0,
                                 !.nextRetryIn = BackoffFor(loc[w].attempt),
                                 !.lastError = "retryable"]
  <2>1. /\ r.status = "retrying" /\ r.attemptCount = job[j].attemptCount
        /\ r.maxAttempts = job[j].maxAttempts
    BY <1>5 DEF Rows
  <2>2. /\ pc' = [pc EXCEPT ![w] = l] /\ loc' = [loc EXCEPT ![w] = x]
        /\ job' = [job EXCEPT ![j] = r]
    BY <1>9 DEF RetryJob, NextCandidate, Goto, SetLocals, SetJob
  <2>3. RowMoves(job[j], r)
    BY <1>4, <1>9, <2>1 DEF RowMoves, Retries, RetryJob, ShouldRetry, Waiting
  <2> HIDE DEF r, l, x, j
  <2>4. RowInv' BY <1>1, <1>2, <1>3, <1>6, <1>b, <2>1, <2>2, WrittenRow
  <2> QED BY <1>2, <2>2, <2>3, <2>4 DEF RowsMove
<1>10. CASE FailJob(w)
  <2> DEFINE r == [job[j] EXCEPT !.status = "failed", !.lockedFor = 0,
                                 !.nextRetryIn = 0, !.lastError = "terminal"]
  <2>1. /\ r.status = "failed" /\ r.attemptCount = job[j].attemptCount
        /\ r.maxAttempts = job[j].maxAttempts
    BY <1>5 DEF Rows
  <2>2. /\ pc' = [pc EXCEPT ![w] = "failPost"] /\ loc' = [loc EXCEPT ![w] = loc[w]]
        /\ job' = [job EXCEPT ![j] = r]
    BY <1>1, <1>10 DEF FailJob, Goto, SetJob, TypeInv, Typed
  <2>3. RowMoves(job[j], r) BY <1>4, <2>1 DEF RowMoves, Ends
  <2> HIDE DEF r
  <2>4. RowInv' BY <1>1, <1>2, <1>3, <2>1, <2>2, WrittenRow DEF Canceling
  <2> QED BY <1>2, <2>2, <2>3, <2>4 DEF RowsMove
<1> QED BY <1>8, <1>9, <1>10

LEMMA CreateMove ==
    ASSUME SafeCancels, TypeInv, ExecutionInv, RowInv, NEW c \in Clients, CreateJob(c)
    PROVE  RowInv' /\ RowsMove
<1> DEFINE r == [NoRow EXCEPT !.status = "pending", !.post = loc[c].tgt,
                              !.scheduledIn = loc[c].delay,
                              !.maxAttempts = loc[c].maxAttempts]
<1>1. PICK j \in Jobs : job[j].status = "absent" /\ SetJob(j, r)
  BY DEF CreateJob, Slots
<1>2. c \in Actors /\ c \notin Workers BY ActorsAssumption DEF Actors
<1>3. \A v \in Workers \ {c} : ~Executes(v, j)
  BY <1>1, ExecutedRow DEF Executes
<1>4. \A d \in Clients \ {c} : pc[d] \notin Canceling
  BY <1>2, NoOtherCancel DEF CreateJob
<1>5. r.status = "pending" /\ r.attemptCount = 0 /\ r.maxAttempts \in Nat
  BY <1>2 DEF NoRow, TypeInv, Typed, Locals
<1>6. /\ pc' = [pc EXCEPT ![c] = "idle"] /\ loc' = [loc EXCEPT ![c] = NoLocals]
      /\ job' = [job EXCEPT ![j] = r]
  BY <1>1 DEF CreateJob, Respond, Goto, SetLocals, SetJob
<1>7. "idle" \notin Canceling BY DEF Canceling
<1>8. RowMoves(job[j], r) BY <1>1, <1>5 DEF RowMoves, Submits, Waiting
<1> HIDE DEF r
<1>9. RowInv' BY <1>1, <1>2, <1>3, <1>4, <1>5, <1>6, <1>7, WrittenRow
<1> QED BY <1>1, <1>6, <1>8, <1>9 DEF RowsMove

\* updateSchedule and cancelSchedule write a row that waits or has failed.
LEMMA UserMove ==
    ASSUME SafeCancels, TypeInv, ExecutionInv, RowInv, NEW c \in Clients,
           Reschedule(c) \/ CancelJob(c)
    PROVE  RowInv' /\ RowsMove
<1> DEFINE j == loc[c].cur
<1>1. /\ c \in Actors /\ c \notin Workers
      /\ Reschedule(c) => pc[c] = "reschedule" /\ Turn(c, "reschedule")
      /\ CancelJob(c) => pc[c] = "cancelJob" /\ Turn(c, "cancelJob")
  BY ActorsAssumption DEF Actors, Reschedule, CancelJob, Turn
<1>2. j \in Jobs BY <1>1 DEF TypeInv, LocalsOK, LocalsAt
<1>3. /\ Reschedule(c) => job[j].status \in Waiting
      /\ CancelJob(c) => job[j].status \in Waiting \cup {"failed"}
  BY <1>1 DEF ExecutionInv, RescheduleFresh, RowInv, CancelFresh, Canceling
<1>4. \A v \in Workers \ {c} : ~Executes(v, j) \/ pc[v] = "failPost"
  <2> SUFFICES ASSUME NEW v \in Workers, Executes(v, j), pc[v] # "failPost" PROVE FALSE
    OBVIOUS
  <2>1. pc[v] = "markRunning" \/ pc[v] \in Past \ {"failPost"} BY DEF Executes, Past
  <2>2. job[j].status \in {"locked", "running"}
    BY <2>1 DEF RowInv, OwnRows, Executes
  <2> QED BY <1>3, <2>2 DEF Waiting
<1>5. \A d \in Clients \ {c} : pc[d] \notin Canceling
  BY <1>1, NoOtherCancel
<1>6. PICK r : /\ job' = [job EXCEPT ![j] = r] /\ r.status \in {"pending", "failed"}
              /\ RowMoves(job[j], r)
  <2>1. CASE Reschedule(c)
    <3> DEFINE r == [job[j] EXCEPT !.status = "pending", !.lockedFor = 0,
                                   !.scheduledIn = loc[c].delay, !.nextRetryIn = 0]
    <3>1. /\ r.status = "pending" /\ r.attemptCount = job[j].attemptCount
          /\ r.maxAttempts = job[j].maxAttempts
      BY <1>2 DEF TypeInv, Typed, Rows
    <3>2. job' = [job EXCEPT ![j] = r] BY <2>1 DEF Reschedule, SetJob
    <3>3. RowMoves(job[j], r) BY <1>3, <2>1, <3>1 DEF RowMoves, Stays, Waiting
    <3> HIDE DEF r
    <3> QED BY <3>1, <3>2, <3>3
  <2>2. CASE CancelJob(c)
    <3> DEFINE r == [job[j] EXCEPT !.status = "failed", !.lastError = "canceled_by_user"]
    <3>1. /\ r.status = "failed" /\ r.attemptCount = job[j].attemptCount
          /\ r.maxAttempts = job[j].maxAttempts /\ r.lastError = "canceled_by_user"
      BY <1>2 DEF TypeInv, Typed, Rows
    <3>2. job' = [job EXCEPT ![j] = r] BY <2>2 DEF CancelJob, SetJob
    <3>3. RowMoves(job[j], r) BY <1>3, <2>2, <3>1 DEF RowMoves, Cancels
    <3> HIDE DEF r
    <3> QED BY <3>1, <3>2, <3>3
  <2> QED BY <2>1, <2>2
<1>7. pc' = [pc EXCEPT ![c] = "idle"] /\ loc' = [loc EXCEPT ![c] = NoLocals]
  BY DEF Reschedule, CancelJob, Respond, Goto, SetLocals
<1>8. "idle" \notin Canceling BY DEF Canceling
<1>9. RowInv'
  <2>1. r.status # "absent" BY <1>6
  <2> QED BY <1>1, <1>2, <1>4, <1>5, <1>6, <1>7, <1>8, <2>1, WrittenRow
<1> QED BY <1>2, <1>6, <1>9 DEF RowsMove

LEMMA TickMove ==
    ASSUME TypeInv, RowInv, Tick
    PROVE  RowInv' /\ RowsMove
<1>1. Timeless BY DEF Timeless, Tick, Aged, TypeInv, Typed, Rows
<1>2. pc' = pc /\ \A a \in Actors : loc'[a].cur = loc[a].cur
  BY DEF Tick, TypeInv, Typed, Locals
<1>3. /\ \A w \in Workers : pc[w] \in Executing => loc[w].cur \in Jobs
      /\ \A c \in Clients : pc[c] \in Canceling => loc[c].cur \in Jobs
  BY DEF TypeInv, LocalsOK, LocalsAt, Actors, Canceling
<1>4. "markRunning" \in Executing /\ Past \subseteq Executing BY DEF Past, Executing
<1>5. OwnRows' BY <1>1, <1>2, <1>3, <1>4 DEF RowInv, OwnRows, Timeless, Actors
<1>6. CancelFresh' BY <1>1, <1>2, <1>3 DEF RowInv, CancelFresh, Timeless, Actors
<1>7. NotTriedYet' BY <1>1 DEF RowInv, NotTriedYet, Timeless
<1> QED BY <1>1, <1>5, <1>6, <1>7 DEF RowInv, RowsMove

LEMMA QuietKeepsRows ==
    ASSUME TypeInv, RowInv, UNCHANGED job, NEW a \in Actors, Quiet(a)
    PROVE  RowInv' /\ RowsMove
<1>1. PICK l, x :
       /\ pc' = [pc EXCEPT ![a] = l] /\ loc' = [loc EXCEPT ![a] = x]
       /\ a \in Workers /\ l \in Executing =>
             /\ pc[a] \in Past \ {"failPost"} /\ l \in Past /\ x.cur = loc[a].cur
       /\ a \in Clients /\ l \in Canceling =>
             \/ pc[a] \in Canceling /\ x.cur = loc[a].cur
             \/ "cancel" \in Ops /\ job[x.cur].status \in Waiting \cup {"failed"}
  BY DEF Quiet
<1>2. a \in Clients /\ l \in Canceling =>
         "cancel" \in Ops /\ job[x.cur].status \in Waiting \cup {"failed"}
  BY <1>1 DEF RowInv, CancelFresh
<1>3. RowInv' BY <1>1, <1>2, QuietRows
<1> QED BY <1>3 DEF RowsMove

LEMMA CrashMove ==
    ASSUME TypeInv, RowInv, NEW h \in Hosts, Crash(h)
    PROVE  RowInv' /\ RowsMove
<1>1. UNCHANGED job /\ \A a \in Actors : \/ pc'[a] = "idle"
                                         \/ pc'[a] = pc[a] /\ loc'[a] = loc[a]
  BY DEF Crash
<1>2. OwnRows' BY <1>1 DEF RowInv, OwnRows, Actors, Past, Executing, Publishing
<1>3. CancelFresh' BY <1>1 DEF RowInv, CancelFresh, Actors, Canceling
<1>4. NotTriedYet' BY <1>1 DEF RowInv, NotTriedYet
<1> QED BY <1>1, <1>2, <1>3, <1>4 DEF RowInv, RowsMove

LEMMA StepRowInv ==
    ASSUME SafeCancels, TypeInv, ExecutionInv, RowInv, [Next]_vars
    PROVE  RowInv' /\ RowsMove
<1>1. ASSUME NEW w \in Workers, WorkerStep(w) PROVE RowInv' /\ RowsMove
  <2>1. CASE Scan(w) \/ Skip(w) \/ LoadPost(w) \/ ResetPost(w) \/ FailPost(w)
    BY <2>1, QuietWorkerStep, QuietKeepsRows DEF Actors
  <2> QED BY <1>1, <2>1, LockMove, MarkRunningMove, OutcomeMove DEF WorkerStep, ExecuteStep
<1>2. ASSUME NEW c \in Clients, RequestStart(c) \/ RequestStep(c) PROVE RowInv' /\ RowsMove
  <2>1. CASE \/ RequestStart(c) \/ SchedulePost(c) \/ CancelRead(c) \/ CancelDraft(c)
             \/ DeleteAnswered(c) \/ Delete(c)
    BY <2>1, QuietClientStep, QuietKeepsRows DEF Actors
  <2> QED BY <1>2, <2>1, CreateMove, UserMove DEF RequestStep
<1>3. ASSUME NEW a \in Actors, PublishStep(a) \/ ProviderStep(a) PROVE RowInv' /\ RowsMove
  BY <1>3, QuietPublicationStep, QuietKeepsRows
<1>4. ASSUME NEW h \in Hosts, Crash(h) PROVE RowInv' /\ RowsMove BY <1>4, CrashMove
<1>5. ASSUME UNCHANGED vars PROVE RowInv' /\ RowsMove
  BY <1>5 DEF vars, RowInv, OwnRows, CancelFresh, NotTriedYet, RowsMove
<1> QED BY <1>1, <1>2, <1>3, <1>4, <1>5, TickMove DEF Next

\* What rows go through is what JobLifecycle allows.
PhaseOf(s) ==
    CASE s = "absent" -> "none"
      [] s \in Waiting \cup {"locked"} -> "waiting"
      [] OTHER -> s

LEMMA PhaseValues ==
    /\ PhaseOf("absent") = "none" /\ PhaseOf("locked") = "waiting"
    /\ \A s \in Waiting : PhaseOf(s) = "waiting"
    /\ \A s \in {"running", "succeeded", "failed"} : PhaseOf(s) = s
  BY DEF PhaseOf, Waiting

LEMMA LifecycleInit == Init => Lifecycle!Init
<1> SUFFICES ASSUME Init PROVE Lifecycle!Init OBVIOUS
<1>1. \A j \in Jobs : job[j].status = "absent" /\ job[j].attemptCount = 0
                       /\ job[j].maxAttempts = 0
  BY DEF Init, NoRow
<1>2. \A j \in Jobs : Phase(j) = "none" BY <1>1 DEF Phase, Waiting
<1> QED BY <1>1, <1>2 DEF Lifecycle!Init

LifecycleVars == << [j \in Jobs |-> Phase(j)], [j \in Jobs |-> job[j].attemptCount],
                    [j \in Jobs |-> job[j].maxAttempts] >>

LEMMA LifecycleStep ==
    ASSUME TypeInv, NotTriedYet, RowsMove
    PROVE  [Lifecycle!Next]_LifecycleVars
<1>1. /\ \A j \in Jobs : Phase(j) = PhaseOf(job[j].status)
      /\ \A j \in Jobs : Phase(j)' = PhaseOf(job'[j].status)
  BY DEF Phase, PhaseOf
<1>2. CASE UNCHANGED job
  BY <1>1, <1>2 DEF LifecycleVars, Phase
<1>3. CASE Timeless
  BY <1>1, <1>3 DEF LifecycleVars, Timeless
<1>4. ASSUME NEW j \in Jobs, NEW s, job' = [job EXCEPT ![j] = s], RowMoves(job[j], s)
      PROVE  [Lifecycle!Next]_LifecycleVars
  <2> DEFINE Ph == [i \in Jobs |-> Phase(i)]
             Tr == [i \in Jobs |-> job[i].attemptCount]
             Li == [i \in Jobs |-> job[i].maxAttempts]
  <2>1. job'[j] = s /\ \A i \in Jobs \ {j} : job'[i] = job[i]
    BY <1>4 DEF TypeInv, Typed
  <2>2. /\ Ph[j] = PhaseOf(job[j].status)
        /\ Ph' = [Ph EXCEPT ![j] = PhaseOf(s.status)]
    BY <1>1, <2>1
  <2>3. /\ Tr[j] = job[j].attemptCount /\ Li[j] = job[j].maxAttempts
        /\ Tr' = [Tr EXCEPT ![j] = s.attemptCount]
        /\ Li' = [Li EXCEPT ![j] = s.maxAttempts]
    BY <2>1
  <2>4. /\ Tr = [Tr EXCEPT ![j] = Tr[j]] /\ Li = [Li EXCEPT ![j] = Li[j]]
        /\ Ph = [Ph EXCEPT ![j] = Ph[j]]
    OBVIOUS
  <2>5. CASE Submits(job[j], s) /\ s.maxAttempts \in Nat
    <3>1. Lifecycle!Submit(j)
      BY <2>2, <2>3, <2>4, <2>5, PhaseValues
         DEF Lifecycle!Submit, Lifecycle!Move, Submits, NotTriedYet
    <3> QED BY <3>1 DEF Lifecycle!Next
  <2>6. CASE Stays(job[j], s) /\ s.maxAttempts = job[j].maxAttempts
    BY <2>2, <2>3, <2>4, <2>6, PhaseValues DEF Stays, LifecycleVars
  <2>7. CASE Begins(job[j], s) /\ s.maxAttempts = job[j].maxAttempts
    <3>1. Lifecycle!Begin(j)
      BY <2>2, <2>3, <2>4, <2>7, PhaseValues
         DEF Lifecycle!Begin, Lifecycle!Move, Begins, MayTry
    <3> QED BY <3>1 DEF Lifecycle!Next
  <2>8. CASE Retries(job[j], s) /\ s.maxAttempts = job[j].maxAttempts
    <3>1. Lifecycle!Retry(j)
      BY <2>2, <2>3, <2>4, <2>8, PhaseValues
         DEF Lifecycle!Retry, Lifecycle!Move, Retries
    <3> QED BY <3>1 DEF Lifecycle!Next
  <2>9. CASE Ends(job[j], s) /\ s.maxAttempts = job[j].maxAttempts
    <3>1. Lifecycle!End(j)
      BY <2>2, <2>3, <2>4, <2>9, PhaseValues
         DEF Lifecycle!End, Lifecycle!Move, Ends
    <3> QED BY <3>1 DEF Lifecycle!Next
  <2>10. CASE Cancels(job[j], s) /\ s.maxAttempts = job[j].maxAttempts
    <3>1. CASE job[j].status = "failed"
      BY <2>2, <2>3, <2>4, <2>10, <3>1, PhaseValues DEF Cancels, LifecycleVars
    <3>2. CASE job[j].status \in Waiting
      <4>1. Lifecycle!End(j)
        BY <2>2, <2>3, <2>4, <2>10, <3>2, PhaseValues
           DEF Lifecycle!End, Lifecycle!Move, Cancels
      <4> QED BY <4>1 DEF Lifecycle!Next
    <3> QED BY <2>10, <3>1, <3>2 DEF Cancels
  <2> QED BY <1>4, <2>5, <2>6, <2>7, <2>8, <2>9, <2>10 DEF RowMoves
<1> QED BY <1>2, <1>3, <1>4 DEF RowsMove

LEMMA CanceledStep ==
    ASSUME TypeInv, RowsMove
    PROVE  \A j \in Jobs : Canceled(j) => Canceled(j)'
<1> SUFFICES ASSUME NEW j \in Jobs, Canceled(j) PROVE Canceled(j)' OBVIOUS
<1>1. CASE UNCHANGED job \/ Timeless BY <1>1 DEF Canceled, Timeless
<1>2. ASSUME NEW i \in Jobs, NEW s, job' = [job EXCEPT ![i] = s], RowMoves(job[i], s)
      PROVE  Canceled(j)'
  <2>1. CASE i # j BY <1>2, <2>1 DEF Canceled, TypeInv, Typed
  <2>2. CASE i = j
    <3>1. job'[j] = s BY <1>2, <2>2 DEF TypeInv, Typed
    <3>2. Cancels(job[j], s)
      BY <1>2, <2>2 DEF Canceled, RowMoves, Submits, Stays, Begins, Retries, Ends, Waiting
    <3> QED BY <3>1, <3>2 DEF Cancels, Canceled
  <2> QED BY <2>1, <2>2
<1> QED BY <1>1, <1>2 DEF RowsMove

\* Every job keeps the promise of JobLifecycle: whatever the dispatchers, locks,
\* crashes and clocks do, a row waits, is tried one try at a time and at most
\* maxAttempts times, and ends once.
THEOREM LifecycleKept ==
    ASSUME SafeCancels
    PROVE  Spec => ImplementsLifecycle
<1> DEFINE I == TypeInv /\ ExecutionInv /\ RowInv
<1>1. Init => I BY InitTypeInv, InitExecutionInv, InitRowInv
<1>2. I /\ [Next]_vars => I'
  BY StepTypeInv, StepExecutionInv, StepRowInv, SafeCancelsIsSafe
<1>3. I /\ [Next]_vars => [Lifecycle!Next]_LifecycleVars
  BY StepRowInv, LifecycleStep DEF RowInv
<1> HIDE DEF I
<1> QED BY <1>1, <1>2, <1>3, LifecycleInit, PTL
       DEF Spec, ImplementsLifecycle, Lifecycle!Spec, LifecycleVars

\* A canceled job is never run, retried or rescheduled again.
THEOREM CancellationsFinal ==
    ASSUME SafeCancels
    PROVE  Spec => CanceledStaysCanceled
<1> DEFINE I == TypeInv /\ ExecutionInv /\ RowInv
<1>1. Init => I BY InitTypeInv, InitExecutionInv, InitRowInv
<1>2. I /\ [Next]_vars => I'
  BY StepTypeInv, StepExecutionInv, StepRowInv, SafeCancelsIsSafe
<1>3. I /\ [Next]_vars => [\A j \in Jobs : Canceled(j) => Canceled(j)']_vars
  BY StepRowInv, CanceledStep
<1> HIDE DEF I
<1> QED BY <1>1, <1>2, <1>3, PTL DEF Spec, CanceledStaysCanceled

-----------------------------------------------------------------------------
(* Dispatchers on posts that were scheduled before, in any number of         *)
(* processes that die and come back: nobody schedules, cancels or publishes  *)
(* meanwhile; deletions may come.  A job's row then tells whether its post   *)
(* is out, and its executor's statement does while it runs.                  *)

OnlyDeletions == Ops \subseteq {"delete"}

IsOut(p)  == platform[p] = lost[p] + 1
NotOut(p) == platform[p] = lost[p]

\* Every job is its post's only one, and the row says whether the post is out.
RowsTell ==
    /\ \A i, j \in Jobs : job[i].post = job[j].post => i = j
    /\ \A j \in Jobs :
         /\ job[j].status # "absent" /\ job[j].post \in Posts
         /\ job[j].status \in Waiting \cup {"locked", "failed"} => NotOut(job[j].post)
         /\ job[j].status = "succeeded" => IsOut(job[j].post)
         /\ NotOut(job[j].post) \/ IsOut(job[j].post)

\* An executor works on its job's post, and its statement says the same.
OutAt == {"accepted", "recordPublished", "succeedJob"}

ExecutorsTell ==
    \A w \in Workers :
       /\ pc[w] \in Executing => loc[w].tgt = job[loc[w].cur].post
       /\ pc[w] \in OutAt => IsOut(loc[w].tgt)
       /\ pc[w] \in Past \ OutAt => NotOut(loc[w].tgt)

\* The requests there are delete; a post nobody has a job for is left alone.
RequestsDelete ==
    /\ \A c \in Clients : pc[c] \in {"idle", "deleting", "delete"}
    /\ \A p \in Posts : (\A j \in Jobs : job[j].post # p) => NotOut(p)

DispatchInv == RowsTell /\ ExecutorsTell /\ RequestsDelete

\* One dispatcher moves, with job j in hand unless it goes elsewhere, and
\* writes no more than that job's row and the count of its post.
LEMMA HandStep ==
    ASSUME TypeInv, DispatchInv, NEW w \in Workers, NEW j \in Jobs, NEW p \in Posts,
           NEW l, NEW x, NEW r,
           pc' = [pc EXCEPT ![w] = l], loc' = [loc EXCEPT ![w] = x],
           job' = [job EXCEPT ![j] = r], p = job[j].post,
           \A v \in Workers \ {w} : ~Executes(v, j),
           r.post = p, r.status # "absent",
           \A q \in Posts \ {p} : platform'[q] = platform[q] /\ lost'[q] = lost[q],
           l \in Executing => x.cur = j /\ x.tgt = p,
           l \in OutAt \/ r.status = "succeeded" => platform'[p] = lost'[p] + 1,
           l \in Past \ OutAt => platform'[p] = lost'[p],
           r.status \in Waiting \cup {"locked", "failed"} => platform'[p] = lost'[p],
           platform'[p] \in {lost'[p], lost'[p] + 1}
    PROVE  DispatchInv'
<1>1. /\ job'[j] = r /\ \A i \in Jobs \ {j} : job'[i] = job[i]
      /\ pc'[w] = l /\ loc'[w] = x /\ w \in Actors /\ w \notin Clients
      /\ \A b \in Actors \ {w} : pc'[b] = pc[b] /\ loc'[b] = loc[b]
  BY ActorsAssumption DEF TypeInv, Typed, Actors
<1>2. \A i \in Jobs : job'[i].post = job[i].post  BY <1>1
<1>3. \A i \in Jobs \ {j} : job[i].post \in Posts \ {p}
  BY DEF DispatchInv, RowsTell
<1>4. RowsTell'
  <2>1. \A i \in Jobs \ {j} : (NotOut(job[i].post) <=> NotOut(job[i].post)')
                           /\ (IsOut(job[i].post) <=> IsOut(job[i].post)')
    BY <1>1, <1>3 DEF NotOut, IsOut
  <2>2. \A i \in Jobs \ {j} :
           /\ job'[i].status # "absent" /\ job'[i].post \in Posts
           /\ job'[i].status \in Waiting \cup {"locked", "failed"} => NotOut(job[i].post)'
           /\ job'[i].status = "succeeded" => IsOut(job[i].post)'
           /\ NotOut(job[i].post)' \/ IsOut(job[i].post)'
    BY <1>1, <2>1 DEF DispatchInv, RowsTell
  <2>3. /\ r.status \in Waiting \cup {"locked", "failed"} => NotOut(job[j].post)'
        /\ r.status = "succeeded" => IsOut(job[j].post)'
        /\ NotOut(job[j].post)' \/ IsOut(job[j].post)'
    BY <1>1 DEF NotOut, IsOut
  <2>. QED  BY <1>1, <1>2, <2>2, <2>3 DEF DispatchInv, RowsTell
<1>5. ExecutorsTell'
  <2>1. ASSUME NEW v \in Workers \ {w}
        PROVE  /\ pc[v] \in Executing => loc[v].tgt = job'[loc[v].cur].post
               /\ pc[v] \in OutAt => platform'[loc[v].tgt] = lost'[loc[v].tgt] + 1
               /\ pc[v] \in Past \ OutAt => platform'[loc[v].tgt] = lost'[loc[v].tgt]
    <3>1. OutAt \subseteq Past /\ Past \subseteq Executing
      BY DEF OutAt, Past, Executing, Publishing
    <3>2. SUFFICES ASSUME pc[v] \in Executing
                   PROVE  /\ loc[v].tgt = job'[loc[v].cur].post
                          /\ loc[v].tgt \in Posts \ {p}
      BY <3>1 DEF DispatchInv, ExecutorsTell, IsOut, NotOut
    <3>3. loc[v].cur \in Jobs \ {j}
      BY <3>2 DEF TypeInv, LocalsOK, LocalsAt, Executes, Actors
    <3>. QED  BY <1>2, <1>3, <3>2, <3>3 DEF DispatchInv, ExecutorsTell
  <2>2. /\ l \in Executing => x.tgt = job'[x.cur].post
        /\ l \in OutAt => platform'[x.tgt] = lost'[x.tgt] + 1
        /\ l \in Past \ OutAt => platform'[x.tgt] = lost'[x.tgt]
    <3>1. OutAt \subseteq Past /\ Past \subseteq Executing
      BY DEF OutAt, Past, Executing, Publishing
    <3>. QED  BY <1>1, <3>1
  <2>3. \A v \in Workers \ {w} : pc'[v] = pc[v] /\ loc'[v] = loc[v]
    BY <1>1 DEF Actors
  <2>. QED  BY <1>1, <2>1, <2>2, <2>3 DEF ExecutorsTell, IsOut, NotOut
<1>6. RequestsDelete'
  <2>1. \A c \in Clients : pc'[c] = pc[c]  BY <1>1 DEF Actors
  <2>. QED
    BY <1>2, <2>1 DEF DispatchInv, RequestsDelete, NotOut
<1>. QED  BY <1>4, <1>5, <1>6 DEF DispatchInv

\* One dispatcher moves on with the job it has marked as running.
LEMMA QuietHand ==
    ASSUME TypeInv, ExecutionInv, DispatchInv, NEW w \in Workers, pc[w] \in Past,
           NEW l \in Past, NEW x, UNCHANGED <<job, sns>>,
           pc' = [pc EXCEPT ![w] = l], loc' = [loc EXCEPT ![w] = x],
           x.cur = loc[w].cur, x.tgt = loc[w].tgt, l \in OutAt <=> pc[w] \in OutAt
    PROVE  DispatchInv'
<1>1. pc[w] \in Executing /\ UNCHANGED <<platform, lost>>  BY DEF Past, sns
<1>2. PICK j \in Jobs : j = loc[w].cur /\ \A v \in Workers \ {w} : ~Executes(v, j)
  BY <1>1, ExecutedRow
<1>3. PICK p \in Posts : p = job[j].post /\ p = loc[w].tgt
  BY <1>1, <1>2 DEF DispatchInv, RowsTell, ExecutorsTell
<1>4. job' = [job EXCEPT ![j] = job[j]]  BY DEF TypeInv, Typed
<1>5. /\ pc[w] \in OutAt => platform[p] = lost[p] + 1
      /\ pc[w] \in Past \ OutAt => platform[p] = lost[p]
  BY <1>3 DEF DispatchInv, ExecutorsTell, IsOut, NotOut
<1>6. /\ job[j].status # "absent"
      /\ job[j].status \in Waiting \cup {"locked", "failed"} => platform[p] = lost[p]
      /\ job[j].status = "succeeded" => platform[p] = lost[p] + 1
  BY <1>3 DEF DispatchInv, RowsTell, IsOut, NotOut
<1>7. PICK r : r = job[j]  OBVIOUS
<1>8. /\ r.post = p /\ r.status # "absent"
      /\ \A q \in Posts \ {p} : platform'[q] = platform[q] /\ lost'[q] = lost[q]
      /\ x.cur = j /\ x.tgt = p /\ job' = [job EXCEPT ![j] = r]
      /\ r.status \in Waiting \cup {"locked", "failed"} => platform'[p] = lost'[p]
  BY <1>1, <1>2, <1>3, <1>4, <1>6, <1>7
<1>9. /\ l \in OutAt \/ r.status = "succeeded" => platform'[p] = lost'[p] + 1
      /\ l \in Past \ OutAt => platform'[p] = lost'[p]
      /\ platform'[p] \in {lost'[p], lost'[p] + 1}
  BY <1>1, <1>5, <1>6, <1>7
<1>. QED  BY <1>2, <1>3, <1>8, <1>9, HandStep

\* An actor goes where it executes and publishes nothing.
LEMMA IdleStep ==
    ASSUME TypeInv, DispatchInv, NEW a \in Actors, NEW l, NEW x, UNCHANGED <<job, sns>>,
           pc' = [pc EXCEPT ![a] = l], loc' = [loc EXCEPT ![a] = x],
           a \in Workers => l \notin Executing,
           a \in Clients => l \in {"idle", "deleting", "delete"}
    PROVE  DispatchInv'
<1>1. /\ pc'[a] = l /\ UNCHANGED <<platform, lost>>
      /\ \A b \in Actors \ {a} : pc'[b] = pc[b] /\ loc'[b] = loc[b]
  BY DEF TypeInv, Typed, sns
<1>2. OutAt \subseteq Executing /\ Past \subseteq Executing
  BY DEF OutAt, Past, Executing, Publishing
<1>3. RowsTell'  BY <1>1 DEF DispatchInv, RowsTell, IsOut, NotOut
<1>4. ExecutorsTell'
  BY <1>1, <1>2 DEF DispatchInv, ExecutorsTell, IsOut, NotOut, Actors
<1>5. RequestsDelete'
  BY <1>1 DEF DispatchInv, RequestsDelete, NotOut, Actors
<1>. QED  BY <1>3, <1>4, <1>5 DEF DispatchInv

\* lockJob: the row waited, so the post is not out.
LEMMA LockTells ==
    ASSUME TypeInv, ExecutionInv, DispatchInv, NEW w \in Workers, Lock(w)
    PROVE  DispatchInv'
<1>1. loc[w].cand \in SUBSET Jobs  BY DEF TypeInv, Typed, Actors, Locals
<1>2. PICK j \in Jobs :
         /\ Lockable(j)
         /\ SetJob(j, [job[j] EXCEPT !.status = "locked", !.lockedFor = 0])
         /\ SetLocals(w, [loc[w] EXCEPT !.cand = @ \ {j}, !.cur = j, !.tgt = job[j].post,
                                        !.attempt = job[j].attemptCount + 1])
  BY <1>1 DEF Lock
<1>3. PICK r : r = [job[j] EXCEPT !.status = "locked", !.lockedFor = 0]  OBVIOUS
<1>4. PICK x : x = [loc[w] EXCEPT !.cand = @ \ {j}, !.cur = j, !.tgt = job[j].post,
                                  !.attempt = job[j].attemptCount + 1]
  OBVIOUS
<1>5. PICK p \in Posts : p = job[j].post  BY DEF DispatchInv, RowsTell
<1>6. /\ r.status = "locked" /\ r.post = p /\ x.cur = j /\ x.tgt = p
  BY <1>3, <1>4, <1>5 DEF TypeInv, Typed, Rows, Locals, Actors
<1>7. platform[p] = lost[p] /\ UNCHANGED <<platform, lost>>
  BY <1>2, <1>5 DEF DispatchInv, RowsTell, NotOut, Lockable, Lock, sns
<1>8. \A v \in Workers \ {w} : ~Executes(v, j)  BY <1>2, ExecutedRow DEF Executes
<1>9. /\ pc' = [pc EXCEPT ![w] = "markRunning"] /\ loc' = [loc EXCEPT ![w] = x]
      /\ job' = [job EXCEPT ![j] = r]
  BY <1>2, <1>3, <1>4 DEF Lock, Goto, SetLocals, SetJob
<1>10. "markRunning" \notin Past \cup OutAt  BY DEF Past, OutAt
<1>. QED  BY <1>5, <1>6, <1>7, <1>8, <1>9, <1>10, HandStep

LEMMA MarkRunningTells ==
    ASSUME TypeInv, ExecutionInv, RowInv, DispatchInv, NEW w \in Workers, MarkRunning(w)
    PROVE  DispatchInv'
<1>1. pc[w] = "markRunning" /\ pc[w] \in Executing
  BY DEF MarkRunning, Turn, Executing
<1>2. PICK j \in Jobs : j = loc[w].cur /\ \A v \in Workers \ {w} : ~Executes(v, j)
  BY <1>1, ExecutedRow
<1>3. PICK p \in Posts : p = job[j].post /\ p = loc[w].tgt
  BY <1>1, <1>2 DEF DispatchInv, RowsTell, ExecutorsTell
<1>4. PICK r : r = [job[j] EXCEPT !.status = "running", !.attemptCount = loc[w].attempt]
  OBVIOUS
<1>5. PICK x : x = loc[w]  OBVIOUS
<1>6. r.status = "running" /\ r.post = p
  BY <1>2, <1>3, <1>4 DEF TypeInv, Typed, Rows
<1>7. platform[p] = lost[p] /\ UNCHANGED <<platform, lost>>
  <2>1. job[j].status = "locked"  BY <1>1, <1>2 DEF RowInv, OwnRows
  <2>. QED
    BY <1>2, <1>3, <2>1 DEF DispatchInv, RowsTell, NotOut, MarkRunning, sns
<1>8. /\ pc' = [pc EXCEPT ![w] = "loadPost"] /\ loc' = [loc EXCEPT ![w] = x]
      /\ job' = [job EXCEPT ![j] = r]
  BY <1>2, <1>4, <1>5 DEF MarkRunning, Goto, SetJob, TypeInv, Typed, Actors
<1>9. "loadPost" \notin OutAt /\ x.cur = j /\ x.tgt = p  BY <1>2, <1>3, <1>5 DEF OutAt
<1>. QED  BY <1>2, <1>3, <1>6, <1>7, <1>8, <1>9, HandStep DEF Waiting

\* The row tells what its executor has seen.
LEMMA OutcomeTells ==
    ASSUME TypeInv, ExecutionInv, DispatchInv, NEW w \in Workers,
           SucceedJob(w) \/ RetryJob(w) \/ FailJob(w)
    PROVE  DispatchInv'
<1>1. pc[w] \in {"succeedJob", "failJob"} /\ pc[w] \in Executing /\ pc[w] \in Past
  BY DEF SucceedJob, RetryJob, FailJob, Turn, Executing, Past
<1>2. PICK j \in Jobs : j = loc[w].cur /\ \A v \in Workers \ {w} : ~Executes(v, j)
  BY <1>1, ExecutedRow
<1>3. PICK p \in Posts : p = job[j].post /\ p = loc[w].tgt
  BY <1>1, <1>2 DEF DispatchInv, RowsTell, ExecutorsTell
<1>4. /\ pc[w] = "succeedJob" => platform[p] = lost[p] + 1
      /\ pc[w] = "failJob" => platform[p] = lost[p]
      /\ UNCHANGED <<platform, lost>>
  BY <1>1, <1>3 DEF DispatchInv, ExecutorsTell, OutAt, IsOut, NotOut,
     SucceedJob, RetryJob, FailJob, sns
<1>5. job[j] \in Rows  BY DEF TypeInv, Typed
<1>6. {"idle", "batch"} \cap Executing = {} /\ Past \subseteq Executing
      /\ OutAt \subseteq Executing
  BY DEF Executing, Publishing, Past, OutAt
<1>7. CASE SucceedJob(w)
  <2>1. PICK r : r = [job[j] EXCEPT !.status = "succeeded", !.lockedFor = 0,
                                    !.nextRetryIn = 0, !.lastError = "null"]
    OBVIOUS
  <2>2. r.status = "succeeded" /\ r.post = p  BY <1>3, <1>5, <2>1 DEF Rows
  <2>3. PICK l : l \in {"idle", "batch"} /\ pc' = [pc EXCEPT ![w] = l]
    BY <1>7 DEF SucceedJob, NextCandidate, Goto
  <2>8. PICK x : loc' = [loc EXCEPT ![w] = x]
    BY <1>7 DEF SucceedJob, NextCandidate, SetLocals
  <2>9. job' = [job EXCEPT ![j] = r]
    BY <1>2, <1>7, <2>1 DEF SucceedJob, SetJob
  <2>4. platform'[p] = lost'[p] + 1  BY <1>4, <1>7 DEF SucceedJob, Turn
  <2>5. l \notin Executing /\ l \notin Past /\ l \notin OutAt  BY <1>6, <2>3
  <2>6. \A q \in Posts \ {p} : platform'[q] = platform[q] /\ lost'[q] = lost[q]
    BY <1>4
  <2>7. r.status \notin Waiting \cup {"locked", "failed"} /\ r.status # "absent"
    BY <2>2 DEF Waiting
  <2>. QED  BY <1>2, <1>3, <2>2, <2>3, <2>4, <2>5, <2>6, <2>7,
      <2>8, <2>9, HandStep
<1>8. CASE RetryJob(w)
  <2>1. PICK r : r = [job[j] EXCEPT !.status = "retrying", !.lockedFor = 0,
                                    !.nextRetryIn = BackoffFor(loc[w].attempt),
                                    !.lastError = "retryable"]
    OBVIOUS
  <2>2. r.status = "retrying" /\ r.post = p  BY <1>3, <1>5, <2>1 DEF Rows
  <2>3. PICK l : l \in {"idle", "batch"} /\ pc' = [pc EXCEPT ![w] = l]
    BY <1>8 DEF RetryJob, NextCandidate, Goto
  <2>8. PICK x : loc' = [loc EXCEPT ![w] = x]
    BY <1>8 DEF RetryJob, NextCandidate, SetLocals
  <2>9. job' = [job EXCEPT ![j] = r]
    BY <1>2, <1>8, <2>1 DEF RetryJob, SetJob
  <2>4. platform'[p] = lost'[p]  BY <1>4, <1>8 DEF RetryJob, Turn
  <2>5. l \notin Executing /\ l \notin Past /\ l \notin OutAt  BY <1>6, <2>3
  <2>6. \A q \in Posts \ {p} : platform'[q] = platform[q] /\ lost'[q] = lost[q]
    BY <1>4
  <2>. QED  BY <1>2, <1>3, <2>2, <2>3, <2>4, <2>5, <2>6, <2>8, <2>9,
      HandStep
<1>9. CASE FailJob(w)
  <2>1. PICK r : r = [job[j] EXCEPT !.status = "failed", !.lockedFor = 0,
                                    !.nextRetryIn = 0, !.lastError = "terminal"]
    OBVIOUS
  <2>2. r.status = "failed" /\ r.post = p  BY <1>3, <1>5, <2>1 DEF Rows
  <2>3. PICK x : x = loc[w]  OBVIOUS
  <2>4. /\ pc' = [pc EXCEPT ![w] = "failPost"] /\ loc' = [loc EXCEPT ![w] = x]
        /\ job' = [job EXCEPT ![j] = r]
    BY <1>2, <1>9, <2>1, <2>3 DEF FailJob, Goto, SetJob, TypeInv, Typed, Actors
  <2>5. platform[p] = lost[p]  BY <1>4, <1>9 DEF FailJob, Turn
  <2>6. "failPost" \notin OutAt /\ x.cur = j /\ x.tgt = p  BY <1>2, <1>3, <2>3 DEF OutAt
  <2>. QED  BY <1>2, <1>3, <1>4, <2>2, <2>4, <2>5, <2>6, HandStep
<1>. QED  BY <1>7, <1>8, <1>9

\* The platform accepts the post, and the answer may be lost.
LEMMA ProviderTells ==
    ASSUME TypeInv, ExecutionInv, RowInv, DispatchInv, NEW w \in Workers,
           Accept(w) \/ LoseReply(w)
    PROVE  DispatchInv'
<1>1. pc[w] \in Executing /\ pc[w] \in Past \ {"failPost"}
  BY DEF Accept, LoseReply, Turn, Executing, Publishing, Past
<1>2. PICK j \in Jobs : j = loc[w].cur /\ \A v \in Workers \ {w} : ~Executes(v, j)
  BY <1>1, ExecutedRow
<1>3. PICK p \in Posts : p = job[j].post /\ p = loc[w].tgt
  BY <1>1, <1>2 DEF DispatchInv, RowsTell, ExecutorsTell
<1>4. PICK r : r = job[j]  OBVIOUS
<1>5. r.status = "running" /\ r.post = p /\ job' = [job EXCEPT ![j] = r]
  BY <1>1, <1>2, <1>3, <1>4 DEF RowInv, OwnRows, Accept, LoseReply, TypeInv, Typed
<1>6. platform \in [Posts -> Nat] /\ lost \in [Posts -> Nat]  BY DEF TypeInv, Typed
<1>7. CASE Accept(w)
  <2>1. platform[p] = lost[p]
    BY <1>3, <1>7 DEF Accept, DispatchInv, ExecutorsTell, NotOut, OutAt, Past,
       Executing, Publishing
  <2>2. /\ platform'[p] = lost'[p] + 1
        /\ \A q \in Posts \ {p} : platform'[q] = platform[q] /\ lost'[q] = lost[q]
    BY <1>3, <1>6, <1>7, <2>1 DEF Accept
  <2>3. PICK x : x = loc[w]  OBVIOUS
  <2>4. /\ pc' = [pc EXCEPT ![w] = "accepted"] /\ loc' = [loc EXCEPT ![w] = x]
    BY <1>7, <2>3 DEF Accept, Goto, TypeInv, Typed, Actors
  <2>5. "accepted" \in OutAt /\ x.cur = j /\ x.tgt = p  BY <1>2, <1>3, <2>3 DEF OutAt
  <2>. QED  BY <1>2, <1>3, <1>5, <2>2, <2>4, <2>5, HandStep DEF Waiting
<1>8. CASE LoseReply(w)
  <2>1. platform[p] = lost[p] + 1
    BY <1>3, <1>8 DEF LoseReply, Turn, DispatchInv, ExecutorsTell, IsOut, OutAt
  <2>2. /\ platform'[p] = lost'[p]
        /\ \A q \in Posts \ {p} : platform'[q] = platform[q] /\ lost'[q] = lost[q]
    BY <1>3, <1>6, <1>8, <2>1 DEF LoseReply
  <2>3. PICK x : x = [loc[w] EXCEPT !.err = "retryable"]  OBVIOUS
  <2>4. /\ pc' = [pc EXCEPT ![w] = "recordFailed"] /\ loc' = [loc EXCEPT ![w] = x]
    BY <1>8, <2>3 DEF LoseReply, Goto, SetLocals
  <2>5. "recordFailed" \notin OutAt /\ x.cur = j /\ x.tgt = p
    BY <1>2, <1>3, <2>3 DEF OutAt, TypeInv, Typed, Locals, Actors
  <2>. QED  BY <1>2, <1>3, <1>5, <2>2, <2>4, <2>5, HandStep DEF Waiting
<1>. QED  BY <1>7, <1>8

LEMMA DispatcherTells ==
    ASSUME TypeInv, ExecutionInv, RowInv, DispatchInv, NEW w \in Workers, WorkerStep(w)
    PROVE  DispatchInv'
<1>1. w \in Actors /\ w \notin Clients /\ loc = [loc EXCEPT ![w] = loc[w]]
  BY ActorsAssumption DEF TypeInv, Typed, Actors
<1>2. {"idle", "batch"} \cap Executing = {}  BY DEF Executing, Publishing
<1>3. CASE Scan(w) \/ Skip(w) \/ FailPost(w)
  <2>1. PICK l, x :
           /\ l \in {"idle", "batch"}
           /\ pc' = [pc EXCEPT ![w] = l] /\ loc' = [loc EXCEPT ![w] = x]
    BY <1>3 DEF Scan, Skip, FailPost, NextCandidate, Goto, SetLocals
  <2>2. UNCHANGED <<job, sns>>  BY <1>3 DEF Scan, Skip, FailPost
  <2>. QED  BY <1>1, <1>2, <2>1, <2>2, IdleStep
<1>4. CASE LoadPost(w) \/ ResetPost(w)
  <2>1. PICK l : l \in {"resetPost", "publish"} /\ pc' = [pc EXCEPT ![w] = l]
    BY <1>4 DEF LoadPost, ResetPost, Goto
  <2>2. pc[w] \in {"loadPost", "resetPost"} /\ UNCHANGED <<job, sns, loc>>
    BY <1>4 DEF LoadPost, ResetPost, Turn
  <2>3. PICK x : x = loc[w]  OBVIOUS
  <2>4. /\ pc[w] \in Past /\ l \in Past /\ l \notin OutAt /\ pc[w] \notin OutAt
        /\ loc' = [loc EXCEPT ![w] = x] /\ x.cur = loc[w].cur /\ x.tgt = loc[w].tgt
    BY <1>1, <2>1, <2>2, <2>3 DEF Past, Executing, Publishing, OutAt
  <2>. QED  BY <2>1, <2>2, <2>4, QuietHand
<1>. QED
  BY <1>3, <1>4, LockTells, MarkRunningTells, OutcomeTells DEF WorkerStep, ExecuteStep

\* The statements of a publication that write no row and call no platform.
LEMMA PublicationTells ==
    ASSUME TypeInv, ExecutionInv, DispatchInv, NEW w \in Workers,
           PublishStep(w) \/ Reject(w) \/ Reply(w)
    PROVE  DispatchInv'
<1>1. UNCHANGED <<job, sns>>
  BY DEF PublishStep, Publish, NoAccount, MarkPublishing, RecordPublished,
         RecordFailed, Reject, Reply
<1>2. loc = [loc EXCEPT ![w] = loc[w]]  BY DEF TypeInv, Typed, Actors
<1>3. \A e : LET x == [loc[w] EXCEPT !.err = e] IN
              x.cur = loc[w].cur /\ x.tgt = loc[w].tgt
  BY DEF TypeInv, Typed, Locals, Actors
<1>. DEFINE Before == {"publish", "markPublishing", "calling", "recordFailed", "failJob"}
            Moved(l) == pc' = [pc EXCEPT ![w] = l]
            Kept == \E x : /\ loc' = [loc EXCEPT ![w] = x]
                           /\ x.cur = loc[w].cur /\ x.tgt = loc[w].tgt
            Early == pc[w] \in Before /\ Kept /\ \E l \in Before : Moved(l)
            Late  == /\ pc[w] \in {"accepted", "recordPublished"} /\ Kept
                     /\ \E l \in {"recordPublished", "succeedJob"} : Moved(l)
<1>0. ASSUME NEW e, SetLocals(w, [loc[w] EXCEPT !.err = e])  PROVE Kept
  <2>1. PICK x : x = [loc[w] EXCEPT !.err = e]  OBVIOUS
  <2>2. loc' = [loc EXCEPT ![w] = x]  BY <1>0, <2>1 DEF SetLocals
  <2>. QED  BY <1>3, <2>1, <2>2
<1>4. ASSUME NEW e, Throw(w, e)  PROVE Kept /\ Moved("failJob")
  BY <1>0, <1>4 DEF Throw, Goto
<1>5. UNCHANGED loc => Kept  BY <1>2
<1>6. Early \/ Late
  <2>1. CASE Publish(w)  BY <1>4, <1>5, <2>1 DEF Publish, Turn, Goto
  <2>2. CASE NoAccount(w)  BY <1>4, <2>2 DEF NoAccount, Turn
  <2>3. CASE MarkPublishing(w)  BY <1>4, <1>5, <2>3 DEF MarkPublishing, Turn, Goto
  <2>4. CASE RecordPublished(w)
    BY <1>5, <2>4 DEF RecordPublished, ReturnPublished, Turn, Goto
  <2>5. CASE RecordFailed(w)  BY <1>4, <2>5 DEF RecordFailed, Turn
  <2>6. CASE Reject(w)  BY <1>0, <1>4, <2>6 DEF Reject, Turn, Goto
  <2>7. CASE Reply(w)  BY <1>5, <2>7 DEF Reply, Turn, Goto
  <2>. QED  BY <2>1, <2>2, <2>3, <2>4, <2>5, <2>6, <2>7 DEF PublishStep
<1>7. /\ Before \cap OutAt = {} /\ Before \subseteq Past
      /\ {"accepted", "recordPublished", "succeedJob"} \subseteq OutAt /\ OutAt \subseteq Past
  BY DEF OutAt, Past, Executing, Publishing
<1>8. CASE Early
  <2>1. PICK l \in Before : Moved(l)  BY <1>8
  <2>2. pc[w] \in Past /\ l \in Past /\ l \notin OutAt /\ pc[w] \notin OutAt
    BY <1>7, <1>8, <2>1
  <2>. QED  BY <1>1, <1>8, <2>1, <2>2, QuietHand
<1>9. CASE Late
  <2>1. PICK l \in {"recordPublished", "succeedJob"} : Moved(l)  BY <1>9
  <2>2. pc[w] \in Past /\ l \in Past /\ l \in OutAt /\ pc[w] \in OutAt
    BY <1>7, <1>9, <2>1
  <2>. QED  BY <1>1, <1>9, <2>1, <2>2, QuietHand
<1>. QED  BY <1>6, <1>8, <1>9

\* A request that is not a deletion does not start, and none is under way.
LEMMA RequestTells ==
    ASSUME OnlyDeletions, TypeInv, DispatchInv, NEW c \in Clients,
           \/ RequestStart(c) \/ RequestStep(c)
           \/ PublishStep(c) \/ ProviderStep(c)
    PROVE  DispatchInv'
<1>1. pc[c] \in {"idle", "deleting", "delete"}  BY DEF DispatchInv, RequestsDelete
<1>2. ~PublishStep(c) /\ ~ProviderStep(c)
  BY <1>1 DEF PublishStep, ProviderStep, Publish, NoAccount, MarkPublishing,
     RecordPublished, RecordFailed, Accept, Reject, Reply, LoseReply, Turn
<1>3. RequestStart(c) => StartDelete(c)
  BY DEF OnlyDeletions, RequestStart, StartSchedule, StartReschedule, StartCancel,
     StartPublish
<1>4. RequestStep(c) => DeleteAnswered(c) \/ Delete(c)
  BY <1>1 DEF RequestStep, SchedulePost, CreateJob, Reschedule, CancelRead,
     CancelDraft, CancelJob, Turn
<1>5. c \in Actors /\ c \notin Workers /\ loc = [loc EXCEPT ![c] = loc[c]]
  BY ActorsAssumption DEF TypeInv, Typed, Actors
<1>6. StartDelete(c) \/ DeleteAnswered(c) \/ Delete(c)  BY <1>2, <1>3, <1>4
<1>7. UNCHANGED <<job, sns>>  BY <1>6 DEF StartDelete, DeleteAnswered, Delete
<1>8. \E l, x : /\ l \in {"idle", "deleting", "delete"}
                /\ pc' = [pc EXCEPT ![c] = l] /\ loc' = [loc EXCEPT ![c] = x]
  BY <1>5, <1>6 DEF StartDelete, DeleteAnswered, Delete, Goto, SetLocals, Respond
<1>. QED  BY <1>5, <1>7, <1>8, IdleStep

LEMMA TickTells ==
    ASSUME TypeInv, DispatchInv, Tick  PROVE DispatchInv'
<1>1. \A j \in Jobs : job'[j].status = job[j].status /\ job'[j].post = job[j].post
  BY DEF Tick, Aged, TypeInv, Typed, Rows
<1>2. \A a \in Actors : loc'[a].cur = loc[a].cur /\ loc'[a].tgt = loc[a].tgt
  BY DEF Tick, TypeInv, Typed, Locals
<1>3. UNCHANGED <<platform, lost, pc>>  BY DEF Tick, sns
<1>4. RowsTell'  BY <1>1, <1>3 DEF DispatchInv, RowsTell, IsOut, NotOut
<1>5. ExecutorsTell'
  <2>1. \A w \in Workers : pc[w] \in Executing => loc[w].cur \in Jobs
    BY DEF TypeInv, LocalsOK, LocalsAt, Actors
  <2>. QED
    BY <1>1, <1>2, <1>3, <2>1 DEF DispatchInv, ExecutorsTell, IsOut, NotOut, Actors
<1>6. RequestsDelete'  BY <1>1, <1>3 DEF DispatchInv, RequestsDelete, NotOut
<1>. QED  BY <1>4, <1>5, <1>6 DEF DispatchInv

\* A process that dies loses track of a publication it had not recorded: of at
\* most one for each post, since one dispatcher alone executes its job.
LEMMA CrashTells ==
    ASSUME TypeInv, ExecutionInv, RowInv, DispatchInv, NEW h \in Hosts, Crash(h)
    PROVE  DispatchInv'
<1>1. /\ UNCHANGED <<post, job, platform>>
      /\ \A a \in Actors : \/ pc'[a] = "idle"
                           \/ pc'[a] = pc[a] /\ loc'[a] = loc[a] /\ HostOf[a] # h
      /\ \A p \in Posts : lost'[p] = lost[p] + Cardinality(Unrecorded(h, p))
  BY DEF Crash
<1>2. OutAt \subseteq Past /\ Past \subseteq Executing /\ "idle" \notin Executing
  BY DEF OutAt, Past, Executing, Publishing
<1>3. \A p \in Posts : platform[p] \in Nat /\ lost[p] \in Nat  BY DEF TypeInv, Typed
<1>4. ASSUME NEW p \in Posts, NEW w \in Actors, w \in Unrecorded(h, p)
      PROVE  /\ w \in Workers /\ Executes(w, loc[w].cur) /\ loc[w].cur \in Jobs
             /\ job[loc[w].cur].post = p /\ job[loc[w].cur].status = "running"
             /\ IsOut(p) /\ HostOf[w] = h
  <2>1. pc[w] \in {"accepted", "recordPublished"} /\ loc[w].tgt = p /\ HostOf[w] = h
    BY <1>4 DEF Unrecorded
  <2>2. w \in Workers  BY <2>1 DEF DispatchInv, RequestsDelete, Actors
  <2>3. pc[w] \in OutAt /\ pc[w] # "failPost"  BY <2>1 DEF OutAt
  <2>4. loc[w].cur \in Jobs  BY <1>2, <2>2, <2>3 DEF TypeInv, LocalsOK, LocalsAt, Actors
  <2>. QED
    BY <1>2, <2>1, <2>2, <2>3, <2>4
       DEF Executes, DispatchInv, ExecutorsTell, RowInv, OwnRows
<1>5. ASSUME NEW p \in Posts
      PROVE  \/ Unrecorded(h, p) = {} /\ lost'[p] = lost[p]
             \/ /\ IsOut(p) /\ lost'[p] = lost[p] + 1
                /\ \E w \in Workers : w \in Unrecorded(h, p)
  <2>0. lost'[p] = lost[p] + Cardinality(Unrecorded(h, p))  BY <1>1
  <2>1. CASE Unrecorded(h, p) = {}
    <3>1. Cardinality({}) = 0  BY FS_EmptySet
    <3>2. lost'[p] = lost[p] + 0  BY <2>0, <2>1, <3>1
    <3>. QED  BY <1>3, <2>1, <3>2
  <2>2. CASE Unrecorded(h, p) # {}
    <3>1. PICK w \in Actors : w \in Unrecorded(h, p)  BY <2>2 DEF Unrecorded
    <3>2. ASSUME NEW v \in Unrecorded(h, p)  PROVE v = w
      <4>1. v \in Actors  BY DEF Unrecorded
      <4>2. loc[v].cur = loc[w].cur
        BY <1>4, <3>1, <4>1 DEF DispatchInv, RowsTell
      <4>. QED  BY <1>4, <3>1, <4>1, <4>2 DEF ExecutionInv, JobExclusive
    <3>3. Unrecorded(h, p) = {w}  BY <3>1, <3>2
    <3>4. Cardinality({w}) = 1  BY FS_Singleton
    <3>5. lost'[p] = lost[p] + 1  BY <2>0, <3>3, <3>4
    <3>. QED  BY <1>4, <3>1, <3>5
  <2>. QED  BY <2>1, <2>2
<1>6. ASSUME NEW j \in Jobs
      PROVE  /\ NotOut(job[j].post)' \/ IsOut(job[j].post)'
             /\ job[j].status # "running" =>
                  /\ NotOut(job[j].post) => NotOut(job[j].post)'
                  /\ IsOut(job[j].post) => IsOut(job[j].post)'
  <2>1. job[j].post \in Posts /\ (NotOut(job[j].post) \/ IsOut(job[j].post))
    BY DEF DispatchInv, RowsTell
  <2>2. \A w \in Workers : w \in Unrecorded(h, job[j].post) => job[j].status = "running"
    BY <1>4, <2>1 DEF DispatchInv, RowsTell, Actors
  <2>. QED  BY <1>1, <1>3, <1>5, <2>1, <2>2 DEF NotOut, IsOut
<1>7. RowsTell'
  BY <1>1, <1>6 DEF DispatchInv, RowsTell, Waiting
<1>8. ASSUME NEW w \in Workers, pc'[w] \in Past
      PROVE  /\ pc'[w] = pc[w] /\ loc'[w] = loc[w] /\ loc[w].tgt \in Posts
             /\ platform'[loc[w].tgt] = platform[loc[w].tgt]
             /\ lost'[loc[w].tgt] = lost[loc[w].tgt]
  <2>1. pc'[w] = pc[w] /\ loc'[w] = loc[w] /\ HostOf[w] # h /\ pc[w] \in Executing
    BY <1>1, <1>2, <1>8 DEF Actors
  <2>2. /\ loc[w].cur \in Jobs /\ loc[w].tgt = job[loc[w].cur].post
        /\ loc[w].tgt \in Posts
    BY <2>1 DEF TypeInv, LocalsOK, LocalsAt, Actors, DispatchInv, ExecutorsTell, RowsTell
  <2>3. ASSUME NEW v \in Workers, v \in Unrecorded(h, loc[w].tgt)  PROVE FALSE
    <3>1. loc[v].cur = loc[w].cur /\ Executes(v, loc[v].cur) /\ HostOf[v] = h
      BY <1>4, <2>2, <2>3 DEF DispatchInv, RowsTell, Actors
    <3>. QED  BY <2>1, <2>2, <3>1 DEF ExecutionInv, JobExclusive, Executes
  <2>. QED  BY <1>1, <1>5, <2>1, <2>2, <2>3
<1>9. ExecutorsTell'
  <2>1. ASSUME NEW w \in Workers, pc'[w] \in Executing
        PROVE  pc'[w] = pc[w] /\ loc'[w] = loc[w]
    BY <1>1, <1>2, <2>1 DEF Actors
  <2>. QED
    BY <1>1, <1>2, <1>8, <2>1 DEF DispatchInv, ExecutorsTell, IsOut, NotOut
<1>10. RequestsDelete'
  <2>1. ASSUME NEW p \in Posts, \A j \in Jobs : job[j].post # p  PROVE NotOut(p)'
    <3>1. \A w \in Workers : w \notin Unrecorded(h, p)
      BY <1>4, <2>1 DEF Actors
    <3>. QED  BY <1>1, <1>5, <2>1, <3>1 DEF DispatchInv, RequestsDelete, NotOut
  <2>. QED  BY <1>1, <2>1 DEF DispatchInv, RequestsDelete, Actors
<1>. QED  BY <1>7, <1>9, <1>10 DEF DispatchInv

LEMMA StepDispatchInv ==
    ASSUME OnlyDeletions
    PROVE  TypeInv /\ ExecutionInv /\ RowInv /\ DispatchInv /\ [Next]_vars => DispatchInv'
<1>. SUFFICES ASSUME TypeInv, ExecutionInv, RowInv, DispatchInv, [Next]_vars
              PROVE  DispatchInv'
  OBVIOUS
<1>1. ASSUME NEW w \in Workers, WorkerStep(w)  PROVE DispatchInv'
  BY <1>1, DispatcherTells
<1>2. ASSUME NEW c \in Clients, RequestStart(c) \/ RequestStep(c)  PROVE DispatchInv'
  BY <1>2, RequestTells
<1>3. ASSUME NEW a \in Actors, PublishStep(a) \/ ProviderStep(a)  PROVE DispatchInv'
  BY <1>3, PublicationTells, ProviderTells, RequestTells DEF Actors, ProviderStep
<1>4. ASSUME Tick  PROVE DispatchInv'  BY <1>4, TickTells
<1>5. ASSUME NEW h \in Hosts, Crash(h)  PROVE DispatchInv'  BY <1>5, CrashTells
<1>6. CASE UNCHANGED vars
  BY <1>6 DEF vars, sns, DispatchInv, RowsTell, ExecutorsTell, RequestsDelete, IsOut, NotOut
<1>. QED  BY <1>1, <1>2, <1>3, <1>4, <1>5, <1>6 DEF Next

LEMMA QueuedInvariants ==
    ASSUME QueuedInit
    PROVE  TypeInv /\ ExecutionInv /\ RowInv /\ DispatchInv
<1>1. \A j \in Jobs : \E d \in 0..MaxDelay, m \in MaxAttemptsChoices, p \in Posts :
         job[j] = QueuedRow(d, m, p)
  BY DEF QueuedInit
<1>2. ASSUME NEW j \in Jobs
      PROVE  /\ job[j] \in Rows /\ job[j].status = "pending"
             /\ job[j].post \in Posts /\ job[j].attemptCount = 0
  <2>1. PICK d \in 0..MaxDelay, m \in MaxAttemptsChoices, p \in Posts :
           job[j] = QueuedRow(d, m, p)
    BY <1>1
  <2>2. job[j] = [status |-> "pending", post |-> p, scheduledIn |-> d, nextRetryIn |-> 0,
                  lockedFor |-> 0, attemptCount |-> 0, maxAttempts |-> m,
                  lastError |-> "null"]
    BY <2>1 DEF QueuedRow, NoRow
  <2>3. m \in Nat /\ 0 \in 0..LockTimeout  BY BoundsAssumption
  <2>. QED  BY <2>2, <2>3 DEF Rows, JobStatus, Live, Waiting, LastErrors
<1>3. \A a \in Actors : pc[a] = "idle" /\ loc[a] = NoLocals  BY DEF QueuedInit
<1>4. /\ "idle" \notin Executing \cup Canceling /\ "idle" # "reschedule"
      /\ "idle" # "markRunning"
      /\ Past \subseteq Executing /\ OutAt \subseteq Executing
  BY DEF Executing, Publishing, Canceling, Past, OutAt
<1>5. \A p \in Posts : platform[p] = 0 /\ lost[p] = 0  BY DEF QueuedInit
<1>6. TypeInv
  <2>1. job = [j \in Jobs |-> job[j]]  BY DEF QueuedInit
  <2>3. job \in [Jobs -> Rows]  BY <1>2, <2>1
  <2>4. Typed  BY <2>3, NoLocalsType DEF QueuedInit, Typed, PostStatus
  <2>2. LocalsOK  BY <1>3, <1>4, ActorsAssumption DEF LocalsOK, LocalsAt
  <2>. QED  BY <2>4, <2>2 DEF TypeInv
<1>7. ExecutionInv
  BY <1>2, <1>3, <1>4 DEF ExecutionInv, Held, JobExclusive, Executes, TriesCounted,
     MayTry, AttemptsBounded, RescheduleFresh, Actors
<1>8. RowInv
  BY <1>2, <1>3, <1>4 DEF RowInv, OwnRows, CancelFresh, NotTriedYet, Actors
<1>9. DispatchInv
  <2>1. RowsTell  BY <1>2, <1>5 DEF QueuedInit, RowsTell, NotOut
  <2>2. ExecutorsTell  BY <1>3, <1>4 DEF ExecutorsTell, Actors
  <2>3. RequestsDelete  BY <1>3, <1>5 DEF RequestsDelete, NotOut, Actors
  <2>. QED  BY <2>1, <2>2, <2>3 DEF DispatchInv
<1>. QED  BY <1>6, <1>7, <1>8, <1>9

DispatchSafe == TypeInv /\ ExecutionInv /\ RowInv /\ DispatchInv

LEMMA DispatchInvariant ==
    ASSUME OnlyDeletions
    PROVE  QueuedInit /\ [][Next]_vars => []DispatchSafe
<1>1. SafeCancels /\ SafeDeployment  BY DEF OnlyDeletions, SafeCancels, SafeDeployment
<1>2. QueuedInit => DispatchSafe  BY QueuedInvariants DEF DispatchSafe
<1>3. DispatchSafe /\ [Next]_vars => DispatchSafe'
  BY <1>1, StepTypeInv, StepExecutionInv, StepRowInv, StepDispatchInv DEF DispatchSafe
<1>. QED  BY <1>2, <1>3, PTL

\* Posts that wait in the queue go out at most once, but for publications
\* nobody recorded, with any number of dispatchers in any number of processes
\* that share the queue and may each die at any statement: lockJob alone keeps
\* them apart, and a job whose process died is not taken up again.
THEOREM DispatchedOnce ==
    ASSUME OnlyDeletions
    PROVE  QueuedInit /\ [][Next]_vars => []PublishedOnce
<1>1. DispatchSafe => PublishedOnce
  <2>. SUFFICES ASSUME DispatchSafe, NEW p \in Posts  PROVE platform[p] <= lost[p] + 1
    BY DEF PublishedOnce
  <2>1. platform[p] \in Nat /\ lost[p] \in Nat  BY DEF DispatchSafe, TypeInv, Typed
  <2>2. NotOut(p) \/ IsOut(p)
    BY DEF DispatchSafe, DispatchInv, RowsTell, RequestsDelete
  <2>. QED  BY <2>1, <2>2 DEF NotOut, IsOut
<1>. QED  BY <1>1, DispatchInvariant, PTL

\* The same dispatchers, crashes and deletions never record of a job an outcome
\* that is not the platform's, through retries and recovered locks.
THEOREM OutcomesTrue ==
    ASSUME OnlyDeletions
    PROVE  QueuedInit /\ [][Next]_vars => []RowsTellTruth
<1>1. DispatchSafe => RowsTellTruth
  BY DEF DispatchSafe, DispatchInv, RowsTell, RowsTellTruth, IsOut, NotOut
<1>. QED  BY <1>1, DispatchInvariant, PTL
=============================================================================
