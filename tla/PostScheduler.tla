---------------------------- MODULE PostScheduler ----------------------------
(***************************************************************************)
(* Scheduled posts: the DB-backed job queue of packages/core/src/usecases/ *)
(* schedule.ts, the publication path of post.ts, the repositories below    *)
(* them and the dispatchers and API requests that call them.               *)
(*                                                                         *)
(* Actors are dispatchers (Workers: a polling tick, the cron entry point,  *)
(* POST /schedules/run-due) and API requests (Clients).  One step of an    *)
(* actor is one SQL statement, or one event of a provider call.  The       *)
(* SQLite driver is synchronous, so actors of one OS process interleave    *)
(* only while a provider call is pending; actors of different processes    *)
(* (the API server and the cron job) interleave at every statement.        *)
(* HostOf says which process an actor lives in.                            *)
(*                                                                         *)
(* Operators that no action uses (LockableById, ShouldRetryOnceMore, ...)  *)
(* are mutants: the definition that follows them with a plausible mistake  *)
(* in it, which the property PROJECT.json names must notice.               *)
(*                                                                         *)
(* The code only ever compares instants with "now", so an instant is kept  *)
(* as its distance from now: scheduledIn and nextRetryIn count down to 0   *)
(* (due), lockedFor counts up to LockTimeout (stale).                      *)
(***************************************************************************)
EXTENDS Naturals, Sequences, FiniteSets

CONSTANTS Posts, Jobs,       \* ids; Jobs bounds how many jobs are created
          Workers, Clients,  \* dispatchers and concurrent API requests
          HostOf,            \* the OS process each actor runs in
          Ops,               \* the API operations that are offered
          MaxAttemptsChoices,\* values of input.maxAttempts
          MaxDelay,          \* the furthest schedule date
          Backoff,           \* RETRY_BACKOFF_SECONDS in time units
          LockTimeout,       \* LOCK_TIMEOUT_MS in time units
          BatchSize,         \* POLL_BATCH_SIZE
          MaxCrashes,        \* bound on process crashes
          MaxLost,           \* bound on lost provider replies
          None

Actors == Workers \cup Clients
Hosts  == {HostOf[a] : a \in Actors}

ApiOps == {"schedule", "reschedule", "cancel", "publish", "delete"}

ASSUME ActorsAssumption ==
    /\ Workers \cap Clients = {}
    /\ IsFiniteSet(Workers) /\ IsFiniteSet(Clients)
    /\ None \notin Posts \cup Jobs

ASSUME BoundsAssumption ==
    /\ Ops \subseteq ApiOps
    /\ MaxAttemptsChoices \subseteq Nat
    /\ MaxDelay \in Nat \ {0}
    /\ Backoff \in Seq(Nat) /\ Len(Backoff) > 0
    /\ LockTimeout \in Nat \ {0}
    /\ BatchSize \in Nat \ {0}
    /\ MaxCrashes \in Nat
    /\ MaxLost \in Nat

VARIABLES post,      \* posts.status of each post
          job,       \* the scheduled_jobs row of each job
          platform,  \* how often the SNS accepted a publication of the post
          lost,      \* how many of those acceptances no one ever recorded
          pc,        \* where each actor is
          loc,       \* the local variables of each actor
          crashes    \* crashes so far

vars == <<post, job, platform, lost, pc, loc, crashes>>
sns  == <<platform, lost>>

-----------------------------------------------------------------------------
PostStatus == {"draft", "scheduled", "publishing", "published", "failed", "deleted"}
LastErrors == {"null", "retryable", "terminal", "canceled_by_user"}
ErrClasses == {"none", "retryable", "permanent"}

\* ScheduledJob.status, and "absent" before the row is inserted.
Waiting   == {"pending", "retrying"}
Live      == Waiting \cup {"locked", "running"}
JobStatus == Live \cup {"absent", "succeeded", "failed"}

Rows == [status : JobStatus, post : Posts \cup {None},
         scheduledIn : 0..MaxDelay, nextRetryIn : Nat,
         lockedFor : 0..LockTimeout, attemptCount : Nat, maxAttempts : Nat,
         lastError : LastErrors]

NoRow == [status |-> "absent", post |-> None, scheduledIn |-> 0,
          nextRetryIn |-> 0, lockedFor |-> 0, attemptCount |-> 0,
          maxAttempts |-> 0, lastError |-> "null"]

\* Local variables: the rest of a dispatcher's batch, the job and the post in
\* hand, attemptCount, the error being handled, the request's body.
Locals == [cand : SUBSET Jobs, cur : Jobs \cup {None}, tgt : Posts \cup {None},
           attempt : Nat, err : ErrClasses, delay : 0..MaxDelay, maxAttempts : Nat]

NoLocals == [cand |-> {}, cur |-> None, tgt |-> None, attempt |-> 0,
             err |-> "none", delay |-> 0, maxAttempts |-> 0]

\* Where an actor waits for something other than the database.
Yielding == {"idle", "calling", "accepted", "deleting"}
\* Inside publishPostChecked, from its first read to the recorded outcome.
Publishing == {"publish", "markPublishing", "calling", "accepted",
               "recordPublished", "recordFailed"}
\* Inside executeJob, holding a job it has locked.
Executing == {"markRunning", "loadPost", "resetPost", "succeedJob", "failJob",
              "failPost"} \cup Publishing
PCs == {"idle", "deleting", "batch", "schedulePost", "createJob", "reschedule",
        "cancelRead", "cancelDraft", "cancelJob", "delete"} \cup Executing

TypeOK ==
    /\ post \in [Posts -> PostStatus]
    /\ job \in [Jobs -> Rows]
    /\ platform \in [Posts -> Nat]
    /\ lost \in [Posts -> Nat]
    /\ pc \in [Actors -> PCs]
    /\ loc \in [Actors -> Locals]
    /\ crashes \in Nat

Init ==
    /\ post = [p \in Posts |-> "draft"]
    /\ job = [j \in Jobs |-> NoRow]
    /\ platform = [p \in Posts |-> 0]
    /\ lost = [p \in Posts |-> 0]
    /\ pc = [a \in Actors |-> "idle"]
    /\ loc = [a \in Actors |-> NoLocals]
    /\ crashes = 0

\* What schedulePost leaves behind when it was called once for every post that
\* has a job.
QueuedRow(d, m, p) ==
    [NoRow EXCEPT !.status = "pending", !.scheduledIn = d, !.maxAttempts = m, !.post = p]

QueuedInit ==
    /\ post = [p \in Posts |-> "scheduled"]
    /\ job \in [Jobs -> {QueuedRow(d, m, p) :
                           d \in 0..MaxDelay, m \in MaxAttemptsChoices, p \in Posts}]
    /\ \A i, j \in Jobs : job[i].post = job[j].post => i = j
    /\ platform = [p \in Posts |-> 0]
    /\ lost = [p \in Posts |-> 0]
    /\ pc = [a \in Actors |-> "idle"]
    /\ loc = [a \in Actors |-> NoLocals]
    /\ crashes = 0

-----------------------------------------------------------------------------
\* Actor a runs its next statement: alone in its process until it yields.
Turn(a, l) ==
    /\ pc[a] = l
    /\ \A b \in Actors \ {a} : HostOf[b] = HostOf[a] => pc[b] \in Yielding

Goto(a, l)      == pc' = [pc EXCEPT ![a] = l]
SetPost(p, s)   == post' = [post EXCEPT ![p] = s]
SetJob(j, r)    == job' = [job EXCEPT ![j] = r]
SetLocals(a, r) == loc' = [loc EXCEPT ![a] = r]

\* The API request ends: a response, or an error that changed nothing more.
Respond(c) == Goto(c, "idle") /\ SetLocals(c, NoLocals)

\* executeJob returns to the loop over the batch.
NextCandidate(w) ==
    /\ Goto(w, IF loc[w].cand = {} THEN "idle" ELSE "batch")
    /\ SetLocals(w, [NoLocals EXCEPT !.cand = loc[w].cand])

-----------------------------------------------------------------------------
(* The dispatcher: dispatchDueJobs and executeJob. *)

DueUnlocked(j) ==
    \/ job[j].status = "pending" /\ job[j].scheduledIn = 0
    \/ job[j].status = "retrying" /\ job[j].nextRetryIn = 0

Due(j) ==
    \/ job[j].status = "pending" /\ job[j].scheduledIn = 0
    \/ job[j].status = "retrying" /\ job[j].nextRetryIn = 0
    \/ job[j].status = "locked" /\ job[j].lockedFor = LockTimeout

\* findExecutable has no ORDER BY: any BatchSize of the due jobs.
Scan(w) ==
    /\ Turn(w, "idle")
    /\ \E batch \in SUBSET {j \in Jobs : Due(j)} :
         /\ batch # {} /\ Cardinality(batch) <= BatchSize
         /\ \/ Cardinality(batch) = BatchSize
            \/ batch = {j \in Jobs : Due(j)}
         /\ SetLocals(w, [NoLocals EXCEPT !.cand = batch])
    /\ Goto(w, "batch")
    /\ UNCHANGED <<post, job, sns, crashes>>

LockableById(j) == TRUE

LockableAnyLock(j) == job[j].status \in Waiting \cup {"locked"}

\* What UPDATE ... WHERE of lockJob accepts; it does not look at due dates.
Lockable(j) ==
    \/ job[j].status \in Waiting
    \/ job[j].status = "locked" /\ job[j].lockedFor = LockTimeout

Lock(w) ==
    /\ Turn(w, "batch")
    /\ \E j \in loc[w].cand :
         /\ Lockable(j)
         /\ SetJob(j, [job[j] EXCEPT !.status = "locked", !.lockedFor = 0])
         /\ SetLocals(w, [loc[w] EXCEPT !.cand = @ \ {j}, !.cur = j,
                                        !.tgt = job[j].post,
                                        !.attempt = job[j].attemptCount + 1])
    /\ Goto(w, "markRunning")
    /\ UNCHANGED <<post, sns, crashes>>

Skip(w) ==
    /\ Turn(w, "batch")
    /\ \E j \in loc[w].cand :
         /\ ~Lockable(j)
         /\ SetLocals(w, [loc[w] EXCEPT !.cand = @ \ {j}])
         /\ Goto(w, IF loc[w].cand = {j} THEN "idle" ELSE "batch")
    /\ UNCHANGED <<post, job, sns, crashes>>

MarkRunningUncounted(w) ==
    LET j == loc[w].cur IN
    /\ Turn(w, "markRunning")
    /\ SetJob(j, [job[j] EXCEPT !.status = "running"])
    /\ Goto(w, "loadPost")
    /\ UNCHANGED <<post, sns, loc, crashes>>

MarkRunning(w) ==
    LET j == loc[w].cur IN
    /\ Turn(w, "markRunning")
    /\ SetJob(j, [job[j] EXCEPT !.status = "running",
                                !.attemptCount = loc[w].attempt])
    /\ Goto(w, "loadPost")
    /\ UNCHANGED <<post, sns, loc, crashes>>

LoadPost(w) ==
    /\ Turn(w, "loadPost")
    /\ Goto(w, IF post[loc[w].tgt] \in {"scheduled", "failed", "publishing"}
               THEN "resetPost" ELSE "publish")
    /\ UNCHANGED <<post, job, sns, loc, crashes>>

ResetPost(w) ==
    /\ Turn(w, "resetPost")
    /\ SetPost(loc[w].tgt, "draft")
    /\ Goto(w, "publish")
    /\ UNCHANGED <<job, sns, loc, crashes>>

SucceedJob(w) ==
    LET j == loc[w].cur IN
    /\ Turn(w, "succeedJob")
    /\ SetJob(j, [job[j] EXCEPT !.status = "succeeded", !.lockedFor = 0,
                                !.nextRetryIn = 0, !.lastError = "null"])
    /\ NextCandidate(w)
    /\ UNCHANGED <<post, sns, crashes>>

BackoffFor(n) == Backoff[IF n < Len(Backoff) THEN n ELSE Len(Backoff)]

ShouldRetryOnceMore(w) ==
    loc[w].err = "retryable" /\ loc[w].attempt <= job[loc[w].cur].maxAttempts

\* It compares with maxAttempts as read by MarkRunning; no code changes
\* maxAttempts of a row.
ShouldRetry(w) ==
    loc[w].err = "retryable" /\ loc[w].attempt < job[loc[w].cur].maxAttempts

RetryJob(w) ==
    LET j == loc[w].cur IN
    /\ Turn(w, "failJob")
    /\ ShouldRetry(w)
    /\ SetJob(j, [job[j] EXCEPT !.status = "retrying", !.lockedFor = 0,
                                !.nextRetryIn = BackoffFor(loc[w].attempt),
                                !.lastError = "retryable"])
    /\ NextCandidate(w)
    /\ UNCHANGED <<post, sns, crashes>>

FailJob(w) ==
    LET j == loc[w].cur IN
    /\ Turn(w, "failJob")
    /\ ~ShouldRetry(w)
    /\ SetJob(j, [job[j] EXCEPT !.status = "failed", !.lockedFor = 0,
                                !.nextRetryIn = 0, !.lastError = "terminal"])
    /\ Goto(w, "failPost")
    /\ UNCHANGED <<post, sns, loc, crashes>>

\* Whatever the post's status has become in the meantime.
FailPost(w) ==
    /\ Turn(w, "failPost")
    /\ SetPost(loc[w].tgt, "failed")
    /\ NextCandidate(w)
    /\ UNCHANGED <<job, sns, crashes>>

-----------------------------------------------------------------------------
(* publishPostChecked without a budget policy, for a dispatcher (a = worker, *)
(* the outcome returns to executeJob) or for POST /posts/:id/publish.        *)

ReturnPublished(a) ==
    IF a \in Workers THEN Goto(a, "succeedJob") /\ UNCHANGED loc ELSE Respond(a)

Throw(a, class) ==
    IF a \in Workers
    THEN Goto(a, "failJob") /\ SetLocals(a, [loc[a] EXCEPT !.err = class])
    ELSE Respond(a)

\* "Only draft posts can be published" is a ValidationError: permanent.
Publish(a) ==
    /\ Turn(a, "publish")
    /\ \/ post[loc[a].tgt] = "draft" /\ Goto(a, "markPublishing") /\ UNCHANGED loc
       \/ post[loc[a].tgt] # "draft" /\ Throw(a, "permanent")
    /\ UNCHANGED <<post, job, sns, crashes>>

\* The account is gone or inactive: permanent, the post is still a draft.
NoAccount(a) ==
    /\ Turn(a, "markPublishing")
    /\ Throw(a, "permanent")
    /\ UNCHANGED <<post, job, sns, crashes>>

\* Credentials that cannot be decrypted throw outside the try block: the
\* post stays "publishing".
MarkPublishing(a) ==
    /\ Turn(a, "markPublishing")
    /\ SetPost(loc[a].tgt, "publishing")
    /\ \/ Goto(a, "calling") /\ UNCHANGED loc
       \/ Throw(a, "permanent")
    /\ UNCHANGED <<job, sns, crashes>>

\* The provider's side of the call.
Accept(a) ==
    /\ pc[a] = "calling"
    /\ platform' = [platform EXCEPT ![loc[a].tgt] = @ + 1]
    /\ Goto(a, "accepted")
    /\ UNCHANGED <<post, job, lost, loc, crashes>>

\* A refusal is recorded as a failure; a ProviderError thrown by the provider
\* itself passes the catch block, and the post stays "publishing".
Reject(a) ==
    /\ Turn(a, "calling")
    /\ \E class \in {"retryable", "permanent"} :
         \/ /\ SetLocals(a, [loc[a] EXCEPT !.err = class])
            /\ Goto(a, "recordFailed")
         \/ Throw(a, class)
    /\ UNCHANGED <<post, job, sns, crashes>>

Reply(a) ==
    /\ Turn(a, "accepted")
    /\ Goto(a, "recordPublished")
    /\ UNCHANGED <<post, job, sns, loc, crashes>>

\* The post is out, the caller sees a network error.
LoseReply(a) ==
    /\ Turn(a, "accepted")
    /\ lost[loc[a].tgt] < MaxLost
    /\ lost' = [lost EXCEPT ![loc[a].tgt] = @ + 1]
    /\ SetLocals(a, [loc[a] EXCEPT !.err = "retryable"])
    /\ Goto(a, "recordFailed")
    /\ UNCHANGED <<post, job, platform, crashes>>

RecordPublished(a) ==
    /\ Turn(a, "recordPublished")
    /\ SetPost(loc[a].tgt, "published")
    /\ ReturnPublished(a)
    /\ UNCHANGED <<job, sns, crashes>>

RecordFailedQuietly(a) ==
    /\ Turn(a, "recordFailed")
    /\ SetPost(loc[a].tgt, "failed")
    /\ ReturnPublished(a)
    /\ UNCHANGED <<job, sns, crashes>>

RecordFailed(a) ==
    /\ Turn(a, "recordFailed")
    /\ SetPost(loc[a].tgt, "failed")
    /\ Throw(a, loc[a].err)
    /\ UNCHANGED <<job, sns, crashes>>

-----------------------------------------------------------------------------
(* API requests.  A request that is refused changes nothing and is left out. *)

Slots == {j \in Jobs : job[j].status = "absent"}
Scheduling == {c \in Clients : pc[c] \in {"schedulePost", "createJob"}}

StartScheduleAnyStatus(c) ==
    /\ "schedule" \in Ops /\ Turn(c, "idle")
    /\ Cardinality(Scheduling) < Cardinality(Slots)
    /\ \E p \in Posts, d \in 1..MaxDelay, m \in MaxAttemptsChoices :
         SetLocals(c, [NoLocals EXCEPT !.tgt = p, !.delay = d, !.maxAttempts = m])
    /\ Goto(c, "schedulePost")
    /\ UNCHANGED <<post, job, sns, crashes>>

\* Bound: a request is only taken while the model has a row left for it.
StartSchedule(c) ==
    /\ "schedule" \in Ops /\ Turn(c, "idle")
    /\ Cardinality(Scheduling) < Cardinality(Slots)
    /\ \E p \in Posts, d \in 1..MaxDelay, m \in MaxAttemptsChoices :
         /\ post[p] = "draft"
         /\ SetLocals(c, [NoLocals EXCEPT !.tgt = p, !.delay = d, !.maxAttempts = m])
    /\ Goto(c, "schedulePost")
    /\ UNCHANGED <<post, job, sns, crashes>>

SchedulePost(c) ==
    /\ Turn(c, "schedulePost")
    /\ SetPost(loc[c].tgt, "scheduled")
    /\ Goto(c, "createJob")
    /\ UNCHANGED <<job, sns, loc, crashes>>

CreateJob(c) ==
    /\ Turn(c, "createJob")
    /\ \E j \in Slots :
         SetJob(j, [NoRow EXCEPT !.status = "pending", !.post = loc[c].tgt,
                                 !.scheduledIn = loc[c].delay,
                                 !.maxAttempts = loc[c].maxAttempts])
    /\ Respond(c)
    /\ UNCHANGED <<post, sns, crashes>>

StartRescheduleAnyStatus(c) ==
    /\ "reschedule" \in Ops /\ Turn(c, "idle")
    /\ \E j \in Jobs \ Slots, d \in 1..MaxDelay :
         SetLocals(c, [NoLocals EXCEPT !.cur = j, !.delay = d])
    /\ Goto(c, "reschedule")
    /\ UNCHANGED <<post, job, sns, crashes>>

StartReschedule(c) ==
    /\ "reschedule" \in Ops /\ Turn(c, "idle")
    /\ \E j \in Jobs, d \in 1..MaxDelay :
         /\ job[j].status \in Waiting
         /\ SetLocals(c, [NoLocals EXCEPT !.cur = j, !.delay = d])
    /\ Goto(c, "reschedule")
    /\ UNCHANGED <<post, job, sns, crashes>>

Reschedule(c) ==
    LET j == loc[c].cur IN
    /\ Turn(c, "reschedule")
    /\ SetJob(j, [job[j] EXCEPT !.status = "pending", !.lockedFor = 0,
                                !.scheduledIn = loc[c].delay, !.nextRetryIn = 0])
    /\ Respond(c)
    /\ UNCHANGED <<post, sns, crashes>>

StartCancel(c) ==
    /\ "cancel" \in Ops /\ Turn(c, "idle")
    /\ \E j \in Jobs :
         /\ job[j].status \in Waiting \cup {"failed"}
         /\ ~(job[j].status = "failed" /\ job[j].lastError = "canceled_by_user")
         /\ SetLocals(c, [NoLocals EXCEPT !.cur = j, !.tgt = job[j].post])
    /\ Goto(c, "cancelRead")
    /\ UNCHANGED <<post, job, sns, crashes>>

CancelRead(c) ==
    /\ Turn(c, "cancelRead")
    /\ Goto(c, IF post[loc[c].tgt] = "scheduled" THEN "cancelDraft" ELSE "cancelJob")
    /\ UNCHANGED <<post, job, sns, loc, crashes>>

CancelDraft(c) ==
    /\ Turn(c, "cancelDraft")
    /\ SetPost(loc[c].tgt, "draft")
    /\ Goto(c, "cancelJob")
    /\ UNCHANGED <<job, sns, loc, crashes>>

CancelJob(c) ==
    LET j == loc[c].cur IN
    /\ Turn(c, "cancelJob")
    /\ SetJob(j, [job[j] EXCEPT !.status = "failed", !.lastError = "canceled_by_user"])
    /\ Respond(c)
    /\ UNCHANGED <<post, sns, crashes>>

\* The route reads the post before publishPostChecked reads it again.
StartPublish(c) ==
    /\ "publish" \in Ops /\ Turn(c, "idle")
    /\ \E p \in Posts : /\ post[p] = "draft"
                        /\ SetLocals(c, [NoLocals EXCEPT !.tgt = p])
    /\ Goto(c, "publish")
    /\ UNCHANGED <<post, job, sns, crashes>>

\* A published post is first deleted on the platform.
StartDelete(c) ==
    /\ "delete" \in Ops /\ Turn(c, "idle")
    /\ \E p \in Posts :
         /\ post[p] # "deleted"
         /\ SetLocals(c, [NoLocals EXCEPT !.tgt = p])
         /\ Goto(c, IF post[p] = "published" THEN "deleting" ELSE "delete")
    /\ UNCHANGED <<post, job, sns, crashes>>

DeleteAnswered(c) ==
    /\ Turn(c, "deleting")
    /\ \/ Goto(c, "delete") /\ UNCHANGED loc
       \/ Respond(c)
    /\ UNCHANGED <<post, job, sns, crashes>>

Delete(c) ==
    /\ Turn(c, "delete")
    /\ SetPost(loc[c].tgt, "deleted")
    /\ Respond(c)
    /\ UNCHANGED <<job, sns, crashes>>

-----------------------------------------------------------------------------
(* Time and crashes. *)

Less(n) == IF n = 0 THEN 0 ELSE n - 1

Aged(r) ==
    [r EXCEPT !.scheduledIn = Less(@), !.nextRetryIn = Less(@),
              !.lockedFor = IF r.status \in {"locked", "running"} /\ @ < LockTimeout
                            THEN @ + 1 ELSE @]

\* Assumption: a live process does not stall for LockTimeout (five minutes)
\* between lockJob and the next statement of executeJob.
LeaseHonoured ==
    \A w \in Workers :
       pc[w] = "markRunning" => job[loc[w].cur].lockedFor + 1 < LockTimeout

Tick ==
    /\ LeaseHonoured
    /\ job' = [j \in Jobs |-> Aged(job[j])]
    /\ loc' = [a \in Actors |-> [loc[a] EXCEPT !.delay = Less(@)]]
    /\ UNCHANGED <<post, sns, pc, crashes>>

\* The process dies and restarts: its actors forget everything, an
\* acceptance they had not recorded is lost.
Unrecorded(h, p) ==
    {a \in Actors : /\ HostOf[a] = h /\ loc[a].tgt = p
                    /\ pc[a] \in {"accepted", "recordPublished"}}

Crash(h) ==
    /\ crashes < MaxCrashes
    /\ crashes' = crashes + 1
    /\ pc' = [a \in Actors |-> IF HostOf[a] = h THEN "idle" ELSE pc[a]]
    /\ loc' = [a \in Actors |-> IF HostOf[a] = h THEN NoLocals ELSE loc[a]]
    /\ lost' = [p \in Posts |-> lost[p] + Cardinality(Unrecorded(h, p))]
    /\ UNCHANGED <<post, job, platform>>

-----------------------------------------------------------------------------
PublishStep(a) ==
    \/ Publish(a) \/ NoAccount(a) \/ MarkPublishing(a)
    \/ RecordPublished(a) \/ RecordFailed(a)

ProviderStep(a) == Accept(a) \/ Reject(a) \/ Reply(a) \/ LoseReply(a)

ExecuteStep(w) ==
    \/ MarkRunning(w) \/ LoadPost(w) \/ ResetPost(w)
    \/ SucceedJob(w) \/ RetryJob(w) \/ FailJob(w) \/ FailPost(w)

WorkerStep(w) == Scan(w) \/ Lock(w) \/ Skip(w) \/ ExecuteStep(w)

RequestStart(c) ==
    \/ StartSchedule(c) \/ StartReschedule(c) \/ StartCancel(c)
    \/ StartPublish(c) \/ StartDelete(c)

RequestStep(c) ==
    \/ SchedulePost(c) \/ CreateJob(c) \/ Reschedule(c)
    \/ CancelRead(c) \/ CancelDraft(c) \/ CancelJob(c)
    \/ DeleteAnswered(c) \/ Delete(c)

Next ==
    \/ \E w \in Workers : WorkerStep(w)
    \/ \E c \in Clients : RequestStart(c) \/ RequestStep(c)
    \/ \E a \in Actors : PublishStep(a) \/ ProviderStep(a)
    \/ Tick
    \/ \E h \in Hosts : Crash(h)

Spec == Init /\ [][Next]_vars

\* Every process keeps running its statements and polling, calls are
\* answered, time passes.  No request has to arrive and nothing has to crash.
Fairness ==
    /\ \A w \in Workers : WF_vars(WorkerStep(w))
    /\ \A c \in Clients : WF_vars(RequestStep(c))
    /\ \A a \in Actors : WF_vars(PublishStep(a)) /\ WF_vars(ProviderStep(a))
    /\ WF_vars(Tick)

FairSpec == Spec /\ Fairness

-----------------------------------------------------------------------------
(* Properties. *)

Executes(w, j) == pc[w] \in Executing /\ loc[w].cur = j

\* No job is executed by two dispatchers at once: what lockJob is for
\* (scheduled-job-repository.ts:108).
JobExclusive ==
    \A j \in Jobs : \A v, w \in Workers :
       Executes(v, j) /\ Executes(w, j) => v = w

\* A job is tried at most maxAttempts times (once if maxAttempts is 0),
\* through retries, reschedules and recovered locks.
AttemptsBounded ==
    \A j \in Jobs : job[j].attemptCount <= job[j].maxAttempts
                     \/ job[j].attemptCount <= 1

\* The SNS publishes a post once, plus once for every acceptance that nobody
\* recorded: retries and recovered locks do not repeat a publication.  (The
\* provider is taken to honour no idempotency key; only LINE's does.)
PublishedOnce == \A p \in Posts : platform[p] <= lost[p] + 1

LiveJobs(p) == {j \in Jobs : job[j].post = p /\ job[j].status \in Live}

\* A post never has two jobs that can still run: schedulePost refuses
\* anything but a draft, and a draft has no such job.
OneLiveJob == \A p \in Posts : \A i, j \in LiveJobs(p) : i = j

Canceled(j) == job[j].status = "failed" /\ job[j].lastError = "canceled_by_user"

\* A canceled job is never run, retried or rescheduled again
\* (test/schedule.test.ts: repeated cancel returns the canceled job).
CanceledStaysCanceled == [][\A j \in Jobs : Canceled(j) => Canceled(j)']_vars

\* Every job keeps the promise of JobLifecycle: a row leaves the state it is
\* in only in the order the code comments give (schedule.ts:717-730).  A
\* locked job still waits: a stale lock gives it back without a try.
Phase(j) ==
    CASE job[j].status = "absent" -> "none"
      [] job[j].status \in Waiting \cup {"locked"} -> "waiting"
      [] OTHER -> job[j].status

Lifecycle == INSTANCE JobLifecycle WITH
    phase <- [j \in Jobs |-> Phase(j)],
    tries <- [j \in Jobs |-> job[j].attemptCount],
    limit <- [j \in Jobs |-> job[j].maxAttempts]

ImplementsLifecycle == Lifecycle!Spec

\* A process died after executeJob set the row to running.
Abandoned(j) == job[j].status = "running" /\ \A w \in Workers : ~Executes(w, j)

\* A job's row tells the truth about its post: it succeeded only if the post is
\* out, and failed, or waits to be tried again, only if it is not, apart from
\* acceptances that nobody recorded (jobs of different posts, no other requests
\* than deletions).
RowsTellTruth ==
    \A j \in Jobs :
       /\ job[j].status = "succeeded" => platform[job[j].post] = lost[job[j].post] + 1
       /\ job[j].status \in Waiting \cup {"failed"} =>
             platform[job[j].post] = lost[job[j].post]

\* Every scheduled job ends, through retries, skipped scans, reschedules and
\* recovered locks, unless it was abandoned.
JobsEnd ==
    \A j \in Jobs : job[j].status \in Live ~>
                       job[j].status \in {"succeeded", "failed"} \/ Abandoned(j)

\* schedule.ts:59: a job can be acquired again five minutes after its lock,
\* at least when nobody executes it any more.
AbandonedIsLockable ==
    \A j \in Jobs :
       /\ job[j].status \in {"locked", "running"}
       /\ job[j].lockedFor = LockTimeout
       /\ \A w \in Workers : ~Executes(w, j)
       => Lockable(j)

\* post.ts:664-668: a deleted post stays deleted.
DeletedStaysDeleted ==
    [][\A p \in Posts : post[p] = "deleted" => post'[p] = "deleted"]_vars
=============================================================================
