# A TLA+ model of sns-agent

sns-agent publishes, schedules and answers posts on X, LINE and Instagram for
people and for agents. It is a TypeScript monorepo: use cases in
`packages/core`, a SQLite database behind repositories in `packages/db`, one
adapter per platform in `packages/provider-*`, an HTTP API with an embedded
scheduler in `apps/api`, and clients of that API (CLI, SDK, MCP server, web UI).

This directory models the part of it where order, failure and concurrency decide
whether it is right. Paths below are relative to the repository.

## 1. Inventory

### How the system runs

* **Processes.** The API server (`apps/api/src/index.ts`) serves requests and,
  with `ENABLE_SCHEDULER=true`, polls every ten seconds. The cron entry point
  (`apps/api/src/run-scheduler-once.ts`) is a second process on the same
  database file. Either may die at any moment.
* **Database.** better-sqlite3, one connection per process, WAL mode, no
  transaction anywhere (`packages/db/src/client.ts`). A statement is atomic; a
  sequence of statements is not. The driver is synchronous: an `await` on it
  resumes in the same turn of the event loop, so within one process a run of
  statements is interrupted only where the code waits for a platform.
* **Platforms.** Calls are not transactional: a publication can be accepted and
  its answer lost. Of the adapters only LINE's sends an idempotency key.

### Components

| component | state | operations | what makes it correct |
|---|---|---|---|
| Scheduled job queue (`usecases/schedule.ts`, `scheduled-job-repository.ts`) | `scheduled_jobs` rows | schedule, reschedule, cancel, scan, lock, execute, retry | one execution at a time; no more tries than allowed; every job ends; stale locks recovered; the post and its job agree |
| Dispatchers (`worker/scheduler.ts`, `run-scheduler-once.ts`, `POST /schedules/run-due`) | the batch in hand | a tick | due jobs only, each once per batch |
| Publication (`usecases/post.ts`) | `posts.status` | create, update, publish, delete | published at most once; a recorded publication is not undone; deleted stays deleted; one post per idempotency key |
| Approval flow (`usecases/approval.ts`, `routes/approvals.ts`) | `approval_requests` | create, approve and execute, reject, expire | one decision; nothing unapproved is executed; what is approved is executed |
| Engagement gates (`usecases/engagement-gates.ts`) | gates, deliveries, `lastReplySinceId`, backoff | process replies, verify, consume token | one message per user and gate; no reply is lost while the gate keeps its post, none waits for ever while the gates fit a batch; limits and pauses kept |
| Step sequences (`usecases/step-sequences.ts`) | sequences, messages, enrollments | enroll, process due, cancel, replace messages | steps in order and once; limits and pauses kept; enrollments end |
| Budget and usage (`policies/budget.ts`, `usecases/usage.ts`) | policies, usage records | evaluate, record | a call is recorded once; a limit is passed by no more than what runs at once and what nobody records |
| Idempotent requests (`middleware/idempotency.ts`) | the unique key of `posts` | look up, insert | one publication per key |
| Inbox and webhooks (`usecases/inbox.ts`, `routes/webhooks.ts`, `routes/inbox.ts`) | threads, messages, engagement actions | inbound message, sync, reply, like | one row per inbound message with an id; a sync leaves nothing out; replies and likes sent once |
| Follower synchronisation (`usecases/followers.ts`) | `followers` rows | list pages, upsert, mark who is missing | nobody is taken for lost who was there; what is stored was true |
| LLM router (`packages/llm/src/router.ts`) | routes, usage records | resolve, call, fall back, record | every call recorded as what it was |
| Agent gateway and skills (`usecases/agent-gateway.ts`, `packages/skills`) | skill packages, audit rows | chat, preview, execute | previews of enabled packages; every effect in the audit log |
| Accounts, OAuth (`usecases/account.ts`) | accounts, encrypted credentials | connect, refresh, disconnect | inactive accounts do not publish |
| Roles, authentication (`policies/rbac.ts`) | static table | look up | - |
| Campaigns, quote tweets, analytics, tags | rows under unique indexes | upsert, report | one row per key |
| Audit log | append-only rows | append, list | - |

`PROJECT.json` repeats this list with the status of each component, and lists
the hazards: the places where a test would hardly reach a mistake.

### What is hard

Dispatchers of one and of two processes over the same queue; checks followed by
unconditional writes; crashes between two writes; answers that never arrive;
locks of the dead; batches that are old when they are executed; retries after a
success nobody recorded; lookups before an `await` and writes after it; webhooks
that come twice, late or during a sync; a listing read over many calls while the
platform changes; payment recorded after the fact.

## 2. Modules

| module | what it is |
|---|---|
| `PostScheduler` | the queue, its dispatchers, publication and deletion, the API requests |
| `JobLifecycle` | the abstract specification: what one job may go through |
| `ApprovalFlow` | extends `PostScheduler`: publication that needs an approval |
| `PostLifecycle` | the abstract specification: what one post may go through |
| `StepSequences` | enrollments that receive the messages of a sequence in order |
| `EngagementGates` | gates whose repliers are sent a message, and its token |
| `BudgetedPosts` | posts created under idempotency keys and published under budget policies |
| `Inbox` | messages arriving by webhook and sync, replies, likes |
| `FollowerSync` | listings of followers stored and compared |
| `AgentGateway` | chats over the LLM router, previews and executions of skill actions |
| `MC...` | instances for TLC, one per module (two for `PostScheduler`) |
| `PostSchedulerProofs`, `ApprovalFlowProofs`, `StepSequencesProofs`, `EngagementGatesProofs`, `BudgetedPostsProofs`, `InboxProofs`, `FollowerSyncProofs`, `AgentGatewayProofs` | theorems |

All modules share one vocabulary. `pc` and `loc` hold where each actor is and its
local variables; `HostOf` puts an actor in a process; `Turn(a, l)` lets it run its
next statement while the others of its process are idle or wait for a platform;
`Goto`, `SetLocals`, `Finish` move on; `Crash(h)` ends what process h was doing.
History variables (`platform`, `sent`, `accepted`, `calls`, ...) say what the outside
world has seen, and `lost`, `unrecorded`, `unused` which of it nobody can know.

### PostScheduler

*State.* `post` (the column `posts.status`), `job` (the rows of
`scheduled_jobs`), `platform` (how often each post was really published),
`lost` (how many of those publications nobody recorded), and for each actor
`pc` (where it is) and `loc` (its local variables: the rest of its batch, the
job and post in hand, `attemptCount`, the error being handled, the request).

*Actors.* `Workers` are callers of `dispatchDueJobs`, `Clients` are API
requests. `HostOf` puts each in a process. `Turn` is the scheduling rule of
section 1: an actor runs its next statement only while every other actor of its
process is idle or waits for a platform. Actors of different processes
interleave at every statement. The rule assumes that two requests do not resume
in the same turn of the event loop with one's statements between the other's.

*Actions.* One per SQL statement or platform event:

| code | actions |
|---|---|
| `dispatchDueJobs`, `findExecutable` | `Scan`, `Skip` |
| `executeJob` | `Lock`, `MarkRunning`, `LoadPost`, `ResetPost`, then publication, then `SucceedJob`, or `RetryJob`, or `FailJob` and `FailPost` |
| `publishPostChecked` | `Publish`, `NoAccount`, `MarkPublishing`, `Accept`, `Reject`, `Reply`, `LoseReply`, `RecordPublished`, `RecordFailed` |
| `schedulePost` | `StartSchedule`, `SchedulePost`, `CreateJob` |
| `updateSchedule` | `StartReschedule`, `Reschedule` |
| `cancelSchedule` | `StartCancel`, `CancelRead`, `CancelDraft`, `CancelJob` |
| `POST /posts/:id/publish` | `StartPublish`, then publication |
| `deletePost` | `StartDelete`, `DeleteAnswered`, `Delete` |
| the clock, the death of a process | `Tick`, `Crash` |

`Init` is an empty database; `QueuedInit` is what `schedulePost` leaves when it was
called once for every post that has a job, due or not, with any of the numbers of
tries: from there `MCDispatchers` and two theorems start.

A read and the check on it are one step with the write that follows only where
one statement does both (`lockJob`). Requests that are refused change nothing
and are left out.

*Time.* The code compares instants with "now" only, so an instant is kept as
its distance from now: `scheduledIn` and `nextRetryIn` count down, `lockedFor`
counts up to `LockTimeout`.

`Reject` has two outcomes, as the code's catch block has: a result that says failed
is recorded; a `ProviderError` that the adapter itself throws, before anything is out
(credentials, media), is thrown on without a write (`post.ts:616`). The post then
stays "publishing" until the job's next try resets it to a draft (`schedule.ts:763`),
or the job fails for good and the post with it. If a direct request or an approval
published it, nothing but a deletion moves it. `PostLifecycle` has that step (`Release`): the post is
not out.

*Abstractions.* Errors are `retryable` or `permanent`, as
`classifyExecutionError` sorts them; credentials that cannot be decrypted and
accounts that are gone are choices of the environment; text, media, execution
logs and usage records are left out. Posts never disappear (deletion is a
status), so `executeJob` always finds its post.

Some operators, here and in the modules below, are used by no action
(`LockableById`, `ShouldRetryOnceMore`, ...). They are mutants: the definition that
follows them with a plausible mistake. Put in its place, each makes TLC report the
property that `PROJECT.json` pairs it with, which shows that the property is able to
fail.

### JobLifecycle

A job waits, is run one try at a time and at most `limit` times (once if
`limit` is 0), and ends once, as succeeded or failed. `ImplementsLifecycle`
refines it with `phase <- Phase(j)`: pending, retrying and locked are all
"waiting", because a stale lock gives the job back without a try. The refinement
is checked without reschedules and in one process; a cancellation that races a
dispatcher of another process breaks it.

### ApprovalFlow

*State.* Everything of `PostScheduler`, `request` (the rows of
`approval_requests`) and `reviewing` (the request a client decides on).

| code | actions |
|---|---|
| `POST /posts/:id/publish` with `requiresApproval` | `Ask`, `CreateRequest`, `HoldPost` |
| `POST /approvals/:id/approve`, `approveRequest`, `postExecutor` | `StartApprove`, `ApproveRequest`, `ExecutorLoad`, `ExecutorReset`, then the publication of `PostScheduler` |
| `POST /approvals/:id/reject`, `rejectRequest` | `StartReject`, `RejectRequest`, `RejectRead`, `RejectDraft` |

The queue's actions remain, so approvals compete with jobs, direct publication
and deletion for the one column `posts.status`, in which "scheduled" means both
"has a job" and "waits for an approval". A budget policy that requires approval
(`post.ts:516-541`) creates its requests in the same way. The reviewer is not the
requester (refused requests change nothing), requests about inbox replies are not
modelled, and nothing expires: no entry point calls `expireStaleRequests`.

### PostLifecycle

What queue, publication and approvals promise together about one post: a draft, a
scheduled or a failed post is not out; only a post whose publication has begun goes
out, and it does so once; one that is recorded as published is out and stays what it
is until it is deleted. A publication whose answer was lost, and of which nobody can
know, is taken back (`Forget`). `ImplementsPostLifecycle` of `ApprovalFlow` refines it
with `status <- post` and `out <- platform - lost`.

### StepSequences

*State.* `seq` (the sequence with its messages: a list of delays), `enr` (the
rows of `step_enrollments`), `sent` (how often the platform accepted each step for
each enrollment), `unrecorded` (how many of those acceptances nobody recorded),
and `pc` and `loc` as above; `loc[d].rows` is the batch as the scan read it.

| code | actions |
|---|---|
| `processDueStepSequenceEnrollments` | `Scan`, then per enrollment `LoadSequence` (status, backoff, jitter), `CountDeliveries`, `LoadMessages`, `AccountFails`, `Complete`, then the call (`Accept`, `Reply`, `LoseReply`, `Refuse`), `BackOff`, `Advance` |
| `createStepSequence` | `CreateSequence`, `InsertMessages` |
| `enrollStepSequenceUser`, `updateStepEnrollment` | `Enroll`, `UpdateEnrollment` |
| `updateStepSequence` | `SetStatus`; `ReplaceMessages`, `InsertMessages` |
| `deleteStepSequence` | `DeleteEnrollments`, `DeleteMessages`, `DeleteSequence` |
| the clock, the death of a process | `Tick`, `Crash` |

*Abstractions.* One sequence; due rows of others, of which those of a paused sequence
stay due, take up to `OthersDue` places of a batch of `findActiveDue`, which has no
order. The sequence's hourly and daily limits and those of its
account are one `Limit` per `Window`. The jitter, a hash of the enrollment, is
a constant. `now` is read once per batch, so time stands still during a batch;
the optional `now` of the request is left out. An update with a status and with
messages is two requests in a row.

### EngagementGates

*State.* `gate` (rows: status, backoff, `since` for `lastReplySinceId`), `delivery`
(rows, unique per gate and `externalUserId`), `replies` (the account's timeline of
mentions), `repointed` (gates whose post an update has changed), `settled` (the replies
some processor has decided about), `sent` and `unrecorded`.

| code | actions |
|---|---|
| `processEngagementGateReplies` | `Scan`, then per gate `LoadGate`, `AccountFails`, `List`, per reply `FindDelivery`, `CountDeliveries`, `CheckConditions`, the call (`Accept`, `Reply`, `LoseReply`, `Refuse`), `BackOff`, `Record`, `Insert`, and last `MoveMark` |
| create, change or pause, delete | `CreateGate`, `UpdateGate`, `DeleteDeliveries`, `DeleteGate` |
| verify, consume a token | `Verify`, `InsertVerified`, `FindToken`, `ConsumeToken` |
| repliers, the clock, the death of a process | `PostReply`, `Tick`, `Crash` |

*Abstractions.* All gates are of one account; its four limits are one `Limit` per
`Window`, and `stealthConfig` is not changed; gates of other accounts take
`OthersActive` places of a batch. Of what an update can change, the status, the
post, the presence of conditions and `verify_only` are kept, and texts, tags and
links left out. `UpdateGate` leaves the mark where it is, as the code does. A gate
with conditions and no post is refused by X's adapter at each tick
(`provider-x/src/engagement-gates.ts:121`), which is `CallFails`. The backoff of all
the account's gates (`Promise.all` over updates of one process) is written in one
step.

### BudgetedPosts

*State.* `post` (status, idempotency key, platform), `pending` (approval requests of
a post), `policies`, `usage` (the `usage_records` of this period), `calls` (the
publications really asked for), `accepted` (how often each was performed).

| code | actions |
|---|---|
| `POST /posts`, the middleware and `createPost` | `StartCreate`, `FindByKey`, `Insert` |
| `publishPostChecked` | `StartPublish`, `Load`, `FindPolicies`, `Evaluate`, `CreateRequest`, `HoldPost`, `NoAccount`, `MarkPublishing`, the call (`Accept`, `Reply`, `CallFails`, `CallThrows`), `RecordOutcome`, `RecordUsage` |
| approvals of what the budget held back | `Approve`, `ExecutorReset`, `Reject`, `RejectDraft` |
| the administrator, other usage, a new period | `WritePolicies`, `OtherUsage`, `NewPeriod` |

A call ends without a usage record in four ways, and `unrecorded` holds these calls:
the provider throws a `ProviderError` of its own, which passes the catch block
(`CallThrows`); the request is an approval, whose `buildPostDeps` has neither
`budgetPolicyRepo` nor `usageRepo` (`routes/approvals.ts:47-57`); the insert of the
record fails, which is logged only; the process dies. The worker of the queue has
no `usageRepo` either (`worker/scheduler.ts:87-92`): its publications are never
recorded, and are not part of this module.

*Abstractions.* Every call costs the same, so an amount is a number of calls; all
policies have one period; the warning at 80 % stops nothing and is left out.

### Inbox

*State.* `said` (the messages of the platform), `thread` and `message` (rows), `reply`
(the approval of a reply), `sent`, `action` and `acted` (likes).

| code | actions |
|---|---|
| `storeThreadMessage` | `FindThread`, `UpdateThread`, `CreateThread`, `FindMessage`, `InsertMessage` |
| webhooks; `syncInboxFromProvider` | `Webhook`; `StartSync`, `ListThreads`, `GetMessages`, `SyncFails` |
| `sendReply` and its approval | `AskReply`, `Review` (what `approveRequest` or `rejectRequest` reads) and `Decide` (what it writes), `StartReply`, `LoadThread`, the call (`AcceptReply`, `ReplyTaken`, `ReplyFails`), `RecordReply`, `TouchThread` |
| `performInboxEngagementAction` | `StartAction`, the call (`AcceptAction`, `ActionTaken`, `ActionFails`), `CreateOnce`, `InsertAction` |
| others write; the death of a process | `Say`, `Crash` |

*Abstractions.* One account, one kind of action. A message is its place in the order
in which messages were said. `SplitThreads` are conversations that webhooks name
otherwise than a sync, and echoes otherwise still (Instagram,
`routes/webhooks.ts:430`). `Echoes` says that webhooks report what the account itself
says, as Instagram's do and X's do not (`routes/webhooks.ts:130`); such rows are stored
as inbound. `WithoutId` are the events without an id, which are stored at each
delivery as nothing looks for them (`inbox.ts:373`), here at most `MaxRepeats` times.

### FollowerSync

*State.* `related` (who follows, and who is followed, by now), `row` (the rows of
`followers`); in `loc`, what a request has listed, and as history who was there
during all of its listing (`always`) or at some time of it (`ever`).

| code | actions |
|---|---|
| `listFollowerPages`, twice side by side | `StartSync`, `ListPage`, `ListFails` |
| `upsertProfile`, `upsert` | `FindProfile`, `FindRow`, `WriteRow` |
| `markMissing...` | `StartMarking`, `SelectMissing`, `MarkMissing` |
| the platform, the death of a process | `Change`, `Crash` |

*Abstractions.* A page holds any profiles that were not listed before; a listing is
over only when nobody who was there all the time is missing. The profiles of a
listing are stored in any order.

### AgentGateway

*State.* `package` and `routes` (rows an administrator writes), `calls` and `usage`
(language-model calls, and the rows for them), `post` (rows executions insert),
`chats` and `logged` (what `audit_logs` tells), `shown` (the package of the last
preview).

| code | actions |
|---|---|
| `handleChatMessage`, `executeLlmCall` | `StartChat`, `ResolveRoute`, `Answer`, `RecordUsage` (and on to the fallback: `Continue`), `LogChat`, `DryRun` |
| `executeAgentAction`, `buildSkillActionInvoker` | `StartExecution`, `Invoke`, `SchedulePost`, `PublishPost`, `Published`, `LogDone`, `LogFailed` |
| administration; the death of a process | `WritePackage`, `WriteRoutes`, `Crash` |

*Abstractions.* What the model answers, JSON Schema checks and the choice of an account
by name are inputs; one read-only action stands for all; the queue and the
publication behind an action are those of `PostScheduler`, here a status, and the
two writes of `schedulePost` are one step. An execution may fail after its draft was
inserted (a time in the past, `schedule.ts:493`) and may leave its post "publishing"
(a `ProviderError`, `post.ts:616`).

## 3. Runs

| run | what it asks | bounds | states |
|---|---|---|---|
| `ApprovalAndQueue` | jobs, approvals and direct publication compete: jobs exclusive (`JobExclusive`), tries bounded, a post published once, with one live job, never parked for two things (`OneClaim`), decisions final, nothing reopened (`NotReopened`), cancellations final, `JobLifecycle` and `PostLifecycle` refined | 2 posts, 2 jobs, 2 dispatchers and 2 clients of one process, 1 approval request, all five operations, 0 or 2 tries, batches of 2, one lost answer per post; posts, jobs, dispatchers and clients interchangeable (`SYMMETRY`) | 1.3 M |
| `MCDispatchers` | dispatchers of two processes, one crash: jobs exclusive, rows true (`RowsTellTruth`), every job ends | 2 posts with a job each, one lost answer per post, batches of 1 | 0.3 M |
| `StepSequences` | steps in order (`InOrder`) and once (`SentOnce`), completed only when sent, limit and backoff kept, enrollments end | the cron process and the API process, 2 enrollments, lists of 1 or 2 messages, batches of 2 in which another sequence may take a place, limit 1, jitter 1, a crash and a failure | 1.0 M |
| `EngagementGates` | no reply lost (`NoReplyLost`) or left waiting (`RepliesSettled`), users written to once (`ActionOnce`), limit and backoff kept | 2 gates on 2 posts, one with conditions and open to an update that drops them and its post, 1 reply to each post, batches of 2 of which another account takes a place, limit 1, the cron process and the API process, one fault (a failed call, a lost answer or a crash) | 0.6 M |
| `BudgetedPosts` | payments accounted for (`Ledger`), a limit passed by at most the requests that check at once (`OvershootBounded`), one publication per key | 2 processes, 3 clients, 2 posts, 1 key, 2 policies of different scope and action, a crash and a failure | 3.1 M |
| `Inbox` | `InboundOnce`, `SyncComplete`, `ReplyOnce`, `LikedOnce` | 2 conversations, 3 messages, the second without an id if others say it, echoes, 1 reply, 3 clients of one process, one fault | 3.4 M |
| `FollowerSync` | `LostOnlyIfGone`, `SyncedWasTrue` | 2 users, 2 requests of one process, pages of one profile, one change on the platform; any number of failures and crashes | 1.0 M |
| `AgentGateway` | `UsageTellsCalls`, `AuditTrail`, `PreviewIsCurrent` | 2 chats and an execution, 2 providers, 2 routes of which one has a fallback, 3 calls, 1 fault | 2.6 M |
| `PostSchedulerAbandoned`, `PostSchedulerDeleted`, `ApprovalCrash`, `StepSequencesClosed` | statements of the repository that the code does not keep (section 4) | smallest instance that shows it | |

`StepSequences`, `BudgetedPosts`, `Inbox` and `AgentGateway` also have their type
invariant checked; those of `PostScheduler`, `ApprovalFlow`, `EngagementGates` and
`FollowerSync` are proved only (section 5).

*Why these bounds are enough to be interesting.* Two dispatchers with batches of two
overlap on both jobs; two jobs let one wait in a batch while the other is published,
and let a post be scheduled again after a cancellation; two tries are a retry and
the last attempt; `maxAttempts` 0 is the boundary the API does not check; a lock
timeout of two units lets a lock age before it is stale; one crash at any statement
leaves every half-done state there is. A limit of one with batches of two makes the
second enrollment or reply of a batch meet the delivery of the first; lists of one
and of two messages let a replacement shorten or extend a list in the middle of it.
Two policies of different scope decide for one post, and are swapped while it is
checked. Three messages in two conversations let a webhook and a sync meet in a
conversation and apart from it; `SplitThreads` is empty in the run, and any set of
conversations in the theorems. The gates of the run send their action; `verify_only`
is in the theorems. Where a run has one fault, it is of every kind and at every
statement, and the theorems have any number. One profile per page makes a listing of
two users last three calls, between which the platform changes. Three calls let one
chat fall back while the other asks.

*Fairness.* `FairSpec` and `DispatchSpec` assume that a live process goes on
executing its statements and polling (the timer is set again after every tick,
even a failed one: `worker/scheduler.ts:232-244`), that a platform call returns
(accepted, rejected or lost) and that time passes. No request need ever arrive
and no process need crash. `StepSequences!FairSpec` assumes the same of its
dispatcher, and `EngagementGates!FairSpec` of its processor, each with strong
fairness of `Tick`: however often the poller scans, time passes between two polls,
which are ten seconds apart. Failures are bounded: an enrollment or a reply whose
calls are refused for ever is never done with. `JobsEnd` is checked with a crash, and
excepts the job that a dead process has left "running", for the reason the first
finding gives.

*Places in a batch.* `findActiveReplyTriggers` and `findActiveDue` take the first 50
rows SQLite gives them, in no order and without rotation. `RepliesSettled` therefore
speaks of gates that, with those of other accounts, fit the batch, and
`EnrollmentsEnd` assumes that the due rows of other sequences leave a place
(`PlacesAssumption`; the rows of a paused sequence stay due and keep theirs). With
more of them the same rows may be taken at every tick, and the replies to a gate, or
the next step of an enrollment, wait for ever: the code promises nothing then.

*Assumption on time.* `LeaseHonoured`: a live process does not stall for the
whole lock timeout (five minutes) between `lockJob` and the update to "running",
two statements in a row. Without it a stale lock can be taken from a living
owner and no lock of this kind excludes anything. Between "running" and the end
of the publication no such assumption is made: a running job cannot be locked.

*Where the promises stop.* With publish or schedule requests in another process than
the dispatcher's, `PublishedOnce` and `NotReopened` do not hold: `executeJob` turns
the post into a draft for a moment (`schedule.ts:764`) and such a request takes it
for one. After a crash between the two writes of `schedulePost` or `cancelSchedule`,
a scheduled post has no job, or a draft has one. The passing runs therefore check
these properties where they are promised: requests in the dispatcher's process, and
dispatchers alone in two processes. A cancellation that the dispatcher of another
process overtakes is overwritten (`cancelSchedule` writes without looking), so
`CanceledStaysCanceled` is checked in one process too. That jobs are exclusive with
requests in another process than the dispatcher's is not a run of its own: the
theorem `Exclusive` covers it. `OneClaim` is checked without crashes: one between
the creation of an approval request and the parking of its post leaves a draft with
a pending request. With two processes, approve and reject can both decide
(`OneDecision` needs `OneApiProcess`). `SentOnce` of `StepSequences` does not hold
with two dispatchers, in two processes or as `POST /step-sequences/process` beside
the poller: nothing claims an enrollment before it is sent to. `CompletedIsSent` is
about completions by a dispatcher and the messages it read: an operator may complete
an enrollment by hand or replace the messages under it. `ActionOnce` is for one
processor, for the same reason. `NoReplyLost` is about gates whose post was never
changed: `updateEngagementGate` keeps `lastReplySinceId`, so replies to the new post
below the old mark are not listed. The limits of gates and of sequences count rows:
a message whose record was lost, refused or deleted is counted by nobody, neither by
the code nor by `LimitKept`, so more users may be written to. Nor does
`OvershootBounded` of `BudgetedPosts` count the calls of `unrecorded`: enough
approved publications pass any limit. `InboundOnce`, `SyncedWasTrue` and
`LostOnlyIfGone` are for one process: between the lookup and the insert of another
one, a row is stored twice, or a relation written back as it was read. `InboundOnce`
counts the rows of an inbound message per thread row; in a conversation of
`SplitThreads` there are two threads. It is about what others said and has an id: an
event without one is stored at each delivery, and what the account says once as
outbound and once, by its echo, as inbound. `ReplyOnce` is for one process too: two
reviews in two processes may both find the request pending, both approve it and both send.
`LikedOnce` is for requests that follow one another: two at once both find no action
and both like.

## 4. Findings

1. `AbandonedIsLockable`: a job whose process dies while it is "running" is never
   executed again, though `schedule.ts:59` says five minutes after its lock it
   can be.
2. `DeletedStaysDeleted`: a post deleted during its publication comes back as
   failed (or published).
3. `ApprovedIsRun`: the decision is recorded before the publication is run; a
   crash in between leaves an approved request that cannot be approved again
   and a post parked for good.
4. `ClosedNotSent`: an enrollment cancelled while an earlier one of the batch is
   being sent is still written to; the loop looks at the status its scan read.

Also noticed, without a run of its own: the comment above `updateSchedule`
(`schedule.ts:533`) says only pending jobs can be rescheduled, the code also takes
retrying ones. `docs/architecture.md:312` has the scheduler record usage, but
its worker is built without a `usageRepo`.

## 5. Proofs

`PostSchedulerProofs` proves for every number of posts, jobs, dispatchers,
requests and processes, and every value of the bounds that the named assumptions
of `PostScheduler` allow:

* `TypeCorrect`: `Spec => []TypeOK`. `TypeOK` alone is not inductive: that
  `MarkRunning` writes a row needs `loc[w].cur` to be a job. `TypeInv` adds
  which local variables are set where (`LocalsOK`).
* `Exclusive`: `SafeDeployment => (Spec => []JobExclusive)`.
* `TriesBounded`: `SafeDeployment => (Spec => []AttemptsBounded)`.
* `LifecycleKept` and `CancellationsFinal`: if all actors share a process, or
  nothing reschedules or cancels (`SafeCancels`), `Spec` implements
  `JobLifecycle!Spec` and satisfies `CanceledStaysCanceled`.

* `DispatchedOnce` and `OutcomesTrue`: if the only requests are deletions
  (`OnlyDeletions`), `QueuedInit /\ [][Next]_vars` satisfies `PublishedOnce` and
  `RowsTellTruth`: any number of dispatchers, in any number of processes that die at
  any statement, publish a queued post once, and no row says otherwise.

`SafeDeployment` says that all actors share one process or that nothing
reschedules. It is needed: `updateSchedule` may put a job that another process
has locked back to pending, and a second dispatcher may then lock it.

Both safety theorems rest on `ExecutionInv`:

* `Held`: while a dispatcher executes a job, its row is "locked" with a lock that
  is not stale, then "running"; or a cancellation has failed it. None of these
  can be locked.
* `TriesCounted`: a row that can be locked has a try left, and the try in hand
  is the one the row counts.
* `RescheduleFresh`: what `updateSchedule` checked still holds when it writes,
  because its process was not interrupted.

Each step either writes the row of a job nobody else executes (`OwnRowStep`),
writes no row (`QuietStep`), or is one of `MarkRunning`, `CancelJob` and `Tick`,
which have lemmas of their own; for `Tick` the lease is what keeps a lock from
becoming stale in its owner's hands.

The refinement needs `RowInv` besides. `OwnRows`: a row is "locked", then
"running", until its executor writes the outcome, so each write maps to one step of
the lifecycle. `CancelFresh`: what `cancelSchedule` checked holds when it writes.
It writes without looking, which is why dispatchers of another process are
excluded: they would lock the job between the check and the write.

The last two rest on `DispatchInv` besides. A job is its post's only one, and each
status of its row says whether the post is out (`RowsTell`), except "running", which
does not: there the statement of the executor does (`ExecutorsTell`). That a row is
never lockable while its post is out makes a crash harmless: a process that dies once
the post is out leaves the row "running", which nobody may lock. Were the first finding
repaired by taking such rows up again, this proof would fail, and rightly so.

`ApprovalFlowProofs` proves `DecisionsFinal`: if all clients run in one process,
`ApprovalSpec => OneDecision`, an action property. Its invariant says that the
request a client is about to decide is still pending: the process was not
interrupted between the check and the write. Besides:

* `ApprovalTypeCorrect`: `ApprovalSpec => []ApprovalTypeOK`.
* `ApprovalsKeepTheQueue`: under `SafeCancels`, `JobExclusive`, `AttemptsBounded`,
  the lifecycle and `CanceledStaysCanceled` hold of `ApprovalSpec` too. The lemmas
  of `PostSchedulerProofs` are stated so that a module that adds statements, as this
  one does, can cite them.
* `OneClaimPerPost`, `PostsPublishedOnce`, `OneJobPerPost` and `NoReopening`: if all
  actors run in one process and it does not crash (`OneUp`), `ApprovalSpec` satisfies
  `OneClaim`, `PublishedOnce`, `OneLiveJob` and `NotReopened`. Both conditions are
  needed (section 3, "Where the promises stop").
* `PostPromiseKept`: under `OneUp`, `ApprovalSpec` implements `PostLifecycle!Spec`.

These rest on `FlowInv`. Its main part, `PostInv`, says of every post which
live jobs, pending requests and calls claim it:

* a post nobody works on is `Settled`: its status tells its claim. A draft has none,
  a scheduled post one job or one request, a published post none and one
  acceptance more than were lost; only a failed or deleted post may have a job
  that failed for good;
* a post that an actor works on, between two statements, is in its `Hand`, which
  gives for each statement the statuses the post may have, the one claim the
  actor stands for, and whether the platform has it. Only one actor at a time is
  between two statements, so no two hold one post; while a call is out, others
  may delete the post, and the statements after the call allow for that.

`TargetsOK` ties an actor's post to the job or the request it works for. A lemma
per operation takes `Settled` to `Hand`, along the statements, and back.
`NoReopening` then needs one look at each write: the statuses `Hand` allows
before it include "published" or "deleted" only where the write keeps them.
`PostPromiseKept` looks at the same writes: each is the step of `PostLifecycle` of the
same meaning, whose guard `Hand` gives, and `Accept` and `LoseReply` are `GoOut` and
`Forget`. Only with the invariant are they: nothing in `ResetPost` or `RejectDraft`
looks at whether the post is out.

`StepSequencesProofs` proves, for any number of enrollments, the first three for any
number of dispatchers and processes too:

* `StepTypeCorrect`: `Spec => []TypeOK`, strengthened by what a dispatcher has in
  hand (`HandOK`): an enrollment, and from the call on a message for its step.
* `StepsInOrder`: `Spec => []InOrder`. `OrderInv` adds that a row at step n, in
  the database (`RowsDelivered`) or in some dispatcher's batch
  (`BatchesDelivered`), shows that the steps before n were sent, and that a
  dispatcher past its call has sent its step (`CallsDelivered`). Since `sent`
  only grows, an old row never claims too much: this is why steps stay in
  order although rows are overwritten from old copies.
* `CompletionsSent`: `Spec => CompletedIsSent`, from `OrderInv`: a dispatcher that
  finds no step after the one it has sent has sent all it read.
* `BackoffRespected`: if the dispatchers share a process, `Spec => BackoffKept`. From
  the read of the sequence to the call nobody interrupts (`BackoffInv`).
* `OvershootLimited`: `Spec => []OvershootBounded`, without an assumption about the
  deployment: the deliveries recorded within `Window` and those about to be are no
  more than `Limit` and the other dispatchers. A dispatcher that is past the count
  and has not recorded its delivery is `Ahead`; what is counted and who is ahead add
  up to no more than `Limit` and the dispatchers that did not count last
  (`RoomInv`), for whoever counts last finds room, and everybody else may be ahead
  of it.
* `StepsSentOnce`: with one dispatcher (`OneDispatcher`), `Spec => []SentOnce`. A
  bound on `sent` is not inductive: it has to be known that a row is moved past the
  step that was sent. `SettledInv` says that nothing beyond the row's step was sent,
  that the row's own step was sent only by acceptances that were lost or that the
  dispatcher has yet to record (`Settled`), and that the rows in the dispatcher's
  batch are at the step the database has (`Current`): requests change the status of a
  row, never its step. Two dispatchers that read a row both send its step.
* `DeliveriesLimited`: with one dispatcher, `Spec => []LimitKept`: there are no others.

For several dispatchers there is no such bound on `SentOnce`: one that advances from
an old copy of a row sets the enrollment back, and a step can be sent over again.

`EngagementGatesProofs` proves, for any number of gates, users and replies, the
first three for any number of processors and processes too:

* `GateTypeCorrect`: `Spec => []TypeOK`.
* `MarkLosesNoReply`: `Spec => []NoReplyLost`, for gates outside `repointed`, whose
  copies have the post of the row. `Done` says that a mark passes over
  no undecided reply. It holds of the gates' rows and of every copy a processor has
  read, because decisions and the timeline only grow. `HandOK` adds what makes a
  processor's next mark `Done`: unless it has put a reply off (`keep`), every reply
  up to the mark is decided, still in its list, or the one in hand. So a processor
  that is overtaken, and writes an old mark over a newer one, loses nothing either.
* `OvershootLimited`: `Spec => []OvershootBounded`, by the argument of
  `StepSequencesProofs`: no more deliveries within `Window` than `Limit` and the other
  processors. Requests add rows by name only (`Named`), and never take from the room.

for one processor (`OneProcessor`), beside which requests verify, consume tokens
and change or delete gates, in its process or in others, and processes crash:

* `UsersWrittenOnce`: `Spec => []ActionOnce`. `OnceInv` says that a user without a
  delivered row, whom the processor does not have in hand, was sent to only by
  acceptances no row stands for (`Once`), and that the processor decides about a
  user only without a row (`Writes`). Requests insert rows by name, the processor by
  id, so they do not meet.
* `DeliveriesLimited`: `Spec => []LimitKept`, as there is no other processor.
* `BackoffRespected`: `Spec => BackoffKept`. The copies of the gates' pauses in the
  processor's batch agree with the rows, unless it is holding back because the
  platform asked for a pause in this batch (`BackoffInv`).

With two processors none of the three holds: nothing claims a reply. And where one
process serves the requests (`OneServer`), whatever processes the processors are in:

* `TokensRedeemedOnce`: `Spec => []TokenRedeemedOnce`. A request past the check of
  `consumedAt` will be told that it consumed the token; the token is not consumed
  then, and no other request has it in hand. In two processes both would be told.

`BudgetedPostsProofs` proves, for any number of posts, keys, platforms, requests,
policies and processes:

* `BudgetTypeCorrect` and `LedgerBalances`: `Spec => []TypeOK`, `Spec => []Ledger`,
  without an assumption about the deployment. `Books` adds to the ledger that the
  ids of usage records are fresh and that no two requests hold one call: without
  that, recording one request's call could take another's out of its hands. That the
  calls without a record have none at all, and nobody who will write one, is part of it.
* `KeyPublishedOnce`: if the requests that publish share a process (`OneProcess`),
  `Spec => []PublishedOncePerKey`. `Once` says that a fresh post (absent, draft,
  scheduled) was never sent to a platform and is in nobody's call (`PostOnce`), that
  between its check and its mark a post is still the draft that was checked
  (`OnceOK`, `Alone`), that a post has one caller at most (`OneCaller`) and a key one
  row (`OneKey`, the unique index). The last part needs no `OneProcess`: requests of
  a second process may create posts under the same keys. The rest does: two
  processes can check one draft and both publish it.
* `OvershootLimited`: `Spec => OvershootBounded`, again without an assumption about
  the deployment. By the ledger, a call that is neither recorded nor unrecorded for good
  is in the hands of a request; no request has two (`Books`), and only a client that may
  publish gets as far (`SpendingInv`). So when one of them passes a limit, the calls
  its sum did not see are at most one per other publisher.

`InboxProofs` proves, for any number of conversations, messages, requests and
processes:

* `InboxTypeCorrect`: `Spec => []TypeOK`. `CoreInv` adds what a request has in hand
  (`HandOK`) and that a row of `messages` lies in a thread of its conversation
  (`RowsOK`). Both survive whatever others do, because threads, messages and
  what was said only grow.
* `SyncsComplete`: `Spec => SyncComplete`. `SyncHand` says that each message listed so
  far is stored or still in the list in hand.
* `StoredOnce`: if the requests share a process (`OneProcess`), `Spec =>
  []InboundOnce`. `FreshOK` says that what a lookup found missing is missing still
  at the insert: every other request waits for a platform in between. Messages
  without an id, and the account's own, are excepted by `InboundOnce`. With a second
  process it does not hold, and the tables have no unique index to help.
* `RepliesOnce`: under `OneProcess`, `Spec => []ReplyOnce`: a reply has one sender at
  most, has not been sent while it has one, and was allowed to be sent (`SendInv`); a
  request that is about to be decided is pending still (`ReviewInv`), which two
  processes do not keep.
* `LikesOnce`: if one client asks for likes (`OneLiker`), `Spec => []LikedOnce`. A
  thread was liked once if it has its row or the client is about to write it, and
  once for each like that was lost (`LikeInv`).

`FollowerSyncProofs` proves, for any number of users, requests, pages and failures:

* `SyncTypeCorrect`: `Spec => []TypeOK`.
* `NobodyLostWrongly` and `RowsWereTrue`: if the requests share a process, `Spec`
  satisfies `LostOnlyIfGone` and `SyncedWasTrue`. `ListedOK` says that a listing
  holds only whom it could have met, and once it is over everybody it could not have
  missed, whoever else is at work. `StoredOK` says that the row a request has read is
  the row there is, and that what it has stored stays until it is done. With two
  processes an upsert writes back the relation it read, and `StoredOK` fails.

`AgentGatewayProofs` proves, for any number of requests, processes, routes and
packages, without an assumption about the deployment:

* `GatewayTypeCorrect` and `CallsAreTold`: `Spec => []TypeOK`,
  `Spec => []UsageTellsCalls`. `HandOK` adds that no execution is ever at the record of
  a call, so a crash loses as many records as `Owing` counts.
* `AuditTold`: `Spec => []AuditTrail`. `ChatsTold` counts the answers: a chat has
  one from the call that gave it until it logs it, and none before (`ChatOK`).
  `PostsTold` follows the posts: one execution at most has a post in hand, which
  nobody has logged and which has the status the statement says (`HeldOK`), and
  after its log the post stays what the log says (`PostTold`).
* `PreviewsCurrent`: `Spec => PreviewIsCurrent`, as a step can change what a chat shows
  only where the packages are read again.

Every safety property that a passing run checks is thus stated by a theorem about
`Spec`, `ApprovalSpec` or the queue from `QueuedInit`, under an assumption that the
run's deployment meets; the run `MCDispatchers`, which starts from `QueuedInit`,
checks `JobExclusive` from there too. The theorems whose statement no run checks are
the type invariants named in section 3, the two `OvershootLimited`, which say something
of several dispatchers or processors where the runs have one, and `TokensRedeemedOnce`,
which says something of two requests where the run has one.

Only model-checked: liveness (`JobsEnd`, `EnrollmentsEnd`, `RepliesSettled`), as
fairness and `ENABLED` are out of the prover's reach, and the four findings, whose
counterexamples are TLC's. The bounded counters and the histories (`platform`, `lost`,
`unrecorded`) are part of the models, so the theorems hold for every value of the
bounds, not without them.

## 6. Not modelled, and why

* The web UI, CLI, SDK and MCP server, nearly half of the implementation's
  lines, are clients of the HTTP API and layout: they keep no state a promise of
  the system depends on. The edge worker does not use the use cases above.
* Accounts and OAuth: whether an account can be used is a choice of the
  environment in every module (`NoAccount`, `AccountFails`); what remains is I/O.
* Roles are a static table, looked up per request.
* Campaigns put together a post, a gate and a schedule by the operations modelled
  above; quote tweets, tags and analytics are upserts and reports.
* Usage reports and lists only read. `expireStaleRequests` is called by no entry
  point. `updatePost` rewrites the text of a draft.
* The adapters' HTTP requests, encryption, prompts, JSON Schema.

The four limits of gates and sequences (hourly and daily, of the object and of the
account) are one in each module, and sequences of one account are not yet
composed with each other, with gates and with the queue in one polling tick.
