-------------------------- MODULE ApprovalFlowProofs --------------------------
(***************************************************************************)
(* TLAPS proofs about ApprovalFlow, for any number of posts, requests,     *)
(* reviewers, jobs and dispatchers.                                        *)
(*                                                                         *)
(* Decisions are final (OneDecision) when all API requests are served by   *)
(* one process: the check in approveRequest and rejectRequest and the      *)
(* write that follows are two statements; what the check saw still holds   *)
(* at the write because no other request runs in between.                  *)
(*                                                                         *)
(* The queue keeps everything PostSchedulerProofs shows about it: the      *)
(* requests of ApprovalFlow write no job.                                  *)
(*                                                                         *)
(* In one process that does not crash (OneUp) posts have one claim at most *)
(* (PublishedOnce, OneLiveJob, OneClaim) and are not reopened              *)
(* (NotReopened), by the invariant FlowInv: a post that no actor works on  *)
(* between two statements is Settled, and the actor that works on a post   *)
(* has it in Hand, which says what that actor knows of the post at each    *)
(* statement.  A lemma per operation shows that a step keeps this.         *)
(***************************************************************************)
EXTENDS ApprovalFlow, PostSchedulerProofs

OneApiProcess == \A c, d \in Clients : HostOf[c] = HostOf[d]

Tables ==
    /\ pc = [a \in Actors |-> pc[a]]
    /\ request = [r \in Requests |-> request[r]]
    /\ reviewing = [c \in Clients |-> reviewing[c]]

\* A client about to write a decision decides a request that is pending.
ReviewsPending ==
    \A c \in Clients :
       pc[c] \in {"approve", "reject"} =>
          reviewing[c] \in Requests /\ request[reviewing[c]].status = "pending"

ReviewInv == Tables /\ ReviewsPending

\* A step after which pc differs by one actor that does not enter a review.
OrdinaryMove ==
    \E a \in Actors : \E l : l \notin {"approve", "reject"} /\ pc' = [pc EXCEPT ![a] = l]

-----------------------------------------------------------------------------
\* No step of the queue, the dispatchers or the publication enters a review.
LEMMA QueueMoves ==
  ASSUME NEW a \in Actors,
         \/ WorkerStep(a) \/ RequestStart(a) \/ RequestStep(a)
         \/ PublishStep(a) \/ ProviderStep(a)
  PROVE  OrdinaryMove
<1>1. CASE WorkerStep(a)
  <2>1. CASE Scan(a) \/ Lock(a) \/ Skip(a)
    BY <2>1 DEF Scan, Lock, Skip, Goto, OrdinaryMove
  <2>2. CASE ExecuteStep(a)
    BY <2>2 DEF ExecuteStep, MarkRunning, LoadPost, ResetPost, SucceedJob,
         RetryJob, FailJob, FailPost, NextCandidate, Goto, OrdinaryMove
  <2>. QED  BY <1>1, <2>1, <2>2 DEF WorkerStep
<1>2. CASE RequestStart(a)
  BY <1>2 DEF RequestStart, StartSchedule, StartReschedule, StartCancel,
       StartPublish, StartDelete, Goto, OrdinaryMove
<1>3. CASE RequestStep(a)
  BY <1>3 DEF RequestStep, SchedulePost, CreateJob, Reschedule, CancelRead,
       CancelDraft, CancelJob, DeleteAnswered, Delete, Respond, Goto, OrdinaryMove
<1>6. ASSUME NEW class, Throw(a, class)  PROVE OrdinaryMove
  BY <1>6 DEF Throw, Respond, Goto, OrdinaryMove
<1>4. CASE PublishStep(a)
  <2>1. ReturnPublished(a) => OrdinaryMove
    BY DEF ReturnPublished, Respond, Goto, OrdinaryMove
  <2>2. ASSUME NEW class, Throw(a, class)  PROVE OrdinaryMove
    BY <1>6, <2>2
  <2>3. CASE Publish(a)
    BY <2>2, <2>3 DEF Publish, Goto, OrdinaryMove
  <2>4. CASE NoAccount(a)
    BY <2>2, <2>4 DEF NoAccount
  <2>5. CASE MarkPublishing(a)
    BY <2>2, <2>5 DEF MarkPublishing, Goto, OrdinaryMove
  <2>6. CASE RecordPublished(a)
    BY <2>1, <2>6 DEF RecordPublished
  <2>7. CASE RecordFailed(a)
    BY <2>2, <2>7 DEF RecordFailed
  <2>. QED  BY <1>4, <2>3, <2>4, <2>5, <2>6, <2>7 DEF PublishStep
<1>5. CASE ProviderStep(a)
  <2>1. CASE Accept(a) \/ Reply(a) \/ LoseReply(a)
    BY <2>1 DEF Accept, Reply, LoseReply, Goto, OrdinaryMove
  <2>2. CASE Reject(a)
    BY <1>6, <2>2 DEF Reject, Goto, OrdinaryMove
  <2>. QED  BY <1>5, <2>1, <2>2 DEF ProviderStep
<1>. QED  BY <1>1, <1>2, <1>3, <1>4, <1>5

\* Steps that write no request keep the invariant.
LEMMA MoveKeeps ==
  ASSUME ReviewInv, OrdinaryMove, UNCHANGED approval
  PROVE  ReviewInv'
BY DEF ReviewInv, Tables, ReviewsPending, OrdinaryMove, approval

LEMMA QueueKeeps ==
  ASSUME ReviewInv, Next, UNCHANGED approval
  PROVE  ReviewInv'
<1>1. CASE \E w \in Workers : WorkerStep(w)
  BY <1>1, QueueMoves, MoveKeeps DEF Actors
<1>2. CASE \E c \in Clients : RequestStart(c) \/ RequestStep(c)
  BY <1>2, QueueMoves, MoveKeeps DEF Actors
<1>3. CASE \E a \in Actors : PublishStep(a) \/ ProviderStep(a)
  BY <1>3, QueueMoves, MoveKeeps
<1>4. CASE Tick
  BY <1>4 DEF Tick, ReviewInv, Tables, ReviewsPending, approval
<1>5. CASE \E h \in Hosts : Crash(h)
  BY <1>5 DEF Crash, ReviewInv, Tables, ReviewsPending, approval, Actors
<1>. QED  BY <1>1, <1>2, <1>3, <1>4, <1>5 DEF Next

-----------------------------------------------------------------------------
\* Whoever writes a decision is the only client inside a review.
LEMMA AloneInReview ==
  ASSUME OneApiProcess, NEW c \in Clients, NEW d \in Clients, NEW l, Turn(c, l),
         pc[d] \in {"approve", "reject"}
  PROVE  c = d
BY DEF OneApiProcess, Turn, Yielding, Actors

\* What writing a decision changes.
LEMMA DecisionStep ==
  ASSUME OneApiProcess, ReviewInv, NEW c \in Clients,
         ApproveRequest(c) \/ RejectRequest(c)
  PROVE  /\ reviewing[c] \in Requests
         /\ request[reviewing[c]].status = "pending"
         /\ \E s : request' = [request EXCEPT ![reviewing[c]].status = s]
         /\ ReviewInv'
<1>1. pc[c] \in {"approve", "reject"}
  BY DEF ApproveRequest, RejectRequest, Turn
<1>2. \A d \in Clients \ {c} : pc[d] \notin {"approve", "reject"}
  BY AloneInReview DEF ApproveRequest, RejectRequest
<1>3. \E l : l \notin {"approve", "reject"} /\ pc' = [pc EXCEPT ![c] = l]
  BY DEF ApproveRequest, RejectRequest, Goto
<1>4. ReviewsPending'
  BY <1>2, <1>3 DEF ReviewInv, Tables, ReviewsPending, Actors
<1>5. Tables'
  BY <1>3 DEF ReviewInv, Tables, ApproveRequest, RejectRequest, Decide,
       ForgetReview, Actors
<1>. QED
  BY <1>1, <1>4, <1>5 DEF ReviewInv, ReviewsPending, ApproveRequest,
       RejectRequest, Decide

\* Starting a review reads a pending request.
LEMMA StartKeeps ==
  ASSUME ReviewInv, NEW c \in Clients, StartApprove(c) \/ StartReject(c)
  PROVE  ReviewInv' /\ request' = request
<1>1. PICK r \in Requests, l \in {"approve", "reject"} :
         request[r].status = "pending" /\ StartReview(c, r, l)
  BY DEF StartApprove, StartReject
<1>2. /\ reviewing' = [reviewing EXCEPT ![c] = r]
      /\ pc' = [pc EXCEPT ![c] = l]
      /\ request' = request
  BY <1>1 DEF StartReview, Goto
<1>. QED  BY <1>1, <1>2 DEF ReviewInv, Tables, ReviewsPending, Actors

\* The other steps of a review write no request.
LEMMA ExecutorKeeps ==
  ASSUME ReviewInv, NEW c \in Clients,
         \/ ExecutorLoad(c) \/ ExecutorReset(c) \/ RejectRead(c) \/ RejectDraft(c)
         \/ Ask(c) \/ HoldPost(c)
  PROVE  ReviewInv' /\ request' = request
<1>1. OrdinaryMove
  BY DEF ExecutorLoad, ExecutorReset, RejectRead, RejectDraft, Ask, HoldPost,
       Respond, Goto, OrdinaryMove, Actors
<1>2. UNCHANGED approval
  BY DEF ExecutorLoad, ExecutorReset, RejectRead, RejectDraft, Ask, HoldPost
<1>. QED  BY <1>1, <1>2, MoveKeeps DEF approval

\* A new request takes a row nobody reviews.
LEMMA CreateKeeps ==
  ASSUME ReviewInv, NEW c \in Clients, CreateRequest(c)
  PROVE  /\ ReviewInv'
         /\ \A r \in Requests : request[r].status \in Decided => request'[r] = request[r]
<1>1. PICK r \in Free :
         request' = [request EXCEPT ![r] = [status |-> "pending", post |-> loc[c].tgt]]
  BY DEF CreateRequest
<1>2. /\ pc' = [pc EXCEPT ![c] = "holdPost"]
      /\ reviewing' = reviewing
  BY DEF CreateRequest, Goto
<1>3. request[r].status = "absent" /\ r \in Requests
  BY DEF Free
<1>4. Tables'
  BY <1>1, <1>2 DEF ReviewInv, Tables
<1>5. ReviewsPending'
  BY <1>1, <1>2, <1>3 DEF ReviewInv, Tables, ReviewsPending, Actors
<1>. QED  BY <1>1, <1>3, <1>4, <1>5 DEF ReviewInv, Tables, Decided

LEMMA ReviewStepKeeps ==
  ASSUME OneApiProcess, ReviewInv, [ApprovalNext]_allVars
  PROVE  /\ ReviewInv'
         /\ \A r \in Requests : request[r].status \in Decided => request'[r] = request[r]
<1>1. CASE Next /\ UNCHANGED approval
  BY <1>1, QueueKeeps DEF approval
<1>2. CASE UNCHANGED allVars
  BY <1>2 DEF allVars, vars, approval, ReviewInv, Tables, ReviewsPending
<1>3. ASSUME NEW c \in Clients, AskStep(c) \/ ReviewStep(c)
      PROVE  /\ ReviewInv'
             /\ \A r \in Requests :
                   request[r].status \in Decided => request'[r] = request[r]
  <2>1. CASE CreateRequest(c)
    BY <2>1, CreateKeeps
  <2>2. CASE StartApprove(c) \/ StartReject(c)
    BY <2>2, StartKeeps
  <2>3. CASE ApproveRequest(c) \/ RejectRequest(c)
    <3>1. \A r \in Requests : request[r].status \in Decided => request'[r] = request[r]
      BY <2>3, DecisionStep DEF ReviewInv, Tables, Decided
    <3>. QED  BY <2>3, <3>1, DecisionStep
  <2>4. CASE \/ ExecutorLoad(c) \/ ExecutorReset(c) \/ RejectRead(c)
             \/ RejectDraft(c) \/ Ask(c) \/ HoldPost(c)
    BY <2>4, ExecutorKeeps
  <2>. QED  BY <1>3, <2>1, <2>2, <2>3, <2>4 DEF AskStep, ReviewStep
<1>. QED  BY <1>1, <1>2, <1>3 DEF ApprovalNext

-----------------------------------------------------------------------------
\* Approved and rejected are final: approveRequest and rejectRequest check
\* before they write (approval.ts:193, 280), and in one API process nothing
\* comes between.
THEOREM DecisionsFinal ==
  ASSUME OneApiProcess
  PROVE  ApprovalSpec => OneDecision
<1>1. ApprovalInit => ReviewInv
  BY DEF ApprovalInit, Init, ReviewInv, Tables, ReviewsPending, Actors
<1>2. ReviewInv /\ [ApprovalNext]_allVars => ReviewInv'
  BY ReviewStepKeeps
<1>3. ReviewInv /\ [ApprovalNext]_allVars =>
        [\A r \in Requests : request[r].status \in Decided => request'[r] = request[r]]_allVars
  BY ReviewStepKeeps
<1>. QED  BY <1>1, <1>2, <1>3, PTL DEF ApprovalSpec, OneDecision

-----------------------------------------------------------------------------
(* Type correctness, and with it what PostSchedulerProofs shows about the    *)
(* queue: the requests of this module write no job, and go to no statement   *)
(* that writes one.                                                          *)

FlowTypes ==
    /\ TypeInv
    /\ pc \in [Actors -> PCs \cup ApprovalPCs]
    /\ request \in [Requests -> RequestRows]
    /\ reviewing \in [Clients -> Requests \cup {None}]

\* A client goes to a statement that writes no job.
Aside(c) ==
    \E l \in ApprovalPCs \cup {"idle", "publish"} : \E r \in Locals :
       pc' = [pc EXCEPT ![c] = l] /\ loc' = [loc EXCEPT ![c] = r]

LEMMA FlowMoves ==
  ASSUME FlowTypes, NEW c \in Clients, AskStep(c) \/ ReviewStep(c)
  PROVE  Aside(c)
<1>1. /\ c \in Actors /\ loc[c] \in Locals /\ NoLocals \in Locals
      /\ loc = [loc EXCEPT ![c] = loc[c]]
  BY NoLocalsType DEF FlowTypes, TypeInv, Typed, Actors
<1>2. \A p \in Posts \cup {None} : [NoLocals EXCEPT !.tgt = p] \in Locals
  BY ONLY <1>1 DEF Locals
<1>3. \A r \in Requests : request[r].post \in Posts \cup {None}
  BY DEF FlowTypes, RequestRows
<1>4. CASE Ask(c) \/ CreateRequest(c) \/ HoldPost(c)
  BY <1>1, <1>2, <1>4 DEF Ask, CreateRequest, HoldPost, Respond, Goto, SetLocals, Aside, ApprovalPCs
<1>5. CASE StartApprove(c) \/ StartReject(c)
  <2>1. PICK r \in Requests, l \in {"approve", "reject"} : StartReview(c, r, l)
    BY <1>5 DEF StartApprove, StartReject
  <2>. DEFINE x == [NoLocals EXCEPT !.tgt = request[r].post]
  <2>2. x \in Locals  BY <1>2, <1>3
  <2>3. pc' = [pc EXCEPT ![c] = l] /\ loc' = [loc EXCEPT ![c] = x]
    BY <2>1 DEF StartReview, Goto, SetLocals
  <2>4. l \in ApprovalPCs  BY DEF ApprovalPCs
  <2>. HIDE DEF x
  <2>. QED  BY <2>2, <2>3, <2>4 DEF Aside
<1>6. CASE \/ ApproveRequest(c) \/ ExecutorLoad(c) \/ ExecutorReset(c)
           \/ RejectRequest(c) \/ RejectRead(c) \/ RejectDraft(c)
  BY <1>1, <1>6 DEF ApproveRequest, ExecutorLoad, ExecutorReset, RejectRequest,
     RejectRead, RejectDraft, Respond, Goto, SetLocals, Aside, ApprovalPCs
<1>. QED  BY <1>4, <1>5, <1>6 DEF AskStep, ReviewStep

\* The requests of this module leave the queue alone.
LEMMA FlowFrame ==
  ASSUME NEW c \in Clients, AskStep(c) \/ ReviewStep(c)
  PROVE  UNCHANGED <<job, sns, crashes>>
BY DEF AskStep, ReviewStep, Ask, CreateRequest, HoldPost, StartApprove, StartReject,
   StartReview, ApproveRequest, ExecutorLoad, ExecutorReset, RejectRequest,
   RejectRead, RejectDraft

LEMMA FlowPosts ==
  ASSUME FlowTypes, NEW c \in Clients, AskStep(c) \/ ReviewStep(c)
  PROVE  post' \in [Posts -> PostStatus]
<1>1. post' = post \/ \E s \in PostStatus : SetPost(loc[c].tgt, s)
  BY DEF AskStep, ReviewStep, Ask, CreateRequest, HoldPost, StartApprove, StartReject,
     StartReview, ApproveRequest, ExecutorLoad, ExecutorReset, RejectRequest,
     RejectRead, RejectDraft, PostStatus
<1>. QED  BY <1>1 DEF FlowTypes, TypeInv, Typed, SetPost

\* The row a request of this module writes.
LEMMA FlowRequests ==
  ASSUME FlowTypes, NEW c \in Clients, AskStep(c) \/ ReviewStep(c)
  PROVE  /\ request' \in [Requests -> RequestRows]
         /\ reviewing' \in [Clients -> Requests \cup {None}]
<1>0. /\ request \in [Requests -> RequestRows]
      /\ reviewing \in [Clients -> Requests \cup {None}]
  BY DEF FlowTypes
<1>1. CASE CreateRequest(c)
  <2>1. loc[c].tgt \in Posts \cup {None}
    BY DEF FlowTypes, TypeInv, Typed, Locals, Actors
  <2>2. [status |-> "pending", post |-> loc[c].tgt] \in RequestRows
    BY <2>1 DEF RequestRows
  <2>. QED  BY <1>0, <1>1, <2>2 DEF CreateRequest, Free
<1>2. CASE StartApprove(c) \/ StartReject(c)
  BY <1>0, <1>2 DEF StartApprove, StartReject, StartReview
<1>3. CASE ApproveRequest(c) \/ RejectRequest(c)
  <2>1. \A q \in RequestRows : \A s \in Decided : [q EXCEPT !.status = s] \in RequestRows
    BY DEF RequestRows
  <2>2. PICK s \in Decided : request' = [request EXCEPT ![reviewing[c]].status = s]
    BY <1>3 DEF ApproveRequest, RejectRequest, Decide, Decided
  <2>3. request' \in [Requests -> RequestRows]
    <3>. DEFINE k == reviewing[c]
    <3>1. request' = [request EXCEPT ![k] = [request[k] EXCEPT !.status = s]]
      BY <2>2
    <3>2. k \in Requests => [request[k] EXCEPT !.status = s] \in RequestRows
      BY <1>0, <2>1
    <3>. HIDE DEF k
    <3>. QED  BY <1>0, <3>1, <3>2
  <2>4. reviewing' \in [Clients -> Requests \cup {None}]
    BY <1>0, <1>3 DEF ApproveRequest, RejectRequest, ForgetReview
  <2>. QED  BY <2>3, <2>4
<1>4. CASE \/ Ask(c) \/ HoldPost(c) \/ ExecutorLoad(c) \/ ExecutorReset(c)
           \/ RejectRead(c) \/ RejectDraft(c)
  BY <1>0, <1>4 DEF Ask, HoldPost, ExecutorLoad, ExecutorReset, RejectRead,
     RejectDraft, approval
<1>. QED  BY <1>1, <1>2, <1>3, <1>4 DEF AskStep, ReviewStep

LEMMA StepFlowTypes == FlowTypes /\ [ApprovalNext]_allVars => FlowTypes'
<1>. SUFFICES ASSUME FlowTypes, [ApprovalNext]_allVars  PROVE FlowTypes'
  OBVIOUS
<1>1. CASE Next /\ UNCHANGED approval
  <2>1. TypeInv' /\ StaysIn  BY <1>1, StepTypeInv DEF FlowTypes
  <2>. QED  BY <1>1, <2>1 DEF FlowTypes, StaysIn, approval
<1>2. ASSUME NEW c \in Clients, AskStep(c) \/ ReviewStep(c)
      PROVE  FlowTypes'
  <2>1. PICK l \in ApprovalPCs \cup {"idle", "publish"}, r \in Locals :
           pc' = [pc EXCEPT ![c] = l] /\ loc' = [loc EXCEPT ![c] = r]
    BY <1>2, FlowMoves DEF Aside
  <2>2. c \in Actors /\ c \notin Workers  BY ActorsAssumption DEF Actors
  <2>3. LocalsAt(c, l, r)
    BY <2>2 DEF LocalsAt, ApprovalPCs, Executing, Publishing
  <2>4. Moves(c, l, r)  BY <2>1, <2>3 DEF Moves
  <2>5. /\ pc' = [b \in Actors |-> pc'[b]] /\ loc' \in [Actors -> Locals]
        /\ LocalsOK'
    BY <2>2, <2>4, MoveTypes DEF FlowTypes
  <2>6. pc' \in [Actors -> PCs \cup ApprovalPCs]
    BY <2>1, <2>2 DEF FlowTypes, PCs, Executing, Publishing
  <2>7. UNCHANGED <<job, sns, crashes>>  BY <1>2, FlowFrame
  <2>. QED  BY <1>2, <2>5, <2>6, <2>7, FlowPosts, FlowRequests
            DEF FlowTypes, TypeInv, Typed, sns
<1>3. CASE UNCHANGED allVars
  BY <1>3 DEF allVars, vars, approval, FlowTypes, TypeInv, Typed, LocalsOK, LocalsAt
<1>. QED  BY <1>1, <1>2, <1>3 DEF ApprovalNext

LEMMA InitFlowTypes == ApprovalInit => FlowTypes
<1>. SUFFICES ASSUME ApprovalInit  PROVE FlowTypes
  OBVIOUS
<1>1. TypeInv  BY InitTypeInv DEF ApprovalInit
<1>2. pc \in [Actors -> PCs \cup ApprovalPCs]  BY DEF ApprovalInit, Init, PCs
<1>. QED  BY <1>1, <1>2 DEF FlowTypes, ApprovalInit, RequestRows

\* Every variable of the approval flow keeps its type, whatever the deployment.
THEOREM ApprovalTypeCorrect == ApprovalSpec => []ApprovalTypeOK
<1>1. FlowTypes => ApprovalTypeOK  BY DEF FlowTypes, ApprovalTypeOK
<1>. QED  BY InitFlowTypes, StepFlowTypes, <1>1, PTL DEF ApprovalSpec

\* The queue's invariants, in the presence of approvals.
QueueInv == FlowTypes /\ ExecutionInv /\ RowInv

LEMMA InitQueueInv == ApprovalInit => QueueInv
BY InitFlowTypes, InitExecutionInv, InitRowInv DEF QueueInv, ApprovalInit

LEMMA StepQueueInv ==
  ASSUME SafeCancels, QueueInv, [ApprovalNext]_allVars
  PROVE  QueueInv' /\ RowsMove
<1>0. FlowTypes'  BY StepFlowTypes DEF QueueInv
<1>1. CASE Next /\ UNCHANGED approval
  BY <1>0, <1>1, StepExecutionInv, StepRowInv, SafeCancelsIsSafe DEF QueueInv, FlowTypes
<1>2. ASSUME NEW c \in Clients, AskStep(c) \/ ReviewStep(c)
      PROVE  QueueInv' /\ RowsMove
  <2>1. PICK l \in ApprovalPCs \cup {"idle", "publish"}, r \in Locals :
           pc' = [pc EXCEPT ![c] = l] /\ loc' = [loc EXCEPT ![c] = r]
    BY <1>2, FlowMoves DEF Aside, QueueInv
  <2>2. c \in Actors /\ c \notin Workers  BY ActorsAssumption DEF Actors
  <2>3. l \notin Canceling \cup {"reschedule"}  BY DEF ApprovalPCs, Canceling
  <2>4. Quiet(c)  BY <2>1, <2>2, <2>3 DEF Quiet
  <2>5. UNCHANGED job  BY <1>2, FlowFrame
  <2>. QED  BY <1>0, <2>2, <2>4, <2>5, QuietKeepsExecution, QuietKeepsRows
            DEF QueueInv, FlowTypes
<1>3. CASE UNCHANGED allVars
  <2>1. UNCHANGED vars  BY <1>3 DEF allVars
  <2>. QED  BY <1>0, <2>1, StepExecutionInv, StepRowInv, SafeCancelsIsSafe
            DEF QueueInv, FlowTypes
<1>. QED  BY <1>1, <1>2, <1>3 DEF ApprovalNext

\* With approvals too a job is executed by one dispatcher at a time and tried
\* at most maxAttempts times, keeps the promise of JobLifecycle, and stays
\* canceled once it is.
THEOREM ApprovalsKeepTheQueue ==
  ASSUME SafeCancels
  PROVE  /\ ApprovalSpec => [](JobExclusive /\ AttemptsBounded)
         /\ ApprovalSpec => ImplementsLifecycle
         /\ ApprovalSpec => CanceledStaysCanceled
<1>1. ApprovalInit => QueueInv /\ Lifecycle!Init
  BY InitQueueInv, LifecycleInit DEF ApprovalInit
<1>2. QueueInv /\ [ApprovalNext]_allVars => QueueInv'
  BY StepQueueInv
<1>3. QueueInv => JobExclusive /\ AttemptsBounded
  BY DEF QueueInv, ExecutionInv
<1>4. QueueInv /\ [ApprovalNext]_allVars => [Lifecycle!Next]_LifecycleVars
  BY StepQueueInv, LifecycleStep DEF QueueInv, FlowTypes, RowInv
<1>5. QueueInv /\ [ApprovalNext]_allVars =>
        [\A j \in Jobs : Canceled(j) => Canceled(j)']_vars
  BY StepQueueInv, CanceledStep DEF QueueInv, FlowTypes
<1>6. ApprovalSpec => []QueueInv
  BY <1>1, <1>2, PTL DEF ApprovalSpec
<1>7. ApprovalSpec => [](JobExclusive /\ AttemptsBounded)
  BY <1>3, <1>6, PTL
<1>8. ApprovalSpec => ImplementsLifecycle
  BY <1>1, <1>4, <1>6, PTL
     DEF ApprovalSpec, ImplementsLifecycle, Lifecycle!Spec, LifecycleVars
<1>9. ApprovalSpec => CanceledStaysCanceled
  BY <1>5, <1>6, PTL DEF ApprovalSpec, CanceledStaysCanceled
<1>. QED  BY <1>7, <1>8, <1>9

-----------------------------------------------------------------------------
(* Who has a claim on a post: the jobs that will publish it, the requests    *)
(* that await a decision about it, the calls that publish it now.  In one    *)
(* process that does not crash a post has one claim at most, and its status  *)
(* tells which kind.                                                         *)

OneUp == (\A a, b \in Actors : HostOf[a] = HostOf[b]) /\ MaxCrashes = 0

AtCall == {"calling", "accepted"}

Callers(p) == {a \in Actors : pc[a] \in AtCall /\ loc[a].tgt = p}

Claims(p, J, R, A) == LiveJobs(p) = J /\ Pending(p) = R /\ Callers(p) = A

Unsent(p) == platform[p] = lost[p]
Sent(p)   == platform[p] = lost[p] + 1

\* The jobs of the post that failed for good, and not because they were canceled.
Terminals(p) ==
    {j \in Jobs : /\ job[j].post = p /\ job[j].status = "failed"
                  /\ job[j].lastError # "canceled_by_user"}

Unclaimed(p) == Claims(p, {}, {}, {}) /\ Unsent(p)
Out(p)       == Claims(p, {}, {}, {}) /\ Sent(p)
Queued(p)    == Unsent(p) /\ \E j \in Jobs : Claims(p, {j}, {}, {})
Parked(p)    == Unsent(p) /\ \E r \in Requests : Claims(p, {}, {r}, {})
JobOf(a)     == IF a \in Workers THEN {loc[a].cur} ELSE {}
Called(p)    == \E a \in Actors : /\ Claims(p, JobOf(a), {}, {a})
                                  /\ IF pc[a] = "calling" THEN Unsent(p) ELSE Sent(p)

\* A post that nobody is working on between two statements.
Settled(p) ==
    /\ \/ post[p] = "draft" /\ Unclaimed(p)
       \/ post[p] = "scheduled" /\ (Queued(p) \/ Parked(p))
       \/ post[p] = "publishing" /\ (Unclaimed(p) \/ Queued(p) \/ Called(p))
       \/ post[p] = "published" /\ Out(p)
       \/ post[p] = "failed" /\ (Unclaimed(p) \/ Queued(p))
       \/ post[p] = "deleted" /\ \/ Unclaimed(p) \/ Out(p) \/ Queued(p)
                                 \/ Parked(p) \/ Called(p)
    /\ Terminals(p) # {} => post[p] \in {"failed", "deleted"} /\ Unclaimed(p)

\* What is known of a post that actor a, at statement l with locals x, works on.
StatusAt(l) ==
    CASE l \in {"schedulePost", "createRequest", "markPublishing"} -> {"draft"}
      [] l \in {"createJob", "cancelDraft", "executorReset", "rejectDraft"} -> {"scheduled"}
      [] l \in {"executorLoad", "rejectRead"} -> {"scheduled", "deleted"}
      [] l = "cancelJob" -> {"draft", "publishing", "failed", "deleted"}
      [] l \in {"markRunning", "loadPost"} ->
           {"scheduled", "publishing", "failed", "deleted"}
      [] l = "resetPost" -> {"scheduled", "publishing", "failed"}
      [] l = "publish" -> {"draft", "deleted"}
      [] l \in {"recordPublished", "recordFailed"} -> {"publishing", "deleted"}
      [] l = "succeedJob" -> {"published"}
      [] l \in {"failJob", "failPost"} -> {"draft", "publishing", "failed", "deleted"}
      [] OTHER -> {}

\* Where a try leaves a post that is to be tried again.
Retried == {"publishing", "failed", "deleted"}

\* The job it works for.
Own(a, l, x) ==
    IF l \in {"cancelDraft", "cancelJob"} \/ (a \in Workers /\ l # "failPost")
    THEN {x.cur} ELSE {}

Works(a, l, x, p) ==
    /\ Claims(p, Own(a, l, x), {}, {})
    /\ IF l \in {"recordPublished", "succeedJob"} THEN Sent(p) ELSE Unsent(p)
    /\ post[p] \in StatusAt(l)
    /\ Terminals(p) = {} \/ l = "failPost"
    /\ l = "publish" /\ a \notin Workers => post[p] = "draft"
    /\ l = "failJob" /\ x.err = "retryable" => post[p] \in Retried

Hand(a, l, x, p) ==
    CASE l = "cancelRead" -> Settled(p) /\ x.cur \in LiveJobs(p) \cup Terminals(p)
      [] l = "cancelJob" -> Works(a, l, x, p) \/ (Settled(p) /\ x.cur \in Terminals(p))
      [] l = "delete" -> Settled(p)
      [] l \in {"approve", "reject"} -> Settled(p) /\ reviewing[a] \in Pending(p)
      [] l = "holdPost" -> post[p] = "draft" /\ Parked(p) /\ Terminals(p) = {}
      [] OTHER -> Works(a, l, x, p)

EngagedAt == {"publish", "markPublishing", "recordPublished", "recordFailed",
              "markRunning", "loadPost", "resetPost", "succeedJob", "failJob",
              "failPost", "schedulePost", "createJob", "cancelRead", "cancelDraft",
              "cancelJob", "delete"} \cup ApprovalPCs

Engaged(a, p) == pc[a] \in EngagedAt /\ loc[a].tgt = p

PostInv ==
    \A p \in Posts :
       /\ (\A a \in Actors : ~Engaged(a, p)) => Settled(p)
       /\ \A a \in Actors : Engaged(a, p) => Hand(a, pc[a], loc[a], p)

\* An actor that works for a job or a request works on its post.
TargetsOK ==
    /\ \A w \in Workers : pc[w] \in Executing => loc[w].tgt = job[loc[w].cur].post
    /\ \A c \in Clients : pc[c] \in Canceling => loc[c].tgt = job[loc[c].cur].post
    /\ \A c \in Clients : pc[c] \in {"approve", "reject"} =>
                             loc[c].tgt = request[reviewing[c]].post

FlowInv == QueueInv /\ ReviewInv /\ PostInv /\ TargetsOK

\* What a step does to these sets.
LEMMA CallersMove ==
  ASSUME FlowTypes, NEW a \in Actors, NEW l, NEW x,
         pc' = [pc EXCEPT ![a] = l], loc' = [loc EXCEPT ![a] = x], NEW p
  PROVE  Callers(p)' = (Callers(p) \ {a})
                          \cup (IF l \in AtCall /\ x.tgt = p THEN {a} ELSE {})
BY DEF FlowTypes, TypeInv, Typed, Callers

LEMMA JobsMove ==
  ASSUME FlowTypes, NEW j \in Jobs, NEW r, job' = [job EXCEPT ![j] = r], NEW p
  PROVE  /\ LiveJobs(p)' = (LiveJobs(p) \ {j})
              \cup (IF r.post = p /\ r.status \in Live THEN {j} ELSE {})
         /\ Terminals(p)' = (Terminals(p) \ {j})
              \cup (IF /\ r.post = p /\ r.status = "failed"
                       /\ r.lastError # "canceled_by_user" THEN {j} ELSE {})
BY DEF FlowTypes, TypeInv, Typed, LiveJobs, Terminals

LEMMA RequestsMove ==
  ASSUME FlowTypes, NEW q \in Requests, NEW r, request' = [request EXCEPT ![q] = r], NEW p
  PROVE  Pending(p)' = (Pending(p) \ {q})
              \cup (IF r.post = p /\ r.status = "pending" THEN {q} ELSE {})
BY DEF FlowTypes, Pending

\* A step that leaves alone whatever has a claim on a post, and the counters of
\* its publications; and one that leaves alone the post as well.
Calm(p) ==
    /\ platform'[p] = platform[p] /\ lost'[p] = lost[p]
    /\ LiveJobs(p)' = LiveJobs(p) /\ Terminals(p)' = Terminals(p)
    /\ Pending(p)' = Pending(p) /\ Callers(p)' = Callers(p)
    /\ \A a \in Callers(p) : pc'[a] = pc[a] /\ loc'[a].cur = loc[a].cur

Untouched(p) == Calm(p) /\ post'[p] = post[p]

LEMMA ClaimsStay ==
  ASSUME NEW p, Calm(p)
  PROVE  /\ \A J, R, A : Claims(p, J, R, A) => Claims(p, J, R, A)'
         /\ Unsent(p) => Unsent(p)'
         /\ Sent(p) => Sent(p)'
         /\ Unclaimed(p) => Unclaimed(p)'
         /\ Out(p) => Out(p)'
         /\ Queued(p) => Queued(p)'
         /\ Parked(p) => Parked(p)'
         /\ Called(p) => Called(p)'
<1>1. \A J, R, A : Claims(p, J, R, A) => Claims(p, J, R, A)'
  BY DEF Calm, Claims
<1>2. (Unsent(p) => Unsent(p)') /\ (Sent(p) => Sent(p)')
  BY DEF Calm, Unsent, Sent
<1>3. ASSUME Called(p)  PROVE Called(p)'
  <2>1. PICK a \in Actors : /\ Claims(p, JobOf(a), {}, {a})
                            /\ IF pc[a] = "calling" THEN Unsent(p) ELSE Sent(p)
    BY <1>3 DEF Called
  <2>2. pc'[a] = pc[a] /\ loc'[a].cur = loc[a].cur
    BY <2>1 DEF Claims, Calm
  <2>3. JobOf(a)' = JobOf(a)  BY <2>2 DEF JobOf
  <2>. QED  BY <1>1, <1>2, <2>1, <2>2, <2>3 DEF Called
<1>4. (Queued(p) => Queued(p)') /\ (Parked(p) => Parked(p)')
  BY <1>1, <1>2 DEF Queued, Parked
<1>5. (Unclaimed(p) => Unclaimed(p)') /\ (Out(p) => Out(p)')
  BY <1>1, <1>2 DEF Unclaimed, Out
<1>. QED  BY <1>1, <1>2, <1>3, <1>4, <1>5

LEMMA SettledStays ==
  ASSUME NEW p, Untouched(p), Settled(p)
  PROVE  Settled(p)'
<1>1. Calm(p) /\ post'[p] = post[p] /\ Terminals(p)' = Terminals(p)
  BY DEF Untouched, Calm
<1>. QED  BY <1>1, ClaimsStay DEF Settled

-----------------------------------------------------------------------------
(* One actor moves, all others wait for their calls: only the post it works  *)
(* on before and after can change, and what the invariant says of the other  *)
(* posts stays.                                                              *)

\* Actor a goes from statement k to statement l with locals x; both concern p.
Acts(a, k, l, x, p) ==
    /\ pc[a] = k /\ \A b \in Actors \ {a} : pc[b] \in Yielding
    /\ pc' = [pc EXCEPT ![a] = l] /\ loc' = [loc EXCEPT ![a] = x]
    /\ k \in EngagedAt \cup AtCall => loc[a].tgt = p
    /\ l \in EngagedAt \cup AtCall => x.tgt = p

\* What is written concerns post p.
Concerns(p) ==
    /\ \A q \in Posts \ {p} : /\ post'[q] = post[q]
                              /\ platform'[q] = platform[q] /\ lost'[q] = lost[q]
    /\ \A j \in Jobs : \/ job'[j] = job[j]
                       \/ job'[j].post = p /\ (job[j].post = p \/ job[j].status = "absent")
    /\ \A r \in Requests : \/ request'[r] = request[r]
                           \/ /\ request'[r].post = p
                              /\ request[r].post = p \/ request[r].status = "absent"

LEMMA NowhereBoth == EngagedAt \cap Yielding = {} /\ EngagedAt \cap AtCall = {}
BY DEF EngagedAt, Yielding, AtCall, ApprovalPCs

LEMMA OthersUntouched ==
  ASSUME FlowTypes, NEW a \in Actors, NEW k, NEW l, NEW x, NEW p,
         Acts(a, k, l, x, p), Concerns(p), NEW q \in Posts \ {p}
  PROVE  Untouched(q)
<1>1. /\ LiveJobs(q)' = LiveJobs(q) /\ Terminals(q)' = Terminals(q)
  BY DEF Concerns, LiveJobs, Terminals, Live, Waiting
<1>2. Pending(q)' = Pending(q)
  BY DEF Concerns, Pending
<1>3. /\ pc'[a] = l /\ loc'[a] = x
      /\ \A b \in Actors \ {a} : pc'[b] = pc[b] /\ loc'[b] = loc[b]
  BY DEF FlowTypes, TypeInv, Typed, Acts
<1>4. Callers(q)' = Callers(q) /\ a \notin Callers(q)
  BY <1>3 DEF Callers, Acts
<1>5. \A b \in Callers(q) : pc'[b] = pc[b] /\ loc'[b].cur = loc[b].cur
  BY <1>3, <1>4 DEF Callers
<1>. QED  BY <1>1, <1>2, <1>4, <1>5 DEF Concerns, Untouched, Calm

\* So the invariant after the step is a matter of post p.
LEMMA FocusKeeps ==
  ASSUME FlowTypes, PostInv, NEW a \in Actors, NEW k, NEW l, NEW x, NEW p,
         Acts(a, k, l, x, p), Concerns(p),
         p \in Posts => IF l \in EngagedAt THEN Hand(a, l, x, p)' ELSE Settled(p)'
  PROVE  PostInv'
<1>1. /\ pc'[a] = l /\ loc'[a] = x
      /\ \A b \in Actors \ {a} : pc'[b] = pc[b] /\ pc[b] \notin EngagedAt
  BY NowhereBoth DEF FlowTypes, TypeInv, Typed, Acts
<1>2. ASSUME NEW q \in Posts
      PROVE  /\ (\A b \in Actors : ~Engaged(b, q)') => Settled(q)'
             /\ \A b \in Actors : Engaged(b, q)' => b = a /\ q = p /\ l \in EngagedAt
  <2>1. CASE q = p
    <3>1. Engaged(a, q)' <=> l \in EngagedAt
      BY <1>1, <2>1 DEF Engaged, Acts
    <3>. QED  BY <1>1, <2>1, <3>1 DEF Engaged
  <2>2. CASE q # p
    <3>1. \A b \in Actors : ~Engaged(b, q)
      BY <1>1, <2>2 DEF Engaged, Acts
    <3>2. Settled(q)  BY <3>1 DEF PostInv
    <3>3. Untouched(q)  BY <2>2, OthersUntouched
    <3>4. Settled(q)'  BY <3>2, <3>3, SettledStays
    <3>5. \A b \in Actors : ~Engaged(b, q)'
      BY <1>1, <2>2 DEF Engaged, Acts
    <3>. QED  BY <3>4, <3>5
  <2>. QED  BY <2>1, <2>2
<1>3. ASSUME NEW q \in Posts, NEW b \in Actors, Engaged(b, q)'
      PROVE  Hand(b, pc[b], loc[b], q)'
  <2>1. b = a /\ q = p /\ l \in EngagedAt  BY <1>2, <1>3
  <2>2. Hand(a, l, x, p)'  BY <2>1
  <2>3. Hand(a, pc[a], loc[a], p)'
    BY <1>1, <2>2 DEF Hand, Works
  <2>. QED  BY <2>1, <2>3
<1>. QED  BY <1>2, <1>3 DEF PostInv

\* What the invariant says when an actor has its turn.
LEMMA AtTurn ==
  ASSUME OneUp, PostInv, NEW a \in Actors, NEW k, Turn(a, k)
  PROVE  /\ pc[a] = k /\ \A b \in Actors \ {a} : pc[b] \in Yielding
         /\ \A p \in Posts : k \notin EngagedAt \/ loc[a].tgt # p => Settled(p)
         /\ \A p \in Posts : k \in EngagedAt /\ loc[a].tgt = p => Hand(a, k, loc[a], p)
<1>1. pc[a] = k /\ \A b \in Actors \ {a} : pc[b] \in Yielding
  BY DEF OneUp, Turn
<1>2. \A p \in Posts : \A b \in Actors : Engaged(b, p) => b = a /\ k \in EngagedAt /\ loc[a].tgt = p
  BY <1>1, NowhereBoth DEF Engaged
<1>3. \A p \in Posts : k \in EngagedAt /\ loc[a].tgt = p => Engaged(a, p)
  BY <1>1 DEF Engaged
<1>. QED  BY <1>1, <1>2, <1>3 DEF PostInv

\* A step that writes no row and has no call in it leaves all claims alone.
LEMMA QuietCalm ==
  ASSUME FlowTypes, NEW a \in Actors, NEW k, NEW l, NEW x, NEW p,
         Acts(a, k, l, x, p), k \notin AtCall, l \notin AtCall,
         UNCHANGED <<job, request, platform, lost>>, NEW q
  PROVE  Calm(q)
<1>1. /\ pc'[a] = l /\ loc'[a] = x
      /\ \A b \in Actors \ {a} : pc'[b] = pc[b] /\ loc'[b] = loc[b]
  BY DEF FlowTypes, TypeInv, Typed, Acts
<1>2. Callers(q)' = Callers(q) /\ a \notin Callers(q)
  BY <1>1 DEF Callers, Acts
<1>3. \A b \in Callers(q) : pc'[b] = pc[b] /\ loc'[b].cur = loc[b].cur
  BY <1>1, <1>2 DEF Callers
<1>4. LiveJobs(q)' = LiveJobs(q) /\ Terminals(q)' = Terminals(q) /\ Pending(q)' = Pending(q)
  BY DEF LiveJobs, Terminals, Pending
<1>. QED  BY <1>2, <1>3, <1>4 DEF Calm

\* Work goes on at the next statement.
SentAt == {"recordPublished", "succeedJob"}

LEMMA WorkGoesOn ==
  ASSUME NEW a, NEW k, NEW l, NEW y, NEW x, NEW p,
         Works(a, k, y, p), Calm(p), Own(a, l, x) = Own(a, k, y),
         k # "failPost", k \in SentAt <=> l \in SentAt, post'[p] \in StatusAt(l),
         l = "publish" /\ a \notin Workers => post'[p] = "draft",
         l = "failJob" /\ x.err = "retryable" => post'[p] \in Retried
  PROVE  Works(a, l, x, p)'
<1>1. Claims(p, Own(a, l, x), {}, {})'
  BY ClaimsStay DEF Works
<1>2. IF l \in SentAt THEN Sent(p)' ELSE Unsent(p)'
  BY ClaimsStay DEF Works, SentAt
<1>3. Terminals(p)' = {}
  BY DEF Works, Calm
<1>. QED  BY <1>1, <1>2, <1>3 DEF Works, SentAt

\* Work without a claim ends.
LEMMA WorkEnds ==
  ASSUME NEW a, NEW k, NEW y, NEW p, Works(a, k, y, p), Calm(p), Own(a, k, y) = {},
         \/ k \in SentAt /\ post'[p] = "published"
         \/ k \notin SentAt /\ k # "failPost" /\ post'[p] \in {"draft", "publishing", "failed", "deleted"}
         \/ k = "failPost" /\ post'[p] = "failed"
  PROVE  Settled(p)'
<1>1. k \in SentAt => Out(p)
  BY DEF Works, Out, SentAt
<1>2. k \notin SentAt => Unclaimed(p)
  BY DEF Works, Unclaimed, SentAt
<1>3. k # "failPost" => Terminals(p)' = {}
  BY DEF Works, Calm
<1>. QED  BY <1>1, <1>2, <1>3, ClaimsStay DEF Settled, SentAt

\* Hand, statement by statement.
LEMMA HandIs ==
  ASSUME NEW a, NEW x, NEW p
  PROVE  /\ \A l \in EngagedAt \ {"cancelRead", "cancelJob", "delete", "approve",
                                  "reject", "holdPost"} :
              /\ Hand(a, l, x, p) <=> Works(a, l, x, p)
              /\ Hand(a, l, x, p)' <=> Works(a, l, x, p)'
         /\ Hand(a, "cancelRead", x, p) <=>
              Settled(p) /\ x.cur \in LiveJobs(p) \cup Terminals(p)
         /\ Hand(a, "cancelRead", x, p)' <=>
              Settled(p)' /\ x.cur \in LiveJobs(p)' \cup Terminals(p)'
         /\ Hand(a, "cancelJob", x, p) <=>
              Works(a, "cancelJob", x, p) \/ (Settled(p) /\ x.cur \in Terminals(p))
         /\ Hand(a, "cancelJob", x, p)' <=>
              Works(a, "cancelJob", x, p)' \/ (Settled(p)' /\ x.cur \in Terminals(p)')
         /\ Hand(a, "delete", x, p) <=> Settled(p)
         /\ Hand(a, "delete", x, p)' <=> Settled(p)'
         /\ \A l \in {"approve", "reject"} :
              /\ Hand(a, l, x, p) <=> Settled(p) /\ reviewing[a] \in Pending(p)
              /\ Hand(a, l, x, p)' <=> Settled(p)' /\ reviewing'[a] \in Pending(p)'
         /\ Hand(a, "holdPost", x, p) <=>
              post[p] = "draft" /\ Parked(p) /\ Terminals(p) = {}
         /\ Hand(a, "holdPost", x, p)' <=>
              post'[p] = "draft" /\ Parked(p)' /\ Terminals(p)' = {}
<1>1. ASSUME NEW l, l \notin {"cancelRead", "cancelJob", "delete", "approve", "reject", "holdPost"}
      PROVE  /\ Hand(a, l, x, p) <=> Works(a, l, x, p)
             /\ Hand(a, l, x, p)' <=> Works(a, l, x, p)'
  BY <1>1, Zenon DEF Hand
<1>2. /\ Hand(a, "cancelRead", x, p) <=>
              Settled(p) /\ x.cur \in LiveJobs(p) \cup Terminals(p)
      /\ Hand(a, "cancelRead", x, p)' <=>
              Settled(p)' /\ x.cur \in LiveJobs(p)' \cup Terminals(p)'
  BY Zenon DEF Hand
<1>3. /\ Hand(a, "cancelJob", x, p) <=>
              Works(a, "cancelJob", x, p) \/ (Settled(p) /\ x.cur \in Terminals(p))
      /\ Hand(a, "cancelJob", x, p)' <=>
              Works(a, "cancelJob", x, p)' \/ (Settled(p)' /\ x.cur \in Terminals(p)')
  BY Zenon DEF Hand
<1>4. (Hand(a, "delete", x, p) <=> Settled(p)) /\ (Hand(a, "delete", x, p)' <=> Settled(p)')
  BY Zenon DEF Hand
<1>5. ASSUME NEW l \in {"approve", "reject"}
      PROVE  /\ Hand(a, l, x, p) <=> Settled(p) /\ reviewing[a] \in Pending(p)
             /\ Hand(a, l, x, p)' <=> Settled(p)' /\ reviewing'[a] \in Pending(p)'
  BY <1>5, Zenon DEF Hand
<1>6. /\ Hand(a, "holdPost", x, p) <=> post[p] = "draft" /\ Parked(p) /\ Terminals(p) = {}
      /\ Hand(a, "holdPost", x, p)' <=> post'[p] = "draft" /\ Parked(p)' /\ Terminals(p)' = {}
  BY Zenon DEF Hand
<1>. QED  BY <1>1, <1>2, <1>3, <1>4, <1>5, <1>6

LEMMA StatusIs ==
  /\ \A l \in {"schedulePost", "createRequest", "markPublishing"} : StatusAt(l) = {"draft"}
  /\ \A l \in {"createJob", "cancelDraft", "executorReset", "rejectDraft"} :
        StatusAt(l) = {"scheduled"}
  /\ \A l \in {"executorLoad", "rejectRead"} : StatusAt(l) = {"scheduled", "deleted"}
  /\ StatusAt("cancelJob") = {"draft", "publishing", "failed", "deleted"}
  /\ \A l \in {"markRunning", "loadPost"} :
        StatusAt(l) = {"scheduled", "publishing", "failed", "deleted"}
  /\ StatusAt("resetPost") = {"scheduled", "publishing", "failed"}
  /\ StatusAt("publish") = {"draft", "deleted"}
  /\ \A l \in {"recordPublished", "recordFailed"} : StatusAt(l) = {"publishing", "deleted"}
  /\ StatusAt("succeedJob") = {"published"}
  /\ \A l \in {"failJob", "failPost"} :
        StatusAt(l) = {"draft", "publishing", "failed", "deleted"}
BY DEF StatusAt

LEMMA OwnIs ==
  ASSUME NEW a, NEW l, NEW x
  PROVE  /\ a \in Workers /\ l # "failPost" => Own(a, l, x) = {x.cur}
         /\ l \in {"cancelDraft", "cancelJob"} => Own(a, l, x) = {x.cur}
         /\ a \notin Workers /\ l \notin {"cancelDraft", "cancelJob"} => Own(a, l, x) = {}
         /\ l = "failPost" => Own(a, l, x) = {}
BY DEF Own

\* Steps that write no row and have no call in them.
LEMMA QuietKeeps ==
  ASSUME OneUp, FlowTypes, PostInv, NEW a \in Actors, NEW k, NEW y, NEW l, NEW x, NEW p,
         Turn(a, k), y = loc[a], k \notin AtCall, l \notin AtCall,
         pc' = [pc EXCEPT ![a] = l], loc' = [loc EXCEPT ![a] = x],
         k \in EngagedAt => y.tgt = p, l \in EngagedAt => x.tgt = p,
         UNCHANGED <<job, request, platform, lost>>,
         \A q \in Posts \ {p} : post'[q] = post[q],
         p \in Posts /\ Calm(p) /\ (IF k \in EngagedAt THEN Hand(a, k, y, p) ELSE Settled(p))
           => IF l \in EngagedAt THEN Hand(a, l, x, p)' ELSE Settled(p)'
  PROVE  PostInv'
<1>1. Acts(a, k, l, x, p)  BY AtTurn DEF Acts
<1>2. Concerns(p)  BY DEF Concerns
<1>3. Calm(p)  BY <1>1, QuietCalm
<1>4. p \in Posts => IF k \in EngagedAt THEN Hand(a, k, y, p) ELSE Settled(p)
  BY AtTurn
<1>. QED  BY <1>1, <1>2, <1>3, <1>4, FocusKeeps

\* A publication that throws: executeJob goes on to failJob, a request ends.
LEMMA ThrowKeeps ==
  ASSUME OneUp, FlowTypes, PostInv, NEW a \in Actors, NEW k, NEW e, NEW y, NEW p,
         k \in {"publish", "markPublishing", "recordFailed"},
         Turn(a, k), y = loc[a], p = y.tgt, Throw(a, e),
         UNCHANGED <<job, request, platform, lost>>,
         \A q \in Posts \ {p} : post'[q] = post[q],
         p \in Posts /\ Works(a, k, y, p) =>
            /\ post'[p] \in {"draft", "publishing", "failed", "deleted"}
            /\ e = "retryable" => post'[p] \in Retried
  PROVE  PostInv'
<1>0. /\ k \in EngagedAt /\ k \notin AtCall /\ k \notin SentAt
      /\ k \notin {"cancelDraft", "cancelJob"} /\ k # "failPost"
  BY DEF EngagedAt, AtCall, SentAt
<1>1. k \notin {"cancelRead", "cancelJob", "delete", "approve", "reject", "holdPost"}
  OBVIOUS
<1>2. y \in Locals  BY DEF FlowTypes, TypeInv, Typed
<1>3. Hand(a, k, y, p) => Works(a, k, y, p)  BY <1>0, <1>1, HandIs
<1>4. CASE a \in Workers
  <2>. DEFINE x == [y EXCEPT !.err = e]
  <2>1. x.cur = y.cur /\ x.tgt = p /\ x.err = e  BY <1>2 DEF Locals
  <2>2. pc' = [pc EXCEPT ![a] = "failJob"] /\ loc' = [loc EXCEPT ![a] = x]
    BY <1>4 DEF Throw, Goto, SetLocals
  <2>. HIDE DEF x
  <2>3. "failJob" \in EngagedAt /\ "failJob" \notin AtCall /\ "failJob" \notin SentAt
    BY DEF EngagedAt, AtCall, SentAt
  <2>4. Own(a, "failJob", x) = Own(a, k, y)
    BY <1>0, <1>4, <2>1 DEF Own
  <2>5. ASSUME p \in Posts, Calm(p), Works(a, k, y, p)  PROVE Hand(a, "failJob", x, p)'
    <3>0. post'[p] \in {"draft", "publishing", "failed", "deleted"}  BY <2>5
    <3>1. post'[p] \in StatusAt("failJob")  BY ONLY <3>0, StatusIs
    <3>2. e = "retryable" => post'[p] \in Retried  BY <2>5
    <3>3. Works(a, "failJob", x, p)'
      BY <1>0, <2>1, <2>3, <2>4, <2>5, <3>1, <3>2, WorkGoesOn
    <3>. QED  BY <2>3, <3>3, HandIs
  <2>. QED  BY <1>0, <1>3, <2>1, <2>2, <2>3, <2>5, QuietKeeps
<1>5. CASE a \notin Workers
  <2>1. pc' = [pc EXCEPT ![a] = "idle"] /\ loc' = [loc EXCEPT ![a] = NoLocals]
    BY <1>5 DEF Throw, Respond, Goto, SetLocals
  <2>2. "idle" \notin EngagedAt /\ "idle" \notin AtCall
    BY DEF EngagedAt, ApprovalPCs, AtCall
  <2>3. Own(a, k, y) = {}  BY <1>0, <1>5, OwnIs
  <2>4. ASSUME p \in Posts, Calm(p), Works(a, k, y, p)  PROVE Settled(p)'
    BY <1>0, <2>3, <2>4, WorkEnds
  <2>. QED  BY <1>0, <1>3, <2>1, <2>2, <2>4, QuietKeeps
<1>. QED  BY <1>4, <1>5

\* What the statements of the publication leave alone.
LEMMA PublishKeeps ==
  ASSUME OneUp, FlowTypes, PostInv, UNCHANGED approval, NEW a \in Actors,
         Publish(a) \/ NoAccount(a)
  PROVE  PostInv'
<1>1. PICK y, p : y = loc[a] /\ p = y.tgt  OBVIOUS
<1>2. UNCHANGED <<job, request, platform, lost, post>>
  BY DEF Publish, NoAccount, sns, approval
<1>3. \A k \in {"publish", "markPublishing"} : Works(a, k, y, p) =>
        post[p] \in {"draft", "deleted"}
  BY StatusIs DEF Works
<1>4. ASSUME NEW k \in {"publish", "markPublishing"}, Turn(a, k), Throw(a, "permanent")
      PROVE  PostInv'
  BY <1>1, <1>2, <1>3, <1>4, ThrowKeeps
<1>5. CASE NoAccount(a)
  BY <1>4, <1>5 DEF NoAccount
<1>6. CASE Publish(a) /\ Throw(a, "permanent")
  <2>1. Turn(a, "publish")  BY <1>6 DEF Publish
  <2>. QED  BY <1>4, <1>6, <2>1
<1>7. CASE Publish(a) /\ ~Throw(a, "permanent")
  <2>1. /\ Turn(a, "publish") /\ post[p] = "draft"
        /\ pc' = [pc EXCEPT ![a] = "markPublishing"] /\ loc' = loc
    BY <1>1, <1>7 DEF Publish, Goto
  <2>2. loc' = [loc EXCEPT ![a] = y]
    BY <1>1, <2>1 DEF FlowTypes, TypeInv, Typed
  <2>3. /\ {"publish", "markPublishing"} \subseteq EngagedAt
        /\ "publish" \notin AtCall /\ "markPublishing" \notin AtCall
        /\ "publish" \notin SentAt /\ "markPublishing" \notin SentAt
    BY DEF EngagedAt, AtCall, SentAt
  <2>4. Own(a, "markPublishing", y) = Own(a, "publish", y)
    BY OwnIs
  <2>5. ASSUME p \in Posts, Calm(p), Hand(a, "publish", y, p)
        PROVE  Hand(a, "markPublishing", y, p)'
    <3>1. Works(a, "publish", y, p)  BY <2>3, <2>5, HandIs
    <3>2. post'[p] \in StatusAt("markPublishing")  BY <1>2, <2>1, StatusIs
    <3>3. Works(a, "markPublishing", y, p)'
      BY <2>3, <2>4, <2>5, <3>1, <3>2, WorkGoesOn
    <3>. QED  BY <2>3, <3>3, HandIs
  <2>. QED  BY <1>1, <1>2, <2>1, <2>2, <2>3, <2>5, QuietKeeps
<1>. QED  BY <1>5, <1>6, <1>7

LEMMA RecordKeeps ==
  ASSUME OneUp, FlowTypes, PostInv, UNCHANGED approval, NEW a \in Actors,
         RecordPublished(a) \/ RecordFailed(a)
  PROVE  PostInv'
<1>1. PICK y, p : y = loc[a] /\ p = y.tgt  OBVIOUS
<1>2. /\ UNCHANGED <<job, request, platform, lost>>
      /\ \A q \in Posts \ {p} : post'[q] = post[q]
  BY <1>1 DEF RecordPublished, RecordFailed, SetPost, sns, approval, FlowTypes, TypeInv, Typed
<1>3. CASE RecordFailed(a)
  <2>1. PICK e : e = y.err  OBVIOUS
  <2>2. Turn(a, "recordFailed") /\ Throw(a, e)
    BY <1>1, <1>3, <2>1 DEF RecordFailed
  <2>3. p \in Posts => post'[p] = "failed"
    BY <1>1, <1>3 DEF RecordFailed, SetPost, FlowTypes, TypeInv, Typed
  <2>. QED  BY <1>1, <1>2, <2>2, <2>3, ThrowKeeps DEF Retried
<1>4. CASE RecordPublished(a)
  <2>1. Turn(a, "recordPublished") /\ (p \in Posts => post'[p] = "published")
    BY <1>1, <1>4 DEF RecordPublished, SetPost, FlowTypes, TypeInv, Typed
  <2>2. /\ "recordPublished" \in EngagedAt /\ "succeedJob" \in EngagedAt
        /\ "recordPublished" \notin AtCall /\ "succeedJob" \notin AtCall
        /\ "recordPublished" \in SentAt /\ "succeedJob" \in SentAt
        /\ "idle" \notin EngagedAt /\ "idle" \notin AtCall
    BY DEF EngagedAt, AtCall, SentAt, ApprovalPCs
  <2>3. Hand(a, "recordPublished", y, p) => Works(a, "recordPublished", y, p)
    BY <2>2, HandIs
  <2>4. CASE a \in Workers
    <3>1. pc' = [pc EXCEPT ![a] = "succeedJob"] /\ loc' = [loc EXCEPT ![a] = y]
      BY <1>1, <1>4, <2>4 DEF RecordPublished, ReturnPublished, Goto, FlowTypes, TypeInv, Typed
    <3>2. Own(a, "succeedJob", y) = Own(a, "recordPublished", y)
      BY <2>4 DEF Own
    <3>3. ASSUME p \in Posts, Calm(p), Works(a, "recordPublished", y, p)
          PROVE  Hand(a, "succeedJob", y, p)'
      <4>1. post'[p] \in StatusAt("succeedJob")  BY <2>1, <3>3, StatusIs
      <4>2. Works(a, "succeedJob", y, p)'
        BY <2>2, <3>2, <3>3, <4>1, WorkGoesOn
      <4>. QED  BY <2>2, <4>2, HandIs
    <3>. QED  BY <1>1, <1>2, <2>1, <2>2, <2>3, <3>1, <3>3, QuietKeeps
  <2>5. CASE a \notin Workers
    <3>1. pc' = [pc EXCEPT ![a] = "idle"] /\ loc' = [loc EXCEPT ![a] = NoLocals]
      BY <1>4, <2>5 DEF RecordPublished, ReturnPublished, Respond, Goto, SetLocals
    <3>2. Own(a, "recordPublished", y) = {}
      BY <2>5 DEF Own
    <3>3. ASSUME p \in Posts, Calm(p), Works(a, "recordPublished", y, p)  PROVE Settled(p)'
      BY <2>1, <2>2, <3>2, <3>3, WorkEnds
    <3>. QED  BY <1>1, <1>2, <2>1, <2>2, <2>3, <3>1, <3>3, QuietKeeps
  <2>. QED  BY <2>4, <2>5
<1>. QED  BY <1>3, <1>4

\* The call begins, or the credentials cannot be read.
LEMMA MarkPublishingKeeps ==
  ASSUME OneUp, FlowTypes, PostInv, UNCHANGED approval, NEW a \in Actors, MarkPublishing(a)
  PROVE  PostInv'
<1>1. PICK y, p : y = loc[a] /\ p = y.tgt  OBVIOUS
<1>2. /\ UNCHANGED <<job, request, platform, lost>>
      /\ \A q \in Posts \ {p} : post'[q] = post[q]
      /\ p \in Posts => post'[p] = "publishing"
      /\ Turn(a, "markPublishing")
  BY <1>1 DEF MarkPublishing, SetPost, sns, approval, FlowTypes, TypeInv, Typed
<1>3. CASE Throw(a, "permanent")
  BY <1>1, <1>2, <1>3, ThrowKeeps
<1>4. CASE ~Throw(a, "permanent")
  <2>1. pc' = [pc EXCEPT ![a] = "calling"] /\ loc' = [loc EXCEPT ![a] = y]
    BY <1>1, <1>4 DEF MarkPublishing, Goto, FlowTypes, TypeInv, Typed
  <2>2. /\ "calling" \in AtCall /\ "calling" \notin EngagedAt
        /\ "markPublishing" \in EngagedAt /\ "markPublishing" \notin AtCall
    BY DEF AtCall, EngagedAt, ApprovalPCs
  <2>3. Acts(a, "markPublishing", "calling", y, p)
    BY <1>1, <1>2, <2>1, AtTurn DEF Acts
  <2>4. Concerns(p)  BY <1>2 DEF Concerns
  <2>5. ASSUME p \in Posts  PROVE Settled(p)'
    <3>1. Works(a, "markPublishing", y, p)
      BY <1>1, <1>2, <2>2, <2>5, AtTurn, HandIs
    <3>2. /\ Claims(p, Own(a, "markPublishing", y), {}, {})
          /\ Unsent(p) /\ Terminals(p) = {}
      BY <3>1 DEF Works
    <3>3. Callers(p)' = {a}
      BY <1>1, <2>1, <2>2, <3>2, CallersMove DEF Claims
    <3>4. LiveJobs(p)' = LiveJobs(p) /\ Pending(p)' = Pending(p) /\ Terminals(p)' = Terminals(p)
      BY <1>2 DEF LiveJobs, Pending, Terminals
    <3>5. pc'[a] = "calling" /\ loc'[a] = y
      BY <2>1 DEF FlowTypes, TypeInv, Typed
    <3>6. JobOf(a)' = Own(a, "markPublishing", y)
      BY <3>5 DEF JobOf, Own
    <3>7. Claims(p, JobOf(a), {}, {a})'
      BY <3>2, <3>3, <3>4, <3>6 DEF Claims
    <3>8. Unsent(p)'  BY <1>2, <3>2 DEF Unsent
    <3>9. Called(p)'  BY <3>5, <3>7, <3>8 DEF Called
    <3>. QED  BY <1>2, <2>5, <3>2, <3>4, <3>9 DEF Settled
  <2>. QED  BY <2>2, <2>3, <2>4, <2>5, FocusKeeps
<1>. QED  BY <1>3, <1>4

\* A settled post that somebody publishes has no other claim.
LEMMA InCall ==
  ASSUME NEW a \in Actors, NEW p, pc[a] \in AtCall, loc[a].tgt = p, Settled(p)
  PROVE  /\ Claims(p, JobOf(a), {}, {a})
         /\ IF pc[a] = "calling" THEN Unsent(p) ELSE Sent(p)
         /\ post[p] \in {"publishing", "deleted"} /\ Terminals(p) = {}
<1>1. a \in Callers(p)  BY DEF Callers
<1>2. \A J, R : ~Claims(p, J, R, {})  BY <1>1 DEF Claims
<1>3. ~Unclaimed(p) /\ ~Out(p) /\ ~Queued(p) /\ ~Parked(p)
  BY <1>2 DEF Unclaimed, Out, Queued, Parked
<1>4. Called(p) /\ post[p] \in {"publishing", "deleted"} /\ Terminals(p) = {}
  BY <1>3 DEF Settled
<1>5. PICK b \in Actors : /\ Claims(p, JobOf(b), {}, {b})
                          /\ IF pc[b] = "calling" THEN Unsent(p) ELSE Sent(p)
  BY <1>4 DEF Called
<1>6. a = b  BY <1>1, <1>5 DEF Claims
<1>. QED  BY <1>4, <1>5, <1>6

\* The call ends, for the caller.
LEMMA AnswerKeeps ==
  ASSUME OneUp, FlowTypes, PostInv, NEW a \in Actors, NEW k \in AtCall, NEW y, NEW x, NEW p,
         NEW l \in {"recordPublished", "recordFailed", "failJob"}, Turn(a, k), y = loc[a],
         p = y.tgt,
         pc' = [pc EXCEPT ![a] = l], loc' = [loc EXCEPT ![a] = x],
         x.cur = y.cur, x.tgt = p, UNCHANGED <<post, job, request, platform>>,
         \A q \in Posts \ {p} : lost'[q] = lost[q],
         p \in Posts /\ (IF k = "calling" THEN Unsent(p) ELSE Sent(p)) =>
            IF l = "recordPublished" THEN Sent(p)' ELSE Unsent(p)'
  PROVE  PostInv'
<1>1. /\ l \in EngagedAt /\ l \notin AtCall /\ k \notin EngagedAt
      /\ l \in {"recordPublished", "succeedJob"} <=> l = "recordPublished"
      /\ l \notin {"cancelRead", "cancelJob", "delete", "approve", "reject", "holdPost"}
  BY NowhereBoth DEF EngagedAt
<1>2. Acts(a, k, l, x, p)  BY AtTurn DEF Acts
<1>3. Concerns(p)  BY DEF Concerns
<1>4. ASSUME p \in Posts  PROVE Hand(a, l, x, p)'
  <2>1. pc[a] = k /\ Settled(p)  BY <1>1, <1>4, AtTurn
  <2>2. /\ Claims(p, JobOf(a), {}, {a})
        /\ IF k = "calling" THEN Unsent(p) ELSE Sent(p)
        /\ post[p] \in {"publishing", "deleted"} /\ Terminals(p) = {}
    BY <2>1, InCall
  <2>3. Callers(p)' = {}
    <3>1. Callers(p)' = (Callers(p) \ {a}) \cup (IF l \in AtCall /\ x.tgt = p THEN {a} ELSE {})
      BY CallersMove
    <3>. QED  BY <1>1, <2>2, <3>1 DEF Claims
  <2>4. LiveJobs(p)' = LiveJobs(p) /\ Pending(p)' = Pending(p) /\ Terminals(p)' = Terminals(p)
    BY DEF LiveJobs, Pending, Terminals
  <2>5. Own(a, l, x) = JobOf(a)  BY <1>1 DEF Own, JobOf
  <2>6. Claims(p, Own(a, l, x), {}, {})'
    BY <2>2, <2>3, <2>4, <2>5 DEF Claims
  <2>7. post'[p] \in StatusAt(l)  BY <2>2, StatusIs
  <2>8. IF l = "recordPublished" THEN Sent(p)' ELSE Unsent(p)'
    BY <1>4, <2>2
  <2>9. Works(a, l, x, p)'
    BY <1>1, <2>2, <2>4, <2>6, <2>7, <2>8 DEF Works, Retried
  <2>. QED  BY <1>1, <2>9, HandIs
<1>. QED  BY <1>1, <1>2, <1>3, <1>4, FocusKeeps

\* The call of a request throws: the post is left as it is, and not out.
LEMMA RequestThrown ==
  ASSUME OneUp, FlowTypes, PostInv, NEW a \in Actors, a \notin Workers, NEW y, NEW p,
         Turn(a, "calling"), y = loc[a], p = y.tgt, Respond(a),
         UNCHANGED <<post, job, request, platform, lost>>
  PROVE  PostInv'
<1>1. /\ "idle" \notin EngagedAt /\ "idle" \notin AtCall
      /\ "calling" \in AtCall /\ "calling" \notin EngagedAt
  BY NowhereBoth DEF EngagedAt, ApprovalPCs, AtCall
<1>2. pc' = [pc EXCEPT ![a] = "idle"] /\ loc' = [loc EXCEPT ![a] = NoLocals]
  BY DEF Respond, Goto, SetLocals
<1>3. Acts(a, "calling", "idle", NoLocals, p)  BY <1>1, <1>2, AtTurn DEF Acts
<1>4. Concerns(p)  BY DEF Concerns
<1>5. ASSUME p \in Posts  PROVE Settled(p)'
  <2>1. pc[a] = "calling" /\ Settled(p) /\ loc[a].tgt = p  BY <1>1, <1>5, AtTurn
  <2>2. /\ Claims(p, JobOf(a), {}, {a}) /\ Unsent(p)
        /\ post[p] \in {"publishing", "deleted"} /\ Terminals(p) = {}
    BY <1>1, <2>1, InCall
  <2>3. Callers(p)' = {}
    <3>1. PICK l, x : l = "idle" /\ x = NoLocals  OBVIOUS
    <3>2. pc' = [pc EXCEPT ![a] = l] /\ loc' = [loc EXCEPT ![a] = x]
      BY <1>2, <3>1
    <3>3. Callers(p)' = (Callers(p) \ {a}) \cup (IF l \in AtCall /\ x.tgt = p THEN {a} ELSE {})
      BY <3>2 DEF FlowTypes, TypeInv, Typed, Callers
    <3>4. l \notin AtCall /\ Callers(p) = {a}  BY <1>1, <2>2, <3>1 DEF Claims
    <3>. QED  BY <3>3, <3>4
  <2>4. LiveJobs(p)' = LiveJobs(p) /\ Pending(p)' = Pending(p) /\ Terminals(p)' = Terminals(p)
    BY DEF LiveJobs, Pending, Terminals
  <2>5. Claims(p, {}, {}, {})' /\ Unsent(p)'
    BY <2>2, <2>3, <2>4 DEF Claims, JobOf, Unsent
  <2>. QED  BY <2>2, <2>4, <2>5 DEF Settled, Unclaimed
<1>. QED  BY <1>1, <1>3, <1>4, <1>5, FocusKeeps

LEMMA ProviderAnswers ==
  ASSUME OneUp, FlowTypes, PostInv, UNCHANGED approval, NEW a \in Actors,
         Reject(a) \/ Reply(a) \/ LoseReply(a)
  PROVE  PostInv'
<1>1. PICK y, p : y = loc[a] /\ p = y.tgt  OBVIOUS
<1>2. "calling" \in AtCall /\ "accepted" \in AtCall  BY DEF AtCall
<1>3. UNCHANGED <<post, job, request, platform>>
  BY DEF Reject, Reply, LoseReply, sns, approval
<1>4. y \in Locals /\ loc = [loc EXCEPT ![a] = y]
  BY <1>1 DEF FlowTypes, TypeInv, Typed
<1>5. ASSUME NEW l \in {"recordFailed", "failJob"}, NEW e, Turn(a, "calling"), Goto(a, l),
             SetLocals(a, [loc[a] EXCEPT !.err = e]), lost' = lost
      PROVE  PostInv'
  <2>1. PICK x : x = [y EXCEPT !.err = e]  OBVIOUS
  <2>2. x.cur = y.cur /\ x.tgt = p  BY <1>1, <1>4, <2>1 DEF Locals
  <2>3. pc' = [pc EXCEPT ![a] = l] /\ loc' = [loc EXCEPT ![a] = x]
    BY <1>1, <1>5, <2>1 DEF Goto, SetLocals
  <2>4. Unsent(p) => Unsent(p)'  BY <1>3, <1>5 DEF Unsent
  <2>. QED  BY <1>1, <1>2, <1>3, <1>5, <2>2, <2>3, <2>4, AnswerKeeps
<1>8. CASE Reject(a)
  <2>1. Turn(a, "calling") /\ lost' = lost  BY <1>8 DEF Reject, sns
  <2>2. PICK e : \/ SetLocals(a, [loc[a] EXCEPT !.err = e]) /\ Goto(a, "recordFailed")
                 \/ Throw(a, e)
    BY <1>8 DEF Reject
  <2>3. CASE SetLocals(a, [loc[a] EXCEPT !.err = e]) /\ Goto(a, "recordFailed")
    BY <1>5, <2>1, <2>3
  <2>4. CASE Throw(a, e) /\ a \in Workers
    BY <1>5, <2>1, <2>4 DEF Throw
  <2>5. CASE Throw(a, e) /\ a \notin Workers
    <3>1. Respond(a)  BY <2>5 DEF Throw
    <3>. QED  BY <1>1, <1>3, <2>1, <2>5, <3>1, RequestThrown
  <2>. QED  BY <2>2, <2>3, <2>4, <2>5
<1>6. CASE Reply(a)
  <2>1. /\ pc' = [pc EXCEPT ![a] = "recordPublished"] /\ loc' = [loc EXCEPT ![a] = y]
        /\ Turn(a, "accepted") /\ lost' = lost
    BY <1>4, <1>6 DEF Reply, Goto, sns
  <2>2. Sent(p) => Sent(p)'  BY <1>3, <2>1 DEF Sent
  <2>. QED  BY <1>1, <1>2, <1>3, <2>1, <2>2, AnswerKeeps
<1>7. CASE LoseReply(a)
  <2>. DEFINE x == [y EXCEPT !.err = "retryable"]
  <2>1. x.cur = y.cur /\ x.tgt = p  BY <1>1, <1>4 DEF Locals
  <2>2. /\ pc' = [pc EXCEPT ![a] = "recordFailed"] /\ loc' = [loc EXCEPT ![a] = x]
        /\ Turn(a, "accepted") /\ lost' = [lost EXCEPT ![p] = lost[p] + 1]
    BY <1>1, <1>7 DEF LoseReply, Goto, SetLocals
  <2>3. \A q \in Posts \ {p} : lost'[q] = lost[q]
    BY <2>2 DEF FlowTypes, TypeInv, Typed
  <2>4. p \in Posts /\ Sent(p) => Unsent(p)'
    BY <1>3, <2>2 DEF Sent, Unsent, FlowTypes, TypeInv, Typed
  <2>. HIDE DEF x
  <2>. QED  BY <1>1, <1>2, <1>3, <2>1, <2>2, <2>3, <2>4, AnswerKeeps
<1>. QED  BY <1>6, <1>7, <1>8

\* The hand of an actor that does not move.
LEMMA HandStays ==
  ASSUME NEW b, NEW l, NEW y, NEW x, NEW p, Hand(b, l, y, p), l \in EngagedAt,
         x.cur = y.cur, x.err = y.err,
         Settled(p) => Settled(p)',
         \A k : Works(b, k, y, p) => Works(b, k, y, p)',
         post[p] = "draft" /\ Parked(p) => post'[p] = "draft" /\ Parked(p)',
         LiveJobs(p)' = LiveJobs(p), Terminals(p)' = Terminals(p), Pending(p)' = Pending(p),
         reviewing' = reviewing
  PROVE  Hand(b, l, x, p)'
<1>1. Works(b, l, y, p) => Works(b, l, x, p)'
  <2>1. Own(b, l, x) = Own(b, l, y)  BY DEF Own
  <2>. QED  BY <2>1 DEF Works
<1>2. CASE l \in {"cancelRead", "cancelJob"}
  <2>1. CASE l = "cancelRead"  BY <2>1, HandIs
  <2>2. CASE l = "cancelJob"   BY <1>1, <2>2, HandIs
  <2>. QED  BY <1>2, <2>1, <2>2
<1>3. CASE l \in {"delete", "holdPost"}
  BY <1>3, HandIs
<1>4. CASE l \in {"approve", "reject"}
  BY <1>4, HandIs
<1>5. CASE l \in EngagedAt \ {"cancelRead", "cancelJob", "delete", "approve", "reject", "holdPost"}
  BY <1>1, <1>5, HandIs
<1>. QED  BY <1>2, <1>3, <1>4, <1>5

LEMMA UntouchedHandStays ==
  ASSUME NEW b, NEW l, NEW y, NEW x, NEW p, Hand(b, l, y, p), l \in EngagedAt,
         x.cur = y.cur, x.err = y.err, Untouched(p), reviewing' = reviewing
  PROVE  Hand(b, l, x, p)'
<1>1. Calm(p) /\ post'[p] = post[p]  BY DEF Untouched
<1>2. ASSUME NEW k, Works(b, k, y, p)  PROVE Works(b, k, y, p)'
  <2>1. /\ Claims(p, Own(b, k, y), {}, {})'
        /\ IF k \in {"recordPublished", "succeedJob"} THEN Sent(p)' ELSE Unsent(p)'
    BY <1>1, <1>2, ClaimsStay DEF Works
  <2>2. Terminals(p)' = Terminals(p)  BY <1>1 DEF Calm
  <2>. QED  BY <1>1, <1>2, <2>1, <2>2 DEF Works
<1>3. post[p] = "draft" /\ Parked(p) => post'[p] = "draft" /\ Parked(p)'
  BY <1>1, ClaimsStay
<1>4. LiveJobs(p)' = LiveJobs(p) /\ Terminals(p)' = Terminals(p) /\ Pending(p)' = Pending(p)
  BY <1>1 DEF Calm
<1>. QED  BY <1>2, <1>3, <1>4, SettledStays, HandStays

\* The SNS accepts a publication, whatever anyone else is doing.
LEMMA AcceptKeeps ==
  ASSUME FlowTypes, PostInv, UNCHANGED approval, NEW a \in Actors, Accept(a)
  PROVE  PostInv'
<1>1. PICK p : p = loc[a].tgt  OBVIOUS
<1>2. /\ UNCHANGED <<post, job, lost, loc, request, reviewing>> /\ pc[a] = "calling"
      /\ pc' = [pc EXCEPT ![a] = "accepted"]
      /\ platform' = [platform EXCEPT ![p] = platform[p] + 1]
  BY <1>1 DEF Accept, Goto, approval
<1>3. /\ pc'[a] = "accepted" /\ \A b \in Actors \ {a} : pc'[b] = pc[b]
      /\ \A q \in Posts : q # p => platform'[q] = platform[q]
      /\ p \in Posts => platform'[p] = platform[p] + 1
  BY <1>2 DEF FlowTypes, TypeInv, Typed
<1>4. /\ "calling" \notin EngagedAt /\ "accepted" \notin EngagedAt
      /\ "calling" \in AtCall /\ "accepted" \in AtCall
  BY DEF EngagedAt, ApprovalPCs, AtCall
<1>5. \A b \in Actors, q \in Posts : Engaged(b, q)' <=> Engaged(b, q)
  BY <1>2, <1>3, <1>4 DEF Engaged
<1>6. \A q : /\ LiveJobs(q)' = LiveJobs(q) /\ Terminals(q)' = Terminals(q)
             /\ Pending(q)' = Pending(q)
  BY <1>2 DEF LiveJobs, Terminals, Pending
<1>7. \A q : Callers(q)' = Callers(q)
  BY <1>2, <1>3, <1>4 DEF Callers
<1>8. ASSUME NEW q \in Posts, q # p  PROVE Untouched(q)
  <2>1. a \notin Callers(q)  BY <1>1, <1>8 DEF Callers
  <2>2. \A b \in Callers(q) : pc'[b] = pc[b] /\ loc'[b].cur = loc[b].cur
    BY <1>2, <1>3, <2>1 DEF Callers
  <2>. QED  BY <1>2, <1>3, <1>6, <1>7, <1>8, <2>2 DEF Untouched, Calm
<1>9. ASSUME p \in Posts, Settled(p)  PROVE Settled(p)'
  <2>1. /\ Claims(p, JobOf(a), {}, {a}) /\ Unsent(p)
        /\ post[p] \in {"publishing", "deleted"} /\ Terminals(p) = {}
    BY <1>1, <1>2, <1>4, <1>9, InCall
  <2>2. JobOf(a)' = JobOf(a)  BY <1>2 DEF JobOf
  <2>3. Claims(p, JobOf(a), {}, {a})'
    BY <1>6, <1>7, <2>1, <2>2 DEF Claims
  <2>4. Sent(p)'  BY <1>2, <1>3, <1>9, <2>1 DEF Unsent, Sent
  <2>5. Called(p)'  BY <1>3, <2>3, <2>4 DEF Called
  <2>. QED  BY <1>2, <1>6, <2>1, <2>5 DEF Settled
<1>10. ASSUME NEW q \in Posts, \A b \in Actors : ~Engaged(b, q)'  PROVE Settled(q)'
  <2>1. Settled(q)  BY <1>5, <1>10 DEF PostInv
  <2>. QED  BY <1>8, <1>9, <2>1, SettledStays
<1>11. ASSUME NEW q \in Posts, NEW b \in Actors, Engaged(b, q)'
       PROVE  Hand(b, pc[b], loc[b], q)'
  <2>1. PICK l, x : l = pc[b] /\ x = loc[b]  OBVIOUS
  <2>2. Engaged(b, q) /\ l \in EngagedAt /\ Hand(b, l, x, q)
    BY <1>5, <1>11, <2>1 DEF PostInv, Engaged
  <2>3. pc'[b] = l /\ loc'[b] = x
    BY <1>2, <1>3, <1>4, <2>1, <2>2
  <2>4. CASE q # p
    <3>1. Hand(b, l, x, q)'  BY <1>2, <1>8, <2>2, <2>4, UntouchedHandStays
    <3>. QED  BY <2>3, <3>1 DEF Hand, Works
  <2>5. CASE q = p
    <3>1. a \in Callers(p)  BY <1>1, <1>2, <1>4 DEF Callers
    <3>2. \A k : ~Works(b, k, x, p)  BY <3>1 DEF Works, Claims
    <3>3. ~Parked(p)  BY <3>1 DEF Parked, Claims
    <3>4. Hand(b, l, x, p)'
      BY <1>2, <1>6, <1>9, <2>2, <2>5, <3>2, <3>3, HandStays
    <3>. QED  BY <2>3, <2>5, <3>4 DEF Hand, Works
  <2>. QED  BY <2>4, <2>5
<1>. QED  BY <1>10, <1>11 DEF PostInv

-----------------------------------------------------------------------------
(* The dispatcher. *)

\* A dispatcher that looks for work touches no post.
LEMMA ScanKeeps ==
  ASSUME OneUp, FlowTypes, PostInv, UNCHANGED approval, NEW w \in Workers, Scan(w) \/ Skip(w)
  PROVE  PostInv'
<1>1. w \in Actors /\ None \notin Posts  BY ActorsAssumption DEF Actors
<1>2. PICK k \in {"idle", "batch"}, l \in {"idle", "batch"} : Turn(w, k) /\ pc' = [pc EXCEPT ![w] = l]
  BY DEF Scan, Skip, Goto
<1>3. PICK x : loc' = [loc EXCEPT ![w] = x]
  BY DEF Scan, Skip, SetLocals
<1>4. \A s \in {"idle", "batch"} : s \notin AtCall /\ s \notin EngagedAt
  BY DEF AtCall, EngagedAt, ApprovalPCs
<1>5. UNCHANGED <<job, request, platform, lost, post>>
  BY DEF Scan, Skip, sns, approval
<1>6. PICK y : y = loc[w]  OBVIOUS
<1>. QED  BY <1>1, <1>2, <1>3, <1>4, <1>5, <1>6, QuietKeeps

LEMMA LoadPostKeeps ==
  ASSUME OneUp, FlowTypes, PostInv, UNCHANGED approval, NEW w \in Workers, LoadPost(w)
  PROVE  PostInv'
<1>1. PICK y, p : y = loc[w] /\ p = y.tgt  OBVIOUS
<1>2. w \in Actors  BY DEF Actors
<1>3. PICK l : l = IF post[p] \in {"scheduled", "failed", "publishing"} THEN "resetPost" ELSE "publish"
  OBVIOUS
<1>4. /\ Turn(w, "loadPost") /\ pc' = [pc EXCEPT ![w] = l] /\ loc' = [loc EXCEPT ![w] = y]
      /\ UNCHANGED <<job, request, platform, lost, post>>
  BY <1>1, <1>2, <1>3 DEF LoadPost, Goto, sns, approval, FlowTypes, TypeInv, Typed
<1>5. /\ "loadPost" \in EngagedAt /\ "loadPost" \notin AtCall /\ "loadPost" \notin SentAt
      /\ l \in EngagedAt /\ l \notin AtCall /\ l \notin SentAt
      /\ l \in {"resetPost", "publish"}
  BY <1>3 DEF EngagedAt, AtCall, SentAt
<1>6. Own(w, l, y) = Own(w, "loadPost", y)  BY <1>5 DEF Own
<1>7. ASSUME p \in Posts, Calm(p), Hand(w, "loadPost", y, p)  PROVE Hand(w, l, y, p)'
  <2>1. Works(w, "loadPost", y, p)  BY <1>5, <1>7, HandIs
  <2>2. post[p] \in {"scheduled", "publishing", "failed", "deleted"}  BY <2>1, StatusIs DEF Works
  <2>3. post'[p] \in StatusAt(l)  BY <1>3, <1>4, <2>2, StatusIs
  <2>4. Works(w, l, y, p)'  BY <1>5, <1>6, <1>7, <2>1, <2>3, WorkGoesOn
  <2>. QED  BY <1>5, <2>4, HandIs
<1>. QED  BY <1>1, <1>2, <1>4, <1>5, <1>7, QuietKeeps

LEMMA ResetPostKeeps ==
  ASSUME OneUp, FlowTypes, PostInv, UNCHANGED approval, NEW w \in Workers, ResetPost(w)
  PROVE  PostInv'
<1>1. PICK y, p : y = loc[w] /\ p = y.tgt  OBVIOUS
<1>2. w \in Actors  BY DEF Actors
<1>3. /\ Turn(w, "resetPost") /\ pc' = [pc EXCEPT ![w] = "publish"]
      /\ loc' = [loc EXCEPT ![w] = y] /\ UNCHANGED <<job, request, platform, lost>>
      /\ \A q \in Posts \ {p} : post'[q] = post[q]
      /\ p \in Posts => post'[p] = "draft"
  BY <1>1, <1>2 DEF ResetPost, SetPost, Goto, sns, approval, FlowTypes, TypeInv, Typed
<1>4. /\ "resetPost" \in EngagedAt /\ "resetPost" \notin AtCall /\ "resetPost" \notin SentAt
      /\ "publish" \in EngagedAt /\ "publish" \notin AtCall /\ "publish" \notin SentAt
  BY DEF EngagedAt, AtCall, SentAt
<1>5. Own(w, "publish", y) = Own(w, "resetPost", y)  BY DEF Own
<1>6. ASSUME p \in Posts, Calm(p), Hand(w, "resetPost", y, p)  PROVE Hand(w, "publish", y, p)'
  <2>1. Works(w, "resetPost", y, p)  BY <1>4, <1>6, HandIs
  <2>2. post'[p] \in StatusAt("publish")  BY <1>3, <1>6, StatusIs
  <2>3. Works(w, "publish", y, p)'
    BY <1>3, <1>4, <1>5, <1>6, <2>1, <2>2, WorkGoesOn
  <2>. QED  BY <1>4, <2>3, HandIs
<1>. QED  BY <1>1, <1>2, <1>3, <1>4, <1>6, QuietKeeps

\* executeJob returns to the batch, having left no claim behind.
LEMMA BackToBatch ==
  ASSUME NEW w \in Workers, NextCandidate(w)
  PROVE  \E l \in {"idle", "batch"} : \E x :
           pc' = [pc EXCEPT ![w] = l] /\ loc' = [loc EXCEPT ![w] = x]
BY DEF NextCandidate, Goto, SetLocals

LEMMA FailPostKeeps ==
  ASSUME OneUp, FlowTypes, PostInv, UNCHANGED approval, NEW w \in Workers, FailPost(w)
  PROVE  PostInv'
<1>1. PICK y, p : y = loc[w] /\ p = y.tgt  OBVIOUS
<1>2. w \in Actors  BY DEF Actors
<1>3. PICK l \in {"idle", "batch"} : \E x :
           pc' = [pc EXCEPT ![w] = l] /\ loc' = [loc EXCEPT ![w] = x]
  BY BackToBatch DEF FailPost
<1>4. PICK x : pc' = [pc EXCEPT ![w] = l] /\ loc' = [loc EXCEPT ![w] = x]
  BY <1>3
<1>5. /\ Turn(w, "failPost") /\ UNCHANGED <<job, request, platform, lost>>
      /\ \A q \in Posts \ {p} : post'[q] = post[q]
      /\ p \in Posts => post'[p] = "failed"
  BY <1>1 DEF FailPost, SetPost, sns, approval, FlowTypes, TypeInv, Typed
<1>6. /\ "failPost" \in EngagedAt /\ "failPost" \notin AtCall /\ "failPost" \notin SentAt
      /\ l \notin EngagedAt /\ l \notin AtCall
  BY DEF EngagedAt, AtCall, SentAt, ApprovalPCs
<1>7. Own(w, "failPost", y) = {}  BY DEF Own
<1>8. ASSUME p \in Posts, Calm(p), Hand(w, "failPost", y, p)  PROVE Settled(p)'
  <2>1. Works(w, "failPost", y, p)  BY <1>6, <1>8, HandIs
  <2>. QED  BY <1>5, <1>6, <1>7, <1>8, <2>1, WorkEnds
<1>. QED  BY <1>1, <1>2, <1>4, <1>5, <1>6, <1>8, QuietKeeps

\* A step that writes one row of post p.
Rewrites(p, j, r) ==
    /\ post'[p] = post[p] /\ platform'[p] = platform[p] /\ lost'[p] = lost[p]
    /\ LiveJobs(p)' = (LiveJobs(p) \ {j}) \cup (IF r.status \in Live THEN {j} ELSE {})
    /\ Terminals(p)' = (Terminals(p) \ {j})
          \cup (IF r.status = "failed" /\ r.lastError # "canceled_by_user" THEN {j} ELSE {})
    /\ Pending(p)' = Pending(p) /\ Callers(p)' = Callers(p)

LEMMA RewriteClaims ==
  ASSUME NEW p, NEW j, NEW r, Rewrites(p, j, r)
  PROVE  /\ \A J, R, A : Claims(p, J, R, A) =>
              Claims(p, (J \ {j}) \cup (IF r.status \in Live THEN {j} ELSE {}), R, A)'
         /\ Claims(p, {j}, {}, {}) =>
              Claims(p, IF r.status \in Live THEN {j} ELSE {}, {}, {})'
         /\ Unsent(p) => Unsent(p)'
         /\ Sent(p) => Sent(p)'
<1>1. \A J, R, A : Claims(p, J, R, A) =>
              Claims(p, (J \ {j}) \cup (IF r.status \in Live THEN {j} ELSE {}), R, A)'
  BY DEF Rewrites, Claims
<1>2. ({j} \ {j}) \cup (IF r.status \in Live THEN {j} ELSE {}) = IF r.status \in Live THEN {j} ELSE {}
  OBVIOUS
<1>3. Claims(p, {j}, {}, {}) => Claims(p, IF r.status \in Live THEN {j} ELSE {}, {}, {})'
  BY <1>1, <1>2 DEF Claims
<1>. QED  BY <1>1, <1>3 DEF Rewrites, Unsent, Sent

LEMMA RowKeeps ==
  ASSUME OneUp, FlowTypes, PostInv, NEW a \in Actors, NEW k, NEW y, NEW l, NEW x, NEW p,
         NEW j \in Jobs, NEW r, Turn(a, k), y = loc[a], k \notin AtCall, l \notin AtCall,
         pc' = [pc EXCEPT ![a] = l], loc' = [loc EXCEPT ![a] = x],
         k \in EngagedAt => y.tgt = p, l \in EngagedAt => x.tgt = p,
         UNCHANGED <<post, request, platform, lost>>,
         job' = [job EXCEPT ![j] = r], r.post = p,
         job[j].post = p \/ job[j].status = "absent",
         p \in Posts /\ Rewrites(p, j, r)
         /\ (IF k \in EngagedAt THEN Hand(a, k, y, p) ELSE Settled(p))
           => IF l \in EngagedAt THEN Hand(a, l, x, p)' ELSE Settled(p)'
  PROVE  PostInv'
<1>1. Acts(a, k, l, x, p)  BY AtTurn DEF Acts
<1>2. job'[j] = r /\ \A i \in Jobs \ {j} : job'[i] = job[i]
  BY DEF FlowTypes, TypeInv, Typed
<1>3. Concerns(p)  BY <1>2 DEF Concerns
<1>4. Callers(p)' = Callers(p)
  BY <1>1 DEF Callers, Acts, FlowTypes, TypeInv, Typed
<1>5. Pending(p)' = Pending(p)  BY DEF Pending
<1>6. Rewrites(p, j, r)  BY <1>4, <1>5, JobsMove DEF Rewrites
<1>7. p \in Posts => IF k \in EngagedAt THEN Hand(a, k, y, p) ELSE Settled(p)
  BY AtTurn
<1>8. p \in Posts => IF l \in EngagedAt THEN Hand(a, l, x, p)' ELSE Settled(p)'
  BY <1>6, <1>7
<1>. QED  BY <1>1, <1>3, <1>8, FocusKeeps

\* A job of a settled post that nobody runs is the post's one claim.
LEMMA WaitingJob ==
  ASSUME RowInv, NEW p, Settled(p), NEW j \in LiveJobs(p), job[j].status # "running"
  PROVE  /\ Claims(p, {j}, {}, {}) /\ Unsent(p) /\ Queued(p)
         /\ post[p] \in {"scheduled", "publishing", "failed", "deleted"} /\ Terminals(p) = {}
<1>1. \A J, R, A : Claims(p, J, R, A) => j \in J  BY DEF Claims
<1>2. ~Unclaimed(p) /\ ~Out(p) /\ ~Parked(p)
  BY <1>1 DEF Unclaimed, Out, Parked
<1>3. ~Called(p)
  <2>1. SUFFICES ASSUME NEW a \in Actors, Claims(p, JobOf(a), {}, {a})  PROVE FALSE
    BY DEF Called
  <2>2. a \in Callers(p) /\ j \in JobOf(a)  BY <1>1, <2>1 DEF Claims
  <2>3. a \in Workers /\ loc[a].cur = j /\ pc[a] \in AtCall
    BY <2>2 DEF JobOf, Callers
  <2>4. AtCall \subseteq Past \ {"failPost"}
    BY DEF AtCall, Past, Executing, Publishing
  <2>. QED  BY <2>3, <2>4 DEF RowInv, OwnRows
<1>4. Queued(p) /\ post[p] \in {"scheduled", "publishing", "failed", "deleted"} /\ Terminals(p) = {}
  BY <1>2, <1>3 DEF Settled
<1>5. PICK i \in Jobs : Claims(p, {i}, {}, {})  BY <1>4 DEF Queued
<1>6. i = j  BY <1>1, <1>5
<1>. QED  BY <1>4, <1>5, <1>6 DEF Queued

LEMMA LockKeeps ==
  ASSUME OneUp, FlowTypes, RowInv, PostInv, UNCHANGED approval, NEW w \in Workers, Lock(w)
  PROVE  PostInv'
<1>1. PICK y : y = loc[w]  OBVIOUS
<1>2. w \in Actors /\ y \in Locals  BY <1>1 DEF Actors, FlowTypes, TypeInv, Typed
<1>3. PICK j \in y.cand :
         /\ Lockable(j)
         /\ job' = [job EXCEPT ![j] = [job[j] EXCEPT !.status = "locked", !.lockedFor = 0]]
         /\ loc' = [loc EXCEPT ![w] = [y EXCEPT !.cand = @ \ {j}, !.cur = j, !.tgt = job[j].post,
                                                !.attempt = job[j].attemptCount + 1]]
  BY <1>1 DEF Lock, SetJob, SetLocals
<1>4. PICK p, r, x : /\ p = job[j].post
                     /\ r = [job[j] EXCEPT !.status = "locked", !.lockedFor = 0]
                     /\ x = [y EXCEPT !.cand = @ \ {j}, !.cur = j, !.tgt = p,
                                      !.attempt = job[j].attemptCount + 1]
  OBVIOUS
<1>5. j \in Jobs /\ job[j] \in Rows
  BY <1>2, <1>3 DEF Locals, FlowTypes, TypeInv, Typed
<1>6. r.post = p /\ r.status = "locked" /\ x.cur = j /\ x.tgt = p
  BY <1>2, <1>4, <1>5 DEF Rows, Locals
<1>7. /\ Turn(w, "batch") /\ pc' = [pc EXCEPT ![w] = "markRunning"]
      /\ loc' = [loc EXCEPT ![w] = x] /\ job' = [job EXCEPT ![j] = r]
      /\ UNCHANGED <<post, request, platform, lost>>
  BY <1>3, <1>4 DEF Lock, Goto, sns, approval
<1>8. /\ "batch" \notin EngagedAt /\ "batch" \notin AtCall
      /\ "markRunning" \in EngagedAt /\ "markRunning" \notin AtCall
  BY DEF EngagedAt, ApprovalPCs, AtCall
<1>9. ASSUME p \in Posts, Rewrites(p, j, r), Settled(p)  PROVE Hand(w, "markRunning", x, p)'
  <2>1. j \in LiveJobs(p) /\ job[j].status # "running"
    BY <1>3, <1>4, <1>5 DEF Lockable, LiveJobs, Live, Waiting
  <2>2. /\ Claims(p, {j}, {}, {}) /\ Unsent(p)
        /\ post[p] \in {"scheduled", "publishing", "failed", "deleted"} /\ Terminals(p) = {}
    BY <1>9, <2>1, WaitingJob
  <2>3. r.status \in Live /\ r.status # "failed"  BY <1>6 DEF Live
  <2>4. Claims(p, {j}, {}, {})' /\ Unsent(p)'  BY <1>9, <2>2, <2>3, RewriteClaims
  <2>5. Terminals(p)' = {}  BY <1>9, <2>2, <2>3 DEF Rewrites
  <2>6. post'[p] \in StatusAt("markRunning")  BY <1>7, <2>2, StatusIs
  <2>7. Own(w, "markRunning", x) = {j}  BY <1>6 DEF Own
  <2>8. Works(w, "markRunning", x, p)'  BY <2>4, <2>5, <2>6, <2>7 DEF Works
  <2>. QED  BY <1>8, <2>8, HandIs
<1>. QED  BY <1>1, <1>2, <1>4, <1>5, <1>6, <1>7, <1>8, <1>9, RowKeeps

\* What a dispatcher with a job in hand knows of the post.
LEMMA InHand ==
  ASSUME FlowTypes, TargetsOK, NEW w \in Workers, NEW y, NEW p, y = loc[w], p = y.tgt,
         NEW k \in {"markRunning", "succeedJob", "failJob"}, pc[w] = k
  PROVE  /\ w \in Actors /\ y.cur \in Jobs /\ job[y.cur] \in Rows /\ job[y.cur].post = p
         /\ k \in EngagedAt /\ k \notin AtCall
         /\ Hand(w, k, y, p) => /\ Claims(p, {y.cur}, {}, {}) /\ Terminals(p) = {}
                                /\ post[p] \in StatusAt(k)
                                /\ IF k = "succeedJob" THEN Sent(p) ELSE Unsent(p)
                                /\ k = "failJob" /\ y.err = "retryable" => post[p] \in Retried
<1>1. k \in Executing /\ k \in EngagedAt /\ k \notin AtCall
  BY DEF Executing, EngagedAt, AtCall
<1>2. w \in Actors  BY DEF Actors
<1>3. y.cur \in Jobs /\ job[y.cur].post = p
  BY <1>1, <1>2 DEF FlowTypes, TypeInv, LocalsOK, LocalsAt, TargetsOK
<1>4. job[y.cur] \in Rows  BY <1>3 DEF FlowTypes, TypeInv, Typed
<1>5. Own(w, k, y) = {y.cur}  BY DEF Own
<1>6. Hand(w, k, y, p) => Works(w, k, y, p)  BY <1>1, HandIs
<1>. QED  BY <1>1, <1>2, <1>3, <1>4, <1>5, <1>6 DEF Works

LEMMA MarkRunningKeeps ==
  ASSUME OneUp, FlowTypes, PostInv, TargetsOK, UNCHANGED approval,
         NEW w \in Workers, MarkRunning(w)
  PROVE  PostInv'
<1>1. PICK y, p, j : y = loc[w] /\ p = y.tgt /\ j = y.cur  OBVIOUS
<1>2. PICK r : r = [job[j] EXCEPT !.status = "running", !.attemptCount = y.attempt]  OBVIOUS
<1>3. /\ Turn(w, "markRunning") /\ pc[w] = "markRunning"
      /\ pc' = [pc EXCEPT ![w] = "loadPost"] /\ loc' = loc
      /\ job' = [job EXCEPT ![j] = r] /\ UNCHANGED <<post, request, platform, lost>>
  BY <1>1, <1>2 DEF MarkRunning, Turn, SetJob, Goto, sns, approval
<1>4. /\ w \in Actors /\ j \in Jobs /\ job[j] \in Rows /\ job[j].post = p
      /\ "markRunning" \in EngagedAt /\ "markRunning" \notin AtCall
      /\ Hand(w, "markRunning", y, p) =>
            /\ Claims(p, {j}, {}, {}) /\ Terminals(p) = {} /\ Unsent(p)
            /\ post[p] \in StatusAt("markRunning")
  BY <1>1, <1>3, InHand
<1>5. loc' = [loc EXCEPT ![w] = y]
  BY <1>1, <1>3, <1>4 DEF FlowTypes, TypeInv, Typed
<1>6. r.post = p /\ r.status = "running"  BY <1>2, <1>4 DEF Rows
<1>7. "loadPost" \in EngagedAt /\ "loadPost" \notin AtCall  BY DEF EngagedAt, AtCall
<1>8. ASSUME p \in Posts, Rewrites(p, j, r), Hand(w, "markRunning", y, p)
      PROVE  Hand(w, "loadPost", y, p)'
  <2>1. r.status \in Live /\ r.status # "failed"  BY <1>6 DEF Live
  <2>2. Claims(p, {j}, {}, {})' /\ Unsent(p)'  BY <1>4, <1>8, <2>1, RewriteClaims
  <2>3. Terminals(p)' = {}  BY <1>4, <1>8, <2>1 DEF Rewrites
  <2>4. post'[p] \in StatusAt("loadPost")  BY <1>3, <1>4, <1>8, StatusIs
  <2>5. Own(w, "loadPost", y) = {j}  BY <1>1 DEF Own
  <2>6. Works(w, "loadPost", y, p)'  BY <2>2, <2>3, <2>4, <2>5 DEF Works
  <2>. QED  BY <1>7, <2>6, HandIs
<1>9. p \in Posts /\ Rewrites(p, j, r)
         /\ (IF "markRunning" \in EngagedAt THEN Hand(w, "markRunning", y, p) ELSE Settled(p))
           => IF "loadPost" \in EngagedAt THEN Hand(w, "loadPost", y, p)' ELSE Settled(p)'
  BY <1>4, <1>7, <1>8
<1>10. /\ Turn(w, "markRunning") /\ y = loc[w] /\ y.tgt = p
       /\ pc' = [pc EXCEPT ![w] = "loadPost"] /\ loc' = [loc EXCEPT ![w] = y]
       /\ job' = [job EXCEPT ![j] = r] /\ UNCHANGED <<post, request, platform, lost>>
       /\ r.post = p /\ job[j].post = p /\ j \in Jobs /\ w \in Actors
       /\ "markRunning" \notin AtCall /\ "loadPost" \notin AtCall
  BY <1>1, <1>3, <1>4, <1>5, <1>6, <1>7
<1>. QED  BY ONLY OneUp, FlowTypes, PostInv, <1>9, <1>10, RowKeeps

LEMMA OutcomeKeeps ==
  ASSUME OneUp, FlowTypes, PostInv, TargetsOK, UNCHANGED approval,
         NEW w \in Workers, SucceedJob(w) \/ RetryJob(w)
  PROVE  PostInv'
<1>1. PICK y, p, j : y = loc[w] /\ p = y.tgt /\ j = y.cur  OBVIOUS
<1>2. PICK l \in {"idle", "batch"} : \E x :
         pc' = [pc EXCEPT ![w] = l] /\ loc' = [loc EXCEPT ![w] = x]
  BY BackToBatch DEF SucceedJob, RetryJob
<1>3. PICK x : pc' = [pc EXCEPT ![w] = l] /\ loc' = [loc EXCEPT ![w] = x]
  BY <1>2
<1>4. l \notin EngagedAt /\ l \notin AtCall  BY DEF EngagedAt, ApprovalPCs, AtCall
<1>5. UNCHANGED <<post, request, platform, lost>>
  BY DEF SucceedJob, RetryJob, sns, approval
<1>6. CASE SucceedJob(w)
  <2>1. PICK r : r = [job[j] EXCEPT !.status = "succeeded", !.lockedFor = 0,
                                    !.nextRetryIn = 0, !.lastError = "null"]
    OBVIOUS
  <2>2. Turn(w, "succeedJob") /\ pc[w] = "succeedJob" /\ job' = [job EXCEPT ![j] = r]
    BY <1>1, <1>6, <2>1 DEF SucceedJob, Turn, SetJob
  <2>3. /\ w \in Actors /\ j \in Jobs /\ job[j] \in Rows /\ job[j].post = p
        /\ "succeedJob" \in EngagedAt /\ "succeedJob" \notin AtCall
        /\ Hand(w, "succeedJob", y, p) =>
              /\ Claims(p, {j}, {}, {}) /\ Terminals(p) = {} /\ Sent(p)
              /\ post[p] \in StatusAt("succeedJob")
    BY <1>1, <2>2, InHand
  <2>4. r.post = p /\ r.status = "succeeded"  BY <2>1, <2>3 DEF Rows
  <2>5. ASSUME p \in Posts, Rewrites(p, j, r), Hand(w, "succeedJob", y, p)  PROVE Settled(p)'
    <3>1. r.status \notin Live /\ r.status # "failed"  BY <2>4 DEF Live, Waiting
    <3>2. Claims(p, {}, {}, {})' /\ Sent(p)'  BY <2>3, <2>5, <3>1, RewriteClaims
    <3>3. Terminals(p)' = {}  BY <2>3, <2>5, <3>1 DEF Rewrites
    <3>4. post'[p] = "published"  BY <1>5, <2>3, <2>5, StatusIs
    <3>. QED  BY <3>2, <3>3, <3>4 DEF Settled, Out
  <2>. QED  BY <1>1, <1>3, <1>4, <1>5, <2>2, <2>3, <2>4, <2>5, RowKeeps
<1>7. CASE RetryJob(w)
  <2>1. PICK r : r = [job[j] EXCEPT !.status = "retrying", !.lockedFor = 0,
                                    !.nextRetryIn = BackoffFor(y.attempt),
                                    !.lastError = "retryable"]
    OBVIOUS
  <2>2. /\ Turn(w, "failJob") /\ pc[w] = "failJob" /\ job' = [job EXCEPT ![j] = r]
        /\ y.err = "retryable"
    BY <1>1, <1>7, <2>1 DEF RetryJob, ShouldRetry, Turn, SetJob
  <2>3. /\ w \in Actors /\ j \in Jobs /\ job[j] \in Rows /\ job[j].post = p
        /\ "failJob" \in EngagedAt /\ "failJob" \notin AtCall
        /\ Hand(w, "failJob", y, p) =>
              /\ Claims(p, {j}, {}, {}) /\ Terminals(p) = {} /\ Unsent(p)
              /\ post[p] \in Retried
    BY <1>1, <2>2, InHand
  <2>4. r.post = p /\ r.status = "retrying"  BY <2>1, <2>3 DEF Rows
  <2>5. ASSUME p \in Posts, Rewrites(p, j, r), Hand(w, "failJob", y, p)  PROVE Settled(p)'
    <3>1. r.status \in Live /\ r.status # "failed"  BY <2>4 DEF Live, Waiting
    <3>2. Claims(p, {j}, {}, {})' /\ Unsent(p)'  BY <2>3, <2>5, <3>1, RewriteClaims
    <3>3. Terminals(p)' = {}  BY <2>3, <2>5, <3>1 DEF Rewrites
    <3>4. post'[p] \in Retried  BY <1>5, <2>3, <2>5
    <3>5. Queued(p)'  BY <2>3, <3>2 DEF Queued
    <3>. QED  BY <3>3, <3>4, <3>5 DEF Settled, Retried
  <2>. QED  BY <1>1, <1>3, <1>4, <1>5, <2>2, <2>3, <2>4, <2>5, RowKeeps
<1>. QED  BY <1>6, <1>7

LEMMA FailJobKeeps ==
  ASSUME OneUp, FlowTypes, PostInv, TargetsOK, UNCHANGED approval,
         NEW w \in Workers, FailJob(w)
  PROVE  PostInv'
<1>1. PICK y, p, j : y = loc[w] /\ p = y.tgt /\ j = y.cur  OBVIOUS
<1>2. PICK r : r = [job[j] EXCEPT !.status = "failed", !.lockedFor = 0,
                                  !.nextRetryIn = 0, !.lastError = "terminal"]
  OBVIOUS
<1>3. /\ Turn(w, "failJob") /\ pc[w] = "failJob"
      /\ pc' = [pc EXCEPT ![w] = "failPost"] /\ loc' = loc
      /\ job' = [job EXCEPT ![j] = r] /\ UNCHANGED <<post, request, platform, lost>>
  BY <1>1, <1>2 DEF FailJob, Turn, SetJob, Goto, sns, approval
<1>4. /\ w \in Actors /\ j \in Jobs /\ job[j] \in Rows /\ job[j].post = p
      /\ "failJob" \in EngagedAt /\ "failJob" \notin AtCall
      /\ Hand(w, "failJob", y, p) =>
            Claims(p, {j}, {}, {}) /\ Unsent(p) /\ post[p] \in StatusAt("failJob")
  BY <1>1, <1>3, InHand
<1>5. loc' = [loc EXCEPT ![w] = y]
  BY <1>1, <1>3, <1>4 DEF FlowTypes, TypeInv, Typed
<1>6. r.post = p /\ r.status = "failed"  BY <1>2, <1>4 DEF Rows
<1>7. "failPost" \in EngagedAt /\ "failPost" \notin AtCall  BY DEF EngagedAt, AtCall
<1>8. ASSUME p \in Posts, Rewrites(p, j, r), Hand(w, "failJob", y, p)
      PROVE  Hand(w, "failPost", y, p)'
  <2>1. r.status \notin Live  BY <1>6 DEF Live, Waiting
  <2>2. Claims(p, {}, {}, {})' /\ Unsent(p)'  BY <1>4, <1>8, <2>1, RewriteClaims
  <2>3. post'[p] \in StatusAt("failPost")  BY <1>3, <1>4, <1>8, StatusIs
  <2>4. Own(w, "failPost", y) = {}  BY DEF Own
  <2>5. Works(w, "failPost", y, p)'  BY <2>2, <2>3, <2>4 DEF Works
  <2>. QED  BY <1>7, <2>5, HandIs
<1>9. p \in Posts /\ Rewrites(p, j, r)
         /\ (IF "failJob" \in EngagedAt THEN Hand(w, "failJob", y, p) ELSE Settled(p))
           => IF "failPost" \in EngagedAt THEN Hand(w, "failPost", y, p)' ELSE Settled(p)'
  BY <1>4, <1>7, <1>8
<1>10. /\ Turn(w, "failJob") /\ y = loc[w] /\ y.tgt = p
       /\ pc' = [pc EXCEPT ![w] = "failPost"] /\ loc' = [loc EXCEPT ![w] = y]
       /\ job' = [job EXCEPT ![j] = r] /\ UNCHANGED <<post, request, platform, lost>>
       /\ r.post = p /\ job[j].post = p /\ j \in Jobs /\ w \in Actors
       /\ "failJob" \notin AtCall /\ "failPost" \notin AtCall
  BY <1>1, <1>3, <1>4, <1>5, <1>6, <1>7
<1>. QED  BY ONLY OneUp, FlowTypes, PostInv, <1>9, <1>10, RowKeeps

-----------------------------------------------------------------------------
(* The requests. *)

\* A request takes a draft in hand.
LEMMA DraftTaken ==
  ASSUME OneUp, FlowTypes, PostInv, NEW c \in Clients, Turn(c, "idle"),
         NEW l \in {"schedulePost", "publish", "createRequest"}, NEW x, NEW p, x.tgt = p,
         p \in Posts => post[p] = "draft",
         pc' = [pc EXCEPT ![c] = l], loc' = [loc EXCEPT ![c] = x],
         UNCHANGED <<post, job, request, platform, lost>>
  PROVE  PostInv'
<1>1. c \in Actors /\ c \notin Workers  BY ActorsAssumption DEF Actors
<1>2. /\ l \in EngagedAt /\ l \notin AtCall
      /\ l \notin {"cancelRead", "cancelJob", "delete", "approve", "reject", "holdPost"}
      /\ "idle" \notin EngagedAt /\ "idle" \notin AtCall
  BY DEF EngagedAt, AtCall, ApprovalPCs
<1>3. PICK y : y = loc[c]  OBVIOUS
<1>4. ASSUME p \in Posts, Calm(p), Settled(p)  PROVE Hand(c, l, x, p)'
  <2>1. Unclaimed(p) /\ Terminals(p) = {} /\ post'[p] = "draft"
    BY <1>4 DEF Settled
  <2>2. Claims(p, {}, {}, {})' /\ Unsent(p)' /\ Terminals(p)' = {}
    BY <1>4, <2>1, ClaimsStay DEF Unclaimed, Calm
  <2>3. Own(c, l, x) = {}  BY <1>1 DEF Own
  <2>4. post'[p] \in StatusAt(l)  BY <2>1, StatusIs
  <2>5. Works(c, l, x, p)'  BY <2>1, <2>2, <2>3, <2>4 DEF Works
  <2>. QED  BY <1>2, <2>5, HandIs
<1>. QED  BY <1>1, <1>2, <1>3, <1>4, QuietKeeps

\* A request goes on to its next statement.
LEMMA RequestGoesOn ==
  ASSUME OneUp, FlowTypes, PostInv, NEW c \in Clients, NEW y, NEW p, y = loc[c], p = y.tgt,
         NEW k \in {"schedulePost", "cancelDraft"} \cup ApprovalPCs,
         NEW l \in {"createJob", "cancelJob", "publish"} \cup ApprovalPCs,
         k \notin {"approve", "reject", "holdPost"}, l \notin {"approve", "reject", "holdPost"},
         k = "cancelDraft" <=> l = "cancelJob",
         Turn(c, k), pc' = [pc EXCEPT ![c] = l], loc' = loc,
         UNCHANGED <<job, request, platform, lost>>,
         \A q \in Posts \ {p} : post'[q] = post[q],
         p \in Posts /\ post[p] \in StatusAt(k) =>
            post'[p] \in StatusAt(l) /\ (l = "publish" => post'[p] = "draft")
  PROVE  PostInv'
<1>1. c \in Actors /\ c \notin Workers  BY ActorsAssumption DEF Actors
<1>2. /\ k \in EngagedAt /\ k \notin AtCall /\ k \notin SentAt /\ k # "failPost"
      /\ k \notin {"cancelRead", "cancelJob", "delete", "approve", "reject", "holdPost"}
      /\ l \in EngagedAt /\ l \notin AtCall /\ l \notin SentAt /\ l # "failJob"
      /\ l \notin {"cancelRead", "delete", "approve", "reject", "holdPost"}
  BY DEF EngagedAt, AtCall, SentAt, ApprovalPCs
<1>3. loc' = [loc EXCEPT ![c] = y]  BY <1>1 DEF FlowTypes, TypeInv, Typed
<1>4. Own(c, l, y) = Own(c, k, y)
  <2>1. l = "cancelDraft" => FALSE  BY DEF ApprovalPCs
  <2>2. CASE k = "cancelDraft"  BY <2>2 DEF Own
  <2>3. CASE k # "cancelDraft"  BY <1>1, <1>2, <2>1, <2>3 DEF Own
  <2>. QED  BY <2>2, <2>3
<1>5. ASSUME p \in Posts, Calm(p), Hand(c, k, y, p)  PROVE Hand(c, l, y, p)'
  <2>1. Works(c, k, y, p)  BY <1>2, <1>5, HandIs
  <2>2. post'[p] \in StatusAt(l) /\ (l = "publish" => post'[p] = "draft")
    BY <1>5, <2>1 DEF Works
  <2>3. Works(c, l, y, p)'  BY <1>2, <1>4, <1>5, <2>1, <2>2, WorkGoesOn
  <2>4. CASE l = "cancelJob"  BY <2>3, <2>4, HandIs
  <2>5. CASE l # "cancelJob"  BY <1>2, <2>3, <2>5, HandIs
  <2>. QED  BY <2>4, <2>5
<1>6. p \in Posts /\ Calm(p) /\ (IF k \in EngagedAt THEN Hand(c, k, y, p) ELSE Settled(p))
        => IF l \in EngagedAt THEN Hand(c, l, y, p)' ELSE Settled(p)'
  BY <1>2, <1>5
<1>7. /\ Turn(c, k) /\ y = loc[c] /\ y.tgt = p /\ c \in Actors
      /\ pc' = [pc EXCEPT ![c] = l] /\ loc' = [loc EXCEPT ![c] = y]
      /\ UNCHANGED <<job, request, platform, lost>>
      /\ \A q \in Posts \ {p} : post'[q] = post[q]
      /\ k \notin AtCall /\ l \notin AtCall
  BY <1>1, <1>2, <1>3
<1>. QED  BY ONLY OneUp, FlowTypes, PostInv, <1>6, <1>7, QuietKeeps

\* A request ends, with nothing left that has a claim on the post.
LEMMA RequestEnds ==
  ASSUME OneUp, FlowTypes, PostInv, NEW c \in Clients, NEW y, NEW p, y = loc[c], p = y.tgt,
         NEW k \in {"executorLoad", "rejectRead", "rejectDraft"},
         Turn(c, k), Respond(c), UNCHANGED <<job, request, platform, lost>>,
         \A q \in Posts \ {p} : post'[q] = post[q],
         p \in Posts /\ post[p] \in StatusAt(k) => post'[p] \in {"draft", "deleted"}
  PROVE  PostInv'
<1>1. c \in Actors /\ c \notin Workers  BY ActorsAssumption DEF Actors
<1>2. /\ k \in EngagedAt /\ k \notin AtCall /\ k \notin SentAt /\ k # "failPost"
      /\ k \notin {"cancelRead", "cancelJob", "delete", "approve", "reject", "holdPost"}
      /\ "idle" \notin EngagedAt /\ "idle" \notin AtCall
  BY DEF EngagedAt, AtCall, SentAt, ApprovalPCs
<1>3. pc' = [pc EXCEPT ![c] = "idle"] /\ loc' = [loc EXCEPT ![c] = NoLocals]
  BY DEF Respond, Goto, SetLocals
<1>4. Own(c, k, y) = {}  BY <1>1 DEF Own
<1>5. ASSUME p \in Posts, Calm(p), Hand(c, k, y, p)  PROVE Settled(p)'
  <2>1. Works(c, k, y, p)  BY <1>2, <1>5, HandIs
  <2>2. post'[p] \in {"draft", "deleted"}  BY <1>5, <2>1 DEF Works
  <2>. QED  BY <1>2, <1>4, <1>5, <2>1, <2>2, WorkEnds
<1>. QED  BY <1>1, <1>2, <1>3, <1>5, QuietKeeps

LEMMA StartsKeep ==
  ASSUME OneUp, FlowTypes, PostInv, NEW c \in Clients,
         \/ (StartSchedule(c) \/ StartPublish(c)) /\ UNCHANGED approval
         \/ Ask(c)
  PROVE  PostInv'
<1>0. NoLocals \in Locals  BY NoLocalsType
<1>1. UNCHANGED <<post, job, request, platform, lost>> /\ Turn(c, "idle")
  BY DEF StartSchedule, StartPublish, Ask, sns, approval
<1>2. CASE StartSchedule(c)
  <2>1. PICK p \in Posts, d \in 1..MaxDelay, m \in MaxAttemptsChoices :
           /\ post[p] = "draft"
           /\ SetLocals(c, [NoLocals EXCEPT !.tgt = p, !.delay = d, !.maxAttempts = m])
    BY <1>2 DEF StartSchedule
  <2>2. PICK x : x = [NoLocals EXCEPT !.tgt = p, !.delay = d, !.maxAttempts = m]  OBVIOUS
  <2>3. x.tgt = p  BY <2>2 DEF NoLocals
  <2>4. pc' = [pc EXCEPT ![c] = "schedulePost"] /\ loc' = [loc EXCEPT ![c] = x]
    BY <1>2, <2>1, <2>2 DEF StartSchedule, Goto, SetLocals
  <2>. QED  BY <1>1, <2>1, <2>3, <2>4, DraftTaken
<1>3. CASE StartPublish(c) \/ Ask(c)
  <2>1. PICK p \in Posts : post[p] = "draft" /\ SetLocals(c, [NoLocals EXCEPT !.tgt = p])
    BY <1>3 DEF StartPublish, Ask
  <2>2. PICK x : x = [NoLocals EXCEPT !.tgt = p]  OBVIOUS
  <2>3. x.tgt = p  BY <2>2 DEF NoLocals
  <2>4. PICK l \in {"publish", "createRequest"} : pc' = [pc EXCEPT ![c] = l]
    BY <1>3 DEF StartPublish, Ask, Goto
  <2>5. loc' = [loc EXCEPT ![c] = x]  BY <2>1, <2>2 DEF SetLocals
  <2>. QED  BY <1>1, <2>1, <2>3, <2>4, <2>5, DraftTaken
<1>. QED  BY <1>2, <1>3

LEMMA WritesKeep ==
  ASSUME OneUp, FlowTypes, PostInv, NEW c \in Clients,
         \/ (SchedulePost(c) \/ CancelDraft(c)) /\ UNCHANGED approval
         \/ ExecutorLoad(c) \/ ExecutorReset(c) \/ RejectRead(c) \/ RejectDraft(c)
  PROVE  PostInv'
<1>1. PICK y, p : y = loc[c] /\ p = y.tgt  OBVIOUS
<1>2. /\ UNCHANGED <<job, request, platform, lost>>
      /\ \A q \in Posts \ {p} : post'[q] = post[q]
  BY <1>1 DEF SchedulePost, CancelDraft, ExecutorLoad, ExecutorReset, RejectRead, RejectDraft,
     SetPost, sns, approval, FlowTypes, TypeInv, Typed
<1>3. /\ {"executorLoad", "executorReset", "rejectRead", "rejectDraft"} \subseteq ApprovalPCs
      /\ {"executorReset", "rejectDraft"} \cap {"approve", "reject", "holdPost"} = {}
  BY DEF ApprovalPCs
<1>4. CASE SchedulePost(c)
  <2>1. /\ Turn(c, "schedulePost") /\ pc' = [pc EXCEPT ![c] = "createJob"] /\ loc' = loc
        /\ p \in Posts => post'[p] = "scheduled"
    BY <1>1, <1>4 DEF SchedulePost, Goto, SetPost, FlowTypes, TypeInv, Typed
  <2>2. StatusAt("createJob") = {"scheduled"}  BY StatusIs
  <2>. QED  BY <1>1, <1>2, <2>1, <2>2, RequestGoesOn
<1>5. CASE CancelDraft(c)
  <2>1. /\ Turn(c, "cancelDraft") /\ pc' = [pc EXCEPT ![c] = "cancelJob"] /\ loc' = loc
        /\ p \in Posts => post'[p] = "draft"
    BY <1>1, <1>5 DEF CancelDraft, Goto, SetPost, FlowTypes, TypeInv, Typed
  <2>2. "draft" \in StatusAt("cancelJob")  BY StatusIs
  <2>. QED  BY <1>1, <1>2, <2>1, <2>2, RequestGoesOn
<1>6. CASE ExecutorLoad(c)
  <2>1. Turn(c, "executorLoad") /\ post' = post  BY <1>6 DEF ExecutorLoad
  <2>2. StatusAt("executorLoad") = {"scheduled", "deleted"} /\ StatusAt("executorReset") = {"scheduled"}
        /\ StatusAt("publish") = {"draft", "deleted"}
    BY StatusIs
  <2>3. CASE post[p] = "scheduled"
    <3>1. pc' = [pc EXCEPT ![c] = "executorReset"] /\ loc' = loc
      BY <1>1, <1>6, <2>3 DEF ExecutorLoad, Goto
    <3>. QED  BY <1>1, <1>2, <1>3, <2>1, <2>2, <2>3, <3>1, RequestGoesOn
  <2>4. CASE post[p] = "draft"
    <3>1. pc' = [pc EXCEPT ![c] = "publish"] /\ loc' = loc
      BY <1>1, <1>6, <2>4 DEF ExecutorLoad, Goto
    <3>. QED  BY <1>1, <1>2, <1>3, <2>1, <2>2, <2>4, <3>1, RequestGoesOn
  <2>5. CASE post[p] \notin {"scheduled", "draft"}
    <3>1. Respond(c)  BY <1>1, <1>6, <2>5 DEF ExecutorLoad
    <3>. QED  BY <1>1, <1>2, <2>1, <2>2, <2>5, <3>1, RequestEnds
  <2>. QED  BY <2>3, <2>4, <2>5
<1>7. CASE ExecutorReset(c)
  <2>1. /\ Turn(c, "executorReset") /\ pc' = [pc EXCEPT ![c] = "publish"] /\ loc' = loc
        /\ p \in Posts => post'[p] = "draft"
    BY <1>1, <1>7 DEF ExecutorReset, Goto, SetPost, FlowTypes, TypeInv, Typed
  <2>2. "draft" \in StatusAt("publish")  BY StatusIs
  <2>. QED  BY <1>1, <1>2, <1>3, <2>1, <2>2, RequestGoesOn
<1>8. CASE RejectRead(c)
  <2>1. Turn(c, "rejectRead") /\ post' = post  BY <1>8 DEF RejectRead
  <2>2. StatusAt("rejectRead") = {"scheduled", "deleted"} /\ StatusAt("rejectDraft") = {"scheduled"}
    BY StatusIs
  <2>3. CASE post[p] = "scheduled"
    <3>1. pc' = [pc EXCEPT ![c] = "rejectDraft"] /\ loc' = loc
      BY <1>1, <1>8, <2>3 DEF RejectRead, Goto
    <3>. QED  BY <1>1, <1>2, <1>3, <2>1, <2>2, <2>3, <3>1, RequestGoesOn
  <2>4. CASE post[p] # "scheduled"
    <3>1. Respond(c)  BY <1>1, <1>8, <2>4 DEF RejectRead
    <3>. QED  BY <1>1, <1>2, <2>1, <2>2, <2>4, <3>1, RequestEnds
  <2>. QED  BY <2>3, <2>4
<1>9. CASE RejectDraft(c)
  <2>1. /\ Turn(c, "rejectDraft") /\ Respond(c) /\ (p \in Posts => post'[p] = "draft")
    BY <1>1, <1>9 DEF RejectDraft, SetPost, FlowTypes, TypeInv, Typed
  <2>. QED  BY <1>1, <1>2, <2>1, RequestEnds
<1>. QED  BY <1>4, <1>5, <1>6, <1>7, <1>8, <1>9

\* Requests that only look at the post before they go on.
LEMMA LooksKeep ==
  ASSUME OneUp, FlowTypes, RowInv, PostInv, NEW c \in Clients,
         \/ /\ StartReschedule(c) \/ StartCancel(c) \/ StartDelete(c) \/ DeleteAnswered(c)
            /\ UNCHANGED approval
         \/ StartApprove(c) \/ StartReject(c)
  PROVE  PostInv'
<1>1. c \in Actors /\ c \notin Workers /\ None \notin Posts
  BY ActorsAssumption DEF Actors
<1>2. PICK y : y = loc[c]  OBVIOUS
<1>3. UNCHANGED <<job, request, platform, lost, post>>
  BY DEF StartReschedule, StartCancel, StartDelete, DeleteAnswered, StartApprove,
     StartReject, StartReview, sns, approval
<1>4. /\ \A s \in {"idle", "reschedule", "deleting"} : s \notin EngagedAt /\ s \notin AtCall
      /\ \A s \in {"cancelRead", "delete", "approve", "reject"} : s \in EngagedAt /\ s \notin AtCall
  BY DEF EngagedAt, AtCall, ApprovalPCs
<1>5. \A p : Calm(p) /\ Settled(p) => Settled(p)'
  BY <1>3, SettledStays DEF Untouched
<1>6. CASE StartReschedule(c)
  <2>1. Turn(c, "idle") /\ pc' = [pc EXCEPT ![c] = "reschedule"]
    BY <1>6 DEF StartReschedule, Goto
  <2>2. PICK x : loc' = [loc EXCEPT ![c] = x]  BY <1>6 DEF StartReschedule, SetLocals
  <2>. QED  BY <1>1, <1>2, <1>3, <1>4, <2>1, <2>2, QuietKeeps
<1>7. CASE StartCancel(c)
  <2>1. PICK j \in Jobs :
           /\ job[j].status \in Waiting \cup {"failed"}
           /\ ~(job[j].status = "failed" /\ job[j].lastError = "canceled_by_user")
           /\ SetLocals(c, [NoLocals EXCEPT !.cur = j, !.tgt = job[j].post])
    BY <1>7 DEF StartCancel
  <2>2. PICK p, x : p = job[j].post /\ x = [NoLocals EXCEPT !.cur = j, !.tgt = p]  OBVIOUS
  <2>3. x.tgt = p /\ x.cur = j  BY <2>2 DEF NoLocals
  <2>4. /\ Turn(c, "idle") /\ pc' = [pc EXCEPT ![c] = "cancelRead"]
        /\ loc' = [loc EXCEPT ![c] = x]
    BY <1>7, <2>1, <2>2 DEF StartCancel, Goto, SetLocals
  <2>5. j \in LiveJobs(p) \cup Terminals(p)
    BY <2>1, <2>2 DEF LiveJobs, Terminals, Live
  <2>6. ASSUME Calm(p), Settled(p)  PROVE Hand(c, "cancelRead", x, p)'
    <3>1. j \in LiveJobs(p)' \cup Terminals(p)'  BY <2>5, <2>6 DEF Calm
    <3>. QED  BY <1>5, <2>3, <2>6, <3>1, HandIs
  <2>. QED  BY <1>1, <1>2, <1>3, <1>4, <2>3, <2>4, <2>6, QuietKeeps
<1>8. CASE StartDelete(c)
  <2>1. PICK p \in Posts, l \in {"deleting", "delete"} :
           SetLocals(c, [NoLocals EXCEPT !.tgt = p]) /\ Goto(c, l)
    BY <1>8 DEF StartDelete
  <2>2. PICK x : x = [NoLocals EXCEPT !.tgt = p]  OBVIOUS
  <2>3. /\ Turn(c, "idle") /\ pc' = [pc EXCEPT ![c] = l] /\ loc' = [loc EXCEPT ![c] = x]
        /\ x.tgt = p
    BY <1>8, <2>1, <2>2 DEF StartDelete, Goto, SetLocals, NoLocals
  <2>4. Calm(p) /\ Settled(p) => Settled(p)' /\ Hand(c, "delete", x, p)'
    BY <1>5, HandIs
  <2>5. CASE l = "deleting"
    BY <1>1, <1>2, <1>3, <1>4, <2>3, <2>4, <2>5, QuietKeeps
  <2>6. CASE l = "delete"
    BY <1>1, <1>2, <1>3, <1>4, <2>3, <2>4, <2>6, QuietKeeps
  <2>. QED  BY <2>5, <2>6
<1>9. CASE DeleteAnswered(c)
  <2>1. Turn(c, "deleting")  BY <1>9 DEF DeleteAnswered
  <2>2. PICK p : p = y.tgt  OBVIOUS
  <2>3. Calm(p) /\ Settled(p) => Settled(p)' /\ Hand(c, "delete", y, p)'
    BY <1>5, HandIs
  <2>4. CASE Goto(c, "delete") /\ UNCHANGED loc
    <3>1. pc' = [pc EXCEPT ![c] = "delete"] /\ loc' = [loc EXCEPT ![c] = y]
      BY <1>1, <1>2, <2>4 DEF Goto, FlowTypes, TypeInv, Typed
    <3>. QED  BY <1>1, <1>2, <1>3, <1>4, <2>1, <2>2, <2>3, <3>1, QuietKeeps
  <2>5. CASE Respond(c)
    <3>1. pc' = [pc EXCEPT ![c] = "idle"] /\ loc' = [loc EXCEPT ![c] = NoLocals]
      BY <2>5 DEF Respond, Goto, SetLocals
    <3>. QED  BY <1>1, <1>2, <1>3, <1>4, <1>5, <2>1, <3>1, QuietKeeps
  <2>. QED  BY <1>9, <2>4, <2>5 DEF DeleteAnswered
<1>10. CASE StartApprove(c) \/ StartReject(c)
  <2>1. PICK r \in Requests, l \in {"approve", "reject"} :
           request[r].status = "pending" /\ StartReview(c, r, l)
    BY <1>10 DEF StartApprove, StartReject
  <2>2. PICK p, x : p = request[r].post /\ x = [NoLocals EXCEPT !.tgt = p]  OBVIOUS
  <2>3. /\ Turn(c, "idle") /\ pc' = [pc EXCEPT ![c] = l] /\ loc' = [loc EXCEPT ![c] = x]
        /\ x.tgt = p /\ reviewing' = [reviewing EXCEPT ![c] = r]
    BY <2>1, <2>2 DEF StartReview, Goto, SetLocals, NoLocals
  <2>4. reviewing'[c] = r  BY <2>3 DEF FlowTypes
  <2>5. r \in Pending(p)  BY <2>1, <2>2 DEF Pending
  <2>6. Calm(p) /\ Settled(p) => Hand(c, l, x, p)'
    BY <1>5, <2>4, <2>5, HandIs DEF Calm
  <2>. QED  BY <1>1, <1>2, <1>3, <1>4, <2>3, <2>6, QuietKeeps
<1>. QED  BY <1>6, <1>7, <1>8, <1>9, <1>10

LEMMA CancelReadKeeps ==
  ASSUME OneUp, FlowTypes, RowInv, PostInv, UNCHANGED approval, NEW c \in Clients, CancelRead(c)
  PROVE  PostInv'
<1>1. c \in Actors /\ c \notin Workers  BY ActorsAssumption DEF Actors
<1>2. PICK y, p : y = loc[c] /\ p = y.tgt  OBVIOUS
<1>3. PICK l : l = IF post[p] = "scheduled" THEN "cancelDraft" ELSE "cancelJob"  OBVIOUS
<1>4. /\ Turn(c, "cancelRead") /\ pc[c] = "cancelRead" /\ pc' = [pc EXCEPT ![c] = l]
      /\ UNCHANGED <<job, request, platform, lost, post, loc>>
  BY <1>2, <1>3 DEF CancelRead, Turn, Goto, sns, approval
<1>5. loc' = [loc EXCEPT ![c] = y]
  BY <1>1, <1>2, <1>4 DEF FlowTypes, TypeInv, Typed
<1>6. /\ "cancelRead" \in EngagedAt /\ "cancelRead" \notin AtCall
      /\ l \in EngagedAt /\ l \notin AtCall
  BY <1>3 DEF EngagedAt, AtCall
<1>7. job[y.cur].status \in Waiting \cup {"failed"}
  BY <1>2, <1>4 DEF RowInv, CancelFresh, Canceling
<1>8. ASSUME p \in Posts, Calm(p), Hand(c, "cancelRead", y, p)  PROVE Hand(c, l, y, p)'
  <2>1. Settled(p) /\ y.cur \in LiveJobs(p) \cup Terminals(p)
    BY <1>8, HandIs
  <2>2. Settled(p)'  BY <1>4, <1>8, <2>1, SettledStays DEF Untouched
  <2>3. CASE y.cur \in LiveJobs(p)
    <3>1. /\ Claims(p, {y.cur}, {}, {}) /\ Unsent(p) /\ Terminals(p) = {}
          /\ post[p] \in {"scheduled", "publishing", "failed", "deleted"}
      BY <1>7, <2>1, <2>3, WaitingJob DEF Waiting
    <3>2. Claims(p, {y.cur}, {}, {})' /\ Unsent(p)' /\ Terminals(p)' = {}
      BY <1>8, <3>1, ClaimsStay DEF Calm
    <3>3. post'[p] \in StatusAt(l)  BY <1>3, <1>4, <3>1, StatusIs
    <3>4. Own(c, l, y) = {y.cur}  BY <1>3 DEF Own
    <3>5. Works(c, l, y, p)'  BY <1>3, <3>2, <3>3, <3>4 DEF Works
    <3>. QED  BY <1>3, <1>6, <3>5, HandIs
  <2>4. CASE y.cur \in Terminals(p)
    <3>1. l = "cancelJob"  BY <1>3, <2>1, <2>4 DEF Settled
    <3>2. y.cur \in Terminals(p)'  BY <1>8, <2>4 DEF Calm
    <3>. QED  BY <2>2, <3>1, <3>2, HandIs
  <2>. QED  BY <2>1, <2>3, <2>4
<1>9. p \in Posts /\ Calm(p) /\ (IF "cancelRead" \in EngagedAt THEN Hand(c, "cancelRead", y, p) ELSE Settled(p))
        => IF l \in EngagedAt THEN Hand(c, l, y, p)' ELSE Settled(p)'
  BY <1>6, <1>8
<1>10. /\ Turn(c, "cancelRead") /\ y = loc[c] /\ y.tgt = p /\ c \in Actors
       /\ pc' = [pc EXCEPT ![c] = l] /\ loc' = [loc EXCEPT ![c] = y]
       /\ UNCHANGED <<job, request, platform, lost>>
       /\ \A q \in Posts \ {p} : post'[q] = post[q]
       /\ "cancelRead" \notin AtCall /\ l \notin AtCall
  BY <1>1, <1>2, <1>4, <1>5, <1>6
<1>. QED  BY ONLY OneUp, FlowTypes, PostInv, <1>9, <1>10, QuietKeeps

LEMMA DeleteKeeps ==
  ASSUME OneUp, FlowTypes, PostInv, NEW c \in Clients,
         (Delete(c) /\ UNCHANGED approval) \/ HoldPost(c)
  PROVE  PostInv'
<1>1. c \in Actors  BY DEF Actors
<1>2. PICK y, p : y = loc[c] /\ p = y.tgt  OBVIOUS
<1>3. /\ pc' = [pc EXCEPT ![c] = "idle"] /\ loc' = [loc EXCEPT ![c] = NoLocals]
      /\ UNCHANGED <<job, request, platform, lost>>
      /\ \A q \in Posts \ {p} : post'[q] = post[q]
  BY <1>2 DEF Delete, HoldPost, Respond, Goto, SetLocals, SetPost, sns, approval,
     FlowTypes, TypeInv, Typed
<1>4. /\ \A s \in {"delete", "holdPost"} : s \in EngagedAt /\ s \notin AtCall
      /\ "idle" \notin EngagedAt /\ "idle" \notin AtCall
  BY DEF EngagedAt, AtCall, ApprovalPCs
<1>5. CASE Delete(c)
  <2>1. Turn(c, "delete") /\ (p \in Posts => post'[p] = "deleted")
    BY <1>2, <1>5 DEF Delete, SetPost, FlowTypes, TypeInv, Typed
  <2>2. ASSUME p \in Posts, Calm(p), Hand(c, "delete", y, p)  PROVE Settled(p)'
    <3>1. Settled(p)  BY <2>2, HandIs
    <3>2. Unclaimed(p) \/ Out(p) \/ Queued(p) \/ Parked(p) \/ Called(p)
      BY <3>1 DEF Settled
    <3>3. Terminals(p)' # {} => Unclaimed(p)  BY <2>2, <3>1 DEF Settled, Calm
    <3>. QED  BY <2>1, <2>2, <3>2, <3>3, ClaimsStay DEF Settled
  <2>. QED  BY <1>1, <1>2, <1>3, <1>4, <2>1, <2>2, QuietKeeps
<1>6. CASE HoldPost(c)
  <2>1. Turn(c, "holdPost") /\ (p \in Posts => post'[p] = "scheduled")
    BY <1>2, <1>6 DEF HoldPost, SetPost, FlowTypes, TypeInv, Typed
  <2>2. ASSUME p \in Posts, Calm(p), Hand(c, "holdPost", y, p)  PROVE Settled(p)'
    <3>1. Parked(p) /\ Terminals(p) = {}  BY <2>2, HandIs
    <3>2. Parked(p)' /\ Terminals(p)' = {}  BY <2>2, <3>1, ClaimsStay DEF Calm
    <3>. QED  BY <2>1, <2>2, <3>2 DEF Settled
  <2>. QED  BY <1>1, <1>2, <1>3, <1>4, <2>1, <2>2, QuietKeeps
<1>. QED  BY <1>5, <1>6

\* schedulePost inserts the job.
LEMMA CreateJobKeeps ==
  ASSUME OneUp, FlowTypes, PostInv, UNCHANGED approval, NEW c \in Clients, CreateJob(c)
  PROVE  PostInv'
<1>1. c \in Actors /\ c \notin Workers  BY ActorsAssumption DEF Actors
<1>2. PICK y, p : y = loc[c] /\ p = y.tgt  OBVIOUS
<1>3. PICK j \in Jobs : job[j].status = "absent"
         /\ SetJob(j, [NoRow EXCEPT !.status = "pending", !.post = loc[c].tgt,
                                    !.scheduledIn = loc[c].delay,
                                    !.maxAttempts = loc[c].maxAttempts])
  BY DEF CreateJob, Slots
<1>4. PICK r : r = [NoRow EXCEPT !.status = "pending", !.post = p,
                                 !.scheduledIn = y.delay, !.maxAttempts = y.maxAttempts]
  OBVIOUS
<1>5. r.post = p /\ r.status = "pending"  BY <1>4 DEF NoRow
<1>6. /\ Turn(c, "createJob") /\ pc' = [pc EXCEPT ![c] = "idle"]
      /\ loc' = [loc EXCEPT ![c] = NoLocals] /\ job' = [job EXCEPT ![j] = r]
      /\ UNCHANGED <<post, request, platform, lost>>
  BY <1>2, <1>3, <1>4 DEF CreateJob, Respond, Goto, SetLocals, SetJob, sns, approval
<1>7. /\ "createJob" \in EngagedAt /\ "createJob" \notin AtCall
      /\ "idle" \notin EngagedAt /\ "idle" \notin AtCall
  BY DEF EngagedAt, AtCall, ApprovalPCs
<1>8. ASSUME p \in Posts, Rewrites(p, j, r), Hand(c, "createJob", y, p)  PROVE Settled(p)'
  <2>1. Works(c, "createJob", y, p)  BY <1>7, <1>8, HandIs
  <2>2. Own(c, "createJob", y) = {}  BY <1>1 DEF Own
  <2>3. /\ Claims(p, {}, {}, {}) /\ Unsent(p) /\ Terminals(p) = {}
        /\ post[p] \in StatusAt("createJob")
    BY <2>1, <2>2 DEF Works
  <2>4. r.status \in Live /\ r.status # "failed"  BY <1>5 DEF Live, Waiting
  <2>5. LiveJobs(p)' = {j} /\ Pending(p)' = {} /\ Callers(p)' = {} /\ Terminals(p)' = {}
    BY <1>8, <2>3, <2>4 DEF Rewrites, Claims
  <2>6. Claims(p, {j}, {}, {})' /\ Unsent(p)'
    BY <1>8, <2>3, <2>5, RewriteClaims DEF Claims
  <2>7. Queued(p)'  BY <2>6 DEF Queued
  <2>8. post'[p] = "scheduled"  BY <1>6, <2>3, StatusIs
  <2>. QED  BY <2>5, <2>7, <2>8 DEF Settled
<1>. QED  BY <1>1, <1>2, <1>3, <1>5, <1>6, <1>7, <1>8, RowKeeps

LEMMA RescheduleKeeps ==
  ASSUME OneUp, FlowTypes, ExecutionInv, PostInv, UNCHANGED approval,
         NEW c \in Clients, Reschedule(c)
  PROVE  PostInv'
<1>1. c \in Actors  BY DEF Actors
<1>2. PICK y, j : y = loc[c] /\ j = y.cur  OBVIOUS
<1>3. /\ Turn(c, "reschedule") /\ pc[c] = "reschedule" /\ pc' = [pc EXCEPT ![c] = "idle"]
      /\ loc' = [loc EXCEPT ![c] = NoLocals]
      /\ job' = [job EXCEPT ![j] = [job[j] EXCEPT !.status = "pending", !.lockedFor = 0,
                                      !.scheduledIn = y.delay, !.nextRetryIn = 0]]
      /\ UNCHANGED <<post, request, platform, lost>>
  BY <1>2 DEF Reschedule, Turn, Respond, Goto, SetLocals, SetJob, sns, approval
<1>4. j \in Jobs /\ job[j].status \in Waiting /\ job[j] \in Rows
  BY <1>1, <1>2, <1>3 DEF FlowTypes, TypeInv, Typed, LocalsOK, LocalsAt,
     ExecutionInv, RescheduleFresh
<1>5. PICK p, r : p = job[j].post /\ r = [job[j] EXCEPT !.status = "pending", !.lockedFor = 0,
                                            !.scheduledIn = y.delay, !.nextRetryIn = 0]
  OBVIOUS
<1>6. r.post = p /\ r.status = "pending"  BY <1>4, <1>5 DEF Rows
<1>7. \A s \in {"reschedule", "idle"} : s \notin EngagedAt /\ s \notin AtCall
  BY DEF EngagedAt, AtCall, ApprovalPCs
<1>8. ASSUME p \in Posts, Rewrites(p, j, r), Settled(p)  PROVE Settled(p)'
  <2>1. j \in LiveJobs(p) /\ job[j].status # "running"
    BY <1>4, <1>5 DEF LiveJobs, Live, Waiting
  <2>2. j \notin Terminals(p)  BY <1>4 DEF Terminals, Waiting
  <2>3. r.status \in Live /\ r.status # "failed"  BY <1>6 DEF Live, Waiting
  <2>4. LiveJobs(p)' = LiveJobs(p) /\ Terminals(p)' = Terminals(p)
    BY <1>8, <2>1, <2>2, <2>3 DEF Rewrites
  <2>5. \A b \in Callers(p) : pc'[b] = pc[b] /\ loc'[b].cur = loc[b].cur
    BY <1>3, <1>7 DEF Callers, FlowTypes, TypeInv, Typed
  <2>6. Untouched(p)  BY <1>8, <2>4, <2>5 DEF Rewrites, Untouched, Calm
  <2>. QED  BY <1>8, <2>6, SettledStays
<1>9. /\ Turn(c, "reschedule") /\ y = loc[c] /\ c \in Actors
      /\ pc' = [pc EXCEPT ![c] = "idle"] /\ loc' = [loc EXCEPT ![c] = NoLocals]
      /\ job' = [job EXCEPT ![j] = r] /\ UNCHANGED <<post, request, platform, lost>>
      /\ r.post = p /\ job[j].post = p /\ j \in Jobs
  BY <1>1, <1>2, <1>3, <1>4, <1>5, <1>6
<1>. QED  BY ONLY OneUp, FlowTypes, PostInv, <1>7, <1>8, <1>9, RowKeeps

\* cancelSchedule gives the row its last word, whether it waited or had failed.
LEMMA CancelJobKeeps ==
  ASSUME OneUp, FlowTypes, PostInv, TargetsOK, UNCHANGED approval,
         NEW c \in Clients, CancelJob(c)
  PROVE  PostInv'
<1>1. c \in Actors  BY DEF Actors
<1>2. PICK y, p, j : y = loc[c] /\ p = y.tgt /\ j = y.cur  OBVIOUS
<1>3. PICK r : r = [job[j] EXCEPT !.status = "failed", !.lastError = "canceled_by_user"]  OBVIOUS
<1>4. /\ Turn(c, "cancelJob") /\ pc[c] = "cancelJob" /\ pc' = [pc EXCEPT ![c] = "idle"]
      /\ loc' = [loc EXCEPT ![c] = NoLocals] /\ job' = [job EXCEPT ![j] = r]
      /\ UNCHANGED <<post, request, platform, lost>>
  BY <1>2, <1>3 DEF CancelJob, Turn, Respond, Goto, SetLocals, SetJob, sns, approval
<1>5. j \in Jobs /\ job[j].post = p
  BY <1>1, <1>2, <1>4 DEF FlowTypes, TypeInv, LocalsOK, LocalsAt, TargetsOK, Canceling
<1>6. r.post = p /\ r.status = "failed" /\ r.lastError = "canceled_by_user"
  BY <1>3, <1>5 DEF FlowTypes, TypeInv, Typed, Rows
<1>7. /\ "cancelJob" \in EngagedAt /\ "cancelJob" \notin AtCall
      /\ "idle" \notin EngagedAt /\ "idle" \notin AtCall
  BY DEF EngagedAt, AtCall, ApprovalPCs
<1>8. ASSUME p \in Posts, Rewrites(p, j, r), Hand(c, "cancelJob", y, p)  PROVE Settled(p)'
  <2>1. r.status \notin Live  BY <1>6 DEF Live, Waiting
  <2>2. CASE Works(c, "cancelJob", y, p)
    <3>1. Own(c, "cancelJob", y) = {j}  BY <1>2 DEF Own
    <3>2. Claims(p, {j}, {}, {}) /\ Unsent(p) /\ Terminals(p) = {} /\ post[p] \in StatusAt("cancelJob")
      BY <2>2, <3>1 DEF Works
    <3>3. Claims(p, {}, {}, {})' /\ Unsent(p)'
      BY <1>8, <2>1, <3>2, RewriteClaims
    <3>4. Terminals(p)' = {}  BY <1>6, <1>8, <3>2 DEF Rewrites
    <3>5. post'[p] \in {"draft", "publishing", "failed", "deleted"}  BY <1>4, <3>2, StatusIs
    <3>. QED  BY <3>3, <3>4, <3>5 DEF Settled, Unclaimed
  <2>3. CASE Settled(p) /\ j \in Terminals(p)
    <3>1. Unclaimed(p) /\ post[p] \in {"failed", "deleted"}
      BY <2>3 DEF Settled
    <3>2. LiveJobs(p)' = {} /\ Pending(p)' = {} /\ Callers(p)' = {}
      BY <1>8, <2>1, <3>1 DEF Rewrites, Unclaimed, Claims
    <3>3. Claims(p, {}, {}, {})' /\ Unsent(p)'
      BY <1>8, <3>1, <3>2, RewriteClaims DEF Claims, Unclaimed
    <3>. QED  BY <1>4, <3>1, <3>3 DEF Settled, Unclaimed
  <2>. QED  BY <1>2, <1>8, <2>2, <2>3, HandIs
<1>9. p \in Posts /\ Rewrites(p, j, r)
        /\ (IF "cancelJob" \in EngagedAt THEN Hand(c, "cancelJob", y, p) ELSE Settled(p))
           => IF "idle" \in EngagedAt THEN Hand(c, "idle", NoLocals, p)' ELSE Settled(p)'
  BY <1>7, <1>8
<1>. QED
  BY ONLY OneUp, FlowTypes, PostInv, <1>1, <1>2, <1>4, <1>5, <1>6, <1>7, <1>9, RowKeeps

-----------------------------------------------------------------------------
(* The approval requests. *)

\* A request is inserted or decided.
LEMMA RequestKeeps ==
  ASSUME OneUp, FlowTypes, PostInv, NEW c \in Clients, NEW k \in EngagedAt,
         NEW l \in EngagedAt, NEW y, NEW p, NEW q \in Requests, NEW r,
         Turn(c, k), y = loc[c], p = y.tgt, pc' = [pc EXCEPT ![c] = l], loc' = loc,
         UNCHANGED <<post, job, platform, lost>>,
         request' = [request EXCEPT ![q] = r], r.post = p,
         request[q].post = p \/ request[q].status = "absent",
         /\ p \in Posts /\ Hand(c, k, y, p)
         /\ UNCHANGED <<post, platform, lost>>
         /\ LiveJobs(p)' = LiveJobs(p) /\ Terminals(p)' = Terminals(p)
         /\ Callers(p)' = Callers(p)
         /\ Pending(p)' = (Pending(p) \ {q}) \cup (IF r.status = "pending" THEN {q} ELSE {})
         => Hand(c, l, y, p)'
  PROVE  PostInv'
<1>1. c \in Actors  BY DEF Actors
<1>2. loc' = [loc EXCEPT ![c] = y]  BY <1>1 DEF FlowTypes, TypeInv, Typed
<1>3. Acts(c, k, l, y, p)  BY <1>1, <1>2, AtTurn DEF Acts
<1>4. request'[q] = r /\ \A i \in Requests \ {q} : request'[i] = request[i]
  BY DEF FlowTypes
<1>5. Concerns(p)  BY <1>4 DEF Concerns
<1>6. k \notin AtCall /\ l \notin AtCall  BY NowhereBoth
<1>7. Callers(p)' = Callers(p)
  BY <1>3, <1>6 DEF Callers, Acts, FlowTypes, TypeInv, Typed
<1>8. LiveJobs(p)' = LiveJobs(p) /\ Terminals(p)' = Terminals(p)  BY DEF LiveJobs, Terminals
<1>9. Pending(p)' = (Pending(p) \ {q}) \cup (IF r.status = "pending" THEN {q} ELSE {})
  BY RequestsMove
<1>10. p \in Posts => Hand(c, k, y, p)  BY <1>1, AtTurn
<1>11. p \in Posts => Hand(c, l, y, p)'
  BY <1>7, <1>8, <1>9, <1>10
<1>. QED  BY <1>1, <1>3, <1>5, <1>11, FocusKeeps

\* Asking parks the post with the new request: its one claim.
LEMMA CreateRequestKeeps ==
  ASSUME OneUp, FlowTypes, PostInv, NEW c \in Clients, CreateRequest(c)
  PROVE  PostInv'
<1>1. c \in Actors /\ c \notin Workers  BY ActorsAssumption DEF Actors
<1>2. PICK y, p : y = loc[c] /\ p = y.tgt  OBVIOUS
<1>3. PICK q \in Requests : request[q].status = "absent"
         /\ request' = [request EXCEPT ![q] = [status |-> "pending", post |-> loc[c].tgt]]
  BY DEF CreateRequest, Free
<1>4. PICK r : r = [status |-> "pending", post |-> p]  OBVIOUS
<1>5. r.status = "pending" /\ r.post = p  BY <1>4
<1>6. /\ Turn(c, "createRequest") /\ pc' = [pc EXCEPT ![c] = "holdPost"] /\ loc' = loc
      /\ request' = [request EXCEPT ![q] = r] /\ UNCHANGED <<post, job, platform, lost>>
  BY <1>2, <1>3, <1>4 DEF CreateRequest, Goto, sns
<1>7. "createRequest" \in EngagedAt /\ "holdPost" \in EngagedAt  BY DEF EngagedAt, ApprovalPCs
<1>8. ASSUME p \in Posts, Hand(c, "createRequest", y, p), UNCHANGED <<post, platform, lost>>,
             LiveJobs(p)' = LiveJobs(p), Terminals(p)' = Terminals(p), Callers(p)' = Callers(p),
             Pending(p)' = (Pending(p) \ {q}) \cup (IF r.status = "pending" THEN {q} ELSE {})
      PROVE  Hand(c, "holdPost", y, p)'
  <2>1. Works(c, "createRequest", y, p)  BY <1>7, <1>8, HandIs
  <2>2. Own(c, "createRequest", y) = {}  BY <1>1 DEF Own
  <2>3. /\ Claims(p, {}, {}, {}) /\ Unsent(p) /\ Terminals(p) = {}
        /\ post[p] \in StatusAt("createRequest")
    BY <2>1, <2>2 DEF Works
  <2>4. Claims(p, {}, {q}, {})'  BY <1>5, <1>8, <2>3 DEF Claims
  <2>5. Unsent(p)'  BY <1>8, <2>3 DEF Unsent
  <2>6. Parked(p)'  BY <2>4, <2>5 DEF Parked
  <2>7. post'[p] = "draft"  BY <1>6, <2>3, StatusIs
  <2>. QED  BY <1>8, <2>3, <2>6, <2>7, HandIs
<1>9. (/\ p \in Posts /\ Hand(c, "createRequest", y, p)
        /\ UNCHANGED <<post, platform, lost>>
        /\ LiveJobs(p)' = LiveJobs(p) /\ Terminals(p)' = Terminals(p)
        /\ Callers(p)' = Callers(p)
        /\ Pending(p)' = (Pending(p) \ {q}) \cup (IF r.status = "pending" THEN {q} ELSE {})
      ) => Hand(c, "holdPost", y, p)'
  BY <1>8
<1>10. /\ y = loc[c] /\ p = y.tgt /\ request[q].status = "absent" /\ r.post = p
  BY <1>2, <1>3, <1>5
<1>. QED
  BY ONLY OneUp, FlowTypes, PostInv, <1>6, <1>7, <1>9, <1>10, RequestKeeps

\* Deciding takes the claim away: what follows is up to the reviewer's request.
LEMMA DecideKeeps ==
  ASSUME OneUp, FlowTypes, ReviewInv, PostInv, TargetsOK, NEW c \in Clients,
         ApproveRequest(c) \/ RejectRequest(c)
  PROVE  PostInv'
<1>1. c \in Actors /\ c \notin Workers  BY ActorsAssumption DEF Actors
<1>2. PICK y, p, q : y = loc[c] /\ p = y.tgt /\ q = reviewing[c]  OBVIOUS
<1>3. PICK k \in {"approve", "reject"}, l \in {"executorLoad", "rejectRead"}, s \in Decided :
         /\ Turn(c, k) /\ pc' = [pc EXCEPT ![c] = l] /\ loc' = loc
         /\ request' = [request EXCEPT ![q].status = s]
         /\ UNCHANGED <<post, job, platform, lost>>
  BY <1>2 DEF ApproveRequest, RejectRequest, Goto, Decide, Decided, sns
<1>4. pc[c] = k  BY <1>3 DEF Turn
<1>5. q \in Requests /\ request[q].status = "pending" /\ request[q].post = p
  BY <1>2, <1>4 DEF ReviewInv, ReviewsPending, TargetsOK
<1>6. PICK r : r = [request[q] EXCEPT !.status = s]  OBVIOUS
<1>7. r.status \in Decided /\ r.post = p
  BY <1>5, <1>6 DEF FlowTypes, RequestRows
<1>8. request' = [request EXCEPT ![q] = r]  BY <1>3, <1>6
<1>9. /\ k \in EngagedAt /\ l \in EngagedAt
      /\ l \notin {"cancelRead", "cancelJob", "delete", "approve", "reject", "holdPost"}
      /\ l \notin {"publish", "failJob", "recordPublished", "succeedJob"}
  BY DEF EngagedAt, ApprovalPCs
<1>10. ASSUME p \in Posts, Hand(c, k, y, p), UNCHANGED <<post, platform, lost>>,
              LiveJobs(p)' = LiveJobs(p), Terminals(p)' = Terminals(p), Callers(p)' = Callers(p),
              Pending(p)' = (Pending(p) \ {q}) \cup (IF r.status = "pending" THEN {q} ELSE {})
       PROVE  Hand(c, l, y, p)'
  <2>1. Settled(p) /\ q \in Pending(p)  BY <1>2, <1>10, HandIs
  <2>2. \A J, R, A : Claims(p, J, R, A) => q \in R  BY <2>1 DEF Claims
  <2>3. ~Unclaimed(p) /\ ~Out(p) /\ ~Queued(p) /\ ~Called(p)
    BY <2>2 DEF Unclaimed, Out, Queued, Called
  <2>4. Parked(p) /\ post[p] \in {"scheduled", "deleted"} /\ Terminals(p) = {}
    BY <2>1, <2>3 DEF Settled
  <2>5. PICK i \in Requests : Claims(p, {}, {i}, {})  BY <2>4 DEF Parked
  <2>6. LiveJobs(p) = {} /\ Pending(p) = {q} /\ Callers(p) = {}
    BY <2>2, <2>5 DEF Claims
  <2>7. Claims(p, {}, {}, {})'
    BY <1>7, <1>10, <2>6 DEF Claims, Decided
  <2>8. Own(c, l, y) = {}  BY <1>1 DEF Own
  <2>9. Unsent(p)'  BY <1>10, <2>4 DEF Parked, Unsent
  <2>10. post'[p] \in StatusAt(l)  BY <1>10, <2>4, StatusIs
  <2>11. Works(c, l, y, p)'
    BY <1>9, <1>10, <2>4, <2>7, <2>8, <2>9, <2>10 DEF Works
  <2>. QED  BY <1>9, <2>11, HandIs
<1>11. (/\ p \in Posts /\ Hand(c, k, y, p)
        /\ UNCHANGED <<post, platform, lost>>
        /\ LiveJobs(p)' = LiveJobs(p) /\ Terminals(p)' = Terminals(p)
        /\ Callers(p)' = Callers(p)
        /\ Pending(p)' = (Pending(p) \ {q}) \cup (IF r.status = "pending" THEN {q} ELSE {})
      ) => Hand(c, l, y, p)'
  BY <1>10
<1>12. /\ Turn(c, k) /\ pc' = [pc EXCEPT ![c] = l] /\ loc' = loc
       /\ UNCHANGED <<post, job, platform, lost>>
       /\ y = loc[c] /\ p = y.tgt /\ q \in Requests /\ request[q].post = p /\ r.post = p
       /\ request' = [request EXCEPT ![q] = r] /\ k \in EngagedAt /\ l \in EngagedAt
  BY <1>2, <1>3, <1>5, <1>7, <1>8, <1>9
<1>. QED
  BY ONLY OneUp, FlowTypes, PostInv, <1>11, <1>12, RequestKeeps

-----------------------------------------------------------------------------
(* Time, and the targets of those who work for a job or a request. *)

LEMMA WaitingKeeps ==
  ASSUME PostInv, UNCHANGED <<post, platform, lost, pc, request, reviewing>>,
         \A b \in Actors : /\ loc'[b].cur = loc[b].cur /\ loc'[b].tgt = loc[b].tgt
                           /\ loc'[b].err = loc[b].err,
         \A j \in Jobs : /\ job'[j].status = job[j].status /\ job'[j].post = job[j].post
                         /\ job'[j].lastError = job[j].lastError
  PROVE  PostInv'
<1>1. /\ UNCHANGED <<post, platform, lost, pc, request, reviewing>>
      /\ \A b \in Actors : /\ loc'[b].cur = loc[b].cur /\ loc'[b].tgt = loc[b].tgt
                           /\ loc'[b].err = loc[b].err
  OBVIOUS
<1>2. \A j \in Jobs : /\ job'[j].status = job[j].status /\ job'[j].post = job[j].post
                      /\ job'[j].lastError = job[j].lastError
  OBVIOUS
<1>3. ASSUME NEW q  PROVE Untouched(q)
  <2>1. LiveJobs(q)' = LiveJobs(q) /\ Terminals(q)' = Terminals(q)
    BY <1>2 DEF LiveJobs, Terminals
  <2>2. Pending(q)' = Pending(q)  BY <1>1 DEF Pending
  <2>3. Callers(q)' = Callers(q)  BY <1>1 DEF Callers
  <2>4. \A b \in Callers(q) : pc'[b] = pc[b] /\ loc'[b].cur = loc[b].cur
    BY <1>1 DEF Callers
  <2>. QED  BY <1>1, <2>1, <2>2, <2>3, <2>4 DEF Untouched, Calm
<1>4. \A b \in Actors : \A q : Engaged(b, q)' <=> Engaged(b, q)
  BY <1>1 DEF Engaged
<1>5. ASSUME NEW q \in Posts, \A b \in Actors : ~Engaged(b, q)'  PROVE Settled(q)'
  <2>1. Settled(q)  BY <1>4, <1>5 DEF PostInv
  <2>. QED  BY <1>3, <2>1, SettledStays
<1>6. ASSUME NEW q \in Posts, NEW b \in Actors, Engaged(b, q)'
      PROVE  Hand(b, pc[b], loc[b], q)'
  <2>1. PICK l, y, x : l = pc[b] /\ y = loc[b] /\ x = loc'[b]  OBVIOUS
  <2>2. l \in EngagedAt /\ Hand(b, l, y, q)
    BY <1>4, <1>6, <2>1 DEF PostInv, Engaged
  <2>3. Untouched(q)  BY <1>3
  <2>4. Hand(b, l, x, q)'
    BY <1>1, <2>1, <2>2, <2>3, UntouchedHandStays
  <2>5. pc'[b] = l /\ loc'[b] = x  BY <1>1, <2>1
  <2>. QED  BY <2>4, <2>5 DEF Hand, Works
<1>. QED  BY <1>5, <1>6 DEF PostInv

LEMMA TickKeeps ==
  ASSUME FlowTypes, PostInv, UNCHANGED approval, Tick
  PROVE  PostInv'
<1>1. /\ UNCHANGED <<post, platform, lost, pc, request, reviewing>>
      /\ \A b \in Actors : /\ loc'[b].cur = loc[b].cur /\ loc'[b].tgt = loc[b].tgt
                           /\ loc'[b].err = loc[b].err
  BY DEF Tick, sns, approval, FlowTypes, TypeInv, Typed, Locals
<1>2. \A j \in Jobs : /\ job'[j].status = job[j].status /\ job'[j].post = job[j].post
                      /\ job'[j].lastError = job[j].lastError
  BY DEF Tick, Aged, FlowTypes, TypeInv, Typed, Rows
<1>. QED  BY <1>1, <1>2, WaitingKeeps

\* The post of a job, or of a request, never changes.
PostsFixed ==
    /\ \A j \in Jobs : job[j].status # "absent" => job'[j].post = job[j].post
    /\ \A r \in Requests : request[r].status # "absent" => request'[r].post = request[r].post

LEMMA RewrittenPost ==
  ASSUME job \in [Jobs -> Rows], NEW k, NEW r, r.post = job[k].post, SetJob(k, r)
  PROVE  \A j \in Jobs : job'[j].post = job[j].post
BY DEF SetJob

LEMMA JobPostsFixed ==
  ASSUME TypeInv, Next
  PROVE  \A j \in Jobs : job[j].status # "absent" => job'[j].post = job[j].post
<1>0. job \in [Jobs -> Rows]  BY DEF TypeInv, Typed
<1>. DEFINE Kept == \A j \in Jobs : job'[j].post = job[j].post
<1>1. ASSUME NEW w \in Workers, \/ Lock(w) \/ MarkRunning(w) \/ SucceedJob(w)
                                \/ RetryJob(w) \/ FailJob(w)
      PROVE  Kept
  <2>1. w \in Actors  BY DEF Actors
  <2>2. CASE Lock(w)
    <3>1. PICK k \in loc[w].cand :
             SetJob(k, [job[k] EXCEPT !.status = "locked", !.lockedFor = 0])
      BY <2>2 DEF Lock
    <3>2. k \in Jobs  BY <2>1 DEF TypeInv, Typed, Locals
    <3>3. [job[k] EXCEPT !.status = "locked", !.lockedFor = 0].post = job[k].post
      BY <1>0, <3>2 DEF Rows
    <3>. QED  BY <1>0, <3>1, <3>3, RewrittenPost
  <2>3. CASE \/ MarkRunning(w) \/ SucceedJob(w) \/ RetryJob(w) \/ FailJob(w)
    <3>1. PICK k : k = loc[w].cur  OBVIOUS
    <3>2. k \in Jobs
      BY <2>1, <2>3, <3>1 DEF MarkRunning, SucceedJob, RetryJob, FailJob, Turn, TypeInv,
         LocalsOK, LocalsAt, Executing
    <3>3. job[k] \in Rows  BY <1>0, <3>2
    <3>4. CASE MarkRunning(w)
      <4>. DEFINE r == [job[k] EXCEPT !.status = "running", !.attemptCount = loc[w].attempt]
      <4>1. SetJob(k, r)  BY <3>1, <3>4 DEF MarkRunning
      <4>2. r.post = job[k].post  BY <3>3 DEF Rows
      <4>. QED  BY ONLY <1>0, <4>1, <4>2, RewrittenPost
    <3>5. CASE SucceedJob(w)
      <4>. DEFINE r == [job[k] EXCEPT !.status = "succeeded", !.lockedFor = 0,
                                      !.nextRetryIn = 0, !.lastError = "null"]
      <4>1. SetJob(k, r)  BY <3>1, <3>5 DEF SucceedJob
      <4>2. r.post = job[k].post  BY <3>3 DEF Rows
      <4>. QED  BY ONLY <1>0, <4>1, <4>2, RewrittenPost
    <3>6. CASE RetryJob(w)
      <4>. DEFINE r == [job[k] EXCEPT !.status = "retrying", !.lockedFor = 0,
                                      !.nextRetryIn = BackoffFor(loc[w].attempt),
                                      !.lastError = "retryable"]
      <4>1. SetJob(k, r)  BY <3>1, <3>6 DEF RetryJob
      <4>2. r.post = job[k].post  BY <3>3 DEF Rows
      <4>. QED  BY ONLY <1>0, <4>1, <4>2, RewrittenPost
    <3>7. CASE FailJob(w)
      <4>. DEFINE r == [job[k] EXCEPT !.status = "failed", !.lockedFor = 0,
                                      !.nextRetryIn = 0, !.lastError = "terminal"]
      <4>1. SetJob(k, r)  BY <3>1, <3>7 DEF FailJob
      <4>2. r.post = job[k].post  BY <3>3 DEF Rows
      <4>. QED  BY ONLY <1>0, <4>1, <4>2, RewrittenPost
    <3>. QED  BY <2>3, <3>4, <3>5, <3>6, <3>7
  <2>. QED  BY <1>1, <2>2, <2>3
<1>2. ASSUME NEW c \in Clients, Reschedule(c) \/ CancelJob(c)
      PROVE  Kept
  <2>1. c \in Actors  BY DEF Actors
  <2>2. PICK k : k = loc[c].cur  OBVIOUS
  <2>3. k \in Jobs
    BY <1>2, <2>1, <2>2 DEF Reschedule, CancelJob, Turn, TypeInv, LocalsOK, LocalsAt
  <2>4. job[k] \in Rows  BY <1>0, <2>3
  <2>5. CASE Reschedule(c)
    <3>. DEFINE r == [job[k] EXCEPT !.status = "pending", !.lockedFor = 0,
                                    !.scheduledIn = loc[c].delay, !.nextRetryIn = 0]
    <3>1. SetJob(k, r)  BY <2>2, <2>5 DEF Reschedule
    <3>2. r.post = job[k].post  BY <2>4 DEF Rows
    <3>. QED  BY ONLY <1>0, <3>1, <3>2, RewrittenPost
  <2>6. CASE CancelJob(c)
    <3>. DEFINE r == [job[k] EXCEPT !.status = "failed", !.lastError = "canceled_by_user"]
    <3>1. SetJob(k, r)  BY <2>2, <2>6 DEF CancelJob
    <3>2. r.post = job[k].post  BY <2>4 DEF Rows
    <3>. QED  BY ONLY <1>0, <3>1, <3>2, RewrittenPost
  <2>. QED  BY <1>2, <2>5, <2>6
<1>3. ASSUME NEW c \in Clients, CreateJob(c)
      PROVE  \A j \in Jobs : job[j].status # "absent" => job'[j].post = job[j].post
  BY <1>3 DEF CreateJob, Slots, SetJob, TypeInv, Typed
<1>4. CASE Tick
  BY <1>4 DEF Tick, Aged, TypeInv, Typed, Rows
<1>. QED  BY <1>1, <1>2, <1>3, <1>4, JobWriters

LEMMA RequestPostsFixed ==
  ASSUME FlowTypes, NEW c \in Clients, AskStep(c) \/ ReviewStep(c)
  PROVE  PostsFixed
<1>1. UNCHANGED job  BY FlowFrame
<1>2. CASE CreateRequest(c)
  BY <1>1, <1>2 DEF CreateRequest, Free, PostsFixed, FlowTypes
<1>3. CASE ApproveRequest(c) \/ RejectRequest(c)
  BY <1>1, <1>3 DEF ApproveRequest, RejectRequest, Decide, PostsFixed, FlowTypes, RequestRows
<1>4. CASE \/ Ask(c) \/ HoldPost(c) \/ StartApprove(c) \/ StartReject(c) \/ ExecutorLoad(c)
           \/ ExecutorReset(c) \/ RejectRead(c) \/ RejectDraft(c)
  BY <1>1, <1>4 DEF Ask, HoldPost, StartApprove, StartReject, StartReview, ExecutorLoad,
     ExecutorReset, RejectRead, RejectDraft, approval, PostsFixed
<1>. QED  BY <1>2, <1>3, <1>4 DEF AskStep, ReviewStep

\* Actor a goes to l with locals x, and if it works for a job or a request
\* there, it did so before or has just read the post of the one it works for.
SameJob(a, x) == x.cur = loc[a].cur /\ x.tgt = loc[a].tgt
ReadJob(x) == x.cur \in Jobs /\ job[x.cur].status # "absent" /\ x.tgt = job[x.cur].post

Aims(a, l, x) ==
    /\ pc' = [pc EXCEPT ![a] = l] /\ loc' = [loc EXCEPT ![a] = x]
    /\ a \in Workers /\ l \in Executing => ReadJob(x) \/ (pc[a] \in Executing /\ SameJob(a, x))
    /\ a \in Clients /\ l \in Canceling => ReadJob(x) \/ (pc[a] \in Canceling /\ SameJob(a, x))

LEMMA AimsKeep ==
  ASSUME FlowTypes, ExecutionInv, RowInv, ReviewInv, TargetsOK, PostsFixed,
         NEW a \in Actors, NEW l, NEW x, Aims(a, l, x),
         \A c \in Clients : pc'[c] \in {"approve", "reject"} =>
            \/ /\ pc[c] \in {"approve", "reject"} /\ reviewing'[c] = reviewing[c]
               /\ loc'[c].tgt = loc[c].tgt
            \/ /\ reviewing'[c] \in Requests /\ request[reviewing'[c]].status = "pending"
               /\ loc'[c].tgt = request[reviewing'[c]].post
  PROVE  TargetsOK'
<1>1. /\ pc'[a] = l /\ loc'[a] = x
      /\ \A b \in Actors \ {a} : pc'[b] = pc[b] /\ loc'[b] = loc[b]
  BY DEF FlowTypes, TypeInv, Typed, Aims
<1>2. ASSUME NEW y, ReadJob(y)  PROVE y.tgt = job'[y.cur].post
  BY <1>2 DEF ReadJob, PostsFixed
<1>3. ASSUME NEW w \in Workers, pc[w] \in Executing  PROVE ReadJob(loc[w])
  <2>1. w \in Actors  BY DEF Actors
  <2>2. loc[w].cur \in Jobs /\ loc[w].tgt = job[loc[w].cur].post
    BY <1>3, <2>1 DEF FlowTypes, TypeInv, LocalsOK, LocalsAt, TargetsOK
  <2>3. pc[w] = "markRunning" \/ pc[w] \in Past  BY <1>3 DEF Past
  <2>4. job[loc[w].cur].status \in {"locked", "running", "failed"}
    BY <2>3 DEF RowInv, OwnRows, ExecutionInv, Held
  <2>. QED  BY <2>2, <2>4 DEF ReadJob
<1>4. ASSUME NEW c \in Clients, pc[c] \in Canceling  PROVE ReadJob(loc[c])
  <2>1. c \in Actors  BY DEF Actors
  <2>2. loc[c].cur \in Jobs /\ loc[c].tgt = job[loc[c].cur].post
    BY <1>4, <2>1 DEF FlowTypes, TypeInv, LocalsOK, LocalsAt, TargetsOK, Canceling
  <2>3. job[loc[c].cur].status \in Waiting \cup {"failed"}
    BY <1>4 DEF RowInv, CancelFresh
  <2>. QED  BY <2>2, <2>3 DEF ReadJob, Waiting
<1>5. ASSUME NEW w \in Workers, pc'[w] \in Executing
      PROVE  loc'[w].tgt = job'[loc'[w].cur].post
  <2>1. w \in Actors  BY DEF Actors
  <2>2. PICK y : y = loc'[w]  OBVIOUS
  <2>3. ReadJob(y)
    <3>1. CASE w = a
      BY <1>1, <1>3, <1>5, <2>2, <3>1 DEF Aims, ReadJob, SameJob
    <3>2. CASE w # a  BY <1>1, <1>3, <1>5, <2>1, <2>2, <3>2
    <3>. QED  BY <3>1, <3>2
  <2>. QED  BY <1>2, <2>2, <2>3
<1>6. ASSUME NEW c \in Clients, pc'[c] \in Canceling
      PROVE  loc'[c].tgt = job'[loc'[c].cur].post
  <2>1. c \in Actors  BY DEF Actors
  <2>2. PICK y : y = loc'[c]  OBVIOUS
  <2>3. ReadJob(y)
    <3>1. CASE c = a
      BY <1>1, <1>4, <1>6, <2>2, <3>1 DEF Aims, ReadJob, SameJob
    <3>2. CASE c # a  BY <1>1, <1>4, <1>6, <2>1, <2>2, <3>2
    <3>. QED  BY <3>1, <3>2
  <2>. QED  BY <1>2, <2>2, <2>3
<1>7. ASSUME NEW c \in Clients, pc'[c] \in {"approve", "reject"}
      PROVE  loc'[c].tgt = request'[reviewing'[c]].post
  <2>1. PICK r : r = reviewing'[c]  OBVIOUS
  <2>2. r \in Requests /\ request[r].status = "pending" /\ loc'[c].tgt = request[r].post
    BY <1>7, <2>1 DEF ReviewInv, ReviewsPending, TargetsOK
  <2>3. request'[r].post = request[r].post  BY <2>2 DEF PostsFixed
  <2>. QED  BY <2>1, <2>2, <2>3
<1>. QED  BY <1>5, <1>6, <1>7 DEF TargetsOK

\* Every statement of a dispatcher, of a request and of a publication aims
\* well, and none of them starts a review.
QueueAims(a) == \E l, x : Aims(a, l, x) /\ l \notin {"approve", "reject"}

LEMMA WorkerAims ==
  ASSUME FlowTypes, NEW w \in Workers, WorkerStep(w)
  PROVE  QueueAims(w)
<1>1. /\ w \in Actors /\ w \notin Clients
      /\ loc = [loc EXCEPT ![w] = loc[w]]
      /\ loc[w] \in Locals /\ NoLocals \in Locals
  BY ActorsAssumption, NoLocalsType DEF Actors, FlowTypes, TypeInv, Typed
<1>2. ASSUME NextCandidate(w)  PROVE QueueAims(w)
  <2>1. PICK l : l = IF loc[w].cand = {} THEN "idle" ELSE "batch"  OBVIOUS
  <2>2. PICK x : x = [NoLocals EXCEPT !.cand = loc[w].cand]  OBVIOUS
  <2>3. pc' = [pc EXCEPT ![w] = l] /\ loc' = [loc EXCEPT ![w] = x]
    BY <1>2, <2>1, <2>2 DEF NextCandidate, Goto, SetLocals
  <2>4. Aims(w, l, x)  BY <1>1, <2>1, <2>3 DEF Aims, Executing, Publishing
  <2>. QED  BY <2>1, <2>4 DEF QueueAims
<1>3. CASE Scan(w) \/ Skip(w)
  <2>1. PICK l, x : /\ l \in {"idle", "batch"}
                    /\ pc' = [pc EXCEPT ![w] = l] /\ loc' = [loc EXCEPT ![w] = x]
    BY <1>3 DEF Scan, Skip, Goto, SetLocals
  <2>. QED  BY <1>1, <2>1 DEF QueueAims, Aims, Executing, Publishing
<1>4. CASE Lock(w)
  <2>1. PICK j \in loc[w].cand :
           /\ Lockable(j)
           /\ SetLocals(w, [loc[w] EXCEPT !.cand = @ \ {j}, !.cur = j,
                                          !.tgt = job[j].post,
                                          !.attempt = job[j].attemptCount + 1])
    BY <1>4 DEF Lock
  <2>2. PICK x : x = [loc[w] EXCEPT !.cand = @ \ {j}, !.cur = j,
                                    !.tgt = job[j].post,
                                    !.attempt = job[j].attemptCount + 1]
    OBVIOUS
  <2>3. j \in Jobs  BY <1>1 DEF Locals
  <2>4. x.cur = j /\ x.tgt = job[j].post  BY <1>1, <2>2 DEF Locals
  <2>5. job[j].status # "absent"  BY <2>1 DEF Lockable, Waiting
  <2>6. pc' = [pc EXCEPT ![w] = "markRunning"] /\ loc' = [loc EXCEPT ![w] = x]
    BY <1>4, <2>1, <2>2 DEF Lock, Goto, SetLocals
  <2>7. ReadJob(x)  BY <2>3, <2>4, <2>5 DEF ReadJob
  <2>8. Aims(w, "markRunning", x)  BY <1>1, <2>6, <2>7 DEF Aims
  <2>. QED  BY <2>8 DEF QueueAims
<1>5. CASE MarkRunning(w) \/ LoadPost(w) \/ ResetPost(w) \/ FailJob(w)
  <2>1. PICK l : /\ l \notin {"approve", "reject"} /\ pc[w] \in Executing
                 /\ pc' = [pc EXCEPT ![w] = l] /\ loc' = loc
    BY <1>5 DEF MarkRunning, LoadPost, ResetPost, FailJob, Turn, Goto, Executing, Publishing
  <2>2. PICK x : x = loc[w]  OBVIOUS
  <2>3. SameJob(w, x) /\ loc' = [loc EXCEPT ![w] = x]  BY <1>1, <2>1, <2>2 DEF SameJob
  <2>4. Aims(w, l, x)  BY <1>1, <2>1, <2>3 DEF Aims
  <2>. QED  BY <2>1, <2>4 DEF QueueAims
<1>6. CASE SucceedJob(w) \/ RetryJob(w) \/ FailPost(w)
  BY <1>2, <1>6 DEF SucceedJob, RetryJob, FailPost
<1>. QED  BY <1>3, <1>4, <1>5, <1>6 DEF WorkerStep, ExecuteStep

LEMMA RequestAims ==
  ASSUME FlowTypes, NEW c \in Clients, RequestStart(c) \/ RequestStep(c)
  PROVE  QueueAims(c)
<1>1. /\ c \in Actors /\ c \notin Workers
      /\ loc = [loc EXCEPT ![c] = loc[c]]
      /\ loc[c] \in Locals /\ NoLocals \in Locals
  BY ActorsAssumption, NoLocalsType DEF Actors, FlowTypes, TypeInv, Typed
<1>2. CASE StartCancel(c)
  <2>1. PICK j \in Jobs :
           /\ job[j].status \in Waiting \cup {"failed"}
           /\ SetLocals(c, [NoLocals EXCEPT !.cur = j, !.tgt = job[j].post])
    BY <1>2 DEF StartCancel
  <2>2. PICK x : x = [NoLocals EXCEPT !.cur = j, !.tgt = job[j].post]  OBVIOUS
  <2>3. x.cur = j /\ x.tgt = job[j].post  BY <2>2 DEF NoLocals
  <2>4. ReadJob(x)  BY <2>1, <2>3 DEF ReadJob, Waiting
  <2>5. pc' = [pc EXCEPT ![c] = "cancelRead"] /\ loc' = [loc EXCEPT ![c] = x]
    BY <1>2, <2>1, <2>2 DEF StartCancel, Goto, SetLocals
  <2>6. Aims(c, "cancelRead", x)  BY <1>1, <2>4, <2>5 DEF Aims
  <2>. QED  BY <2>6 DEF QueueAims
<1>3. CASE CancelRead(c) \/ CancelDraft(c)
  <2>1. PICK l : /\ l \notin {"approve", "reject"} /\ pc[c] \in Canceling
                 /\ pc' = [pc EXCEPT ![c] = l] /\ loc' = loc
    BY <1>3 DEF CancelRead, CancelDraft, Turn, Goto, Canceling
  <2>2. PICK x : x = loc[c]  OBVIOUS
  <2>3. SameJob(c, x) /\ loc' = [loc EXCEPT ![c] = x]  BY <1>1, <2>1, <2>2 DEF SameJob
  <2>4. Aims(c, l, x)  BY <1>1, <2>1, <2>3 DEF Aims
  <2>. QED  BY <2>1, <2>4 DEF QueueAims
<1>4. CASE \/ StartSchedule(c) \/ StartReschedule(c) \/ StartPublish(c) \/ StartDelete(c)
           \/ SchedulePost(c) \/ CreateJob(c) \/ Reschedule(c) \/ CancelJob(c)
           \/ DeleteAnswered(c) \/ Delete(c)
  <2>1. PICK l, x : /\ l \notin {"approve", "reject"} \cup Canceling
                    /\ pc' = [pc EXCEPT ![c] = l] /\ loc' = [loc EXCEPT ![c] = x]
    BY <1>1, <1>4 DEF StartSchedule, StartReschedule, StartPublish, StartDelete,
       SchedulePost, CreateJob, Reschedule, CancelJob, DeleteAnswered, Delete, Respond,
       Goto, SetLocals, Canceling
  <2>. QED  BY <1>1, <2>1 DEF QueueAims, Aims
<1>. QED  BY <1>2, <1>3, <1>4 DEF RequestStart, RequestStep

LEMMA PublicationAims ==
  ASSUME FlowTypes, NEW a \in Actors, PublishStep(a) \/ ProviderStep(a)
  PROVE  QueueAims(a)
<1>1. /\ loc = [loc EXCEPT ![a] = loc[a]] /\ loc[a] \in Locals
      /\ a \in Workers <=> a \notin Clients
  BY ActorsAssumption DEF Actors, FlowTypes, TypeInv, Typed
<1>2. pc[a] \in Publishing
  BY DEF PublishStep, ProviderStep, Publish, NoAccount, MarkPublishing, RecordPublished,
     RecordFailed, Accept, Reject, Reply, LoseReply, Turn, Publishing
<1>3. pc[a] \in Executing  BY <1>2 DEF Executing
<1>4. \A class : LET x == [loc[a] EXCEPT !.err = class]
                 IN  x.cur = loc[a].cur /\ x.tgt = loc[a].tgt
  BY <1>1 DEF Locals
<1>5. ASSUME NEW l, NEW x, l \notin {"approve", "reject"} \cup Canceling,
             l = "idle" \/ SameJob(a, x),
             pc' = [pc EXCEPT ![a] = l], loc' = [loc EXCEPT ![a] = x]
      PROVE  QueueAims(a)
  <2>1. Aims(a, l, x)  BY <1>1, <1>3, <1>5 DEF Aims, Executing, Publishing
  <2>. QED  BY <1>5, <2>1 DEF QueueAims
<1>6. SameJob(a, loc[a])  BY DEF SameJob
<1>7. ASSUME NEW class, Throw(a, class)  PROVE QueueAims(a)
  <2>1. CASE a \in Workers
    <3>1. PICK x : x = [loc[a] EXCEPT !.err = class]  OBVIOUS
    <3>2. SameJob(a, x)  BY <1>4, <3>1 DEF SameJob
    <3>3. pc' = [pc EXCEPT ![a] = "failJob"] /\ loc' = [loc EXCEPT ![a] = x]
      BY <1>7, <2>1, <3>1 DEF Throw, Goto, SetLocals
    <3>. QED  BY <1>5, <3>2, <3>3 DEF Canceling
  <2>2. CASE a \notin Workers
    <3>1. pc' = [pc EXCEPT ![a] = "idle"] /\ loc' = [loc EXCEPT ![a] = NoLocals]
      BY <1>7, <2>2 DEF Throw, Respond, Goto, SetLocals
    <3>. QED  BY <1>5, <3>1 DEF Canceling
  <2>. QED  BY <2>1, <2>2
<1>8. CASE ReturnPublished(a)
  <2>1. CASE a \in Workers
    BY <1>1, <1>5, <1>6, <1>8, <2>1 DEF ReturnPublished, Goto, Canceling
  <2>2. CASE a \notin Workers
    <3>1. pc' = [pc EXCEPT ![a] = "idle"] /\ loc' = [loc EXCEPT ![a] = NoLocals]
      BY <1>8, <2>2 DEF ReturnPublished, Respond, Goto, SetLocals
    <3>. QED  BY <1>5, <3>1 DEF Canceling
  <2>. QED  BY <2>1, <2>2
<1>9. CASE Publish(a) \/ NoAccount(a) \/ MarkPublishing(a) \/ RecordFailed(a)
  <2>1. (\E class : Throw(a, class)) \/ (\E l \in {"markPublishing", "calling"} :
            pc' = [pc EXCEPT ![a] = l] /\ loc' = loc)
    BY <1>9 DEF Publish, NoAccount, MarkPublishing, RecordFailed, Goto
  <2>. QED  BY <1>1, <1>5, <1>6, <1>7, <2>1 DEF Canceling
<1>10. CASE RecordPublished(a)  BY <1>8, <1>10 DEF RecordPublished
<1>11. CASE Accept(a) \/ Reply(a)
  <2>1. \E l \in {"accepted", "recordPublished"} : pc' = [pc EXCEPT ![a] = l] /\ loc' = loc
    BY <1>11 DEF Accept, Reply, Goto
  <2>. QED  BY <1>1, <1>5, <1>6, <2>1 DEF Canceling
<1>12. CASE Reject(a) \/ LoseReply(a)
  <2>1. \/ \E class : Throw(a, class)
        \/ \E class : /\ loc' = [loc EXCEPT ![a] = [loc[a] EXCEPT !.err = class]]
                       /\ pc' = [pc EXCEPT ![a] = "recordFailed"]
    BY <1>12 DEF Reject, LoseReply, Goto, SetLocals
  <2>4. CASE \E class : Throw(a, class)
    BY <1>7, <2>4
  <2>5. ASSUME NEW class, loc' = [loc EXCEPT ![a] = [loc[a] EXCEPT !.err = class]],
               pc' = [pc EXCEPT ![a] = "recordFailed"]
        PROVE  QueueAims(a)
    <3>1. PICK x : x = [loc[a] EXCEPT !.err = class]  OBVIOUS
    <3>2. SameJob(a, x)  BY <1>4, <3>1 DEF SameJob
    <3>. QED  BY <1>5, <2>5, <3>1, <3>2 DEF Canceling
  <2>. QED  BY <2>1, <2>4, <2>5
<1>. QED  BY <1>9, <1>10, <1>11, <1>12 DEF PublishStep, ProviderStep

\* A step of the queue that aims well keeps the targets.
LEMMA QueueTargets ==
  ASSUME FlowTypes, ExecutionInv, RowInv, ReviewInv, TargetsOK, PostsFixed,
         NEW a \in Actors, QueueAims(a), UNCHANGED approval
  PROVE  TargetsOK'
<1>1. PICK l, x : Aims(a, l, x) /\ l \notin {"approve", "reject"}  BY DEF QueueAims
<1>2. ASSUME NEW c \in Clients, pc'[c] \in {"approve", "reject"}
      PROVE  /\ pc[c] \in {"approve", "reject"} /\ reviewing'[c] = reviewing[c]
             /\ loc'[c].tgt = loc[c].tgt
  <2>1. c \in Actors  BY DEF Actors
  <2>2. pc'[a] = l  BY <1>1 DEF Aims, FlowTypes, TypeInv, Typed
  <2>3. c # a  BY <1>1, <1>2, <2>2
  <2>4. pc'[c] = pc[c] /\ loc'[c] = loc[c]
    BY <1>1, <2>1, <2>3 DEF Aims, FlowTypes, TypeInv, Typed
  <2>. QED  BY <1>2, <2>4 DEF approval
<1>. QED  BY <1>1, <1>2, AimsKeep

\* So do the requests of this module: one that starts a review has read the
\* post of a pending request.
LEMMA FlowTargets ==
  ASSUME FlowTypes, ExecutionInv, RowInv, ReviewInv, TargetsOK, PostsFixed,
         NEW c \in Clients, AskStep(c) \/ ReviewStep(c)
  PROVE  TargetsOK'
<1>1. /\ c \in Actors /\ c \notin Workers
      /\ pc = [b \in Actors |-> pc[b]]
      /\ loc = [loc EXCEPT ![c] = loc[c]] /\ loc \in [Actors -> Locals]
  BY ActorsAssumption DEF Actors, FlowTypes, TypeInv, Typed
<1>2. ASSUME NEW l, NEW x, pc' = [pc EXCEPT ![c] = l], loc' = [loc EXCEPT ![c] = x],
             l \notin Canceling,
             \A d \in Clients : reviewing'[d] = reviewing[d] \/ d = c,
             l \in {"approve", "reject"} =>
                /\ reviewing'[c] \in Requests /\ request[reviewing'[c]].status = "pending"
                /\ x.tgt = request[reviewing'[c]].post
      PROVE  TargetsOK'
  <2>1. Aims(c, l, x)  BY <1>1, <1>2 DEF Aims
  <2>2. pc'[c] = l /\ loc'[c] = x  BY <1>1, <1>2
  <2>3. ASSUME NEW d \in Clients, pc'[d] \in {"approve", "reject"}
        PROVE  \/ /\ pc[d] \in {"approve", "reject"} /\ reviewing'[d] = reviewing[d]
                  /\ loc'[d].tgt = loc[d].tgt
               \/ /\ reviewing'[d] \in Requests /\ request[reviewing'[d]].status = "pending"
                  /\ loc'[d].tgt = request[reviewing'[d]].post
    <3>1. d \in Actors  BY DEF Actors
    <3>2. CASE d = c  BY <1>2, <2>2, <2>3, <3>2
    <3>3. CASE d # c
      <4>1. pc'[d] = pc[d] /\ loc'[d] = loc[d]  BY <1>1, <1>2, <3>1, <3>3
      <4>. QED  BY <1>2, <2>3, <3>3, <4>1
    <3>. QED  BY <3>2, <3>3
  <2>. QED  BY <1>1, <2>1, <2>3, AimsKeep
<1>3. CASE StartApprove(c) \/ StartReject(c)
  <2>1. PICK r \in Requests, l \in {"approve", "reject"} :
           request[r].status = "pending" /\ StartReview(c, r, l)
    BY <1>3 DEF StartApprove, StartReject
  <2>2. PICK x : x = [NoLocals EXCEPT !.tgt = request[r].post]  OBVIOUS
  <2>3. x.tgt = request[r].post  BY <2>2 DEF NoLocals
  <2>4. /\ pc' = [pc EXCEPT ![c] = l] /\ loc' = [loc EXCEPT ![c] = x]
        /\ reviewing' = [reviewing EXCEPT ![c] = r]
    BY <2>1, <2>2 DEF StartReview, Goto, SetLocals
  <2>5. /\ reviewing'[c] = r
        /\ \A d \in Clients : reviewing'[d] = reviewing[d] \/ d = c
    BY <2>4 DEF FlowTypes
  <2>6. l \notin Canceling  BY DEF Canceling
  <2>. QED  BY <1>2, <2>1, <2>3, <2>4, <2>5, <2>6
<1>4. CASE \/ Ask(c) \/ CreateRequest(c) \/ HoldPost(c) \/ ApproveRequest(c)
           \/ ExecutorLoad(c) \/ ExecutorReset(c) \/ RejectRequest(c) \/ RejectRead(c)
           \/ RejectDraft(c)
  <2>1. \A d \in Clients : reviewing'[d] = reviewing[d] \/ d = c
    BY <1>4 DEF Ask, CreateRequest, HoldPost, ApproveRequest, ExecutorLoad, ExecutorReset,
       RejectRequest, RejectRead, RejectDraft, ForgetReview, approval, FlowTypes
  <2>2. \E l : /\ pc' = [pc EXCEPT ![c] = l]
               /\ l \notin {"approve", "reject"} \cup Canceling
    BY <1>4 DEF Ask, CreateRequest, HoldPost, ApproveRequest, ExecutorLoad, ExecutorReset,
       RejectRequest, RejectRead, RejectDraft, Respond, Goto, Canceling
  <2>3. \E x : loc' = [loc EXCEPT ![c] = x]
    BY <1>1, <1>4 DEF Ask, CreateRequest, HoldPost, ApproveRequest, ExecutorLoad,
       ExecutorReset, RejectRequest, RejectRead, RejectDraft, Respond, SetLocals
  <2>. QED  BY <1>2, <2>1, <2>2, <2>3
<1>. QED  BY <1>3, <1>4 DEF AskStep, ReviewStep

LEMMA StepTargets ==
  ASSUME OneUp, FlowTypes, ExecutionInv, RowInv, ReviewInv, TargetsOK, ApprovalNext
  PROVE  TargetsOK'
<1>1. CASE \E c \in Clients : AskStep(c) \/ ReviewStep(c)
  BY <1>1, RequestPostsFixed, FlowTargets
<1>2. CASE Next /\ UNCHANGED approval
  <2>1. PostsFixed
    BY <1>2, JobPostsFixed DEF PostsFixed, FlowTypes, approval
  <2>2. CASE \E w \in Workers : WorkerStep(w)
    BY <1>2, <2>1, <2>2, WorkerAims, QueueTargets DEF Actors
  <2>3. CASE \E c \in Clients : RequestStart(c) \/ RequestStep(c)
    BY <1>2, <2>1, <2>3, RequestAims, QueueTargets DEF Actors
  <2>4. CASE \E a \in Actors : PublishStep(a) \/ ProviderStep(a)
    BY <1>2, <2>1, <2>4, PublicationAims, QueueTargets
  <2>5. CASE Tick
    <3>1. \A b \in Actors : /\ pc'[b] = pc[b]
                            /\ loc'[b].cur = loc[b].cur /\ loc'[b].tgt = loc[b].tgt
      BY <2>5 DEF Tick, FlowTypes, TypeInv, Typed, Locals
    <3>2. \A j \in Jobs : job'[j].post = job[j].post
      BY <2>5 DEF Tick, Aged, FlowTypes, TypeInv, Typed, Rows
    <3>3. \A b \in Actors : pc[b] \in Executing \ Publishing \/ (b \in Workers /\ pc[b] \in Executing)
                              \/ (b \in Clients /\ pc[b] \in Canceling) => loc[b].cur \in Jobs
      BY DEF FlowTypes, TypeInv, LocalsOK, LocalsAt, Canceling, Actors
    <3>. QED  BY <1>2, <3>1, <3>2, <3>3 DEF TargetsOK, approval, Actors
  <2>6. CASE \E h \in Hosts : Crash(h)
    BY <2>6, BoundsAssumption DEF Crash, OneUp, FlowTypes, TypeInv, Typed
  <2>. QED  BY <1>2, <2>2, <2>3, <2>4, <2>5, <2>6 DEF Next
<1>. QED  BY <1>1, <1>2 DEF ApprovalNext

-----------------------------------------------------------------------------
(* The invariant of all steps together. *)

LEMMA OneUpIsSafe == OneUp => SafeCancels /\ OneApiProcess
BY DEF OneUp, SafeCancels, OneApiProcess, Actors

LEMMA StepPostInv ==
  ASSUME OneUp, FlowInv, ApprovalNext
  PROVE  PostInv'
<1>1. FlowTypes /\ ExecutionInv /\ RowInv /\ ReviewInv /\ PostInv /\ TargetsOK
  BY DEF FlowInv, QueueInv
<1>2. ASSUME NEW w \in Workers, WorkerStep(w), UNCHANGED approval  PROVE PostInv'
  <2>1. CASE Scan(w) \/ Skip(w)  BY <1>1, <1>2, <2>1, ScanKeeps
  <2>2. CASE Lock(w)  BY <1>1, <1>2, <2>2, LockKeeps
  <2>3. CASE MarkRunning(w)  BY <1>1, <1>2, <2>3, MarkRunningKeeps
  <2>4. CASE LoadPost(w)  BY <1>1, <1>2, <2>4, LoadPostKeeps
  <2>5. CASE ResetPost(w)  BY <1>1, <1>2, <2>5, ResetPostKeeps
  <2>6. CASE SucceedJob(w) \/ RetryJob(w)  BY <1>1, <1>2, <2>6, OutcomeKeeps
  <2>7. CASE FailJob(w)  BY <1>1, <1>2, <2>7, FailJobKeeps
  <2>8. CASE FailPost(w)  BY <1>1, <1>2, <2>8, FailPostKeeps
  <2>. QED  BY <1>2, <2>1, <2>2, <2>3, <2>4, <2>5, <2>6, <2>7, <2>8 DEF WorkerStep, ExecuteStep
<1>3. ASSUME NEW c \in Clients, RequestStart(c) \/ RequestStep(c), UNCHANGED approval
      PROVE  PostInv'
  <2>1. CASE StartSchedule(c) \/ StartPublish(c)  BY <1>1, <1>3, <2>1, StartsKeep
  <2>2. CASE StartReschedule(c) \/ StartCancel(c) \/ StartDelete(c) \/ DeleteAnswered(c)
    BY <1>1, <1>3, <2>2, LooksKeep
  <2>3. CASE SchedulePost(c) \/ CancelDraft(c)  BY <1>1, <1>3, <2>3, WritesKeep
  <2>4. CASE CancelRead(c)  BY <1>1, <1>3, <2>4, CancelReadKeeps
  <2>5. CASE Delete(c)  BY <1>1, <1>3, <2>5, DeleteKeeps
  <2>6. CASE CreateJob(c)  BY <1>1, <1>3, <2>6, CreateJobKeeps
  <2>7. CASE Reschedule(c)  BY <1>1, <1>3, <2>7, RescheduleKeeps
  <2>8. CASE CancelJob(c)  BY <1>1, <1>3, <2>8, CancelJobKeeps
  <2>. QED  BY <1>3, <2>1, <2>2, <2>3, <2>4, <2>5, <2>6, <2>7, <2>8 DEF RequestStart, RequestStep
<1>4. ASSUME NEW a \in Actors, PublishStep(a) \/ ProviderStep(a), UNCHANGED approval
      PROVE  PostInv'
  <2>1. CASE Publish(a) \/ NoAccount(a)  BY <1>1, <1>4, <2>1, PublishKeeps
  <2>2. CASE MarkPublishing(a)  BY <1>1, <1>4, <2>2, MarkPublishingKeeps
  <2>3. CASE RecordPublished(a) \/ RecordFailed(a)  BY <1>1, <1>4, <2>3, RecordKeeps
  <2>4. CASE Accept(a)  BY <1>1, <1>4, <2>4, AcceptKeeps
  <2>5. CASE Reject(a) \/ Reply(a) \/ LoseReply(a)  BY <1>1, <1>4, <2>5, ProviderAnswers
  <2>. QED  BY <1>4, <2>1, <2>2, <2>3, <2>4, <2>5 DEF PublishStep, ProviderStep
<1>5. ASSUME NEW c \in Clients, AskStep(c) \/ ReviewStep(c)  PROVE PostInv'
  <2>1. CASE Ask(c)  BY <1>1, <2>1, StartsKeep
  <2>2. CASE CreateRequest(c)  BY <1>1, <2>2, CreateRequestKeeps
  <2>3. CASE HoldPost(c)  BY <1>1, <2>3, DeleteKeeps
  <2>4. CASE StartApprove(c) \/ StartReject(c)  BY <1>1, <2>4, LooksKeep
  <2>5. CASE ApproveRequest(c) \/ RejectRequest(c)  BY <1>1, <2>5, DecideKeeps
  <2>6. CASE ExecutorLoad(c) \/ ExecutorReset(c) \/ RejectRead(c) \/ RejectDraft(c)
    BY <1>1, <2>6, WritesKeep
  <2>. QED  BY <1>5, <2>1, <2>2, <2>3, <2>4, <2>5, <2>6 DEF AskStep, ReviewStep
<1>6. ASSUME Tick, UNCHANGED approval  PROVE PostInv'
  BY <1>1, <1>6, TickKeeps
<1>7. ASSUME NEW h \in Hosts, Crash(h)  PROVE PostInv'
  BY <1>1, <1>7, BoundsAssumption DEF Crash, OneUp, FlowTypes, TypeInv, Typed
<1>. QED  BY <1>2, <1>3, <1>4, <1>5, <1>6, <1>7 DEF ApprovalNext, Next

LEMMA StepFlowInv == OneUp /\ FlowInv /\ [ApprovalNext]_allVars => FlowInv'
<1>. SUFFICES ASSUME OneUp, FlowInv, [ApprovalNext]_allVars  PROVE FlowInv'
  OBVIOUS
<1>1. QueueInv'  BY StepQueueInv, OneUpIsSafe DEF FlowInv
<1>2. ReviewInv'  BY ReviewStepKeeps, OneUpIsSafe DEF FlowInv
<1>3. CASE ApprovalNext
  <2>1. PostInv'  BY <1>3, StepPostInv
  <2>2. TargetsOK'  BY <1>3, StepTargets DEF FlowInv, QueueInv
  <2>. QED  BY <1>1, <1>2, <2>1, <2>2 DEF FlowInv
<1>4. CASE UNCHANGED allVars
  <2>1. UNCHANGED <<post, job, platform, lost, pc, loc, request, reviewing>>
    BY <1>4 DEF allVars, vars, approval
  <2>2. PostInv'  BY <2>1, WaitingKeeps DEF FlowInv
  <2>3. TargetsOK'  BY <2>1 DEF FlowInv, TargetsOK
  <2>. QED  BY <1>1, <1>2, <2>2, <2>3 DEF FlowInv
<1>. QED  BY <1>3, <1>4

LEMMA InitFlowInv == ApprovalInit => FlowInv
<1>. SUFFICES ASSUME ApprovalInit  PROVE FlowInv
  OBVIOUS
<1>1. QueueInv  BY InitQueueInv
<1>2. ReviewInv
  BY DEF ApprovalInit, Init, ReviewInv, Tables, ReviewsPending, Actors
<1>3. \A a \in Actors : pc[a] = "idle" /\ loc[a] = NoLocals
  BY DEF ApprovalInit, Init
<1>4. PostInv
  <2>1. ASSUME NEW p \in Posts  PROVE Settled(p)
    <3>1. LiveJobs(p) = {} /\ Terminals(p) = {}
      BY DEF ApprovalInit, Init, NoRow, LiveJobs, Terminals, Live, Waiting
    <3>2. Pending(p) = {}  BY DEF ApprovalInit, Pending
    <3>3. Callers(p) = {}  BY <1>3 DEF Callers, AtCall
    <3>4. Unsent(p) /\ post[p] = "draft"  BY DEF ApprovalInit, Init, Unsent
    <3>. QED  BY <3>1, <3>2, <3>3, <3>4 DEF Settled, Unclaimed, Claims
  <2>2. \A a \in Actors, p \in Posts : ~Engaged(a, p)
    BY <1>3 DEF Engaged, EngagedAt, ApprovalPCs
  <2>. QED  BY <2>1, <2>2 DEF PostInv
<1>5. TargetsOK
  BY <1>3 DEF TargetsOK, Executing, Publishing, Canceling, Actors
<1>. QED  BY <1>1, <1>2, <1>4, <1>5 DEF FlowInv

-----------------------------------------------------------------------------
(* What the invariant says of posts. *)

\* One claim at most, and no unrecorded publication beyond the lost ones.
Accounted(p) ==
    /\ Unsent(p) \/ Sent(p)
    /\ \E J : LiveJobs(p) = J /\ \A i, j \in J : i = j

LEMMA SettledAccounted ==
  ASSUME NEW p, Settled(p)
  PROVE  Accounted(p)
<1>1. (Unclaimed(p) \/ Out(p) \/ Parked(p)) => LiveJobs(p) = {}
  BY DEF Unclaimed, Out, Parked, Claims
<1>2. Queued(p) => \E j : LiveJobs(p) = {j}
  BY DEF Queued, Claims
<1>3. Called(p) => LiveJobs(p) = {} \/ \E j : LiveJobs(p) = {j}
  BY DEF Called, Claims, JobOf
<1>4. Unsent(p) \/ Sent(p)
  BY DEF Settled, Unclaimed, Out, Queued, Parked, Called
<1>5. Unclaimed(p) \/ Out(p) \/ Parked(p) \/ Queued(p) \/ Called(p)
  BY DEF Settled
<1>. QED  BY <1>1, <1>2, <1>3, <1>4, <1>5 DEF Accounted

LEMMA HandAccounted ==
  ASSUME NEW a, NEW l, NEW x, NEW p, Hand(a, l, x, p)
  PROVE  Accounted(p)
<1>1. CASE Settled(p)  BY <1>1, SettledAccounted
<1>2. CASE Works(a, l, x, p)
  BY <1>2 DEF Works, Claims, Own, Accounted
<1>3. CASE Parked(p)
  BY <1>3 DEF Parked, Claims, Accounted
<1>. QED  BY <1>1, <1>2, <1>3 DEF Hand

LEMMA PostsAccounted ==
  ASSUME PostInv, NEW p \in Posts
  PROVE  Accounted(p)
BY SettledAccounted, HandAccounted DEF PostInv

\* Between requests every post is settled, and a settled post has one claim.
LEMMA SettledClaim ==
  ASSUME NEW p, Settled(p)
  PROVE  /\ Cardinality(LiveJobs(p)) + Cardinality(Pending(p)) <= 1
         /\ post[p] = "scheduled" => LiveJobs(p) \cup Pending(p) # {}
         /\ post[p] = "draft" => LiveJobs(p) \cup Pending(p) = {}
<1>1. Cardinality({}) = 0 /\ \A e : Cardinality({e}) = 1
  BY FS_EmptySet, FS_Singleton
<1>2. \/ LiveJobs(p) = {} /\ Pending(p) = {}
      \/ LiveJobs(p) = {} /\ \E r : Pending(p) = {r}
      \/ Pending(p) = {} /\ \E j : LiveJobs(p) = {j}
  BY DEF Settled, Unclaimed, Out, Queued, Parked, Called, Claims, JobOf
<1>3. post[p] = "draft" => Unclaimed(p)  BY DEF Settled
<1>4. post[p] = "scheduled" => Queued(p) \/ Parked(p)  BY DEF Settled
<1>5. Unclaimed(p) => LiveJobs(p) \cup Pending(p) = {}  BY DEF Unclaimed, Claims
<1>6. Queued(p) \/ Parked(p) => LiveJobs(p) \cup Pending(p) # {}
  BY DEF Queued, Parked, Claims
<1>7. Cardinality(LiveJobs(p)) + Cardinality(Pending(p)) <= 1
  <2>1. CASE LiveJobs(p) = {} /\ Pending(p) = {}  BY <1>1, <2>1
  <2>2. CASE LiveJobs(p) = {} /\ \E r : Pending(p) = {r}  BY <1>1, <2>2
  <2>3. CASE Pending(p) = {} /\ \E j : LiveJobs(p) = {j}  BY <1>1, <2>3
  <2>. QED  BY <1>2, <2>1, <2>2, <2>3
<1>. QED  BY <1>3, <1>4, <1>5, <1>6, <1>7

LEMMA FlowSafety ==
  FlowInv => PublishedOnce /\ OneLiveJob /\ OneClaim
<1>. SUFFICES ASSUME FlowInv  PROVE PublishedOnce /\ OneLiveJob /\ OneClaim
  OBVIOUS
<1>0. PostInv  BY DEF FlowInv
<1>1. ASSUME NEW p \in Posts  PROVE platform[p] <= lost[p] + 1
  <2>1. platform[p] \in Nat /\ lost[p] \in Nat
    BY DEF FlowInv, QueueInv, FlowTypes, TypeInv, Typed
  <2>2. Unsent(p) \/ Sent(p)  BY <1>0, PostsAccounted DEF Accounted
  <2>. QED  BY <2>1, <2>2 DEF Unsent, Sent
<1>2. ASSUME NEW p \in Posts, NEW i \in LiveJobs(p), NEW j \in LiveJobs(p)  PROVE i = j
  BY <1>0, PostsAccounted DEF Accounted
<1>3. ASSUME \A a \in Actors : pc[a] \in Yielding, NEW p \in Posts  PROVE Settled(p)
  BY <1>0, <1>3, NowhereBoth DEF PostInv, Engaged
<1>4. OneClaim  BY <1>3, SettledClaim DEF OneClaim
<1>. QED  BY <1>1, <1>2, <1>4 DEF PublishedOnce, OneLiveJob

\* The steps that write the status of a post: an actor at statement k writes s.
Write(a, k, s) == Turn(a, k) /\ SetPost(loc[a].tgt, s)

Writes ==
    {<<"resetPost", "draft">>, <<"failPost", "failed">>, <<"markPublishing", "publishing">>,
     <<"recordPublished", "published">>, <<"recordFailed", "failed">>,
     <<"schedulePost", "scheduled">>, <<"cancelDraft", "draft">>, <<"delete", "deleted">>,
     <<"holdPost", "scheduled">>, <<"executorReset", "draft">>, <<"rejectDraft", "draft">>}

LEMMA PostWriters ==
  ASSUME [ApprovalNext]_allVars
  PROVE  \/ UNCHANGED post
         \/ \E a \in Actors : \E k, s : <<k, s>> \in Writes /\ Write(a, k, s)
<1>1. ASSUME NEW w \in Workers, WorkerStep(w)
      PROVE  UNCHANGED post \/ Write(w, "resetPost", "draft") \/ Write(w, "failPost", "failed")
  BY <1>1 DEF WorkerStep, ExecuteStep, Scan, Lock, Skip, MarkRunning, LoadPost, ResetPost,
     SucceedJob, RetryJob, FailJob, FailPost, Write
<1>2. ASSUME NEW c \in Clients, RequestStart(c) \/ RequestStep(c)
      PROVE  \/ UNCHANGED post
             \/ Write(c, "schedulePost", "scheduled") \/ Write(c, "cancelDraft", "draft")
             \/ Write(c, "delete", "deleted")
  BY <1>2 DEF RequestStart, RequestStep, StartSchedule, StartReschedule, StartCancel,
     StartPublish, StartDelete, SchedulePost, CreateJob, Reschedule, CancelRead, CancelDraft,
     CancelJob, DeleteAnswered, Delete, Write
<1>3. ASSUME NEW a \in Actors, PublishStep(a) \/ ProviderStep(a)
      PROVE  \/ UNCHANGED post
             \/ Write(a, "markPublishing", "publishing")
             \/ Write(a, "recordPublished", "published") \/ Write(a, "recordFailed", "failed")
  BY <1>3 DEF PublishStep, ProviderStep, Publish, NoAccount, MarkPublishing, RecordPublished,
     RecordFailed, Accept, Reject, Reply, LoseReply, Write
<1>4. ASSUME NEW c \in Clients, AskStep(c) \/ ReviewStep(c)
      PROVE  \/ UNCHANGED post
             \/ Write(c, "holdPost", "scheduled") \/ Write(c, "executorReset", "draft")
             \/ Write(c, "rejectDraft", "draft")
  BY <1>4 DEF AskStep, ReviewStep, Ask, CreateRequest, HoldPost, StartApprove, StartReject,
     StartReview, ApproveRequest, ExecutorLoad, ExecutorReset, RejectRequest, RejectRead,
     RejectDraft, Write
<1>5. CASE Tick \/ \E h \in Hosts : Crash(h)
  BY <1>5 DEF Tick, Crash
<1>6. CASE UNCHANGED allVars
  BY <1>6 DEF allVars, vars
<1>. QED  BY <1>1, <1>2, <1>3, <1>4, <1>5, <1>6 DEF ApprovalNext, Next, Actors, Writes

\* What the writer of a post's status knows of the status it overwrites.
LEMMA WrittenStatus ==
  ASSUME OneUp, FlowInv, NEW a \in Actors, NEW k, NEW s, <<k, s>> \in Writes, Write(a, k, s),
         NEW p \in Posts, p = loc[a].tgt
  PROVE  /\ s \in {"draft", "scheduled"} =>
               post[p] \in {"draft", "scheduled", "publishing", "failed"}
         /\ s \in {"publishing", "failed"} => post[p] # "published"
<1>1. k \in EngagedAt  BY DEF Writes, EngagedAt, ApprovalPCs
<1>2. PICK y : y = loc[a]  OBVIOUS
<1>3. Hand(a, k, y, p)
  BY <1>1, <1>2, AtTurn DEF Write, FlowInv
<1>4. \/ k \in {"delete", "holdPost"}
      \/ Works(a, k, y, p) /\ k \notin {"cancelRead", "cancelJob", "approve", "reject"}
  BY <1>3 DEF Hand, Writes
<1>5. CASE k = "delete"
  BY <1>5 DEF Writes
<1>6. CASE k = "holdPost"
  <2>1. post[p] = "draft"  BY <1>3, <1>6 DEF Hand
  <2>. QED  BY <2>1
<1>7. CASE k \notin {"delete", "holdPost"}
  <2>1. post[p] \in StatusAt(k)  BY <1>4, <1>7 DEF Works
  <2>. QED  BY <1>7, <2>1, StatusIs DEF Writes
<1>. QED  BY <1>5, <1>6, <1>7

LEMMA StepNotReopened ==
  ASSUME OneUp, FlowInv, [ApprovalNext]_allVars
  PROVE  \A p \in Posts :
            /\ post[p] = "deleted"   => post'[p] \notin {"draft", "scheduled"}
            /\ post[p] = "published" => post'[p] \in {"published", "deleted"}
<1>1. CASE UNCHANGED post  BY <1>1
<1>2. ASSUME NEW a \in Actors, NEW k, NEW s, <<k, s>> \in Writes, Write(a, k, s)
      PROVE  \A p \in Posts :
                /\ post[p] = "deleted"   => post'[p] \notin {"draft", "scheduled"}
                /\ post[p] = "published" => post'[p] \in {"published", "deleted"}
  <2>1. SUFFICES ASSUME NEW p \in Posts
                 PROVE  /\ post[p] = "deleted"   => post'[p] \notin {"draft", "scheduled"}
                        /\ post[p] = "published" => post'[p] \in {"published", "deleted"}
    OBVIOUS
  <2>2. post' = [post EXCEPT ![loc[a].tgt] = s]  BY <1>2 DEF Write, SetPost
  <2>3. post \in [Posts -> PostStatus]
    BY DEF FlowInv, QueueInv, FlowTypes, TypeInv, Typed
  <2>4. s \in {"draft", "scheduled", "publishing", "published", "failed", "deleted"}
    BY <1>2 DEF Writes
  <2>5. CASE p = loc[a].tgt
    BY <1>2, <2>2, <2>3, <2>4, <2>5, WrittenStatus
  <2>6. CASE p # loc[a].tgt
    BY <2>2, <2>3, <2>6
  <2>. QED  BY <2>5, <2>6
<1>. QED  BY <1>1, <1>2, PostWriters

-----------------------------------------------------------------------------
LEMMA FlowInvariant ==
  ASSUME OneUp
  PROVE  ApprovalSpec => []FlowInv
<1>1. FlowInv /\ [ApprovalNext]_allVars => FlowInv'  BY StepFlowInv
<1>. QED  BY InitFlowInv, <1>1, PTL DEF ApprovalSpec

\* In one process that does not crash, between requests the status "scheduled"
\* means one job or one pending request, never both or none.
THEOREM OneClaimPerPost ==
  ASSUME OneUp
  PROVE  ApprovalSpec => []OneClaim
BY FlowInvariant, FlowSafety, PTL

\* In one process that does not crash, the SNS publishes a post once, and once
\* more for each reply that was lost (post.ts:565), through jobs and their
\* retries, reschedules, cancellations, approvals and direct publication.
THEOREM PostsPublishedOnce ==
  ASSUME OneUp
  PROVE  ApprovalSpec => []PublishedOnce
BY FlowInvariant, FlowSafety, PTL

\* In one process that does not crash, a post never has two jobs that can still
\* run: schedulePost refuses anything but a draft (schedule.ts).
THEOREM OneJobPerPost ==
  ASSUME OneUp
  PROVE  ApprovalSpec => []OneLiveJob
BY FlowInvariant, FlowSafety, PTL

\* In one process that does not crash, no decision and no job that comes late
\* (routes/approvals.ts:95, schedule.ts:763) makes a deleted post publishable
\* again, and no failure or retry overwrites a recorded publication.
THEOREM NoReopening ==
  ASSUME OneUp
  PROVE  ApprovalSpec => NotReopened
<1>1. FlowInv /\ [ApprovalNext]_allVars =>
        [\A p \in Posts :
            /\ post[p] = "deleted"   => post'[p] \notin {"draft", "scheduled"}
            /\ post[p] = "published" => post'[p] \in {"published", "deleted"}]_allVars
  BY StepNotReopened
<1>. QED  BY FlowInvariant, <1>1, PTL DEF ApprovalSpec, NotReopened

-----------------------------------------------------------------------------
(* What the database says of a post agrees with what the platform shows.     *)

\* A post that somebody publishes, whatever others do with it meanwhile.
LEMMA InCallStill ==
  ASSUME PostInv, NEW a \in Actors, NEW p \in Posts, pc[a] \in AtCall, loc[a].tgt = p
  PROVE  /\ post[p] \in {"publishing", "deleted"}
         /\ IF pc[a] = "calling" THEN Unsent(p) ELSE Sent(p)
<1>1. a \in Callers(p)  BY DEF Callers
<1>2. Settled(p)
  <2>1. CASE \A b \in Actors : ~Engaged(b, p)  BY <2>1 DEF PostInv
  <2>2. ASSUME NEW b \in Actors, Engaged(b, p)  PROVE Settled(p)
    <3>1. PICK l, x : l = pc[b] /\ x = loc[b]  OBVIOUS
    <3>2. Hand(b, l, x, p) /\ l \in EngagedAt  BY <2>2, <3>1 DEF PostInv, Engaged
    <3>3. (\A k : ~Works(b, k, x, p)) /\ ~Parked(p)
      BY <1>1 DEF Works, Parked, Claims
    <3>4. CASE l \in {"cancelRead", "delete"}
      <4>1. l = "cancelRead" \/ l = "delete"  BY <3>4
      <4>. QED  BY <3>2, <4>1, HandIs
    <3>5. CASE l \in {"approve", "reject"}  BY <3>2, <3>5, HandIs
    <3>6. CASE l = "cancelJob"
      <4>1. Works(b, "cancelJob", x, p) \/ Settled(p)  BY <3>2, <3>6, HandIs
      <4>. QED  BY <3>3, <4>1
    <3>7. CASE l = "holdPost"
      <4>1. Parked(p)  BY <3>2, <3>7, HandIs
      <4>. QED  BY <3>3, <4>1
    <3>8. CASE l \in EngagedAt \ {"cancelRead", "cancelJob", "delete", "approve",
                                  "reject", "holdPost"}
      <4>1. Works(b, l, x, p)  BY <3>2, <3>8, HandIs
      <4>. QED  BY <3>3, <4>1
    <3>. QED  BY <3>2, <3>4, <3>5, <3>6, <3>7, <3>8
  <2>. QED  BY <2>1, <2>2
<1>. QED  BY <1>2, InCall

\* The steps that change what the platform shows or was told of.
LEMMA PlatformSteps ==
  ASSUME OneUp, FlowTypes, [ApprovalNext]_allVars
  PROVE  UNCHANGED sns \/ \E a \in Actors : Accept(a) \/ LoseReply(a)
<1>1. ASSUME NEW w \in Workers, WorkerStep(w)  PROVE UNCHANGED sns
  BY <1>1 DEF WorkerStep, ExecuteStep, Scan, Lock, Skip, MarkRunning, LoadPost, ResetPost,
     SucceedJob, RetryJob, FailJob, FailPost
<1>2. ASSUME NEW c \in Clients, RequestStart(c) \/ RequestStep(c)  PROVE UNCHANGED sns
  BY <1>2 DEF RequestStart, RequestStep, StartSchedule, StartReschedule, StartCancel,
     StartPublish, StartDelete, SchedulePost, CreateJob, Reschedule, CancelRead, CancelDraft,
     CancelJob, DeleteAnswered, Delete
<1>3. ASSUME NEW a \in Actors, PublishStep(a) \/ ProviderStep(a)
      PROVE  UNCHANGED sns \/ Accept(a) \/ LoseReply(a)
  BY <1>3 DEF PublishStep, ProviderStep, Publish, NoAccount, MarkPublishing, RecordPublished,
     RecordFailed, Reject, Reply
<1>4. ASSUME NEW c \in Clients, AskStep(c) \/ ReviewStep(c)  PROVE UNCHANGED sns
  BY <1>4 DEF AskStep, ReviewStep, Ask, CreateRequest, HoldPost, StartApprove, StartReject,
     StartReview, ApproveRequest, ExecutorLoad, ExecutorReset, RejectRequest, RejectRead,
     RejectDraft
<1>5. CASE Tick  BY <1>5 DEF Tick
<1>6. \A h \in Hosts : ~Crash(h)
  BY BoundsAssumption DEF Crash, OneUp, FlowTypes, TypeInv, Typed
<1>7. CASE UNCHANGED allVars  BY <1>7 DEF allVars, vars, sns
<1>. QED  BY <1>1, <1>2, <1>3, <1>4, <1>5, <1>6, <1>7 DEF ApprovalNext, Next

\* A write of a post's status is a step of its life cycle, or none.
LEMMA WrittenLife ==
  ASSUME OneUp, FlowInv, NEW a \in Actors, NEW k, NEW s, <<k, s>> \in Writes, Write(a, k, s),
         NEW p \in Posts, p = loc[a].tgt
  PROVE  \/ s = "deleted" \/ s = post[p]
         \/ s = "published" /\ post[p] \in {"publishing", "deleted"} /\ Sent(p)
         \/ /\ Unsent(p)
            /\ \/ s \in {"scheduled", "publishing"} /\ post[p] = "draft"
               \/ s = "draft" /\ post[p] \in {"scheduled", "publishing", "failed"}
               \/ s = "failed" /\ post[p] \in {"draft", "publishing", "deleted"}
<1>1. k \in EngagedAt  BY DEF Writes, EngagedAt, ApprovalPCs
<1>2. PICK y : y = loc[a]  OBVIOUS
<1>3. Hand(a, k, y, p)
  BY <1>1, <1>2, AtTurn DEF Write, FlowInv
<1>4. CASE k = "delete"
  BY <1>4 DEF Writes
<1>5. CASE k = "holdPost"
  <2>1. post[p] = "draft" /\ Unsent(p)  BY <1>3, <1>5, HandIs DEF Parked
  <2>. QED  BY <1>5, <2>1 DEF Writes
<1>6. CASE k \notin {"delete", "holdPost"}
  <2>1. Works(a, k, y, p)  BY <1>1, <1>3, <1>6, HandIs DEF Writes
  <2>2. /\ post[p] \in StatusAt(k)
        /\ IF k = "recordPublished" THEN Sent(p) ELSE Unsent(p)
    BY <2>1 DEF Works, Writes
  <2>. QED  BY <1>6, <2>2, StatusIs DEF Writes
<1>. QED  BY <1>4, <1>5, <1>6

PromiseVars == <<post, [p \in Posts |-> platform[p] - lost[p]]>>

LEMMA PromiseStep ==
  ASSUME OneUp, FlowInv, [ApprovalNext]_allVars
  PROVE  [PostPromise!Next]_PromiseVars
<1>. DEFINE Shown == [p \in Posts |-> platform[p] - lost[p]]
<1>1. /\ post \in [Posts -> PostStatus]
      /\ platform \in [Posts -> Nat] /\ lost \in [Posts -> Nat]
      /\ FlowTypes /\ PostInv
  BY DEF FlowInv, QueueInv, FlowTypes, TypeInv, Typed
<1>2. \A p \in Posts : (Unsent(p) => Shown[p] = 0) /\ (Sent(p) => Shown[p] = 1)
  BY <1>1 DEF Unsent, Sent
<1>3. UNCHANGED sns => Shown' = Shown
  BY DEF sns
<1>4. ASSUME NEW a \in Actors, NEW k, NEW s, <<k, s>> \in Writes, Write(a, k, s), UNCHANGED sns
      PROVE  PostPromise!Next \/ UNCHANGED PromiseVars
  <2>1. post' = [post EXCEPT ![loc[a].tgt] = s]  BY <1>4 DEF Write, SetPost
  <2>2. CASE loc[a].tgt \notin Posts
    BY <1>1, <1>3, <1>4, <2>1, <2>2 DEF PromiseVars
  <2>3. CASE loc[a].tgt \in Posts
    <3>1. PICK p \in Posts : p = loc[a].tgt  BY <2>3
    <3>2. PostPromise!Becomes(p, s)
      BY <1>3, <1>4, <2>1, <3>1 DEF PostPromise!Becomes
    <3>3. CASE s = "deleted"
      BY <3>2, <3>3 DEF PostPromise!Next, PostPromise!Delete
    <3>4. CASE s = post[p]
      BY <1>1, <1>3, <1>4, <2>1, <3>1, <3>4 DEF PromiseVars
    <3>5. CASE s = "published" /\ post[p] \in {"publishing", "deleted"} /\ Sent(p)
      BY <1>2, <3>2, <3>5 DEF PostPromise!Next, PostPromise!Succeed
    <3>6. CASE Unsent(p) /\ s = "scheduled" /\ post[p] = "draft"
      BY <1>2, <3>2, <3>6 DEF PostPromise!Next, PostPromise!Schedule
    <3>7. CASE Unsent(p) /\ s = "publishing" /\ post[p] = "draft"
      BY <1>2, <3>2, <3>7 DEF PostPromise!Next, PostPromise!Begin
    <3>8. CASE Unsent(p) /\ s = "draft" /\ post[p] \in {"scheduled", "publishing", "failed"}
      BY <1>2, <3>2, <3>8 DEF PostPromise!Next, PostPromise!Release
    <3>9. CASE Unsent(p) /\ s = "failed" /\ post[p] \in {"draft", "publishing", "deleted"}
      BY <1>2, <3>2, <3>9 DEF PostPromise!Next, PostPromise!Fail
    <3>. QED
      BY <1>4, <3>1, <3>3, <3>4, <3>5, <3>6, <3>7, <3>8, <3>9, WrittenLife
  <2>. QED  BY <2>2, <2>3
<1>5. ASSUME NEW a \in Actors, Accept(a)  PROVE PostPromise!Next \/ UNCHANGED PromiseVars
  <2>1. /\ pc[a] = "calling" /\ UNCHANGED <<post, lost>>
        /\ platform' = [platform EXCEPT ![loc[a].tgt] = @ + 1]
    BY <1>5 DEF Accept
  <2>2. CASE loc[a].tgt \notin Posts
    BY <1>1, <2>1, <2>2 DEF PromiseVars
  <2>3. CASE loc[a].tgt \in Posts
    <3>1. PICK p \in Posts : p = loc[a].tgt  BY <2>3
    <3>2. post[p] \in {"publishing", "deleted"} /\ Unsent(p)
      BY <1>1, <2>1, <3>1, InCallStill DEF AtCall
    <3>3. Shown[p] = 0 /\ Shown' = [Shown EXCEPT ![p] = 1]
      <4>1. Shown[p] = 0  BY <1>2, <3>2
      <4>2. platform'[p] - lost'[p] = 1
        BY <1>1, <2>1, <3>1, <3>2 DEF Unsent
      <4>3. \A q \in Posts \ {p} : platform'[q] - lost'[q] = Shown[q]
        BY <1>1, <2>1, <3>1
      <4>. QED  BY <4>1, <4>2, <4>3
    <3>. QED
      BY <2>1, <3>2, <3>3 DEF PostPromise!Next, PostPromise!GoOut, PostPromise!Tried
  <2>. QED  BY <2>2, <2>3
<1>6. ASSUME NEW a \in Actors, LoseReply(a)  PROVE PostPromise!Next \/ UNCHANGED PromiseVars
  <2>1. /\ pc[a] = "accepted" /\ UNCHANGED <<post, platform>>
        /\ lost' = [lost EXCEPT ![loc[a].tgt] = @ + 1]
    BY <1>6 DEF LoseReply, Turn
  <2>2. CASE loc[a].tgt \notin Posts
    BY <1>1, <2>1, <2>2 DEF PromiseVars
  <2>3. CASE loc[a].tgt \in Posts
    <3>1. PICK p \in Posts : p = loc[a].tgt  BY <2>3
    <3>2. post[p] \in {"publishing", "deleted"} /\ Sent(p)
      BY <1>1, <2>1, <3>1, InCallStill DEF AtCall
    <3>3. Shown[p] = 1 /\ Shown' = [Shown EXCEPT ![p] = 0]
      <4>1. Shown[p] = 1  BY <1>2, <3>2
      <4>2. platform'[p] - lost'[p] = 0
        BY <1>1, <2>1, <3>1, <3>2 DEF Sent
      <4>3. \A q \in Posts \ {p} : platform'[q] - lost'[q] = Shown[q]
        BY <1>1, <2>1, <3>1
      <4>. QED  BY <4>1, <4>2, <4>3
    <3>. QED
      BY <2>1, <3>2, <3>3 DEF PostPromise!Next, PostPromise!Forget, PostPromise!Tried
  <2>. QED  BY <2>2, <2>3
<1>7. CASE UNCHANGED sns /\ UNCHANGED post
  BY <1>3, <1>7 DEF PromiseVars
<1>. QED  BY <1>1, <1>4, <1>5, <1>6, <1>7, PlatformSteps, PostWriters

LEMMA PromiseInit == ApprovalInit => PostPromise!Init
<1>. SUFFICES ASSUME ApprovalInit  PROVE PostPromise!Init
  OBVIOUS
<1>1. /\ post = [p \in Posts |-> "draft"]
      /\ platform = [p \in Posts |-> 0] /\ lost = [p \in Posts |-> 0]
  BY DEF ApprovalInit, Init
<1>. QED  BY <1>1 DEF PostPromise!Init

\* In one process that does not crash, posts keep the promise of PostLifecycle,
\* however jobs, retries, cancellations, deletions and decisions interleave: a
\* draft, a scheduled or a failed post is not out (but for publications nobody
\* was told of), and one recorded as published went out, once.
THEOREM PostPromiseKept ==
  ASSUME OneUp
  PROVE  ApprovalSpec => ImplementsPostLifecycle
<1>1. FlowInv /\ [ApprovalNext]_allVars => [PostPromise!Next]_PromiseVars
  BY PromiseStep
<1>. QED
  BY FlowInvariant, PromiseInit, <1>1, PTL
     DEF ApprovalSpec, ImplementsPostLifecycle, PostPromise!Spec, PromiseVars
=============================================================================
