---------------------------- MODULE ApprovalFlow ----------------------------
(***************************************************************************)
(* Publication under approval: packages/core/src/usecases/approval.ts and  *)
(* the executor of apps/api/src/routes/approvals.ts over the posts and the *)
(* job queue of PostScheduler.                                             *)
(*                                                                         *)
(* A publish request of an agent, or one over a budget whose policy is     *)
(* require-approval, creates an approval request and parks the post in the *)
(* status "scheduled", which it shares with posts that have a job.         *)
(* Approving runs the publication inside the request that approves;        *)
(* rejecting gives the post back as a draft.                               *)
(*                                                                         *)
(* Requests that are refused are left out, among them a requester who      *)
(* approves their own request: the reviewer is somebody else.  So is the   *)
(* status "expired": no entry point calls expireStaleRequests.             *)
(***************************************************************************)
EXTENDS PostScheduler

CONSTANT Requests      \* ids; bounds how many approval requests are created

ASSUME RequestsAssumption == None \notin Requests

VARIABLES request,     \* the approval_requests row of each request
          reviewing    \* the request a client decides

approval == <<request, reviewing>>
allVars  == <<vars, approval>>

Decided == {"approved", "rejected"}

RequestRows == [status : Decided \cup {"absent", "pending"},
                post : Posts \cup {None}]

ApprovalPCs == {"createRequest", "holdPost", "approve", "executorLoad",
                "executorReset", "reject", "rejectRead", "rejectDraft"}

ApprovalTypeOK ==
    /\ request \in [Requests -> RequestRows]
    /\ reviewing \in [Clients -> Requests \cup {None}]
    /\ pc \in [Actors -> PCs \cup ApprovalPCs]

ApprovalInit ==
    /\ Init
    /\ request = [r \in Requests |-> [status |-> "absent", post |-> None]]
    /\ reviewing = [c \in Clients |-> None]

Decide(c, status) ==
    request' = [request EXCEPT ![reviewing[c]].status = status]

ForgetReview(c) == reviewing' = [reviewing EXCEPT ![c] = None]

-----------------------------------------------------------------------------
(* Asking for a publication. *)

Free == {r \in Requests : request[r].status = "absent"}
Asking == {c \in Clients : pc[c] = "createRequest"}

AskAnyStatus(c) ==
    /\ Turn(c, "idle")
    /\ Cardinality(Asking) < Cardinality(Free)
    /\ \E p \in Posts : SetLocals(c, [NoLocals EXCEPT !.tgt = p])
    /\ Goto(c, "createRequest")
    /\ UNCHANGED <<post, job, sns, crashes, approval>>

\* The route and publishPostChecked go the same way from here.
\* Bound: asked only while the model has a row left.
Ask(c) ==
    /\ Turn(c, "idle")
    /\ Cardinality(Asking) < Cardinality(Free)
    /\ \E p \in Posts : /\ post[p] = "draft"
                        /\ SetLocals(c, [NoLocals EXCEPT !.tgt = p])
    /\ Goto(c, "createRequest")
    /\ UNCHANGED <<post, job, sns, crashes, approval>>

CreateRequest(c) ==
    /\ Turn(c, "createRequest")
    /\ \E r \in Free :
         request' = [request EXCEPT ![r] = [status |-> "pending", post |-> loc[c].tgt]]
    /\ Goto(c, "holdPost")
    /\ UNCHANGED <<post, job, sns, loc, crashes, reviewing>>

HoldPost(c) ==
    /\ Turn(c, "holdPost")
    /\ SetPost(loc[c].tgt, "scheduled")
    /\ Respond(c)
    /\ UNCHANGED <<job, sns, crashes, approval>>

-----------------------------------------------------------------------------
(* Deciding: approveRequest with postExecutor, rejectRequest and its route. *)

StartReview(c, r, l) ==
    /\ Turn(c, "idle")
    /\ SetLocals(c, [NoLocals EXCEPT !.tgt = request[r].post])
    /\ reviewing' = [reviewing EXCEPT ![c] = r]
    /\ Goto(c, l)
    /\ UNCHANGED <<post, job, sns, crashes, request>>

StartApprove(c) ==
    \E r \in Requests : request[r].status = "pending" /\ StartReview(c, r, "approve")

ApproveRequest(c) ==
    /\ Turn(c, "approve")
    /\ Decide(c, "approved") /\ ForgetReview(c)
    /\ Goto(c, "executorLoad")
    /\ UNCHANGED <<post, job, sns, loc, crashes>>

ExecutorLoadAnyStatus(c) ==
    /\ Turn(c, "executorLoad")
    /\ Goto(c, IF post[loc[c].tgt] = "draft" THEN "publish" ELSE "executorReset")
    /\ UNCHANGED <<post, job, sns, loc, crashes, approval>>

\* Any other status is an executionError: the request stays approved.
ExecutorLoad(c) ==
    /\ Turn(c, "executorLoad")
    /\ \/ post[loc[c].tgt] = "scheduled" /\ Goto(c, "executorReset") /\ UNCHANGED loc
       \/ post[loc[c].tgt] = "draft" /\ Goto(c, "publish") /\ UNCHANGED loc
       \/ post[loc[c].tgt] \notin {"scheduled", "draft"} /\ Respond(c)
    /\ UNCHANGED <<post, job, sns, crashes, approval>>

ExecutorReset(c) ==
    /\ Turn(c, "executorReset")
    /\ SetPost(loc[c].tgt, "draft")
    /\ Goto(c, "publish")
    /\ UNCHANGED <<job, sns, loc, crashes, approval>>

StartRejectAnyDecision(c) ==
    \E r \in Requests \ Free : StartReview(c, r, "reject")

StartReject(c) ==
    \E r \in Requests : request[r].status = "pending" /\ StartReview(c, r, "reject")

RejectRequest(c) ==
    /\ Turn(c, "reject")
    /\ Decide(c, "rejected") /\ ForgetReview(c)
    /\ Goto(c, "rejectRead")
    /\ UNCHANGED <<post, job, sns, loc, crashes>>

RejectReadKeepingPost(c) ==
    /\ Turn(c, "rejectRead")
    /\ Respond(c)
    /\ UNCHANGED <<post, job, sns, crashes, approval>>

RejectReadAnyStatus(c) ==
    /\ Turn(c, "rejectRead")
    /\ Goto(c, "rejectDraft")
    /\ UNCHANGED <<post, job, sns, loc, crashes, approval>>

RejectRead(c) ==
    /\ Turn(c, "rejectRead")
    /\ \/ post[loc[c].tgt] = "scheduled" /\ Goto(c, "rejectDraft") /\ UNCHANGED loc
       \/ post[loc[c].tgt] # "scheduled" /\ Respond(c)
    /\ UNCHANGED <<post, job, sns, crashes, approval>>

RejectDraft(c) ==
    /\ Turn(c, "rejectDraft")
    /\ SetPost(loc[c].tgt, "draft")
    /\ Respond(c)
    /\ UNCHANGED <<job, sns, crashes, approval>>

-----------------------------------------------------------------------------
ReviewStep(c) ==
    \/ StartApprove(c) \/ ApproveRequest(c) \/ ExecutorLoad(c) \/ ExecutorReset(c)
    \/ StartReject(c) \/ RejectRequest(c) \/ RejectRead(c) \/ RejectDraft(c)

AskStep(c) == Ask(c) \/ CreateRequest(c) \/ HoldPost(c)

\* A crash forgets reviewing too; it is only read after StartReview set it.
ApprovalNext ==
    \/ Next /\ UNCHANGED approval
    \/ \E c \in Clients : AskStep(c) \/ ReviewStep(c)

ApprovalSpec == ApprovalInit /\ [][ApprovalNext]_allVars
-----------------------------------------------------------------------------
(* Properties. *)

\* A decision is final: no later approval or rejection, and no write of a
\* publication that is still going on, changes it (approval.ts:193, 280).
OneDecision ==
    [][\A r \in Requests :
          request[r].status \in Decided => request'[r] = request[r]]_allVars

Approved(p) == {r \in Requests : request[r].post = p /\ request[r].status = "approved"}
Pending(p)  == {r \in Requests : request[r].post = p /\ request[r].status = "pending"}

\* The status "scheduled" is never ambiguous: between requests, a post that
\* has it waits either for one job or for one decision, and a draft for none.
OneClaim ==
    (\A a \in Actors : pc[a] \in Yielding) =>
      \A p \in Posts :
         /\ Cardinality(LiveJobs(p)) + Cardinality(Pending(p)) <= 1
         /\ post[p] = "scheduled" => LiveJobs(p) \cup Pending(p) # {}
         /\ post[p] = "draft" => LiveJobs(p) \cup Pending(p) = {}

\* A deleted post is not made publishable again by a decision or a job that
\* comes late (routes/approvals.ts:95, schedule.ts:763), and no late failure,
\* retry or decision overwrites the recorded publication of a post.
NotReopened ==
    [][\A p \in Posts :
         /\ post[p] = "deleted"   => post'[p] \notin {"draft", "scheduled"}
         /\ post[p] = "published" => post'[p] \in {"published", "deleted"}]_allVars

\* However the operations on a post interleave, what the database says of it
\* agrees with what the platform shows, as PostLifecycle has it.
PostPromise == INSTANCE PostLifecycle WITH
    status <- post,
    out    <- [p \in Posts |-> platform[p] - lost[p]]

ImplementsPostLifecycle == PostPromise!Spec

\* approval.ts:7: an approved request runs the original operation.  Between
\* requests no approved post may still be parked.
ApprovedIsRun ==
    (\A a \in Actors : pc[a] \in Yielding) =>
      \A p \in Posts : Approved(p) # {} /\ post[p] = "scheduled" =>
                           LiveJobs(p) \cup Pending(p) # {}
=============================================================================
