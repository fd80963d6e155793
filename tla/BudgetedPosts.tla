---------------------------- MODULE BudgetedPosts ----------------------------
(***************************************************************************)
(* Posts created and published by API requests under idempotency keys      *)
(* (middleware/idempotency.ts, createPost) and under the budget policies   *)
(* of the workspace (evaluateBudgetPolicy in policies/budget.ts, called by *)
(* publishPostChecked of usecases/post.ts).                                *)
(*                                                                         *)
(* One step is one SQL statement or one event of a platform call; the      *)
(* requests of a process interleave only where they wait, as in the other  *)
(* modules.  Every call costs the same, so amounts are numbers of calls.   *)
(* All policies have the same period.                                      *)
(***************************************************************************)
EXTENDS Integers, Sequences, FiniteSets

CONSTANTS Posts, Keys, Platforms, Clients,
          HostOf,        \* the OS process that serves each client
          Ops,           \* which client makes which requests
          NewPolicies,   \* the policies an administrator may write
          MaxPolicies,   \* bound on the rows of budget_policies
          MaxRows,       \* bound on the usage records, of all periods
          MaxFailures,   \* bound on calls refused, answers lost, records not made
          MaxCrashes,    \* bound on process crashes
          None

Hosts     == {HostOf[c] : c \in Clients}
Endpoints == {"post.publish", "inbox.reply"}

\* budget_policies: value is a platform, an endpoint, or None (workspace).
PolicyRows ==
    [scope : {"endpoint", "platform", "workspace"},
     value : Platforms \cup Endpoints \cup {None},
     limit : Nat \ {0},
     action : {"warn", "require-approval", "block"}]

ASSUME BudgetAssumption ==
    /\ IsFiniteSet(Clients) /\ Platforms # {}
    /\ None \notin Posts /\ None \notin Keys /\ None \notin PolicyRows
    /\ NewPolicies \subseteq PolicyRows
    /\ MaxPolicies \in Nat /\ MaxRows \in Nat /\ MaxFailures \in Nat /\ MaxCrashes \in Nat

VARIABLES post,      \* the posts rows
          pending,   \* how many approval requests of a post are pending
          policies,  \* the budget_policies rows, oldest first
          usage,     \* the usage_records rows of this period
          rows,      \* how many usage records were made, for fresh ids
          calls,     \* the publications asked of platforms in this period
          unrecorded, \* those of them no record will ever stand for
          accepted,  \* accepted[p]: how often a platform published p
          pc, loc,
          failures, crashes

vars == <<post, pending, policies, usage, rows, calls, unrecorded, accepted,
          pc, loc, failures, crashes>>
spending == <<usage, rows, calls, unrecorded>>
bounds   == <<failures, crashes>>

-----------------------------------------------------------------------------
PostRows == [status : {"absent", "draft", "scheduled", "publishing",
                       "published", "failed"},
             key : Keys \cup {None},
             platform : Platforms]

UsageRows == [id : Nat, platform : Platforms, endpoint : Endpoints]

NoLocals == [post |-> None, key |-> None, on |-> None, now |-> FALSE,
             checked |-> TRUE, policy |-> None, call |-> None]

Locals == [post : Posts \cup {None},
           key : Keys \cup {None}, on : Platforms \cup {None}, now : BOOLEAN,
           checked : BOOLEAN,                 \* deps has budgetPolicyRepo and usageRepo
           policy : PolicyRows \cup {None},   \* matched[0]
           call : UsageRows \cup {None}]      \* the usage record to come

\* Waiting for the request's body or for a platform.
Yielding == {"idle", "body", "calling", "accepted"}
InHand   == {"calling", "accepted", "published", "failed", "usage"}
PCs      == Yielding \cup InHand \cup
            {"insert", "load", "policies", "aggregate", "request", "hold",
             "reset", "unhold", "mark"}

TypeOK ==
    /\ post \in [Posts -> PostRows]
    /\ pending \in [Posts -> Nat]
    /\ policies \in Seq(PolicyRows)
    /\ usage \subseteq UsageRows /\ rows \in Nat
    /\ calls \subseteq UsageRows /\ unrecorded \subseteq UsageRows
    /\ accepted \in [Posts -> Nat]
    /\ pc \in [Clients -> PCs]
    /\ loc \in [Clients -> Locals]
    /\ failures \in Nat /\ crashes \in Nat

Init ==
    /\ post = [p \in Posts |-> [status |-> "absent", key |-> None,
                                platform |-> CHOOSE v \in Platforms : TRUE]]
    /\ pending = [p \in Posts |-> 0]
    /\ policies = <<>> /\ usage = {} /\ rows = 0 /\ calls = {} /\ unrecorded = {}
    /\ accepted = [p \in Posts |-> 0]
    /\ pc = [c \in Clients |-> "idle"]
    /\ loc = [c \in Clients |-> NoLocals]
    /\ failures = 0 /\ crashes = 0

-----------------------------------------------------------------------------
Turn(c, l) ==
    /\ pc[c] = l
    /\ \A d \in Clients \ {c} : HostOf[d] = HostOf[c] => pc[d] \in Yielding

Goto(c, l)      == pc' = [pc EXCEPT ![c] = l]
SetLocals(c, r) == loc' = [loc EXCEPT ![c] = r]
Finish(c)       == Goto(c, "idle") /\ SetLocals(c, NoLocals)
Offered(c, op)  == <<c, op>> \in Ops /\ Turn(c, "idle")

\* The clients whose requests may end in a publication.
Publishers ==
    {c \in Clients : \E op \in {"createNow", "publish", "review"} : <<c, op>> \in Ops}

Fail == failures < MaxFailures /\ failures' = failures + 1 /\ UNCHANGED crashes

SetStatus(p, s) == post' = [post EXCEPT ![p].status = s]
PostOf(c)       == post[loc[c].post]
Used(k)         == k # None /\ \E p \in Posts : post[p].status # "absent" /\ post[p].key = k

-----------------------------------------------------------------------------
(* POST /api/posts. *)

\* The middleware answers a key it finds; if not, the body is awaited.
StartCreate(c) ==
    /\ \E k \in Keys \cup {None}, v \in Platforms, now \in BOOLEAN :
         /\ Offered(c, IF now THEN "createNow" ELSE "create")
         /\ ~Used(k)
         /\ SetLocals(c, [NoLocals EXCEPT !.key = k, !.on = v, !.now = now])
    /\ Goto(c, "body")
    /\ UNCHANGED <<post, pending, policies, spending, accepted, bounds>>

\* createPost looks again; a post that is not valid is not saved either.
FindByKey(c) ==
    /\ Turn(c, "body")
    /\ \/ ~Used(loc[c].key) /\ Goto(c, "insert") /\ UNCHANGED loc
       \/ Finish(c)
    /\ UNCHANGED <<post, pending, policies, spending, accepted, bounds>>

InsertAgain(c) ==
    /\ Turn(c, "insert")
    /\ \E p \in Posts :
         /\ post[p].status = "absent"
         /\ post' = [post EXCEPT ![p] =
              [status |-> "draft", key |-> loc[c].key, platform |-> loc[c].on]]
         /\ Goto(c, IF loc[c].now THEN "load" ELSE "idle")
         /\ SetLocals(c, IF loc[c].now THEN [NoLocals EXCEPT !.post = p] ELSE NoLocals)
    /\ UNCHANGED <<pending, policies, spending, accepted, bounds>>

\* The unique index on idempotency_key refuses a second row.
Insert(c) ==
    /\ Turn(c, "insert")
    /\ \/ Used(loc[c].key) /\ Finish(c) /\ UNCHANGED post
       \/ \E p \in Posts :
            /\ ~Used(loc[c].key) /\ post[p].status = "absent"
            /\ post' = [post EXCEPT ![p] =
                 [status |-> "draft", key |-> loc[c].key, platform |-> loc[c].on]]
            /\ Goto(c, IF loc[c].now THEN "load" ELSE "idle")
            /\ SetLocals(c, IF loc[c].now THEN [NoLocals EXCEPT !.post = p] ELSE NoLocals)
    /\ UNCHANGED <<pending, policies, spending, accepted, bounds>>

-----------------------------------------------------------------------------
(* publishPostChecked. *)

\* POST /api/posts/:id/publish for a role that needs no approval.
StartPublish(c) ==
    /\ Offered(c, "publish")
    /\ \E p \in Posts : /\ post[p].status = "draft"
                        /\ SetLocals(c, [NoLocals EXCEPT !.post = p])
    /\ Goto(c, "load")
    /\ UNCHANGED <<post, pending, policies, spending, accepted, bounds>>

Load(c) ==
    /\ Turn(c, "load")
    /\ IF PostOf(c).status # "draft" THEN Finish(c)
       ELSE Goto(c, IF loc[c].checked THEN "policies" ELSE "mark") /\ UNCHANGED loc
    /\ UNCHANGED <<post, pending, policies, spending, accepted, bounds>>

\* isPolicyMatching and comparePolicyScope: the narrowest scope, then the oldest.
Matching(pol, v) ==
    \/ pol.scope = "workspace"
    \/ pol.scope = "platform" /\ pol.value = v
    \/ pol.scope = "endpoint" /\ pol.value = "post.publish"

Rank(pol) == CASE pol.scope = "endpoint" -> 0
               [] pol.scope = "platform" -> 1
               [] OTHER -> 2

Decides(i, v) ==
    /\ i \in DOMAIN policies /\ Matching(policies[i], v)
    /\ \A j \in DOMAIN policies :
         Matching(policies[j], v) =>
            \/ Rank(policies[i]) < Rank(policies[j])
            \/ Rank(policies[i]) = Rank(policies[j]) /\ i <= j

FindPolicies(c) ==
    /\ Turn(c, "policies")
    /\ \/ \E i \in DOMAIN policies :
            /\ Decides(i, PostOf(c).platform)
            /\ Goto(c, "aggregate")
            /\ SetLocals(c, [loc[c] EXCEPT !.policy = policies[i]])
       \/ /\ \A i \in DOMAIN policies : ~Matching(policies[i], PostOf(c).platform)
          /\ Goto(c, "mark") /\ UNCHANGED loc
    /\ UNCHANGED <<post, pending, policies, spending, accepted, bounds>>

\* sumConsumedForPolicy.
InScope(pol, row) ==
    /\ pol.scope = "platform" => row.platform = pol.value
    /\ pol.scope = "endpoint" => row.endpoint = pol.value

Consumed(pol) == Cardinality({row \in usage : InScope(pol, row)})

ExceededBefore(pol) == Consumed(pol) > pol.limit

Exceeded(pol) == Consumed(pol) + 1 > pol.limit

Evaluate(c) ==
    LET pol == loc[c].policy IN
    /\ Turn(c, "aggregate")
    /\ \/ /\ Exceeded(pol) /\ pol.action = "block" /\ Finish(c)
       \/ /\ Exceeded(pol) /\ pol.action = "require-approval"
          /\ Goto(c, "request") /\ UNCHANGED loc
       \/ /\ ~Exceeded(pol) \/ pol.action = "warn"
          /\ Goto(c, "mark") /\ UNCHANGED loc
    /\ UNCHANGED <<post, pending, policies, spending, accepted, bounds>>

CreateRequest(c) ==
    /\ Turn(c, "request")
    /\ pending' = [pending EXCEPT ![loc[c].post] = @ + 1]
    /\ Goto(c, "hold")
    /\ UNCHANGED <<post, policies, spending, accepted, loc, bounds>>

HoldPost(c) ==
    /\ Turn(c, "hold")
    /\ SetStatus(loc[c].post, "scheduled")
    /\ Finish(c)
    /\ UNCHANGED <<pending, policies, spending, accepted, bounds>>

\* The account is gone or not active or, once the post is marked, its credentials
\* cannot be decrypted.
NoAccount(c) ==
    /\ Turn(c, "mark") /\ Fail /\ Finish(c)
    /\ UNCHANGED post \/ SetStatus(loc[c].post, "publishing")
    /\ UNCHANGED <<pending, policies, spending, accepted>>

MarkPublishing(c) ==
    LET call == [id |-> rows, platform |-> PostOf(c).platform,
                 endpoint |-> "post.publish"]
    IN  /\ Turn(c, "mark") /\ rows < MaxRows
        /\ SetStatus(loc[c].post, "publishing")
        /\ rows' = rows + 1 /\ calls' = calls \cup {call}
        /\ Goto(c, "calling") /\ SetLocals(c, [loc[c] EXCEPT !.call = call])
        /\ UNCHANGED <<pending, policies, usage, unrecorded, accepted, bounds>>

\* The platform's side of the call.
Accept(c) ==
    /\ pc[c] = "calling"
    /\ accepted' = [accepted EXCEPT ![loc[c].post] = @ + 1]
    /\ Goto(c, "accepted")
    /\ UNCHANGED <<post, pending, policies, spending, loc, bounds>>

Reply(c) ==
    /\ Turn(c, "accepted") /\ Goto(c, "published")
    /\ UNCHANGED <<post, pending, policies, spending, accepted, loc, bounds>>

\* Refused, or published without the caller learning of it.
CallFails(c) ==
    /\ Turn(c, "calling") \/ Turn(c, "accepted")
    /\ Fail /\ Goto(c, "failed")
    /\ UNCHANGED <<post, pending, policies, spending, accepted, loc>>

\* A ProviderError of the provider's own is thrown on: the post stays publishing.
CallThrows(c) ==
    /\ Turn(c, "calling") /\ Fail /\ Finish(c)
    /\ unrecorded' = unrecorded \cup {loc[c].call}
    /\ UNCHANGED <<post, pending, policies, usage, rows, calls, accepted>>

RecordOutcomeUnpaid(c) ==
    \E s \in {"published", "failed"} :
       /\ Turn(c, s) /\ SetStatus(loc[c].post, s)
       /\ IF s = "published" THEN Goto(c, "usage") /\ UNCHANGED loc ELSE Finish(c)
       /\ UNCHANGED <<pending, policies, spending, accepted, bounds>>

RecordOutcome(c) ==
    \E s \in {"published", "failed"} :
       /\ Turn(c, s) /\ SetStatus(loc[c].post, s)
       /\ Goto(c, "usage")
       /\ UNCHANGED <<pending, policies, spending, accepted, loc, bounds>>

\* recordProviderUsage does nothing without usageRepo; a failed insert is logged.
RecordUsage(c) ==
    /\ Turn(c, "usage") /\ Finish(c)
    /\ \/ /\ loc[c].checked /\ UNCHANGED bounds
          /\ usage' = usage \cup {loc[c].call} /\ UNCHANGED unrecorded
       \/ /\ IF loc[c].checked THEN Fail ELSE UNCHANGED bounds
          /\ unrecorded' = unrecorded \cup {loc[c].call} /\ UNCHANGED usage
    /\ UNCHANGED <<post, pending, policies, rows, calls, accepted>>

-----------------------------------------------------------------------------
(* Approvals of what the budget held back, and the administrator. *)

\* approveRequest; the executor publishes without budgetPolicyRepo and usageRepo.
Approve(c) ==
    /\ Offered(c, "review")
    /\ \E p \in Posts :
         /\ pending[p] > 0 /\ pending' = [pending EXCEPT ![p] = @ - 1]
         /\ SetLocals(c, [NoLocals EXCEPT !.post = p, !.checked = FALSE])
    /\ Goto(c, "reset")
    /\ UNCHANGED <<post, policies, spending, accepted, bounds>>

ExecutorReset(c) ==
    /\ Turn(c, "reset")
    /\ IF PostOf(c).status = "scheduled" THEN SetStatus(loc[c].post, "draft")
       ELSE UNCHANGED post
    /\ Goto(c, "load")
    /\ UNCHANGED <<pending, policies, spending, accepted, loc, bounds>>

RejectUnasked(c) ==
    /\ Offered(c, "review")
    /\ \E p \in Posts :
         /\ post[p].status = "scheduled" /\ pending' = [pending EXCEPT ![p] = @ - 1]
         /\ SetLocals(c, [NoLocals EXCEPT !.post = p])
    /\ Goto(c, "unhold")
    /\ UNCHANGED <<post, policies, spending, accepted, bounds>>

Reject(c) ==
    /\ Offered(c, "review")
    /\ \E p \in Posts :
         /\ pending[p] > 0 /\ pending' = [pending EXCEPT ![p] = @ - 1]
         /\ SetLocals(c, [NoLocals EXCEPT !.post = p])
    /\ Goto(c, "unhold")
    /\ UNCHANGED <<post, policies, spending, accepted, bounds>>

RejectDraft(c) ==
    /\ Turn(c, "unhold")
    /\ IF PostOf(c).status = "scheduled" THEN SetStatus(loc[c].post, "draft")
       ELSE UNCHANGED post
    /\ Finish(c)
    /\ UNCHANGED <<pending, policies, spending, accepted, bounds>>

\* createPolicy, updatePolicy, deletePolicy.
WritePolicies(c) ==
    /\ Offered(c, "policies")
    /\ \/ \E pol \in NewPolicies :
            Len(policies) < MaxPolicies /\ policies' = Append(policies, pol)
       \/ \E i \in DOMAIN policies, pol \in NewPolicies :
            policies' = [policies EXCEPT ![i] = pol]
       \/ \E i \in DOMAIN policies :
            policies' = SubSeq(policies, 1, i - 1) \o SubSeq(policies, i + 1, Len(policies))
    /\ UNCHANGED <<post, pending, spending, accepted, pc, loc, bounds>>

-----------------------------------------------------------------------------
(* What goes on around the requests. *)

\* The inbox pays for its own calls.
OtherUsage ==
    /\ rows < MaxRows /\ rows' = rows + 1
    /\ \E v \in Platforms :
         usage' = usage \cup {[id |-> rows, platform |-> v, endpoint |-> "inbox.reply"]}
    /\ UNCHANGED <<post, pending, policies, calls, unrecorded, accepted, pc, loc, bounds>>

CallsInHand(C) == {loc[c].call : c \in {d \in C : pc[d] \in InHand}}

\* getPeriodStart moves on; calls under way will be paid in the new period.
NewPeriod ==
    /\ usage' = {} /\ unrecorded' = {} /\ calls' = CallsInHand(Clients)
    /\ UNCHANGED <<post, pending, policies, rows, accepted, pc, loc, bounds>>

Crash(h) ==
    LET dead == {c \in Clients : HostOf[c] = h} IN
    /\ crashes < MaxCrashes /\ crashes' = crashes + 1
    /\ unrecorded' = unrecorded \cup CallsInHand(dead)
    /\ pc' = [c \in Clients |-> IF c \in dead THEN "idle" ELSE pc[c]]
    /\ loc' = [c \in Clients |-> IF c \in dead THEN NoLocals ELSE loc[c]]
    /\ UNCHANGED <<post, pending, policies, usage, rows, calls, accepted, failures>>

-----------------------------------------------------------------------------
Create(c)   == StartCreate(c) \/ FindByKey(c) \/ Insert(c)

Check(c) ==
    \/ StartPublish(c) \/ Load(c) \/ FindPolicies(c) \/ Evaluate(c)
    \/ CreateRequest(c) \/ HoldPost(c)

Publish(c) ==
    \/ NoAccount(c) \/ MarkPublishing(c) \/ Accept(c) \/ Reply(c)
    \/ CallFails(c) \/ CallThrows(c) \/ RecordOutcome(c) \/ RecordUsage(c)

Manage(c) ==
    \/ Approve(c) \/ ExecutorReset(c) \/ Reject(c) \/ RejectDraft(c)
    \/ WritePolicies(c)

Next ==
    \/ \E c \in Clients : Create(c) \/ Check(c) \/ Publish(c) \/ Manage(c)
    \/ OtherUsage \/ NewPeriod
    \/ \E h \in Hosts : Crash(h)

Spec == Init /\ [][Next]_vars

-----------------------------------------------------------------------------
(* Properties. *)

Recorded == {row \in usage : row.endpoint = "post.publish"}

\* The usage records stand for publications asked of platforms, each once: a call
\* of this period, answered or not, is recorded or in the hands of one request
\* that will record it, unless its process died, the provider threw it back, the
\* insert of the record failed or the publication was an approved one; the calls
\* that end in one of these four ways (unrecorded) have no record at all.
Ledger ==
    /\ calls = Recorded \cup CallsInHand(Clients) \cup unrecorded
    /\ Recorded \cap CallsInHand(Clients) = {}
    /\ unrecorded \cap (Recorded \cup CallsInHand(Clients)) = {}

\* Requests that check at the same time pass the limit of a policy by at most
\* one call each: when a policy that stops lets a request through, the calls of
\* its scope that are recorded or in hand are fewer than the limit and the other
\* requests that may be publishing.  The calls of unrecorded are not counted,
\* by the code or here: with them, what was spent has no bound.
OvershootBounded ==
    [][\A c \in Clients :
          LET pol == loc[c].policy IN
          pc[c] = "aggregate" /\ pc'[c] = "mark" /\ pol.action # "warn" =>
             Cardinality({row \in (usage \cup calls) \ unrecorded : InScope(pol, row)})
                < pol.limit + Cardinality(Publishers) - 1]_vars

\* However often requests are repeated with one key, what they ask for is
\* published once.
PublishedOncePerKey ==
    /\ \A p \in Posts : accepted[p] <= 1
    /\ \A p, q \in Posts : accepted[p] > 0 /\ accepted[q] > 0
                           /\ post[p].key = post[q].key /\ post[p].key # None => p = q
=============================================================================
