----------------------------- MODULE AgentGateway ----------------------------
(***************************************************************************)
(* The agent gateway: POST /agent/chat asks a language model over the      *)
(* route of the workspace, its fallback when the call fails, and previews  *)
(* the skill action the model asks for; POST /agent/execute runs one       *)
(* (routes/agent.ts, usecases/agent-gateway.ts, llm/src/router.ts,         *)
(* skills/src/runtime/executor.ts), while administrators change the routes *)
(* and the skill packages.                                                 *)
(*                                                                         *)
(* One step is one SQL statement or the answer of a model or a platform;   *)
(* requests of one process interleave only where they wait for an answer.  *)
(***************************************************************************)
EXTENDS Naturals, FiniteSets

CONSTANTS Chats, Executions,  \* the requests
          HostOf,       \* the OS process that serves each
          Packages,     \* names of skill packages
          Manifest,     \* the actions each package declares
          Providers,    \* of language models
          Adapters,     \* those with an API key in the environment
          RouteRows,    \* the routes an administrator may write
          Posts,        \* the rows the executions may insert
          MaxCalls,     \* bound on the calls of language models
          MaxFaults,    \* bound on inserts that fail and processes that crash
          None

Requests == Chats \cup Executions
Hosts    == {HostOf[c] : c \in Requests}
Actions  == {"post.list", "post.create", "post.schedule"}

\* llm_routes, as far as a chat, which names no platform, tells them apart.
Routes == [platform : {"x", None}, action : {"chat", "summarize", None},
           priority : Nat, provider : Providers, fallback : Providers \cup {None}]

Intents == [package : Packages, action : Actions]

\* A call of a language model, and whether it was answered.
Calls == [provider : Providers, ok : BOOLEAN]

ASSUME GatewayAssumption ==
    /\ IsFiniteSet(Requests) /\ IsFiniteSet(RouteRows) /\ Chats \cap Executions = {}
    /\ Manifest \in [Packages -> SUBSET Actions]
    /\ Adapters \subseteq Providers /\ RouteRows \subseteq Routes
    /\ None \notin RouteRows /\ None \notin Intents /\ None \notin Posts
    /\ None \notin Providers /\ None \notin {"execute", "failed"}
    /\ MaxCalls \in Nat /\ MaxFaults \in Nat

VARIABLES package,   \* the skill_packages rows: absent, disabled or enabled
          routes,    \* the llm_routes rows
          calls,     \* how many calls have ended, by provider and outcome
          usage,     \* the usage_records rows, likewise
          unused,    \* calls no record will ever stand for
          post,      \* the posts rows executions have inserted
          chats,     \* the agent.chat rows of audit_logs
          unlogged,  \* chats and posts audit_logs will never tell of
          logged,    \* the outcome audit_logs tells of the execution of a post
          shown,     \* the package of the preview a chat has returned
          pc, loc,
          faults

spending == <<calls, usage, unused>>
trail    == <<chats, unlogged, logged>>
vars     == <<package, routes, spending, post, trail, shown, pc, loc, faults>>

-----------------------------------------------------------------------------
NoLocals == [enabled |-> {}, route |-> None, last |-> FALSE, ok |-> FALSE,
             intent |-> None, fine |-> FALSE, now |-> FALSE, post |-> None]

Locals ==
    [enabled : SUBSET Packages,        \* the packages read for the prompt
     route : RouteRows \cup {None},    \* resolved
     last : BOOLEAN,                   \* the fallback is being asked
     ok : BOOLEAN,                     \* the call has an answer
     intent : Intents \cup {None},     \* None: an answer in words
     fine : BOOLEAN,                   \* arguments and mode allow the action
     now : BOOLEAN,                    \* args.publishNow
     post : Posts \cup {None}]

Yielding == {"idle", "asking", "publishing"}
Asking   == {"asking", "record"}
PCs      == Yielding \cup Asking \cup
            {"resolve", "log", "preview", "invoke", "publish", "schedule",
             "logDone", "logFailed"}

TypeOK ==
    /\ package \in [Packages -> {"absent", "disabled", "enabled"}]
    /\ routes \subseteq RouteRows
    /\ calls \in [Calls -> Nat] /\ usage \in [Calls -> Nat] /\ unused \in [Calls -> Nat]
    /\ post \in [Posts -> {"absent", "draft", "scheduled", "publishing",
                           "published", "failed"}]
    /\ chats \in Nat
    /\ unlogged \in [chats : Nat, posts : SUBSET Posts]
    /\ logged \in [Posts -> {None, "execute", "failed"}]
    /\ shown \in [Chats -> Packages \cup {None}]
    /\ pc \in [Requests -> PCs] /\ loc \in [Requests -> Locals]
    /\ \A c \in Chats : pc[c] \in Asking => loc[c].route # None
    /\ faults \in 0..MaxFaults

Init ==
    /\ package = [p \in Packages |-> "absent"] /\ routes = {}
    /\ calls = [k \in Calls |-> 0] /\ usage = calls /\ unused = calls
    /\ post = [p \in Posts |-> "absent"] /\ chats = 0
    /\ unlogged = [chats |-> 0, posts |-> {}]
    /\ logged = [p \in Posts |-> None] /\ shown = [c \in Chats |-> None]
    /\ pc = [c \in Requests |-> "idle"] /\ loc = [c \in Requests |-> NoLocals]
    /\ faults = 0

-----------------------------------------------------------------------------
Free(h)    == \A c \in Requests : HostOf[c] = h => pc[c] \in Yielding
Turn(c, l) ==
    /\ pc[c] = l
    /\ \A d \in Requests \ {c} : HostOf[d] = HostOf[c] => pc[d] \in Yielding

Goto(c, l)      == pc' = [pc EXCEPT ![c] = l]
SetLocals(c, x) == loc' = [loc EXCEPT ![c] = x]
Finish(c)       == Goto(c, "idle") /\ SetLocals(c, NoLocals)

Fault == faults < MaxFaults /\ faults' = faults + 1

\* loadEnabledSkillPackages.
Enabled == {p \in Packages : package[p] = "enabled"}

-----------------------------------------------------------------------------
(* POST /agent/chat: the language model. *)

StartChat(c) ==
    /\ Turn(c, "idle")
    /\ SetLocals(c, [NoLocals EXCEPT !.enabled = Enabled]) /\ Goto(c, "resolve")
    /\ shown' = [shown EXCEPT ![c] = None]
    /\ UNCHANGED <<package, routes, spending, post, trail, faults>>

Candidates == {r \in routes : r.platform = None /\ r.action \in {"chat", None}}

\* The route for chats goes before a default route, then the priority decides.
Before(r, s) ==
    \/ r.action = "chat" /\ s.action = None
    \/ r.action = s.action /\ r.priority > s.priority

Winners == {r \in Candidates : ~\E s \in Candidates : Before(s, r)}

ResolveAnything(c) ==
    /\ Turn(c, "resolve")
    /\ \E r \in Winners \cup {None} :
         SetLocals(c, [loc[c] EXCEPT !.route = r]) /\ Goto(c, "asking")
    /\ UNCHANGED <<package, routes, spending, post, trail, shown, faults>>

\* resolveLlmRoute; without a route, or a key for its provider, the chat fails.
ResolveRoute(c) ==
    /\ Turn(c, "resolve")
    /\ \/ \E r \in Winners :
            /\ r.provider \in Adapters
            /\ SetLocals(c, [loc[c] EXCEPT !.route = r]) /\ Goto(c, "asking")
       \/ /\ Winners = {} \/ \E r \in Winners : r.provider \notin Adapters
          /\ Finish(c)
    /\ UNCHANGED <<package, routes, spending, post, trail, shown, faults>>

\* The call that is being made, or that was.
Call(c) == [provider |-> IF loc[c].last THEN loc[c].route.fallback
                         ELSE loc[c].route.provider,
            ok |-> loc[c].ok]

\* The calls that have ended, numbered within their kind.
Ended     == {e \in Calls \X (1..MaxCalls) : e[2] <= calls[e[1]]}
CallsMade == Cardinality(Ended)
Answered  == Cardinality({e \in Ended : e[1].ok})

\* adapter.chat returns, words or an intent, or throws.
Answer(c) ==
    /\ Turn(c, "asking") /\ CallsMade < MaxCalls
    /\ \E ok \in BOOLEAN, i \in Intents \cup {None} :
         /\ ~ok => i = None
         /\ SetLocals(c, [loc[c] EXCEPT !.ok = ok, !.intent = i])
         /\ calls' = [calls EXCEPT ![[Call(c) EXCEPT !.ok = ok]] = @ + 1]
    /\ Goto(c, "record")
    /\ UNCHANGED <<package, routes, usage, unused, post, trail, shown, faults>>

\* After a call: the answer, the fallback, or the error.
Continue(c) ==
    \/ loc[c].ok /\ Goto(c, "log") /\ UNCHANGED loc
    \/ /\ ~loc[c].ok /\ ~loc[c].last /\ loc[c].route.fallback \in Adapters
       /\ SetLocals(c, [loc[c] EXCEPT !.last = TRUE]) /\ Goto(c, "asking")
    \/ /\ ~loc[c].ok /\ (loc[c].last \/ loc[c].route.fallback \notin Adapters)
       /\ Finish(c)

RecordUsageAtTheEnd(c) ==
    /\ Turn(c, "record") /\ Continue(c)
    /\ usage' = IF pc'[c] = "asking" THEN usage ELSE [usage EXCEPT ![Call(c)] = @ + 1]
    /\ UNCHANGED <<package, routes, calls, unused, post, trail, shown, faults>>

\* safeRecordUsage: an insert that fails is only printed.
RecordUsage(c) ==
    /\ Turn(c, "record") /\ Continue(c)
    /\ \/ usage' = [usage EXCEPT ![Call(c)] = @ + 1] /\ UNCHANGED <<unused, faults>>
       \/ Fault /\ unused' = [unused EXCEPT ![Call(c)] = @ + 1] /\ UNCHANGED usage
    /\ UNCHANGED <<package, routes, calls, post, trail, shown>>

-----------------------------------------------------------------------------
(* POST /agent/chat: the preview. *)

\* The agent.chat row comes before the intent is looked at.
LogChat(c) ==
    /\ Turn(c, "log")
    /\ \/ chats' = chats + 1 /\ UNCHANGED <<unlogged, faults>>
       \/ /\ Fault /\ UNCHANGED chats
          /\ unlogged' = [unlogged EXCEPT !.chats = @ + 1]
    /\ \/ /\ loc[c].intent # None /\ loc[c].intent.package \in loc[c].enabled
          /\ Goto(c, "preview") /\ UNCHANGED loc
       \/ /\ loc[c].intent # None => loc[c].intent.package \notin loc[c].enabled
          /\ Finish(c)
    /\ UNCHANGED <<package, routes, spending, post, logged, shown>>

Offers(p, a)       == p \in Enabled /\ a \in Manifest[p]

PreviewAsPrompted(c) ==
    /\ Turn(c, "preview") /\ Finish(c)
    /\ shown' = [shown EXCEPT ![c] = loc[c].intent.package]
    /\ UNCHANGED <<package, routes, spending, post, trail, faults>>

\* dryRunInvoker reads the packages again, and finds the action or throws.
DryRun(c) ==
    LET i == loc[c].intent IN
    /\ Turn(c, "preview") /\ Finish(c)
    /\ shown' = IF Offers(i.package, i.action) THEN [shown EXCEPT ![c] = i.package]
                ELSE shown
    /\ UNCHANGED <<package, routes, spending, post, trail, faults>>

-----------------------------------------------------------------------------
(* POST /agent/execute. *)

\* Bounds the executions by the rows there are for their posts.
Room == Cardinality({p \in Posts : post[p] = "absent"})
          > Cardinality({d \in Executions : pc[d] = "invoke"})

\* An action that is not offered, or not permitted to the role, is refused and
\* nothing is logged.  "post.list" stands for every action that only reads.
StartExecution(c) ==
    /\ Turn(c, "idle") /\ Room
    /\ \E i \in Intents, fine \in BOOLEAN, now \in BOOLEAN :
         /\ Offers(i.package, i.action)
         /\ SetLocals(c, [NoLocals EXCEPT !.intent = i, !.fine = fine, !.now = now])
    /\ Goto(c, "invoke")
    /\ UNCHANGED <<package, routes, spending, post, trail, shown, faults>>

Invoked(c) == loc[c].fine /\ Offers(loc[c].intent.package, loc[c].intent.action)

\* executeInvoker reads the packages again; executeSkillAction checks arguments
\* and mode; the invoker lists posts, or createPost inserts a draft.
Invoke(c) ==
    LET a == loc[c].intent.action IN
    /\ Turn(c, "invoke")
    /\ \/ ~Invoked(c) /\ Goto(c, "logFailed") /\ UNCHANGED <<post, loc>>
       \/ Invoked(c) /\ a = "post.list" /\ Goto(c, "logDone") /\ UNCHANGED <<post, loc>>
       \/ /\ Invoked(c) /\ a # "post.list"
          /\ \E p \in Posts :
               /\ post[p] = "absent"
               /\ post' = [post EXCEPT ![p] = "draft"]
               /\ SetLocals(c, [loc[c] EXCEPT !.post = p])
          /\ Goto(c, IF a = "post.schedule" THEN "schedule"
                     ELSE IF loc[c].now THEN "publish" ELSE "logDone")
    /\ UNCHANGED <<package, routes, spending, trail, shown, faults>>

SetStatus(c, s) == post' = [post EXCEPT ![loc[c].post] = s]

\* schedulePost, whose two writes PostScheduler tells apart; it refuses a time
\* that is past, when the draft is there.
SchedulePost(c) ==
    /\ Turn(c, "schedule")
    /\ \/ SetStatus(c, "scheduled") /\ Goto(c, "logDone")
       \/ Goto(c, "logFailed") /\ UNCHANGED post
    /\ UNCHANGED <<package, routes, spending, trail, shown, loc, faults>>

\* publishPost: the platform is called, unless the account is gone or, after the
\* post was marked, its credentials cannot be decrypted.
PublishPost(c) ==
    /\ Turn(c, "publish")
    /\ \/ SetStatus(c, "publishing") /\ Goto(c, "publishing")
       \/ SetStatus(c, "publishing") /\ Goto(c, "logFailed")
       \/ Goto(c, "logFailed") /\ UNCHANGED post
    /\ UNCHANGED <<package, routes, spending, trail, shown, loc, faults>>

\* A ProviderError that publishPost itself throws is rethrown and leaves the post
\* as it is.
Published(c) ==
    /\ Turn(c, "publishing")
    /\ \/ SetStatus(c, "published") /\ Goto(c, "logDone")
       \/ SetStatus(c, "failed") /\ Goto(c, "logFailed")
       \/ Goto(c, "logFailed") /\ UNCHANGED post
    /\ UNCHANGED <<package, routes, spending, trail, shown, loc, faults>>

\* The agent.execute or agent.execute.failed row, if it can be inserted.
LogOutcome(c, outcome) ==
    LET p == loc[c].post IN
    /\ \/ /\ logged' = IF p = None THEN logged ELSE [logged EXCEPT ![p] = outcome]
          /\ UNCHANGED <<unlogged, faults>>
       \/ /\ Fault /\ UNCHANGED logged
          /\ unlogged' = [unlogged EXCEPT !.posts = @ \cup ({p} \ {None})]
    /\ Finish(c)
    /\ UNCHANGED <<package, routes, spending, post, chats, shown>>

LogDone(c)    == Turn(c, "logDone") /\ LogOutcome(c, "execute")

NotLogged(c) ==
    /\ Turn(c, "logFailed") /\ Finish(c)
    /\ UNCHANGED <<package, routes, spending, post, trail, shown, faults>>

LogFailed(c)  == Turn(c, "logFailed") /\ LogOutcome(c, "failed")

-----------------------------------------------------------------------------
(* Administration and crashes. *)

\* generateSkillPackage keeps what an existing package is; PATCH /skills/:id.
WritePackage ==
    \E h \in Hosts, p \in Packages :
      /\ Free(h)
      /\ \/ package[p] = "absent" /\ package' = [package EXCEPT ![p] = "disabled"]
         \/ /\ package[p] # "absent"
            /\ \E s \in {"disabled", "enabled"} : package' = [package EXCEPT ![p] = s]
      /\ UNCHANGED <<routes, spending, post, trail, shown, pc, loc, faults>>

\* POST, PATCH and DELETE /llm/routes.
WriteRoutes ==
    \E h \in Hosts, r \in RouteRows :
      /\ Free(h)
      /\ routes' \in {routes \cup {r}, routes \ {r}}
      /\ UNCHANGED <<package, spending, post, trail, shown, pc, loc, faults>>

Crash(h) ==
    LET died == {c \in Requests : HostOf[c] = h} IN
    /\ Fault
    /\ unused' = [k \in Calls |-> unused[k] +
                    Cardinality({c \in died : pc[c] = "record" /\ Call(c) = k})]
    /\ unlogged' =
         [chats |-> unlogged.chats + Cardinality(
                      {c \in died : pc[c] \in Asking \cup {"log"} /\ loc[c].ok}),
          posts |-> unlogged.posts \cup ({loc[c].post : c \in died} \ {None})]
    /\ pc' = [c \in Requests |-> IF c \in died THEN "idle" ELSE pc[c]]
    /\ loc' = [c \in Requests |-> IF c \in died THEN NoLocals ELSE loc[c]]
    /\ UNCHANGED <<package, routes, calls, usage, post, chats, logged, shown>>

-----------------------------------------------------------------------------
Chat(c)    == StartChat(c) \/ ResolveRoute(c) \/ Answer(c) \/ RecordUsage(c)
              \/ LogChat(c) \/ DryRun(c)
Execute(c) == StartExecution(c) \/ Invoke(c) \/ SchedulePost(c) \/ PublishPost(c)
              \/ Published(c) \/ LogDone(c) \/ LogFailed(c)

Next ==
    \/ \E c \in Chats : Chat(c)
    \/ \E c \in Executions : Execute(c)
    \/ WritePackage \/ WriteRoutes
    \/ \E h \in Hosts : Crash(h)

Spec == Init /\ [][Next]_vars

-----------------------------------------------------------------------------
(* Properties. *)

\* Every call of a language model, the failed one before its fallback too, is in
\* usage_records once under the provider and the outcome it had, unless the
\* process died or the insert failed: router.ts 134.
UsageTellsCalls ==
    \A k \in Calls :
      calls[k] = usage[k] + unused[k]
                 + Cardinality({c \in Chats : pc[c] = "record" /\ Call(c) = k})

\* A chat never shows a preview of a package that is no longer enabled, however
\* long the model took to ask for it: the list the prompt was made from is old by
\* then.
PreviewIsCurrent ==
    [][\A c \in Chats : shown'[c] # None /\ shown'[c] # shown[c]
         => package[shown'[c]] = "enabled"]_vars

\* Whatever the model answered and whatever an execution has left behind is told
\* of in the audit log, as what it became, unless the process died or the insert
\* failed.
AuditTrail ==
    /\ Answered = chats + unlogged.chats
         + Cardinality({c \in Chats : pc[c] \in Asking \cup {"log"} /\ loc[c].ok})
    /\ \A p \in Posts :
         /\ post[p] # "absent" =>
              \/ logged[p] # None \/ p \in unlogged.posts
              \/ \E c \in Executions : loc[c].post = p
         /\ logged[p] = "execute" => post[p] \in {"draft", "scheduled", "published"}
         /\ logged[p] = "failed"  => post[p] \in {"draft", "publishing", "failed"}
=============================================================================
