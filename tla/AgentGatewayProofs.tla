-------------------------- MODULE AgentGatewayProofs --------------------------
(***************************************************************************)
(* TLAPS proofs about AgentGateway: types, that the usage records tell of  *)
(* every call of a language model (UsageTellsCalls) and the audit log of   *)
(* every answer and post (AuditTrail), and that no chat shows the preview  *)
(* of a package that was disabled, for any number of requests, processes,  *)
(* routes and packages.                                                    *)
(***************************************************************************)
EXTENDS AgentGateway, FiniteSetTheorems, TLAPS

-----------------------------------------------------------------------------
(* Types, and what a request has in hand where. *)

HandOK(c, l, x) ==
    /\ c \in Chats /\ l \in Asking => x.route # None
    /\ c \in Chats /\ l = "preview" => x.intent # None
    /\ c \in Executions => l \notin Asking

TypeInv == TypeOK /\ \A c \in Requests : HandOK(c, pc[c], loc[c])

\* Request c goes to statement l with locals x.
Moves(c, l, x) == pc' = [pc EXCEPT ![c] = l] /\ loc' = [loc EXCEPT ![c] = x]

LEMMA NoLocalsType == NoLocals \in Locals /\ \A c : HandOK(c, "idle", NoLocals)
BY DEF NoLocals, Locals, HandOK, Asking

LEMMA MoveTypes ==
    ASSUME TypeInv, NEW c \in Requests, NEW l \in PCs, NEW x \in Locals,
           Moves(c, l, x), HandOK(c, l, x)
    PROVE  /\ pc' \in [Requests -> PCs] /\ loc' \in [Requests -> Locals]
           /\ pc'[c] = l /\ loc'[c] = x
           /\ \A d \in Requests : d # c => pc'[d] = pc[d] /\ loc'[d] = loc[d]
           /\ \A d \in Requests : HandOK(d, pc'[d], loc'[d])
BY DEF TypeInv, TypeOK, Moves

LEMMA FinishMoves == \A c : Finish(c) => Moves(c, "idle", NoLocals)
BY DEF Finish, Goto, SetLocals, Moves

LEMMA GotoMoves ==
    ASSUME TypeInv, NEW c \in Requests, NEW l, Goto(c, l), loc' = loc
    PROVE  Moves(c, l, loc[c])
BY DEF Goto, Moves, TypeInv, TypeOK

LEMMA SetLocalsMoves == \A c, l, x : Goto(c, l) /\ SetLocals(c, x) => Moves(c, l, x)
BY DEF Goto, SetLocals, Moves

\* Statements and locals as TypeOK wants them, and the other variables too.
LEMMA TypesKept ==
    ASSUME TypeInv, NEW c \in Requests, NEW l \in PCs, NEW x \in Locals,
           Moves(c, l, x), HandOK(c, l, x),
           package' \in [Packages -> {"absent", "disabled", "enabled"}],
           routes' \subseteq RouteRows,
           calls' \in [Calls -> Nat], usage' \in [Calls -> Nat],
           unused' \in [Calls -> Nat],
           post' \in [Posts -> {"absent", "draft", "scheduled", "publishing",
                                "published", "failed"}],
           chats' \in Nat, unlogged' \in [chats : Nat, posts : SUBSET Posts],
           logged' \in [Posts -> {None, "execute", "failed"}],
           shown' \in [Chats -> Packages \cup {None}], faults' \in 0..MaxFaults
    PROVE  TypeInv'
<1>1. /\ pc' \in [Requests -> PCs] /\ loc' \in [Requests -> Locals]
      /\ \A d \in Requests : HandOK(d, pc'[d], loc'[d])
  BY MoveTypes
<1>2. \A d \in Chats : pc'[d] \in Asking => loc'[d].route # None
  BY <1>1 DEF HandOK, Requests
<1>. QED  BY <1>1, <1>2 DEF TypeInv, TypeOK

LEMMA FaultType == TypeInv /\ Fault => faults' \in 0..MaxFaults
BY GatewayAssumption DEF TypeInv, TypeOK, Fault

-----------------------------------------------------------------------------
(* The requests that owe a usage record. *)

Owing(k) == {c \in Chats : pc[c] = "record" /\ Call(c) = k}

LEMMA OwingFinite ==
    ASSUME NEW k
    PROVE  IsFiniteSet(Owing(k)) /\ Cardinality(Owing(k)) \in Nat
<1>1. IsFiniteSet(Requests) /\ Owing(k) \subseteq Requests
  BY GatewayAssumption DEF Owing, Requests
<1>. QED  BY <1>1, FS_Subset, FS_CardinalityType

\* A request that is at no record before and after leaves the debts alone.
LEMMA OwingKept ==
    ASSUME TypeInv, NEW c \in Requests, NEW l \in PCs, NEW x \in Locals,
           Moves(c, l, x), HandOK(c, l, x), pc[c] # "record", l # "record",
           UNCHANGED spending, UsageTellsCalls
    PROVE  UsageTellsCalls'
<1>1. /\ pc'[c] = l
      /\ \A d \in Requests : d # c => pc'[d] = pc[d] /\ loc'[d] = loc[d]
  BY MoveTypes
<1>2. ASSUME NEW k PROVE Owing(k)' = Owing(k)
  BY <1>1 DEF Owing, Call, Requests
<1>. QED  BY <1>2 DEF UsageTellsCalls, Owing, spending

LEMMA AnswerBooks ==
    ASSUME TypeInv, UsageTellsCalls, NEW c \in Chats, NEW ok \in BOOLEAN, NEW x \in Locals,
           pc[c] = "asking", Moves(c, "record", x), HandOK(c, "record", x),
           x.ok = ok, x.route = loc[c].route, x.last = loc[c].last,
           calls' = [calls EXCEPT ![[Call(c) EXCEPT !.ok = ok]] = @ + 1],
           UNCHANGED <<usage, unused>>
    PROVE  UsageTellsCalls'
<1> DEFINE key == [Call(c) EXCEPT !.ok = ok]
<1>0. c \in Requests /\ "record" \in PCs
  BY DEF Requests, PCs, Asking
<1>1. /\ pc'[c] = "record" /\ loc'[c] = x
      /\ \A d \in Requests : d # c => pc'[d] = pc[d] /\ loc'[d] = loc[d]
  BY <1>0, MoveTypes
<1>2. Call(c)' = key
  BY <1>1 DEF Call
<1>. SUFFICES ASSUME NEW k \in Calls
              PROVE  calls'[k] = usage'[k] + unused'[k] + Cardinality(Owing(k)')
  BY DEF UsageTellsCalls, Owing
<1>3. /\ calls[k] = usage[k] + unused[k] + Cardinality(Owing(k))
      /\ calls[k] \in Nat /\ usage[k] \in Nat /\ unused[k] \in Nat
      /\ IsFiniteSet(Owing(k)) /\ Cardinality(Owing(k)) \in Nat
  BY OwingFinite DEF UsageTellsCalls, Owing, TypeInv, TypeOK
<1>4. CASE k = key
  <2>1. Owing(k)' = Owing(k) \cup {c} /\ c \notin Owing(k)
    BY <1>1, <1>2, <1>4 DEF Owing, Call, Requests
  <2>2. Cardinality(Owing(k)') = Cardinality(Owing(k)) + 1
    BY <1>3, <2>1, FS_AddElement
  <2>3. calls'[k] = calls[k] + 1
    BY <1>4 DEF TypeInv, TypeOK
  <2>. QED  BY <1>3, <2>2, <2>3
<1>5. CASE k # key
  <2>1. Owing(k)' = Owing(k)
    BY <1>1, <1>2, <1>5 DEF Owing, Call, Requests
  <2>2. calls'[k] = calls[k]
    BY <1>5 DEF TypeInv, TypeOK
  <2>. QED  BY <1>3, <2>1, <2>2
<1>. QED  BY <1>4, <1>5

LEMMA RecordBooks ==
    ASSUME TypeInv, UsageTellsCalls, NEW c \in Chats, NEW l \in PCs, NEW x \in Locals,
           pc[c] = "record", l # "record", Moves(c, l, x), HandOK(c, l, x),
           UNCHANGED calls,
           \/ usage' = [usage EXCEPT ![Call(c)] = @ + 1] /\ UNCHANGED unused
           \/ unused' = [unused EXCEPT ![Call(c)] = @ + 1] /\ UNCHANGED usage
    PROVE  UsageTellsCalls'
<1>0. c \in Requests
  BY DEF Requests
<1>1. /\ pc'[c] = l
      /\ \A d \in Requests : d # c => pc'[d] = pc[d] /\ loc'[d] = loc[d]
  BY <1>0, MoveTypes
<1>. SUFFICES ASSUME NEW k \in Calls
              PROVE  calls'[k] = usage'[k] + unused'[k] + Cardinality(Owing(k)')
  BY DEF UsageTellsCalls, Owing
<1>2. /\ calls[k] = usage[k] + unused[k] + Cardinality(Owing(k))
      /\ calls'[k] = calls[k]
      /\ calls[k] \in Nat /\ usage[k] \in Nat /\ unused[k] \in Nat
      /\ IsFiniteSet(Owing(k)) /\ Cardinality(Owing(k)) \in Nat
  BY OwingFinite DEF UsageTellsCalls, Owing, TypeInv, TypeOK
<1>3. CASE k = Call(c)
  <2>1. Owing(k)' = Owing(k) \ {c} /\ c \in Owing(k)
    BY <1>1, <1>3 DEF Owing, Call, Requests
  <2>2. Cardinality(Owing(k)') = Cardinality(Owing(k)) - 1
    BY <1>2, <2>1, FS_RemoveElement
  <2>3. \/ usage'[k] = usage[k] + 1 /\ unused'[k] = unused[k]
        \/ usage'[k] = usage[k] /\ unused'[k] = unused[k] + 1
    BY <1>3 DEF TypeInv, TypeOK
  <2>. QED  BY <1>2, <2>2, <2>3
<1>4. CASE k # Call(c)
  <2>1. Owing(k)' = Owing(k)
    BY <1>1, <1>4 DEF Owing, Call, Requests
  <2>2. usage'[k] = usage[k] /\ unused'[k] = unused[k]
    BY <1>4 DEF TypeInv, TypeOK
  <2>. QED  BY <1>2, <2>1, <2>2
<1>. QED  BY <1>3, <1>4

-----------------------------------------------------------------------------
(* The steps of a chat. *)

GatewayInv == TypeInv /\ UsageTellsCalls

LEMMA StartChatStep ==
    ASSUME GatewayInv, NEW c \in Chats, StartChat(c) PROVE GatewayInv'
<1> DEFINE x == [NoLocals EXCEPT !.enabled = Enabled]
<1>1. c \in Requests /\ pc[c] = "idle" /\ "resolve" \in PCs
  BY DEF StartChat, Turn, Requests, PCs
<1>2. Moves(c, "resolve", x)
  BY SetLocalsMoves DEF StartChat
<1>3. x \in Locals
  BY DEF NoLocals, Locals, Enabled
<1>4. HandOK(c, "resolve", x)
  BY GatewayAssumption DEF HandOK, Asking
<1>5. shown' \in [Chats -> Packages \cup {None}]
  BY DEF StartChat, GatewayInv, TypeInv, TypeOK
<1>6. UNCHANGED <<package, routes, spending, post, trail, faults>>
  BY DEF StartChat
<1>7. TypeInv'
  BY <1>1, <1>2, <1>3, <1>4, <1>5, <1>6, TypesKept
     DEF GatewayInv, TypeInv, TypeOK, spending, trail
<1>. QED  BY <1>1, <1>2, <1>3, <1>4, <1>6, <1>7, OwingKept DEF GatewayInv

\* A step that only moves a request and leaves every table as it was.
LEMMA QuietStep ==
    ASSUME GatewayInv, NEW c \in Requests, NEW l \in PCs, NEW x \in Locals,
           Moves(c, l, x), HandOK(c, l, x), pc[c] # "record", l # "record",
           UNCHANGED <<package, routes, spending, post, trail, shown, faults>>
    PROVE  GatewayInv'
<1>1. TypeInv'
  BY TypesKept DEF GatewayInv, TypeInv, TypeOK, spending, trail
<1>. QED  BY <1>1, OwingKept DEF GatewayInv

LEMMA ResolveRouteStep ==
    ASSUME GatewayInv, NEW c \in Chats, ResolveRoute(c) PROVE GatewayInv'
<1>1. /\ c \in Requests /\ pc[c] = "resolve" /\ loc[c] \in Locals
      /\ UNCHANGED <<package, routes, spending, post, trail, shown, faults>>
  BY DEF ResolveRoute, Turn, Requests, GatewayInv, TypeInv, TypeOK
<1>2. CASE Finish(c)
  BY <1>1, <1>2, FinishMoves, NoLocalsType, QuietStep DEF PCs, Yielding
<1>3. ASSUME NEW r \in Winners,
             SetLocals(c, [loc[c] EXCEPT !.route = r]), Goto(c, "asking")
      PROVE  GatewayInv'
  <2> DEFINE x == [loc[c] EXCEPT !.route = r]
  <2>1. r \in RouteRows /\ r # None
    BY GatewayAssumption DEF Winners, Candidates, GatewayInv, TypeInv, TypeOK
  <2>2. x \in Locals /\ x.route # None
    BY <1>1, <2>1 DEF Locals
  <2>3. HandOK(c, "asking", x)
    BY <2>2, GatewayAssumption DEF HandOK
  <2>4. Moves(c, "asking", x)
    BY <1>3, SetLocalsMoves
  <2>. QED  BY <1>1, <2>2, <2>3, <2>4, QuietStep DEF PCs, Yielding
<1>. QED  BY <1>2, <1>3 DEF ResolveRoute

LEMMA AnswerStep ==
    ASSUME GatewayInv, NEW c \in Chats, Answer(c) PROVE GatewayInv'
<1>1. PICK ok \in BOOLEAN, i \in Intents \cup {None} :
        /\ SetLocals(c, [loc[c] EXCEPT !.ok = ok, !.intent = i])
        /\ calls' = [calls EXCEPT ![[Call(c) EXCEPT !.ok = ok]] = @ + 1]
  BY DEF Answer
<1> DEFINE x == [loc[c] EXCEPT !.ok = ok, !.intent = i]
<1>2. /\ c \in Requests /\ pc[c] = "asking" /\ loc[c] \in Locals
      /\ loc[c].route # None /\ Goto(c, "record")
      /\ UNCHANGED <<package, routes, usage, unused, post, trail, shown, faults>>
  BY DEF Answer, Turn, Requests, Asking, GatewayInv, TypeInv, TypeOK, HandOK
<1>3. x \in Locals /\ x.ok = ok /\ x.route = loc[c].route /\ x.last = loc[c].last
  BY <1>2 DEF Locals
<1>4. HandOK(c, "record", x)
  BY <1>2, <1>3, GatewayAssumption DEF HandOK
<1>5. Moves(c, "record", x)
  BY <1>1, <1>2, SetLocalsMoves
<1>6. calls' \in [Calls -> Nat] /\ "record" \in PCs
  <2>1. calls \in [Calls -> Nat]
    BY DEF GatewayInv, TypeInv, TypeOK
  <2>2. ASSUME NEW k PROVE [calls EXCEPT ![k] = @ + 1] \in [Calls -> Nat]
    <3>1. \A j \in Calls : calls[j] + 1 \in Nat
      BY <2>1
    <3>2. \A j \in Calls : [calls EXCEPT ![k] = @ + 1][j] \in Nat
      BY <2>1, <3>1
    <3>. QED  BY <2>1, <3>2
  <2>. QED  BY <1>1, <2>2 DEF PCs, Asking
<1>7. TypeInv'
  BY <1>2, <1>3, <1>4, <1>5, <1>6, TypesKept DEF GatewayInv, TypeInv, TypeOK, trail
<1>8. UsageTellsCalls'
  BY <1>1, <1>2, <1>3, <1>4, <1>5, AnswerBooks DEF GatewayInv
<1>. QED  BY <1>7, <1>8 DEF GatewayInv

LEMMA RecordUsageStep ==
    ASSUME GatewayInv, NEW c \in Chats, RecordUsage(c) PROVE GatewayInv'
<1>1. /\ c \in Requests /\ pc[c] = "record" /\ loc[c] \in Locals /\ loc[c].route # None
      /\ UNCHANGED <<package, routes, calls, post, trail, shown>>
  BY DEF RecordUsage, Turn, Requests, Asking, GatewayInv, TypeInv, TypeOK, HandOK
<1>2. \/ /\ usage' = [usage EXCEPT ![Call(c)] = @ + 1]
         /\ UNCHANGED <<unused, faults>>
      \/ /\ unused' = [unused EXCEPT ![Call(c)] = @ + 1]
         /\ UNCHANGED usage /\ Fault
  BY DEF RecordUsage
<1>3. /\ usage' \in [Calls -> Nat] /\ unused' \in [Calls -> Nat]
      /\ faults' \in 0..MaxFaults
  BY <1>2, FaultType DEF GatewayInv, TypeInv, TypeOK
<1>4. \E l \in PCs, x \in Locals : /\ Moves(c, l, x) /\ HandOK(c, l, x) /\ l # "record"
  <2>1. CASE Goto(c, "log") /\ UNCHANGED loc
    <3>1. Moves(c, "log", loc[c])
      BY <1>1, <2>1, GotoMoves DEF GatewayInv
    <3>2. HandOK(c, "log", loc[c])
      BY GatewayAssumption DEF HandOK, Asking
    <3>. QED  BY <1>1, <3>1, <3>2 DEF PCs
  <2>2. CASE SetLocals(c, [loc[c] EXCEPT !.last = TRUE]) /\ Goto(c, "asking")
    <3> DEFINE x == [loc[c] EXCEPT !.last = TRUE]
    <3>1. x \in Locals /\ x.route # None
      BY <1>1 DEF Locals
    <3>2. HandOK(c, "asking", x)
      BY <3>1, GatewayAssumption DEF HandOK
    <3>. QED  BY <2>2, <3>1, <3>2, SetLocalsMoves DEF PCs, Yielding
  <2>3. CASE Finish(c)
    BY <2>3, FinishMoves, NoLocalsType DEF PCs, Yielding
  <2>. QED  BY <2>1, <2>2, <2>3 DEF RecordUsage, Continue
<1>5. TypeInv'
  BY <1>1, <1>3, <1>4, TypesKept DEF GatewayInv, TypeInv, TypeOK, trail
<1>6. UsageTellsCalls'
  BY <1>1, <1>2, <1>4, RecordBooks DEF GatewayInv
<1>. QED  BY <1>5, <1>6 DEF GatewayInv

LEMMA LogChatStep ==
    ASSUME GatewayInv, NEW c \in Chats, LogChat(c) PROVE GatewayInv'
<1>1. /\ c \in Requests /\ pc[c] = "log" /\ loc[c] \in Locals
      /\ UNCHANGED <<package, routes, spending, post, logged, shown>>
  BY DEF LogChat, Turn, Requests, GatewayInv, TypeInv, TypeOK
<1>2. /\ chats' \in Nat /\ unlogged' \in [chats : Nat, posts : SUBSET Posts]
      /\ faults' \in 0..MaxFaults
  BY FaultType DEF LogChat, GatewayInv, TypeInv, TypeOK
<1>3. \E l \in PCs, x \in Locals : /\ Moves(c, l, x) /\ HandOK(c, l, x) /\ l # "record"
  <2>1. CASE loc[c].intent # None /\ Goto(c, "preview") /\ UNCHANGED loc
    <3>1. Moves(c, "preview", loc[c])
      BY <1>1, <2>1, GotoMoves DEF GatewayInv
    <3>2. HandOK(c, "preview", loc[c])
      BY <2>1, GatewayAssumption DEF HandOK, Asking
    <3>. QED  BY <1>1, <3>1, <3>2 DEF PCs
  <2>2. CASE Finish(c)
    BY <2>2, FinishMoves, NoLocalsType DEF PCs, Yielding
  <2>. QED  BY <2>1, <2>2 DEF LogChat
<1>4. TypeInv'
  BY <1>1, <1>2, <1>3, TypesKept DEF GatewayInv, TypeInv, TypeOK, spending
<1>. QED  BY <1>1, <1>3, <1>4, OwingKept DEF GatewayInv

LEMMA DryRunStep ==
    ASSUME GatewayInv, NEW c \in Chats, DryRun(c) PROVE GatewayInv'
<1>1. /\ c \in Requests /\ pc[c] = "preview" /\ loc[c] \in Locals /\ Finish(c)
      /\ loc[c].intent # None
      /\ UNCHANGED <<package, routes, spending, post, trail, faults>>
  BY DEF DryRun, Turn, Requests, GatewayInv, TypeInv, TypeOK, HandOK
<1>2. loc[c].intent.package \in Packages
  BY <1>1 DEF Locals, Intents
<1>3. shown' \in [Chats -> Packages \cup {None}]
  BY <1>2 DEF DryRun, GatewayInv, TypeInv, TypeOK
<1>4. Moves(c, "idle", NoLocals) /\ "idle" \in PCs
  BY <1>1, FinishMoves DEF PCs, Yielding
<1>5. TypeInv'
  BY <1>1, <1>3, <1>4, NoLocalsType, TypesKept
     DEF GatewayInv, TypeInv, TypeOK, spending, trail
<1>. QED  BY <1>1, <1>4, <1>5, NoLocalsType, OwingKept DEF GatewayInv

-----------------------------------------------------------------------------
(* The steps of an execution. *)

\* An execution goes to a statement that asks no language model; the tables of
\* posts and of the audit log change.
LEMMA ExecutionMoves ==
    ASSUME GatewayInv, NEW c \in Executions, NEW l \in PCs \ Asking, NEW x \in Locals,
           Moves(c, l, x), UNCHANGED <<package, routes, spending, shown, chats>>,
           post' \in [Posts -> {"absent", "draft", "scheduled", "publishing",
                                "published", "failed"}],
           unlogged' \in [chats : Nat, posts : SUBSET Posts],
           logged' \in [Posts -> {None, "execute", "failed"}],
           faults' \in 0..MaxFaults
    PROVE  GatewayInv'
<1>1. c \in Requests /\ pc[c] # "record" /\ l # "record"
  BY DEF GatewayInv, TypeInv, HandOK, Asking, Requests
<1>2. HandOK(c, l, x)
  BY GatewayAssumption DEF HandOK
<1>3. TypeInv'
  BY <1>1, <1>2, TypesKept DEF GatewayInv, TypeInv, TypeOK, spending
<1>. QED  BY <1>1, <1>2, <1>3, OwingKept DEF GatewayInv

LEMMA StartExecutionStep ==
    ASSUME GatewayInv, NEW c \in Executions, StartExecution(c) PROVE GatewayInv'
<1>1. PICK i \in Intents, fine \in BOOLEAN, now \in BOOLEAN :
        SetLocals(c, [NoLocals EXCEPT !.intent = i, !.fine = fine, !.now = now])
  BY DEF StartExecution
<1> DEFINE x == [NoLocals EXCEPT !.intent = i, !.fine = fine, !.now = now]
<1>2. x \in Locals /\ "invoke" \in PCs \ Asking
  BY DEF NoLocals, Locals, PCs, Asking
<1>3. Moves(c, "invoke", x)
  BY <1>1, SetLocalsMoves DEF StartExecution
<1>4. UNCHANGED <<package, routes, spending, post, trail, shown, faults>>
  BY DEF StartExecution
<1>. QED  BY <1>2, <1>3, <1>4, ExecutionMoves DEF GatewayInv, TypeInv, TypeOK, trail

LEMMA InvokeStep ==
    ASSUME GatewayInv, NEW c \in Executions, Invoke(c) PROVE GatewayInv'
<1>1. /\ c \in Requests /\ loc[c] \in Locals
      /\ UNCHANGED <<package, routes, spending, trail, shown, faults>>
  BY DEF Invoke, Requests, GatewayInv, TypeInv, TypeOK
<1>2. ASSUME NEW l \in {"logFailed", "logDone"}, Goto(c, l), UNCHANGED <<post, loc>>
      PROVE  GatewayInv'
  <2>1. Moves(c, l, loc[c])
    BY <1>1, <1>2, GotoMoves DEF GatewayInv
  <2>2. l \in PCs \ Asking
    BY DEF PCs, Asking
  <2>. QED  BY <1>1, <1>2, <2>1, <2>2, ExecutionMoves DEF GatewayInv, TypeInv, TypeOK, trail
<1>3. ASSUME NEW l \in {"schedule", "publish", "logDone"}, NEW p \in Posts,
             post' = [post EXCEPT ![p] = "draft"],
             SetLocals(c, [loc[c] EXCEPT !.post = p]), Goto(c, l)
      PROVE  GatewayInv'
  <2> DEFINE x == [loc[c] EXCEPT !.post = p]
  <2>1. x \in Locals
    BY <1>1 DEF Locals
  <2>2. Moves(c, l, x)
    BY <1>3, SetLocalsMoves
  <2>3. l \in PCs \ Asking
    BY DEF PCs, Asking
  <2>4. post' \in [Posts -> {"absent", "draft", "scheduled", "publishing",
                             "published", "failed"}]
    BY <1>3 DEF GatewayInv, TypeInv, TypeOK
  <2>. QED  BY <1>1, <2>1, <2>2, <2>3, <2>4, ExecutionMoves
            DEF GatewayInv, TypeInv, TypeOK, trail
<1>. QED  BY <1>2, <1>3 DEF Invoke

LEMMA PostStep ==
    ASSUME GatewayInv, NEW c \in Executions,
           SchedulePost(c) \/ PublishPost(c) \/ Published(c)
    PROVE  GatewayInv'
<1>1. /\ c \in Requests /\ loc[c] \in Locals
      /\ UNCHANGED <<package, routes, spending, trail, shown, loc, faults>>
  BY DEF SchedulePost, PublishPost, Published, Requests, GatewayInv, TypeInv, TypeOK
<1>2. \E l \in {"logDone", "logFailed", "publishing"} : Goto(c, l)
  BY DEF SchedulePost, PublishPost, Published
<1>3. \E l \in PCs \ Asking : Moves(c, l, loc[c])
  BY <1>1, <1>2, GotoMoves DEF GatewayInv, PCs, Yielding, Asking
<1>4. post' \in [Posts -> {"absent", "draft", "scheduled", "publishing",
                           "published", "failed"}]
  <2>1. ASSUME NEW s \in {"scheduled", "publishing", "published", "failed"},
               SetStatus(c, s)
        PROVE  post' \in [Posts -> {"absent", "draft", "scheduled", "publishing",
                                    "published", "failed"}]
    BY <2>1 DEF SetStatus, GatewayInv, TypeInv, TypeOK
  <2>2. UNCHANGED post => post' \in [Posts -> {"absent", "draft", "scheduled",
                                     "publishing", "published", "failed"}]
    BY DEF GatewayInv, TypeInv, TypeOK
  <2>. QED  BY <2>1, <2>2 DEF SchedulePost, PublishPost, Published
<1>. QED  BY <1>1, <1>3, <1>4, ExecutionMoves DEF GatewayInv, TypeInv, TypeOK, trail

LEMMA LogOutcomeStep ==
    ASSUME GatewayInv, NEW c \in Executions, NEW outcome \in {"execute", "failed"},
           LogOutcome(c, outcome)
    PROVE  GatewayInv'
<1>1. /\ c \in Requests /\ loc[c].post \in Posts \cup {None}
      /\ UNCHANGED <<package, routes, spending, post, chats, shown>>
  BY DEF LogOutcome, Requests, GatewayInv, TypeInv, TypeOK, Locals
<1>2. Moves(c, "idle", NoLocals) /\ "idle" \in PCs \ Asking
  BY FinishMoves DEF LogOutcome, PCs, Yielding, Asking
<1>3. faults' \in 0..MaxFaults
  BY FaultType DEF LogOutcome, GatewayInv, TypeInv, TypeOK
<1>4. logged' \in [Posts -> {None, "execute", "failed"}]
  BY <1>1 DEF LogOutcome, GatewayInv, TypeInv, TypeOK
<1>5. unlogged' \in [chats : Nat, posts : SUBSET Posts]
  BY <1>1 DEF LogOutcome, GatewayInv, TypeInv, TypeOK
<1>. QED  BY <1>1, <1>2, <1>3, <1>4, <1>5, NoLocalsType, ExecutionMoves
          DEF GatewayInv, TypeInv, TypeOK

-----------------------------------------------------------------------------
(* Administration, and what a process owes when it dies. *)

LEMMA AdministrationStep ==
    ASSUME GatewayInv, WritePackage \/ WriteRoutes \/ UNCHANGED vars
    PROVE  GatewayInv'
<1>1. UNCHANGED <<spending, post, trail, shown, pc, loc, faults>>
  BY DEF WritePackage, WriteRoutes, vars
<1>2. package' \in [Packages -> {"absent", "disabled", "enabled"}]
  BY DEF WritePackage, WriteRoutes, vars, GatewayInv, TypeInv, TypeOK
<1>3. routes' \subseteq RouteRows
  BY DEF WritePackage, WriteRoutes, vars, GatewayInv, TypeInv, TypeOK
<1>4. TypeInv'
  BY <1>1, <1>2, <1>3 DEF GatewayInv, TypeInv, TypeOK, spending, trail
<1>5. UsageTellsCalls'
  BY <1>1 DEF GatewayInv, UsageTellsCalls, Call, spending
<1>. QED  BY <1>4, <1>5 DEF GatewayInv

LEMMA CrashStep ==
    ASSUME GatewayInv, NEW h \in Hosts, Crash(h) PROVE GatewayInv'
<1> DEFINE died == {c \in Requests : HostOf[c] = h}
           owed(k) == {c \in died : pc[c] = "record" /\ Call(c) = k}
<1>1. /\ Fault
      /\ unused' = [k \in Calls |-> unused[k] + Cardinality(owed(k))]
      /\ unlogged' =
           [chats |-> unlogged.chats + Cardinality(
                        {c \in died : pc[c] \in Asking \cup {"log"} /\ loc[c].ok}),
            posts |-> unlogged.posts \cup ({loc[c].post : c \in died} \ {None})]
      /\ pc' = [c \in Requests |-> IF c \in died THEN "idle" ELSE pc[c]]
      /\ loc' = [c \in Requests |-> IF c \in died THEN NoLocals ELSE loc[c]]
      /\ UNCHANGED <<package, routes, calls, usage, post, chats, logged, shown>>
  BY DEF Crash
<1>2. \A d \in Requests :
        /\ d \in died => pc'[d] = "idle" /\ loc'[d] = NoLocals
        /\ d \notin died => pc'[d] = pc[d] /\ loc'[d] = loc[d]
  BY <1>1
<1>3. ASSUME NEW S, S \subseteq Requests
      PROVE  IsFiniteSet(S) /\ Cardinality(S) \in Nat
  BY <1>3, GatewayAssumption, FS_Subset, FS_CardinalityType
<1>4. TypeInv'
  <2>1. /\ pc' \in [Requests -> PCs] /\ loc' \in [Requests -> Locals]
    BY <1>1, NoLocalsType DEF GatewayInv, TypeInv, TypeOK, PCs, Yielding
  <2>2. \A d \in Requests : HandOK(d, pc'[d], loc'[d])
    BY <1>2, NoLocalsType DEF GatewayInv, TypeInv
  <2>3. \A d \in Chats : pc'[d] \in Asking => loc'[d].route # None
    BY <2>2 DEF HandOK, Requests
  <2>4. unused' \in [Calls -> Nat]
    <3>1. ASSUME NEW k \in Calls PROVE unused[k] + Cardinality(owed(k)) \in Nat
      <4>1. Cardinality(owed(k)) \in Nat /\ unused[k] \in Nat
        BY <1>3 DEF GatewayInv, TypeInv, TypeOK
      <4>. QED  BY <4>1
    <3>. QED  BY <1>1, <3>1
  <2>5. unlogged' \in [chats : Nat, posts : SUBSET Posts]
    <3>1. Cardinality({c \in died : pc[c] \in Asking \cup {"log"} /\ loc[c].ok}) \in Nat
      BY <1>3
    <3>2. \A c \in died : loc[c].post \in Posts \cup {None}
      BY DEF GatewayInv, TypeInv, TypeOK, Locals
    <3>3. {loc[c].post : c \in died} \ {None} \subseteq Posts
      BY <3>2
    <3>. QED  BY <1>1, <3>1, <3>3 DEF GatewayInv, TypeInv, TypeOK
  <2>6. faults' \in 0..MaxFaults
    BY <1>1, FaultType DEF GatewayInv
  <2>. QED  BY <1>1, <2>1, <2>2, <2>3, <2>4, <2>5, <2>6 DEF GatewayInv, TypeInv, TypeOK
<1>5. UsageTellsCalls'
  <2>. SUFFICES ASSUME NEW k \in Calls
                PROVE  calls'[k] = usage'[k] + unused'[k] + Cardinality(Owing(k)')
    BY DEF UsageTellsCalls, Owing
  <2>1. /\ calls[k] = usage[k] + unused[k] + Cardinality(Owing(k))
        /\ calls[k] \in Nat /\ usage[k] \in Nat /\ unused[k] \in Nat
    BY DEF GatewayInv, UsageTellsCalls, Owing, TypeInv, TypeOK
  <2>2. owed(k) \subseteq Owing(k)
    BY DEF Owing, GatewayInv, TypeInv, HandOK, Asking, Requests
  <2>3. Owing(k)' = Owing(k) \ owed(k)
    BY <1>2 DEF Owing, Call, Requests
  <2>4. /\ IsFiniteSet(Owing(k)) /\ Cardinality(Owing(k)) \in Nat
        /\ IsFiniteSet(owed(k)) /\ Cardinality(owed(k)) \in Nat
    BY <1>3, OwingFinite
  <2>5. Owing(k) \cap owed(k) = owed(k)
    BY <2>2
  <2>6. Cardinality(Owing(k) \ owed(k)) = Cardinality(Owing(k)) - Cardinality(owed(k))
    BY <2>4, <2>5, FS_Difference
  <2>7. unused'[k] = unused[k] + Cardinality(owed(k)) /\ UNCHANGED <<calls, usage>>
    BY <1>1
  <2>. QED  BY <2>1, <2>3, <2>4, <2>6, <2>7
<1>. QED  BY <1>4, <1>5 DEF GatewayInv

-----------------------------------------------------------------------------
(* The theorems. *)

LEMMA GatewayNext == GatewayInv /\ [Next]_vars => GatewayInv'
BY StartChatStep, ResolveRouteStep, AnswerStep, RecordUsageStep, LogChatStep, DryRunStep,
   StartExecutionStep, InvokeStep, PostStep, LogOutcomeStep, AdministrationStep, CrashStep
   DEF Next, Chat, Execute, LogDone, LogFailed

LEMMA GatewayInit == Init => GatewayInv
<1>. SUFFICES ASSUME Init PROVE GatewayInv
  OBVIOUS
<1>1. 0 \in 0..MaxFaults
  BY GatewayAssumption
<1>2. TypeInv
  BY <1>1, NoLocalsType DEF Init, TypeInv, TypeOK, PCs, Yielding, Asking, Requests
<1>3. ASSUME NEW k \in Calls
      PROVE  calls[k] = usage[k] + unused[k] + Cardinality(Owing(k))
  <2>1. Owing(k) = {}
    BY DEF Init, Owing, Requests
  <2>2. Cardinality(Owing(k)) = 0
    BY <2>1, FS_EmptySet
  <2>3. calls[k] = 0 /\ usage[k] = 0 /\ unused[k] = 0
    BY DEF Init
  <2>. QED  BY <2>2, <2>3
<1>. QED  BY <1>2, <1>3 DEF GatewayInv, UsageTellsCalls, Owing

\* Every state of the gateway has the types of TypeOK; a chat that asks a model
\* has a route.
THEOREM GatewayTypeCorrect == Spec => []TypeOK
<1>1. GatewayInv => TypeOK
  BY DEF GatewayInv, TypeInv
<1>. QED  BY <1>1, GatewayInit, GatewayNext, PTL DEF Spec

\* Every call of a language model that has ended, refused, failed or answered, is
\* a row of usage_records, is about to be one, or was lost with its process or
\* with an insert that failed; no call is counted twice, in however many
\* processes, and however routes change meanwhile.
THEOREM CallsAreTold == Spec => []UsageTellsCalls
<1>1. GatewayInv => UsageTellsCalls
  BY DEF GatewayInv
<1>. QED  BY <1>1, GatewayInit, GatewayNext, PTL DEF Spec

\* What a chat shows at the end is a package that is enabled at that moment.
THEOREM PreviewsCurrent == Spec => PreviewIsCurrent
<1> DEFINE Shows == \A c \in Chats : shown'[c] # None /\ shown'[c] # shown[c]
                      => package[shown'[c]] = "enabled"
<1>1. TypeInv /\ [Next]_vars => [Shows]_vars
  <2>. SUFFICES ASSUME TypeInv, Next, NEW d \in Chats,
                       shown'[d] # None, shown'[d] # shown[d]
                PROVE  package[shown'[d]] = "enabled"
    OBVIOUS
  <2>1. UNCHANGED shown \/ (\E c \in Chats : StartChat(c) \/ DryRun(c))
    BY DEF Next, Chat, Execute, ResolveRoute, Answer, RecordUsage, LogChat,
           StartExecution, Invoke, SchedulePost, PublishPost, Published, LogDone,
           LogFailed, LogOutcome, WritePackage, WriteRoutes, Crash
  <2>2. ASSUME NEW c \in Chats, StartChat(c) PROVE FALSE
    BY <2>2 DEF StartChat, TypeInv, TypeOK
  <2>3. ASSUME NEW c \in Chats, DryRun(c) PROVE package[shown'[d]] = "enabled"
    <3>1. shown' = IF Offers(loc[c].intent.package, loc[c].intent.action)
                     THEN [shown EXCEPT ![c] = loc[c].intent.package] ELSE shown
      BY <2>3 DEF DryRun
    <3>2. /\ Offers(loc[c].intent.package, loc[c].intent.action)
          /\ shown'[d] = loc[c].intent.package
      BY <3>1 DEF TypeInv, TypeOK
    <3>. QED  BY <3>2 DEF Offers, Enabled
  <2>. QED  BY <2>1, <2>2, <2>3
<1>2. GatewayInv => TypeInv
  BY DEF GatewayInv
<1>. QED  BY <1>1, <1>2, GatewayInit, GatewayNext, PTL DEF Spec, PreviewIsCurrent

-----------------------------------------------------------------------------
(* AuditTrail, of the chats: an answer is told of once, by the request that    *)
(* still has it or by a row.                                                   *)

Telling == {c \in Chats : pc[c] \in Asking \cup {"log"} /\ loc[c].ok}

AnsweredCalls == {e \in Ended : e[1].ok}

CallOf(x) == [provider |-> IF x.last THEN x.route.fallback ELSE x.route.provider,
              ok |-> x.ok]

\* A chat that asks has no answer, one that logs has; it asks a provider there is.
ChatOK(c, l, x) ==
    /\ c \in Chats => /\ l \in {"resolve", "asking"} => ~x.ok
                      /\ l = "resolve" => ~x.last
                      /\ l = "log" => x.ok
                      /\ l \in Asking => CallOf(x) \in Calls
    /\ c \in Executions => ~x.ok

ChatsTold ==
    /\ IsFiniteSet(Ended)
    /\ Answered = chats + unlogged.chats + Cardinality(Telling)
    /\ \A c \in Requests : ChatOK(c, pc[c], loc[c])

LEMMA TellingFinite == IsFiniteSet(Telling) /\ Cardinality(Telling) \in Nat
<1>1. IsFiniteSet(Requests) /\ Telling \subseteq Requests
  BY GatewayAssumption DEF Telling, Requests
<1>. QED  BY <1>1, FS_Subset, FS_CardinalityType

\* The chats that have an answer to tell of, after a step of a request.
LEMMA TellingMoves ==
    ASSUME TypeInv, ChatsTold, NEW c \in Requests, NEW l \in PCs, NEW x \in Locals,
           Moves(c, l, x), HandOK(c, l, x), ChatOK(c, l, x)
    PROVE  /\ \A d \in Requests : ChatOK(d, pc'[d], loc'[d])
           /\ Telling' = IF c \in Chats /\ l \in Asking \cup {"log"} /\ x.ok
                         THEN Telling \cup {c} ELSE Telling \ {c}
<1>1. /\ pc'[c] = l /\ loc'[c] = x
      /\ \A d \in Requests : d # c => pc'[d] = pc[d] /\ loc'[d] = loc[d]
  BY MoveTypes
<1>2. \A d \in Requests : ChatOK(d, pc'[d], loc'[d])
  BY <1>1 DEF ChatsTold
<1>. QED  BY <1>1, <1>2 DEF Telling, Requests

\* A step that ends no call and tells of none.
LEMMA ToldKept ==
    ASSUME TypeInv, ChatsTold, NEW c \in Requests, NEW l \in PCs, NEW x \in Locals,
           Moves(c, l, x), HandOK(c, l, x), ChatOK(c, l, x),
           c \in Telling <=> c \in Chats /\ l \in Asking \cup {"log"} /\ x.ok,
           UNCHANGED <<calls, chats>>, unlogged'.chats = unlogged.chats
    PROVE  ChatsTold'
<1>1. Telling' = Telling /\ \A d \in Requests : ChatOK(d, pc'[d], loc'[d])
  BY TellingMoves
<1>2. Ended' = Ended
  BY DEF Ended
<1>. QED  BY <1>1, <1>2 DEF ChatsTold, Answered

\* A call that ends is new among the calls counted: MaxCalls has room for it.
LEMMA CallsFit ==
    ASSUME TypeInv, IsFiniteSet(Ended), CallsMade < MaxCalls, NEW k \in Calls
    PROVE  calls[k] + 1 \in 1..MaxCalls
<1>1. calls[k] \in Nat /\ MaxCalls \in Nat
  BY GatewayAssumption DEF TypeInv, TypeOK
<1>2. SUFFICES ASSUME calls[k] >= MaxCalls PROVE FALSE
  BY <1>1
<1>3. {k} \X (1..MaxCalls) \subseteq Ended
  BY <1>1, <1>2 DEF Ended
<1>4. /\ IsFiniteSet({k}) /\ Cardinality({k}) = 1
      /\ IsFiniteSet(1..MaxCalls) /\ Cardinality(1..MaxCalls) = MaxCalls
  <2>1. IsFiniteSet({k}) /\ Cardinality({k}) = 1
    BY FS_Singleton
  <2>2. /\ IsFiniteSet(1..MaxCalls)
        /\ Cardinality(1..MaxCalls) = IF 1 > MaxCalls THEN 0 ELSE MaxCalls - 1 + 1
    BY <1>1, FS_Interval
  <2>. QED  BY <1>1, <2>1, <2>2
<1>5. Cardinality({k} \X (1..MaxCalls)) = 1 * MaxCalls
  BY <1>4, FS_Product
<1>6. Cardinality({k} \X (1..MaxCalls)) <= Cardinality(Ended)
  BY <1>3, FS_Subset
<1>7. Cardinality(Ended) \in Nat
  BY FS_CardinalityType
<1>. QED  BY <1>1, <1>5, <1>6, <1>7 DEF CallsMade

LEMMA OneMoreEnded ==
    ASSUME TypeInv, IsFiniteSet(Ended), CallsMade < MaxCalls, NEW k \in Calls,
           calls' = [calls EXCEPT ![k] = @ + 1]
    PROVE  /\ IsFiniteSet(Ended')
           /\ Answered \in Nat
           /\ Answered' = IF k.ok THEN Answered + 1 ELSE Answered
<1>. PICK e : e = <<k, calls[k] + 1>>
  OBVIOUS
<1>1. /\ calls[k] + 1 \in 1..MaxCalls /\ calls \in [Calls -> Nat]
      /\ calls' \in [Calls -> Nat]
  BY CallsFit DEF TypeInv, TypeOK
<1>2. Ended' = Ended \cup {e} /\ e \notin Ended
  <2>1. ASSUME NEW d \in Calls \X (1..MaxCalls)
        PROVE  d[2] <= calls'[d[1]] <=> d[2] <= calls[d[1]] \/ d = e
    <3>1. d = <<d[1], d[2]>> /\ d[1] \in Calls /\ d[2] \in Nat
      OBVIOUS
    <3>2. CASE d[1] = k
      <4>1. calls'[k] = calls[k] + 1 /\ calls[k] \in Nat
        BY <1>1
      <4>. QED  BY <3>1, <3>2, <4>1
    <3>3. CASE d[1] # k
      <4>1. calls'[d[1]] = calls[d[1]]
        BY <1>1, <3>1, <3>3
      <4>. QED  BY <3>1, <3>3, <4>1
    <3>. QED  BY <3>2, <3>3
  <2>2. e \in Calls \X (1..MaxCalls) /\ ~(e[2] <= calls[e[1]])
    BY <1>1
  <2>. QED  BY <2>1, <2>2 DEF Ended
<1>3. IsFiniteSet(AnsweredCalls) /\ Cardinality(AnsweredCalls) \in Nat
  BY FS_Subset, FS_CardinalityType DEF AnsweredCalls
<1>4. Answered = Cardinality(AnsweredCalls) /\ Answered' = Cardinality(AnsweredCalls')
  BY DEF Answered, AnsweredCalls
<1>5. CASE k.ok
  <2>1. AnsweredCalls' = AnsweredCalls \cup {e} /\ e \notin AnsweredCalls
    BY <1>2, <1>5 DEF AnsweredCalls
  <2>. QED  BY <1>2, <1>3, <1>4, <1>5, <2>1, FS_AddElement
<1>6. CASE ~k.ok
  <2>1. AnsweredCalls' = AnsweredCalls
    BY <1>2, <1>6 DEF AnsweredCalls
  <2>. QED  BY <1>2, <1>3, <1>4, <1>6, <2>1, FS_AddElement
<1>. QED  BY <1>5, <1>6

LEMMA AnswerTold ==
    ASSUME TypeInv, ChatsTold, NEW c \in Chats, Answer(c)
    PROVE  ChatsTold'
<1>1. PICK ok \in BOOLEAN, i \in Intents \cup {None} :
        /\ SetLocals(c, [loc[c] EXCEPT !.ok = ok, !.intent = i])
        /\ calls' = [calls EXCEPT ![[Call(c) EXCEPT !.ok = ok]] = @ + 1]
  BY DEF Answer
<1> DEFINE x == [loc[c] EXCEPT !.ok = ok, !.intent = i]
<1>2. /\ c \in Requests /\ pc[c] = "asking" /\ loc[c] \in Locals /\ loc[c].route # None
      /\ Goto(c, "record") /\ CallsMade < MaxCalls /\ UNCHANGED trail
  BY DEF Answer, Turn, Requests, Asking, TypeInv, TypeOK, HandOK
<1>3. x \in Locals /\ x.ok = ok /\ x.route = loc[c].route /\ x.last = loc[c].last
  BY <1>2 DEF Locals
<1>4. Moves(c, "record", x) /\ "record" \in PCs
  BY <1>1, <1>2, SetLocalsMoves DEF PCs, Asking
<1>. PICK k : k = [Call(c) EXCEPT !.ok = ok]
  OBVIOUS
<1>5. k = CallOf(x) /\ k.ok = ok /\ k \in Calls
  <2>1. CallOf(loc[c]) \in Calls /\ Call(c) = CallOf(loc[c])
    BY <1>2 DEF ChatsTold, ChatOK, Asking, Call, CallOf
  <2>2. k = CallOf(x) /\ k.ok = ok
    BY <1>3 DEF Call, CallOf
  <2>3. k.provider \in Providers /\ k = [provider |-> k.provider, ok |-> k.ok]
    BY <1>3, <2>1, <2>2 DEF Calls, CallOf
  <2>. QED  BY <2>2, <2>3 DEF Calls
<1>6. HandOK(c, "record", x) /\ ChatOK(c, "record", x)
  BY <1>2, <1>3, <1>5, GatewayAssumption DEF HandOK, ChatOK
<1>. HIDE DEF x
<1>7. /\ \A d \in Requests : ChatOK(d, pc'[d], loc'[d])
      /\ Telling' = IF ok THEN Telling \cup {c} ELSE Telling \ {c}
  BY <1>2, <1>3, <1>4, <1>6, TellingMoves DEF Asking
<1>8. c \notin Telling
  BY <1>2 DEF Telling, ChatsTold, ChatOK
<1>9. /\ IsFiniteSet(Ended') /\ Answered \in Nat
      /\ Answered' = IF ok THEN Answered + 1 ELSE Answered
  BY <1>1, <1>2, <1>5, OneMoreEnded DEF ChatsTold
<1>10. Cardinality(Telling') = IF ok THEN Cardinality(Telling) + 1 ELSE Cardinality(Telling)
  BY <1>7, <1>8, TellingFinite, FS_AddElement, FS_RemoveElement
<1>11. /\ Answered = chats + unlogged.chats + Cardinality(Telling)
       /\ chats' = chats /\ unlogged' = unlogged /\ chats \in Nat /\ unlogged.chats \in Nat
  BY <1>2 DEF ChatsTold, trail, TypeInv, TypeOK
<1>12. Answered' = chats' + unlogged'.chats + Cardinality(Telling')
  BY <1>9, <1>10, <1>11, TellingFinite
<1>. QED  BY <1>7, <1>9, <1>12 DEF ChatsTold

\* An answer goes to the log, a failure to the fallback or to the end.
LEMMA RecordTold ==
    ASSUME TypeInv, ChatsTold, NEW c \in Chats, RecordUsage(c)
    PROVE  ChatsTold'
<1>1. /\ c \in Requests /\ pc[c] = "record" /\ loc[c] \in Locals /\ loc[c].route # None
      /\ UNCHANGED <<calls, chats>> /\ unlogged' = unlogged /\ Continue(c)
  BY DEF RecordUsage, Turn, Requests, Asking, TypeInv, TypeOK, HandOK, trail
<1>2. c \in Telling <=> loc[c].ok
  BY <1>1 DEF Telling, Asking
<1>3. CASE loc[c].ok /\ Goto(c, "log") /\ UNCHANGED loc
  <2>1. Moves(c, "log", loc[c]) /\ "log" \in PCs
    BY <1>1, <1>3, GotoMoves DEF PCs
  <2>2. HandOK(c, "log", loc[c]) /\ ChatOK(c, "log", loc[c])
    BY <1>3, GatewayAssumption DEF HandOK, ChatOK, Asking
  <2>. QED  BY <1>1, <1>2, <1>3, <2>1, <2>2, ToldKept
<1>4. CASE /\ ~loc[c].ok /\ loc[c].route.fallback \in Adapters
           /\ SetLocals(c, [loc[c] EXCEPT !.last = TRUE]) /\ Goto(c, "asking")
  <2> DEFINE x == [loc[c] EXCEPT !.last = TRUE]
  <2>1. x \in Locals /\ x.route = loc[c].route /\ x.last /\ x.ok = loc[c].ok
    BY <1>1 DEF Locals
  <2>2. Moves(c, "asking", x) /\ "asking" \in PCs
    BY <1>4, SetLocalsMoves DEF PCs, Asking
  <2>3. CallOf(x) \in Calls
    <3>1. CallOf(x) = [provider |-> loc[c].route.fallback, ok |-> loc[c].ok]
      BY <2>1 DEF CallOf
    <3>2. loc[c].route.fallback \in Providers /\ loc[c].ok \in BOOLEAN
      BY <1>1, <1>4, GatewayAssumption DEF Locals
    <3>. QED  BY <3>1, <3>2 DEF Calls
  <2>4. HandOK(c, "asking", x) /\ ChatOK(c, "asking", x)
    BY <1>1, <1>4, <2>1, <2>3, GatewayAssumption DEF HandOK, ChatOK
  <2>. HIDE DEF x
  <2>. QED  BY <1>1, <1>2, <1>4, <2>1, <2>2, <2>4, ToldKept
<1>5. CASE ~loc[c].ok /\ Finish(c)
  <2>1. Moves(c, "idle", NoLocals) /\ "idle" \in PCs
    BY <1>5, FinishMoves DEF PCs, Yielding
  <2>2. ChatOK(c, "idle", NoLocals) /\ ~NoLocals.ok
    BY DEF ChatOK, NoLocals, Asking
  <2>. QED  BY <1>1, <1>2, <1>5, <2>1, <2>2, NoLocalsType, ToldKept
<1>. QED  BY <1>1, <1>3, <1>4, <1>5 DEF Continue

LEMMA LogTold ==
    ASSUME TypeInv, ChatsTold, NEW c \in Chats, LogChat(c)
    PROVE  ChatsTold'
<1>1. /\ c \in Requests /\ pc[c] = "log" /\ loc[c] \in Locals /\ loc[c].ok
      /\ calls' = calls
  BY DEF LogChat, Turn, Requests, TypeInv, TypeOK, spending, ChatsTold, ChatOK
<1>2. \E l \in PCs \ (Asking \cup {"log"}), x \in Locals :
        Moves(c, l, x) /\ HandOK(c, l, x) /\ ChatOK(c, l, x)
  <2>1. CASE loc[c].intent # None /\ Goto(c, "preview") /\ UNCHANGED loc
    <3>1. Moves(c, "preview", loc[c]) /\ "preview" \in PCs \ (Asking \cup {"log"})
      BY <1>1, <2>1, GotoMoves DEF PCs, Asking
    <3>2. HandOK(c, "preview", loc[c]) /\ ChatOK(c, "preview", loc[c])
      BY <2>1, GatewayAssumption DEF HandOK, ChatOK, Asking
    <3>. QED  BY <1>1, <3>1, <3>2
  <2>2. CASE Finish(c)
    <3>1. Moves(c, "idle", NoLocals) /\ "idle" \in PCs \ (Asking \cup {"log"})
      BY <2>2, FinishMoves DEF PCs, Yielding, Asking
    <3>2. ChatOK(c, "idle", NoLocals)
      BY DEF ChatOK, NoLocals, Asking
    <3>. QED  BY <3>1, <3>2, NoLocalsType
  <2>. QED  BY <2>1, <2>2 DEF LogChat
<1>3. /\ \A d \in Requests : ChatOK(d, pc'[d], loc'[d])
      /\ Telling' = Telling \ {c} /\ c \in Telling
  <2>1. /\ \A d \in Requests : ChatOK(d, pc'[d], loc'[d])
        /\ Telling' = Telling \ {c}
    BY <1>1, <1>2, TellingMoves
  <2>. QED  BY <1>1, <2>1 DEF Telling
<1>4. Cardinality(Telling') = Cardinality(Telling) - 1
  BY <1>3, TellingFinite, FS_RemoveElement
<1>5. Ended' = Ended /\ Answered' = Answered
  BY <1>1 DEF Answered, Ended
<1>6. /\ chats \in Nat /\ unlogged.chats \in Nat
      /\ \/ chats' = chats + 1 /\ unlogged'.chats = unlogged.chats
         \/ chats' = chats /\ unlogged'.chats = unlogged.chats + 1
  BY DEF LogChat, TypeInv, TypeOK
<1>7. Answered' = chats' + unlogged'.chats + Cardinality(Telling')
  BY <1>4, <1>5, <1>6, TellingFinite DEF ChatsTold
<1>. QED  BY <1>3, <1>5, <1>7 DEF ChatsTold

LEMMA ChatTold ==
    ASSUME TypeInv, ChatsTold, NEW c \in Chats, StartChat(c) \/ ResolveRoute(c) \/ DryRun(c)
    PROVE  ChatsTold'
<1>1. /\ c \in Requests /\ pc[c] \in {"idle", "resolve", "preview"} /\ c \notin Telling
      /\ loc[c] \in Locals /\ UNCHANGED <<calls, chats>> /\ unlogged' = unlogged
  BY DEF StartChat, ResolveRoute, DryRun, Turn, Requests, Telling, Asking, TypeInv, TypeOK,
         spending, trail
<1>2. CASE Finish(c)
  <2>1. Moves(c, "idle", NoLocals) /\ "idle" \in PCs
    BY <1>2, FinishMoves DEF PCs, Yielding
  <2>2. ChatOK(c, "idle", NoLocals) /\ ~NoLocals.ok
    BY DEF ChatOK, NoLocals, Asking
  <2>. QED  BY <1>1, <2>1, <2>2, NoLocalsType, ToldKept
<1>3. CASE StartChat(c)
  <2> DEFINE x == [NoLocals EXCEPT !.enabled = Enabled]
  <2>1. x \in Locals /\ ~x.ok /\ ~x.last
    BY DEF NoLocals, Locals, Enabled
  <2>2. Moves(c, "resolve", x) /\ "resolve" \in PCs
    BY <1>3, SetLocalsMoves DEF StartChat, PCs
  <2>3. HandOK(c, "resolve", x) /\ ChatOK(c, "resolve", x)
    BY <2>1, GatewayAssumption DEF HandOK, ChatOK, Asking
  <2>. HIDE DEF x
  <2>. QED  BY <1>1, <2>1, <2>2, <2>3, ToldKept
<1>4. ASSUME NEW r \in Winners, ResolveRoute(c), r.provider \in Adapters,
             SetLocals(c, [loc[c] EXCEPT !.route = r]), Goto(c, "asking")
      PROVE  ChatsTold'
  <2> DEFINE x == [loc[c] EXCEPT !.route = r]
  <2>1. r \in RouteRows /\ r # None
    BY GatewayAssumption DEF Winners, Candidates, TypeInv, TypeOK
  <2>2. x \in Locals /\ x.route = r /\ x.ok = loc[c].ok /\ x.last = loc[c].last
    BY <1>1, <2>1 DEF Locals
  <2>3. ~x.ok /\ ~x.last
    BY <1>1, <1>4, <2>2 DEF ResolveRoute, Turn, ChatsTold, ChatOK
  <2>4. HandOK(c, "asking", x) /\ ChatOK(c, "asking", x)
    <3>1. CallOf(x) = [provider |-> r.provider, ok |-> x.ok]
      BY <2>2, <2>3 DEF CallOf
    <3>2. r.provider \in Providers /\ x.ok \in BOOLEAN
      BY <1>4, <2>2, GatewayAssumption DEF Locals
    <3>3. CallOf(x) \in Calls
      BY <3>1, <3>2 DEF Calls
    <3>. QED  BY <2>1, <2>2, <2>3, <3>3, GatewayAssumption DEF HandOK, ChatOK
  <2>5. Moves(c, "asking", x) /\ "asking" \in PCs
    BY <1>4, SetLocalsMoves DEF PCs, Yielding
  <2>. HIDE DEF x
  <2>. QED  BY <1>1, <2>2, <2>3, <2>4, <2>5, ToldKept
<1>. QED  BY <1>2, <1>3, <1>4 DEF ResolveRoute, DryRun

\* An execution tells of no answer.
LEMMA ExecutionTold ==
    ASSUME TypeInv, ChatsTold, NEW c \in Executions, Execute(c)
    PROVE  ChatsTold'
<1>1. /\ c \in Requests /\ c \notin Chats /\ c \notin Telling /\ loc[c] \in Locals
      /\ UNCHANGED <<calls, chats>> /\ ~loc[c].ok
  BY GatewayAssumption
     DEF Execute, StartExecution, Invoke, SchedulePost, PublishPost, Published, LogDone,
         LogFailed, LogOutcome, Requests, Telling, TypeInv, TypeOK, spending, trail,
         ChatsTold, ChatOK
<1>2. unlogged'.chats = unlogged.chats
  BY DEF Execute, StartExecution, Invoke, SchedulePost, PublishPost, Published, LogDone,
         LogFailed, LogOutcome, trail, TypeInv, TypeOK
<1>3. \E l \in PCs \ Asking, x \in Locals : Moves(c, l, x) /\ ~x.ok
  <2>1. CASE \E l \in PCs \ Asking : Goto(c, l) /\ loc' = loc
    BY <1>1, <2>1, GotoMoves
  <2>2. CASE Finish(c)
    <3>1. "idle" \in PCs \ Asking /\ ~NoLocals.ok
      BY DEF PCs, Yielding, Asking, NoLocals
    <3>. QED  BY <2>2, <3>1, FinishMoves, NoLocalsType
  <2>3. ASSUME NEW i \in Intents, NEW fine \in BOOLEAN, NEW now \in BOOLEAN,
               SetLocals(c, [NoLocals EXCEPT !.intent = i, !.fine = fine, !.now = now]),
               Goto(c, "invoke")
        PROVE  \E l \in PCs \ Asking, x \in Locals : Moves(c, l, x) /\ ~x.ok
    <3> DEFINE x == [NoLocals EXCEPT !.intent = i, !.fine = fine, !.now = now]
    <3>1. x \in Locals /\ ~x.ok /\ "invoke" \in PCs \ Asking
      BY DEF NoLocals, Locals, PCs, Asking
    <3>2. Moves(c, "invoke", x)
      BY <2>3, SetLocalsMoves
    <3>. HIDE DEF x
    <3>. QED  BY <3>1, <3>2
  <2>4. ASSUME NEW p \in Posts, NEW l \in PCs \ Asking,
               SetLocals(c, [loc[c] EXCEPT !.post = p]), Goto(c, l)
        PROVE  \E m \in PCs \ Asking, x \in Locals : Moves(c, m, x) /\ ~x.ok
    <3> DEFINE x == [loc[c] EXCEPT !.post = p]
    <3>1. x \in Locals /\ ~x.ok
      BY <1>1 DEF Locals
    <3>2. Moves(c, l, x)
      BY <2>4, SetLocalsMoves
    <3>. HIDE DEF x
    <3>. QED  BY <3>1, <3>2
  <2>5. {"schedule", "publish", "publishing", "logDone", "logFailed"} \subseteq PCs \ Asking
    BY DEF PCs, Yielding, Asking
  <2>6. CASE Invoke(c)
    <3>1. \/ \E l \in {"logDone", "logFailed"} : Goto(c, l) /\ loc' = loc
          \/ \E p \in Posts, l \in {"schedule", "publish", "logDone"} :
               SetLocals(c, [loc[c] EXCEPT !.post = p]) /\ Goto(c, l)
      BY <2>6 DEF Invoke
    <3>. QED  BY <2>1, <2>4, <2>5, <3>1
  <2>7. CASE SchedulePost(c) \/ PublishPost(c) \/ Published(c)
    <3>1. \E l \in {"publishing", "logDone", "logFailed"} : Goto(c, l) /\ loc' = loc
      BY <2>7 DEF SchedulePost, PublishPost, Published
    <3>. QED  BY <2>1, <2>5, <3>1
  <2>. QED  BY <2>2, <2>3, <2>6, <2>7
            DEF Execute, StartExecution, LogDone, LogFailed, LogOutcome
<1>4. \A l \in PCs \ Asking, x \in Locals :
        ~x.ok => HandOK(c, l, x) /\ ChatOK(c, l, x)
  BY <1>1, GatewayAssumption DEF HandOK, ChatOK
<1>. QED  BY <1>1, <1>2, <1>3, <1>4, ToldKept

\* A process dies with the answers its chats had not told of.
LEMMA CrashTold ==
    ASSUME TypeInv, ChatsTold, NEW h \in Hosts, Crash(h)
    PROVE  ChatsTold'
<1> DEFINE died == {c \in Requests : HostOf[c] = h}
           lost == {c \in died : pc[c] \in Asking \cup {"log"} /\ loc[c].ok}
<1>1. /\ unlogged'.chats = unlogged.chats + Cardinality(lost)
      /\ pc' = [c \in Requests |-> IF c \in died THEN "idle" ELSE pc[c]]
      /\ loc' = [c \in Requests |-> IF c \in died THEN NoLocals ELSE loc[c]]
      /\ UNCHANGED <<calls, chats>>
  BY DEF Crash
<1>2. \A d \in Requests :
        /\ d \in died => pc'[d] = "idle" /\ loc'[d] = NoLocals
        /\ d \notin died => pc'[d] = pc[d] /\ loc'[d] = loc[d]
  BY <1>1
<1>3. \A d \in Requests : ChatOK(d, pc'[d], loc'[d])
  <2>1. \A d : ChatOK(d, "idle", NoLocals)
    BY DEF ChatOK, NoLocals, Asking
  <2>. QED  BY <1>2, <2>1 DEF ChatsTold
<1>4. lost = Telling \cap died /\ Telling' = Telling \ lost
  <2>1. lost \subseteq Telling
    BY DEF Telling, ChatsTold, ChatOK, Requests
  <2>2. \A d \in Chats : d \in Telling' <=> d \in Telling /\ d \notin died
    BY <1>2 DEF Telling, Requests, Asking
  <2>. QED  BY <2>1, <2>2 DEF Telling, Requests
<1>5. /\ IsFiniteSet(Telling) /\ Cardinality(Telling) \in Nat
      /\ IsFiniteSet(lost) /\ Cardinality(lost) \in Nat
  BY <1>4, TellingFinite, FS_Subset, FS_CardinalityType
<1>. HIDE DEF lost, died
<1>6. Cardinality(Telling') = Cardinality(Telling) - Cardinality(lost)
  <2>1. Telling \cap lost = lost
    BY <1>4
  <2>. QED  BY <1>4, <1>5, <2>1, FS_Difference
<1>7. Ended' = Ended /\ Answered' = Answered
  BY <1>1 DEF Ended, Answered
<1>8. Answered = chats + unlogged.chats + Cardinality(Telling) /\ chats \in Nat
      /\ unlogged.chats \in Nat
  BY DEF ChatsTold, TypeInv, TypeOK
<1>9. Answered' = chats' + unlogged'.chats + Cardinality(Telling')
  BY <1>1, <1>5, <1>6, <1>7, <1>8
<1>. QED  BY <1>3, <1>7, <1>9 DEF ChatsTold

LEMMA ToldNext == TypeInv /\ ChatsTold /\ [Next]_vars => ChatsTold'
<1>1. ASSUME TypeInv, ChatsTold, WritePackage \/ WriteRoutes \/ UNCHANGED vars
      PROVE  ChatsTold'
  <2>1. UNCHANGED <<calls, chats, unlogged, pc, loc>>
    BY <1>1 DEF WritePackage, WriteRoutes, vars, spending, trail
  <2>2. Ended' = Ended /\ Answered' = Answered /\ Telling' = Telling
    BY <2>1 DEF Ended, Answered, Telling
  <2>. QED  BY <1>1, <2>1, <2>2 DEF ChatsTold
<1>. QED  BY <1>1, AnswerTold, RecordTold, LogTold, ChatTold, ExecutionTold, CrashTold
          DEF Next, Chat

LEMMA ToldInit == Init => ChatsTold
<1>. SUFFICES ASSUME Init PROVE ChatsTold
  OBVIOUS
<1>1. Ended = {}
  BY DEF Init, Ended
<1>2. {e \in Ended : e[1].ok} = {} /\ Telling = {}
  BY <1>1 DEF Init, Telling, Requests, NoLocals
<1>3. Answered = 0 /\ Cardinality(Telling) = 0 /\ IsFiniteSet(Ended)
  BY <1>1, <1>2, FS_EmptySet DEF Answered
<1>4. \A c \in Requests : ChatOK(c, pc[c], loc[c])
  BY DEF Init, ChatOK, NoLocals, Asking
<1>. QED  BY <1>3, <1>4 DEF Init, ChatsTold

-----------------------------------------------------------------------------
(* AuditTrail, of the posts: one execution has a post in hand, in a status of   *)
(* its statement, until it is told of.                                          *)

Fits(l, s) ==
    \/ l \in {"schedule", "publish"} /\ s = "draft"
    \/ l = "publishing" /\ s = "publishing"
    \/ l = "logDone" /\ s \in {"draft", "scheduled", "published"}
    \/ l = "logFailed" /\ s \in {"draft", "publishing", "failed"}

\* What audit_logs tells of post p, or will, once an execution logs it.
PostTold(p) ==
    /\ post[p] = "absent" => logged[p] = None
    /\ post[p] # "absent" =>
          \/ logged[p] # None \/ p \in unlogged.posts
          \/ \E c \in Executions : loc[c].post = p
    /\ logged[p] = "execute" => post[p] \in {"draft", "scheduled", "published"}
    /\ logged[p] = "failed"  => post[p] \in {"draft", "publishing", "failed"}

\* What execution c has in hand.
HeldOK(c) ==
    /\ pc[c] \in {"schedule", "publish", "publishing"} => loc[c].post # None
    /\ pc[c] = "invoke" => loc[c].post = None
    /\ loc[c].post # None => logged[loc[c].post] = None /\ Fits(pc[c], post[loc[c].post])

PostsTold ==
    /\ \A c \in Executions : HeldOK(c)
    /\ \A c, d \in Executions : loc[c].post = loc[d].post /\ loc[c].post # None => c = d
    /\ \A p \in Posts : PostTold(p)

\* A step of an execution that changes no post but the one it then has in hand.
LEMMA HeldStep ==
    ASSUME TypeInv, PostsTold, NEW c \in Executions, NEW l \in PCs \ Asking,
           NEW x \in Locals, Moves(c, l, x), x.post # None,
           loc[c].post \in {None, x.post},
           loc[c].post = None => post[x.post] = "absent",
           UNCHANGED trail, l # "invoke", Fits(l, post'[x.post]),
           \A q \in Posts : q # x.post => post'[q] = post[q]
    PROVE  PostsTold'
<1>. PICK p : p = x.post
  OBVIOUS
<1>1. c \in Requests /\ p \in Posts /\ p # None /\ logged' = logged /\ unlogged' = unlogged
  BY DEF Requests, Locals, trail
<1>2. /\ pc'[c] = l /\ loc'[c] = x
      /\ \A d \in Executions : d # c => pc'[d] = pc[d] /\ loc'[d] = loc[d]
  <2>1. HandOK(c, l, x)
    BY GatewayAssumption DEF HandOK
  <2>. QED  BY <1>1, <2>1, MoveTypes DEF Requests
<1>3. logged[p] = None
  BY <1>1 DEF PostsTold, HeldOK, PostTold
<1>4. ASSUME NEW d \in Executions, d # c PROVE loc[d].post # p
  <2>1. loc[c].post = None \/ loc[c].post = p
    OBVIOUS
  <2>2. CASE loc[c].post = p
    BY <1>1, <1>4, <2>2 DEF PostsTold
  <2>3. CASE loc[c].post = None
    BY <1>1, <2>3 DEF PostsTold, HeldOK, Fits
  <2>. QED  BY <2>1, <2>2, <2>3
<1>5. ASSUME NEW d \in Executions PROVE HeldOK(d)'
  <2>1. CASE d = c
    BY <1>1, <1>2, <1>3, <2>1 DEF HeldOK
  <2>2. CASE d # c
    <3>1. loc[d].post # None => loc[d].post \in Posts /\ loc[d].post # p
      BY <1>4, <2>2 DEF TypeInv, TypeOK, Requests, Locals
    <3>2. loc[d].post # None => post'[loc[d].post] = post[loc[d].post]
      BY <3>1
    <3>. QED  BY <1>1, <1>2, <2>2, <3>2 DEF HeldOK, PostsTold
  <2>. QED  BY <2>1, <2>2
<1>6. ASSUME NEW d \in Executions, NEW e \in Executions,
             loc'[d].post = loc'[e].post, loc'[d].post # None
      PROVE  d = e
  BY <1>2, <1>4, <1>6 DEF PostsTold
<1>7. ASSUME NEW q \in Posts PROVE PostTold(q)'
  <2>1. CASE q = p
    <3>1. loc'[c].post = q /\ logged'[q] = None
      BY <1>1, <1>2, <1>3, <2>1
    <3>2. None \notin {"execute", "failed"}
      BY GatewayAssumption
    <3>. QED  BY <3>1, <3>2 DEF PostTold
  <2>2. CASE q # p
    <3>1. post'[q] = post[q] /\ PostTold(q)
      BY <2>2 DEF PostsTold
    <3>2. ASSUME NEW d \in Executions, loc[d].post = q PROVE loc'[d].post = q
      <4>1. q # None
        BY GatewayAssumption
      <4>2. d # c
        BY <2>2, <3>2, <4>1
      <4>. QED  BY <1>2, <3>2, <4>2
    <3>. QED  BY <1>1, <3>1, <3>2 DEF PostTold
  <2>. QED  BY <2>1, <2>2
<1>. QED  BY <1>5, <1>6, <1>7 DEF PostsTold

\* A step of an execution with no post in hand.
LEMMA EmptyStep ==
    ASSUME TypeInv, PostsTold, NEW c \in Executions, NEW l \in PCs \ Asking,
           NEW x \in Locals, Moves(c, l, x), x.post = None, loc[c].post = None,
           l \notin {"schedule", "publish", "publishing"},
           UNCHANGED <<post, logged>>, unlogged'.posts = unlogged.posts
    PROVE  PostsTold'
<1>1. /\ pc'[c] = l /\ loc'[c] = x
      /\ \A d \in Executions : d # c => pc'[d] = pc[d] /\ loc'[d] = loc[d]
  <2>1. HandOK(c, l, x) /\ c \in Requests
    BY GatewayAssumption DEF HandOK, Requests
  <2>. QED  BY <2>1, MoveTypes DEF Requests
<1>2. \A d \in Executions : loc'[d].post = loc[d].post
  BY <1>1
<1>3. \A d \in Executions : HeldOK(d)'
  BY <1>1 DEF PostsTold, HeldOK
<1>4. \A p \in Posts : PostTold(p)'
  BY <1>2 DEF PostsTold, PostTold
<1>. QED  BY <1>2, <1>3, <1>4 DEF PostsTold

\* A step that leaves the executions and their posts alone.
LEMMA OtherStep ==
    ASSUME PostsTold, UNCHANGED <<post, logged>>, unlogged'.posts = unlogged.posts,
           \A c \in Executions : pc'[c] = pc[c] /\ loc'[c] = loc[c]
    PROVE  PostsTold'
BY DEF PostsTold, HeldOK, PostTold

LEMMA InvokeTold ==
    ASSUME TypeInv, PostsTold, NEW c \in Executions, StartExecution(c) \/ Invoke(c)
    PROVE  PostsTold'
<1>1. /\ c \in Requests /\ loc[c] \in Locals /\ UNCHANGED trail
  BY DEF StartExecution, Invoke, Requests, TypeInv, TypeOK
<1>2. loc[c].post = None
  BY DEF StartExecution, Invoke, Turn, PostsTold, HeldOK, Fits
<1>3. \A l \in {"invoke", "logDone", "logFailed", "schedule", "publish"} : l \in PCs \ Asking
  BY DEF PCs, Asking
<1>4. CASE StartExecution(c)
  <2>1. PICK i \in Intents, fine \in BOOLEAN, now \in BOOLEAN :
          SetLocals(c, [NoLocals EXCEPT !.intent = i, !.fine = fine, !.now = now])
    BY <1>4 DEF StartExecution
  <2> DEFINE x == [NoLocals EXCEPT !.intent = i, !.fine = fine, !.now = now]
  <2>2. x \in Locals /\ x.post = None
    BY DEF NoLocals, Locals
  <2>3. Moves(c, "invoke", x) /\ UNCHANGED post
    BY <1>4, <2>1, SetLocalsMoves DEF StartExecution
  <2>. HIDE DEF x
  <2>. QED  BY <1>1, <1>2, <1>3, <2>2, <2>3, EmptyStep DEF trail
<1>5. ASSUME NEW l \in {"logDone", "logFailed"}, Goto(c, l), UNCHANGED <<post, loc>>
      PROVE  PostsTold'
  <2>1. Moves(c, l, loc[c])
    BY <1>1, <1>5, GotoMoves
  <2>. QED  BY <1>1, <1>2, <1>3, <1>5, <2>1, EmptyStep DEF trail
<1>6. ASSUME NEW l \in {"schedule", "publish", "logDone"}, NEW p \in Posts,
             post[p] = "absent", post' = [post EXCEPT ![p] = "draft"],
             SetLocals(c, [loc[c] EXCEPT !.post = p]), Goto(c, l)
      PROVE  PostsTold'
  <2> DEFINE x == [loc[c] EXCEPT !.post = p]
  <2>1. x \in Locals /\ x.post = p /\ p # None
    BY <1>1, GatewayAssumption DEF Locals
  <2>2. Moves(c, l, x)
    BY <1>6, SetLocalsMoves
  <2>3. Fits(l, post'[p]) /\ \A q \in Posts : q # p => post'[q] = post[q]
    BY <1>6 DEF Fits, TypeInv, TypeOK
  <2>. HIDE DEF x
  <2>. QED  BY <1>1, <1>2, <1>3, <1>6, <2>1, <2>2, <2>3, HeldStep
<1>. QED  BY <1>4, <1>5, <1>6 DEF Invoke

LEMMA PostTookPlace ==
    ASSUME TypeInv, PostsTold, NEW c \in Executions,
           SchedulePost(c) \/ PublishPost(c) \/ Published(c)
    PROVE  PostsTold'
<1>. PICK p : p = loc[c].post
  OBVIOUS
<1>1. /\ c \in Requests /\ loc[c] \in Locals /\ loc' = loc /\ UNCHANGED trail
  BY DEF SchedulePost, PublishPost, Published, Requests, TypeInv, TypeOK
<1>2. p # None /\ p \in Posts
  <2>1. p # None
    BY DEF SchedulePost, PublishPost, Published, Turn, PostsTold, HeldOK
  <2>. QED  BY <1>1, <2>1 DEF Locals
<1>3. /\ post \in [Posts -> {"absent", "draft", "scheduled", "publishing", "published",
                             "failed"}]
      /\ Fits(pc[c], post[p])
  BY <1>2 DEF PostsTold, HeldOK, TypeInv, TypeOK
<1>4. \A s : SetStatus(c, s) => /\ post'[p] = s
                                /\ \A q \in Posts : q # p => post'[q] = post[q]
  BY <1>2, <1>3 DEF SetStatus
<1>5. \E l \in {"logDone", "logFailed", "publishing"} : Goto(c, l) /\ Fits(l, post'[p])
  BY <1>3, <1>4 DEF SchedulePost, PublishPost, Published, Turn, Fits
<1>6. \A q \in Posts : q # p => post'[q] = post[q]
  BY <1>4 DEF SchedulePost, PublishPost, Published
<1>7. PICK l \in {"logDone", "logFailed", "publishing"} : Goto(c, l) /\ Fits(l, post'[p])
  BY <1>5
<1>8. Moves(c, l, loc[c]) /\ l \in PCs \ Asking
  BY <1>1, <1>7, GotoMoves DEF PCs, Yielding, Asking
<1>. QED  BY <1>1, <1>2, <1>6, <1>7, <1>8, HeldStep

\* The outcome that is logged is that of the statements before.
LEMMA OutcomeTold ==
    ASSUME TypeInv, PostsTold, NEW c \in Executions, LogDone(c) \/ LogFailed(c)
    PROVE  PostsTold'
<1>. PICK p : p = loc[c].post
  OBVIOUS
<1>1. PICK outcome \in {"execute", "failed"} :
        /\ LogOutcome(c, outcome)
        /\ outcome = "execute" => pc[c] = "logDone"
        /\ outcome = "failed" => pc[c] = "logFailed"
  BY DEF LogDone, LogFailed, Turn
<1>2. /\ c \in Requests /\ p \in Posts \cup {None} /\ post' = post
      /\ Moves(c, "idle", NoLocals) /\ "idle" \in PCs \ Asking /\ NoLocals.post = None
  BY <1>1, FinishMoves
     DEF LogOutcome, Requests, TypeInv, TypeOK, Locals, PCs, Yielding, Asking, NoLocals
<1>3. CASE p = None
  <2>1. unlogged'.posts = unlogged.posts /\ logged' = logged
    <3>1. \/ logged' = logged /\ unlogged' = unlogged
          \/ /\ logged' = logged
             /\ unlogged' = [unlogged EXCEPT !.posts = @ \cup ({p} \ {None})]
      BY <1>1, <1>3 DEF LogOutcome
    <3>2. unlogged.posts \cup ({p} \ {None}) = unlogged.posts
      BY <1>3
    <3>. QED  BY <3>1, <3>2 DEF TypeInv, TypeOK
  <2>. QED  BY <1>2, <1>3, <2>1, NoLocalsType, EmptyStep
<1>4. CASE p # None
  <2>1. p \in Posts /\ logged[p] = None /\ Fits(pc[c], post[p])
    BY <1>2, <1>4 DEF PostsTold, HeldOK
  <2>2. /\ pc'[c] = "idle" /\ loc'[c] = NoLocals
        /\ \A d \in Executions : d # c => pc'[d] = pc[d] /\ loc'[d] = loc[d]
    BY <1>2, NoLocalsType, MoveTypes DEF Requests
  <2>3. /\ logged \in [Posts -> {None, "execute", "failed"}]
        /\ unlogged \in [chats : Nat, posts : SUBSET Posts]
    BY DEF TypeInv, TypeOK
  <2>4. /\ \A q \in Posts : q # p => logged'[q] = logged[q]
        /\ unlogged.posts \subseteq unlogged'.posts
        /\ \/ logged'[p] = outcome
           \/ logged'[p] = None /\ p \in unlogged'.posts
    <3>1. CASE logged' = [logged EXCEPT ![p] = outcome] /\ unlogged' = unlogged
      BY <2>1, <2>3, <3>1
    <3>2. CASE /\ logged' = logged
               /\ unlogged' = [unlogged EXCEPT !.posts = @ \cup ({p} \ {None})]
      BY <1>4, <2>1, <2>3, <3>2
    <3>. QED  BY <1>1, <1>4, <3>1, <3>2 DEF LogOutcome
  <2>5. \A d \in Executions : d # c => loc[d].post # p
    BY <1>4 DEF PostsTold
  <2>6. ASSUME NEW d \in Executions PROVE HeldOK(d)'
    <3>1. CASE d = c
      BY <1>2, <2>2, <3>1 DEF HeldOK
    <3>2. CASE d # c
      <4>1. loc[d].post # None => loc[d].post \in Posts /\ loc[d].post # p
        BY <2>5, <3>2 DEF TypeInv, TypeOK, Requests, Locals
      <4>2. loc[d].post # None => logged'[loc[d].post] = logged[loc[d].post]
        BY <2>4, <4>1
      <4>. QED  BY <1>2, <2>2, <3>2, <4>2 DEF HeldOK, PostsTold
    <3>. QED  BY <3>1, <3>2
  <2>7. ASSUME NEW d \in Executions, NEW e \in Executions,
               loc'[d].post = loc'[e].post, loc'[d].post # None
        PROVE  d = e
    <3>1. d # c /\ e # c
      BY <1>2, <2>2, <2>7
    <3>. QED  BY <2>2, <2>7, <3>1 DEF PostsTold
  <2>8. ASSUME NEW q \in Posts PROVE PostTold(q)'
    <3>1. CASE q = p
      <4>1. post[p] # "absent"
        BY <2>1 DEF Fits
      <4>2. None \notin {"execute", "failed"}
        BY GatewayAssumption
      <4>3. outcome = "execute" => post[p] \in {"draft", "scheduled", "published"}
        BY <1>1, <2>1 DEF Fits
      <4>4. outcome = "failed" => post[p] \in {"draft", "publishing", "failed"}
        BY <1>1, <2>1 DEF Fits
      <4>5. logged'[q] = outcome \/ (logged'[q] = None /\ q \in unlogged'.posts)
        BY <2>4, <3>1
      <4>6. post'[q] = post[p]
        BY <1>2, <3>1
      <4>. QED  BY <4>1, <4>2, <4>3, <4>4, <4>5, <4>6 DEF PostTold
    <3>2. CASE q # p
      <4>1. logged'[q] = logged[q] /\ PostTold(q) /\ post'[q] = post[q]
        BY <1>2, <2>4, <3>2 DEF PostsTold
      <4>2. q \in unlogged.posts => q \in unlogged'.posts
        BY <2>4
      <4>3. ASSUME NEW d \in Executions, loc[d].post = q PROVE loc'[d].post = q
        BY <2>2, <3>2, <4>3
      <4>. QED  BY <4>1, <4>2, <4>3 DEF PostTold
    <3>. QED  BY <3>1, <3>2
  <2>. QED  BY <2>6, <2>7, <2>8 DEF PostsTold
<1>. QED  BY <1>3, <1>4

\* A process dies with the posts its executions had not told of.
LEMMA CrashPosts ==
    ASSUME TypeInv, PostsTold, NEW h \in Hosts, Crash(h)
    PROVE  PostsTold'
<1> DEFINE died == {c \in Requests : HostOf[c] = h}
<1>1. /\ unlogged'.posts = unlogged.posts \cup ({loc[c].post : c \in died} \ {None})
      /\ pc' = [c \in Requests |-> IF c \in died THEN "idle" ELSE pc[c]]
      /\ loc' = [c \in Requests |-> IF c \in died THEN NoLocals ELSE loc[c]]
      /\ UNCHANGED <<post, logged>>
  BY DEF Crash
<1>2. \A d \in Executions :
        /\ d \in Requests
        /\ d \in died => pc'[d] = "idle" /\ loc'[d] = NoLocals
        /\ d \notin died => pc'[d] = pc[d] /\ loc'[d] = loc[d]
  BY <1>1 DEF Requests
<1>3. NoLocals.post = None
  BY DEF NoLocals
<1>4. ASSUME NEW d \in Executions PROVE HeldOK(d)'
  <2>1. CASE d \in died
    BY <1>2, <1>3, <2>1 DEF HeldOK
  <2>2. CASE d \notin died
    BY <1>1, <1>2, <2>2 DEF HeldOK, PostsTold
  <2>. QED  BY <2>1, <2>2
<1>5. ASSUME NEW d \in Executions, NEW e \in Executions,
             loc'[d].post = loc'[e].post, loc'[d].post # None
      PROVE  d = e
  BY <1>2, <1>3, <1>5 DEF PostsTold
<1>6. ASSUME NEW p \in Posts PROVE PostTold(p)'
  <2>1. PostTold(p) /\ p # None
    BY GatewayAssumption DEF PostsTold
  <2>2. ASSUME NEW d \in Executions, loc[d].post = p
        PROVE  loc'[d].post = p \/ p \in unlogged'.posts
    BY <1>1, <1>2, <2>1, <2>2
  <2>3. p \in unlogged.posts => p \in unlogged'.posts
    BY <1>1
  <2>. QED  BY <1>1, <2>1, <2>2, <2>3 DEF PostTold
<1>. QED  BY <1>4, <1>5, <1>6 DEF PostsTold

LEMMA PostsNext == TypeInv /\ PostsTold /\ [Next]_vars => PostsTold'
<1>1. ASSUME TypeInv, PostsTold, NEW c \in Chats, Chat(c) PROVE PostsTold'
  <2>1. UNCHANGED <<post, logged>> /\ unlogged'.posts = unlogged.posts
    BY <1>1 DEF Chat, StartChat, ResolveRoute, Answer, RecordUsage, LogChat, DryRun, trail,
                TypeInv, TypeOK
  <2>2. /\ pc' = pc \/ \E l : Goto(c, l)
        /\ loc' = loc \/ \E x : SetLocals(c, x)
    BY <1>1 DEF Chat, StartChat, ResolveRoute, Answer, RecordUsage, LogChat, DryRun, Continue,
                Finish
  <2>3. \A d \in Executions : d # c /\ d \in Requests
    BY GatewayAssumption DEF Requests
  <2>4. \A d \in Executions : pc'[d] = pc[d] /\ loc'[d] = loc[d]
    <3>1. pc \in [Requests -> PCs] /\ loc \in [Requests -> Locals]
      BY <1>1 DEF TypeInv, TypeOK
    <3>2. ASSUME NEW d \in Executions PROVE pc'[d] = pc[d] /\ loc'[d] = loc[d]
      <4>1. d # c /\ d \in Requests
        BY <2>3
      <4>2. \A l : Goto(c, l) => pc'[d] = pc[d]
        BY <3>1, <4>1 DEF Goto
      <4>3. \A x : SetLocals(c, x) => loc'[d] = loc[d]
        BY <3>1, <4>1 DEF SetLocals
      <4>. QED  BY <2>2, <4>2, <4>3
    <3>. QED  BY <3>2
  <2>. QED  BY <1>1, <2>1, <2>4, OtherStep
<1>2. ASSUME TypeInv, PostsTold, WritePackage \/ WriteRoutes \/ UNCHANGED vars
      PROVE  PostsTold'
  <2>1. UNCHANGED <<post, logged, unlogged, pc, loc>>
    BY <1>2 DEF WritePackage, WriteRoutes, vars, trail
  <2>. QED  BY <1>2, <2>1, OtherStep
<1>. QED  BY <1>1, <1>2, InvokeTold, PostTookPlace, OutcomeTold, CrashPosts
          DEF Next, Execute

LEMMA PostsInit == Init => PostsTold
<1>. SUFFICES ASSUME Init PROVE PostsTold
  OBVIOUS
<1>1. \A c \in Executions : pc[c] = "idle" /\ loc[c] = NoLocals
  BY DEF Init, Requests
<1>2. NoLocals.post = None
  BY DEF NoLocals
<1>3. \A c \in Executions : HeldOK(c)
  BY <1>1, <1>2 DEF HeldOK
<1>4. \A p \in Posts : PostTold(p)
  BY GatewayAssumption DEF Init, PostTold
<1>. QED  BY <1>1, <1>2, <1>3, <1>4 DEF PostsTold

\* Every answer of a language model and every post an execution left is a row of
\* audit_logs that says what became of it, or is still to be logged, or was lost
\* with its process or with an insert that failed; in however many processes, and
\* wherever an execution fails or dies.
THEOREM AuditTold == Spec => []AuditTrail
<1>1. ChatsTold /\ PostsTold => AuditTrail
  BY DEF ChatsTold, PostsTold, PostTold, AuditTrail, Telling
<1>2. GatewayInv => TypeInv
  BY DEF GatewayInv
<1>3. /\ Init => GatewayInv /\ ChatsTold /\ PostsTold
      /\ GatewayInv /\ ChatsTold /\ PostsTold /\ [Next]_vars
           => (GatewayInv /\ ChatsTold /\ PostsTold)'
  BY <1>2, GatewayInit, GatewayNext, ToldInit, ToldNext, PostsInit, PostsNext
<1>. QED  BY <1>1, <1>3, PTL DEF Spec
=============================================================================
