------------------------- MODULE BudgetedPostsProofs -------------------------
(***************************************************************************)
(* TLAPS proofs about BudgetedPosts: types; that the usage records stand   *)
(* for the publications asked of platforms, but for those that end without *)
(* a record (Ledger), and that recorded and present calls pass the limit   *)
(* of a policy by no more than the requests that may be publishing         *)
(* (OvershootBounded), with any number of requests, processes and crashes; *)
(* and, when the requests that publish share a process, that a post, and a *)
(* key, is published once.                                                 *)
(***************************************************************************)
EXTENDS BudgetedPosts, SequenceTheorems, FiniteSetTheorems, TLAPS

-----------------------------------------------------------------------------
(* Types, and what a request has in hand where; n is the number of rows made. *)

HandOK(l, x, n) ==
    /\ l \notin {"idle", "body", "insert"} => x.post \in Posts
    /\ l \in {"body", "insert"} => x.on \in Platforms
    /\ l = "aggregate" => x.policy \in PolicyRows
    /\ l \in InHand => /\ x.call \in UsageRows
                       /\ x.call.endpoint = "post.publish" /\ x.call.id < n

TypeInv == TypeOK /\ \A c \in Clients : HandOK(pc[c], loc[c], rows)

\* Request c goes to statement l with locals x.
Moves(c, l, x) == pc' = [pc EXCEPT ![c] = l] /\ loc' = [loc EXCEPT ![c] = x]

LEMMA NoLocalsType == NoLocals \in Locals /\ \A n : HandOK("idle", NoLocals, n)
BY DEF NoLocals, Locals, HandOK, InHand

LEMMA RowMade == TypeInv => rows + 1 \in Nat /\ rows < rows + 1
BY DEF TypeInv, TypeOK

LEMMA MoveTypes ==
    ASSUME TypeInv, NEW c \in Clients, NEW l \in PCs, NEW x \in Locals,
           Moves(c, l, x), HandOK(l, x, rows'), rows' \in Nat, rows <= rows'
    PROVE  /\ pc' \in [Clients -> PCs] /\ loc' \in [Clients -> Locals]
           /\ \A d \in Clients : HandOK(pc'[d], loc'[d], rows')
<1>1. pc' \in [Clients -> PCs] /\ loc' \in [Clients -> Locals]
  BY DEF TypeInv, TypeOK, Moves
<1>2. ASSUME NEW d \in Clients PROVE HandOK(pc'[d], loc'[d], rows')
  <2>1. CASE d = c
    BY <2>1 DEF TypeInv, TypeOK, Moves
  <2>2. CASE d # c
    <3>1. pc'[d] = pc[d] /\ loc'[d] = loc[d] /\ HandOK(pc[d], loc[d], rows)
      BY <2>2 DEF TypeInv, TypeOK, Moves
    <3>2. ASSUME NEW i \in Nat, i < rows PROVE i < rows'
      BY <3>2 DEF TypeInv, TypeOK
    <3>. QED  BY <3>1, <3>2 DEF HandOK, UsageRows
  <2>. QED  BY <2>1, <2>2
<1>. QED  BY <1>1, <1>2

LEMMA FinishMoves == \A c : Finish(c) => Moves(c, "idle", NoLocals)
BY DEF Finish, Goto, SetLocals, Moves

LEMMA GotoMoves ==
    ASSUME TypeInv, NEW c \in Clients, NEW l, Goto(c, l), loc' = loc
    PROVE  Moves(c, l, loc[c])
BY DEF Goto, Moves, TypeInv, TypeOK

LEMMA SetLocalsMoves == \A c, l, x : Goto(c, l) /\ SetLocals(c, x) => Moves(c, l, x)
BY DEF Goto, SetLocals, Moves

LEMMA StatusTypes ==
    ASSUME TypeInv, NEW p \in Posts,
           NEW s \in {"draft", "scheduled", "publishing", "published", "failed"},
           SetStatus(p, s)
    PROVE  post' \in [Posts -> PostRows]
BY DEF SetStatus, TypeInv, TypeOK, PostRows

THEOREM BudgetInit == Init => TypeInv
<1>. SUFFICES ASSUME Init PROVE TypeInv
  OBVIOUS
<1>1. post \in [Posts -> PostRows]
  BY BudgetAssumption DEF Init, PostRows
<1>2. TypeOK
  BY <1>1, NoLocalsType DEF Init, TypeOK, PCs, Yielding
<1>. QED  BY <1>2, NoLocalsType DEF Init, TypeInv

\* The steps of a request that change no table.
ReadStep(c) ==
    \/ StartCreate(c) \/ FindByKey(c) \/ StartPublish(c) \/ Load(c)
    \/ FindPolicies(c) \/ Evaluate(c) \/ Reply(c) \/ CallFails(c)

LEMMA ReadMoves ==
    ASSUME TypeInv, NEW c \in Clients, ReadStep(c)
    PROVE  \E l \in PCs, x \in Locals :
             /\ Moves(c, l, x) /\ HandOK(l, x, rows)
             /\ l \in InHand => pc[c] \in InHand /\ x.call = loc[c].call
             /\ pc[c] \in InHand => l \in InHand
<1>1. loc[c] \in Locals /\ HandOK(pc[c], loc[c], rows)
  BY DEF TypeInv, TypeOK
<1>2. ASSUME Finish(c), pc[c] \notin InHand
      PROVE  \E l \in PCs, x \in Locals :
               /\ Moves(c, l, x) /\ HandOK(l, x, rows)
               /\ l \in InHand => pc[c] \in InHand /\ x.call = loc[c].call
               /\ pc[c] \in InHand => l \in InHand
  BY <1>2, FinishMoves, NoLocalsType DEF PCs, Yielding, InHand
<1>3. CASE StartCreate(c)
  <2>1. PICK k \in Keys \cup {None}, v \in Platforms, now \in BOOLEAN :
          SetLocals(c, [NoLocals EXCEPT !.key = k, !.on = v, !.now = now])
    BY <1>3 DEF StartCreate
  <2> DEFINE x == [NoLocals EXCEPT !.key = k, !.on = v, !.now = now]
  <2>2. x \in Locals /\ x.on = v
    BY DEF NoLocals, Locals
  <2>3. Moves(c, "body", x) /\ pc[c] = "idle"
    BY <1>3, <2>1, SetLocalsMoves DEF StartCreate, Offered, Turn
  <2>. QED  BY <2>2, <2>3 DEF HandOK, InHand, PCs, Yielding
<1>4. CASE FindByKey(c)
  <2>1. pc[c] = "body"
    BY <1>4 DEF FindByKey, Turn
  <2>2. CASE Goto(c, "insert") /\ UNCHANGED loc
    <3>1. Moves(c, "insert", loc[c])
      BY <2>2, GotoMoves
    <3>. QED  BY <1>1, <2>1, <3>1 DEF HandOK, InHand, PCs
  <2>. QED  BY <1>2, <1>4, <2>1, <2>2 DEF FindByKey, InHand
<1>5. CASE StartPublish(c)
  <2>1. PICK p \in Posts : SetLocals(c, [NoLocals EXCEPT !.post = p])
    BY <1>5 DEF StartPublish
  <2> DEFINE x == [NoLocals EXCEPT !.post = p]
  <2>2. x \in Locals /\ x.post = p
    BY DEF NoLocals, Locals
  <2>3. Moves(c, "load", x) /\ pc[c] = "idle"
    BY <1>5, <2>1, SetLocalsMoves DEF StartPublish, Offered, Turn
  <2>. QED  BY <2>2, <2>3 DEF HandOK, InHand, PCs
<1>6. CASE Load(c)
  <2>1. pc[c] = "load" /\ loc[c].post \in Posts
    BY <1>1, <1>6 DEF Load, Turn, HandOK
  <2>2. ASSUME NEW l \in {"policies", "mark"}, Goto(c, l), UNCHANGED loc
        PROVE  /\ l \in PCs /\ Moves(c, l, loc[c]) /\ HandOK(l, loc[c], rows)
               /\ l \notin InHand
    BY <1>1, <2>1, <2>2, GotoMoves DEF HandOK, InHand, PCs
  <2>. QED  BY <1>1, <1>2, <1>6, <2>1, <2>2 DEF Load, InHand
<1>7. CASE FindPolicies(c)
  <2>1. pc[c] = "policies" /\ loc[c].post \in Posts
    BY <1>1, <1>7 DEF FindPolicies, Turn, HandOK
  <2>2. ASSUME NEW i \in DOMAIN policies, Goto(c, "aggregate"),
               SetLocals(c, [loc[c] EXCEPT !.policy = policies[i]])
        PROVE  \E l \in PCs, x \in Locals :
                 Moves(c, l, x) /\ HandOK(l, x, rows) /\ l \notin InHand
    <3> DEFINE x == [loc[c] EXCEPT !.policy = policies[i]]
    <3>1. policies[i] \in PolicyRows
      BY DEF TypeInv, TypeOK
    <3>2. x \in Locals /\ x.policy = policies[i] /\ x.post = loc[c].post
      BY <1>1, <3>1 DEF Locals
    <3>3. Moves(c, "aggregate", x)
      BY <2>2, SetLocalsMoves
    <3>4. HandOK("aggregate", x, rows)
      BY <2>1, <3>1, <3>2 DEF HandOK, InHand
    <3>. QED  BY <3>2, <3>3, <3>4 DEF InHand, PCs
  <2>3. CASE Goto(c, "mark") /\ UNCHANGED loc
    <3>1. Moves(c, "mark", loc[c])
      BY <2>3, GotoMoves
    <3>. QED  BY <1>1, <2>1, <3>1 DEF HandOK, InHand, PCs
  <2>. QED  BY <1>7, <2>1, <2>2, <2>3 DEF FindPolicies, InHand
<1>8. CASE Evaluate(c)
  <2>1. pc[c] = "aggregate" /\ loc[c].post \in Posts
    BY <1>1, <1>8 DEF Evaluate, Turn, HandOK
  <2>2. ASSUME NEW l \in {"request", "mark"}, Goto(c, l), UNCHANGED loc
        PROVE  /\ l \in PCs /\ Moves(c, l, loc[c]) /\ HandOK(l, loc[c], rows)
               /\ l \notin InHand
    BY <1>1, <2>1, <2>2, GotoMoves DEF HandOK, InHand, PCs
  <2>. QED  BY <1>1, <1>2, <1>8, <2>1, <2>2 DEF Evaluate, InHand
<1>9. CASE Reply(c) \/ CallFails(c)
  <2>1. PICK l \in {"published", "failed"} :
          Goto(c, l) /\ pc[c] \in {"calling", "accepted"} /\ loc' = loc
    BY <1>9 DEF Reply, CallFails, Turn
  <2>2. Moves(c, l, loc[c])
    BY <2>1, GotoMoves
  <2>. QED  BY <1>1, <2>1, <2>2 DEF HandOK, InHand, PCs
<1>. QED  BY <1>3, <1>4, <1>5, <1>6, <1>7, <1>8, <1>9 DEF ReadStep

\* The steps that write the status of the post a request is about.
StatusStep(c) ==
    \/ HoldPost(c) \/ NoAccount(c) \/ RecordOutcome(c) \/ ExecutorReset(c)
    \/ RejectDraft(c)

LEMMA StatusMoves ==
    ASSUME TypeInv, NEW c \in Clients, StatusStep(c)
    PROVE  /\ loc[c].post \in Posts
           /\ \/ UNCHANGED post
              \/ \E s \in {"draft", "scheduled", "publishing", "published", "failed"} :
                    SetStatus(loc[c].post, s)
           /\ \E l \in PCs, x \in Locals :
                /\ Moves(c, l, x) /\ HandOK(l, x, rows)
                /\ l \in InHand => pc[c] \in InHand /\ x.call = loc[c].call
                /\ pc[c] \in InHand => l \in InHand
<1>1. loc[c] \in Locals /\ HandOK(pc[c], loc[c], rows)
  BY DEF TypeInv, TypeOK
<1>2. pc[c] \in {"hold", "mark", "published", "failed", "reset", "unhold"}
  BY DEF StatusStep, HoldPost, NoAccount, RecordOutcome, ExecutorReset, RejectDraft, Turn
<1>3. loc[c].post \in Posts
  BY <1>1, <1>2 DEF HandOK
<1>4. \/ UNCHANGED post
      \/ \E s \in {"draft", "scheduled", "publishing", "published", "failed"} :
            SetStatus(loc[c].post, s)
  BY DEF StatusStep, HoldPost, NoAccount, RecordOutcome, ExecutorReset, RejectDraft
<1>5. CASE HoldPost(c) \/ NoAccount(c) \/ RejectDraft(c)
  <2>1. Moves(c, "idle", NoLocals) /\ pc[c] \notin InHand
    BY <1>5, FinishMoves DEF HoldPost, NoAccount, RejectDraft, Turn, InHand
  <2>. QED  BY <1>3, <1>4, <2>1, NoLocalsType DEF PCs, Yielding, InHand
<1>6. CASE RecordOutcome(c)
  <2>1. Moves(c, "usage", loc[c]) /\ pc[c] \in InHand
    BY <1>6, GotoMoves DEF RecordOutcome, Turn, InHand
  <2>2. HandOK("usage", loc[c], rows)
    BY <1>1, <1>3, <2>1 DEF HandOK, InHand
  <2>. QED  BY <1>1, <1>3, <1>4, <2>1, <2>2 DEF PCs, InHand
<1>7. CASE ExecutorReset(c)
  <2>1. Moves(c, "load", loc[c]) /\ pc[c] \notin InHand
    BY <1>7, GotoMoves DEF ExecutorReset, Turn, InHand
  <2>2. HandOK("load", loc[c], rows)
    BY <1>1, <1>3, <2>1 DEF HandOK, InHand
  <2>. QED  BY <1>1, <1>3, <1>4, <2>1, <2>2 DEF PCs, InHand
<1>. QED  BY <1>5, <1>6, <1>7 DEF StatusStep

\* Requests that are created, approved and rejected.
LEMMA ReviewMoves ==
    ASSUME TypeInv, NEW c \in Clients, CreateRequest(c) \/ Approve(c) \/ Reject(c)
    PROVE  /\ pending' \in [Posts -> Nat]
           /\ pc[c] \notin InHand
           /\ \E l \in PCs \ InHand, x \in Locals : Moves(c, l, x) /\ HandOK(l, x, rows)
<1>1. loc[c] \in Locals /\ HandOK(pc[c], loc[c], rows) /\ pending \in [Posts -> Nat]
  BY DEF TypeInv, TypeOK
<1>2. CASE CreateRequest(c)
  <2>1. pc[c] = "request" /\ loc[c].post \in Posts
    BY <1>1, <1>2 DEF CreateRequest, Turn, HandOK
  <2>2. Moves(c, "hold", loc[c])
    BY <1>2, GotoMoves DEF CreateRequest
  <2>3. HandOK("hold", loc[c], rows)
    BY <1>1, <2>1 DEF HandOK, InHand
  <2>4. pending' \in [Posts -> Nat]
    BY <1>1, <1>2, <2>1 DEF CreateRequest
  <2>. QED  BY <1>1, <2>1, <2>2, <2>3, <2>4 DEF PCs, InHand
<1>3. CASE Approve(c) \/ Reject(c)
  <2>1. PICK p \in Posts, l \in {"reset", "unhold"}, x \in Locals :
          /\ pending[p] > 0 /\ pending' = [pending EXCEPT ![p] = @ - 1]
          /\ Moves(c, l, x) /\ x.post = p
    <3>1. CASE Approve(c)
      <4>1. PICK p \in Posts :
              /\ pending[p] > 0 /\ pending' = [pending EXCEPT ![p] = @ - 1]
              /\ Moves(c, "reset", [NoLocals EXCEPT !.post = p, !.checked = FALSE])
        BY <3>1, SetLocalsMoves DEF Approve
      <4> DEFINE x == [NoLocals EXCEPT !.post = p, !.checked = FALSE]
      <4>2. x \in Locals /\ x.post = p
        BY DEF NoLocals, Locals
      <4>. QED  BY <4>1, <4>2
    <3>2. CASE Reject(c)
      <4>1. PICK p \in Posts :
              /\ pending[p] > 0 /\ pending' = [pending EXCEPT ![p] = @ - 1]
              /\ Moves(c, "unhold", [NoLocals EXCEPT !.post = p])
        BY <3>2, SetLocalsMoves DEF Reject
      <4> DEFINE x == [NoLocals EXCEPT !.post = p]
      <4>2. x \in Locals /\ x.post = p
        BY DEF NoLocals, Locals
      <4>. QED  BY <4>1, <4>2
    <3>. QED  BY <1>3, <3>1, <3>2
  <2>3. HandOK(l, x, rows)
    BY <2>1 DEF HandOK, InHand
  <2>4. pending' \in [Posts -> Nat]
    BY <1>1, <2>1
  <2>5. pc[c] = "idle"
    BY <1>3 DEF Approve, Reject, Offered, Turn
  <2>. QED  BY <2>1, <2>3, <2>4, <2>5 DEF PCs, InHand
<1>. QED  BY <1>2, <1>3

LEMMA InsertMoves ==
    ASSUME TypeInv, NEW c \in Clients, Insert(c)
    PROVE  /\ post' \in [Posts -> PostRows] /\ pc[c] = "insert"
           /\ \E l \in PCs \ InHand, x \in Locals : Moves(c, l, x) /\ HandOK(l, x, rows)
<1>1. /\ loc[c] \in Locals /\ HandOK(pc[c], loc[c], rows) /\ pc[c] = "insert"
      /\ post \in [Posts -> PostRows] /\ loc[c].on \in Platforms
  BY DEF TypeInv, TypeOK, Insert, Turn, HandOK
<1>2. CASE Finish(c) /\ UNCHANGED post
  BY <1>1, <1>2, FinishMoves, NoLocalsType DEF PCs, Yielding, InHand
<1>3. ASSUME NEW p \in Posts,
             post' = [post EXCEPT ![p] = [status |-> "draft", key |-> loc[c].key,
                                          platform |-> loc[c].on]],
             Goto(c, IF loc[c].now THEN "load" ELSE "idle"),
             SetLocals(c, IF loc[c].now THEN [NoLocals EXCEPT !.post = p] ELSE NoLocals)
      PROVE  /\ post' \in [Posts -> PostRows]
             /\ \E l \in PCs \ InHand, x \in Locals : Moves(c, l, x) /\ HandOK(l, x, rows)
  <2>1. post' \in [Posts -> PostRows]
    BY <1>1, <1>3 DEF PostRows, Locals
  <2>2. CASE loc[c].now
    <3> DEFINE x == [NoLocals EXCEPT !.post = p]
    <3>1. x \in Locals /\ x.post = p
      BY DEF NoLocals, Locals
    <3>2. Moves(c, "load", x)
      BY <1>3, <2>2, SetLocalsMoves
    <3>3. HandOK("load", x, rows)
      BY <3>1 DEF HandOK, InHand
    <3>. QED  BY <2>1, <3>1, <3>2, <3>3 DEF PCs, InHand
  <2>3. CASE ~loc[c].now
    <3>1. Moves(c, "idle", NoLocals)
      BY <1>3, <2>3, SetLocalsMoves
    <3>. QED  BY <2>1, <3>1, NoLocalsType DEF PCs, Yielding, InHand
  <2>. QED  BY <2>2, <2>3
<1>. QED  BY <1>1, <1>2, <1>3 DEF Insert

LEMMA MarkMoves ==
    ASSUME TypeInv, NEW c \in Clients, MarkPublishing(c)
    PROVE  \E x \in Locals :
             /\ Moves(c, "calling", x) /\ HandOK("calling", x, rows')
             /\ x.call.id = rows /\ calls' = calls \cup {x.call} /\ x.call \in UsageRows
             /\ x.post = loc[c].post /\ pc[c] = "mark" /\ loc[c].post \in Posts
<1>1. /\ loc[c] \in Locals /\ pc[c] = "mark" /\ loc[c].post \in Posts
      /\ post \in [Posts -> PostRows] /\ rows \in Nat /\ rows' = rows + 1
  BY DEF TypeInv, TypeOK, MarkPublishing, Turn, HandOK
<1> DEFINE call == [id |-> rows, platform |-> PostOf(c).platform,
                    endpoint |-> "post.publish"]
           x    == [loc[c] EXCEPT !.call = call]
<1>2. call \in UsageRows
  BY <1>1 DEF PostOf, PostRows, UsageRows, Endpoints
<1>3. x \in Locals /\ x.call = call /\ x.post = loc[c].post
  BY <1>1, <1>2 DEF Locals
<1>4. Moves(c, "calling", x) /\ calls' = calls \cup {x.call}
  BY <1>3, SetLocalsMoves DEF MarkPublishing
<1>5. HandOK("calling", x, rows')
  BY <1>1, <1>2, <1>3 DEF HandOK, InHand
<1>6. x.call.id = rows /\ x.call \in UsageRows
  BY <1>2, <1>3
<1>. QED  BY <1>1, <1>3, <1>4, <1>5, <1>6

\* The statuses and the rows of requests that do not touch spending.
LEMMA QuietTypes ==
    ASSUME TypeInv, NEW c \in Clients, NEW l \in PCs, NEW x \in Locals,
           Moves(c, l, x), HandOK(l, x, rows), UNCHANGED <<policies, spending>>,
           post' \in [Posts -> PostRows], pending' \in [Posts -> Nat],
           accepted' \in [Posts -> Nat], failures' \in Nat, crashes' \in Nat
    PROVE  TypeInv'
<1>1. rows' = rows /\ rows \in Nat
  BY DEF spending, TypeInv, TypeOK
<1>2. /\ pc' \in [Clients -> PCs] /\ loc' \in [Clients -> Locals]
      /\ \A d \in Clients : HandOK(pc'[d], loc'[d], rows')
  BY <1>1, MoveTypes
<1>. QED  BY <1>1, <1>2 DEF TypeInv, TypeOK, spending

-----------------------------------------------------------------------------
(* The books: ids are fresh, no two requests have one call in hand, and the  *)
(* ledger balances.                                                          *)

Books ==
    /\ \A k \in usage \cup calls \cup unrecorded : k.id < rows
    /\ \A c, d \in Clients : pc[c] \in InHand /\ pc[d] \in InHand
                             /\ loc[c].call = loc[d].call => c = d
    /\ Ledger

LEMMA InHandCalls ==
    \A C, k : k \in CallsInHand(C) <=>
                \E c \in C : pc[c] \in InHand /\ k = loc[c].call
BY DEF CallsInHand

LEMMA QuietBooks ==
    ASSUME TypeInv, Books, NEW c \in Clients, NEW l, NEW x, Moves(c, l, x),
           l \in InHand => pc[c] \in InHand /\ x.call = loc[c].call,
           pc[c] \in InHand => l \in InHand,
           UNCHANGED spending
    PROVE  Books'
<1>1. /\ pc'[c] = l /\ loc'[c] = x
      /\ \A d \in Clients : d # c => pc'[d] = pc[d] /\ loc'[d] = loc[d]
  BY DEF Moves, TypeInv, TypeOK
<1>2. \A d \in Clients : /\ pc'[d] \in InHand <=> pc[d] \in InHand
                         /\ pc[d] \in InHand => loc'[d].call = loc[d].call
  BY <1>1
<1>3. CallsInHand(Clients)' = CallsInHand(Clients)
  <2>1. \A k : k \in CallsInHand(Clients)' <=> k \in CallsInHand(Clients)
    BY <1>2 DEF CallsInHand
  <2>. QED  BY <2>1
<1>. QED  BY <1>2, <1>3 DEF Books, Ledger, Recorded, spending

LEMMA QuietStep ==
    ASSUME TypeInv, Books, NEW c \in Clients,
           ReadStep(c) \/ StatusStep(c) \/ CreateRequest(c) \/ Approve(c) \/ Reject(c)
             \/ Insert(c) \/ Accept(c)
    PROVE  TypeInv' /\ Books'
<1>. USE BudgetAssumption
<1>1. /\ loc[c] \in Locals /\ HandOK(pc[c], loc[c], rows)
      /\ post \in [Posts -> PostRows] /\ pending \in [Posts -> Nat]
      /\ accepted \in [Posts -> Nat] /\ failures \in Nat /\ crashes \in Nat
  BY DEF TypeInv, TypeOK
<1>2. CASE ReadStep(c)
  <2>1. UNCHANGED <<policies, spending, post, pending, accepted>>
    BY <1>2 DEF ReadStep, StartCreate, FindByKey, StartPublish, Load, FindPolicies,
                Evaluate, Reply, CallFails
  <2>3. UNCHANGED bounds \/ Fail
    BY <1>2 DEF ReadStep, StartCreate, FindByKey, StartPublish, Load, FindPolicies,
                Evaluate, Reply, CallFails
  <2>4. failures' \in Nat /\ crashes' \in Nat
    BY <1>1, <2>3 DEF Fail, bounds
  <2>2. PICK l \in PCs, x \in Locals :
          /\ Moves(c, l, x) /\ HandOK(l, x, rows)
          /\ l \in InHand => pc[c] \in InHand /\ x.call = loc[c].call
          /\ pc[c] \in InHand => l \in InHand
    BY <1>2, ReadMoves
  <2>. QED  BY <1>1, <2>1, <2>2, <2>4, QuietTypes, QuietBooks
<1>3. CASE StatusStep(c)
  <2>1. /\ UNCHANGED <<policies, spending, pending, accepted, crashes>>
        /\ failures' \in Nat
    BY <1>1, <1>3 DEF StatusStep, HoldPost, NoAccount, RecordOutcome, ExecutorReset,
                      RejectDraft, Fail, bounds
  <2>2. PICK l \in PCs, x \in Locals :
          /\ Moves(c, l, x) /\ HandOK(l, x, rows)
          /\ l \in InHand => pc[c] \in InHand /\ x.call = loc[c].call
          /\ pc[c] \in InHand => l \in InHand
    BY <1>3, StatusMoves
  <2>3. post' \in [Posts -> PostRows]
    BY <1>1, <1>3, StatusMoves, StatusTypes
  <2>. QED  BY <1>1, <2>1, <2>2, <2>3, QuietTypes, QuietBooks
<1>4. CASE CreateRequest(c) \/ Approve(c) \/ Reject(c)
  <2>1. UNCHANGED <<policies, spending, post, accepted, failures, crashes>>
    BY <1>4 DEF CreateRequest, Approve, Reject, bounds
  <2>2. /\ pending' \in [Posts -> Nat] /\ pc[c] \notin InHand
        /\ \E l \in PCs \ InHand, x \in Locals : Moves(c, l, x) /\ HandOK(l, x, rows)
    BY <1>4, ReviewMoves
  <2>. QED  BY <1>1, <2>1, <2>2, QuietTypes, QuietBooks
<1>5. CASE Insert(c)
  <2>1. UNCHANGED <<policies, spending, pending, accepted, failures, crashes>>
    BY <1>5 DEF Insert, bounds
  <2>2. /\ post' \in [Posts -> PostRows] /\ pc[c] = "insert"
        /\ \E l \in PCs \ InHand, x \in Locals : Moves(c, l, x) /\ HandOK(l, x, rows)
    BY <1>5, InsertMoves
  <2>. QED  BY <1>1, <2>1, <2>2, QuietTypes, QuietBooks DEF InHand
<1>6. CASE Accept(c)
  <2>1. UNCHANGED <<policies, spending, post, pending, failures, crashes>>
    BY <1>6 DEF Accept, bounds
  <2>2. loc[c].post \in Posts /\ pc[c] = "calling"
    BY <1>1, <1>6 DEF HandOK, Accept
  <2>3. accepted' \in [Posts -> Nat]
    BY <1>1, <1>6, <2>2 DEF Accept
  <2>4. Moves(c, "accepted", loc[c])
    BY <1>6, GotoMoves DEF Accept
  <2>5. HandOK("accepted", loc[c], rows)
    BY <1>1, <2>2 DEF HandOK, InHand
  <2>6. "accepted" \in PCs /\ "accepted" \in InHand /\ pc[c] \in InHand
    BY <2>2 DEF PCs, InHand
  <2>. QED  BY <1>1, <2>1, <2>3, <2>4, <2>5, <2>6, QuietTypes, QuietBooks
<1>. QED  BY <1>2, <1>3, <1>4, <1>5, <1>6

\* A request ends, and no record will stand for its call.
Unrecords(c) ==
    /\ pc[c] \in InHand /\ Finish(c)
    /\ unrecorded' = unrecorded \cup {loc[c].call}
    /\ UNCHANGED <<post, pending, policies, usage, rows, calls, accepted>>
    /\ failures' \in Nat /\ crashes' \in Nat

LEMMA UnrecordedStep ==
    ASSUME TypeInv, Books, NEW c \in Clients, Unrecords(c)
    PROVE  TypeInv' /\ Books'
<1>1. /\ pc[c] \in InHand /\ unrecorded' = unrecorded \cup {loc[c].call}
      /\ UNCHANGED <<post, pending, policies, usage, rows, calls, accepted>>
      /\ failures' \in Nat /\ crashes' \in Nat /\ Moves(c, "idle", NoLocals)
  BY FinishMoves DEF Unrecords
<1>2. loc[c].call \in UsageRows /\ loc[c].call.id < rows
  BY <1>1 DEF TypeInv, HandOK
<1>3. /\ pc' \in [Clients -> PCs] /\ loc' \in [Clients -> Locals]
      /\ \A d \in Clients : HandOK(pc'[d], loc'[d], rows')
  BY <1>1, NoLocalsType, MoveTypes DEF PCs, Yielding, TypeInv, TypeOK
<1>4. TypeInv'
  BY <1>1, <1>2, <1>3 DEF TypeInv, TypeOK
<1>5. /\ pc'[c] \notin InHand
      /\ \A d \in Clients : d # c => pc'[d] = pc[d] /\ loc'[d] = loc[d]
  BY <1>1 DEF Moves, TypeInv, TypeOK, InHand
<1>6. CallsInHand(Clients)' = CallsInHand(Clients) \ {loc[c].call}
  <2>1. \A k : k \in CallsInHand(Clients)' <=>
                 k \in CallsInHand(Clients) /\ k # loc[c].call
    BY <1>1, <1>5 DEF CallsInHand, Books
  <2>. QED  BY <2>1
<1>7. loc[c].call \in CallsInHand(Clients)
  BY <1>1, InHandCalls
<1>8. Ledger'
  BY <1>1, <1>6, <1>7 DEF Books, Ledger, Recorded
<1>9. \A e, d \in Clients : pc'[e] \in InHand /\ pc'[d] \in InHand
                            /\ loc'[e].call = loc'[d].call => e = d
  BY <1>5 DEF Books
<1>. QED  BY <1>1, <1>2, <1>4, <1>8, <1>9 DEF Books

\* A call gets an id of its own, and goes from hand to the records.
LEMMA PayingStep ==
    ASSUME TypeInv, Books, NEW c \in Clients, MarkPublishing(c) \/ CallThrows(c) \/ RecordUsage(c)
    PROVE  TypeInv' /\ Books'
<1>1. CASE MarkPublishing(c)
  <2>1. PICK x \in Locals :
          /\ Moves(c, "calling", x) /\ HandOK("calling", x, rows')
          /\ x.call.id = rows /\ calls' = calls \cup {x.call} /\ x.call \in UsageRows
          /\ x.post = loc[c].post /\ pc[c] = "mark" /\ loc[c].post \in Posts
    BY <1>1, MarkMoves
  <2>2. /\ rows \in Nat /\ rows' = rows + 1 /\ SetStatus(loc[c].post, "publishing")
        /\ UNCHANGED <<pending, policies, usage, unrecorded, accepted, bounds>>
    BY <1>1 DEF MarkPublishing, TypeInv, TypeOK
  <2>3. TypeInv'
    <3>1. /\ pc' \in [Clients -> PCs] /\ loc' \in [Clients -> Locals]
          /\ \A d \in Clients : HandOK(pc'[d], loc'[d], rows')
      BY <2>1, <2>2, MoveTypes DEF PCs, Yielding
    <3>2. post' \in [Posts -> PostRows]
      BY <2>1, <2>2, StatusTypes
    <3>. QED  BY <2>1, <2>2, <3>1, <3>2 DEF TypeInv, TypeOK, bounds
  <2>4. /\ pc'[c] = "calling" /\ loc'[c].call = x.call /\ pc[c] \notin InHand
        /\ \A d \in Clients : d # c => pc'[d] = pc[d] /\ loc'[d] = loc[d]
    BY <2>1 DEF Moves, TypeInv, TypeOK, InHand
  <2>5. \A d \in Clients : pc[d] \in InHand => loc[d].call.id < rows
    BY DEF TypeInv, HandOK
  <2>6. \A c1, d1 \in Clients : pc'[c1] \in InHand /\ pc'[d1] \in InHand
                                /\ loc'[c1].call = loc'[d1].call => c1 = d1
    BY <2>1, <2>2, <2>4, <2>5 DEF Books
  <2>7. CallsInHand(Clients)' = CallsInHand(Clients) \cup {x.call}
    <3>1. \A k : k \in CallsInHand(Clients)' <=> k \in CallsInHand(Clients) \/ k = x.call
      BY <2>4 DEF CallsInHand, InHand
    <3>. QED  BY <3>1
  <2>8. x.call \notin usage /\ x.call \notin unrecorded
    BY <2>1, <2>2 DEF Books
  <2>9. \A k \in usage' \cup calls' \cup unrecorded' : k.id < rows'
    <3>1. ASSUME NEW k \in usage \cup calls \cup unrecorded PROVE k.id < rows'
      BY <2>2, <3>1 DEF Books, TypeInv, TypeOK, UsageRows
    <3>. QED  BY <2>1, <2>2, <3>1
  <2>. QED  BY <2>1, <2>2, <2>3, <2>6, <2>7, <2>8, <2>9 DEF Books, Ledger, Recorded
<1>2. CASE RecordUsage(c) /\ usage' = usage \cup {loc[c].call} /\ unrecorded' = unrecorded
  <2>1. /\ pc[c] = "usage" /\ usage' = usage \cup {loc[c].call} /\ Finish(c)
        /\ UNCHANGED <<post, pending, policies, rows, calls, unrecorded, accepted>>
        /\ failures' \in Nat /\ crashes' \in Nat
    BY <1>2 DEF RecordUsage, Turn, Fail, bounds, TypeInv, TypeOK
  <2>2. Moves(c, "idle", NoLocals)
    BY <2>1, FinishMoves
  <2>3. loc[c].call \in UsageRows /\ loc[c].call.endpoint = "post.publish"
        /\ loc[c].call.id < rows
    BY <2>1 DEF TypeInv, HandOK, InHand
  <2>4. /\ pc' \in [Clients -> PCs] /\ loc' \in [Clients -> Locals]
        /\ \A d \in Clients : HandOK(pc'[d], loc'[d], rows')
    BY <2>1, <2>2, NoLocalsType, MoveTypes DEF PCs, Yielding, TypeInv, TypeOK
  <2>5. TypeInv'
    BY <2>1, <2>3, <2>4 DEF TypeInv, TypeOK, bounds
  <2>6. /\ pc'[c] \notin InHand
        /\ \A d \in Clients : d # c => pc'[d] = pc[d] /\ loc'[d] = loc[d]
    BY <2>2 DEF Moves, TypeInv, TypeOK, InHand
  <2>7. CallsInHand(Clients)' = CallsInHand(Clients) \ {loc[c].call}
    <3>1. \A k : k \in CallsInHand(Clients)' <=>
                   k \in CallsInHand(Clients) /\ k # loc[c].call
      BY <2>1, <2>6 DEF CallsInHand, InHand, Books
    <3>. QED  BY <3>1
  <2>8. loc[c].call \in CallsInHand(Clients)
    BY <2>1, InHandCalls DEF InHand
  <2>9. {row \in usage' : row.endpoint = "post.publish"}
          = {row \in usage : row.endpoint = "post.publish"} \cup {loc[c].call}
    BY <2>1, <2>3
  <2>10. Ledger'
    BY <2>1, <2>7, <2>8, <2>9 DEF Books, Ledger, Recorded
  <2>. QED  BY <2>1, <2>3, <2>5, <2>6, <2>10 DEF Books
<1>3. CASE \/ CallThrows(c)
           \/ /\ RecordUsage(c) /\ usage' = usage
              /\ unrecorded' = unrecorded \cup {loc[c].call}
  <2>1. Unrecords(c)
    BY <1>3 DEF CallThrows, RecordUsage, Turn, InHand, Fail, bounds, TypeInv, TypeOK,
                Unrecords
  <2>. QED  BY <2>1, UnrecordedStep
<1>. QED  BY <1>1, <1>2, <1>3 DEF RecordUsage

\* The administrator, the inbox, the period.
LEMMA AroundStep ==
    ASSUME TypeInv, Books,
           (\E c \in Clients : WritePolicies(c)) \/ OtherUsage \/ NewPeriod \/ UNCHANGED vars
    PROVE  TypeInv' /\ Books'
<1>. USE BudgetAssumption
<1>1. CASE \E c \in Clients : WritePolicies(c)
  <2>1. UNCHANGED <<post, pending, spending, accepted, pc, loc, bounds>>
    BY <1>1 DEF WritePolicies
  <2>2. policies \in Seq(PolicyRows) /\ NewPolicies \subseteq PolicyRows
    BY DEF TypeInv, TypeOK, BudgetAssumption
  <2>3. policies' \in Seq(PolicyRows)
    <3>1. ASSUME NEW pol \in NewPolicies PROVE Append(policies, pol) \in Seq(PolicyRows)
      BY <2>2
    <3>2. ASSUME NEW i \in DOMAIN policies, NEW pol \in NewPolicies
          PROVE  [policies EXCEPT ![i] = pol] \in Seq(PolicyRows)
      BY <2>2
    <3>3. ASSUME NEW i \in DOMAIN policies
          PROVE  SubSeq(policies, 1, i - 1) \o SubSeq(policies, i + 1, Len(policies))
                    \in Seq(PolicyRows)
      <4>1. /\ i \in 1..Len(policies) /\ Len(policies) \in Nat
        BY <2>2
      <4>2. SubSeq(policies, 1, i - 1) \in Seq(PolicyRows)
        BY <2>2, <4>1, SubSeqProperties
      <4>3. SubSeq(policies, i + 1, Len(policies)) \in Seq(PolicyRows)
        BY <2>2, <4>1, SubSeqProperties
      <4>. QED  BY <4>2, <4>3
    <3>. QED  BY <1>1, <3>1, <3>2, <3>3 DEF WritePolicies
  <2>4. CallsInHand(Clients)' = CallsInHand(Clients)
    BY <2>1 DEF CallsInHand
  <2>. QED  BY <2>1, <2>3, <2>4 DEF TypeInv, TypeOK, Books, Ledger, Recorded, spending, bounds
<1>2. CASE OtherUsage
  <2>1. PICK row \in UsageRows :
          /\ row.id = rows /\ row.endpoint = "inbox.reply"
          /\ usage' = usage \cup {row}
    <3>1. PICK v \in Platforms :
            usage' = usage \cup {[id |-> rows, platform |-> v, endpoint |-> "inbox.reply"]}
      BY <1>2 DEF OtherUsage
    <3> DEFINE row == [id |-> rows, platform |-> v, endpoint |-> "inbox.reply"]
    <3>2. row \in UsageRows
      BY DEF UsageRows, Endpoints, TypeInv, TypeOK
    <3>. QED  BY <3>1, <3>2
  <2>2. /\ rows' = rows + 1 /\ rows \in Nat
        /\ UNCHANGED <<post, pending, policies, calls, unrecorded, accepted, pc, loc, bounds>>
    BY <1>2 DEF OtherUsage, TypeInv, TypeOK
  <2>3. \A k \in usage' \cup calls' \cup unrecorded' : k.id < rows'
    <3>1. ASSUME NEW k \in usage \cup calls \cup unrecorded PROVE k.id < rows'
      BY <2>2, <3>1 DEF Books, TypeInv, TypeOK, UsageRows
    <3>. QED  BY <2>1, <2>2, <3>1
  <2>4. ASSUME NEW d \in Clients PROVE HandOK(pc'[d], loc'[d], rows')
    <3>1. HandOK(pc[d], loc[d], rows) /\ pc'[d] = pc[d] /\ loc'[d] = loc[d]
      BY <2>2 DEF TypeInv
    <3>. QED  BY <2>2, <3>1 DEF HandOK, UsageRows
  <2>5. TypeInv'
    BY <2>1, <2>2, <2>4 DEF TypeInv, TypeOK, bounds
  <2>6. CallsInHand(Clients)' = CallsInHand(Clients)
    BY <2>2 DEF CallsInHand
  <2>7. {r \in usage' : r.endpoint = "post.publish"} = {r \in usage : r.endpoint = "post.publish"}
    BY <2>1
  <2>. QED  BY <2>2, <2>3, <2>5, <2>6, <2>7 DEF Books, Ledger, Recorded
<1>3. CASE NewPeriod
  <2>1. /\ usage' = {} /\ unrecorded' = {} /\ calls' = CallsInHand(Clients)
        /\ UNCHANGED <<post, pending, policies, rows, accepted, pc, loc, bounds>>
    BY <1>3 DEF NewPeriod
  <2>2. \A k \in CallsInHand(Clients) : k \in UsageRows /\ k.id < rows
    BY InHandCalls DEF TypeInv, HandOK
  <2>3. CallsInHand(Clients)' = CallsInHand(Clients)
    BY <2>1 DEF CallsInHand
  <2>. QED  BY <2>1, <2>2, <2>3 DEF TypeInv, TypeOK, Books, Ledger, Recorded, bounds
<1>4. CASE UNCHANGED vars
  <2>1. CallsInHand(Clients)' = CallsInHand(Clients)
    BY <1>4 DEF CallsInHand, vars
  <2>. QED  BY <1>4, <2>1 DEF vars, TypeInv, TypeOK, Books, Ledger, Recorded
<1>. QED  BY <1>1, <1>2, <1>3, <1>4

\* What a process had in hand dies with it.
LEMMA CrashStep ==
    ASSUME TypeInv, Books, NEW h \in Hosts, Crash(h)
    PROVE  TypeInv' /\ Books'
<1> DEFINE dead == {c \in Clients : HostOf[c] = h}
<1>1. /\ crashes' = crashes + 1 /\ unrecorded' = unrecorded \cup CallsInHand(dead)
      /\ pc' = [c \in Clients |-> IF c \in dead THEN "idle" ELSE pc[c]]
      /\ loc' = [c \in Clients |-> IF c \in dead THEN NoLocals ELSE loc[c]]
      /\ UNCHANGED <<post, pending, policies, usage, rows, calls, accepted, failures>>
  BY DEF Crash
<1>2. \A d \in Clients :
        /\ d \in dead => pc'[d] = "idle" /\ loc'[d] = NoLocals
        /\ d \notin dead => pc'[d] = pc[d] /\ loc'[d] = loc[d]
  BY <1>1
<1>3. \A k \in CallsInHand(dead) : k \in UsageRows /\ k.id < rows
  BY InHandCalls DEF TypeInv, HandOK
<1>4. /\ pc' \in [Clients -> PCs] /\ loc' \in [Clients -> Locals]
  BY <1>1, NoLocalsType DEF TypeInv, TypeOK, PCs, Yielding
<1>5. \A d \in Clients : HandOK(pc'[d], loc'[d], rows)
  BY <1>2, NoLocalsType DEF TypeInv
<1>6. TypeInv'
  BY <1>1, <1>3, <1>4, <1>5 DEF TypeInv, TypeOK
<1>7. CallsInHand(Clients) = CallsInHand(Clients)' \cup CallsInHand(dead)
  <2>1. \A k : k \in CallsInHand(Clients) =>
                 k \in CallsInHand(Clients)' \/ k \in CallsInHand(dead)
    BY <1>2 DEF CallsInHand
  <2>2. \A k : k \in CallsInHand(Clients)' \/ k \in CallsInHand(dead) =>
                 k \in CallsInHand(Clients)
    BY <1>2 DEF CallsInHand, InHand
  <2>. QED  BY <2>1, <2>2
<1>8. Ledger'
  <2>1. CallsInHand(Clients)' \cap CallsInHand(dead) = {}
    BY <1>2 DEF CallsInHand, Books, InHand
  <2>. QED  BY <1>1, <1>7, <2>1 DEF Books, Ledger, Recorded
<1>9. \A c, d \in Clients : pc'[c] \in InHand /\ pc'[d] \in InHand
                            /\ loc'[c].call = loc'[d].call => c = d
  BY <1>2 DEF Books, InHand
<1>. QED  BY <1>1, <1>3, <1>6, <1>8, <1>9 DEF Books

LEMMA BooksNext == TypeInv /\ Books /\ [Next]_vars => TypeInv' /\ Books'
BY QuietStep, PayingStep, AroundStep, CrashStep
   DEF Next, Create, Check, Publish, Manage, ReadStep, StatusStep

LEMMA BooksInit == Init => Books
<1>. SUFFICES ASSUME Init PROVE Books
  OBVIOUS
<1>1. CallsInHand(Clients) = {}
  BY DEF Init, CallsInHand, InHand
<1>. QED  BY <1>1 DEF Init, Books, Ledger, Recorded, InHand

LEMMA BooksKept == Spec => [](TypeInv /\ Books)
<1>1. Init => TypeInv /\ Books
  BY BudgetInit, BooksInit
<1>. QED  BY <1>1, BooksNext, PTL DEF Spec

\* Every state of the program has the types of TypeOK.
THEOREM BudgetTypeCorrect == Spec => []TypeOK
<1>1. TypeInv => TypeOK
  BY DEF TypeInv
<1>. QED  BY <1>1, BooksKept, PTL

\* A call of a period is recorded once, in the hands of the one request that will
\* record it, or one of the calls that ended without a record in the four ways
\* Ledger names; no record stands for any other: for any number of requests,
\* processes, crashes and periods.
THEOREM LedgerBalances == Spec => []Ledger
<1>1. Books => Ledger
  BY DEF Books
<1>. QED  BY <1>1, BooksKept, PTL

-----------------------------------------------------------------------------
(* A post, and a key, is published once when the requests that publish share *)
(* a process.                                                                *)

OneProcess == \A c, d \in Publishers : HostOf[c] = HostOf[d]

Early    == {"idle", "body", "insert"}
Choosing == {"policies", "aggregate", "request", "hold", "mark"}
Fresh    == {"absent", "draft", "scheduled"}

\* What client c may count on at statement l with locals x.
OnceOK(c, l, x) ==
    /\ l \notin Early => c \in Publishers /\ post[x.post].status # "absent"
    /\ l \in {"body", "insert"} /\ x.now => c \in Publishers
    /\ l \in Choosing => post[x.post].status = "draft"
    /\ l = "calling" => accepted[x.post] = 0

\* Once a post is being published it is not fresh again.
PostOnce(p) ==
    /\ accepted[p] <= 1
    /\ pending[p] > 0 => post[p].status # "absent"
    /\ post[p].status \in Fresh =>
          accepted[p] = 0 /\ \A d \in Clients : pc[d] \in InHand => loc[d].post # p

Alone ==
    \A c, d \in Publishers : pc[c] \notin Yielding /\ pc[d] \notin Yielding => c = d

OneCaller ==
    \A c, d \in Clients : pc[c] \in InHand /\ pc[d] \in InHand
                          /\ loc[c].post = loc[d].post => c = d

OneKey ==
    \A p, q \in Posts :
       post[p].status # "absent" /\ post[q].status # "absent"
       /\ post[p].key = post[q].key /\ post[p].key # None => p = q

Once ==
    /\ \A c \in Clients : OnceOK(c, pc[c], loc[c])
    /\ \A p \in Posts : PostOnce(p)
    /\ Alone /\ OneCaller /\ OneKey

OthersYield(c) == \A d \in Clients \ {c} : HostOf[d] = HostOf[c] => pc[d] \in Yielding

LEMMA IdleOnce == \A c : OnceOK(c, "idle", NoLocals)
BY DEF OnceOK, Early, Choosing

\* Steps of a request that ask no platform for anything.
LEMMA OnceStep ==
    ASSUME OneProcess, TypeInv, Once, NEW c \in Clients, NEW l, NEW x, Moves(c, l, x),
           OthersYield(c), c \in Publishers \/ post' = post, accepted' = accepted,
           \A q \in Posts :
             /\ post'[q].status = "absent" <=> post[q].status = "absent"
             /\ post'[q].status \in Fresh => post[q].status \in Fresh
             /\ post'[q].key = post[q].key
             /\ pending'[q] > 0 => pending[q] > 0 \/ post[q].status # "absent",
           l \in InHand => pc[c] \in InHand /\ x.post = loc[c].post,
           OnceOK(c, l, x)'
    PROVE  Once'
<1>1. /\ pc'[c] = l /\ loc'[c] = x
      /\ \A d \in Clients : d # c => pc'[d] = pc[d] /\ loc'[d] = loc[d]
  BY DEF Moves, TypeInv, TypeOK
<1>2. ASSUME NEW d \in Clients PROVE OnceOK(d, pc[d], loc[d])' 
  <2>1. CASE d = c
    BY <1>1, <2>1
  <2>2. CASE d # c
    <3>1. /\ pc'[d] = pc[d] /\ loc'[d] = loc[d] /\ OnceOK(d, pc[d], loc[d])
          /\ HandOK(pc[d], loc[d], rows)
      BY <1>1, <2>2 DEF Once, TypeInv
    <3>2. post' = post \/ pc[d] \notin Choosing
      BY <2>2, <3>1 DEF OneProcess, OthersYield, OnceOK, Early, Choosing, Yielding
    <3>3. pc[d] \notin Early => loc[d].post \in Posts
      BY <3>1 DEF HandOK, Early
    <3>. QED  BY <3>1, <3>2, <3>3 DEF OnceOK, Early, Choosing
  <2>. QED  BY <2>1, <2>2
<1>3. ASSUME NEW p \in Posts PROVE PostOnce(p)'
  <2>1. PostOnce(p)
    BY DEF Once
  <2>2. \A d \in Clients : pc'[d] \in InHand => pc[d] \in InHand /\ loc'[d].post = loc[d].post
    BY <1>1
  <2>. QED  BY <2>1, <2>2 DEF PostOnce, Fresh
<1>4. Alone'
  <2>1. \A d \in Publishers : d # c /\ c \in Publishers => pc'[d] \in Yielding
    BY <1>1 DEF OneProcess, OthersYield, Publishers
  <2>2. \A d, e \in Publishers : d # c /\ e # c /\ pc'[d] \notin Yielding
                                 /\ pc'[e] \notin Yielding => d = e
    BY <1>1 DEF Once, Alone, Publishers
  <2>. QED  BY <2>1, <2>2 DEF Alone, Publishers
<1>5. OneCaller'
  BY <1>1 DEF Once, OneCaller
<1>6. OneKey'
  BY DEF Once, OneKey
<1>. QED  BY <1>2, <1>3, <1>4, <1>5, <1>6 DEF Once

LEMMA ReadOnce ==
    ASSUME OneProcess, TypeInv, Once, NEW c \in Clients, ReadStep(c)
    PROVE  Once'
<1>1. /\ OthersYield(c) /\ UNCHANGED <<post, pending, accepted>>
  BY DEF ReadStep, StartCreate, FindByKey, StartPublish, Load, FindPolicies, Evaluate,
         Reply, CallFails, Offered, Turn, OthersYield
<1>2. OnceOK(c, pc[c], loc[c]) /\ HandOK(pc[c], loc[c], rows)
  BY DEF Once, TypeInv
<1>3. ASSUME NEW l, NEW x, Moves(c, l, x), OnceOK(c, l, x),
             l \in InHand => pc[c] \in InHand /\ x.post = loc[c].post
      PROVE  Once'
  <2>1. OnceOK(c, l, x)'
    BY <1>1, <1>3 DEF OnceOK
  <2>2. \A q \in Posts :
          /\ post'[q].status = "absent" <=> post[q].status = "absent"
          /\ post'[q].status \in Fresh => post[q].status \in Fresh
          /\ post'[q].key = post[q].key
          /\ pending'[q] > 0 => pending[q] > 0 \/ post[q].status # "absent"
    BY <1>1
  <2>. QED  BY <1>1, <1>3, <2>1, <2>2, OnceStep
<1>4. ASSUME Finish(c) PROVE Once'
  <2>1. Moves(c, "idle", NoLocals) /\ "idle" \notin InHand
    BY <1>4, FinishMoves DEF InHand
  <2>. QED  BY <1>3, <2>1, IdleOnce
<1>5. CASE StartCreate(c)
  <2>1. PICK k \in Keys \cup {None}, v \in Platforms, now \in BOOLEAN :
          /\ Offered(c, IF now THEN "createNow" ELSE "create")
          /\ SetLocals(c, [NoLocals EXCEPT !.key = k, !.on = v, !.now = now])
    BY <1>5 DEF StartCreate
  <2> DEFINE x == [NoLocals EXCEPT !.key = k, !.on = v, !.now = now]
  <2>2. x.now = now /\ (now => c \in Publishers)
    BY <2>1 DEF NoLocals, Offered, Publishers
  <2>3. Moves(c, "body", x)
    BY <1>5, <2>1, SetLocalsMoves DEF StartCreate
  <2>4. OnceOK(c, "body", x) /\ "body" \notin InHand
    BY <2>2 DEF OnceOK, Early, Choosing, InHand
  <2>. QED  BY <1>3, <2>3, <2>4
<1>6. CASE FindByKey(c)
  <2>1. CASE Goto(c, "insert") /\ UNCHANGED loc
    <3>1. Moves(c, "insert", loc[c]) /\ pc[c] = "body"
      BY <1>6, <2>1, GotoMoves DEF FindByKey, Turn
    <3>2. OnceOK(c, "insert", loc[c]) /\ "insert" \notin InHand
      BY <1>2, <3>1 DEF OnceOK, Early, Choosing, InHand
    <3>. QED  BY <1>3, <3>1, <3>2
  <2>. QED  BY <1>4, <1>6, <2>1 DEF FindByKey
<1>7. CASE StartPublish(c)
  <2>1. PICK p \in Posts : /\ post[p].status = "draft"
                           /\ SetLocals(c, [NoLocals EXCEPT !.post = p])
    BY <1>7 DEF StartPublish
  <2> DEFINE x == [NoLocals EXCEPT !.post = p]
  <2>2. x.post = p /\ c \in Publishers
    BY <1>7 DEF NoLocals, StartPublish, Offered, Publishers
  <2>3. Moves(c, "load", x)
    BY <1>7, <2>1, SetLocalsMoves DEF StartPublish
  <2>4. OnceOK(c, "load", x) /\ "load" \notin InHand
    BY <2>1, <2>2 DEF OnceOK, Early, Choosing, InHand
  <2>. QED  BY <1>3, <2>3, <2>4
<1>8. CASE Load(c)
  <2>1. ASSUME NEW l \in {"policies", "mark"}, Goto(c, l), UNCHANGED loc,
               PostOf(c).status = "draft", pc[c] = "load"
        PROVE  Once'
    <3>1. Moves(c, l, loc[c])
      BY <2>1, GotoMoves
    <3>2. OnceOK(c, l, loc[c]) /\ l \notin InHand
      BY <1>2, <2>1 DEF OnceOK, Early, Choosing, InHand, PostOf
    <3>. QED  BY <1>3, <3>1, <3>2
  <2>. QED  BY <1>4, <1>8, <2>1 DEF Load, Turn
<1>9. CASE FindPolicies(c)
  <2>1. pc[c] = "policies" /\ c \in Publishers /\ post[loc[c].post].status = "draft"
    BY <1>2, <1>9 DEF FindPolicies, Turn, OnceOK, Early, Choosing
  <2>2. ASSUME NEW i \in DOMAIN policies, Goto(c, "aggregate"),
               SetLocals(c, [loc[c] EXCEPT !.policy = policies[i]])
        PROVE  Once'
    <3> DEFINE x == [loc[c] EXCEPT !.policy = policies[i]]
    <3>1. x.post = loc[c].post
      BY DEF TypeInv, TypeOK, Locals
    <3>2. Moves(c, "aggregate", x)
      BY <2>2, SetLocalsMoves
    <3>3. OnceOK(c, "aggregate", x) /\ "aggregate" \notin InHand
      BY <2>1, <3>1 DEF OnceOK, Early, Choosing, InHand
    <3>. QED  BY <1>3, <3>2, <3>3
  <2>3. CASE Goto(c, "mark") /\ UNCHANGED loc
    <3>1. Moves(c, "mark", loc[c])
      BY <2>3, GotoMoves
    <3>2. OnceOK(c, "mark", loc[c]) /\ "mark" \notin InHand
      BY <2>1 DEF OnceOK, Early, Choosing, InHand
    <3>. QED  BY <1>3, <3>1, <3>2
  <2>. QED  BY <1>9, <2>2, <2>3 DEF FindPolicies
<1>10. CASE Evaluate(c)
  <2>1. pc[c] = "aggregate" /\ c \in Publishers /\ post[loc[c].post].status = "draft"
    BY <1>2, <1>10 DEF Evaluate, Turn, OnceOK, Early, Choosing
  <2>2. ASSUME NEW l \in {"request", "mark"}, Goto(c, l), UNCHANGED loc
        PROVE  Once'
    <3>1. Moves(c, l, loc[c])
      BY <2>2, GotoMoves
    <3>2. OnceOK(c, l, loc[c]) /\ l \notin InHand
      BY <2>1 DEF OnceOK, Early, Choosing, InHand
    <3>. QED  BY <1>3, <3>1, <3>2
  <2>. QED  BY <1>4, <1>10, <2>2 DEF Evaluate
<1>11. CASE Reply(c) \/ CallFails(c)
  <2>1. PICK l \in {"published", "failed"} :
          Goto(c, l) /\ pc[c] \in {"calling", "accepted"} /\ loc' = loc
    BY <1>11 DEF Reply, CallFails, Turn
  <2>2. Moves(c, l, loc[c])
    BY <2>1, GotoMoves
  <2>3. OnceOK(c, l, loc[c]) /\ pc[c] \in InHand
    BY <1>2, <2>1 DEF OnceOK, Early, Choosing, InHand
  <2>. QED  BY <1>3, <2>2, <2>3
<1>. QED  BY <1>5, <1>6, <1>7, <1>8, <1>9, <1>10, <1>11 DEF ReadStep

LEMMA StatusOnce ==
    ASSUME OneProcess, TypeInv, Once, NEW c \in Clients, StatusStep(c)
    PROVE  Once'
<1>1. /\ OthersYield(c) /\ UNCHANGED <<pending, accepted>>
      /\ pc[c] \in {"hold", "mark", "published", "failed", "reset", "unhold"}
  BY DEF StatusStep, HoldPost, NoAccount, RecordOutcome, ExecutorReset, RejectDraft,
         Turn, OthersYield
<1>2. /\ OnceOK(c, pc[c], loc[c]) /\ HandOK(pc[c], loc[c], rows)
      /\ post \in [Posts -> PostRows] /\ \A q \in Posts : PostOnce(q)
  BY DEF Once, TypeInv, TypeOK
<1>3. /\ loc[c].post \in Posts /\ c \in Publishers
      /\ post[loc[c].post].status # "absent"
      /\ pc[c] \in {"hold", "mark"} => post[loc[c].post].status = "draft"
      /\ pc[c] \in {"published", "failed"} => post[loc[c].post].status \notin Fresh
  BY <1>1, <1>2 DEF OnceOK, HandOK, Early, Choosing, InHand, PostOnce
<1>4. ASSUME NEW l, NEW x, Moves(c, l, x), l \in {"idle", "usage", "load"},
             l # "idle" => x.post = loc[c].post,
             l = "usage" => pc[c] \in InHand,
             NEW s \in {"draft", "scheduled", "publishing", "published", "failed"},
             UNCHANGED post \/ SetStatus(loc[c].post, s),
             SetStatus(loc[c].post, s) /\ s \in Fresh => post[loc[c].post].status \in Fresh
      PROVE  Once'
  <2>1. \A q \in Posts :
          /\ post'[q].status = "absent" <=> post[q].status = "absent"
          /\ post'[q].status \in Fresh => post[q].status \in Fresh
          /\ post'[q].key = post[q].key
    BY <1>2, <1>3, <1>4 DEF SetStatus, PostRows, Fresh
  <2>2. OnceOK(c, l, x)'
    BY <1>3, <1>4, <2>1 DEF OnceOK, Early, Choosing, Publishers
  <2>. QED  BY <1>1, <1>3, <1>4, <2>1, <2>2, OnceStep DEF InHand
<1>5. CASE HoldPost(c)
  <2>1. Moves(c, "idle", NoLocals) /\ SetStatus(loc[c].post, "scheduled") /\ pc[c] = "hold"
    BY <1>5, FinishMoves DEF HoldPost, Turn
  <2>. QED  BY <1>3, <1>4, <2>1 DEF Fresh
<1>6. CASE NoAccount(c)
  <2>1. /\ Moves(c, "idle", NoLocals)
        /\ UNCHANGED post \/ SetStatus(loc[c].post, "publishing")
    BY <1>6, FinishMoves DEF NoAccount
  <2>2. "publishing" \notin Fresh
    BY DEF Fresh
  <2>. QED  BY <1>4, <2>1, <2>2
<1>7. CASE RecordOutcome(c)
  <2>1. PICK s \in {"published", "failed"} :
          SetStatus(loc[c].post, s) /\ Goto(c, "usage") /\ loc' = loc /\ pc[c] = s
    BY <1>7 DEF RecordOutcome, Turn
  <2>2. Moves(c, "usage", loc[c]) /\ s \notin Fresh /\ pc[c] \in InHand
    BY <2>1, GotoMoves DEF Fresh, InHand
  <2>. QED  BY <1>4, <2>1, <2>2
<1>8. CASE ExecutorReset(c)
  <2>1. /\ Goto(c, "load") /\ loc' = loc
        /\ \/ UNCHANGED post
           \/ post[loc[c].post].status = "scheduled" /\ SetStatus(loc[c].post, "draft")
    BY <1>8 DEF ExecutorReset, PostOf
  <2>2. Moves(c, "load", loc[c]) /\ "scheduled" \in Fresh
    BY <2>1, GotoMoves DEF Fresh
  <2>3. CASE UNCHANGED post
    BY <1>4, <2>2, <2>3 DEF Fresh
  <2>. QED  BY <1>4, <2>1, <2>2, <2>3
<1>9. CASE RejectDraft(c)
  <2>1. /\ Moves(c, "idle", NoLocals)
        /\ \/ UNCHANGED post
           \/ post[loc[c].post].status = "scheduled" /\ SetStatus(loc[c].post, "draft")
    BY <1>9, FinishMoves DEF RejectDraft, PostOf
  <2>2. CASE UNCHANGED post
    BY <1>4, <2>1, <2>2 DEF Fresh
  <2>. QED  BY <1>4, <2>1, <2>2 DEF Fresh
<1>. QED  BY <1>5, <1>6, <1>7, <1>8, <1>9 DEF StatusStep

LEMMA ReviewOnce ==
    ASSUME OneProcess, TypeInv, Once, NEW c \in Clients,
           CreateRequest(c) \/ Approve(c) \/ Reject(c) \/ CallThrows(c) \/ RecordUsage(c)
    PROVE  Once'
<1>1. OthersYield(c) /\ UNCHANGED <<post, accepted>>
  BY DEF CreateRequest, Approve, Reject, CallThrows, RecordUsage, Offered, Turn, OthersYield
<1>2. /\ OnceOK(c, pc[c], loc[c]) /\ HandOK(pc[c], loc[c], rows)
      /\ pending \in [Posts -> Nat] /\ \A q \in Posts : PostOnce(q)
  BY DEF Once, TypeInv, TypeOK
<1>3. ASSUME NEW l, NEW x, Moves(c, l, x), OnceOK(c, l, x), l \notin InHand,
             \A q \in Posts : pending'[q] > 0 => pending[q] > 0 \/ post[q].status # "absent"
      PROVE  Once'
  <2>1. OnceOK(c, l, x)'
    BY <1>1, <1>3 DEF OnceOK
  <2>2. \A q \in Posts :
          /\ post'[q].status = "absent" <=> post[q].status = "absent"
          /\ post'[q].status \in Fresh => post[q].status \in Fresh
          /\ post'[q].key = post[q].key
    BY <1>1
  <2>. QED  BY <1>1, <1>3, <2>1, <2>2, OnceStep
<1>4. CASE CreateRequest(c)
  <2>1. /\ Moves(c, "hold", loc[c]) /\ pc[c] = "request"
        /\ pending' = [pending EXCEPT ![loc[c].post] = @ + 1]
    BY <1>4, GotoMoves DEF CreateRequest, Turn
  <2>2. OnceOK(c, "hold", loc[c]) /\ "hold" \notin InHand
    BY <1>2, <2>1 DEF OnceOK, Early, Choosing, InHand
  <2>3. \A q \in Posts : pending'[q] > 0 => pending[q] > 0 \/ post[q].status # "absent"
    BY <1>2, <2>1 DEF OnceOK, Early
  <2>. QED  BY <1>3, <2>1, <2>2, <2>3
<1>5. CASE Approve(c) \/ Reject(c)
  <2>1. PICK p \in Posts, l \in {"reset", "unhold"}, x \in Locals :
          /\ pending[p] > 0 /\ pending' = [pending EXCEPT ![p] = @ - 1]
          /\ Moves(c, l, x) /\ x.post = p
    <3>1. CASE Approve(c)
      <4>1. PICK p \in Posts :
              /\ pending[p] > 0 /\ pending' = [pending EXCEPT ![p] = @ - 1]
              /\ Moves(c, "reset", [NoLocals EXCEPT !.post = p, !.checked = FALSE])
        BY <3>1, SetLocalsMoves DEF Approve
      <4> DEFINE x == [NoLocals EXCEPT !.post = p, !.checked = FALSE]
      <4>2. x \in Locals /\ x.post = p
        BY DEF NoLocals, Locals
      <4>. QED  BY <4>1, <4>2
    <3>2. CASE Reject(c)
      <4>1. PICK p \in Posts :
              /\ pending[p] > 0 /\ pending' = [pending EXCEPT ![p] = @ - 1]
              /\ Moves(c, "unhold", [NoLocals EXCEPT !.post = p])
        BY <3>2, SetLocalsMoves DEF Reject
      <4> DEFINE x == [NoLocals EXCEPT !.post = p]
      <4>2. x \in Locals /\ x.post = p
        BY DEF NoLocals, Locals
      <4>. QED  BY <4>1, <4>2
    <3>. QED  BY <1>5, <3>1, <3>2
  <2>2. c \in Publishers /\ post[p].status # "absent"
    BY <1>2, <1>5, <2>1 DEF Approve, Reject, Offered, Publishers, PostOnce
  <2>3. OnceOK(c, l, x) /\ l \notin InHand
    BY <2>1, <2>2 DEF OnceOK, Early, Choosing, InHand
  <2>4. \A q \in Posts : pending'[q] > 0 => pending[q] > 0 \/ post[q].status # "absent"
    BY <1>2, <2>1, <2>2
  <2>. QED  BY <1>3, <2>1, <2>3, <2>4
<1>6. CASE CallThrows(c) \/ RecordUsage(c)
  <2>1. Moves(c, "idle", NoLocals) /\ pending' = pending
    BY <1>6, FinishMoves DEF CallThrows, RecordUsage
  <2>. QED  BY <1>3, <2>1, IdleOnce DEF InHand
<1>. QED  BY <1>4, <1>5, <1>6

\* A new row has a key no other row has.
LEMMA InsertOnce ==
    ASSUME OneProcess, TypeInv, Once, NEW c \in Clients, Insert(c)
    PROVE  Once'
<1>1. /\ OthersYield(c) /\ pc[c] = "insert" /\ UNCHANGED <<pending, accepted>>
      /\ OnceOK(c, pc[c], loc[c])
  BY DEF Insert, Turn, OthersYield, Once
<1>2. /\ post \in [Posts -> PostRows] /\ loc[c] \in Locals /\ loc[c].on \in Platforms
  BY <1>1 DEF TypeInv, TypeOK, HandOK
<1>3. CASE Finish(c) /\ UNCHANGED post
  <2>1. Moves(c, "idle", NoLocals) /\ \A q \in Posts : post'[q] = post[q]
    BY <1>3, FinishMoves
  <2>2. OnceOK(c, "idle", NoLocals)'
    BY DEF OnceOK, Early, Choosing
  <2>. QED  BY <1>1, <1>3, <2>1, <2>2, OnceStep DEF InHand
<1>4. CASE ~Used(loc[c].key)
  <2>1. PICK p \in Posts :
          /\ post[p].status = "absent"
          /\ post' = [post EXCEPT ![p] = [status |-> "draft", key |-> loc[c].key,
                                          platform |-> loc[c].on]]
          /\ Goto(c, IF loc[c].now THEN "load" ELSE "idle")
          /\ SetLocals(c, IF loc[c].now THEN [NoLocals EXCEPT !.post = p] ELSE NoLocals)
    BY <1>3, <1>4 DEF Insert, Finish, Used
  <2>2. PICK l \in {"load", "idle"}, x \in Locals :
          /\ Moves(c, l, x)
          /\ l = "load" => x.post = p /\ c \in Publishers
    <3>1. CASE loc[c].now
      <4> DEFINE y == [NoLocals EXCEPT !.post = p]
      <4>1. y \in Locals /\ y.post = p
        BY DEF NoLocals, Locals
      <4>2. c \in Publishers
        BY <1>1, <3>1 DEF OnceOK
      <4>. QED  BY <2>1, <3>1, <4>1, <4>2, SetLocalsMoves
    <3>2. CASE ~loc[c].now
      BY <2>1, <3>2, SetLocalsMoves, NoLocalsType
    <3>. QED  BY <3>1, <3>2
  <2>3. /\ pc'[c] = l /\ loc'[c] = x /\ l \notin InHand
        /\ \A d \in Clients : d # c => pc'[d] = pc[d] /\ loc'[d] = loc[d]
        /\ post'[p].status = "draft" /\ post'[p].key = loc[c].key
        /\ \A q \in Posts : q # p => post'[q] = post[q]
    BY <1>2, <2>1, <2>2 DEF Moves, TypeInv, TypeOK, InHand
  <2>4. ASSUME NEW d \in Clients PROVE OnceOK(d, pc[d], loc[d])'
    <3>1. CASE d = c
      BY <2>2, <2>3, <3>1 DEF OnceOK, Early, Choosing, Publishers
    <3>2. CASE d # c
      <4>1. OnceOK(d, pc[d], loc[d]) /\ HandOK(pc[d], loc[d], rows)
        BY DEF Once, TypeInv
      <4>2. pc[d] \notin Early => loc[d].post \in Posts /\ loc[d].post # p
        BY <2>1, <4>1 DEF OnceOK, HandOK, Early
      <4>. QED  BY <1>1, <2>3, <3>2, <4>1, <4>2 DEF OnceOK, Early, Choosing, Publishers
    <3>. QED  BY <3>1, <3>2
  <2>5. ASSUME NEW q \in Posts PROVE PostOnce(q)'
    <3>1. PostOnce(q) /\ PostOnce(p)
      BY DEF Once
    <3>2. \A d \in Clients : pc'[d] \in InHand => pc[d] \in InHand /\ loc'[d] = loc[d]
      BY <2>3
    <3>. QED  BY <1>1, <2>1, <2>3, <3>1, <3>2 DEF PostOnce, Fresh
  <2>6. Alone'
    <3>1. \A d \in Publishers : d # c /\ c \in Publishers => pc'[d] \in Yielding
      BY <1>1, <2>3 DEF OneProcess, OthersYield, Publishers
    <3>2. \A d, e \in Publishers : d # c /\ e # c /\ pc'[d] \notin Yielding
                                   /\ pc'[e] \notin Yielding => d = e
      BY <2>3 DEF Once, Alone, Publishers
    <3>. QED  BY <3>1, <3>2 DEF Alone, Publishers
  <2>7. OneCaller'
    BY <2>3 DEF Once, OneCaller
  <2>8. OneKey'
    BY <1>4, <2>3 DEF Once, OneKey, Used
  <2>. QED  BY <2>4, <2>5, <2>6, <2>7, <2>8 DEF Once
<1>. QED  BY <1>3, <1>4 DEF Insert

\* Marking a draft makes the request its only caller.
LEMMA MarkOnce ==
    ASSUME OneProcess, TypeInv, Once, NEW c \in Clients, MarkPublishing(c)
    PROVE  Once'
<1>1. PICK x \in Locals : /\ Moves(c, "calling", x) /\ x.post = loc[c].post
                          /\ pc[c] = "mark" /\ loc[c].post \in Posts
  BY MarkMoves
<1> DEFINE p == loc[c].post
<1>2. /\ OthersYield(c) /\ SetStatus(p, "publishing") /\ UNCHANGED <<pending, accepted>>
      /\ OnceOK(c, pc[c], loc[c]) /\ PostOnce(p) /\ post \in [Posts -> PostRows]
  BY <1>1 DEF MarkPublishing, Turn, OthersYield, Once, TypeInv, TypeOK
<1>3. /\ c \in Publishers /\ post[p].status = "draft" /\ accepted[p] = 0
      /\ \A d \in Clients : pc[d] \in InHand => loc[d].post # p
  BY <1>1, <1>2 DEF OnceOK, PostOnce, Early, Choosing, Fresh
<1>4. /\ pc'[c] = "calling" /\ loc'[c].post = p
      /\ \A d \in Clients : d # c => pc'[d] = pc[d] /\ loc'[d] = loc[d]
      /\ post'[p].status = "publishing" /\ post'[p].key = post[p].key
      /\ \A q \in Posts : q # p => post'[q] = post[q]
  BY <1>1, <1>2 DEF Moves, SetStatus, TypeInv, TypeOK, PostRows
<1>5. ASSUME NEW d \in Clients PROVE OnceOK(d, pc[d], loc[d])'
  <2>1. CASE d = c
    BY <1>2, <1>3, <1>4, <2>1 DEF OnceOK, Early, Choosing, Publishers
  <2>2. CASE d # c
    <3>1. OnceOK(d, pc[d], loc[d]) /\ HandOK(pc[d], loc[d], rows)
      BY DEF Once, TypeInv
    <3>2. pc[d] \notin Choosing
      BY <1>2, <1>3, <2>2, <3>1 DEF OneProcess, OthersYield, OnceOK, Early, Choosing, Yielding
    <3>3. pc[d] \notin Early => loc[d].post \in Posts
      BY <3>1 DEF HandOK, Early
    <3>. QED  BY <1>2, <1>4, <2>2, <3>1, <3>2, <3>3 DEF OnceOK, Early, Choosing, Publishers
  <2>. QED  BY <2>1, <2>2
<1>6. ASSUME NEW q \in Posts PROVE PostOnce(q)'
  <2>1. PostOnce(q)
    BY DEF Once
  <2>2. CASE q = p
    BY <1>2, <1>4, <2>1, <2>2 DEF PostOnce, Fresh
  <2>3. CASE q # p
    BY <1>2, <1>4, <2>1, <2>3 DEF PostOnce, Fresh
  <2>. QED  BY <2>2, <2>3
<1>7. Alone'
  <2>1. \A d \in Publishers : d # c => pc'[d] \in Yielding
    BY <1>2, <1>3, <1>4 DEF OneProcess, OthersYield, Publishers
  <2>. QED  BY <1>4, <2>1 DEF Alone, Publishers, Yielding
<1>8. OneCaller'
  BY <1>3, <1>4 DEF Once, OneCaller
<1>9. OneKey'
  <2>1. \A q \in Posts : /\ post'[q].key = post[q].key
                         /\ post'[q].status # "absent" => post[q].status # "absent"
    BY <1>3, <1>4
  <2>. QED  BY <2>1 DEF Once, OneKey
<1>. QED  BY <1>5, <1>6, <1>7, <1>8, <1>9 DEF Once

LEMMA AcceptOnce ==
    ASSUME OneProcess, TypeInv, Once, NEW c \in Clients, Accept(c)
    PROVE  Once'
<1> DEFINE p == loc[c].post
<1>1. /\ pc[c] = "calling" /\ p \in Posts /\ accepted' = [accepted EXCEPT ![p] = @ + 1]
      /\ UNCHANGED <<post, pending, loc>> /\ Moves(c, "accepted", loc[c])
      /\ OnceOK(c, pc[c], loc[c]) /\ PostOnce(p)
  BY GotoMoves DEF Accept, TypeInv, HandOK, Once
<1>2. /\ c \in Publishers /\ accepted[p] = 0 /\ post[p].status \notin Fresh
  BY <1>1 DEF OnceOK, PostOnce, Early, InHand
<1>3. /\ pc'[c] = "accepted" /\ \A d \in Clients : d # c => pc'[d] = pc[d]
      /\ accepted'[p] = 1 /\ \A q \in Posts : q # p => accepted'[q] = accepted[q]
  BY <1>1, <1>2 DEF Moves, TypeInv, TypeOK
<1>4. \A d \in Clients : pc'[d] \in InHand <=> pc[d] \in InHand
  BY <1>1, <1>3 DEF InHand
<1>5. ASSUME NEW d \in Clients PROVE OnceOK(d, pc[d], loc[d])'
  <2>1. OnceOK(d, pc[d], loc[d]) /\ HandOK(pc[d], loc[d], rows)
    BY DEF Once, TypeInv
  <2>2. CASE d = c
    BY <1>1, <1>3, <2>1, <2>2 DEF OnceOK, Early, Choosing, Publishers
  <2>3. CASE d # c
    <3>1. pc[d] = "calling" => loc[d].post \in Posts /\ loc[d].post # p
      BY <1>1, <2>1, <2>3 DEF Once, OneCaller, InHand, HandOK
    <3>. QED  BY <1>1, <1>3, <2>1, <2>3, <3>1 DEF OnceOK, Early, Choosing, Publishers
  <2>. QED  BY <2>2, <2>3
<1>6. ASSUME NEW q \in Posts PROVE PostOnce(q)'
  <2>1. PostOnce(q)
    BY DEF Once
  <2>. QED  BY <1>1, <1>2, <1>3, <1>4, <2>1 DEF PostOnce
<1>7. Alone'
  BY <1>1, <1>3 DEF Once, Alone, Publishers, Yielding
<1>8. OneCaller' /\ OneKey'
  BY <1>1, <1>4 DEF Once, OneCaller, OneKey
<1>. QED  BY <1>5, <1>6, <1>7, <1>8 DEF Once

LEMMA AroundOnce ==
    ASSUME TypeInv, Once,
           \/ (\E c \in Clients : WritePolicies(c)) \/ OtherUsage \/ NewPeriod
           \/ UNCHANGED vars
    PROVE  Once'
<1>1. UNCHANGED <<post, pending, accepted, pc, loc>>
  BY DEF WritePolicies, OtherUsage, NewPeriod, vars
<1>2. \A d \in Clients : OnceOK(d, pc[d], loc[d])'
  BY <1>1 DEF Once, OnceOK, Publishers
<1>. QED  BY <1>1, <1>2 DEF Once, PostOnce, Alone, OneCaller, OneKey, Publishers

LEMMA CrashOnce ==
    ASSUME TypeInv, Once, NEW h \in Hosts, Crash(h)
    PROVE  Once'
<1>1. /\ UNCHANGED <<post, pending, accepted>>
      /\ \A d \in Clients : \/ pc'[d] = "idle"
                            \/ pc'[d] = pc[d] /\ loc'[d] = loc[d]
  BY DEF Crash
<1>2. ASSUME NEW d \in Clients PROVE OnceOK(d, pc[d], loc[d])'
  <2>1. OnceOK(d, pc[d], loc[d])
    BY DEF Once
  <2>. QED  BY <1>1, <2>1 DEF OnceOK, Early, Choosing, Publishers
<1>3. \A d \in Clients : pc'[d] \in InHand => pc[d] \in InHand /\ loc'[d] = loc[d]
  BY <1>1 DEF InHand
<1>4. \A p \in Posts : PostOnce(p)'
  BY <1>1, <1>3 DEF Once, PostOnce
<1>5. Alone'
  BY <1>1 DEF Once, Alone, Publishers, Yielding
<1>6. OneCaller' /\ OneKey'
  BY <1>1, <1>3 DEF Once, OneCaller, OneKey
<1>. QED  BY <1>2, <1>4, <1>5, <1>6 DEF Once

LEMMA OnceNext == ASSUME OneProcess PROVE TypeInv /\ Once /\ [Next]_vars => Once'
BY ReadOnce, StatusOnce, ReviewOnce, InsertOnce, MarkOnce, AcceptOnce, AroundOnce, CrashOnce
   DEF Next, Create, Check, Publish, Manage, ReadStep, StatusStep

LEMMA OnceInit == Init => Once
<1>. SUFFICES ASSUME Init PROVE Once
  OBVIOUS
<1>1. \A c \in Clients : OnceOK(c, pc[c], loc[c])
  BY IdleOnce DEF Init
<1>2. \A p \in Posts : PostOnce(p)
  BY DEF Init, PostOnce, InHand
<1>. QED  BY <1>1, <1>2 DEF Init, Once, Alone, OneCaller, OneKey, Yielding, InHand, Publishers

\* When the requests that publish are served by one process, no post and no
\* idempotency key is published twice: for any number of requests, repeated as
\* often as anyone likes, crashes of that process included.
THEOREM KeyPublishedOnce ==
    ASSUME OneProcess PROVE Spec => []PublishedOncePerKey
<1>1. Init => TypeInv /\ Books /\ Once
  BY BudgetInit, BooksInit, OnceInit
<1>2. TypeInv /\ Books /\ Once /\ [Next]_vars => (TypeInv /\ Books /\ Once)'
  BY BooksNext, OnceNext
<1>3. TypeInv /\ Once => PublishedOncePerKey
  <2>. SUFFICES ASSUME TypeInv, Once PROVE PublishedOncePerKey
    OBVIOUS
  <2>1. \A p \in Posts : accepted[p] <= 1 /\ (accepted[p] > 0 => post[p].status # "absent")
    BY DEF Once, PostOnce, Fresh
  <2>. QED  BY <2>1 DEF Once, OneKey, PublishedOncePerKey
<1>. QED  BY <1>1, <1>2, <1>3, PTL DEF Spec

-----------------------------------------------------------------------------
(* OvershootBounded, in any number of processes: by the ledger, a call that is  *)
(* neither recorded nor unrecorded for good is in the hands of one request.     *)

\* Only what may publish gets as far as a post.
Entitled(c, l, x) ==
    /\ l \notin Early => c \in Publishers
    /\ l \in {"body", "insert"} /\ x.now => c \in Publishers

SpendingInv ==
    /\ IsFiniteSet(usage)
    /\ \A c \in Clients : Entitled(c, pc[c], loc[c])

LEMMA EntitledStep ==
    ASSUME TypeInv, SpendingInv, NEW c \in Clients,
           Create(c) \/ Check(c) \/ Publish(c) \/ Manage(c)
    PROVE  \A d \in Clients : Entitled(d, pc'[d], loc'[d])
<1>1. pc \in [Clients -> PCs] /\ loc \in [Clients -> Locals]
  BY DEF TypeInv, TypeOK
<1>2. /\ \A l : Goto(c, l) => pc'[c] = l
      /\ \A x : SetLocals(c, x) => loc'[c] = x
  BY <1>1 DEF Goto, SetLocals
<1>3. Finish(c) => Entitled(c, pc'[c], loc'[c])
  BY <1>2 DEF Finish, Entitled, Early
<1>4. Entitled(c, pc[c], loc[c])
  BY DEF SpendingInv
<1>5. Entitled(c, pc'[c], loc'[c])
  <2>1. CASE pc[c] \notin Early
    <3>1. c \in Publishers
      BY <1>4, <2>1 DEF Entitled
    <3>. QED  BY <3>1 DEF Entitled
  <2>2. CASE StartCreate(c)
    <3>1. PICK k \in Keys \cup {None}, v \in Platforms, now \in BOOLEAN :
            /\ Offered(c, IF now THEN "createNow" ELSE "create")
            /\ SetLocals(c, [NoLocals EXCEPT !.key = k, !.on = v, !.now = now])
      BY <2>2 DEF StartCreate
    <3>2. pc'[c] = "body" /\ loc'[c].now = now
      BY <1>2, <2>2, <3>1 DEF StartCreate, NoLocals
    <3>3. now => c \in Publishers
      BY <3>1 DEF Offered, Publishers
    <3>. QED  BY <3>2, <3>3 DEF Entitled, Early
  <2>3. CASE FindByKey(c)
    BY <1>2, <1>3, <1>4, <2>3 DEF FindByKey, Turn, Entitled, Early
  <2>4. CASE Insert(c)
    <3>1. CASE Used(loc[c].key) /\ Finish(c)
      BY <1>3, <3>1
    <3>2. CASE /\ Goto(c, IF loc[c].now THEN "load" ELSE "idle")
               /\ pc[c] = "insert"
      BY <1>2, <1>4, <3>2 DEF Entitled, Early
    <3>. QED  BY <2>4, <3>1, <3>2 DEF Insert, Turn
  <2>5. CASE StartPublish(c) \/ Approve(c) \/ Reject(c)
    <3>1. c \in Publishers
      BY <2>5 DEF StartPublish, Approve, Reject, Offered, Publishers
    <3>. QED  BY <3>1 DEF Entitled
  <2>6. CASE WritePolicies(c)
    BY <1>4, <2>6 DEF WritePolicies
  <2>. QED  BY <2>1, <2>2, <2>3, <2>4, <2>5, <2>6
            DEF Early, Create, Check, Publish, Manage, Load, FindPolicies, Evaluate,
                CreateRequest, HoldPost, NoAccount, MarkPublishing, Accept, Reply, CallFails, CallThrows,
                RecordOutcome, RecordUsage, ExecutorReset, RejectDraft, Turn
<1>6. /\ pc' = pc \/ \E l : Goto(c, l)
      /\ loc' = loc \/ \E x : SetLocals(c, x)
  BY DEF Create, Check, Publish, Manage, StartCreate, FindByKey, Insert, StartPublish, Load,
         FindPolicies, Evaluate, CreateRequest, HoldPost, NoAccount, MarkPublishing, Accept,
         Reply, CallFails, CallThrows, RecordOutcome, RecordUsage, Approve, ExecutorReset, Reject,
         RejectDraft, WritePolicies, Finish
<1>7. ASSUME NEW d \in Clients, d # c PROVE pc'[d] = pc[d] /\ loc'[d] = loc[d]
  <2>1. \A l : Goto(c, l) => pc'[d] = pc[d]
    BY <1>1, <1>7 DEF Goto
  <2>2. \A x : SetLocals(c, x) => loc'[d] = loc[d]
    BY <1>1, <1>7 DEF SetLocals
  <2>. QED  BY <1>6, <2>1, <2>2
<1>8. ASSUME NEW d \in Clients PROVE Entitled(d, pc'[d], loc'[d])
  <2>1. CASE d = c
    BY <1>5, <2>1
  <2>2. CASE d # c
    BY <1>7, <2>2 DEF SpendingInv
  <2>. QED  BY <2>1, <2>2
<1>. QED  BY <1>8

LEMMA SpendingNext == TypeInv /\ SpendingInv /\ [Next]_vars => SpendingInv'
<1>. SUFFICES ASSUME TypeInv, SpendingInv, [Next]_vars PROVE SpendingInv'
  OBVIOUS
<1>1. IsFiniteSet(usage')
  <2>1. usage' = usage \/ usage' = {} \/ \E k : usage' = usage \cup {k}
    BY DEF Next, vars, Create, Check, Publish, Manage, StartCreate, FindByKey, Insert,
           StartPublish, Load, FindPolicies, Evaluate, CreateRequest, HoldPost, NoAccount,
           MarkPublishing, Accept, Reply, CallFails, CallThrows, RecordOutcome, RecordUsage, Approve,
           ExecutorReset, Reject, RejectDraft, WritePolicies, OtherUsage, NewPeriod, Crash,
           spending
  <2>. QED  BY <2>1, FS_EmptySet, FS_AddElement DEF SpendingInv
<1>2. \A c \in Clients : Entitled(c, pc'[c], loc'[c])
  <2>1. CASE \E c \in Clients : Create(c) \/ Check(c) \/ Publish(c) \/ Manage(c)
    BY <2>1, EntitledStep
  <2>2. CASE OtherUsage \/ NewPeriod \/ UNCHANGED vars
    BY <2>2 DEF OtherUsage, NewPeriod, vars, SpendingInv
  <2>3. ASSUME NEW h \in Hosts, Crash(h), NEW c \in Clients
        PROVE  Entitled(c, pc'[c], loc'[c])
    <3>1. pc'[c] = "idle" \/ (pc'[c] = pc[c] /\ loc'[c] = loc[c])
      BY <2>3 DEF Crash
    <3>. QED  BY <3>1 DEF SpendingInv, Entitled, Early
  <2>. QED  BY <2>1, <2>2, <2>3 DEF Next
<1>. QED  BY <1>1, <1>2 DEF SpendingInv

LEMMA SpendingInit == Init => SpendingInv
BY FS_EmptySet DEF Init, SpendingInv, Entitled, Early

\* The calls in hand, while a publisher is at a statement before its own.
LEMMA CallsOfOthers ==
    ASSUME SpendingInv, NEW c \in Publishers, pc[c] \notin InHand
    PROVE  /\ IsFiniteSet(CallsInHand(Clients)) /\ Cardinality(CallsInHand(Clients)) \in Nat
           /\ Cardinality(Publishers) \in Nat
           /\ Cardinality(CallsInHand(Clients)) <= Cardinality(Publishers) - 1
<1> DEFINE callers == {d \in Clients : pc[d] \in InHand}
           f == [d \in callers |-> loc[d].call]
<1>1. IsFiniteSet(Publishers) /\ Cardinality(Publishers) \in Nat
  BY BudgetAssumption, FS_Subset, FS_CardinalityType DEF Publishers
<1>2. callers \subseteq Publishers \ {c}
  BY DEF SpendingInv, Entitled, InHand, Early
<1>3. /\ IsFiniteSet(Publishers \ {c})
      /\ Cardinality(Publishers \ {c}) = Cardinality(Publishers) - 1
  BY <1>1, FS_RemoveElement
<1>4. IsFiniteSet(callers) /\ Cardinality(callers) <= Cardinality(Publishers) - 1
  BY <1>2, <1>3, FS_Subset
<1>5. f \in Surjection(callers, CallsInHand(Clients))
  BY DEF Surjection, CallsInHand
<1>6. /\ IsFiniteSet(CallsInHand(Clients))
      /\ Cardinality(CallsInHand(Clients)) <= Cardinality(callers)
  BY <1>4, <1>5, FS_Surjection
<1>7. Cardinality(CallsInHand(Clients)) \in Nat /\ Cardinality(callers) \in Nat
  BY <1>4, <1>6, FS_CardinalityType
<1>. QED  BY <1>1, <1>4, <1>6, <1>7

LEMMA LetThrough ==
    ASSUME TypeInv, Books, SpendingInv, [Next]_vars, NEW c \in Clients,
           pc[c] = "aggregate", pc'[c] = "mark", loc[c].policy.action # "warn"
    PROVE  Cardinality({row \in (usage \cup calls) \ unrecorded : InScope(loc[c].policy, row)})
             < loc[c].policy.limit + Cardinality(Publishers) - 1
<1>. PICK pol : pol = loc[c].policy
  OBVIOUS
<1>1. Evaluate(c)
  <2>1. pc \in [Clients -> PCs]
    BY DEF TypeInv, TypeOK
  <2>2. ASSUME NEW d \in Clients, Create(d) \/ Check(d) \/ Publish(d) \/ Manage(d)
        PROVE  d = c
    <3>1. pc' = pc \/ \E l : Goto(d, l)
      BY <2>2 DEF Create, Check, Publish, Manage, StartCreate, FindByKey, Insert,
           StartPublish, Load, FindPolicies, Evaluate, CreateRequest, HoldPost, NoAccount,
           MarkPublishing, Accept, Reply, CallFails, CallThrows, RecordOutcome, RecordUsage, Approve,
           ExecutorReset, Reject, RejectDraft, WritePolicies, Finish
    <3>. QED  BY <2>1, <3>1 DEF Goto
  <2>3. ASSUME Create(c) \/ Check(c) \/ Publish(c) \/ Manage(c) PROVE Evaluate(c)
    BY <2>3
       DEF Create, Check, Publish, Manage, StartCreate, FindByKey, Insert,
           StartPublish, Load, FindPolicies, CreateRequest, HoldPost, NoAccount,
           MarkPublishing, Accept, Reply, CallFails, CallThrows, RecordOutcome, RecordUsage, Approve,
           ExecutorReset, Reject, RejectDraft, WritePolicies, Turn, Offered
  <2>4. ~(OtherUsage \/ NewPeriod \/ UNCHANGED vars)
    BY DEF OtherUsage, NewPeriod, vars
  <2>5. ASSUME NEW h \in Hosts, Crash(h) PROVE FALSE
    BY <2>5 DEF Crash
  <2>. QED  BY <2>2, <2>3, <2>4, <2>5 DEF Next
<1>2. ~Exceeded(pol) /\ pol \in PolicyRows /\ c \in Publishers /\ pc[c] \notin InHand
  <2>1. ~Exceeded(pol)
    BY <1>1 DEF Evaluate, Finish, Goto, TypeInv, TypeOK
  <2>2. pol \in PolicyRows
    BY DEF TypeInv, HandOK
  <2>. QED  BY <2>1, <2>2 DEF SpendingInv, Entitled, Early, InHand
<1> DEFINE paid   == {row \in usage : InScope(pol, row)}
           unpaid == {row \in CallsInHand(Clients) : InScope(pol, row)}
           all    == {row \in (usage \cup calls) \ unrecorded : InScope(pol, row)}
<1>3. all \subseteq paid \cup unpaid
  BY DEF Books, Ledger, Recorded
<1>4. /\ IsFiniteSet(paid) /\ Cardinality(paid) \in Nat /\ pol.limit \in Nat
      /\ Cardinality(paid) + 1 <= pol.limit
  <2>1. IsFiniteSet(paid) /\ Cardinality(paid) \in Nat
    BY FS_Subset, FS_CardinalityType DEF SpendingInv
  <2>2. pol.limit \in Nat
    BY <1>2 DEF PolicyRows
  <2>3. ~(Cardinality(paid) + 1 > pol.limit)
    BY <1>2 DEF Exceeded, Consumed
  <2>. QED  BY <2>1, <2>2, <2>3
<1>5. /\ IsFiniteSet(unpaid) /\ Cardinality(unpaid) \in Nat
      /\ Cardinality(unpaid) <= Cardinality(Publishers) - 1 /\ Cardinality(Publishers) \in Nat
  <2>1. unpaid \subseteq CallsInHand(Clients)
    OBVIOUS
  <2>2. /\ IsFiniteSet(CallsInHand(Clients)) /\ Cardinality(CallsInHand(Clients)) \in Nat
        /\ Cardinality(Publishers) \in Nat
        /\ Cardinality(CallsInHand(Clients)) <= Cardinality(Publishers) - 1
    BY <1>2, CallsOfOthers
  <2>. HIDE DEF unpaid
  <2>3. /\ IsFiniteSet(unpaid) /\ Cardinality(unpaid) \in Nat
        /\ Cardinality(unpaid) <= Cardinality(CallsInHand(Clients))
    BY <2>1, <2>2, FS_Subset, FS_CardinalityType
  <2>. QED  BY <2>2, <2>3
<1>. HIDE DEF paid, unpaid, all
<1>6. /\ IsFiniteSet(paid \cup unpaid)
      /\ Cardinality(paid \cup unpaid)
           = Cardinality(paid) + Cardinality(unpaid) - Cardinality(paid \cap unpaid)
  BY <1>4, <1>5, FS_Union
<1>7. Cardinality(paid \cap unpaid) \in Nat
  BY <1>4, FS_Intersection, FS_CardinalityType
<1>8. Cardinality(all) <= Cardinality(paid \cup unpaid) /\ Cardinality(all) \in Nat
      /\ Cardinality(paid \cup unpaid) \in Nat
  BY <1>3, <1>6, FS_Subset, FS_CardinalityType
<1>9. Cardinality(all) < pol.limit + Cardinality(Publishers) - 1
  BY <1>4, <1>5, <1>6, <1>7, <1>8
<1>. QED  BY <1>9 DEF all

\* When a policy that stops lets a request through, the calls of its scope that
\* are recorded or in hand are fewer than its limit and the other requests that
\* may be publishing; the calls that ended without a record are not counted.  For
\* any number of processes, crashes, periods and changed policies.
THEOREM OvershootLimited == Spec => OvershootBounded
<1> DEFINE I == TypeInv /\ Books /\ SpendingInv
           Bounded == \A c \in Clients :
             LET pol == loc[c].policy IN
             pc[c] = "aggregate" /\ pc'[c] = "mark" /\ pol.action # "warn" =>
               Cardinality({row \in (usage \cup calls) \ unrecorded : InScope(pol, row)})
                 < pol.limit + Cardinality(Publishers) - 1
<1>1. Init => I
  BY BudgetInit, BooksInit, SpendingInit
<1>2. I /\ [Next]_vars => I'
  BY BooksNext, SpendingNext
<1>3. I /\ [Next]_vars => [Bounded]_vars
  <2> SUFFICES ASSUME I, [Next]_vars PROVE Bounded
    OBVIOUS
  <2>. QED  BY LetThrough
<1> HIDE DEF I
<1>. QED  BY <1>1, <1>2, <1>3, PTL DEF Spec, OvershootBounded
=============================================================================
