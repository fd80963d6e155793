---------------------------- MODULE EngagementGates --------------------------
(***************************************************************************)
(* Engagement gates (packages/core/src/usecases/engagement-gates.ts): who  *)
(* replies to the post of a gate and meets its conditions is sent a        *)
(* message, once; the row that records it carries a token that is redeemed *)
(* elsewhere.                                                              *)
(*                                                                         *)
(* Processors are callers of processEngagementGateReplies (the polling     *)
(* tick, the cron process, POST /engagement-gates/process), Clients are    *)
(* the other API requests.  As in StepSequences one step is one SQL        *)
(* statement or one event of a platform call, the actors of a process      *)
(* interleave only while a call is pending, an instant is its distance     *)
(* from now, and time stands still while replies are processed.            *)
(*                                                                         *)
(* All gates belong to one account, and their stealth config is that of    *)
(* the constants.  A reply is its place in the account's timeline of       *)
(* mentions, as tweet ids are ordered.                                     *)
(***************************************************************************)
EXTENDS Integers, Sequences, FiniteSets

CONSTANTS Gates, Posts, Users, Processors, Clients,
          HostOf,        \* the OS process each actor runs in
          Ops,           \* the API operations that are offered, each with a gate
          CreatedWith,   \* the setting each gate is created with
          ChangedTo,     \* the settings updates give it
          MaxReplies,    \* bound on the replies to a post
          MaxSent,       \* bound on messages to a user before a deletion
          Jitter,        \* seconds of jitter in time units
          BackoffTime,   \* backoffSeconds in time units
          Limit, Window, \* at most Limit deliveries per Window time units
          BatchSize,     \* limit of findActiveReplyTriggers
          OthersActive,  \* how many of these places gates of other accounts take
          MaxFaults,     \* bound on calls that fail or lose their answer, and crashes
          None

Actors == Processors \cup Clients
Hosts  == {HostOf[a] : a \in Actors}

\* The column externalUserId: the id of a replier, the name of who is verified.
Names    == Users \X {"id", "name"}
IdOf(u)  == <<u, "id">>

\* What a request can change of a gate: triggerPostId (None: every mention), if
\* there are conditions, and if the actionType is verify_only.
Settings == [post : Posts \cup {None}, requires : BOOLEAN, verifyOnly : BOOLEAN]

ASSUME GateActorsAssumption ==
    /\ Processors \cap Clients = {}
    /\ IsFiniteSet(Processors)
    /\ None \notin Gates /\ None \notin Names
    /\ CreatedWith \in [Gates -> Settings]
    /\ ChangedTo \in [Gates -> SUBSET Settings]

ASSUME GateBoundsAssumption ==
    /\ Jitter \in Nat /\ BackoffTime \in Nat
    /\ Limit \in Nat /\ Window \in Nat
    /\ BatchSize \in Nat /\ OthersActive \in Nat /\ OthersActive < BatchSize
    /\ MaxReplies \in Nat /\ MaxSent \in Nat /\ MaxFaults \in Nat

VARIABLES gate,       \* the engagement_gates rows
          delivery,   \* the engagement_gate_deliveries rows
          replies,    \* the timeline of mentions
          repointed,  \* the gates whose post was changed
          settled,    \* settled[g]: the replies decided about for gate g
          sent,       \* sent[g][u]: messages of gate g the platform accepted
          unrecorded, \* how many of those no row stands for
          pc, loc,    \* where each actor is, and its local variables
          faults

vars == <<gate, delivery, replies, repointed, settled, sent, unrecorded, pc,
          loc, faults>>
rows     == <<gate, delivery, repointed>>
outside  == <<replies, sent, unrecorded>>

-----------------------------------------------------------------------------
GateRows == [status : {"absent", "active", "paused", "deleted"},
             setting : Settings,
             backoffIn : Nat,     \* deliveryBackoffUntil
             since : Nat]         \* lastReplySinceId; 0 for null

DeliveryRows == [status : {"absent", "delivered", "verified"},
                 consumed : BOOLEAN,
                 ago : 0..Window] \* deliveredAt; Window when longer ago

ReplyRecords == [user : Users, to : Posts, age : 0..Jitter]

NoSetting  == [post |-> None, requires |-> FALSE, verifyOnly |-> FALSE]
NoGate     == [status |-> "absent", setting |-> NoSetting, backoffIn |-> 0, since |-> 0]
NoDelivery == [status |-> "absent", consumed |-> FALSE, ago |-> Window]

NoLocals == [rows |-> [g \in Gates |-> NoGate], batch |-> {}, held |-> FALSE,
             cur |-> None, list |-> {}, next |-> 0, keep |-> TRUE, reply |-> 0,
             name |-> None]

Locals == [rows : [Gates -> GateRows],  \* the gates as Scan read them
           batch : SUBSET Gates,        \* those still to come
           held : BOOLEAN,              \* accountBackoffs has the account
           cur : Gates \cup {None},
           list : SUBSET Nat,           \* listed.replies still to come
           next : Nat,                  \* listed.nextSinceId; 0 for null
           keep : BOOLEAN,              \* shouldUpdateSinceId
           reply : Nat,
           name : Names \cup {None}]    \* the delivery a request is about

Yielding == {"idle", "listing", "checking", "sending", "accepted"}
Deciding == {"count", "checking", "sending", "accepted", "record", "insert",
             "backOff"}
PCs == Yielding \cup Deciding \cup {"gate", "reply", "mark", "deleteGate",
                                    "insertVerified", "consume"}

TypeOK ==
    /\ gate \in [Gates -> GateRows]
    /\ delivery \in [Gates -> [Names -> DeliveryRows]]
    /\ replies \in Seq(ReplyRecords)
    /\ repointed \subseteq Gates /\ settled \in [Gates -> SUBSET Nat]
    /\ sent \in [Gates -> [Users -> Nat]]
    /\ unrecorded \in [Gates -> [Users -> Nat]]
    /\ pc \in [Actors -> PCs]
    /\ loc \in [Actors -> Locals]
    /\ faults \in Nat

Init ==
    /\ gate = [g \in Gates |-> NoGate]
    /\ delivery = [g \in Gates |-> [n \in Names |-> NoDelivery]]
    /\ replies = <<>> /\ repointed = {} /\ settled = [g \in Gates |-> {}]
    /\ sent = [g \in Gates |-> [u \in Users |-> 0]]
    /\ unrecorded = [g \in Gates |-> [u \in Users |-> 0]]
    /\ pc = [a \in Actors |-> "idle"]
    /\ loc = [a \in Actors |-> NoLocals]
    /\ faults = 0

-----------------------------------------------------------------------------
\* Actor a runs its next statement: alone in its process until it yields.
Turn(a, l) ==
    /\ pc[a] = l
    /\ \A b \in Actors \ {a} : HostOf[b] = HostOf[a] => pc[b] \in Yielding

Goto(a, l)      == pc' = [pc EXCEPT ![a] = l]
SetLocals(a, r) == loc' = [loc EXCEPT ![a] = r]

\* The request is answered, or the tick ends with an exception.
Finish(a) == Goto(a, "idle") /\ SetLocals(a, NoLocals)

Fail == faults < MaxFaults /\ faults' = faults + 1

\* The loop over the gates goes on with the rest of the batch.
NextGate(p, batch, held) ==
    IF batch = {} THEN Finish(p)
    ELSE Goto(p, "gate") /\ SetLocals(p, [NoLocals EXCEPT
            !.rows = loc[p].rows, !.batch = batch, !.held = held])

\* The loop over the replies of a gate goes on; after the last one the mark
\* is moved, unless a reply was put off or nothing is new.
NextReply(p, list, next, keep) ==
    LET old == loc[p].rows[loc[p].cur].since IN
    IF list # {} \/ (keep /\ next \notin {0, old})
    THEN /\ Goto(p, IF list # {} THEN "reply" ELSE "mark")
         /\ SetLocals(p, [loc[p] EXCEPT !.list = list, !.next = next,
                                        !.keep = keep, !.reply = 0])
    ELSE NextGate(p, loc[p].batch, loc[p].held)

\* The reply is decided, or put off, and the loop goes on.
PutOffForgotten(p) ==
    NextReply(p, loc[p].list, loc[p].next, loc[p].keep) /\ UNCHANGED settled

PutOff(p) ==
    NextReply(p, loc[p].list, loc[p].next, FALSE) /\ UNCHANGED settled

Settle(p) ==
    /\ settled' = [settled EXCEPT ![loc[p].cur] = @ \cup {loc[p].reply}]
    /\ NextReply(p, loc[p].list, loc[p].next, loc[p].keep)

SettingRead(p) == loc[p].rows[loc[p].cur].setting
Answers(rs, r, post) == post \in {rs[r].to, None}
UserOf(p)     == replies[loc[p].reply].user
RowOf(p)      == delivery[loc[p].cur][IdOf(UserOf(p))]
HasRow(g, n)  == delivery[g][n].status # "absent"
Exists(g)     == gate[g].status \in {"active", "paused"}

-----------------------------------------------------------------------------
(* processEngagementGateReplies. *)

Triggers == {g \in Gates : gate[g].status = "active"}

\* findActiveReplyTriggers has no ORDER BY: any BatchSize of the active gates,
\* those of other accounts and workspaces among them.
Scan(p) ==
    /\ Turn(p, "idle")
    /\ \E batch \in SUBSET Triggers :
         /\ batch # {} /\ Cardinality(batch) <= BatchSize
         /\ Cardinality(batch) + OthersActive >= BatchSize \/ batch = Triggers
         /\ SetLocals(p, [NoLocals EXCEPT !.batch = batch,
              !.rows = [g \in Gates |-> IF g \in batch THEN gate[g] ELSE NoGate]])
    /\ Goto(p, "gate")
    /\ UNCHANGED <<rows, settled, outside, faults>>

HeldByScan(p, g) == loc[p].rows[g].backoffIn > 0

\* The backoff of this run comes first, then the one the scan read.
Held(p, g) == loc[p].held \/ loc[p].rows[g].backoffIn > 0

\* The gate is skipped, or its replies are asked for.
LoadGate(p) ==
    /\ Turn(p, "gate")
    /\ \E g \in loc[p].batch :
         \/ Held(p, g) /\ NextGate(p, loc[p].batch \ {g}, loc[p].held)
         \/ /\ ~Held(p, g)
            /\ Goto(p, "listing")
            /\ SetLocals(p, [loc[p] EXCEPT !.batch = @ \ {g}, !.cur = g])
    /\ UNCHANGED <<rows, settled, outside, faults>>

\* The account is inactive (go on), or gone or unreadable (throw).
AccountFails(p) ==
    /\ Turn(p, "gate") /\ Fail
    /\ \E g \in loc[p].batch :
         ~Held(p, g) /\ (NextGate(p, loc[p].batch \ {g}, loc[p].held) \/ Finish(p))
    /\ UNCHANGED <<rows, settled, outside>>

\* nextSinceId is the newest mention, whether it answers the gate's post or not.
List(p) ==
    LET since == loc[p].rows[loc[p].cur].since
        new   == {r \in DOMAIN replies : r > since}
    IN  /\ Turn(p, "listing")
        /\ NextReply(p, {r \in new : Answers(replies, r, SettingRead(p).post)},
                     IF new = {} THEN 0 ELSE Len(replies), TRUE)
        /\ UNCHANGED <<rows, settled, outside, faults>>

\* A call for replies or for conditions fails: the exception ends the tick.
CallFails(p) ==
    /\ Turn(p, "listing") \/ Turn(p, "checking")
    /\ Fail /\ Finish(p)
    /\ UNCHANGED <<rows, settled, outside>>

FoundByReply(p, r) == r \in settled[loc[p].cur]

Found(p, r) == HasRow(loc[p].cur, IdOf(replies[r].user))

\* Replies are listed from the newest to the oldest.
FindDelivery(p) ==
    /\ Turn(p, "reply")
    /\ \E r \in loc[p].list :
         /\ \A s \in loc[p].list : s <= r
         /\ LET rest  == loc[p].list \ {r}
                found == Found(p, r)
            IN  \/ /\ found
                   /\ settled' = [settled EXCEPT ![loc[p].cur] = @ \cup {r}]
                   /\ NextReply(p, rest, loc[p].next, loc[p].keep)
                \/ /\ ~found /\ replies[r].age < Jitter
                   /\ NextReply(p, rest, loc[p].next, FALSE)
                   /\ UNCHANGED settled
                \/ /\ ~found /\ replies[r].age = Jitter
                   /\ Goto(p, "count")
                   /\ SetLocals(p, [loc[p] EXCEPT !.list = rest, !.reply = r])
                   /\ UNCHANGED settled
    /\ UNCHANGED <<rows, outside, faults>>

RecentEver == {x \in Gates \X Names : HasRow(x[1], x[2])}

\* Deliveries of the account, whatever gate or request they come from.
Recent == {x \in Gates \X Names : HasRow(x[1], x[2]) /\ delivery[x[1]][x[2]].ago < Window}

RateLimitedPast == Cardinality(Recent) > Limit

RateLimited == Cardinality(Recent) >= Limit

\* What deliverAction does first: nothing is sent for verify_only.
Deliver(p) ==
    /\ Goto(p, IF SettingRead(p).verifyOnly THEN "record" ELSE "sending")
    /\ UNCHANGED <<loc, settled>>

CountDeliveries(p) ==
    /\ Turn(p, "count")
    /\ \/ RateLimited /\ PutOff(p)
       \/ ~RateLimited /\ ~SettingRead(p).requires /\ Deliver(p)
       \/ /\ ~RateLimited /\ SettingRead(p).requires
          /\ Goto(p, "checking") /\ UNCHANGED <<loc, settled>>
    /\ UNCHANGED <<rows, outside, faults>>

\* The user meets the conditions, or does not.
CheckConditions(p) ==
    /\ Turn(p, "checking")
    /\ Deliver(p) \/ Settle(p)
    /\ UNCHANGED <<rows, outside, faults>>

\* The platform's side of sendReply.
Accept(p) ==
    /\ pc[p] = "sending"
    /\ sent' = [sent EXCEPT ![loc[p].cur][UserOf(p)] = @ + 1]
    /\ Goto(p, "accepted")
    /\ UNCHANGED <<rows, settled, replies, unrecorded, loc, faults>>

Reply(p) ==
    /\ Turn(p, "accepted")
    /\ Goto(p, "record")
    /\ UNCHANGED <<rows, settled, outside, loc, faults>>

Unrecord(p) == unrecorded' = [unrecorded EXCEPT ![loc[p].cur][UserOf(p)] = @ + 1]

\* The message is out, the caller sees an exception.
LoseReply(p) ==
    /\ Turn(p, "accepted")
    /\ Fail /\ Unrecord(p) /\ Finish(p)
    /\ UNCHANGED <<rows, settled, replies, sent>>

\* Refused for a rate limit, or refused otherwise (throw).
Refuse(p) ==
    /\ Turn(p, "sending") /\ Fail
    /\ (Goto(p, "backOff") /\ UNCHANGED loc) \/ Finish(p)
    /\ UNCHANGED <<rows, settled, outside>>

\* Every gate of the batch is updated; if one is gone the tick ends.
BackOff(p) ==
    LET scanned == {g \in Gates : loc[p].rows[g].status # "absent"} IN
    /\ Turn(p, "backOff")
    /\ gate' = [g \in Gates |-> IF g \in scanned /\ Exists(g)
                                THEN [gate[g] EXCEPT !.backoffIn = BackoffTime]
                                ELSE gate[g]]
    /\ \/ (\A g \in scanned : Exists(g)) /\ NextGate(p, loc[p].batch, TRUE)
       \/ (\E g \in scanned : ~Exists(g)) /\ Finish(p)
    /\ UNCHANGED <<delivery, repointed, settled, outside, faults>>

\* createOnce looks again before it inserts.
Record(p) ==
    /\ Turn(p, "record")
    /\ \/ /\ RowOf(p).status = "absent"
          /\ Goto(p, "insert") /\ UNCHANGED <<loc, settled, unrecorded>>
       \/ /\ RowOf(p).status # "absent"
          /\ (IF SettingRead(p).verifyOnly THEN UNCHANGED unrecorded ELSE Unrecord(p))
          /\ Settle(p)
    /\ UNCHANGED <<rows, replies, sent, faults>>

\* The unique index and the foreign key may refuse the row (throw).
Insert(p) ==
    LET g      == loc[p].cur
        action == IF SettingRead(p).verifyOnly THEN "verified" ELSE "delivered"
    IN
    /\ Turn(p, "insert")
    /\ \/ /\ Exists(g) /\ RowOf(p).status = "absent"
          /\ delivery' = [delivery EXCEPT ![g][IdOf(UserOf(p))] =
               [status |-> action, consumed |-> FALSE, ago |-> 0]]
          /\ Settle(p) /\ UNCHANGED unrecorded
       \/ /\ ~(Exists(g) /\ RowOf(p).status = "absent")
          /\ (IF SettingRead(p).verifyOnly THEN UNCHANGED unrecorded ELSE Unrecord(p))
          /\ Finish(p) /\ UNCHANGED <<delivery, settled>>
    /\ UNCHANGED <<gate, repointed, replies, sent, faults>>

\* The mark is written from the listing, whatever it is by now.
MoveMark(p) ==
    LET g == loc[p].cur IN
    /\ Turn(p, "mark")
    /\ \/ /\ Exists(g) /\ gate' = [gate EXCEPT ![g].since = loc[p].next]
          /\ NextGate(p, loc[p].batch, loc[p].held)
       \/ ~Exists(g) /\ Finish(p) /\ UNCHANGED gate
    /\ UNCHANGED <<delivery, repointed, settled, outside, faults>>

-----------------------------------------------------------------------------
(* API requests. *)

Offered(c, op, g) == <<op, g>> \in Ops /\ Turn(c, "idle") /\ Exists(g)

CreateGate(c, g) ==
    /\ Turn(c, "idle") /\ gate[g].status = "absent"
    /\ gate' = [gate EXCEPT ![g].status = "active", ![g].setting = CreatedWith[g]]
    /\ UNCHANGED <<delivery, repointed, settled, outside, pc, loc, faults>>

\* updateEngagementGate: the mark and the deliveries stay, whatever is changed.
UpdateGate(c, g) ==
    /\ Offered(c, "update", g)
    /\ \E status \in {"active", "paused"}, setting \in {gate[g].setting} \cup ChangedTo[g] :
         /\ gate' = [gate EXCEPT ![g].status = status, ![g].setting = setting]
         /\ repointed' = IF setting.post = gate[g].setting.post THEN repointed
                         ELSE repointed \cup {g}
    /\ UNCHANGED <<delivery, settled, outside, pc, loc, faults>>

\* Messages whose rows go are as unrecorded as those that never had one.
DeleteDeliveries(c, g) ==
    /\ Offered(c, "delete", g) /\ \A u \in Users : sent[g][u] <= MaxSent
    /\ delivery' = [delivery EXCEPT ![g] = [n \in Names |-> NoDelivery]]
    /\ unrecorded' = [unrecorded EXCEPT ![g] = [u \in Users |->
         unrecorded[g][u] + IF delivery[g][IdOf(u)].status = "delivered" THEN 1 ELSE 0]]
    /\ Goto(c, "deleteGate") /\ SetLocals(c, [NoLocals EXCEPT !.cur = g])
    /\ UNCHANGED <<gate, repointed, settled, replies, sent, faults>>

\* A delivery inserted in between keeps the gate (the request fails).
DeleteGate(c) ==
    LET g == loc[c].cur IN
    /\ Turn(c, "deleteGate")
    /\ IF \E n \in Names : HasRow(g, n) THEN UNCHANGED gate
       ELSE gate' = [gate EXCEPT ![g].status = "deleted"]
    /\ Finish(c)
    /\ UNCHANGED <<delivery, repointed, settled, outside, faults>>

\* verifyEngagementGate.  The conditions of a name are never met on X: its
\* adapter looks the name up among user ids.
Verify(c, g, u) ==
    /\ Offered(c, "verify", g)
    /\ gate[g].status = "active" /\ ~gate[g].setting.requires
    /\ \A n \in {u} \X {"id", "name"} : ~HasRow(g, n)
    /\ Goto(c, "insertVerified")
    /\ SetLocals(c, [NoLocals EXCEPT !.cur = g, !.name = <<u, "name">>])
    /\ UNCHANGED <<rows, settled, outside, faults>>

InsertVerified(c) ==
    LET g == loc[c].cur  n == loc[c].name IN
    /\ Turn(c, "insertVerified")
    /\ IF Exists(g) /\ ~HasRow(g, n)
       THEN delivery' = [delivery EXCEPT ![g][n] =
              [status |-> "verified", consumed |-> FALSE, ago |-> 0]]
       ELSE UNCHANGED delivery
    /\ Finish(c)
    /\ UNCHANGED <<gate, repointed, settled, outside, faults>>

\* consumeToken: a token that is not consumed, then the update.
FindToken(c, g, n) ==
    /\ Offered(c, "consume", g)
    /\ HasRow(g, n) /\ ~delivery[g][n].consumed
    /\ Goto(c, "consume")
    /\ SetLocals(c, [NoLocals EXCEPT !.cur = g, !.name = n])
    /\ UNCHANGED <<rows, settled, outside, faults>>

ConsumeToken(c) ==
    LET g == loc[c].cur  n == loc[c].name IN
    /\ Turn(c, "consume")
    /\ IF HasRow(g, n)
       THEN delivery' = [delivery EXCEPT ![g][n].consumed = TRUE]
       ELSE UNCHANGED delivery
    /\ Finish(c)
    /\ UNCHANGED <<gate, repointed, settled, replies, sent, unrecorded, faults>>

-----------------------------------------------------------------------------
(* Users, time and crashes. *)

PostReply ==
    /\ \E u \in Users, post \in Posts :
         /\ Cardinality({r \in DOMAIN replies : replies[r].to = post}) < MaxReplies
         /\ replies' = Append(replies, [user |-> u, to |-> post, age |-> 0])
    /\ UNCHANGED <<rows, settled, sent, unrecorded, pc, loc, faults>>

Later(n, top) == IF n < top THEN n + 1 ELSE n

Tick ==
    /\ \A p \in Processors : pc[p] = "idle"
    /\ gate' = [g \in Gates |->
                  [gate[g] EXCEPT !.backoffIn = IF @ > 0 THEN @ - 1 ELSE 0]]
    /\ delivery' = [g \in Gates |-> [n \in Names |->
                      [delivery[g][n] EXCEPT !.ago = Later(@, Window)]]]
    /\ replies' = [r \in DOMAIN replies |-> [replies[r] EXCEPT !.age = Later(@, Jitter)]]
    /\ UNCHANGED <<repointed, settled, sent, unrecorded, pc, loc, faults>>

\* A process dies with the messages its processors have not recorded yet.
InHand(p, g, u) ==
    /\ loc[p].cur = g /\ ~SettingRead(p).verifyOnly
    /\ pc[p] \in {"accepted", "record", "insert"} /\ UserOf(p) = u

Crash(h) ==
    /\ Fail
    /\ pc' = [a \in Actors |-> IF HostOf[a] = h THEN "idle" ELSE pc[a]]
    /\ loc' = [a \in Actors |-> IF HostOf[a] = h THEN NoLocals ELSE loc[a]]
    /\ unrecorded' = [g \in Gates |-> [u \in Users |-> unrecorded[g][u] +
         Cardinality({p \in Processors : HostOf[p] = h /\ InHand(p, g, u)})]]
    /\ UNCHANGED <<rows, settled, replies, sent>>

-----------------------------------------------------------------------------
Handle(p) ==
    \/ LoadGate(p) \/ AccountFails(p) \/ FindDelivery(p) \/ CountDeliveries(p)
    \/ BackOff(p) \/ Record(p) \/ Insert(p) \/ MoveMark(p)

ProviderStep(p) ==
    \/ List(p) \/ CallFails(p) \/ CheckConditions(p)
    \/ Accept(p) \/ Reply(p) \/ LoseReply(p) \/ Refuse(p)

RequestStep(c) ==
    \/ \E g \in Gates : CreateGate(c, g) \/ UpdateGate(c, g) \/ DeleteDeliveries(c, g)
    \/ \E g \in Gates, u \in Users : Verify(c, g, u)
    \/ \E g \in Gates, n \in Names : FindToken(c, g, n)
    \/ DeleteGate(c) \/ InsertVerified(c) \/ ConsumeToken(c)

Next ==
    \/ \E p \in Processors : Scan(p) \/ Handle(p) \/ ProviderStep(p)
    \/ \E c \in Clients : RequestStep(c)
    \/ PostReply \/ Tick
    \/ \E h \in Hosts : Crash(h)

Spec == Init /\ [][Next]_vars

\* As for StepSequences: the poller goes on after every tick, calls are
\* answered, and time passes between two ticks.
Fairness ==
    /\ \A p \in Processors : WF_vars(Scan(p) \/ Handle(p)) /\ WF_vars(ProviderStep(p))
    /\ SF_vars(Tick)

FairSpec == Spec /\ Fairness

-----------------------------------------------------------------------------
(* Properties. *)

\* No reply is lost to a gate while requests leave its post alone: what answers
\* the post below the gate's mark was delivered to, found ineligible or a
\* duplicate; what was put off, or was to come after a refusal, a failure or a
\* crash, is listed again.  A gate whose post is changed keeps its mark, and what
\* answers its new post below the mark is lost.
NoReplyLost ==
    \A g \in Gates \ repointed, r \in DOMAIN replies :
       Answers(replies, r, gate[g].setting.post) /\ r <= gate[g].since
         => r \in settled[g]

\* A user is written to once per gate, plus once for every message that no row
\* stands for (one processor).
ActionOnce ==
    \A g \in Gates, u \in Users : sent[g][u] <= 1 + unrecorded[g][u]

\* The processor records no more deliveries within Window than Limit, though
\* requests add rows of their own while it waits.  A message whose row was
\* refused, lost or deleted is not counted, by the code either.
LimitKept == Cardinality({x \in Recent : x[2][2] = "id"}) <= Limit

\* After the platform asked for a pause, no gate sends until it is over.
BackoffKept ==
    [][\A p \in Processors : pc[p] # "sending" /\ pc'[p] = "sending" =>
                               gate[loc[p].cur].backoffIn = 0]_vars

\* A gate that stays active with its post is not behind for ever, if users stop
\* replying, calls stop failing, and all the active gates find a place in a
\* batch (if they do not, the same gates may be scanned at every tick).
Behind(g) ==
    /\ g \notin repointed /\ gate[g].status = "active"
    /\ \E r \in DOMAIN replies \ settled[g] :
         Answers(replies, r, gate[g].setting.post)
    /\ Cardinality(Triggers) + OthersActive <= BatchSize

RepliesSettled == \A g \in Gates : Behind(g) ~> ~Behind(g)
=============================================================================
