-------------------------------- MODULE Inbox --------------------------------
(***************************************************************************)
(* The inbox of one account (packages/core/src/usecases/inbox.ts): what is *)
(* said on the platform reaches the tables conversation_threads and        *)
(* messages through webhooks, which may come late, twice or never, through *)
(* POST /inbox/sync, and through the replies sent from here.               *)
(*                                                                         *)
(* One step is one SQL statement or one event of a platform call; the      *)
(* requests of a process interleave only while one waits for the platform. *)
(* A message is its place in the order in which messages were said.  The   *)
(* direction of a row, names of participants, the times shown and media    *)
(* are left out.                                                           *)
(***************************************************************************)
EXTENDS Integers, Sequences, FiniteSets

CONSTANTS Threads,      \* the conversations on the platform
          SplitThreads, \* those that webhooks call by another name than a sync
          Replies,      \* the replies users and agents write
          Clients,
          HostOf,       \* the OS process that serves each client
          Ops,          \* which client makes which requests
          Echoes,       \* whether webhooks report what the account itself says
          WithoutId,    \* the places in what is said of events that have no id
          MaxSaid,      \* bound on the messages of the platform
          MaxRepeats,   \* bound on the rows of an event without id
          MaxFaults,    \* bound on crashes and calls that fail or lose their answer
          None

Hosts == {HostOf[c] : c \in Clients}

ASSUME InboxAssumption ==
    /\ IsFiniteSet(Clients) /\ SplitThreads \subseteq Threads
    /\ None \notin Threads /\ None \notin Replies
    /\ Echoes \in BOOLEAN /\ WithoutId \subseteq Nat /\ MaxRepeats \in Nat
    /\ MaxSaid \in Nat /\ MaxFaults \in Nat

\* externalThreadId as a sync or a webhook spells it.  A direct message on
\* Instagram has it from recipient and sender, the other way round in an echo.
Names == Threads \X {"sync", "webhook", "echo"}
NameIn(t, via) == <<t, IF t \in SplitThreads THEN via ELSE "sync">>

VARIABLES said,     \* the messages that exist on the platform
          thread,   \* the conversation_threads rows: their names
          message,  \* the messages rows
          reply,    \* the approval request of a reply, or that it needed none
          sent,     \* sent[r]: how often the platform took reply r
          action,   \* the threads whose post has an engagement_actions row
          acted,    \* acted[t]: how often the platform took the like
          lost,     \* lost[t]: likes taken that no request remembers
          pc, loc,
          faults

vars == <<said, thread, message, reply, sent, action, acted, lost, pc, loc,
          faults>>
tables  == <<thread, message>>
outbox  == <<reply, sent>>
likes   == <<action, acted, lost>>

-----------------------------------------------------------------------------
Said        == [thread : Threads, out : BOOLEAN, id : BOOLEAN]
MessageRows == [row : Nat \ {0}, msg : Nat \ {0}]   \* threadId, what it stands for

NoLocals == [todo |-> {}, name |-> None, row |-> 0, listed |-> {},
             threads |-> {}, target |-> None, reply |-> None, msg |-> 0]

Locals == [todo : SUBSET (Nat \ {0}),    \* the messages still to be stored
           name : Names \cup {None},
           row : Nat,                    \* thread.id
           listed : SUBSET (Nat \ {0}),  \* all messages of the sync so far
           threads : SUBSET Threads,     \* threadList still to come
           target : Threads \cup {None},
           reply : Replies \cup {None},
           msg : Nat]                    \* result.externalMessageId

Yielding == {"idle", "listing", "fetching", "sending", "sent", "acting", "acted"}
PCs      == Yielding \cup {"find", "update", "create", "findMessage", "insert",
                           "record", "touch", "createOnce", "insertAction", "load",
                           "approve", "reject"}

TypeOK ==
    /\ said \in Seq(Said)
    /\ thread \in Seq(Names)
    /\ message \in Seq(MessageRows)
    /\ reply \in [Replies -> {"none", "direct", "pending", "approved", "rejected"}]
    /\ sent \in [Replies -> Nat]
    /\ action \subseteq Threads
    /\ acted \in [Threads -> Nat] /\ lost \in [Threads -> Nat]
    /\ pc \in [Clients -> PCs]
    /\ loc \in [Clients -> Locals]
    /\ faults \in Nat

Init ==
    /\ said = <<>> /\ thread = <<>> /\ message = <<>>
    /\ reply = [r \in Replies |-> "none"] /\ sent = [r \in Replies |-> 0]
    /\ action = {}
    /\ acted = [t \in Threads |-> 0] /\ lost = [t \in Threads |-> 0]
    /\ pc = [c \in Clients |-> "idle"]
    /\ loc = [c \in Clients |-> NoLocals]
    /\ faults = 0

-----------------------------------------------------------------------------
Turn(c, l) ==
    /\ pc[c] = l
    /\ \A d \in Clients \ {c} : HostOf[d] = HostOf[c] => pc[d] \in Yielding

Goto(c, l)      == pc' = [pc EXCEPT ![c] = l]
SetLocals(c, r) == loc' = [loc EXCEPT ![c] = r]
Finish(c)       == Goto(c, "idle") /\ SetLocals(c, NoLocals)
Offered(c, op)  == <<c, op>> \in Ops /\ Turn(c, "idle")

Fail == faults < MaxFaults /\ faults' = faults + 1

\* Of a list that is stored one by one, the oldest message goes first; platforms
\* may list them in another order, which no property tells apart.
Oldest(S) == CHOOSE m \in S : \A n \in S : m <= n

Copies(m)    == {i \in DOMAIN message : message[i].msg = m}
Stored(n, m) == \E i \in Copies(m) : message[i].row = n

-----------------------------------------------------------------------------
(* storeThreadMessage, for the messages of a webhook or of a sync. *)

\* The sync goes on with its next thread, or the request is answered.
NextThread(c, l) ==
    IF l.threads = {} THEN Finish(c)
    ELSE \E t \in l.threads :
           /\ Goto(c, "fetching")
           /\ SetLocals(c, [l EXCEPT !.threads = @ \ {t}, !.name = NameIn(t, "sync"),
                                     !.target = t, !.todo = {}, !.row = 0])

\* The first message of the list is stored, or there.
NextMessage(c) ==
    LET l == [loc[c] EXCEPT !.todo = @ \ {Oldest(@)}] IN
    IF l.todo # {} THEN Goto(c, "find") /\ SetLocals(c, l) ELSE NextThread(c, l)

\* findByExternalThread.
FindThread(c) ==
    /\ Turn(c, "find")
    /\ \/ \E n \in DOMAIN thread :
            /\ thread[n] = loc[c].name
            /\ Goto(c, "update") /\ SetLocals(c, [loc[c] EXCEPT !.row = n])
       \/ /\ \A n \in DOMAIN thread : thread[n] # loc[c].name
          /\ Goto(c, "create") /\ UNCHANGED loc
    /\ UNCHANGED <<said, tables, outbox, likes, faults>>

UpdateThread(c) ==
    /\ Turn(c, "update")
    /\ Goto(c, "findMessage")
    /\ UNCHANGED <<said, tables, outbox, likes, loc, faults>>

CreateThreadUnnoticed(c) ==
    /\ Turn(c, "create")
    /\ thread' = Append(thread, loc[c].name)
    /\ Goto(c, "findMessage")
    /\ UNCHANGED <<said, message, outbox, likes, loc, faults>>

CreateThread(c) ==
    /\ Turn(c, "create")
    /\ thread' = Append(thread, loc[c].name)
    /\ Goto(c, "findMessage")
    /\ SetLocals(c, [loc[c] EXCEPT !.row = Len(thread) + 1])
    /\ UNCHANGED <<said, message, outbox, likes, faults>>

FindMessageOfWebhook(c) ==
    LET m == Oldest(loc[c].todo) IN
    /\ Turn(c, "findMessage")
    /\ IF said[m].id /\ Stored(loc[c].row, m) /\ loc[c].listed = {} THEN NextMessage(c)
       ELSE Goto(c, "insert") /\ UNCHANGED loc
    /\ UNCHANGED <<said, tables, outbox, likes, faults>>

FindMessageUpToDate(c) ==
    LET m == Oldest(loc[c].todo) IN
    /\ Turn(c, "findMessage")
    /\ IF said[m].id /\ Stored(loc[c].row, m) THEN NextThread(c, loc[c])
       ELSE Goto(c, "insert") /\ UNCHANGED loc
    /\ UNCHANGED <<said, tables, outbox, likes, faults>>

\* findByExternalMessage, within the thread: only what has an id is looked for.
FindMessage(c) ==
    LET m == Oldest(loc[c].todo) IN
    /\ Turn(c, "findMessage")
    /\ IF said[m].id /\ Stored(loc[c].row, m) THEN NextMessage(c)
       ELSE Goto(c, "insert") /\ UNCHANGED loc
    /\ UNCHANGED <<said, tables, outbox, likes, faults>>

InsertMessage(c) ==
    /\ Turn(c, "insert")
    /\ message' = Append(message, [row |-> loc[c].row, msg |-> Oldest(loc[c].todo)])
    /\ NextMessage(c)
    /\ UNCHANGED <<said, thread, outbox, likes, faults>>

-----------------------------------------------------------------------------
(* Webhooks and syncs. *)

\* Any message or event, any number of times.  X's webhook skips what the
\* account itself says, Instagram's does not.
Webhook(c) ==
    /\ Offered(c, "webhook")
    /\ \E m \in DOMAIN said :
         /\ said[m].out => Echoes
         /\ said[m].id \/ Cardinality(Copies(m)) < MaxRepeats
         /\ SetLocals(c, [NoLocals EXCEPT !.todo = {m},
              !.name = NameIn(said[m].thread, IF said[m].out THEN "echo" ELSE "webhook")])
    /\ Goto(c, "find")
    /\ UNCHANGED <<said, tables, outbox, likes, faults>>

StartSync(c) ==
    /\ Offered(c, "sync") /\ Goto(c, "listing")
    /\ UNCHANGED <<said, tables, outbox, likes, loc, faults>>

\* Messages, as opposed to other events, have an id.
Listed == {m \in DOMAIN said : said[m].id}

\* The platform's answer to listThreads.
ListThreads(c) ==
    /\ Turn(c, "listing")
    /\ NextThread(c, [NoLocals EXCEPT !.threads = {said[m].thread : m \in Listed}])
    /\ UNCHANGED <<said, tables, outbox, likes, faults>>

\* getMessages: what the thread holds by now, from the oldest on.
GetMessages(c) ==
    LET messages == {m \in Listed : said[m].thread = loc[c].target}
    IN  /\ Turn(c, "fetching")
        /\ Goto(c, "find")
        /\ SetLocals(c, [loc[c] EXCEPT !.todo = messages,
                                       !.listed = @ \cup messages])
        /\ UNCHANGED <<said, tables, outbox, likes, faults>>

SyncFails(c) ==
    /\ Turn(c, "listing") \/ Turn(c, "fetching")
    /\ Fail /\ Finish(c)
    /\ UNCHANGED <<said, tables, outbox, likes>>

-----------------------------------------------------------------------------
(* sendReply, and the approval some roles need for it. *)

AskReply(c) ==
    /\ Offered(c, "ask") /\ thread # <<>>
    /\ \E r \in Replies :
         reply[r] = "none" /\ reply' = [reply EXCEPT ![r] = "pending"]
    /\ UNCHANGED <<said, tables, sent, likes, pc, loc, faults>>

ReviewAgain(c) ==
    /\ Offered(c, "review")
    /\ \E r \in Replies, l \in {"approve", "reject"} :
         /\ reply[r] \in {"pending", "approved"}
         /\ Goto(c, l) /\ SetLocals(c, [NoLocals EXCEPT !.reply = r])
    /\ UNCHANGED <<said, tables, outbox, likes, faults>>

\* approveRequest or rejectRequest finds the request pending.
Review(c) ==
    /\ Offered(c, "review")
    /\ \E r \in Replies, l \in {"approve", "reject"} :
         /\ reply[r] = "pending"
         /\ Goto(c, l) /\ SetLocals(c, [NoLocals EXCEPT !.reply = r])
    /\ UNCHANGED <<said, tables, outbox, likes, faults>>

\* The update, whatever the request is by now, and inboxReplyExecutor.
Decide(c) ==
    /\ \/ /\ Turn(c, "approve")
          /\ reply' = [reply EXCEPT ![loc[c].reply] = "approved"]
          /\ Goto(c, "load") /\ UNCHANGED loc
       \/ /\ Turn(c, "reject")
          /\ reply' = [reply EXCEPT ![loc[c].reply] = "rejected"]
          /\ Finish(c)
    /\ UNCHANGED <<said, tables, sent, likes, faults>>

StartReply(c) ==
    /\ Offered(c, "reply")
    /\ \E r \in Replies :
         /\ reply[r] = "none" /\ reply' = [reply EXCEPT ![r] = "direct"]
         /\ SetLocals(c, [NoLocals EXCEPT !.reply = r])
    /\ Goto(c, "load")
    /\ UNCHANGED <<said, tables, sent, likes, faults>>

\* A thread, unless its account is not active.
LoadThread(c) ==
    /\ Turn(c, "load")
    /\ \/ \E n \in DOMAIN thread :
            /\ Goto(c, "sending")
            /\ SetLocals(c, [loc[c] EXCEPT !.row = n, !.target = thread[n][1]])
       \/ Finish(c)
    /\ UNCHANGED <<said, tables, outbox, likes, faults>>

\* The platform takes the reply: it is part of the conversation.
AcceptReply(c) ==
    /\ pc[c] = "sending" /\ Len(said) < MaxSaid
    /\ said' = Append(said, [thread |-> loc[c].target, out |-> TRUE, id |-> TRUE])
    /\ sent' = [sent EXCEPT ![loc[c].reply] = @ + 1]
    /\ Goto(c, "sent") /\ SetLocals(c, [loc[c] EXCEPT !.msg = Len(said) + 1])
    /\ UNCHANGED <<tables, reply, likes, faults>>

ReplyTaken(c) ==
    /\ Turn(c, "sent") /\ Goto(c, "record")
    /\ UNCHANGED <<said, tables, outbox, likes, loc, faults>>

\* Refused, or its answer is lost.
ReplyFails(c) ==
    /\ Turn(c, "sending") \/ Turn(c, "sent")
    /\ Fail /\ Finish(c)
    /\ UNCHANGED <<said, tables, outbox, likes>>

RecordReply(c) ==
    /\ Turn(c, "record")
    /\ message' = Append(message, [row |-> loc[c].row, msg |-> loc[c].msg])
    /\ Goto(c, "touch")
    /\ UNCHANGED <<said, thread, outbox, likes, loc, faults>>

TouchThread(c) ==
    /\ Turn(c, "touch") /\ Finish(c)
    /\ UNCHANGED <<said, tables, outbox, likes, faults>>

-----------------------------------------------------------------------------
(* performInboxEngagementAction: a like of the post a thread is about. *)

StartActionUnlooked(c) ==
    /\ Offered(c, "like")
    /\ \E n \in DOMAIN thread :
         /\ Goto(c, "acting")
         /\ SetLocals(c, [NoLocals EXCEPT !.target = thread[n][1]])
    /\ UNCHANGED <<said, tables, outbox, likes, faults>>

\* findByDedupeKey: an action that is recorded is not asked for again.
StartAction(c) ==
    /\ Offered(c, "like")
    /\ \E n \in DOMAIN thread :
         /\ thread[n][1] \notin action
         /\ Goto(c, "acting")
         /\ SetLocals(c, [NoLocals EXCEPT !.target = thread[n][1]])
    /\ UNCHANGED <<said, tables, outbox, likes, faults>>

AcceptAction(c) ==
    /\ pc[c] = "acting"
    /\ acted' = [acted EXCEPT ![loc[c].target] = @ + 1]
    /\ Goto(c, "acted")
    /\ UNCHANGED <<said, tables, outbox, action, lost, loc, faults>>

ActionTaken(c) ==
    /\ Turn(c, "acted") /\ Goto(c, "createOnce")
    /\ UNCHANGED <<said, tables, outbox, likes, loc, faults>>

ActionFails(c) ==
    /\ Turn(c, "acting") \/ Turn(c, "acted")
    /\ lost' = IF pc[c] = "acted" THEN [lost EXCEPT ![loc[c].target] = @ + 1] ELSE lost
    /\ Fail /\ Finish(c)
    /\ UNCHANGED <<said, tables, outbox, action, acted>>

\* createOnce finds the row of a request that was faster.
CreateOnce(c) ==
    /\ Turn(c, "createOnce")
    /\ IF loc[c].target \in action
       THEN Finish(c) /\ lost' = [lost EXCEPT ![loc[c].target] = @ + 1]
       ELSE Goto(c, "insertAction") /\ UNCHANGED <<loc, lost>>
    /\ UNCHANGED <<said, tables, outbox, action, acted, faults>>

\* The unique index refuses a second row.
InsertAction(c) ==
    LET t == loc[c].target IN
    /\ Turn(c, "insertAction")
    /\ IF t \in action
       THEN lost' = [lost EXCEPT ![t] = @ + 1] /\ UNCHANGED action
       ELSE action' = action \cup {t} /\ UNCHANGED lost
    /\ Finish(c)
    /\ UNCHANGED <<said, tables, outbox, acted, faults>>

-----------------------------------------------------------------------------
(* What others say, and crashes. *)

Say ==
    /\ Len(said) < MaxSaid
    /\ \E t \in Threads : said' = Append(said,
         [thread |-> t, out |-> FALSE, id |-> Len(said) + 1 \notin WithoutId])
    /\ UNCHANGED <<tables, outbox, likes, pc, loc, faults>>

Crash(h) ==
    LET dead  == {c \in Clients : HostOf[c] = h}
        Acted(t) == {c \in dead : pc[c] \in {"acted", "createOnce", "insertAction"}
                                  /\ loc[c].target = t}
    IN  /\ Fail
        /\ pc' = [c \in Clients |-> IF c \in dead THEN "idle" ELSE pc[c]]
        /\ loc' = [c \in Clients |-> IF c \in dead THEN NoLocals ELSE loc[c]]
        /\ lost' = [t \in Threads |-> lost[t] + Cardinality(Acted(t))]
        /\ UNCHANGED <<said, tables, outbox, action, acted>>

-----------------------------------------------------------------------------
Store(c) ==
    \/ FindThread(c) \/ UpdateThread(c) \/ CreateThread(c)
    \/ FindMessage(c) \/ InsertMessage(c)

Receive(c) ==
    \/ Webhook(c) \/ StartSync(c) \/ ListThreads(c) \/ GetMessages(c) \/ SyncFails(c)

Answer(c) ==
    \/ AskReply(c) \/ Review(c) \/ Decide(c) \/ StartReply(c)
    \/ LoadThread(c) \/ AcceptReply(c) \/ ReplyTaken(c) \/ ReplyFails(c)
    \/ RecordReply(c) \/ TouchThread(c)

Like(c) ==
    \/ StartAction(c) \/ AcceptAction(c) \/ ActionTaken(c) \/ ActionFails(c)
    \/ CreateOnce(c) \/ InsertAction(c)

Next ==
    \/ \E c \in Clients : Store(c) \/ Receive(c) \/ Answer(c) \/ Like(c)
    \/ Say
    \/ \E h \in Hosts : Crash(h)

Spec == Init /\ [][Next]_vars

-----------------------------------------------------------------------------
(* Properties. *)

\* Webhooks that come twice, late, or with a sync that lists the same message
\* leave one row for it in a thread, and that of its own conversation, if others
\* said it and it has an id (one process).
InboundOnce ==
    /\ \A n, k \in DOMAIN thread : thread[n] = thread[k] => n = k
    /\ \A m \in DOMAIN said : said[m].id /\ ~said[m].out =>
         \A i, j \in Copies(m) : message[i].row = message[j].row => i = j
    /\ \A i \in DOMAIN message :
         thread[message[i].row][1] = said[message[i].msg].thread

\* When a sync is answered, each message it was given is in the inbox, whatever
\* else arrived or was stored meanwhile.
SyncComplete ==
    [][\A c \in Clients : pc[c] \in {"findMessage", "insert"} /\ pc'[c] = "idle"
                          /\ faults' = faults =>
          \A m \in loc[c].listed : \E i \in DOMAIN message' : message'[i].msg = m]_vars

\* A reply is sent at most once, and only if it was approved or needed no
\* approval (one process: the review reads and then writes).
ReplyOnce ==
    \A r \in Replies : /\ sent[r] <= 1
                       /\ sent[r] = 1 => reply[r] \in {"direct", "approved"}

\* A like that is asked for again and again is performed once, unless its
\* answer was lost (requests that follow one another).
LikedOnce == \A t \in Threads : acted[t] <= 1 + lost[t]
=============================================================================
