----------------------------- MODULE InboxProofs -----------------------------
(***************************************************************************)
(* TLAPS proofs about Inbox: types and that a message lies in the thread   *)
(* of its conversation; that an answered sync has stored what it was given *)
(* (SyncComplete); when one process serves the requests, that a name has   *)
(* one thread and a message of others with an id one row in it             *)
(* (InboundOnce), and that a reply is sent once (ReplyOnce); and, when one *)
(* client asks for likes, that a like is performed once (LikedOnce).       *)
(***************************************************************************)
EXTENDS Inbox, FiniteSetTheorems, WellFoundedInduction, TLAPS

-----------------------------------------------------------------------------
(* Sequences that only grow, and the least of a set of numbers. *)

Grown(t, s) == DOMAIN s \subseteq DOMAIN t /\ \A i \in DOMAIN s : t[i] = s[i]

LEMMA GrownSame == \A s : Grown(s, s)
BY DEF Grown

LEMMA AppendGrown ==
    ASSUME NEW S, NEW s \in Seq(S), NEW e \in S
    PROVE  /\ Append(s, e) \in Seq(S) /\ Grown(Append(s, e), s)
           /\ DOMAIN Append(s, e) = DOMAIN s \cup {Len(s) + 1}
           /\ Append(s, e)[Len(s) + 1] = e
           /\ Len(s) + 1 \in Nat \ {0} /\ Len(s) + 1 \notin DOMAIN s
BY DEF Grown

LEMMA OldestIn ==
    ASSUME NEW S, S \subseteq Nat, S # {}
    PROVE  Oldest(S) \in S
<1>1. \E m \in S : \A n \in S : ~(<<n, m>> \in OpToRel(<, Nat))
  BY NatLessThanWellFounded, WFMin, Zenon
<1>2. PICK m \in S : \A n \in S : ~(<<n, m>> \in OpToRel(<, Nat))
  BY <1>1
<1>3. ASSUME NEW n \in S PROVE m <= n
  <2>1. n < m => <<n, m>> \in {ss \in Nat \X Nat : ss[1] < ss[2]}
    OBVIOUS
  <2>2. OpToRel(<, Nat) = {ss \in Nat \X Nat : ss[1] < ss[2]}
    BY Zenon DEF OpToRel
  <2>3. ~(n < m)
    BY <1>2, <2>1, <2>2, Zenon
  <2>. QED  BY <2>3
<1>. QED  BY <1>3 DEF Oldest

-----------------------------------------------------------------------------
(* What a request has in hand where: th, ms and sd are the rows of threads *)
(* and of messages, and what was said.                                     *)

Storing == {"find", "update", "create", "findMessage", "insert"}
Acting  == {"acting", "acted", "createOnce", "insertAction"}

Heard(t, sd) == \E m \in DOMAIN sd : sd[m].thread = t /\ sd[m].id
Held(ms)     == {ms[i].msg : i \in DOMAIN ms}

StoringHand(l, x, th, sd) ==
    /\ l \in Storing =>
         /\ x.name \in Names /\ x.todo # {}
         /\ \A m \in x.todo : m \in DOMAIN sd /\ sd[m].thread = x.name[1]
    /\ l \in {"update", "findMessage", "insert"} =>
         x.row \in DOMAIN th /\ th[x.row] = x.name

\* The sync owes no message but those it is about to store.
SyncHand(l, x, ms, sd) ==
    /\ l \in Storing \cup {"fetching"} =>
         /\ \A t \in x.threads : Heard(t, sd)
         /\ x.listed \subseteq x.todo \cup Held(ms)
    /\ l = "fetching" =>
         /\ x.todo = {} /\ x.name \in Names /\ x.name[1] = x.target
         /\ Heard(x.target, sd)

ReplyHand(l, x, th, sd) ==
    /\ l \in {"sending", "sent", "record"} =>
         x.row \in DOMAIN th /\ th[x.row][1] = x.target
    /\ l \in {"sent", "record"} =>
         x.msg \in DOMAIN sd /\ sd[x.msg].out /\ sd[x.msg].thread = x.target

HandOK(l, x, th, ms, sd) ==
    /\ StoringHand(l, x, th, sd) /\ SyncHand(l, x, ms, sd) /\ ReplyHand(l, x, th, sd)
    /\ l \in Acting => x.target \in Threads

\* A message lies in a thread of the conversation it belongs to.
RowsOK(th, ms, sd) ==
    \A i \in DOMAIN ms :
      /\ ms[i].row \in DOMAIN th /\ ms[i].msg \in DOMAIN sd
      /\ th[ms[i].row][1] = sd[ms[i].msg].thread

CoreInv ==
    /\ said \in Seq(Said) /\ thread \in Seq(Names) /\ message \in Seq(MessageRows)
    /\ pc \in [Clients -> PCs] /\ loc \in [Clients -> Locals]
    /\ RowsOK(thread, message, said)
    /\ \A c \in Clients : HandOK(pc[c], loc[c], thread, message, said)

LEMMA HandKept ==
    ASSUME NEW l, NEW x, NEW th, NEW ms, NEW sd, NEW th2, NEW ms2, NEW sd2,
           HandOK(l, x, th, ms, sd), Grown(th2, th), Grown(ms2, ms), Grown(sd2, sd)
    PROVE  HandOK(l, x, th2, ms2, sd2)
<1>1. StoringHand(l, x, th2, sd2)
  BY DEF HandOK, StoringHand, Grown
<1>2. SyncHand(l, x, ms2, sd2)
  <2>1. \A t : Heard(t, sd) => Heard(t, sd2)
    BY DEF Heard, Grown
  <2>2. Held(ms) \subseteq Held(ms2)
    BY DEF Held, Grown
  <2>. QED  BY <2>1, <2>2 DEF HandOK, SyncHand
<1>3. ReplyHand(l, x, th2, sd2)
  BY DEF HandOK, ReplyHand, Grown
<1>. QED  BY <1>1, <1>2, <1>3 DEF HandOK

LEMMA NoLocalsType ==
    NoLocals \in Locals /\ \A th, ms, sd : HandOK("idle", NoLocals, th, ms, sd)
BY DEF NoLocals, Locals, HandOK, StoringHand, SyncHand, ReplyHand, Storing, Acting

\* Request c goes to statement l with locals x.
Moves(c, l, x) == pc' = [pc EXCEPT ![c] = l] /\ loc' = [loc EXCEPT ![c] = x]

LEMMA FinishMoves == \A c : Finish(c) => Moves(c, "idle", NoLocals)
BY DEF Finish, Goto, SetLocals, Moves

LEMMA GotoMoves ==
    ASSUME CoreInv, NEW c \in Clients, NEW l, Goto(c, l), loc' = loc
    PROVE  Moves(c, l, loc[c])
BY DEF Goto, Moves, CoreInv

LEMMA SetLocalsMoves == \A c, l, x : Goto(c, l) /\ SetLocals(c, x) => Moves(c, l, x)
BY DEF Goto, SetLocals, Moves

\* The tables grow, and one request moves.
LEMMA CoreStep ==
    ASSUME CoreInv, NEW c \in Clients, NEW l \in PCs, NEW x \in Locals, Moves(c, l, x),
           said' \in Seq(Said), thread' \in Seq(Names), message' \in Seq(MessageRows),
           Grown(said', said), Grown(thread', thread), Grown(message', message),
           RowsOK(thread', message', said'),
           HandOK(l, x, thread', message', said')
    PROVE  CoreInv'
<1>1. pc' \in [Clients -> PCs] /\ loc' \in [Clients -> Locals]
  BY DEF CoreInv, Moves
<1>2. ASSUME NEW d \in Clients PROVE HandOK(pc'[d], loc'[d], thread', message', said')
  <2>1. CASE d = c
    BY <2>1 DEF CoreInv, Moves
  <2>2. CASE d # c
    <3>1. pc'[d] = pc[d] /\ loc'[d] = loc[d]
      BY <2>2 DEF CoreInv, Moves
    <3>2. HandOK(pc[d], loc[d], thread, message, said)
      BY DEF CoreInv
    <3>3. HandOK(pc[d], loc[d], thread', message', said')
      BY <3>2, HandKept
    <3>. QED  BY <3>1, <3>3
  <2>. QED  BY <2>1, <2>2
<1>. QED  BY <1>1, <1>2 DEF CoreInv

\* A request moves and changes no table.
LEMMA QuietStep ==
    ASSUME CoreInv, NEW c \in Clients, NEW l \in PCs, NEW x \in Locals, Moves(c, l, x),
           UNCHANGED <<said, thread, message>>, HandOK(l, x, thread, message, said)
    PROVE  CoreInv'
BY CoreStep, GrownSame DEF CoreInv

\* Something is said, and nobody moves.
LEMMA SaidStep ==
    ASSUME CoreInv, UNCHANGED <<thread, message, pc, loc>>,
           said' \in Seq(Said), Grown(said', said)
    PROVE  CoreInv'
<1>1. RowsOK(thread', message', said')
  BY DEF CoreInv, RowsOK, Grown
<1>2. ASSUME NEW d \in Clients PROVE HandOK(pc'[d], loc'[d], thread', message', said')
  <2>1. HandOK(pc[d], loc[d], thread, message, said)
    BY DEF CoreInv
  <2>. QED  BY <2>1, HandKept, GrownSame
<1>. QED  BY <1>1, <1>2 DEF CoreInv

-----------------------------------------------------------------------------
(* What a sync, or a webhook, does after a message. *)

\* With all it was given in the inbox, a sync goes on or is answered.
LEMMA NextThreadHand ==
    ASSUME NEW c \in Clients, NEW y \in Locals, NextThread(c, y), NEW th, NEW ms, NEW sd,
           \A t \in y.threads : Heard(t, sd), y.listed \subseteq Held(ms)
    PROVE  \E l \in {"idle", "fetching"}, x \in Locals :
             Moves(c, l, x) /\ HandOK(l, x, th, ms, sd)
<1>1. CASE Finish(c)
  BY <1>1, FinishMoves, NoLocalsType
<1>2. ASSUME NEW t \in y.threads, Goto(c, "fetching"),
             SetLocals(c, [y EXCEPT !.threads = @ \ {t}, !.name = NameIn(t, "sync"),
                                    !.target = t, !.todo = {}, !.row = 0])
      PROVE  \E l \in {"idle", "fetching"}, x \in Locals :
               Moves(c, l, x) /\ HandOK(l, x, th, ms, sd)
  <2> DEFINE x == [y EXCEPT !.threads = @ \ {t}, !.name = NameIn(t, "sync"),
                            !.target = t, !.todo = {}, !.row = 0]
  <2>1. t \in Threads /\ NameIn(t, "sync") \in Names /\ NameIn(t, "sync")[1] = t
    BY DEF Locals, NameIn, Names
  <2>2. x \in Locals
    BY <2>1 DEF Locals
  <2>3. /\ x.threads \subseteq y.threads /\ x.name = NameIn(t, "sync") /\ x.target = t
        /\ x.todo = {} /\ x.listed = y.listed
    BY DEF Locals
  <2>4. HandOK("fetching", x, th, ms, sd)
    BY <2>1, <2>3 DEF HandOK, StoringHand, SyncHand, ReplyHand, Storing, Acting
  <2>5. Moves(c, "fetching", x)
    BY <1>2, SetLocalsMoves
  <2>. QED  BY <2>2, <2>4, <2>5
<1>. QED  BY <1>1, <1>2 DEF NextThread

\* With its first message in the inbox, a request goes on to the next one.
LEMMA NextMessageHand ==
    ASSUME pc \in [Clients -> PCs], NEW c \in Clients, loc[c] \in Locals, NextMessage(c),
           NEW th, NEW ms, NEW sd, NEW l \in {"findMessage", "insert"},
           HandOK(l, loc[c], th, ms, sd), Oldest(loc[c].todo) \in Held(ms)
    PROVE  /\ \E k \in {"idle", "fetching", "find"}, x \in Locals :
                Moves(c, k, x) /\ HandOK(k, x, th, ms, sd)
           /\ pc'[c] = "idle" => loc[c].listed \subseteq Held(ms)
<1> DEFINE y == [loc[c] EXCEPT !.todo = @ \ {Oldest(@)}]
<1>1. y \in Locals
  BY DEF Locals
<1>2. /\ y.todo = loc[c].todo \ {Oldest(loc[c].todo)} /\ y.name = loc[c].name
      /\ y.threads = loc[c].threads /\ y.listed = loc[c].listed
  BY DEF Locals
<1>3. /\ loc[c].name \in Names
      /\ \A m \in loc[c].todo : m \in DOMAIN sd /\ sd[m].thread = loc[c].name[1]
      /\ \A t \in loc[c].threads : Heard(t, sd)
      /\ loc[c].listed \subseteq loc[c].todo \cup Held(ms)
  BY DEF HandOK, StoringHand, SyncHand, Storing
<1>4. y.listed \subseteq y.todo \cup Held(ms)
  BY <1>2, <1>3
<1>5. CASE y.todo # {}
  <2>1. Moves(c, "find", y) /\ Goto(c, "find")
    BY <1>5, SetLocalsMoves DEF NextMessage
  <2>2. HandOK("find", y, th, ms, sd)
    BY <1>2, <1>3, <1>4, <1>5 DEF HandOK, StoringHand, SyncHand, ReplyHand, Storing, Acting
  <2>3. pc'[c] = "idle" => loc[c].listed \subseteq Held(ms)
    BY <2>1 DEF Moves
  <2>. QED  BY <1>1, <2>1, <2>2, <2>3
<1>6. CASE y.todo = {}
  <2>1. NextThread(c, y)
    BY <1>6 DEF NextMessage
  <2>2. y.listed \subseteq Held(ms) /\ \A t \in y.threads : Heard(t, sd)
    BY <1>2, <1>3, <1>4, <1>6
  <2>. HIDE DEF y
  <2>3. \E k \in {"idle", "fetching"}, x \in Locals :
          Moves(c, k, x) /\ HandOK(k, x, th, ms, sd)
    BY <1>1, <2>1, <2>2, NextThreadHand
  <2>. QED  BY <1>2, <2>2, <2>3
<1>. QED  BY <1>5, <1>6

-----------------------------------------------------------------------------
(* The steps that store a message. *)

LEMMA FindThreadStep ==
    ASSUME CoreInv, NEW c \in Clients, FindThread(c) PROVE CoreInv'
<1>1. /\ pc[c] = "find" /\ loc[c] \in Locals /\ UNCHANGED <<said, thread, message>>
      /\ HandOK("find", loc[c], thread, message, said)
  BY DEF FindThread, Turn, CoreInv, tables
<1>2. ASSUME NEW n \in DOMAIN thread, thread[n] = loc[c].name, Goto(c, "update"),
             SetLocals(c, [loc[c] EXCEPT !.row = n])
      PROVE  CoreInv'
  <2> DEFINE x == [loc[c] EXCEPT !.row = n]
  <2>1. n \in Nat
    BY DEF CoreInv
  <2>2. /\ x \in Locals /\ x.row = n /\ x.name = loc[c].name /\ x.todo = loc[c].todo
        /\ x.listed = loc[c].listed /\ x.threads = loc[c].threads
    BY <1>1, <2>1 DEF Locals
  <2>3. HandOK("update", x, thread, message, said)
    BY <1>1, <1>2, <2>2 DEF HandOK, StoringHand, SyncHand, ReplyHand, Storing, Acting
  <2>4. Moves(c, "update", x)
    BY <1>2, SetLocalsMoves
  <2>. QED  BY <1>1, <2>2, <2>3, <2>4, QuietStep DEF PCs
<1>3. CASE Goto(c, "create") /\ UNCHANGED loc
  <2>1. HandOK("create", loc[c], thread, message, said)
    BY <1>1 DEF HandOK, StoringHand, SyncHand, ReplyHand, Storing, Acting
  <2>2. Moves(c, "create", loc[c])
    BY <1>3, GotoMoves
  <2>. QED  BY <1>1, <2>1, <2>2, QuietStep DEF PCs
<1>. QED  BY <1>2, <1>3 DEF FindThread

LEMMA UpdateThreadStep ==
    ASSUME CoreInv, NEW c \in Clients, UpdateThread(c) PROVE CoreInv'
<1>1. /\ pc[c] = "update" /\ loc[c] \in Locals /\ UNCHANGED <<said, thread, message>>
      /\ HandOK("update", loc[c], thread, message, said)
  BY DEF UpdateThread, Turn, CoreInv, tables
<1>2. Moves(c, "findMessage", loc[c])
  BY GotoMoves DEF UpdateThread
<1>3. HandOK("findMessage", loc[c], thread, message, said)
  BY <1>1 DEF HandOK, StoringHand, SyncHand, ReplyHand, Storing, Acting
<1>. QED  BY <1>1, <1>2, <1>3, QuietStep DEF PCs

LEMMA CreateThreadStep ==
    ASSUME CoreInv, NEW c \in Clients, CreateThread(c) PROVE CoreInv'
<1> DEFINE x == [loc[c] EXCEPT !.row = Len(thread) + 1]
<1>1. /\ pc[c] = "create" /\ loc[c] \in Locals /\ UNCHANGED <<said, message>>
      /\ HandOK("create", loc[c], thread, message, said)
      /\ thread' = Append(thread, loc[c].name)
  BY DEF CreateThread, Turn, CoreInv
<1>2. Moves(c, "findMessage", x)
  BY SetLocalsMoves DEF CreateThread
<1>3. loc[c].name \in Names
  BY <1>1 DEF HandOK, StoringHand, Storing
<1>4. /\ thread' \in Seq(Names) /\ Grown(thread', thread)
      /\ Len(thread) + 1 \in DOMAIN thread' /\ thread'[Len(thread) + 1] = loc[c].name
      /\ Len(thread) + 1 \in Nat
  BY <1>1, <1>3, AppendGrown DEF CoreInv
<1>5. /\ x \in Locals /\ x.row = Len(thread) + 1 /\ x.name = loc[c].name
      /\ x.todo = loc[c].todo /\ x.listed = loc[c].listed /\ x.threads = loc[c].threads
  BY <1>1, <1>4 DEF Locals
<1>6. HandOK("findMessage", x, thread', message, said)
  BY <1>1, <1>4, <1>5 DEF HandOK, StoringHand, SyncHand, ReplyHand, Storing, Acting
<1>7. RowsOK(thread', message, said)
  BY <1>4 DEF CoreInv, RowsOK, Grown
<1>. QED  BY <1>1, <1>2, <1>4, <1>5, <1>6, <1>7, CoreStep, GrownSame DEF CoreInv, PCs

\* The message to be stored next was said, in the conversation of the thread.
LEMMA NextOne ==
    ASSUME CoreInv, NEW c \in Clients, pc[c] \in {"findMessage", "insert"}
    PROVE  /\ Oldest(loc[c].todo) \in DOMAIN said /\ loc[c].row \in DOMAIN thread
           /\ Oldest(loc[c].todo) \in Nat \ {0} /\ loc[c].row \in Nat \ {0}
           /\ thread[loc[c].row][1] = said[Oldest(loc[c].todo)].thread
<1>1. /\ loc[c].todo # {} /\ loc[c].todo \subseteq Nat \ {0}
      /\ \A m \in loc[c].todo : m \in DOMAIN said /\ said[m].thread = loc[c].name[1]
      /\ loc[c].row \in DOMAIN thread /\ thread[loc[c].row] = loc[c].name
  BY DEF CoreInv, Locals, HandOK, StoringHand, Storing
<1>2. Oldest(loc[c].todo) \in loc[c].todo
  BY <1>1, OldestIn
<1>. QED  BY <1>1, <1>2 DEF CoreInv

LEMMA FindMessageStep ==
    ASSUME CoreInv, NEW c \in Clients, FindMessage(c) PROVE CoreInv'
<1>1. /\ pc[c] = "findMessage" /\ loc[c] \in Locals /\ pc \in [Clients -> PCs]
      /\ UNCHANGED <<said, thread, message>>
      /\ HandOK("findMessage", loc[c], thread, message, said)
  BY DEF FindMessage, Turn, CoreInv, tables
<1>2. CASE Goto(c, "insert") /\ UNCHANGED loc
  <2>1. HandOK("insert", loc[c], thread, message, said)
    BY <1>1 DEF HandOK, StoringHand, SyncHand, ReplyHand, Storing, Acting
  <2>2. Moves(c, "insert", loc[c])
    BY <1>2, GotoMoves
  <2>. QED  BY <1>1, <2>1, <2>2, QuietStep DEF PCs
<1>3. CASE Stored(loc[c].row, Oldest(loc[c].todo)) /\ NextMessage(c)
  <2>1. Oldest(loc[c].todo) \in Held(message)
    BY <1>3 DEF Stored, Copies, Held
  <2>2. \E k \in {"idle", "fetching", "find"}, x \in Locals :
          Moves(c, k, x) /\ HandOK(k, x, thread, message, said)
    BY <1>1, <1>3, <2>1, NextMessageHand
  <2>. QED  BY <1>1, <2>2, QuietStep DEF PCs, Yielding
<1>. QED  BY <1>2, <1>3 DEF FindMessage

LEMMA InsertMessageStep ==
    ASSUME CoreInv, NEW c \in Clients, InsertMessage(c) PROVE CoreInv'
<1> DEFINE row == [row |-> loc[c].row, msg |-> Oldest(loc[c].todo)]
<1>1. /\ pc[c] = "insert" /\ loc[c] \in Locals /\ pc \in [Clients -> PCs]
      /\ UNCHANGED <<said, thread>> /\ message' = Append(message, row) /\ NextMessage(c)
      /\ HandOK("insert", loc[c], thread, message, said)
  BY DEF InsertMessage, Turn, CoreInv
<1>2. /\ row \in MessageRows /\ row.msg \in DOMAIN said /\ row.row \in DOMAIN thread
      /\ thread[row.row][1] = said[row.msg].thread
  BY <1>1, NextOne DEF MessageRows
<1>3. /\ message' \in Seq(MessageRows) /\ Grown(message', message)
      /\ DOMAIN message' = DOMAIN message \cup {Len(message) + 1}
      /\ message'[Len(message) + 1] = row
  BY <1>1, <1>2, AppendGrown DEF CoreInv
<1>4. RowsOK(thread, message', said)
  BY <1>2, <1>3 DEF CoreInv, RowsOK, Grown
<1>5. Oldest(loc[c].todo) \in Held(message')
  <2>1. row.msg = Oldest(loc[c].todo)
    OBVIOUS
  <2>. QED  BY <1>3, <2>1 DEF Held
<1>6. HandOK("insert", loc[c], thread, message', said)
  BY <1>1, <1>3, HandKept, GrownSame
<1>7. \E k \in {"idle", "fetching", "find"}, x \in Locals :
        Moves(c, k, x) /\ HandOK(k, x, thread, message', said)
  BY <1>1, <1>5, <1>6, NextMessageHand
<1>. QED  BY <1>1, <1>3, <1>4, <1>7, CoreStep, GrownSame DEF CoreInv, PCs, Yielding

-----------------------------------------------------------------------------
(* Webhooks and syncs. *)

LEMMA SaidAt ==
    ASSUME CoreInv, NEW m \in DOMAIN said
    PROVE  m \in Nat \ {0} /\ said[m] \in Said /\ said[m].thread \in Threads
<1>1. m \in Nat \ {0} /\ said[m] \in Said
  BY DEF CoreInv
<1>. QED  BY <1>1 DEF Said

LEMMA WebhookStep ==
    ASSUME CoreInv, NEW c \in Clients, Webhook(c) PROVE CoreInv'
<1>1. PICK m \in DOMAIN said, via \in {"webhook", "echo"} :
        SetLocals(c, [NoLocals EXCEPT !.todo = {m}, !.name = NameIn(said[m].thread, via)])
  BY DEF Webhook
<1> DEFINE x == [NoLocals EXCEPT !.todo = {m}, !.name = NameIn(said[m].thread, via)]
<1>2. m \in Nat \ {0} /\ said[m].thread \in Threads
  BY SaidAt
<1>3. /\ NameIn(said[m].thread, via) \in Names
      /\ NameIn(said[m].thread, via)[1] = said[m].thread
  BY <1>2 DEF NameIn, Names
<1>4. /\ x \in Locals /\ x.todo = {m} /\ x.name = NameIn(said[m].thread, via)
      /\ x.threads = {} /\ x.listed = {}
  BY <1>2, <1>3 DEF NoLocals, Locals
<1>5. HandOK("find", x, thread, message, said)
  BY <1>3, <1>4 DEF HandOK, StoringHand, SyncHand, ReplyHand, Storing, Acting
<1>6. Moves(c, "find", x) /\ UNCHANGED <<said, thread, message>>
  BY <1>1, SetLocalsMoves DEF Webhook, tables
<1>. HIDE DEF x
<1>. QED  BY <1>4, <1>5, <1>6, QuietStep DEF PCs

LEMMA StartSyncStep ==
    ASSUME CoreInv, NEW c \in Clients, StartSync(c) PROVE CoreInv'
<1>1. /\ Moves(c, "listing", loc[c]) /\ loc[c] \in Locals
      /\ UNCHANGED <<said, thread, message>>
  BY GotoMoves DEF StartSync, tables, CoreInv
<1>2. HandOK("listing", loc[c], thread, message, said)
  BY DEF HandOK, StoringHand, SyncHand, ReplyHand, Storing, Acting
<1>. QED  BY <1>1, <1>2, QuietStep DEF PCs, Yielding

LEMMA ListThreadsStep ==
    ASSUME CoreInv, NEW c \in Clients, ListThreads(c) PROVE CoreInv'
<1> DEFINE y == [NoLocals EXCEPT !.threads = {said[m].thread : m \in Listed}]
<1>1. NextThread(c, y) /\ UNCHANGED <<said, thread, message>>
  BY DEF ListThreads, tables
<1>2. {said[m].thread : m \in Listed} \subseteq Threads
  BY SaidAt DEF Listed
<1>3. y \in Locals /\ y.threads = {said[m].thread : m \in Listed} /\ y.listed = {}
  BY <1>2 DEF NoLocals, Locals
<1>4. \A t \in y.threads : Heard(t, said)
  BY <1>3 DEF Heard, Listed
<1>. HIDE DEF y
<1>5. \E l \in {"idle", "fetching"}, x \in Locals :
        Moves(c, l, x) /\ HandOK(l, x, thread, message, said)
  BY <1>1, <1>3, <1>4, NextThreadHand
<1>. QED  BY <1>1, <1>5, QuietStep DEF PCs, Yielding

LEMMA GetMessagesStep ==
    ASSUME CoreInv, NEW c \in Clients, GetMessages(c) PROVE CoreInv'
<1> DEFINE got == {m \in Listed : said[m].thread = loc[c].target}
           x   == [loc[c] EXCEPT !.todo = got, !.listed = @ \cup got]
<1>1. /\ pc[c] = "fetching" /\ loc[c] \in Locals /\ UNCHANGED <<said, thread, message>>
      /\ HandOK("fetching", loc[c], thread, message, said)
      /\ Goto(c, "find") /\ SetLocals(c, x)
  BY DEF GetMessages, Turn, CoreInv, tables
<1>2. got \subseteq Nat \ {0}
  BY DEF CoreInv, Listed
<1>3. /\ x \in Locals /\ x.todo = got /\ x.listed = loc[c].listed \cup got
      /\ x.name = loc[c].name /\ x.threads = loc[c].threads
  BY <1>1, <1>2 DEF Locals
<1>4. got # {}
  BY <1>1 DEF HandOK, SyncHand, Heard, Listed
<1>5. HandOK("find", x, thread, message, said)
  <2>1. StoringHand("find", x, thread, said)
    BY <1>1, <1>3, <1>4 DEF HandOK, StoringHand, SyncHand, Storing, Listed
  <2>2. SyncHand("find", x, message, said)
    BY <1>1, <1>3 DEF HandOK, SyncHand, Storing
  <2>. QED  BY <2>1, <2>2 DEF HandOK, ReplyHand, Acting
<1>. QED  BY <1>1, <1>3, <1>5, SetLocalsMoves, QuietStep DEF PCs

\* A request that fails, or ends, has nothing in hand.
LEMMA FinishStep ==
    ASSUME CoreInv, NEW c \in Clients, Finish(c), UNCHANGED <<said, thread, message>>
    PROVE  CoreInv'
BY FinishMoves, NoLocalsType, QuietStep DEF PCs, Yielding

-----------------------------------------------------------------------------
(* Replies. *)

LEMMA StartReplyStep ==
    ASSUME CoreInv, NEW c \in Clients, AskReply(c) \/ Review(c) \/ StartReply(c)
    PROVE  CoreInv'
<1>1. UNCHANGED <<said, thread, message>>
  BY DEF AskReply, Review, StartReply, tables
<1>2. CASE UNCHANGED <<pc, loc>>
  BY <1>1, <1>2, SaidStep, GrownSame DEF CoreInv
<1>3. ASSUME NEW r \in Replies, NEW l \in {"load", "approve", "reject"}, Goto(c, l),
             SetLocals(c, [NoLocals EXCEPT !.reply = r])
      PROVE  CoreInv'
  <2> DEFINE x == [NoLocals EXCEPT !.reply = r]
  <2>1. x \in Locals
    BY DEF NoLocals, Locals
  <2>2. HandOK(l, x, thread, message, said)
    BY DEF HandOK, StoringHand, SyncHand, ReplyHand, Storing, Acting
  <2>3. Moves(c, l, x)
    BY <1>3, SetLocalsMoves
  <2>. QED  BY <1>1, <2>1, <2>2, <2>3, QuietStep DEF PCs
<1>. QED  BY <1>2, <1>3 DEF AskReply, Review, StartReply

LEMMA DecideStep ==
    ASSUME CoreInv, NEW c \in Clients, Decide(c), ~Finish(c) PROVE CoreInv'
<1>1. /\ Goto(c, "load") /\ UNCHANGED loc /\ loc[c] \in Locals
      /\ UNCHANGED <<said, thread, message>>
  BY DEF Decide, tables, CoreInv
<1>2. HandOK("load", loc[c], thread, message, said)
  BY DEF HandOK, StoringHand, SyncHand, ReplyHand, Storing, Acting
<1>3. Moves(c, "load", loc[c])
  BY <1>1, GotoMoves
<1>. QED  BY <1>1, <1>2, <1>3, QuietStep DEF PCs

LEMMA LoadThreadStep ==
    ASSUME CoreInv, NEW c \in Clients, LoadThread(c) PROVE CoreInv'
<1>1. loc[c] \in Locals /\ UNCHANGED <<said, thread, message>>
  BY DEF LoadThread, CoreInv, tables
<1>2. ASSUME NEW n \in DOMAIN thread, Goto(c, "sending"),
             SetLocals(c, [loc[c] EXCEPT !.row = n, !.target = thread[n][1]])
      PROVE  CoreInv'
  <2> DEFINE x == [loc[c] EXCEPT !.row = n, !.target = thread[n][1]]
  <2>1. n \in Nat /\ thread[n] \in Names
    BY DEF CoreInv
  <2>2. thread[n][1] \in Threads
    BY <2>1 DEF Names
  <2>3. x \in Locals /\ x.row = n /\ x.target = thread[n][1]
    BY <1>1, <2>1, <2>2 DEF Locals
  <2>4. HandOK("sending", x, thread, message, said)
    BY <2>3 DEF HandOK, StoringHand, SyncHand, ReplyHand, Storing, Acting
  <2>5. Moves(c, "sending", x)
    BY <1>2, SetLocalsMoves
  <2>. QED  BY <1>1, <2>3, <2>4, <2>5, QuietStep DEF PCs, Yielding
<1>. QED  BY <1>1, <1>2, FinishStep DEF LoadThread

LEMMA AcceptReplyStep ==
    ASSUME CoreInv, NEW c \in Clients, AcceptReply(c) PROVE CoreInv'
<1> DEFINE new == [thread |-> loc[c].target, out |-> TRUE, id |-> TRUE]
           x   == [loc[c] EXCEPT !.msg = Len(said) + 1]
<1>1. /\ pc[c] = "sending" /\ loc[c] \in Locals /\ UNCHANGED <<thread, message>>
      /\ HandOK("sending", loc[c], thread, message, said)
      /\ said' = Append(said, new) /\ Goto(c, "sent") /\ SetLocals(c, x)
  BY DEF AcceptReply, CoreInv, tables
<1>2. loc[c].row \in DOMAIN thread /\ thread[loc[c].row][1] = loc[c].target
  BY <1>1 DEF HandOK, ReplyHand
<1>3. thread[loc[c].row] \in Names
  BY <1>2 DEF CoreInv
<1>4. new \in Said /\ new.out /\ new.thread = loc[c].target
  BY <1>2, <1>3 DEF Said, Names
<1>. HIDE DEF new
<1>5. /\ said' \in Seq(Said) /\ Grown(said', said)
      /\ Len(said) + 1 \in DOMAIN said' /\ said'[Len(said) + 1] = new
      /\ Len(said) + 1 \in Nat
  BY <1>1, <1>4, AppendGrown DEF CoreInv
<1>6. x \in Locals /\ x.msg = Len(said) + 1 /\ x.row = loc[c].row /\ x.target = loc[c].target
  BY <1>1, <1>5 DEF Locals
<1>7. HandOK("sent", x, thread, message, said')
  BY <1>2, <1>4, <1>5, <1>6 DEF HandOK, StoringHand, SyncHand, ReplyHand, Storing, Acting
<1>8. RowsOK(thread, message, said')
  BY <1>5 DEF CoreInv, RowsOK, Grown
<1>9. Moves(c, "sent", x)
  BY <1>1, SetLocalsMoves
<1>. QED  BY <1>1, <1>5, <1>6, <1>7, <1>8, <1>9, CoreStep, GrownSame DEF CoreInv, PCs, Yielding

LEMMA ReplyTakenStep ==
    ASSUME CoreInv, NEW c \in Clients, ReplyTaken(c) PROVE CoreInv'
<1>1. /\ pc[c] = "sent" /\ loc[c] \in Locals /\ UNCHANGED <<said, thread, message>>
      /\ HandOK("sent", loc[c], thread, message, said) /\ Moves(c, "record", loc[c])
  BY GotoMoves DEF ReplyTaken, Turn, CoreInv, tables
<1>2. HandOK("record", loc[c], thread, message, said)
  BY <1>1 DEF HandOK, StoringHand, SyncHand, ReplyHand, Storing, Acting
<1>. QED  BY <1>1, <1>2, QuietStep DEF PCs

LEMMA RecordReplyStep ==
    ASSUME CoreInv, NEW c \in Clients, RecordReply(c) PROVE CoreInv'
<1> DEFINE row == [row |-> loc[c].row, msg |-> loc[c].msg]
<1>1. /\ pc[c] = "record" /\ loc[c] \in Locals /\ UNCHANGED <<said, thread>>
      /\ HandOK("record", loc[c], thread, message, said)
      /\ message' = Append(message, row) /\ Moves(c, "touch", loc[c])
  BY GotoMoves DEF RecordReply, Turn, CoreInv
<1>2. /\ loc[c].row \in DOMAIN thread /\ loc[c].msg \in DOMAIN said
      /\ thread[loc[c].row][1] = said[loc[c].msg].thread
  BY <1>1 DEF HandOK, ReplyHand
<1>3. loc[c].row \in Nat \ {0} /\ loc[c].msg \in Nat \ {0}
  BY <1>2 DEF CoreInv
<1>4. row \in MessageRows /\ row.row = loc[c].row /\ row.msg = loc[c].msg
  BY <1>3 DEF MessageRows
<1>. HIDE DEF row
<1>5. /\ message' \in Seq(MessageRows) /\ Grown(message', message)
      /\ DOMAIN message' = DOMAIN message \cup {Len(message) + 1}
      /\ message'[Len(message) + 1] = row
  BY <1>1, <1>4, AppendGrown DEF CoreInv
<1>6. RowsOK(thread, message', said)
  BY <1>2, <1>4, <1>5 DEF CoreInv, RowsOK, Grown
<1>7. HandOK("touch", loc[c], thread, message', said)
  BY DEF HandOK, StoringHand, SyncHand, ReplyHand, Storing, Acting
<1>. QED  BY <1>1, <1>5, <1>6, <1>7, CoreStep, GrownSame DEF CoreInv, PCs

-----------------------------------------------------------------------------
(* Likes. *)

LEMMA StartActionStep ==
    ASSUME CoreInv, NEW c \in Clients, StartAction(c) PROVE CoreInv'
<1>1. PICK n \in DOMAIN thread :
        Goto(c, "acting") /\ SetLocals(c, [NoLocals EXCEPT !.target = thread[n][1]])
  BY DEF StartAction
<1> DEFINE x == [NoLocals EXCEPT !.target = thread[n][1]]
<1>2. thread[n] \in Names
  BY DEF CoreInv
<1>3. thread[n][1] \in Threads
  BY <1>2 DEF Names
<1>4. x \in Locals /\ x.target = thread[n][1]
  BY <1>3 DEF NoLocals, Locals
<1>5. HandOK("acting", x, thread, message, said)
  BY <1>3, <1>4 DEF HandOK, StoringHand, SyncHand, ReplyHand, Storing, Acting
<1>6. Moves(c, "acting", x) /\ UNCHANGED <<said, thread, message>>
  BY <1>1, SetLocalsMoves DEF StartAction, tables
<1>. QED  BY <1>4, <1>5, <1>6, QuietStep DEF PCs, Yielding

LEMMA LikeStep ==
    ASSUME CoreInv, NEW c \in Clients,
           AcceptAction(c) \/ ActionTaken(c) \/ CreateOnce(c) \/ InsertAction(c)
    PROVE  CoreInv'
<1>1. /\ pc[c] \in Acting /\ loc[c] \in Locals /\ UNCHANGED <<said, thread, message>>
      /\ loc[c].target \in Threads
  BY DEF AcceptAction, ActionTaken, CreateOnce, InsertAction, Turn, Acting, CoreInv,
         HandOK, tables
<1>2. ASSUME NEW l \in {"acted", "createOnce", "insertAction"}, Goto(c, l), UNCHANGED loc
      PROVE  CoreInv'
  <2>1. HandOK(l, loc[c], thread, message, said)
    BY <1>1 DEF HandOK, StoringHand, SyncHand, ReplyHand, Storing, Acting
  <2>2. Moves(c, l, loc[c])
    BY <1>2, GotoMoves
  <2>. QED  BY <1>1, <2>1, <2>2, QuietStep DEF PCs, Yielding
<1>. QED  BY <1>1, <1>2, FinishStep DEF AcceptAction, ActionTaken, CreateOnce, InsertAction

-----------------------------------------------------------------------------
(* What others say, crashes, and all steps. *)

LEMMA SayStep ==
    ASSUME CoreInv, Say PROVE CoreInv'
<1>1. PICK t \in Threads, i \in BOOLEAN :
        said' = Append(said, [thread |-> t, out |-> FALSE, id |-> i])
  BY DEF Say
<1>2. [thread |-> t, out |-> FALSE, id |-> i] \in Said
  BY DEF Said
<1>3. said' \in Seq(Said) /\ Grown(said', said)
  BY <1>1, <1>2, AppendGrown DEF CoreInv
<1>. QED  BY <1>3, SaidStep DEF Say, tables

LEMMA CrashStep ==
    ASSUME CoreInv, NEW h \in Hosts, Crash(h) PROVE CoreInv'
<1> DEFINE dead == {c \in Clients : HostOf[c] = h}
<1>1. /\ pc' = [c \in Clients |-> IF c \in dead THEN "idle" ELSE pc[c]]
      /\ loc' = [c \in Clients |-> IF c \in dead THEN NoLocals ELSE loc[c]]
      /\ UNCHANGED <<said, thread, message>>
  BY DEF Crash, tables
<1>2. pc' \in [Clients -> PCs] /\ loc' \in [Clients -> Locals]
  BY <1>1, NoLocalsType DEF CoreInv, PCs, Yielding
<1>3. \A d \in Clients : HandOK(pc'[d], loc'[d], thread, message, said)
  BY <1>1, NoLocalsType DEF CoreInv
<1>. QED  BY <1>1, <1>2, <1>3 DEF CoreInv

LEMMA CoreNext == CoreInv /\ [Next]_vars => CoreInv'
<1>. SUFFICES ASSUME CoreInv, [Next]_vars PROVE CoreInv'
  OBVIOUS
<1>1. ASSUME NEW c \in Clients, Store(c) PROVE CoreInv'
  BY <1>1, FindThreadStep, UpdateThreadStep, CreateThreadStep, FindMessageStep,
     InsertMessageStep DEF Store
<1>2. ASSUME NEW c \in Clients,
             \/ SyncFails(c) \/ ReplyFails(c) \/ TouchThread(c) \/ ActionFails(c)
             \/ Decide(c) /\ Finish(c)
      PROVE  CoreInv'
  BY <1>2, FinishStep DEF SyncFails, ReplyFails, TouchThread, ActionFails, Decide, tables
<1>3. ASSUME NEW c \in Clients, Receive(c) PROVE CoreInv'
  BY <1>2, <1>3, WebhookStep, StartSyncStep, ListThreadsStep, GetMessagesStep DEF Receive
<1>4. ASSUME NEW c \in Clients, Answer(c) PROVE CoreInv'
  BY <1>2, <1>4, StartReplyStep, DecideStep, LoadThreadStep, AcceptReplyStep, ReplyTakenStep,
     RecordReplyStep DEF Answer
<1>5. ASSUME NEW c \in Clients, Like(c) PROVE CoreInv'
  BY <1>2, <1>5, StartActionStep, LikeStep DEF Like
<1>6. CASE UNCHANGED vars
  BY <1>6, SaidStep, GrownSame DEF vars, tables, CoreInv
<1>. QED  BY <1>1, <1>3, <1>4, <1>5, <1>6, SayStep, CrashStep DEF Next

LEMMA CoreInit == Init => CoreInv
<1>. SUFFICES ASSUME Init PROVE CoreInv
  OBVIOUS
<1>1. /\ said \in Seq(Said) /\ thread \in Seq(Names) /\ message \in Seq(MessageRows)
      /\ RowsOK(thread, message, said)
  BY DEF Init, RowsOK
<1>2. /\ pc \in [Clients -> PCs] /\ loc \in [Clients -> Locals]
      /\ \A c \in Clients : HandOK(pc[c], loc[c], thread, message, said)
  BY NoLocalsType DEF Init, PCs, Yielding
<1>. QED  BY <1>1, <1>2 DEF CoreInv

-----------------------------------------------------------------------------
(* The types of the rest. *)

RestTypes ==
    /\ reply \in [Replies -> {"none", "direct", "pending", "approved", "rejected"}]
    /\ sent \in [Replies -> Nat]
    /\ action \subseteq Threads
    /\ acted \in [Threads -> Nat] /\ lost \in [Threads -> Nat]
    /\ faults \in Nat

LEMMA CountType ==
    ASSUME NEW S, NEW f \in [S -> Nat], NEW k
    PROVE  [f EXCEPT ![k] = @ + 1] \in [S -> Nat]
<1>1. \A j \in S : f[j] + 1 \in Nat
  OBVIOUS
<1>2. \A j \in S : [f EXCEPT ![k] = @ + 1][j] \in Nat
  BY <1>1
<1>. QED  BY <1>2

LEMMA RestNext == CoreInv /\ RestTypes /\ [Next]_vars => RestTypes'
<1>. SUFFICES ASSUME CoreInv, RestTypes, [Next]_vars PROVE RestTypes'
  OBVIOUS
<1>1. CASE UNCHANGED <<outbox, likes, faults>>
  BY <1>1 DEF RestTypes, outbox, likes
<1>2. CASE \E c \in Clients : SyncFails(c) \/ ReplyFails(c)
  BY <1>2 DEF SyncFails, ReplyFails, Fail, RestTypes, outbox, likes
<1>3. CASE \E c \in Clients : AskReply(c) \/ Decide(c) \/ StartReply(c)
  BY <1>3 DEF AskReply, Decide, StartReply, RestTypes, likes
<1>4. ASSUME NEW c \in Clients, AcceptReply(c) PROVE RestTypes'
  <2>1. /\ sent' = [sent EXCEPT ![loc[c].reply] = @ + 1]
        /\ UNCHANGED <<reply, likes, faults>>
    BY <1>4 DEF AcceptReply
  <2>2. sent' \in [Replies -> Nat]
    BY <2>1, CountType DEF RestTypes
  <2>. QED  BY <2>1, <2>2 DEF RestTypes, likes
<1>5. ASSUME NEW c \in Clients, AcceptAction(c) PROVE RestTypes'
  <2>1. /\ acted' = [acted EXCEPT ![loc[c].target] = @ + 1]
        /\ UNCHANGED <<outbox, action, lost, faults>>
    BY <1>5 DEF AcceptAction
  <2>2. acted' \in [Threads -> Nat]
    BY <2>1, CountType DEF RestTypes
  <2>. QED  BY <2>1, <2>2 DEF RestTypes, outbox
<1>6. ASSUME NEW c \in Clients, ActionFails(c) \/ CreateOnce(c) \/ InsertAction(c)
      PROVE  RestTypes'
  <2>1. lost' \in [Threads -> Nat]
    BY <1>6, CountType DEF ActionFails, CreateOnce, InsertAction, RestTypes
  <2>2. action' \subseteq Threads
    BY <1>6 DEF ActionFails, CreateOnce, InsertAction, Turn, RestTypes, CoreInv, HandOK, Acting
  <2>3. /\ UNCHANGED <<outbox, acted>>
        /\ faults' \in Nat
    BY <1>6 DEF ActionFails, CreateOnce, InsertAction, Fail, RestTypes
  <2>. QED  BY <2>1, <2>2, <2>3 DEF RestTypes, outbox
<1>7. ASSUME NEW h \in Hosts, Crash(h) PROVE RestTypes'
  <2> DEFINE gone(t) == {c \in {d \in Clients : HostOf[d] = h} :
                           pc[c] \in {"acted", "createOnce", "insertAction"}
                           /\ loc[c].target = t}
  <2>1. /\ lost' = [t \in Threads |-> lost[t] + Cardinality(gone(t))]
        /\ faults' = faults + 1 /\ UNCHANGED <<outbox, action, acted>>
    BY <1>7 DEF Crash, Fail
  <2>2. ASSUME NEW t \in Threads PROVE lost[t] + Cardinality(gone(t)) \in Nat
    <3>1. Cardinality(gone(t)) \in Nat
      BY InboxAssumption, FS_Subset, FS_CardinalityType
    <3>2. lost[t] \in Nat
      BY DEF RestTypes
    <3>. QED  BY <3>1, <3>2
  <2>3. lost' \in [Threads -> Nat]
    BY <2>1, <2>2
  <2>. QED  BY <2>1, <2>3 DEF RestTypes, outbox
<1>8. ASSUME NEW c \in Clients,
             \/ Store(c) \/ Webhook(c) \/ StartSync(c) \/ ListThreads(c) \/ GetMessages(c)
             \/ Review(c) \/ LoadThread(c) \/ ReplyTaken(c) \/ RecordReply(c) \/ TouchThread(c)
             \/ StartAction(c) \/ ActionTaken(c)
      PROVE  RestTypes'
  <2>1. Store(c) => UNCHANGED <<outbox, likes, faults>>
    BY DEF Store, FindThread, UpdateThread, CreateThread, FindMessage, InsertMessage
  <2>2. Webhook(c) \/ StartSync(c) \/ ListThreads(c) \/ GetMessages(c)
          => UNCHANGED <<outbox, likes, faults>>
    BY DEF Webhook, StartSync, ListThreads, GetMessages
  <2>3. Review(c) \/ LoadThread(c) \/ ReplyTaken(c) \/ RecordReply(c) \/ TouchThread(c)
          => UNCHANGED <<outbox, likes, faults>>
    BY DEF Review, LoadThread, ReplyTaken, RecordReply, TouchThread
  <2>4. StartAction(c) \/ ActionTaken(c) => UNCHANGED <<outbox, likes, faults>>
    BY DEF StartAction, ActionTaken
  <2>. QED  BY <1>1, <1>8, <2>1, <2>2, <2>3, <2>4
<1>9. CASE Say \/ UNCHANGED vars
  BY <1>1, <1>9 DEF Say, vars, outbox, likes
<1>10. ASSUME NEW c \in Clients, Store(c) \/ Receive(c) \/ Answer(c) \/ Like(c)
       PROVE  RestTypes'
  BY <1>2, <1>3, <1>4, <1>5, <1>6, <1>8, <1>10 DEF Receive, Answer, Like
<1>. QED  BY <1>7, <1>9, <1>10 DEF Next

InboxInv == CoreInv /\ RestTypes

LEMMA InboxInvariant == Spec => []InboxInv
<1>1. Init => RestTypes
  BY InboxAssumption DEF Init, RestTypes
<1>2. Init => InboxInv
  BY <1>1, CoreInit DEF InboxInv
<1>3. InboxInv /\ [Next]_vars => InboxInv'
  BY CoreNext, RestNext DEF InboxInv
<1>. QED  BY <1>2, <1>3, PTL DEF Spec

\* Every variable keeps its type.
THEOREM InboxTypeCorrect == Spec => []TypeOK
<1>1. InboxInv => TypeOK
  BY DEF InboxInv, CoreInv, RestTypes, TypeOK
<1>. QED  BY <1>1, InboxInvariant, PTL

-----------------------------------------------------------------------------
(* Who moves: a step of one request leaves the others where they are. *)

Step(c) == Store(c) \/ Receive(c) \/ Answer(c) \/ Like(c)

LEMMA NextMessageFrame ==
    ASSUME CoreInv, NEW c \in Clients, NextMessage(c) \/ (\E y : NextThread(c, y))
    PROVE  /\ \A d \in Clients \ {c} : pc'[d] = pc[d] /\ loc'[d] = loc[d]
           /\ pc'[c] \in {"idle", "fetching", "find"}
<1>1. \E l, x : l \in {"idle", "fetching", "find"} /\ Goto(c, l) /\ SetLocals(c, x)
  BY DEF NextMessage, NextThread, Finish
<1>. QED  BY <1>1 DEF Goto, SetLocals, CoreInv

LEMMA Frame ==
    ASSUME CoreInv, NEW c \in Clients, Step(c)
    PROVE  \A d \in Clients \ {c} : pc'[d] = pc[d] /\ loc'[d] = loc[d]
<1>. USE DEF CoreInv, Goto, SetLocals, Finish
<1>1. CASE Store(c)
  BY <1>1, NextMessageFrame
     DEF Store, FindThread, UpdateThread, CreateThread, FindMessage, InsertMessage
<1>2. CASE Receive(c)
  BY <1>2, NextMessageFrame DEF Receive, Webhook, StartSync, ListThreads, GetMessages, SyncFails
<1>3. CASE Answer(c)
  <2>1. CASE AskReply(c) \/ Review(c) \/ Decide(c) \/ StartReply(c) \/ LoadThread(c)
    BY <2>1 DEF AskReply, Review, Decide, StartReply, LoadThread
  <2>2. CASE AcceptReply(c) \/ ReplyTaken(c) \/ ReplyFails(c) \/ RecordReply(c) \/ TouchThread(c)
    BY <2>2 DEF AcceptReply, ReplyTaken, ReplyFails, RecordReply, TouchThread
  <2>. QED  BY <1>3, <2>1, <2>2 DEF Answer
<1>4. CASE Like(c)
  BY <1>4 DEF Like, StartAction, AcceptAction, ActionTaken, ActionFails, CreateOnce, InsertAction
<1>. QED  BY <1>1, <1>2, <1>3, <1>4 DEF Step

\* A request that leaves the tables alone owes them no insert afterwards.
LEMMA OtherSteps ==
    ASSUME CoreInv, NEW c \in Clients, Receive(c) \/ Answer(c) \/ Like(c)
    PROVE  pc'[c] \notin {"create", "insert"} /\ pc[c] \notin {"findMessage", "insert"}
<1>. USE DEF CoreInv, Goto, Finish, Turn, Offered
<1>1. CASE Receive(c)
  <2>1. CASE Webhook(c) \/ StartSync(c) \/ GetMessages(c) \/ SyncFails(c)
    BY <2>1 DEF Webhook, StartSync, GetMessages, SyncFails
  <2>2. CASE ListThreads(c)
    BY <2>2, NextMessageFrame DEF ListThreads
  <2>. QED  BY <1>1, <2>1, <2>2 DEF Receive
<1>2. CASE Answer(c)
  <2>1. CASE AskReply(c) \/ Review(c) \/ Decide(c) \/ StartReply(c) \/ LoadThread(c)
    BY <2>1 DEF AskReply, Review, Decide, StartReply, LoadThread
  <2>2. CASE AcceptReply(c) \/ ReplyTaken(c) \/ ReplyFails(c) \/ RecordReply(c) \/ TouchThread(c)
    BY <2>2 DEF AcceptReply, ReplyTaken, ReplyFails, RecordReply, TouchThread
  <2>. QED  BY <1>2, <2>1, <2>2 DEF Answer
<1>3. CASE Like(c)
  <2>1. CASE StartAction(c) \/ AcceptAction(c) \/ ActionTaken(c)
    BY <2>1 DEF StartAction, AcceptAction, ActionTaken
  <2>2. CASE ActionFails(c) \/ CreateOnce(c) \/ InsertAction(c)
    BY <2>2 DEF ActionFails, CreateOnce, InsertAction
  <2>. QED  BY <1>3, <2>1, <2>2 DEF Like
<1>. QED  BY <1>1, <1>2, <1>3

\* When a sync is answered, every message it was given is in the inbox, whatever
\* requests, webhooks, crashes and processes there are.
THEOREM SyncsComplete == Spec => SyncComplete
<1> DEFINE Answered(c) == pc[c] \in {"findMessage", "insert"} /\ pc'[c] = "idle"
                          /\ faults' = faults =>
             \A m \in loc[c].listed : \E i \in DOMAIN message' : message'[i].msg = m
<1>1. ASSUME InboxInv, [Next]_vars, NEW c \in Clients PROVE Answered(c)
  <2>. SUFFICES ASSUME pc[c] \in {"findMessage", "insert"}, pc'[c] = "idle",
                       faults' = faults
                PROVE  loc[c].listed \subseteq Held(message')
    BY DEF Held
  <2>1. CoreInv /\ faults \in Nat /\ pc[c] # pc'[c]
    BY <1>1 DEF InboxInv, RestTypes
  <2>2. PICK d \in Clients : Step(d)
    BY <1>1, <2>1 DEF Next, Step, Say, Crash, Fail, vars
  <2>3. d = c /\ Store(c)
    BY <2>1, <2>2, Frame, OtherSteps DEF Step
  <2>4. FindMessage(c) \/ InsertMessage(c)
    BY <2>3 DEF Store, FindThread, UpdateThread, CreateThread, Turn
  <2>5. /\ loc[c] \in Locals /\ pc \in [Clients -> PCs]
        /\ HandOK(pc[c], loc[c], thread, message, said)
    BY <2>1 DEF CoreInv
  <2>6. CASE FindMessage(c)
    <3>1. NextMessage(c) /\ Stored(loc[c].row, Oldest(loc[c].todo)) /\ UNCHANGED message
      BY <2>1, <2>6 DEF FindMessage, Goto, CoreInv, tables
    <3>2. Oldest(loc[c].todo) \in Held(message)
      BY <3>1 DEF Stored, Copies, Held
    <3>3. HandOK("findMessage", loc[c], thread, message, said)
      BY <2>5, <2>6 DEF FindMessage, Turn
    <3>4. loc[c].listed \subseteq Held(message)
      BY <2>5, <3>1, <3>2, <3>3, NextMessageHand
    <3>. QED  BY <3>1, <3>4
  <2>7. CASE InsertMessage(c)
    <3> DEFINE row == [row |-> loc[c].row, msg |-> Oldest(loc[c].todo)]
    <3>1. NextMessage(c) /\ message' = Append(message, row)
      BY <2>7 DEF InsertMessage
    <3>2. row \in MessageRows /\ row.msg = Oldest(loc[c].todo)
      BY <2>1, NextOne DEF MessageRows
    <3>. HIDE DEF row
    <3>3. /\ Grown(message', message) /\ Len(message) + 1 \in DOMAIN message'
          /\ message'[Len(message) + 1] = row
      BY <2>1, <3>1, <3>2, AppendGrown DEF CoreInv
    <3>4. Oldest(loc[c].todo) \in Held(message')
      BY <3>2, <3>3 DEF Held
    <3>5. HandOK("insert", loc[c], thread, message, said)
      BY <2>5, <2>7 DEF InsertMessage, Turn
    <3>6. HandOK("insert", loc[c], thread, message', said)
      BY <3>3, <3>5, HandKept, GrownSame
    <3>. QED  BY <2>5, <3>1, <3>4, <3>6, NextMessageHand
  <2>. QED  BY <2>4, <2>6, <2>7
<1>2. InboxInv /\ [Next]_vars => [\A c \in Clients : Answered(c)]_vars
  BY <1>1
<1>. QED  BY <1>2, InboxInvariant, PTL DEF Spec, SyncComplete

-----------------------------------------------------------------------------
(* One process: what a lookup found missing is still missing at the insert. *)

OneProcess == \A c, d \in Clients : HostOf[c] = HostOf[d]

FreshOK(l, x, th, ms, sd) ==
    /\ l = "create" => \A n \in DOMAIN th : th[n] # x.name
    /\ l = "insert" /\ sd[Oldest(x.todo)].id =>
         \A i \in DOMAIN ms : ~(ms[i].row = x.row /\ ms[i].msg = Oldest(x.todo))

UniqueOK(th, ms, sd) ==
    /\ \A n, k \in DOMAIN th : th[n] = th[k] => n = k
    /\ \A i, j \in DOMAIN ms :
         /\ ms[i].row = ms[j].row /\ ms[i].msg = ms[j].msg
         /\ sd[ms[i].msg].id /\ ~sd[ms[i].msg].out
         => i = j

AloneInv ==
    /\ UniqueOK(thread, message, said)
    /\ \A c \in Clients : FreshOK(pc[c], loc[c], thread, message, said)

\* Something more was said.
LEMMA UniqueKept ==
    ASSUME CoreInv, AloneInv, Grown(said', said), UNCHANGED <<thread, message>>
    PROVE  UniqueOK(thread', message', said')
BY DEF CoreInv, RowsOK, AloneInv, UniqueOK, Grown

LEMMA FreshKept ==
    ASSUME CoreInv, AloneInv, NEW c \in Clients, Grown(said', said)
    PROVE  FreshOK(pc[c], loc[c], thread, message, said')
<1>1. FreshOK(pc[c], loc[c], thread, message, said)
  BY DEF AloneInv
<1>2. pc[c] = "insert" => Oldest(loc[c].todo) \in DOMAIN said
  BY NextOne
<1>. QED  BY <1>1, <1>2 DEF FreshOK, Grown

\* The tables stay; the request that moves has looked for what it will insert.
LEMMA FreshStep ==
    ASSUME CoreInv, AloneInv, NEW c \in Clients, Step(c), UNCHANGED <<thread, message>>,
           Grown(said', said), FreshOK(pc'[c], loc'[c], thread, message, said')
    PROVE  AloneInv'
<1>1. ASSUME NEW d \in Clients PROVE FreshOK(pc'[d], loc'[d], thread', message', said')
  <2>1. CASE d = c
    BY <2>1
  <2>2. CASE d # c
    BY <2>2, Frame, FreshKept
  <2>. QED  BY <2>1, <2>2
<1>. QED  BY <1>1, UniqueKept DEF AloneInv

\* A table changes while every other request waits for the platform.
LEMMA AloneStep ==
    ASSUME CoreInv, AloneInv, OneProcess, NEW c \in Clients, NEW l, Turn(c, l), Step(c),
           pc'[c] \notin {"create", "insert"}, UniqueOK(thread', message', said')
    PROVE  AloneInv'
<1>1. ASSUME NEW d \in Clients PROVE FreshOK(pc'[d], loc'[d], thread', message', said')
  <2>1. CASE d = c
    BY <2>1 DEF FreshOK
  <2>2. CASE d # c
    <3>1. pc[d] \in Yielding
      BY <2>2 DEF OneProcess, Turn
    <3>2. pc'[d] \in Yielding
      BY <2>2, <3>1, Frame
    <3>. QED  BY <3>2 DEF FreshOK, Yielding
  <2>. QED  BY <2>1, <2>2
<1>. QED  BY <1>1 DEF AloneInv

LEMMA StoreAlone ==
    ASSUME CoreInv, AloneInv, OneProcess, NEW c \in Clients, Store(c)
    PROVE  AloneInv'
<1>1. Step(c) /\ loc[c] \in Locals /\ FreshOK(pc[c], loc[c], thread, message, said)
  BY DEF Step, CoreInv, AloneInv
<1>2. CASE FindThread(c)
  <2>1. UNCHANGED <<said, thread, message>>
    BY <1>2 DEF FindThread, tables
  <2>2. FreshOK(pc'[c], loc'[c], thread, message, said)
    <3>1. CASE Goto(c, "update")
      BY <3>1 DEF Goto, CoreInv, FreshOK
    <3>2. CASE /\ \A n \in DOMAIN thread : thread[n] # loc[c].name
               /\ Goto(c, "create") /\ UNCHANGED loc
      BY <3>2 DEF Goto, CoreInv, FreshOK
    <3>. QED  BY <1>2, <3>1, <3>2 DEF FindThread
  <2>. QED  BY <1>1, <2>1, <2>2, FreshStep, GrownSame
<1>3. CASE UpdateThread(c)
  <2>1. UNCHANGED <<said, thread, message>> /\ pc'[c] = "findMessage"
    BY <1>3 DEF UpdateThread, tables, Goto, CoreInv
  <2>2. FreshOK(pc'[c], loc'[c], thread, message, said)
    BY <2>1 DEF FreshOK
  <2>. QED  BY <1>1, <2>1, <2>2, FreshStep, GrownSame
<1>4. CASE CreateThread(c)
  <2>1. /\ Turn(c, "create") /\ pc'[c] = "findMessage" /\ UNCHANGED <<said, message>>
        /\ thread' = Append(thread, loc[c].name)
        /\ HandOK("create", loc[c], thread, message, said)
    BY <1>4 DEF CreateThread, Goto, CoreInv, Turn
  <2>2. loc[c].name \in Names
    BY <2>1 DEF HandOK, StoringHand, Storing
  <2>3. /\ Grown(thread', thread) /\ DOMAIN thread' = DOMAIN thread \cup {Len(thread) + 1}
        /\ thread'[Len(thread) + 1] = loc[c].name
    BY <2>1, <2>2, AppendGrown DEF CoreInv
  <2>4. \A n \in DOMAIN thread : thread[n] # loc[c].name
    BY <1>1, <2>1 DEF FreshOK, Turn
  <2>5. \A n, k \in DOMAIN thread' : thread'[n] = thread'[k] => n = k
    BY <2>3, <2>4 DEF AloneInv, UniqueOK, Grown
  <2>6. UniqueOK(thread', message', said')
    BY <2>1, <2>5 DEF AloneInv, UniqueOK
  <2>. QED  BY <1>1, <2>1, <2>6, AloneStep
<1>5. CASE FindMessage(c)
  <2>1. UNCHANGED <<said, thread, message>>
    BY <1>5 DEF FindMessage, tables
  <2>2. FreshOK(pc'[c], loc'[c], thread, message, said)
    <3>1. CASE NextMessage(c)
      <4>1. pc'[c] \in {"idle", "fetching", "find"}
        BY <3>1, NextMessageFrame
      <4>. QED  BY <4>1 DEF FreshOK
    <3>2. CASE /\ said[Oldest(loc[c].todo)].id => ~Stored(loc[c].row, Oldest(loc[c].todo))
               /\ Goto(c, "insert") /\ UNCHANGED loc
      BY <3>2 DEF Goto, CoreInv, FreshOK, Stored, Copies
    <3>. QED  BY <1>5, <3>1, <3>2 DEF FindMessage, tables
  <2>. QED  BY <1>1, <2>1, <2>2, FreshStep, GrownSame
<1>6. CASE InsertMessage(c)
  <2> DEFINE row == [row |-> loc[c].row, msg |-> Oldest(loc[c].todo)]
  <2>1. /\ Turn(c, "insert") /\ pc[c] = "insert" /\ NextMessage(c)
        /\ UNCHANGED <<said, thread>> /\ message' = Append(message, row)
    BY <1>6 DEF InsertMessage, Turn
  <2>2. /\ row \in MessageRows /\ row.row = loc[c].row /\ row.msg = Oldest(loc[c].todo)
    BY <2>1, NextOne DEF MessageRows
  <2>3. said[row.msg].id =>
          \A i \in DOMAIN message : ~(message[i].row = row.row /\ message[i].msg = row.msg)
    BY <1>1, <2>1, <2>2 DEF FreshOK
  <2>. HIDE DEF row
  <2>4. /\ Grown(message', message)
        /\ DOMAIN message' = DOMAIN message \cup {Len(message) + 1}
        /\ message'[Len(message) + 1] = row
    BY <2>1, <2>2, AppendGrown DEF CoreInv
  <2>5. UniqueOK(thread', message', said')
    BY <2>1, <2>3, <2>4 DEF AloneInv, UniqueOK, Grown
  <2>6. pc'[c] \in {"idle", "fetching", "find"}
    BY <2>1, NextMessageFrame
  <2>. QED  BY <1>1, <2>1, <2>5, <2>6, AloneStep
<1>. QED  BY <1>2, <1>3, <1>4, <1>5, <1>6 DEF Store

LEMMA OtherAlone ==
    ASSUME CoreInv, AloneInv, OneProcess, NEW c \in Clients, Receive(c) \/ Answer(c) \/ Like(c)
    PROVE  AloneInv'
<1>1. Step(c) /\ pc'[c] \notin {"create", "insert"}
  BY OtherSteps DEF Step
<1>2. FreshOK(pc'[c], loc'[c], thread, message, said')
  BY <1>1 DEF FreshOK
<1>3. CASE UNCHANGED <<said, thread, message>>
  BY <1>1, <1>2, <1>3, FreshStep, GrownSame
<1>4. CASE AcceptReply(c)
  <2>1. UNCHANGED <<thread, message>>
    BY <1>4 DEF AcceptReply, tables
  <2>2. Grown(said', said)
    BY <1>4 DEF AcceptReply, CoreInv, Grown
  <2>. QED  BY <1>1, <1>2, <2>1, <2>2, FreshStep
<1>5. CASE RecordReply(c)
  <2> DEFINE row == [row |-> loc[c].row, msg |-> loc[c].msg]
  <2>1. /\ Turn(c, "record") /\ pc[c] = "record" /\ UNCHANGED <<said, thread>>
        /\ message' = Append(message, row)
        /\ HandOK("record", loc[c], thread, message, said)
    BY <1>5 DEF RecordReply, Turn, CoreInv
  <2>2. /\ loc[c].row \in DOMAIN thread /\ loc[c].msg \in DOMAIN said
        /\ said[loc[c].msg].out
    BY <2>1 DEF HandOK, ReplyHand
  <2>3. row \in MessageRows /\ row.msg = loc[c].msg
    BY <2>2 DEF MessageRows, CoreInv
  <2>. HIDE DEF row
  <2>4. /\ Grown(message', message)
        /\ DOMAIN message' = DOMAIN message \cup {Len(message) + 1}
        /\ message'[Len(message) + 1] = row
    BY <2>1, <2>3, AppendGrown DEF CoreInv
  <2>5. UniqueOK(thread', message', said')
    BY <2>1, <2>2, <2>3, <2>4 DEF AloneInv, UniqueOK, Grown
  <2>. QED  BY <1>1, <2>1, <2>5, AloneStep
<1>6. Receive(c) \/ Like(c) => UNCHANGED <<said, thread, message>>
  BY DEF Receive, Webhook, StartSync, ListThreads, GetMessages, SyncFails, Like, StartAction,
         AcceptAction, ActionTaken, ActionFails, CreateOnce, InsertAction, tables
<1>7. Answer(c) => \/ UNCHANGED <<said, thread, message>>
                   \/ AcceptReply(c) \/ RecordReply(c)
  BY DEF Answer, AskReply, Review, Decide, StartReply, LoadThread, ReplyTaken, ReplyFails,
         TouchThread, tables
<1>. QED  BY <1>3, <1>4, <1>5, <1>6, <1>7

LEMMA AloneNext == ASSUME OneProcess PROVE CoreInv /\ AloneInv /\ [Next]_vars => AloneInv'
<1>. SUFFICES ASSUME CoreInv, AloneInv, [Next]_vars PROVE AloneInv'
  OBVIOUS
<1>1. CASE Say \/ UNCHANGED vars
  <2>1. UNCHANGED <<thread, message, pc, loc>>
    BY <1>1 DEF Say, vars, tables
  <2>2. Grown(said', said)
    <3>1. ASSUME NEW t \in Threads, NEW i \in BOOLEAN,
                 said' = Append(said, [thread |-> t, out |-> FALSE, id |-> i])
          PROVE  Grown(said', said)
      <4>1. [thread |-> t, out |-> FALSE, id |-> i] \in Said
        BY DEF Said
      <4>. QED  BY <3>1, <4>1, AppendGrown DEF CoreInv
    <3>. QED  BY <1>1, <3>1, GrownSame DEF Say, vars
  <2>3. UniqueOK(thread', message', said')
    BY <2>1, <2>2, UniqueKept
  <2>4. \A d \in Clients : FreshOK(pc'[d], loc'[d], thread', message', said')
    BY <2>1, <2>2, FreshKept
  <2>. QED  BY <2>3, <2>4 DEF AloneInv
<1>2. ASSUME NEW h \in Hosts, Crash(h) PROVE AloneInv'
  <2>1. UNCHANGED <<said, thread, message>>
    BY <1>2 DEF Crash, tables
  <2>2. \A d \in Clients : \/ pc'[d] = "idle"
                           \/ pc'[d] = pc[d] /\ loc'[d] = loc[d]
    BY <1>2 DEF Crash
  <2>3. \A d \in Clients : FreshOK(pc'[d], loc'[d], thread, message, said)
    BY <2>2 DEF AloneInv, FreshOK
  <2>. QED  BY <2>1, <2>3 DEF AloneInv
<1>. QED  BY <1>1, <1>2, StoreAlone, OtherAlone DEF Next

\* Webhooks, repeated, late and together with syncs, leave one thread per name of
\* a conversation and in it one row for a message of others that has an id, when
\* one process serves them: the lookups and inserts of one message are not
\* interleaved with another's.  What has no id has a row per webhook.
THEOREM StoredOnce == ASSUME OneProcess PROVE Spec => []InboundOnce
<1>1. Init => AloneInv
  <2>. SUFFICES ASSUME Init PROVE AloneInv
    OBVIOUS
  <2>1. UniqueOK(thread, message, said)
    BY DEF Init, UniqueOK
  <2>2. \A c \in Clients : FreshOK(pc[c], loc[c], thread, message, said)
    BY DEF Init, FreshOK
  <2>. QED  BY <2>1, <2>2 DEF AloneInv
<1>2. InboxInv => CoreInv
  BY DEF InboxInv
<1>3. CoreInv /\ AloneInv => InboundOnce
  <2>. SUFFICES ASSUME CoreInv, AloneInv PROVE InboundOnce
    OBVIOUS
  <2>1. \A n, k \in DOMAIN thread : thread[n] = thread[k] => n = k
    BY DEF AloneInv, UniqueOK
  <2>2. \A m \in DOMAIN said : said[m].id /\ ~said[m].out =>
          \A i, j \in Copies(m) : message[i].row = message[j].row => i = j
    BY DEF AloneInv, UniqueOK, Copies
  <2>3. \A i \in DOMAIN message : thread[message[i].row][1] = said[message[i].msg].thread
    BY DEF CoreInv, RowsOK
  <2>. QED  BY <2>1, <2>2, <2>3 DEF InboundOnce
<1>4. CoreInv /\ AloneInv /\ [Next]_vars => AloneInv'
  BY AloneNext
<1>. QED  BY <1>1, <1>2, <1>3, <1>4, InboxInvariant, PTL DEF Spec

-----------------------------------------------------------------------------
(* Who sends a reply: one request at most, and only before it was sent.  A  *)
(* request under review is pending: one process serves the requests.       *)

Allowed == {"direct", "approved"}

Sends(c, r) == pc[c] \in {"load", "sending"} /\ loc[c].reply = r

Reviews(c)  == pc[c] \in {"approve", "reject"}

SendInv ==
    \A r \in Replies :
      /\ sent[r] \in {0, 1}
      /\ sent[r] = 1 => reply[r] \in Allowed
      /\ \A c \in Clients : Sends(c, r) => sent[r] = 0 /\ reply[r] \in Allowed
      /\ \A c, d \in Clients : Sends(c, r) /\ Sends(d, r) => c = d

ReviewInv ==
    \A c \in Clients : Reviews(c) => loc[c].reply \in Replies /\ reply[loc[c].reply] = "pending"

\* While a request is under review, its process does nothing else.
LEMMA ReviewNext ==
    ASSUME OneProcess
    PROVE  CoreInv /\ RestTypes /\ ReviewInv /\ [Next]_vars => ReviewInv'
<1>. SUFFICES ASSUME CoreInv, RestTypes, ReviewInv, [Next]_vars PROVE ReviewInv'
  OBVIOUS
<1>1. ASSUME NEW c \in Clients, UNCHANGED reply,
             \A d \in Clients \ {c} : Reviews(d)' => Reviews(d) /\ loc'[d] = loc[d],
             Reviews(c)' => \/ Reviews(c) /\ loc'[c] = loc[c]
                            \/ loc'[c].reply \in Replies /\ reply[loc'[c].reply] = "pending"
      PROVE  ReviewInv'
  BY <1>1 DEF ReviewInv
<1>2. ASSUME NEW c \in Clients, NEW l, Turn(c, l), Step(c), ~Reviews(c)' PROVE ReviewInv'
  <2>1. \A d \in Clients \ {c} : ~Reviews(d)'
    BY <1>2, Frame DEF OneProcess, Turn, Reviews, Yielding
  <2>. QED  BY <1>2, <2>1 DEF ReviewInv
<1>3. ASSUME NEW c \in Clients, Step(c), UNCHANGED reply, ~Reviews(c)' PROVE ReviewInv'
  BY <1>1, <1>3, Frame DEF Reviews
<1>. USE DEF Goto, SetLocals, Finish
<1>4. ASSUME NEW c \in Clients, Review(c) PROVE ReviewInv'
  <2>1. Step(c) /\ UNCHANGED reply
    BY <1>4 DEF Step, Answer, Review, outbox
  <2>2. PICK r \in Replies : reply[r] = "pending" /\ loc' = [loc EXCEPT ![c] = [NoLocals EXCEPT !.reply = r]]
    BY <1>4 DEF Review
  <2>3. loc'[c].reply = r
    BY <2>2 DEF CoreInv, NoLocals
  <2>. QED  BY <1>1, <2>1, <2>2, <2>3, Frame DEF Reviews
<1>5. ASSUME NEW c \in Clients, AskReply(c) \/ Decide(c) \/ StartReply(c) PROVE ReviewInv'
  <2>1. Step(c) /\ ~Reviews(c)' /\ \E l : Turn(c, l)
    BY <1>5 DEF Step, Answer, AskReply, Decide, StartReply, Offered, Turn, Reviews, CoreInv
  <2>. QED  BY <1>2, <2>1
<1>6. ASSUME NEW c \in Clients, Store(c) \/ Receive(c) PROVE ReviewInv'
  <2>1. UNCHANGED reply /\ ~Reviews(c)'
    <3>1. CASE Store(c)
      BY <3>1, NextMessageFrame
         DEF Store, FindThread, UpdateThread, CreateThread, FindMessage, InsertMessage, CoreInv,
             Reviews, outbox
    <3>2. CASE Receive(c)
      BY <3>2, NextMessageFrame
         DEF Receive, Webhook, StartSync, ListThreads, GetMessages, SyncFails, CoreInv,
             Reviews, outbox
    <3>. QED  BY <1>6, <3>1, <3>2
  <2>. QED  BY <1>3, <1>6, <2>1 DEF Step
<1>7. ASSUME NEW c \in Clients, Like(c) PROVE ReviewInv'
  <2>1. UNCHANGED reply /\ ~Reviews(c)'
    BY <1>7 DEF Like, StartAction, AcceptAction, ActionTaken, ActionFails, CreateOnce,
       InsertAction, CoreInv, Reviews, outbox
  <2>. QED  BY <1>3, <1>7, <2>1 DEF Step
<1>8. ASSUME NEW c \in Clients,
             \/ LoadThread(c) \/ AcceptReply(c) \/ ReplyTaken(c) \/ ReplyFails(c)
             \/ RecordReply(c) \/ TouchThread(c)
      PROVE  ReviewInv'
  <2>1. UNCHANGED reply /\ ~Reviews(c)'
    BY <1>8 DEF LoadThread, AcceptReply, ReplyTaken, ReplyFails, RecordReply, TouchThread,
       CoreInv, Reviews, outbox
  <2>. QED  BY <1>3, <1>8, <2>1 DEF Step, Answer
<1>9. CASE Say \/ UNCHANGED vars
  BY <1>9 DEF Say, vars, outbox, ReviewInv, Reviews
<1>10. ASSUME NEW h \in Hosts, Crash(h) PROVE ReviewInv'
  <2>1. UNCHANGED reply /\ \A d \in Clients : Reviews(d)' => Reviews(d) /\ loc'[d] = loc[d]
    BY <1>10 DEF Crash, Reviews, outbox
  <2>. QED  BY <2>1 DEF ReviewInv
<1>11. ASSUME NEW c \in Clients, Answer(c) PROVE ReviewInv'
  BY <1>4, <1>5, <1>8, <1>11 DEF Answer
<1>. QED  BY <1>6, <1>7, <1>9, <1>10, <1>11 DEF Next

\* A request that does not begin to send leaves it as it was.
LEMMA SendQuiet ==
    ASSUME CoreInv, SendInv, NEW c \in Clients, Step(c), UNCHANGED outbox,
           pc'[c] \in {"load", "sending"} =>
             pc[c] \in {"load", "sending"} /\ loc'[c].reply = loc[c].reply
    PROVE  SendInv'
<1>1. \A d \in Clients, r \in Replies : Sends(d, r)' => Sends(d, r)
  BY Frame DEF Sends
<1>. QED  BY <1>1 DEF SendInv, outbox

\* A request starts to send a reply nobody was sending.
LEMMA SendStarts ==
    ASSUME CoreInv, RestTypes, SendInv, NEW c \in Clients, Step(c), NEW r \in Replies,
           reply[r] \in {"none", "pending"}, NEW s \in Allowed,
           reply' = [reply EXCEPT ![r] = s], UNCHANGED sent, loc'[c].reply = r
    PROVE  SendInv'
<1>1. reply'[r] = s /\ \A q \in Replies \ {r} : reply'[q] = reply[q]
  BY DEF RestTypes
<1>2. sent[r] = 0 /\ \A d \in Clients : ~Sends(d, r)
  BY DEF SendInv, Allowed
<1>3. \A d \in Clients \ {c}, q \in Replies : Sends(d, q)' => Sends(d, q)
  BY Frame DEF Sends
<1>4. \A q \in Replies : Sends(c, q)' => q = r
  BY DEF Sends
<1>5. ASSUME NEW q \in Replies
      PROVE  /\ sent'[q] \in {0, 1}
             /\ sent'[q] = 1 => reply'[q] \in Allowed
             /\ \A d \in Clients : Sends(d, q)' => sent'[q] = 0 /\ reply'[q] \in Allowed
             /\ \A d, e \in Clients : Sends(d, q)' /\ Sends(e, q)' => d = e
  <2>1. CASE q = r  BY <1>1, <1>2, <1>3, <2>1
  <2>2. CASE q # r  BY <1>1, <1>3, <1>4, <2>2 DEF SendInv
  <2>. QED  BY <2>1, <2>2
<1>. QED  BY <1>5 DEF SendInv

\* The platform takes a reply that was not sent.
LEMMA SendEnds ==
    ASSUME CoreInv, RestTypes, SendInv, NEW c \in Clients, AcceptReply(c)
    PROVE  SendInv'
<1>1. PICK r : r = loc[c].reply  OBVIOUS
<1>2. Step(c) /\ pc'[c] = "sent" /\ UNCHANGED reply /\ sent' = [sent EXCEPT ![r] = sent[r] + 1]
  BY <1>1 DEF Step, Answer, AcceptReply, Goto, CoreInv
<1>3. Sends(c, r)  BY <1>1 DEF AcceptReply, Sends
<1>4. \A d \in Clients \ {c}, q \in Replies : Sends(d, q)' => Sends(d, q)
  BY Frame, <1>2 DEF Sends
<1>5. \A q \in Replies : ~Sends(c, q)'
  BY <1>2 DEF Sends
<1>6. ASSUME NEW q \in Replies
      PROVE  /\ sent'[q] \in {0, 1}
             /\ sent'[q] = 1 => reply'[q] \in Allowed
             /\ \A d \in Clients : Sends(d, q)' => sent'[q] = 0 /\ reply'[q] \in Allowed
             /\ \A d, e \in Clients : Sends(d, q)' /\ Sends(e, q)' => d = e
  <2>1. CASE q = r
    <3>1. sent[r] = 0 /\ reply[r] \in Allowed /\ \A d \in Clients : Sends(d, r) => d = c
      BY <1>3, <2>1 DEF SendInv
    <3>2. sent'[q] = 1  BY <1>2, <2>1, <3>1 DEF RestTypes
    <3>. QED  BY <1>2, <1>4, <1>5, <2>1, <3>1, <3>2
  <2>2. CASE q # r
    <3>1. sent'[q] = sent[q] /\ reply'[q] = reply[q]  BY <1>2, <2>2 DEF RestTypes
    <3>. QED  BY <1>4, <1>5, <3>1 DEF SendInv
  <2>. QED  BY <2>1, <2>2
<1>. QED  BY <1>6 DEF SendInv

LEMMA SendNext == CoreInv /\ RestTypes /\ ReviewInv /\ SendInv /\ [Next]_vars => SendInv'
<1>. SUFFICES ASSUME CoreInv, RestTypes, ReviewInv, SendInv, [Next]_vars PROVE SendInv'
  OBVIOUS
<1>. USE DEF Goto, SetLocals, Finish
<1>1. ASSUME NEW c \in Clients, Store(c) \/ Receive(c)  PROVE SendInv'
  <2>1. UNCHANGED outbox /\ pc'[c] \notin {"load", "sending"}
    <3>1. CASE Store(c)
      BY <3>1, NextMessageFrame
         DEF Store, FindThread, UpdateThread, CreateThread, FindMessage, InsertMessage, CoreInv
    <3>2. CASE Receive(c)
      BY <3>2, NextMessageFrame
         DEF Receive, Webhook, StartSync, ListThreads, GetMessages, SyncFails, CoreInv
    <3>. QED  BY <1>1, <3>1, <3>2
  <2>. QED  BY <1>1, <2>1, SendQuiet DEF Step
<1>2. ASSUME NEW c \in Clients, Like(c)  PROVE SendInv'
  <2>1. UNCHANGED outbox /\ pc'[c] \notin {"load", "sending"}
    BY <1>2 DEF Like, StartAction, AcceptAction, ActionTaken, ActionFails, CreateOnce,
       InsertAction, CoreInv
  <2>. QED  BY <1>2, <2>1, SendQuiet DEF Step
<1>3. ASSUME NEW c \in Clients, Answer(c)  PROVE SendInv'
  <2>0. Step(c)  BY <1>3 DEF Step
  <2>1. CASE AskReply(c) \/ (Decide(c) /\ Turn(c, "reject"))
    <3>1. PICK r \in Replies, s \in {"pending", "rejected"} :
             /\ reply[r] \in {"none", "pending"} /\ reply' = [reply EXCEPT ![r] = s]
             /\ UNCHANGED sent /\ pc'[c] \notin {"load", "sending"}
      <4>1. CASE AskReply(c)
        BY <4>1 DEF AskReply, Offered, Turn, CoreInv
      <4>2. CASE Decide(c) /\ Turn(c, "reject")
        BY <4>2 DEF Decide, Turn, ReviewInv, Reviews, CoreInv
      <4>. QED  BY <2>1, <4>1, <4>2
    <3>2. reply'[r] = s /\ \A q \in Replies \ {r} : reply'[q] = reply[q]
      BY <3>1 DEF RestTypes
    <3>3. sent[r] = 0 /\ \A d \in Clients : ~Sends(d, r)
      BY <3>1 DEF SendInv, Allowed
    <3>4. \A d \in Clients, q \in Replies : Sends(d, q)' => Sends(d, q)
      BY <2>0, <3>1, Frame DEF Sends
    <3>. QED  BY <3>1, <3>2, <3>3, <3>4 DEF SendInv
  <2>2. CASE StartReply(c) \/ (Decide(c) /\ Turn(c, "approve"))
    <3>1. PICK r \in Replies, s \in Allowed :
             /\ reply[r] \in {"none", "pending"} /\ reply' = [reply EXCEPT ![r] = s]
             /\ UNCHANGED sent /\ loc'[c].reply = r
      <4>1. CASE StartReply(c)
        BY <4>1 DEF StartReply, Allowed, CoreInv, NoLocals
      <4>2. CASE Decide(c) /\ Turn(c, "approve")
        BY <4>2 DEF Decide, Turn, Allowed, ReviewInv, Reviews
      <4>. QED  BY <2>2, <4>1, <4>2
    <3>. QED  BY <2>0, <3>1, SendStarts
  <2>6. CASE Review(c)
    <3>1. UNCHANGED outbox /\ pc'[c] \notin {"load", "sending"}
      BY <2>6 DEF Review, CoreInv
    <3>. QED  BY <2>0, <3>1, SendQuiet
  <2>3. CASE LoadThread(c)
    <3>1. UNCHANGED outbox /\ pc[c] = "load" /\ loc[c] \in Locals
      BY <2>3 DEF LoadThread, Turn, CoreInv
    <3>2. pc'[c] = "idle" \/ loc'[c].reply = loc[c].reply
      BY <2>3, <3>1 DEF LoadThread, CoreInv, Locals
    <3>. QED  BY <2>0, <3>1, <3>2, SendQuiet
  <2>4. CASE AcceptReply(c)  BY <2>4, SendEnds
  <2>5. CASE ReplyTaken(c) \/ ReplyFails(c) \/ RecordReply(c) \/ TouchThread(c)
    <3>1. UNCHANGED outbox /\ pc'[c] \notin {"load", "sending"}
      BY <2>5 DEF ReplyTaken, ReplyFails, RecordReply, TouchThread, CoreInv
    <3>. QED  BY <2>0, <3>1, SendQuiet
  <2>7. Decide(c) => Turn(c, "approve") \/ Turn(c, "reject")
    BY DEF Decide
  <2>. QED  BY <1>3, <2>1, <2>2, <2>3, <2>4, <2>5, <2>6, <2>7 DEF Answer
<1>4. CASE Say \/ UNCHANGED vars
  BY <1>4 DEF Say, vars, outbox, SendInv, Sends
<1>5. ASSUME NEW h \in Hosts, Crash(h)  PROVE SendInv'
  <2>1. UNCHANGED outbox /\ \A d \in Clients, r \in Replies : Sends(d, r)' => Sends(d, r)
    BY <1>5 DEF Crash, Sends
  <2>. QED  BY <2>1 DEF SendInv, outbox
<1>. QED  BY <1>1, <1>2, <1>3, <1>4, <1>5 DEF Next

\* A reply is sent at most once and only if it was approved or needed no
\* approval (approveRequest, inboxReplyExecutor and POST /inbox/:id/reply), for
\* any number of replies and reviewers, and through crashes, when one process
\* serves the requests: approveRequest reads a request and then writes it.
THEOREM RepliesOnce == ASSUME OneProcess PROVE Spec => []ReplyOnce
<1>1. Init => SendInv /\ ReviewInv
  BY DEF Init, SendInv, Sends, ReviewInv, Reviews
<1>2. CoreInv /\ RestTypes /\ ReviewInv /\ SendInv /\ [Next]_vars => SendInv'
  BY SendNext
<1>3. CoreInv /\ RestTypes /\ ReviewInv /\ [Next]_vars => ReviewInv'
  BY ReviewNext
<1>4. InboxInv => CoreInv /\ RestTypes
  BY DEF InboxInv
<1>5. SendInv => ReplyOnce
  BY DEF SendInv, ReplyOnce, Allowed
<1>. QED  BY <1>1, <1>2, <1>3, <1>4, <1>5, InboxInvariant, PTL DEF Spec

-----------------------------------------------------------------------------
(* Requests for likes that follow one another: one client makes them.  A like *)
(* that the platform took is recorded, forgotten, or in the hand of the      *)
(* request that will record it.                                              *)

OneLiker == \A c, d \in Clients : <<c, "like">> \in Ops /\ <<d, "like">> \in Ops => c = d

Taken(c, t) == pc[c] \in {"acted", "createOnce", "insertAction"} /\ loc[c].target = t

LikeInv ==
    /\ \A c \in Clients : pc[c] \in Acting => <<c, "like">> \in Ops /\ loc[c].target \notin action
    /\ \A t \in Threads :
         acted[t] = lost[t] + (IF t \in action \/ \E c \in Clients : Taken(c, t) THEN 1 ELSE 0)

\* Requests that are about no like leave it alone.
LEMMA LikeQuiet ==
    ASSUME CoreInv, LikeInv, NEW c \in Clients, Step(c), UNCHANGED likes,
           pc[c] \notin Acting, pc'[c] \notin Acting
    PROVE  LikeInv'
<1>1. \A d \in Clients : pc'[d] \in Acting =>
                            pc[d] \in Acting /\ loc'[d] = loc[d]
  BY Frame
<1>2. \A d \in Clients, t \in Threads : Taken(d, t)' <=> Taken(d, t)
  <2>1. ASSUME NEW d \in Clients, NEW t \in Threads  PROVE Taken(d, t)' <=> Taken(d, t)
    <3>1. CASE d = c  BY <3>1 DEF Taken, Acting
    <3>2. CASE d # c  BY <3>2, Frame DEF Taken
    <3>. QED  BY <3>1, <3>2
  <2>. QED  BY <2>1
<1>. QED  BY <1>1, <1>2 DEF LikeInv, likes

\* A step of the one client that likes.
LEMMA LikerStep ==
    ASSUME OneLiker, CoreInv, LikeInv, NEW c \in Clients, Step(c), <<c, "like">> \in Ops,
           pc'[c] \in Acting => loc'[c].target \notin action',
           \A t \in Threads :
             acted'[t] = lost'[t] + (IF t \in action' \/ Taken(c, t)' THEN 1 ELSE 0)
    PROVE  LikeInv'
<1>1. ASSUME NEW d \in Clients \ {c}  PROVE pc'[d] \notin Acting
  <2>1. pc[d] \notin Acting  BY DEF OneLiker, LikeInv
  <2>. QED  BY <2>1, Frame
<1>2. \A d \in Clients, t \in Threads : Taken(d, t)' => d = c
  BY <1>1 DEF Taken, Acting
<1>. QED  BY <1>1, <1>2 DEF LikeInv

LEMMA LikeNext ==
    ASSUME OneLiker
    PROVE  CoreInv /\ RestTypes /\ LikeInv /\ [Next]_vars => LikeInv'
<1>. SUFFICES ASSUME CoreInv, RestTypes, LikeInv, [Next]_vars PROVE LikeInv'
  OBVIOUS
<1>. USE DEF Goto, SetLocals, Finish
<1>1. ASSUME NEW c \in Clients, Store(c) \/ Receive(c) \/ Answer(c)  PROVE LikeInv'
  <2>1. UNCHANGED likes /\ pc[c] \notin Acting /\ pc'[c] \notin Acting
    <3>1. CASE Store(c)
      BY <3>1, NextMessageFrame
         DEF Store, FindThread, UpdateThread, CreateThread, FindMessage, InsertMessage, CoreInv,
             Turn, Acting
    <3>2. CASE Receive(c)
      BY <3>2, NextMessageFrame
         DEF Receive, Webhook, StartSync, ListThreads, GetMessages, SyncFails, CoreInv,
             Turn, Offered, Acting
    <3>3. CASE AskReply(c) \/ Review(c) \/ Decide(c) \/ StartReply(c) \/ LoadThread(c)
      BY <3>3 DEF AskReply, Review, Decide, StartReply, LoadThread, CoreInv, Turn, Offered, Acting
    <3>4. CASE \/ AcceptReply(c) \/ ReplyTaken(c) \/ ReplyFails(c) \/ RecordReply(c)
               \/ TouchThread(c)
      BY <3>4 DEF AcceptReply, ReplyTaken, ReplyFails, RecordReply, TouchThread, CoreInv,
         Turn, Acting
    <3>. QED  BY <1>1, <3>1, <3>2, <3>3, <3>4 DEF Answer
  <2>. QED  BY <1>1, <2>1, LikeQuiet DEF Step
<1>2. ASSUME NEW c \in Clients, Like(c)  PROVE LikeInv'
  <2>0. Step(c)  BY <1>2 DEF Step
  <2>1. PICK t : t = loc[c].target  OBVIOUS
  <2>2. <<c, "like">> \in Ops
    BY <1>2 DEF Like, StartAction, AcceptAction, ActionTaken, ActionFails, CreateOnce,
       InsertAction, Offered, Turn, LikeInv, Acting
  <2>3. \A d \in Clients, s \in Threads : Taken(d, s) => d = c /\ s = t
    BY <2>1, <2>2 DEF OneLiker, LikeInv, Taken, Acting
  <2>4. \A s \in Threads :
          acted[s] = lost[s] + (IF s \in action \/ Taken(c, s) THEN 1 ELSE 0)
    BY <2>3 DEF LikeInv
  <2>5. CASE StartAction(c)
    <3>1. PICK n \in DOMAIN thread :
             /\ thread[n][1] \notin action
             /\ SetLocals(c, [NoLocals EXCEPT !.target = thread[n][1]])
      BY <2>5 DEF StartAction
    <3>2. /\ pc[c] = "idle" /\ pc'[c] = "acting" /\ loc'[c].target = thread[n][1]
          /\ UNCHANGED likes
      BY <2>5, <3>1 DEF StartAction, Offered, Turn, CoreInv, NoLocals
    <3>3. \A s : ~Taken(c, s) /\ ~Taken(c, s)'  BY <3>2 DEF Taken
    <3>. QED  BY <2>0, <2>2, <2>4, <3>1, <3>2, <3>3, LikerStep DEF likes
  <2>6. CASE AcceptAction(c)
    <3>1. /\ pc[c] = "acting" /\ pc'[c] = "acted" /\ loc' = loc
          /\ acted' = [acted EXCEPT ![t] = acted[t] + 1] /\ UNCHANGED <<action, lost>>
      BY <2>1, <2>6 DEF AcceptAction, CoreInv
    <3>2. t \in Threads /\ t \notin action
      BY <2>1, <3>1 DEF CoreInv, HandOK, LikeInv, Acting
    <3>3. \A s : ~Taken(c, s) /\ (Taken(c, s)' <=> s = t)
      BY <2>1, <3>1 DEF Taken
    <3>4. acted'[t] = acted[t] + 1 /\ \A s \in Threads \ {t} : acted'[s] = acted[s]
      BY <3>1, <3>2 DEF RestTypes
    <3>5. \A s \in Threads :
             acted'[s] = lost'[s] + (IF s \in action' \/ Taken(c, s)' THEN 1 ELSE 0)
      BY <2>4, <3>1, <3>2, <3>3, <3>4 DEF RestTypes
    <3>. QED  BY <2>0, <2>1, <2>2, <3>1, <3>2, <3>5, LikerStep
  <2>7. CASE ActionTaken(c)
    <3>1. /\ pc[c] = "acted" /\ pc'[c] = "createOnce" /\ loc' = loc /\ UNCHANGED likes
      BY <2>7 DEF ActionTaken, Turn, CoreInv
    <3>2. t \notin action  BY <2>1, <3>1 DEF LikeInv, Acting
    <3>3. \A s : Taken(c, s)' <=> Taken(c, s)  BY <3>1 DEF Taken
    <3>4. \A s \in Threads :
             acted'[s] = lost'[s] + (IF s \in action' \/ Taken(c, s)' THEN 1 ELSE 0)
      BY <2>4, <3>1, <3>3 DEF likes
    <3>5. action' = action  BY <3>1 DEF likes
    <3>. QED  BY <2>0, <2>1, <2>2, <3>1, <3>2, <3>4, <3>5, LikerStep
  <2>8. CASE ActionFails(c)
    <3>1. /\ pc[c] \in {"acting", "acted"} /\ pc'[c] = "idle" /\ UNCHANGED <<action, acted>>
          /\ lost' = IF pc[c] = "acted" THEN [lost EXCEPT ![t] = lost[t] + 1] ELSE lost
      BY <2>1, <2>8 DEF ActionFails, Turn, CoreInv
    <3>2. t \in Threads /\ t \notin action
      BY <2>1, <3>1 DEF CoreInv, HandOK, LikeInv, Acting
    <3>3. \A s : (Taken(c, s) <=> pc[c] = "acted" /\ s = t) /\ ~Taken(c, s)'
      BY <2>1, <3>1 DEF Taken
    <3>4. \A s \in Threads : lost'[s] = IF pc[c] = "acted" /\ s = t THEN lost[s] + 1 ELSE lost[s]
      BY <3>1 DEF RestTypes
    <3>5. \A s \in Threads :
             acted'[s] = lost'[s] + (IF s \in action' \/ Taken(c, s)' THEN 1 ELSE 0)
      BY <2>4, <3>1, <3>2, <3>3, <3>4 DEF RestTypes
    <3>. QED  BY <2>0, <2>2, <3>1, <3>5, LikerStep DEF Acting
  <2>9. CASE CreateOnce(c)
    <3>1. pc[c] = "createOnce"  BY <2>9 DEF CreateOnce, Turn
    <3>2. t \notin action  BY <2>1, <3>1 DEF LikeInv, Acting
    <3>3. pc'[c] = "insertAction" /\ loc' = loc /\ UNCHANGED likes
      BY <2>1, <2>9, <3>2 DEF CreateOnce, CoreInv, likes
    <3>4. \A s : Taken(c, s)' <=> Taken(c, s)  BY <3>1, <3>3 DEF Taken
    <3>5. action' = action  BY <3>3 DEF likes
    <3>6. \A s \in Threads :
             acted'[s] = lost'[s] + (IF s \in action' \/ Taken(c, s)' THEN 1 ELSE 0)
      BY <2>4, <3>3, <3>4 DEF likes
    <3>. QED  BY <2>0, <2>1, <2>2, <3>2, <3>3, <3>5, <3>6, LikerStep
  <2>10. CASE InsertAction(c)
    <3>1. pc[c] = "insertAction" /\ pc'[c] = "idle"
      BY <2>10 DEF InsertAction, Turn, CoreInv
    <3>2. t \in Threads /\ t \notin action
      BY <2>1, <3>1 DEF CoreInv, HandOK, LikeInv, Acting
    <3>3. action' = action \cup {t} /\ UNCHANGED <<lost, acted>>
      BY <2>1, <2>10, <3>2 DEF InsertAction
    <3>4. \A s : (Taken(c, s) <=> s = t) /\ ~Taken(c, s)'
      BY <2>1, <3>1 DEF Taken
    <3>5. \A s \in Threads :
             acted'[s] = lost'[s] + (IF s \in action' \/ Taken(c, s)' THEN 1 ELSE 0)
      BY <2>4, <3>2, <3>3, <3>4
    <3>. QED  BY <2>0, <2>2, <3>1, <3>5, LikerStep DEF Acting
  <2>. QED  BY <1>2, <2>5, <2>6, <2>7, <2>8, <2>9, <2>10 DEF Like
<1>3. CASE Say \/ UNCHANGED vars
  BY <1>3 DEF Say, vars, likes, LikeInv, Taken
<1>4. ASSUME NEW h \in Hosts, Crash(h)  PROVE LikeInv'
  <2>. DEFINE gone(t) == {c \in {d \in Clients : HostOf[d] = h} :
                           pc[c] \in {"acted", "createOnce", "insertAction"}
                           /\ loc[c].target = t}
  <2>1. /\ lost' = [t \in Threads |-> lost[t] + Cardinality(gone(t))]
        /\ UNCHANGED <<action, acted>>
        /\ \A c \in Clients : IF HostOf[c] = h THEN pc'[c] = "idle"
                              ELSE pc'[c] = pc[c] /\ loc'[c] = loc[c]
    BY <1>4 DEF Crash
  <2>2. \A c \in Clients : pc'[c] \in Acting => <<c, "like">> \in Ops /\ loc'[c].target \notin action'
    BY <2>1 DEF LikeInv, Acting
  <2>3. ASSUME NEW t \in Threads
        PROVE  acted'[t] = lost'[t]
                 + (IF t \in action' \/ \E c \in Clients : Taken(c, t)' THEN 1 ELSE 0)
    <3>1. gone(t) = {c \in Clients : HostOf[c] = h /\ Taken(c, t)}
      BY DEF Taken
    <3>2. \A c \in Clients : Taken(c, t)' <=> (HostOf[c] # h /\ Taken(c, t))
      BY <2>1 DEF Taken
    <3>3. \A c, d \in Clients : Taken(c, t) /\ Taken(d, t) => c = d
      BY DEF OneLiker, LikeInv, Taken, Acting
    <3>4. ASSUME NEW c \in Clients, Taken(c, t)  PROVE t \notin action
      <4>1. pc[c] \in Acting /\ loc[c].target = t  BY <3>4 DEF Taken, Acting
      <4>. QED  BY <4>1 DEF LikeInv
    <3>5. acted[t] \in Nat /\ lost[t] \in Nat  BY DEF RestTypes
    <3>6. lost'[t] = lost[t] + Cardinality(gone(t))  BY <2>1
    <3>. HIDE DEF gone
    <3>7. CASE \E c \in Clients : HostOf[c] = h /\ Taken(c, t)
      <4>1. PICK c \in Clients : HostOf[c] = h /\ Taken(c, t)  BY <3>7
      <4>2. gone(t) = {c}  BY <3>1, <3>3, <4>1
      <4>3. Cardinality(gone(t)) = 1  BY <4>2, FS_Singleton
      <4>4. ~\E d \in Clients : Taken(d, t)'  BY <3>2, <3>3, <4>1
      <4>5. t \notin action  BY <3>4, <4>1
      <4>6. acted[t] = lost[t] + 1  BY <4>1 DEF LikeInv
      <4>7. acted'[t] = lost'[t]  BY <2>1, <3>5, <3>6, <4>3, <4>6
      <4>. QED  BY <2>1, <3>5, <4>4, <4>5, <4>7
    <3>8. CASE ~\E c \in Clients : HostOf[c] = h /\ Taken(c, t)
      <4>1. gone(t) = {}  BY <3>1, <3>8
      <4>2. Cardinality(gone(t)) = 0  BY <4>1, FS_EmptySet
      <4>3. (\E d \in Clients : Taken(d, t)') <=> (\E d \in Clients : Taken(d, t))
        BY <3>2, <3>8
      <4>. QED  BY <2>1, <3>5, <3>6, <4>2, <4>3 DEF LikeInv
    <3>. QED  BY <3>7, <3>8
  <2>. QED  BY <2>2, <2>3 DEF LikeInv
<1>. QED  BY <1>1, <1>2, <1>3, <1>4 DEF Next

\* A like asked for again and again is performed once, unless an answer was lost
\* or the process died before the action was recorded, when the requests for it
\* follow one another: findByDedupeKey sees what createOnce recorded.
THEOREM LikesOnce == ASSUME OneLiker PROVE Spec => []LikedOnce
<1>1. Init => LikeInv
  BY DEF Init, LikeInv, Taken, Acting
<1>2. CoreInv /\ RestTypes /\ LikeInv /\ [Next]_vars => LikeInv'
  BY LikeNext
<1>3. InboxInv => CoreInv /\ RestTypes
  BY DEF InboxInv
<1>4. RestTypes /\ LikeInv => LikedOnce
  BY DEF RestTypes, LikeInv, LikedOnce
<1>. QED  BY <1>1, <1>2, <1>3, <1>4, InboxInvariant, PTL DEF Spec
=============================================================================
