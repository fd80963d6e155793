------------------------ MODULE EngagementGatesProofs ------------------------
(***************************************************************************)
(* TLAPS proofs about EngagementGates: types, that no reply is lost        *)
(* (NoReplyLost) and by how much the limit can be missed                   *)
(* (OvershootBounded), for any number of gates, users, processors, requests*)
(* and processes, calls that fail and crashes; with one processor, that a  *)
(* user is written to once (ActionOnce), no more than Limit deliveries are *)
(* made within Window (LimitKept) and a pause the platform asked for is    *)
(* kept (BackoffKept); and, where one process serves the requests, that a  *)
(* token is redeemed once (TokenRedeemedOnce).                             *)
(***************************************************************************)
EXTENDS EngagementGates, SequenceTheorems, FiniteSetTheorems, TLAPS

-----------------------------------------------------------------------------
(* rs is the timeline, S the set of the replies decided about.               *)

\* A mark of gate g at n passes over no reply to post that is not decided about.
Done(n, g, post, rs, S) ==
    n \in 0..Len(rs) /\ \A r \in 1..n : Answers(rs, r, post) => r \in S[g]

Placed == Deciding \cup {"listing", "reply", "mark", "deleteGate", "insertVerified",
                         "consume"}
AtGate == Deciding \cup {"listing", "reply", "mark"}

\* What an actor has in hand, when G are the gates and R those whose post was
\* changed: for the others, marks as they once were and, unless a reply was put
\* off, all the replies up to the mark it will write that remain to be decided.
HandOK(l, x, G, R, rs, S) ==
    /\ \A g \in Gates : x.rows[g].status # "absent" =>
          /\ G[g].status # "absent"
          /\ g \notin R =>
                /\ x.rows[g].setting.post = G[g].setting.post
                /\ Done(x.rows[g].since, g, G[g].setting.post, rs, S)
    /\ \A g \in x.batch : x.rows[g].status # "absent"
    /\ x.list \subseteq 1..Len(rs) /\ x.next \in 0..Len(rs)
    /\ l \in Placed => x.cur \in Gates
    /\ l \in AtGate => x.rows[x.cur].status # "absent"
    /\ l \in Deciding => x.reply \in 1..Len(rs)
    /\ l \in {"insertVerified", "consume"} => x.name \in Names
    /\ l \in Deciding \cup {"reply", "mark"} /\ x.keep /\ x.cur \notin R =>
          \A r \in 1..x.next : Answers(rs, r, G[x.cur].setting.post) =>
             r \in S[x.cur] \cup x.list \/ (l \in Deciding /\ r = x.reply)
    /\ l = "mark" => x.keep /\ x.list = {}

\* The marks of the gates themselves; a gate that was not created has none.
MarksOK(G, R, rs, S) ==
    /\ \A g \in Gates \ R : Done(G[g].since, g, G[g].setting.post, rs, S)
    /\ \A g \in Gates : G[g].status = "absent" => G[g].since = 0

GateInv ==
    /\ TypeOK
    /\ MarksOK(gate, repointed, replies, settled)
    /\ \A a \in Actors : HandOK(pc[a], loc[a], gate, repointed, replies, settled)

\* Hands and marks as they are now.
Hand(l, x, S) == HandOK(l, x, gate, repointed, replies, S)
Marks(S)      == MarksOK(gate, repointed, replies, S)

-----------------------------------------------------------------------------
\* Decisions are only made; gates stay created and, but for those whose post is
\* changed, keep their post.
More(S, S2) == \A g \in Gates : S[g] \subseteq S2[g]

GatesMove(G, R, G2, R2) ==
    /\ R \subseteq R2
    /\ \A g \in Gates : G[g].status # "absent" =>
          /\ G2[g].status # "absent"
          /\ g \notin R2 => G2[g].setting.post = G[g].setting.post

\* Replies are only added.
LEMMA HandsGrow ==
    ASSUME NEW rs \in Seq(ReplyRecords), NEW rs2 \in Seq(ReplyRecords),
           Len(rs) <= Len(rs2), \A r \in 1..Len(rs) : rs2[r].to = rs[r].to,
           NEW S, NEW S2, More(S, S2),
           NEW G, NEW R, NEW G2, NEW R2, GatesMove(G, R, G2, R2)
    PROVE  /\ \A n, post : \A g \in Gates : Done(n, g, post, rs, S) => Done(n, g, post, rs2, S2)
           /\ \A l : \A x \in Locals : HandOK(l, x, G, R, rs, S) => HandOK(l, x, G2, R2, rs2, S2)
<1>1. ASSUME NEW n, NEW post, NEW g \in Gates, Done(n, g, post, rs, S)
      PROVE  Done(n, g, post, rs2, S2)
  <2>1. n \in 0..Len(rs) /\ Len(rs) \in Nat /\ Len(rs2) \in Nat
    BY <1>1 DEF Done
  <2>2. ASSUME NEW r \in 1..n, Answers(rs2, r, post) PROVE r \in S2[g]
    <3>1. rs2[r].to = rs[r].to
      BY <2>1
    <3>2. Answers(rs, r, post)
      BY <2>2, <3>1 DEF Answers
    <3>. QED  BY <1>1, <3>2 DEF Done, More
  <2>. QED  BY <2>1, <2>2 DEF Done
<1>2. ASSUME NEW l, NEW x \in Locals, HandOK(l, x, G, R, rs, S)
      PROVE  HandOK(l, x, G2, R2, rs2, S2)
  <2>1. ASSUME NEW g \in Gates, x.rows[g].status # "absent"
        PROVE  /\ G2[g].status # "absent"
               /\ g \notin R2 =>
                     /\ x.rows[g].setting.post = G2[g].setting.post
                     /\ Done(x.rows[g].since, g, G2[g].setting.post, rs2, S2)
    <3>1. /\ G[g].status # "absent"
          /\ g \notin R =>
                /\ x.rows[g].setting.post = G[g].setting.post
                /\ Done(x.rows[g].since, g, G[g].setting.post, rs, S)
      BY <1>2, <2>1 DEF HandOK
    <3>2. /\ G2[g].status # "absent" /\ (g \notin R2 => g \notin R)
          /\ g \notin R2 => G2[g].setting.post = G[g].setting.post
      BY <3>1 DEF GatesMove
    <3>3. \A n, post : Done(n, g, post, rs, S) => Done(n, g, post, rs2, S2)
      BY <1>1
    <3>. QED  BY <3>1, <3>2, <3>3
  <2>2. x.list \subseteq 1..Len(rs2) /\ x.next \in 0..Len(rs2)
        /\ (l \in Deciding => x.reply \in 1..Len(rs2))
    BY <1>2 DEF HandOK
  <2>3. ASSUME l \in Deciding \cup {"reply", "mark"}, x.keep, x.cur \notin R2,
               NEW r \in 1..x.next, Answers(rs2, r, G2[x.cur].setting.post)
        PROVE  r \in S2[x.cur] \cup x.list \/ (l \in Deciding /\ r = x.reply)
    <3>1. /\ x.cur \in Gates /\ x.rows[x.cur].status # "absent" /\ x.next \in 0..Len(rs)
          /\ G[x.cur].status # "absent"
      BY <1>2, <2>3 DEF HandOK, Placed, AtGate
    <3>2. x.cur \notin R /\ G2[x.cur].setting.post = G[x.cur].setting.post
      BY <2>3, <3>1 DEF GatesMove
    <3>3. r \in 1..Len(rs) /\ rs2[r].to = rs[r].to
      BY <3>1
    <3>4. Answers(rs, r, G[x.cur].setting.post)
      BY <2>3, <3>2, <3>3 DEF Answers
    <3>5. r \in S[x.cur] \cup x.list \/ (l \in Deciding /\ r = x.reply)
      BY <1>2, <2>3, <3>2, <3>4 DEF HandOK
    <3>. QED  BY <3>1, <3>5 DEF More
  <2>4. /\ \A g \in x.batch : x.rows[g].status # "absent"
        /\ l \in Placed => x.cur \in Gates
        /\ l \in AtGate => x.rows[x.cur].status # "absent"
        /\ l \in {"insertVerified", "consume"} => x.name \in Names
        /\ l = "mark" => x.keep /\ x.list = {}
    BY <1>2 DEF HandOK
  <2>. QED  BY <2>1, <2>2, <2>3, <2>4 DEF HandOK
<1>. QED  BY <1>1, <1>2

LEMMA MoreDecided ==
    ASSUME GateInv, NEW S, More(settled, S)
    PROVE  /\ \A l : \A x \in Locals : Hand(l, x, settled) => Hand(l, x, S)
           /\ Marks(S)
<1>1. replies \in Seq(ReplyRecords) /\ Len(replies) <= Len(replies)
      /\ GatesMove(gate, repointed, gate, repointed)
  BY DEF GateInv, TypeOK, GatesMove
<1>2. /\ \A n, post : \A g \in Gates :
            Done(n, g, post, replies, settled) => Done(n, g, post, replies, S)
      /\ \A l : \A x \in Locals : HandOK(l, x, gate, repointed, replies, settled)
                                   => HandOK(l, x, gate, repointed, replies, S)
  BY <1>1, HandsGrow
<1>3. \A g \in Gates \ repointed : Done(gate[g].since, g, gate[g].setting.post, replies, S)
  BY <1>2 DEF GateInv, MarksOK
<1>. QED  BY <1>2, <1>3 DEF Hand, Marks, GateInv, MarksOK

LEMMA MoreSelf == \A S : More(S, S)
BY DEF More

LEMMA NoLocalsType ==
    /\ NoLocals \in Locals
    /\ \A rs \in Seq(ReplyRecords) : \A G, R, S : HandOK("idle", NoLocals, G, R, rs, S)
BY DEF NoLocals, NoGate, NoSetting, Settings, Locals, GateRows, HandOK, Placed, AtGate, Deciding

LEMMA InHandNow ==
    ASSUME GateInv, NEW a \in Actors
    PROVE  /\ loc[a] \in Locals /\ Hand(pc[a], loc[a], settled)
           /\ replies \in Seq(ReplyRecords) /\ Len(replies) \in Nat
           /\ DOMAIN replies = 1..Len(replies) /\ settled \in [Gates -> SUBSET Nat]
BY DEF GateInv, TypeOK, Hand

\* Actor a goes to statement l with locals x.
Moves(a, l, x) == pc' = [pc EXCEPT ![a] = l] /\ loc' = [loc EXCEPT ![a] = x]

\* It goes somewhere with the right things in hand.
Goes(a, S) == \E l \in PCs, x \in Locals : Moves(a, l, x) /\ Hand(l, x, S)

\* A step of an actor that keeps the timeline.
LEMMA ActorStep ==
    ASSUME GateInv, NEW a \in Actors, Goes(a, settled'), replies' = replies,
           More(settled, settled'), settled' \in [Gates -> SUBSET Nat],
           gate' \in [Gates -> GateRows], repointed' \subseteq Gates,
           GatesMove(gate, repointed, gate', repointed'),
           MarksOK(gate', repointed', replies, settled'),
           delivery' \in [Gates -> [Names -> DeliveryRows]],
           sent' \in [Gates -> [Users -> Nat]],
           unrecorded' \in [Gates -> [Users -> Nat]],
           faults' \in Nat
    PROVE  GateInv'
<1>1. PICK l \in PCs, x \in Locals : Moves(a, l, x) /\ Hand(l, x, settled')
  BY DEF Goes
<1>2. pc' \in [Actors -> PCs] /\ loc' \in [Actors -> Locals]
  BY <1>1 DEF Moves, GateInv, TypeOK
<1>3. \A m : \A y \in Locals : Hand(m, y, settled')
                 => HandOK(m, y, gate', repointed', replies, settled')
  <2>1. replies \in Seq(ReplyRecords) /\ Len(replies) <= Len(replies)
    BY DEF GateInv, TypeOK
  <2>2. \A m : \A y \in Locals : HandOK(m, y, gate, repointed, replies, settled')
                 => HandOK(m, y, gate', repointed', replies, settled')
    BY <2>1, MoreSelf, HandsGrow
  <2>. QED  BY <2>2 DEF Hand
<1>4. ASSUME NEW b \in Actors
      PROVE  HandOK(pc'[b], loc'[b], gate', repointed', replies, settled')
  <2>1. CASE b = a
    <3>1. pc'[b] = l /\ loc'[b] = x
      BY <1>1, <2>1 DEF Moves, GateInv, TypeOK
    <3>. QED  BY <1>1, <1>3, <3>1
  <2>2. CASE b # a
    <3>1. /\ pc'[b] = pc[b] /\ loc'[b] = loc[b] /\ loc[b] \in Locals
          /\ Hand(pc[b], loc[b], settled)
      BY <1>1, <2>2 DEF Moves, GateInv, TypeOK, Hand
    <3>2. Hand(pc[b], loc[b], settled')
      BY <3>1, MoreDecided
    <3>. QED  BY <1>3, <3>1, <3>2
  <2>. QED  BY <2>1, <2>2
<1>5. TypeOK'
  BY <1>2 DEF GateInv, TypeOK
<1>. QED  BY <1>4, <1>5 DEF GateInv

\* One that leaves the gates and their marks alone.
LEMMA KeepStep ==
    ASSUME GateInv, NEW a \in Actors, Goes(a, settled'),
           UNCHANGED <<gate, repointed, replies>>,
           More(settled, settled'), settled' \in [Gates -> SUBSET Nat],
           delivery' \in [Gates -> [Names -> DeliveryRows]],
           sent' \in [Gates -> [Users -> Nat]],
           unrecorded' \in [Gates -> [Users -> Nat]],
           faults' \in Nat
    PROVE  GateInv'
<1>1. MarksOK(gate', repointed', replies, settled')
  BY MoreDecided DEF Marks
<1>2. /\ GatesMove(gate, repointed, gate', repointed')
      /\ gate' \in [Gates -> GateRows] /\ repointed' \subseteq Gates
  BY DEF GatesMove, GateInv, TypeOK
<1>. QED  BY <1>1, <1>2, ActorStep

LEMMA FinishGoes ==
    ASSUME GateInv, NEW a \in Actors, Finish(a), NEW S
    PROVE  Goes(a, S)
BY NoLocalsType DEF Finish, Goto, SetLocals, Moves, Goes, PCs, Yielding, Hand, GateInv, TypeOK

LEMMA GotoGoes ==
    ASSUME GateInv, NEW a \in Actors, NEW l \in PCs, Goto(a, l), loc' = loc,
           Hand(l, loc[a], settled)
    PROVE  Goes(a, settled)
<1>1. Moves(a, l, loc[a]) /\ loc[a] \in Locals
  BY DEF Goto, Moves, GateInv, TypeOK
<1>. QED  BY <1>1 DEF Goes

LEMMA NextGateGoes ==
    ASSUME GateInv, NEW p \in Actors, NEW batch \in SUBSET Gates, NEW held \in BOOLEAN,
           batch \subseteq loc[p].batch, NextGate(p, batch, held), NEW S, More(settled, S)
    PROVE  Goes(p, S)
<1>1. CASE batch = {}
  BY <1>1, FinishGoes DEF NextGate
<1>2. CASE batch # {}
  <2> DEFINE x == [NoLocals EXCEPT !.rows = loc[p].rows, !.batch = batch, !.held = held]
  <2>1. loc[p] \in Locals /\ Hand(pc[p], loc[p], S)
    BY InHandNow, MoreDecided
  <2>2. /\ x \in Locals /\ x.rows = loc[p].rows /\ x.list = {} /\ x.next = 0
        /\ x.batch = batch
    BY <2>1, NoLocalsType DEF NoLocals, Locals
  <2>3. Hand("gate", x, S)
    BY <2>1, <2>2, InHandNow DEF Hand, HandOK, Placed, AtGate, Deciding
  <2>4. Moves(p, "gate", x) /\ "gate" \in PCs
    BY <1>2 DEF NextGate, Goto, SetLocals, Moves, PCs
  <2>. QED  BY <2>2, <2>3, <2>4 DEF Goes
<1>. QED  BY <1>1, <1>2

LEMMA NextReplyGoes ==
    ASSUME GateInv, NEW p \in Actors, NEW list, NEW next, NEW keep \in BOOLEAN,
           NextReply(p, list, next, keep), NEW S, More(settled, S), pc[p] \in AtGate,
           list \subseteq 1..Len(replies), next \in 0..Len(replies),
           keep /\ loc[p].cur \notin repointed =>
              \A r \in 1..next : Answers(replies, r, gate[loc[p].cur].setting.post)
                                   => r \in S[loc[p].cur] \cup list
    PROVE  Goes(p, S)
<1>1. /\ loc[p] \in Locals /\ Hand(pc[p], loc[p], S) /\ loc[p].cur \in Gates
      /\ loc[p].rows[loc[p].cur].status # "absent"
  BY InHandNow, MoreDecided DEF Hand, HandOK, Placed, AtGate
<1>2. CASE list # {} \/ (keep /\ next \notin {0, loc[p].rows[loc[p].cur].since})
  <2> DEFINE x == [loc[p] EXCEPT !.list = list, !.next = next, !.keep = keep, !.reply = 0]
             l == IF list # {} THEN "reply" ELSE "mark"
  <2>0. list \in SUBSET Nat /\ next \in Nat /\ 0 \in Nat
    BY InHandNow
  <2>1. /\ x \in Locals /\ x.rows = loc[p].rows /\ x.cur = loc[p].cur /\ x.list = list
        /\ x.next = next /\ x.keep = keep /\ x.batch = loc[p].batch
    BY <1>1, <2>0 DEF Locals
  <2>. HIDE DEF x
  <2>2. /\ l \notin Deciding /\ l \notin {"insertVerified", "consume", "listing"}
        /\ l = "mark" => keep /\ list = {}
    BY <1>2 DEF Deciding
  <2>3. Hand(l, x, S)
    BY <1>1, <2>1, <2>2 DEF Hand, HandOK
  <2>4. Moves(p, l, x) /\ l \in PCs
    BY <1>2 DEF NextReply, Goto, SetLocals, Moves, PCs, x
  <2>. QED  BY <2>1, <2>3, <2>4 DEF Goes
<1>3. CASE ~(list # {} \/ (keep /\ next \notin {0, loc[p].rows[loc[p].cur].since}))
  <2>1. NextGate(p, loc[p].batch, loc[p].held)
    BY <1>3 DEF NextReply
  <2>2. loc[p].batch \in SUBSET Gates /\ loc[p].held \in BOOLEAN
    BY <1>1 DEF Locals
  <2>. QED  BY <2>1, <2>2, NextGateGoes
<1>. QED  BY <1>2, <1>3

LEMMA QuietStep ==
    ASSUME GateInv, NEW a \in Actors, Goes(a, settled),
           UNCHANGED <<rows, settled, outside>>, faults' \in Nat
    PROVE  GateInv'
<1>1. UNCHANGED <<gate, repointed, delivery, settled, replies, sent, unrecorded>>
  BY DEF rows, outside
<1>. QED  BY <1>1, MoreSelf, KeepStep DEF GateInv, TypeOK

LEMMA CountersType ==
    GateInv => faults \in Nat /\ (Fail \/ UNCHANGED faults => faults' \in Nat)
BY DEF GateInv, TypeOK, Fail

\* One more reply of a gate is decided about.
Decide(g, r) == [settled EXCEPT ![g] = @ \cup {r}]

LEMMA DecideMore ==
    ASSUME GateInv, NEW g \in Gates, NEW r \in Nat
    PROVE  /\ More(settled, Decide(g, r)) /\ Decide(g, r) \in [Gates -> SUBSET Nat]
           /\ Decide(g, r)[g] = settled[g] \cup {r}
<1>1. settled \in [Gates -> SUBSET Nat]
  BY DEF GateInv, TypeOK
<1>2. settled[g] \cup {r} \in SUBSET Nat
  BY <1>1
<1>. QED  BY <1>1, <1>2 DEF Decide, More

\* The reply in hand is decided, or put off.
LEMMA SettleGoes ==
    ASSUME GateInv, NEW p \in Actors, pc[p] \in Deciding, Settle(p)
    PROVE  Goes(p, settled') /\ More(settled, settled') /\ settled' \in [Gates -> SUBSET Nat]
<1>1. /\ loc[p].cur \in Gates /\ loc[p].reply \in 1..Len(replies) /\ loc[p].keep \in BOOLEAN
      /\ loc[p].list \subseteq 1..Len(replies) /\ loc[p].next \in 0..Len(replies)
      /\ loc[p].keep /\ loc[p].cur \notin repointed =>
            \A r \in 1..loc[p].next : Answers(replies, r, gate[loc[p].cur].setting.post) =>
               r \in settled[loc[p].cur] \cup loc[p].list \/ r = loc[p].reply
  BY InHandNow DEF Hand, HandOK, Placed, Locals
<1>. PICK S : S = Decide(loc[p].cur, loc[p].reply)
  OBVIOUS
<1>2. /\ More(settled, S) /\ S \in [Gates -> SUBSET Nat] /\ settled' = S
      /\ S[loc[p].cur] = settled[loc[p].cur] \cup {loc[p].reply}
  <2>1. loc[p].reply \in Nat
    BY <1>1, InHandNow
  <2>2. settled' = S
    BY DEF Settle, Decide
  <2>. QED  BY <1>1, <2>1, <2>2, DecideMore
<1>3. loc[p].keep /\ loc[p].cur \notin repointed =>
         \A r \in 1..loc[p].next : Answers(replies, r, gate[loc[p].cur].setting.post) =>
            r \in S[loc[p].cur] \cup loc[p].list
  BY <1>1, <1>2
<1>4. NextReply(p, loc[p].list, loc[p].next, loc[p].keep) /\ pc[p] \in AtGate
  BY DEF Settle, AtGate
<1>5. Goes(p, S)
  BY <1>1, <1>2, <1>3, <1>4, NextReplyGoes
<1>. QED  BY <1>2, <1>5

LEMMA PutOffGoes ==
    ASSUME GateInv, NEW p \in Actors, pc[p] \in Deciding, PutOff(p)
    PROVE  Goes(p, settled)
<1>1. /\ pc[p] \in AtGate /\ More(settled, settled)
      /\ loc[p].list \subseteq 1..Len(replies) /\ loc[p].next \in 0..Len(replies)
  BY InHandNow, MoreSelf DEF Hand, HandOK, AtGate
<1>. QED  BY <1>1, NextReplyGoes DEF PutOff

\* From one statement about a reply to the next.
LEMMA StayGoes ==
    ASSUME GateInv, NEW p \in Actors, pc[p] \in Deciding, NEW l \in Deciding,
           Goto(p, l), loc' = loc
    PROVE  Goes(p, settled)
<1>1. Hand(l, loc[p], settled)
  BY InHandNow DEF Hand, HandOK, Placed, AtGate, Deciding
<1>2. l \in PCs
  BY DEF PCs
<1>. QED  BY <1>1, <1>2, GotoGoes

-----------------------------------------------------------------------------
(* The processors. *)

LEMMA ScanStep ==
    ASSUME GateInv, NEW p \in Actors, Scan(p)
    PROVE  GateInv'
<1>1. PICK batch \in SUBSET Triggers :
        SetLocals(p, [NoLocals EXCEPT !.batch = batch,
              !.rows = [g \in Gates |-> IF g \in batch THEN gate[g] ELSE NoGate]])
  BY DEF Scan
<1> DEFINE old == [g \in Gates |-> IF g \in batch THEN gate[g] ELSE NoGate]
           x   == [NoLocals EXCEPT !.batch = batch, !.rows = old]
<1>2. old \in [Gates -> GateRows] /\ batch \in SUBSET Gates
  BY DEF Triggers, GateInv, TypeOK, NoGate, NoSetting, Settings, GateRows
<1>3. /\ \A g \in Gates : old[g].status # "absent" =>
            /\ old[g] = gate[g] /\ gate[g].status # "absent"
            /\ g \notin repointed =>
                  Done(old[g].since, g, gate[g].setting.post, replies, settled)
      /\ \A g \in batch : old[g].status # "absent"
  <2>1. \A g \in Gates : old[g].status # "absent" => old[g] = gate[g]
    BY DEF NoGate
  <2>. QED  BY <1>2, <2>1 DEF GateInv, MarksOK, Triggers
<1>. HIDE DEF old
<1>4. x \in Locals /\ x.rows = old /\ x.list = {} /\ x.next = 0 /\ x.batch = batch
  BY <1>2, NoLocalsType DEF NoLocals, Locals
<1>5. Hand("gate", x, settled)
  BY <1>3, <1>4, InHandNow DEF Hand, HandOK, Placed, AtGate, Deciding
<1>6. Moves(p, "gate", x) /\ "gate" \in PCs
  BY <1>1 DEF Scan, Goto, SetLocals, Moves, PCs, old
<1>7. Goes(p, settled)
  BY <1>4, <1>5, <1>6 DEF Goes
<1>. QED  BY <1>7, QuietStep, CountersType DEF Scan

LEMMA LoadStep ==
    ASSUME GateInv, NEW p \in Actors, LoadGate(p) \/ AccountFails(p)
    PROVE  GateInv'
<1>1. loc[p] \in Locals /\ Hand("gate", loc[p], settled) /\ pc[p] = "gate"
  BY InHandNow DEF LoadGate, AccountFails, Turn
<1>2. PICK g \in loc[p].batch :
        \/ NextGate(p, loc[p].batch \ {g}, loc[p].held)
        \/ Finish(p)
        \/ /\ Goto(p, "listing")
           /\ SetLocals(p, [loc[p] EXCEPT !.batch = @ \ {g}, !.cur = g])
  BY DEF LoadGate, AccountFails
<1>3. Goes(p, settled)
  <2>1. CASE NextGate(p, loc[p].batch \ {g}, loc[p].held)
    <3>1. /\ loc[p].batch \ {g} \in SUBSET Gates /\ loc[p].held \in BOOLEAN
          /\ loc[p].batch \ {g} \subseteq loc[p].batch /\ More(settled, settled)
      BY <1>1, MoreSelf DEF Locals
    <3>. QED  BY <2>1, <3>1, NextGateGoes
  <2>2. CASE Finish(p)
    BY <2>2, FinishGoes
  <2>3. CASE /\ Goto(p, "listing")
             /\ SetLocals(p, [loc[p] EXCEPT !.batch = @ \ {g}, !.cur = g])
    <3> DEFINE x == [loc[p] EXCEPT !.batch = @ \ {g}, !.cur = g]
    <3>1. /\ x \in Locals /\ x.rows = loc[p].rows /\ x.list = loc[p].list
          /\ x.next = loc[p].next /\ x.cur = g /\ g \in Gates
          /\ x.batch \subseteq loc[p].batch
      BY <1>1 DEF Locals
    <3>2. Hand("listing", x, settled)
      BY <1>1, <3>1 DEF Hand, HandOK, AtGate, Deciding
    <3>3. Moves(p, "listing", x) /\ "listing" \in PCs
      BY <2>3 DEF Goto, SetLocals, Moves, PCs, Yielding
    <3>. QED  BY <3>1, <3>2, <3>3 DEF Goes
  <2>. QED  BY <1>2, <2>1, <2>2, <2>3
<1>. QED  BY <1>3, QuietStep, CountersType DEF LoadGate, AccountFails

\* All the replies to the gate that are new since the mark that was read are listed.
LEMMA ListStep ==
    ASSUME GateInv, NEW p \in Actors, List(p)
    PROVE  GateInv'
<1> DEFINE since == loc[p].rows[loc[p].cur].since
           new   == {r \in DOMAIN replies : r > since}
           list  == {r \in new : Answers(replies, r, SettingRead(p).post)}
           next  == IF new = {} THEN 0 ELSE Len(replies)
<1>1. /\ NextReply(p, list, next, TRUE) /\ pc[p] = "listing" /\ pc[p] \in AtGate
      /\ loc[p].cur \in Gates /\ loc[p].rows[loc[p].cur].status # "absent"
  BY InHandNow DEF List, Turn, Hand, HandOK, Placed, AtGate
<1>2. list \subseteq 1..Len(replies) /\ next \in 0..Len(replies)
  BY InHandNow
<1>3. ASSUME loc[p].cur \notin repointed, NEW r \in 1..next,
             Answers(replies, r, gate[loc[p].cur].setting.post)
      PROVE  r \in settled[loc[p].cur] \cup list
  <2>1. /\ SettingRead(p).post = gate[loc[p].cur].setting.post
        /\ Done(since, loc[p].cur, gate[loc[p].cur].setting.post, replies, settled)
    BY <1>1, <1>3, InHandNow DEF Hand, HandOK, SettingRead
  <2>2. r \in 1..Len(replies) /\ since \in Nat
    BY <1>2, <2>1, InHandNow DEF Done
  <2>3. CASE r <= since
    BY <1>3, <2>1, <2>2, <2>3 DEF Done
  <2>4. CASE r > since
    <3>1. r \in new
      BY <2>2, <2>4, InHandNow
    <3>. QED  BY <1>3, <2>1, <3>1
  <2>. QED  BY <2>2, <2>3, <2>4
<1>. HIDE DEF list, next
<1>4. Goes(p, settled)
  BY <1>1, <1>2, <1>3, MoreSelf, NextReplyGoes
<1>. QED  BY <1>4, QuietStep, CountersType DEF List

LEMMA FindStep ==
    ASSUME GateInv, NEW p \in Actors, FindDelivery(p)
    PROVE  GateInv'
<1>1. /\ pc[p] = "reply" /\ loc[p] \in Locals /\ Hand("reply", loc[p], settled)
      /\ UNCHANGED <<rows, outside, faults>> /\ pc[p] \in AtGate
  BY InHandNow DEF FindDelivery, Turn, AtGate
<1>2. PICK r \in loc[p].list :
        \/ /\ settled' = [settled EXCEPT ![loc[p].cur] = @ \cup {r}]
           /\ NextReply(p, loc[p].list \ {r}, loc[p].next, loc[p].keep)
        \/ /\ NextReply(p, loc[p].list \ {r}, loc[p].next, FALSE)
           /\ UNCHANGED settled
        \/ /\ Goto(p, "count")
           /\ SetLocals(p, [loc[p] EXCEPT !.list = loc[p].list \ {r}, !.reply = r])
           /\ UNCHANGED settled
  BY DEF FindDelivery
<1>. PICK rest : rest = loc[p].list \ {r}
  OBVIOUS
<1>3. /\ r \in 1..Len(replies) /\ rest \subseteq 1..Len(replies) /\ loc[p].cur \in Gates
      /\ loc[p].next \in 0..Len(replies) /\ loc[p].keep \in BOOLEAN
      /\ loc[p].keep /\ loc[p].cur \notin repointed =>
            \A s \in 1..loc[p].next : Answers(replies, s, gate[loc[p].cur].setting.post) =>
               s \in settled[loc[p].cur] \cup rest \/ s = r
  BY <1>1 DEF Hand, HandOK, Placed, Deciding, Locals
<1>4. CASE /\ settled' = [settled EXCEPT ![loc[p].cur] = @ \cup {r}]
           /\ NextReply(p, rest, loc[p].next, loc[p].keep)
  <2>. PICK S : S = Decide(loc[p].cur, r)
    OBVIOUS
  <2>1. /\ More(settled, S) /\ S \in [Gates -> SUBSET Nat] /\ settled' = S
        /\ S[loc[p].cur] = settled[loc[p].cur] \cup {r}
    <3>1. settled' = S /\ r \in Nat
      BY <1>3, <1>4, InHandNow DEF Decide
    <3>. QED  BY <1>3, <3>1, DecideMore
  <2>2. loc[p].keep /\ loc[p].cur \notin repointed =>
           \A s \in 1..loc[p].next : Answers(replies, s, gate[loc[p].cur].setting.post) =>
              s \in S[loc[p].cur] \cup rest
    BY <1>3, <2>1
  <2>3. Goes(p, S)
    BY <1>1, <1>3, <1>4, <2>1, <2>2, NextReplyGoes
  <2>4. UNCHANGED <<gate, repointed, delivery, replies, sent, unrecorded, faults>>
    BY <1>1 DEF rows, outside
  <2>. QED  BY <2>1, <2>3, <2>4, KeepStep DEF GateInv, TypeOK
<1>5. CASE NextReply(p, rest, loc[p].next, FALSE) /\ UNCHANGED settled
  <2>1. Goes(p, settled)
    BY <1>1, <1>3, <1>5, MoreSelf, NextReplyGoes
  <2>. QED  BY <1>1, <1>5, <2>1, QuietStep, CountersType
<1>6. CASE /\ Goto(p, "count")
           /\ SetLocals(p, [loc[p] EXCEPT !.list = rest, !.reply = r])
           /\ UNCHANGED settled
  <2>. PICK x : x = [loc[p] EXCEPT !.list = rest, !.reply = r]
    OBVIOUS
  <2>0. rest \in SUBSET Nat /\ r \in Nat
    BY <1>3
  <2>1. /\ x \in Locals /\ x.rows = loc[p].rows /\ x.cur = loc[p].cur /\ x.list = rest
        /\ x.next = loc[p].next /\ x.keep = loc[p].keep /\ x.reply = r
        /\ x.batch = loc[p].batch
    BY <1>1, <2>0 DEF Locals
  <2>2. Hand("count", x, settled)
    BY <1>1, <1>3, <2>1 DEF Hand, HandOK, Placed, AtGate, Deciding
  <2>3. Moves(p, "count", x) /\ "count" \in PCs
    BY <1>6 DEF Goto, SetLocals, Moves, PCs, Deciding
  <2>4. Goes(p, settled)
    BY <2>1, <2>2, <2>3 DEF Goes
  <2>. QED  BY <1>1, <1>6, <2>4, QuietStep, CountersType
<1>. QED  BY <1>2, <1>4, <1>5, <1>6

\* The reply in hand is counted, checked and sent, without a write to a table.
LEMMA DeliverStep ==
    ASSUME GateInv, NEW p \in Actors,
           CountDeliveries(p) \/ CheckConditions(p) \/ Reply(p) \/ Refuse(p) \/ CallFails(p)
    PROVE  GateInv'
<1>1. UNCHANGED <<rows, outside>> /\ faults' \in Nat
  <2>1. UNCHANGED <<rows, outside>> /\ (Fail \/ UNCHANGED faults)
    BY DEF CountDeliveries, CheckConditions, Reply, Refuse, CallFails
  <2>. QED  BY <2>1, CountersType
<1>2. \/ pc[p] \in Deciding /\ PutOff(p)
      \/ pc[p] \in Deciding /\ Settle(p)
      \/ pc[p] \in Deciding /\ settled' = settled
           /\ \E l \in Deciding : Goto(p, l) /\ loc' = loc
      \/ Finish(p) /\ settled' = settled
  <2>1. CASE CountDeliveries(p)
    BY <2>1 DEF CountDeliveries, Deliver, Turn, Deciding
  <2>2. CASE CheckConditions(p)
    BY <2>2 DEF CheckConditions, Deliver, Turn, Deciding
  <2>3. CASE Reply(p) \/ Refuse(p) \/ CallFails(p)
    BY <2>3 DEF Reply, Refuse, CallFails, Turn, Deciding
  <2>. QED  BY <2>1, <2>2, <2>3
<1>3. CASE pc[p] \in Deciding /\ Settle(p)
  <2>1. Goes(p, settled') /\ More(settled, settled') /\ settled' \in [Gates -> SUBSET Nat]
    BY <1>3, SettleGoes
  <2>2. UNCHANGED <<gate, repointed, delivery, replies, sent, unrecorded>>
    BY <1>1 DEF rows, outside
  <2>. QED  BY <1>1, <2>1, <2>2, KeepStep DEF GateInv, TypeOK
<1>4. CASE ~(pc[p] \in Deciding /\ Settle(p))
  <2>1. Goes(p, settled) /\ settled' = settled
    BY <1>2, <1>4, PutOffGoes, StayGoes, FinishGoes DEF PutOff
  <2>. QED  BY <1>1, <2>1, QuietStep
<1>. QED  BY <1>3, <1>4

LEMMA OneMore ==
    ASSUME NEW f \in [Gates -> [Users -> Nat]], NEW g \in Gates, NEW u \in Users
    PROVE  [f EXCEPT ![g][u] = @ + 1] \in [Gates -> [Users -> Nat]]
<1>1. f[g] \in [Users -> Nat]
  OBVIOUS
<1>2. [f[g] EXCEPT ![u] = @ + 1] \in [Users -> Nat]
  BY <1>1
<1>. QED  BY <1>2

\* The message is out, and its record is written or is not.
LEMMA SentTypes ==
    ASSUME GateInv, NEW p \in Actors, pc[p] \in Deciding
    PROVE  /\ loc[p].cur \in Gates /\ UserOf(p) \in Users
           /\ [sent EXCEPT ![loc[p].cur][UserOf(p)] = @ + 1] \in [Gates -> [Users -> Nat]]
           /\ Unrecord(p) => unrecorded' \in [Gates -> [Users -> Nat]]
<1>1. loc[p].cur \in Gates /\ loc[p].reply \in 1..Len(replies)
  BY InHandNow DEF Hand, HandOK, Placed
<1>2. UserOf(p) \in Users
  <2>1. replies[loc[p].reply] \in ReplyRecords
    BY <1>1, InHandNow
  <2>. QED  BY <2>1 DEF UserOf, ReplyRecords
<1>3. /\ sent \in [Gates -> [Users -> Nat]] /\ unrecorded \in [Gates -> [Users -> Nat]]
  BY DEF GateInv, TypeOK
<1>4. /\ [sent EXCEPT ![loc[p].cur][UserOf(p)] = @ + 1] \in [Gates -> [Users -> Nat]]
      /\ [unrecorded EXCEPT ![loc[p].cur][UserOf(p)] = @ + 1] \in [Gates -> [Users -> Nat]]
  BY <1>1, <1>2, <1>3, OneMore
<1>. QED  BY <1>1, <1>2, <1>4 DEF Unrecord

LEMMA CallStep ==
    ASSUME GateInv, NEW p \in Actors, Accept(p) \/ LoseReply(p)
    PROVE  GateInv'
<1>1. pc[p] \in Deciding
  BY DEF Accept, LoseReply, Turn, Deciding
<1>2. CASE Accept(p)
  <2>1. Goes(p, settled)
    BY <1>1, <1>2, StayGoes DEF Accept, Deciding
  <2>2. sent' \in [Gates -> [Users -> Nat]]
    BY <1>1, <1>2, SentTypes DEF Accept
  <2>3. UNCHANGED <<gate, repointed, delivery, replies, settled, unrecorded, faults>>
    BY <1>2 DEF Accept, rows
  <2>. QED  BY <2>1, <2>2, <2>3, MoreSelf, KeepStep DEF GateInv, TypeOK
<1>3. CASE LoseReply(p)
  <2>1. Goes(p, settled)
    BY <1>3, FinishGoes DEF LoseReply
  <2>2. unrecorded' \in [Gates -> [Users -> Nat]]
    BY <1>1, <1>3, SentTypes DEF LoseReply
  <2>3. /\ UNCHANGED <<gate, repointed, delivery, replies, settled, sent>>
        /\ faults' \in Nat
    BY <1>3, CountersType DEF LoseReply, rows
  <2>. QED  BY <2>1, <2>2, <2>3, MoreSelf, KeepStep DEF GateInv, TypeOK
<1>. QED  BY <1>2, <1>3

LEMMA RowTypes ==
    ASSUME NEW d \in [Gates -> [Names -> DeliveryRows]], NEW g \in Gates, NEW n \in Names,
           NEW s \in {"delivered", "verified"}
    PROVE  /\ [d EXCEPT ![g][n] = [status |-> s, consumed |-> FALSE, ago |-> 0]]
                 \in [Gates -> [Names -> DeliveryRows]]
           /\ [d EXCEPT ![g][n].consumed = TRUE] \in [Gates -> [Names -> DeliveryRows]]
<1>1. d[g] \in [Names -> DeliveryRows] /\ d[g][n] \in DeliveryRows
  OBVIOUS
<1>2. [status |-> s, consumed |-> FALSE, ago |-> 0] \in DeliveryRows
  BY GateBoundsAssumption DEF DeliveryRows
<1>3. [d[g][n] EXCEPT !.consumed = TRUE] \in DeliveryRows
  BY <1>1 DEF DeliveryRows
<1>4. /\ [d[g] EXCEPT ![n] = [status |-> s, consumed |-> FALSE, ago |-> 0]]
            \in [Names -> DeliveryRows]
      /\ [d[g] EXCEPT ![n].consumed = TRUE] \in [Names -> DeliveryRows]
  BY <1>1, <1>2, <1>3
<1>. QED  BY <1>4

LEMMA MarkType ==
    ASSUME NEW d \in [Gates -> GateRows], NEW g \in Gates, NEW n \in Nat
    PROVE  [d EXCEPT ![g].since = n] \in [Gates -> GateRows]
<1>1. d[g] \in GateRows
  OBVIOUS
<1>2. [d[g] EXCEPT !.since = n] \in GateRows
  BY <1>1 DEF GateRows
<1>. QED  BY <1>2

LEMMA RecordStep ==
    ASSUME GateInv, NEW p \in Actors, Record(p) \/ Insert(p)
    PROVE  GateInv'
<1>1. pc[p] \in Deciding /\ UNCHANGED <<gate, repointed, replies, sent, faults>>
  BY DEF Record, Insert, Turn, Deciding, rows
<1>2. \/ Settle(p)
      \/ settled' = settled /\ Finish(p)
      \/ settled' = settled /\ Goto(p, "insert") /\ loc' = loc
  BY DEF Record, Insert
<1>3. Goes(p, settled') /\ More(settled, settled') /\ settled' \in [Gates -> SUBSET Nat]
  <2>1. CASE Settle(p)
    BY <1>1, <2>1, SettleGoes
  <2>2. CASE settled' = settled /\ Finish(p)
    BY <2>2, FinishGoes, InHandNow, MoreSelf
  <2>3. CASE settled' = settled /\ Goto(p, "insert") /\ loc' = loc
    BY <1>1, <2>3, StayGoes, InHandNow, MoreSelf DEF Deciding
  <2>. QED  BY <1>2, <2>1, <2>2, <2>3
<1>4. unrecorded' \in [Gates -> [Users -> Nat]]
  <2>1. UNCHANGED unrecorded \/ Unrecord(p)
    BY DEF Record, Insert
  <2>. QED  BY <1>1, <2>1, SentTypes DEF GateInv, TypeOK
<1>5. delivery' \in [Gates -> [Names -> DeliveryRows]]
  <2>1. IdOf(UserOf(p)) \in Names /\ loc[p].cur \in Gates
    BY <1>1, SentTypes DEF IdOf, Names
  <2>2. \/ UNCHANGED delivery
        \/ \E s \in {"delivered", "verified"} :
              delivery' = [delivery EXCEPT ![loc[p].cur][IdOf(UserOf(p))] =
                             [status |-> s, consumed |-> FALSE, ago |-> 0]]
    BY DEF Record, Insert, rows
  <2>3. delivery \in [Gates -> [Names -> DeliveryRows]]
    BY DEF GateInv, TypeOK
  <2>4. \A s \in {"delivered", "verified"} :
          [delivery EXCEPT ![loc[p].cur][IdOf(UserOf(p))] =
             [status |-> s, consumed |-> FALSE, ago |-> 0]]
            \in [Gates -> [Names -> DeliveryRows]]
    BY <2>1, <2>3, RowTypes
  <2>. QED  BY <2>2, <2>3, <2>4
<1>. QED  BY <1>1, <1>3, <1>4, <1>5, KeepStep DEF GateInv, TypeOK

SameButBackoff(x, y) ==
    y.status = x.status /\ y.since = x.since /\ y.setting = x.setting

LEMMA BackOffStep ==
    ASSUME GateInv, NEW p \in Actors, BackOff(p)
    PROVE  GateInv'
<1>1. /\ UNCHANGED <<delivery, repointed, settled, replies, sent, unrecorded, faults>>
      /\ NextGate(p, loc[p].batch, TRUE) \/ Finish(p)
  BY DEF BackOff, outside
<1>2. loc[p].batch \in SUBSET Gates
  BY InHandNow DEF Locals
<1>3. Goes(p, settled)
  BY <1>1, <1>2, MoreSelf, NextGateGoes, FinishGoes
<1>4. gate' \in [Gates -> GateRows] /\ \A g \in Gates : SameButBackoff(gate[g], gate'[g])
  <2>1. ASSUME NEW g \in Gates
        PROVE  LET new == [gate[g] EXCEPT !.backoffIn = BackoffTime]
               IN  new \in GateRows /\ SameButBackoff(gate[g], new)
    <3>1. gate[g] \in GateRows
      BY DEF GateInv, TypeOK
    <3>. QED  BY <3>1, GateBoundsAssumption DEF GateRows, SameButBackoff
  <2>2. \A g \in Gates : gate[g] \in GateRows /\ SameButBackoff(gate[g], gate[g])
    BY DEF GateInv, TypeOK, SameButBackoff
  <2>. QED  BY <2>1, <2>2 DEF BackOff
<1>5. /\ GatesMove(gate, repointed, gate', repointed')
      /\ MarksOK(gate', repointed', replies, settled')
  BY <1>1, <1>4 DEF GatesMove, MarksOK, GateInv, SameButBackoff
<1>. QED  BY <1>1, <1>3, <1>4, <1>5, MoreSelf, ActorStep DEF GateInv, TypeOK

\* No reply was put off and none remains: what the mark passes over is decided.
LEMMA MarkStep ==
    ASSUME GateInv, NEW p \in Actors, MoveMark(p)
    PROVE  GateInv'
<1>1. /\ UNCHANGED <<delivery, repointed, settled, replies, sent, unrecorded, faults>>
      /\ NextGate(p, loc[p].batch, loc[p].held) \/ Finish(p)
      /\ pc[p] = "mark"
  BY DEF MoveMark, Turn, outside
<1>2. loc[p] \in Locals /\ Hand("mark", loc[p], settled)
  BY <1>1, InHandNow
<1>3. Goes(p, settled)
  BY <1>1, <1>2, MoreSelf, NextGateGoes, FinishGoes DEF Locals
<1>4. /\ loc[p].cur \in Gates
      /\ loc[p].cur \notin repointed =>
            Done(loc[p].next, loc[p].cur, gate[loc[p].cur].setting.post, replies, settled)
  <2>1. /\ loc[p].cur \in Gates /\ loc[p].next \in 0..Len(replies)
        /\ loc[p].cur \notin repointed =>
              \A r \in 1..loc[p].next :
                 Answers(replies, r, gate[loc[p].cur].setting.post) => r \in settled[loc[p].cur]
    BY <1>2 DEF Hand, HandOK, Placed, Deciding
  <2>. QED  BY <2>1 DEF Done
<1>5. gate' \in [Gates -> GateRows]
  <2>1. gate \in [Gates -> GateRows] /\ loc[p].next \in Nat
    BY <1>2 DEF GateInv, TypeOK, Locals
  <2>2. UNCHANGED gate \/ gate' = [gate EXCEPT ![loc[p].cur].since = loc[p].next]
    BY DEF MoveMark
  <2>3. [gate EXCEPT ![loc[p].cur].since = loc[p].next] \in [Gates -> GateRows]
    BY <1>4, <2>1, MarkType
  <2>. QED  BY <2>1, <2>2, <2>3
<1>6. \A g \in Gates : \/ gate'[g] = gate[g]
                       \/ /\ g = loc[p].cur /\ gate'[g].since = loc[p].next
                          /\ gate'[g].status = gate[g].status /\ gate[g].status # "absent"
                          /\ gate'[g].setting = gate[g].setting
  <2>1. \/ gate' = gate
        \/ /\ Exists(loc[p].cur)
           /\ gate' = [gate EXCEPT ![loc[p].cur] =
                         [gate[loc[p].cur] EXCEPT !.since = loc[p].next]]
    BY DEF MoveMark
  <2>2. gate \in [Gates -> GateRows]
    BY DEF GateInv, TypeOK
  <2>. QED  BY <1>4, <2>1, <2>2 DEF GateRows, Exists
<1>7. /\ GatesMove(gate, repointed, gate', repointed')
      /\ MarksOK(gate', repointed', replies, settled')
  <2>1. GatesMove(gate, repointed, gate', repointed')
    BY <1>1, <1>6 DEF GatesMove
  <2>2. \A g \in Gates \ repointed :
           Done(gate'[g].since, g, gate'[g].setting.post, replies, settled)
    BY <1>4, <1>6 DEF GateInv, MarksOK
  <2>3. \A g \in Gates : gate'[g].status = "absent" => gate'[g].since = 0
    BY <1>6 DEF GateInv, MarksOK
  <2>. QED  BY <1>1, <2>1, <2>2, <2>3 DEF MarksOK
<1>. QED  BY <1>1, <1>3, <1>5, <1>7, MoreSelf, ActorStep DEF GateInv, TypeOK

-----------------------------------------------------------------------------
(* API requests, users, time and crashes. *)

\* A request that waits with a gate and perhaps the name of a delivery.
LEMMA RequestGoes ==
    ASSUME GateInv, NEW c \in Actors, NEW l \in {"deleteGate", "insertVerified", "consume"},
           NEW x \in Locals, Moves(c, l, x),
           x.rows = NoLocals.rows, x.list = {}, x.next = 0, x.batch = {}, x.cur \in Gates,
           l # "deleteGate" => x.name \in Names
    PROVE  Goes(c, settled)
<1>1. Hand(l, x, settled)
  BY InHandNow DEF Hand, HandOK, AtGate, Deciding, NoLocals, NoGate
<1>2. l \in PCs
  BY DEF PCs
<1>. QED  BY <1>1, <1>2 DEF Goes

LEMMA StandGoes ==
    ASSUME GateInv, NEW a \in Actors, UNCHANGED <<pc, loc>>
    PROVE  Goes(a, settled)
<1>1. Moves(a, pc[a], loc[a]) /\ pc[a] \in PCs /\ loc[a] \in Locals
      /\ Hand(pc[a], loc[a], settled)
  BY DEF Moves, GateInv, TypeOK, Hand
<1>. QED  BY <1>1 DEF Goes

\* A gate that is created has no mark; one whose post is changed is counted among
\* those of which nothing is said.
LEMMA GateRequestStep ==
    ASSUME GateInv, NEW c \in Actors,
           (\E g \in Gates : CreateGate(c, g) \/ UpdateGate(c, g)) \/ DeleteGate(c)
    PROVE  GateInv'
<1>1. /\ UNCHANGED <<delivery, settled, replies, sent, unrecorded, faults>>
      /\ UNCHANGED <<pc, loc>> \/ Finish(c)
  BY DEF CreateGate, UpdateGate, DeleteGate, outside
<1>2. Goes(c, settled)
  BY <1>1, StandGoes, FinishGoes
<1>3. gate \in [Gates -> GateRows] /\ repointed \subseteq Gates
  BY DEF GateInv, TypeOK
<1>4. ASSUME NEW g \in Gates, NEW s \in {"active", "paused", "deleted"}, NEW t \in Settings,
             gate' = [gate EXCEPT ![g] = [gate[g] EXCEPT !.status = s, !.setting = t]],
             repointed' \subseteq Gates, repointed \subseteq repointed',
             \/ gate[g].status = "absent"
             \/ g \in repointed' \/ t.post = gate[g].setting.post
      PROVE  GateInv'
  <2>1. /\ [gate[g] EXCEPT !.status = s, !.setting = t] \in GateRows /\ gate[g] \in GateRows
        /\ gate'[g].status = s /\ gate'[g].since = gate[g].since /\ gate'[g].setting = t
        /\ \A f \in Gates \ {g} : gate'[f] = gate[f]
    BY <1>3, <1>4 DEF GateRows
  <2>2. gate' \in [Gates -> GateRows]
    BY <1>3, <1>4, <2>1
  <2>3. GatesMove(gate, repointed, gate', repointed')
    BY <1>4, <2>1 DEF GatesMove
  <2>4. \A f \in Gates \ repointed' :
           Done(gate'[f].since, f, gate'[f].setting.post, replies, settled)
    <3>1. CASE gate[g].status = "absent"
      <4>1. gate'[g].since = 0
        BY <2>1, <3>1 DEF GateInv, MarksOK
      <4>2. \A post : Done(0, g, post, replies, settled)
        BY InHandNow DEF Done
      <4>. QED  BY <1>4, <2>1, <4>1, <4>2 DEF GateInv, MarksOK
    <3>2. CASE g \in repointed' \/ t.post = gate[g].setting.post
      BY <1>4, <2>1, <3>2 DEF GateInv, MarksOK
    <3>. QED  BY <1>4, <3>1, <3>2
  <2>5. MarksOK(gate', repointed', replies, settled')
    BY <1>1, <2>1, <2>4 DEF GateInv, MarksOK
  <2>. QED  BY <1>1, <1>2, <1>4, <2>2, <2>3, <2>5, MoreSelf, ActorStep DEF GateInv, TypeOK
<1>5. ASSUME NEW g \in Gates, CreateGate(c, g) PROVE GateInv'
  <2>1. CreatedWith[g] \in Settings
    BY GateActorsAssumption
  <2>2. gate' = [gate EXCEPT ![g] = [gate[g] EXCEPT !.status = "active",
                                                    !.setting = CreatedWith[g]]]
    BY <1>3, <1>5 DEF CreateGate
  <2>3. repointed' = repointed /\ gate[g].status = "absent"
    BY <1>5 DEF CreateGate
  <2>. QED  BY <1>3, <1>4, <2>1, <2>2, <2>3
<1>6. ASSUME NEW g \in Gates, UpdateGate(c, g) PROVE GateInv'
  <2>1. PICK s \in {"active", "paused"}, t \in {gate[g].setting} \cup ChangedTo[g] :
           /\ gate' = [gate EXCEPT ![g].status = s, ![g].setting = t]
           /\ repointed' = IF t.post = gate[g].setting.post THEN repointed
                           ELSE repointed \cup {g}
    BY <1>6 DEF UpdateGate
  <2>2. t \in Settings
    <3>1. gate[g] \in GateRows
      BY <1>3
    <3>. QED  BY <3>1, GateActorsAssumption DEF GateRows
  <2>3. gate' = [gate EXCEPT ![g] = [gate[g] EXCEPT !.status = s, !.setting = t]]
    BY <1>3, <2>1
  <2>4. /\ repointed' \subseteq Gates /\ repointed \subseteq repointed'
        /\ g \in repointed' \/ t.post = gate[g].setting.post
    BY <1>3, <2>1
  <2>. QED  BY <1>4, <2>2, <2>3, <2>4
<1>7. CASE DeleteGate(c)
  <2>1. loc[c].cur \in Gates /\ repointed' = repointed
    BY <1>7, InHandNow DEF DeleteGate, Turn, Hand, HandOK, Placed
  <2>2. PICK g \in Gates : g = loc[c].cur
    BY <2>1
  <2>3. CASE gate' = gate
    BY <1>1, <1>2, <2>1, <2>3, MoreSelf, KeepStep DEF GateInv, TypeOK
  <2>4. CASE gate' = [gate EXCEPT ![g].status = "deleted"]
    <3>1. gate[g] \in GateRows /\ gate[g].setting \in Settings
      BY <1>3 DEF GateRows
    <3>2. [gate[g] EXCEPT !.status = "deleted"]
            = [gate[g] EXCEPT !.status = "deleted", !.setting = gate[g].setting]
      BY <3>1 DEF GateRows
    <3>3. gate' = [gate EXCEPT ![g] = [gate[g] EXCEPT !.status = "deleted",
                                                      !.setting = gate[g].setting]]
      BY <1>3, <2>4, <3>2
    <3>. QED  BY <1>3, <1>4, <2>1, <3>1, <3>3
  <2>. QED  BY <1>7, <2>2, <2>3, <2>4 DEF DeleteGate
<1>. QED  BY <1>5, <1>6, <1>7

LEMMA DeliveryRequestStep ==
    ASSUME GateInv, NEW c \in Actors,
           \/ \E g \in Gates, u \in Users : Verify(c, g, u)
           \/ \E g \in Gates, n \in Names : FindToken(c, g, n)
           \/ \E g \in Gates : DeleteDeliveries(c, g)
           \/ InsertVerified(c) \/ ConsumeToken(c)
    PROVE  GateInv'
<1>1. UNCHANGED <<gate, repointed, settled, replies, sent, faults>>
  BY DEF Verify, FindToken, DeleteDeliveries, InsertVerified, ConsumeToken, rows, outside
<1>2. ASSUME NEW g \in Gates, NEW u \in Users, Verify(c, g, u) PROVE GateInv'
  <2> DEFINE x == [NoLocals EXCEPT !.cur = g, !.name = <<u, "name">>]
  <2>1. <<u, "name">> \in Names
    BY DEF Names
  <2>2. /\ x \in Locals /\ x.rows = NoLocals.rows /\ x.list = {} /\ x.next = 0 /\ x.batch = {}
        /\ x.cur = g /\ x.name \in Names
    BY <2>1, NoLocalsType DEF NoLocals, Locals
  <2>3. Moves(c, "insertVerified", x) /\ UNCHANGED <<delivery, unrecorded>>
    BY <1>2 DEF Verify, Goto, SetLocals, Moves, rows, outside
  <2>4. Goes(c, settled)
    BY <2>2, <2>3, RequestGoes
  <2>. QED  BY <1>1, <2>3, <2>4, MoreSelf, KeepStep DEF GateInv, TypeOK
<1>3. ASSUME NEW g \in Gates, NEW n \in Names, FindToken(c, g, n) PROVE GateInv'
  <2> DEFINE x == [NoLocals EXCEPT !.cur = g, !.name = n]
  <2>1. /\ x \in Locals /\ x.rows = NoLocals.rows /\ x.list = {} /\ x.next = 0 /\ x.batch = {}
        /\ x.cur = g /\ x.name \in Names
    BY NoLocalsType DEF NoLocals, Locals
  <2>2. Moves(c, "consume", x) /\ UNCHANGED <<delivery, unrecorded>>
    BY <1>3 DEF FindToken, Goto, SetLocals, Moves, rows, outside
  <2>3. Goes(c, settled)
    BY <2>1, <2>2, RequestGoes
  <2>. QED  BY <1>1, <2>2, <2>3, MoreSelf, KeepStep DEF GateInv, TypeOK
<1>4. ASSUME NEW g \in Gates, DeleteDeliveries(c, g) PROVE GateInv'
  <2> DEFINE x == [NoLocals EXCEPT !.cur = g]
  <2>1. /\ x \in Locals /\ x.rows = NoLocals.rows /\ x.list = {} /\ x.next = 0 /\ x.batch = {}
        /\ x.cur = g
    BY NoLocalsType DEF NoLocals, Locals
  <2>2. Moves(c, "deleteGate", x)
    BY <1>4 DEF DeleteDeliveries, Goto, SetLocals, Moves
  <2>3. Goes(c, settled)
    BY <2>1, <2>2, RequestGoes
  <2>4. delivery' \in [Gates -> [Names -> DeliveryRows]]
    BY <1>4, GateBoundsAssumption DEF DeleteDeliveries, NoDelivery, DeliveryRows, GateInv, TypeOK
  <2>5. unrecorded' \in [Gates -> [Users -> Nat]]
    <3>1. [u \in Users |-> unrecorded[g][u]
             + IF delivery[g][IdOf(u)].status = "delivered" THEN 1 ELSE 0] \in [Users -> Nat]
      BY DEF GateInv, TypeOK
    <3>. QED  BY <1>4, <3>1 DEF DeleteDeliveries, GateInv, TypeOK
  <2>. QED  BY <1>1, <2>3, <2>4, <2>5, MoreSelf, KeepStep DEF GateInv, TypeOK
<1>5. CASE InsertVerified(c) \/ ConsumeToken(c)
  <2>1. loc[c].cur \in Gates /\ loc[c].name \in Names
    BY <1>5, InHandNow DEF InsertVerified, ConsumeToken, Turn, Hand, HandOK, Placed
  <2>2. Goes(c, settled) /\ UNCHANGED unrecorded
    BY <1>5, FinishGoes DEF InsertVerified, ConsumeToken, outside
  <2>3. delivery' \in [Gates -> [Names -> DeliveryRows]]
    <3>1. delivery \in [Gates -> [Names -> DeliveryRows]]
      BY DEF GateInv, TypeOK
    <3>2. \/ UNCHANGED delivery
          \/ delivery' = [delivery EXCEPT ![loc[c].cur][loc[c].name] =
                            [status |-> "verified", consumed |-> FALSE, ago |-> 0]]
          \/ delivery' = [delivery EXCEPT ![loc[c].cur][loc[c].name].consumed = TRUE]
      BY <1>5 DEF InsertVerified, ConsumeToken
    <3>3. /\ [delivery EXCEPT ![loc[c].cur][loc[c].name] =
                 [status |-> "verified", consumed |-> FALSE, ago |-> 0]]
                \in [Gates -> [Names -> DeliveryRows]]
          /\ [delivery EXCEPT ![loc[c].cur][loc[c].name].consumed = TRUE]
                \in [Gates -> [Names -> DeliveryRows]]
      BY <2>1, <3>1, RowTypes
    <3>. QED  BY <3>1, <3>2, <3>3
  <2>. QED  BY <1>1, <2>2, <2>3, MoreSelf, KeepStep DEF GateInv, TypeOK
<1>. QED  BY <1>2, <1>3, <1>4, <1>5

\* The timeline grows or ages; nobody moves.
LEMMA TimelineStep ==
    ASSUME GateInv, replies' \in Seq(ReplyRecords), Len(replies) <= Len(replies'),
           \A r \in 1..Len(replies) : replies'[r].to = replies[r].to,
           UNCHANGED <<repointed, settled, sent, unrecorded, pc, loc, faults>>,
           gate' \in [Gates -> GateRows],
           \A g \in Gates : SameButBackoff(gate[g], gate'[g]),
           delivery' \in [Gates -> [Names -> DeliveryRows]]
    PROVE  GateInv'
<1>1. replies \in Seq(ReplyRecords) /\ More(settled, settled')
      /\ GatesMove(gate, repointed, gate', repointed')
  BY MoreSelf DEF GateInv, TypeOK, GatesMove, SameButBackoff
<1>2. /\ \A n, post : \A g \in Gates :
            Done(n, g, post, replies, settled) => Done(n, g, post, replies', settled')
      /\ \A l : \A x \in Locals : HandOK(l, x, gate, repointed, replies, settled)
                                   => HandOK(l, x, gate', repointed', replies', settled')
  BY <1>1, HandsGrow
<1>3. \A a \in Actors : HandOK(pc'[a], loc'[a], gate', repointed', replies', settled')
  <2>1. \A a \in Actors : loc[a] \in Locals
                           /\ HandOK(pc[a], loc[a], gate, repointed, replies, settled)
    BY DEF GateInv, TypeOK
  <2>. QED  BY <1>2, <2>1
<1>4. MarksOK(gate', repointed', replies', settled')
  <2>1. \A g \in Gates \ repointed :
           Done(gate[g].since, g, gate[g].setting.post, replies', settled')
    BY <1>2 DEF GateInv, MarksOK
  <2>. QED  BY <2>1 DEF GateInv, MarksOK, SameButBackoff
<1>5. TypeOK'
  BY DEF GateInv, TypeOK
<1>. QED  BY <1>3, <1>4, <1>5 DEF GateInv

LEMMA PostReplyStep ==
    ASSUME GateInv, PostReply
    PROVE  GateInv'
<1>1. PICK u \in Users, q \in Posts :
        replies' = Append(replies, [user |-> u, to |-> q, age |-> 0])
  BY DEF PostReply
<1>2. /\ replies \in Seq(ReplyRecords)
      /\ [user |-> u, to |-> q, age |-> 0] \in ReplyRecords
  BY GateBoundsAssumption DEF GateInv, TypeOK, ReplyRecords
<1>3. /\ replies' \in Seq(ReplyRecords) /\ Len(replies) <= Len(replies')
      /\ \A r \in 1..Len(replies) : replies'[r] = replies[r]
  BY <1>1, <1>2
<1>4. UNCHANGED <<gate, repointed, delivery, settled, sent, unrecorded, pc, loc, faults>>
  BY DEF PostReply, rows
<1>. QED  BY <1>3, <1>4, TimelineStep DEF GateInv, TypeOK, SameButBackoff

LEMMA TickStep ==
    ASSUME GateInv, Tick
    PROVE  GateInv'
<1>1. replies \in Seq(ReplyRecords) /\ Len(replies) \in Nat /\ DOMAIN replies = 1..Len(replies)
  BY DEF GateInv, TypeOK
<1>2. ASSUME NEW r \in 1..Len(replies)
      PROVE  /\ [replies[r] EXCEPT !.age = Later(@, Jitter)] \in ReplyRecords
             /\ [replies[r] EXCEPT !.age = Later(@, Jitter)].to = replies[r].to
  <2>1. replies[r] \in ReplyRecords
    BY <1>1
  <2>. QED  BY <2>1, GateBoundsAssumption DEF ReplyRecords, Later
<1>3. replies' \in [1..Len(replies) -> ReplyRecords]
  BY <1>1, <1>2 DEF Tick
<1>4. replies' \in Seq(ReplyRecords) /\ Len(replies') = Len(replies)
  BY <1>1, <1>3
<1>5. \A r \in 1..Len(replies) : replies'[r].to = replies[r].to
  BY <1>1, <1>2 DEF Tick
<1>6. gate' \in [Gates -> GateRows] /\ \A g \in Gates : SameButBackoff(gate[g], gate'[g])
  <2>1. ASSUME NEW g \in Gates
        PROVE  LET new == [gate[g] EXCEPT !.backoffIn = IF @ > 0 THEN @ - 1 ELSE 0]
               IN  new \in GateRows /\ SameButBackoff(gate[g], new)
    <3>1. gate[g] \in GateRows
      BY DEF GateInv, TypeOK
    <3>. QED  BY <3>1 DEF GateRows, SameButBackoff
  <2>. QED  BY <2>1 DEF Tick
<1>7. delivery' \in [Gates -> [Names -> DeliveryRows]]
  <2>1. ASSUME NEW g \in Gates, NEW n \in Names
        PROVE  [delivery[g][n] EXCEPT !.ago = Later(@, Window)] \in DeliveryRows
    <3>1. delivery[g][n] \in DeliveryRows
      BY DEF GateInv, TypeOK
    <3>. QED  BY <3>1, GateBoundsAssumption DEF DeliveryRows, Later
  <2>. QED  BY <2>1 DEF Tick
<1>8. Len(replies) <= Len(replies')
  BY <1>1, <1>4
<1>9. UNCHANGED <<repointed, settled, sent, unrecorded, pc, loc, faults>>
  BY DEF Tick
<1>. QED  BY <1>4, <1>5, <1>6, <1>7, <1>8, <1>9, TimelineStep

\* A crash takes what its process had in hand, and writes no mark.
LEMMA CrashStep ==
    ASSUME GateInv, NEW h \in Hosts, Crash(h)
    PROVE  GateInv'
<1>1. UNCHANGED <<gate, delivery, repointed, settled, replies, sent>> /\ faults' \in Nat
  BY CountersType DEF Crash, rows
<1>2. /\ pc' \in [Actors -> PCs] /\ loc' \in [Actors -> Locals]
      /\ \A a \in Actors : \/ pc'[a] = "idle" /\ loc'[a] = NoLocals
                           \/ pc'[a] = pc[a] /\ loc'[a] = loc[a]
  BY NoLocalsType DEF Crash, GateInv, TypeOK, PCs, Yielding
<1>3. ASSUME NEW a \in Actors
      PROVE  HandOK(pc'[a], loc'[a], gate', repointed', replies', settled')
  BY <1>1, <1>2, InHandNow, NoLocalsType DEF Hand
<1>4. unrecorded' \in [Gates -> [Users -> Nat]]
  <2>1. ASSUME NEW g \in Gates, NEW u \in Users
        PROVE  unrecorded[g][u]
                 + Cardinality({p \in Processors : HostOf[p] = h /\ InHand(p, g, u)}) \in Nat
    <3>1. Cardinality({p \in Processors : HostOf[p] = h /\ InHand(p, g, u)}) \in Nat
      BY GateActorsAssumption, FS_Subset, FS_CardinalityType
    <3>2. unrecorded[g][u] \in Nat
      BY DEF GateInv, TypeOK
    <3>. QED  BY <3>1, <3>2
  <2>. QED  BY <2>1 DEF Crash
<1>. QED  BY <1>1, <1>2, <1>3, <1>4 DEF GateInv, TypeOK

-----------------------------------------------------------------------------
(* The theorems. *)

LEMMA GateNext == GateInv /\ [Next]_vars => GateInv'
<1>. SUFFICES ASSUME GateInv, [Next]_vars PROVE GateInv'
  OBVIOUS
<1>1. ASSUME NEW p \in Processors, Scan(p) \/ Handle(p) \/ ProviderStep(p) PROVE GateInv'
  <2>1. p \in Actors
    BY DEF Actors
  <2>. QED  BY <1>1, <2>1, ScanStep, LoadStep, ListStep, FindStep, DeliverStep, CallStep,
               RecordStep, BackOffStep, MarkStep
            DEF Handle, ProviderStep
<1>2. ASSUME NEW c \in Clients, RequestStep(c) PROVE GateInv'
  <2>1. c \in Actors
    BY DEF Actors
  <2>. QED  BY <1>2, <2>1, GateRequestStep, DeliveryRequestStep DEF RequestStep
<1>3. CASE UNCHANGED vars
  <2>1. UNCHANGED <<gate, repointed, delivery, replies, settled, sent, unrecorded, pc, loc,
                    faults>>
    BY <1>3 DEF vars
  <2>. QED  BY <2>1, TimelineStep DEF GateInv, TypeOK, SameButBackoff
<1>. QED  BY <1>1, <1>2, <1>3, PostReplyStep, TickStep, CrashStep DEF Next

LEMMA GateInit == Init => GateInv
<1>. SUFFICES ASSUME Init PROVE GateInv
  OBVIOUS
<1>1. TypeOK
  BY NoLocalsType, GateBoundsAssumption
     DEF Init, TypeOK, NoGate, NoSetting, Settings, GateRows, NoDelivery, DeliveryRows, PCs,
         Yielding
<1>2. MarksOK(gate, repointed, replies, settled)
  BY DEF Init, NoGate, Done, MarksOK
<1>3. \A a \in Actors : HandOK(pc[a], loc[a], gate, repointed, replies, settled)
  BY <1>1, NoLocalsType DEF Init, TypeOK
<1>. QED  BY <1>1, <1>2, <1>3 DEF GateInv

\* Every state of the program has the types of TypeOK.
THEOREM GateTypeCorrect == Spec => []TypeOK
<1>1. GateInv => TypeOK
  BY DEF GateInv
<1>. QED  BY <1>1, GateInit, GateNext, PTL DEF Spec

\* Whatever processors run at once, in however many processes, whatever requests
\* come and whatever fails, the mark of a gate whose post was not changed passes
\* over no reply to the post that is not decided about.
THEOREM MarkLosesNoReply == Spec => []NoReplyLost
<1>1. GateInv => NoReplyLost
  <2>. SUFFICES ASSUME GateInv, NEW g \in Gates \ repointed, NEW r \in DOMAIN replies,
                       Answers(replies, r, gate[g].setting.post), r <= gate[g].since
                PROVE  r \in settled[g]
    BY DEF NoReplyLost
  <2>1. /\ Done(gate[g].since, g, gate[g].setting.post, replies, settled)
        /\ r \in 1..Len(replies)
    BY DEF GateInv, TypeOK, MarksOK
  <2>. QED  BY <2>1 DEF Done
<1>. QED  BY <1>1, GateInit, GateNext, PTL DEF Spec

-----------------------------------------------------------------------------
(* ActionOnce, with one processor: two that have both found no row for a user *)
(* both write to the user.  A message is in the row of the user, in the hands *)
(* of the processor, or among those that no row stands for; the processor     *)
(* finds no row before it writes, and only it adds rows under a user's id.    *)

OneProcessor == \A p, q \in Processors : p = q

Once(g, u) ==
    /\ sent[g][u] <= 1 + unrecorded[g][u]
    /\ delivery[g][IdOf(u)].status # "delivered" /\ ~(\E p \in Processors : InHand(p, g, u))
         => sent[g][u] <= unrecorded[g][u]

\* What the processor found out about the reply it decides about.
Writes(p) ==
    /\ pc[p] \in Deciding => RowOf(p).status = "absent"
    /\ pc[p] \in {"sending", "accepted"} => ~SettingRead(p).verifyOnly

\* Requests insert no row under a user's id.
Named == \A c \in Clients : pc[c] = "insertVerified" => loc[c].name[2] = "name"

OnceInv ==
    /\ \A g \in Gates, u \in Users : Once(g, u)
    /\ \A p \in Processors : Writes(p)
    /\ Named

LEMMA OnceKept ==
    ASSUME GateInv, NEW g \in Gates, NEW u \in Users, Once(g, u),
           sent'[g][u] = sent[g][u],
           unrecorded'[g][u] \in Nat, unrecorded'[g][u] >= unrecorded[g][u],
           /\ delivery'[g][IdOf(u)].status # "delivered"
           /\ ~(\E p \in Processors : InHand(p, g, u))'
           => \/ unrecorded'[g][u] > unrecorded[g][u]
              \/ /\ delivery[g][IdOf(u)].status # "delivered"
                 /\ ~\E p \in Processors : InHand(p, g, u)
    PROVE  Once(g, u)'
<1>1. sent[g][u] \in Nat /\ unrecorded[g][u] \in Nat
  BY DEF GateInv, TypeOK
<1>2. sent[g][u] <= 1 + unrecorded[g][u]
  BY DEF Once
<1>3. sent'[g][u] <= 1 + unrecorded'[g][u]
  BY <1>1, <1>2
<1>4. ASSUME delivery'[g][IdOf(u)].status # "delivered",
             ~(\E p \in Processors : InHand(p, g, u))'
      PROVE  sent'[g][u] <= unrecorded'[g][u]
  <2>1. CASE unrecorded'[g][u] > unrecorded[g][u]
    BY <1>1, <1>2, <2>1
  <2>2. CASE /\ delivery[g][IdOf(u)].status # "delivered"
             /\ ~\E p \in Processors : InHand(p, g, u)
    <3>1. sent[g][u] <= unrecorded[g][u]
      BY <2>2 DEF Once
    <3>. QED  BY <1>1, <3>1
  <2>. QED  BY <1>4, <2>1, <2>2
<1>. QED  BY <1>3, <1>4 DEF Once

\* Requests do not ask for what only the processor writes.
ClientsStay == \A c \in Clients : pc'[c] = pc[c] /\ loc'[c] = loc[c]

\* The processor is done with a reply, having accounted for its message.
LEMMA LeaveOnce ==
    ASSUME GateInv, OnceInv, OneProcessor, NEW p \in Processors, pc'[p] \notin Deciding,
           ClientsStay, sent' = sent,
           \A g \in Gates, u \in Users :
              /\ unrecorded'[g][u] \in Nat /\ unrecorded'[g][u] >= unrecorded[g][u]
              /\ \/ unrecorded'[g][u] > unrecorded[g][u]
                 \/ delivery'[g][IdOf(u)].status = "delivered"
                 \/ /\ delivery[g][IdOf(u)].status # "delivered"
                    /\ ~InHand(p, g, u)
    PROVE  OnceInv'
<1>1. ASSUME NEW g \in Gates, NEW u \in Users PROVE Once(g, u)'
  <2>1. Once(g, u) /\ sent'[g][u] = sent[g][u]
    BY DEF OnceInv, Named
  <2>2. ~InHand(p, g, u) => ~\E q \in Processors : InHand(q, g, u)
    BY DEF OneProcessor
  <2>. QED  BY <2>1, <2>2, OnceKept
<1>2. \A q \in Processors : pc'[q] \notin Deciding
  BY DEF OneProcessor
<1>3. \A q \in Processors : Writes(q)'
  BY <1>2 DEF Writes, Deciding
<1>4. Named'
  BY DEF OnceInv, Named, ClientsStay
<1>. QED  BY <1>1, <1>3, <1>4 DEF OnceInv, Named

\* The processor goes on with the reply it found no row for.
LEMMA StayOnce ==
    ASSUME GateInv, OnceInv, OneProcessor, NEW p \in Processors, ClientsStay,
           sent' = sent, unrecorded' = unrecorded, delivery' = delivery, replies' = replies,
           pc'[p] \in Deciding, delivery[loc'[p].cur][IdOf(replies[loc'[p].reply].user)].status = "absent",
           pc'[p] \in {"sending", "accepted"} => ~SettingRead(p)'.verifyOnly,
           \A g \in Gates, u \in Users : InHand(p, g, u) => InHand(p, g, u)'
    PROVE  OnceInv'
<1>1. ASSUME NEW g \in Gates, NEW u \in Users PROVE Once(g, u)'
  <2>1. Once(g, u) /\ sent'[g][u] = sent[g][u]
    BY DEF OnceInv, Named
  <2>2. unrecorded'[g][u] \in Nat /\ unrecorded'[g][u] >= unrecorded[g][u]
    BY DEF GateInv, TypeOK
  <2>3. (\E q \in Processors : InHand(q, g, u)) => (\E q \in Processors : InHand(q, g, u))'
    <3>1. ASSUME NEW q \in Processors, InHand(q, g, u) PROVE InHand(p, g, u)'
      BY <3>1 DEF OneProcessor
    <3>. QED  BY <3>1
  <2>. QED  BY <2>1, <2>2, <2>3, OnceKept
<1>2. Writes(p)'
  BY DEF Writes, RowOf, UserOf
<1>3. \A q \in Processors : Writes(q)'
  BY <1>2 DEF OneProcessor
<1>4. Named'
  BY DEF OnceInv, Named, ClientsStay
<1>. QED  BY <1>1, <1>3, <1>4 DEF OnceInv, Named

\* Steps that leave the processors where they are.
LEMMA AroundOnce ==
    ASSUME GateInv, OnceInv, sent' = sent,
           \A p \in Processors : pc'[p] = pc[p] /\ loc'[p] = loc[p],
           \A r \in 1..Len(replies) : replies'[r].user = replies[r].user,
           \A g \in Gates, u \in Users :
              /\ unrecorded'[g][u] \in Nat /\ unrecorded'[g][u] >= unrecorded[g][u]
              /\ \/ delivery'[g][IdOf(u)].status = delivery[g][IdOf(u)].status
                 \/ /\ delivery'[g][IdOf(u)].status = "absent"
                    /\ delivery[g][IdOf(u)].status = "delivered" =>
                          unrecorded'[g][u] > unrecorded[g][u],
           Named'
    PROVE  OnceInv'
<1>1. ASSUME NEW p \in Processors, pc[p] \in Deciding
      PROVE  /\ UserOf(p)' = UserOf(p) /\ UserOf(p) \in Users /\ loc[p].cur \in Gates
  <2>1. p \in Actors
    BY DEF Actors
  <2>2. loc[p].reply \in 1..Len(replies) /\ loc[p].cur \in Gates /\ UserOf(p) \in Users
    BY <1>1, <2>1, InHandNow, SentTypes DEF Hand, HandOK
  <2>. QED  BY <2>2 DEF UserOf
<1>2. ASSUME NEW g \in Gates, NEW u \in Users PROVE Once(g, u)'
  <2>1. Once(g, u) /\ sent'[g][u] = sent[g][u]
    BY DEF OnceInv, Named
  <2>2. ASSUME NEW p \in Processors, InHand(p, g, u) PROVE InHand(p, g, u)'
    <3>1. pc[p] \in Deciding
      BY <2>2 DEF InHand, Deciding
    <3>2. UserOf(p)' = UserOf(p)
      BY <1>1, <3>1
    <3>. QED  BY <2>2, <3>2 DEF InHand, SettingRead
  <2>3. (\E p \in Processors : InHand(p, g, u)) => (\E p \in Processors : InHand(p, g, u))'
    BY <2>2
  <2>. QED  BY <2>1, <2>3, OnceKept
<1>3. ASSUME NEW p \in Processors PROVE Writes(p)'
  <2>1. ASSUME pc'[p] \in Deciding PROVE RowOf(p)'.status = "absent"
    <3>1. pc[p] \in Deciding /\ RowOf(p).status = "absent"
      BY <2>1 DEF OnceInv, Named, Writes, SettingRead
    <3>2. delivery'[loc[p].cur][IdOf(UserOf(p))].status = "absent"
      BY <1>1, <3>1 DEF RowOf
    <3>3. RowOf(p)' = delivery'[loc[p].cur][IdOf(UserOf(p))]
      BY <1>1, <3>1 DEF RowOf, IdOf
    <3>. QED  BY <3>2, <3>3
  <2>. QED  BY <2>1 DEF OnceInv, Named, Writes, SettingRead
<1>. QED  BY <1>2, <1>3 DEF OnceInv, Named

-----------------------------------------------------------------------------
\* A processor moves itself only.
LEMMA OthersStay ==
    ASSUME GateInv, NEW p \in Processors, Scan(p) \/ Handle(p) \/ ProviderStep(p)
    PROVE  ClientsStay /\ \A q \in Processors : q # p => pc'[q] = pc[q]
<1>1. p \in Actors /\ (\A c \in Clients : c \in Actors /\ c # p)
      /\ \A q \in Processors : q \in Actors
  BY GateActorsAssumption DEF Actors
<1>2. /\ pc' = pc \/ \E l : Goto(p, l)
      /\ loc' = loc \/ \E x : SetLocals(p, x)
  BY DEF Scan, Handle, LoadGate, AccountFails, FindDelivery, CountDeliveries, BackOff, Record,
         Insert, MoveMark, ProviderStep, List, CallFails, CheckConditions, Accept, Reply,
         LoseReply, Refuse, Deliver, PutOff, Settle, NextReply, NextGate, Finish
<1>. QED  BY <1>1, <1>2 DEF ClientsStay, Goto, SetLocals, GateInv, TypeOK

\* Where a processor goes that is done with a reply, or with a gate.
Leaves(p) ==
    \/ pc'[p] = "idle" /\ loc'[p] = NoLocals
    \/ /\ pc'[p] \in {"gate", "reply", "mark"}
       /\ loc'[p].rows = loc[p].rows /\ loc'[p].batch \subseteq loc[p].batch
       /\ loc[p].held => loc'[p].held
       /\ pc'[p] \in {"reply", "mark"} => loc'[p].cur = loc[p].cur

LEMMA FinishLeaves ==
    ASSUME GateInv, NEW p \in Actors, Finish(p)
    PROVE  Leaves(p)
BY DEF Finish, Goto, SetLocals, Leaves, GateInv, TypeOK

LEMMA NextGateLeaves ==
    ASSUME GateInv, NEW p \in Actors, NEW batch, batch \subseteq loc[p].batch,
           NEW held, loc[p].held => held, NextGate(p, batch, held)
    PROVE  Leaves(p)
<1>1. CASE batch = {}
  BY <1>1, FinishLeaves DEF NextGate
<1>2. CASE batch # {}
  <2> DEFINE x == [NoLocals EXCEPT !.rows = loc[p].rows, !.batch = batch, !.held = held]
  <2>1. x.rows = loc[p].rows /\ x.batch = batch /\ x.held = held
    BY DEF NoLocals
  <2>2. pc'[p] = "gate" /\ loc'[p] = x
    BY <1>2 DEF NextGate, Goto, SetLocals, GateInv, TypeOK
  <2>. QED  BY <2>1, <2>2 DEF Leaves
<1>. QED  BY <1>1, <1>2

LEMMA NextReplyLeaves ==
    ASSUME GateInv, NEW p \in Actors, NEW list, NEW next, NEW keep,
           NextReply(p, list, next, keep)
    PROVE  Leaves(p)
<1>1. loc[p] \in Locals /\ loc[p].batch \subseteq loc[p].batch
  BY InHandNow
<1>2. CASE list # {} \/ (keep /\ next \notin {0, loc[p].rows[loc[p].cur].since})
  <2> DEFINE x == [loc[p] EXCEPT !.list = list, !.next = next, !.keep = keep, !.reply = 0]
  <2>1. /\ x.rows = loc[p].rows /\ x.batch = loc[p].batch /\ x.held = loc[p].held
        /\ x.cur = loc[p].cur
    BY <1>1 DEF Locals
  <2>2. pc'[p] \in {"reply", "mark"} /\ loc'[p] = x
    BY <1>2 DEF NextReply, Goto, SetLocals, GateInv, TypeOK
  <2>. QED  BY <2>1, <2>2 DEF Leaves
<1>3. CASE NextGate(p, loc[p].batch, loc[p].held)
  BY <1>1, <1>3, NextGateLeaves
<1>. QED  BY <1>2, <1>3 DEF NextReply

LEMMA LeavesDeciding == \A p : Leaves(p) => pc'[p] \notin Deciding
  BY DEF Leaves, Deciding

\* The processor turns from a reply it has not written about.
LEMMA QuietLeave ==
    ASSUME GateInv, OnceInv, OneProcessor, NEW p \in Processors, pc'[p] \notin Deciding,
           ClientsStay, pc[p] \notin {"accepted", "record", "insert"},
           sent' = sent, unrecorded' = unrecorded, delivery' = delivery
    PROVE  OnceInv'
<1>1. \A g \in Gates, u \in Users : ~InHand(p, g, u)
  BY DEF InHand
<1>2. \A g \in Gates, u \in Users :
        unrecorded'[g][u] \in Nat /\ unrecorded'[g][u] >= unrecorded[g][u]
  BY DEF GateInv, TypeOK
<1>. QED  BY <1>1, <1>2, LeaveOnce

LEMMA DeliverOnce ==
    ASSUME GateInv, OnceInv, OneProcessor, NEW p \in Processors, ClientsStay,
           pc[p] \in {"count", "checking"}, Deliver(p) \/ (Goto(p, "checking") /\ UNCHANGED loc),
           UNCHANGED <<rows, outside>>
    PROVE  OnceInv'
<1>1. p \in Actors
  BY DEF Actors
<1>2. /\ pc'[p] \in {"record", "sending", "checking"} /\ loc' = loc
      /\ pc'[p] = "sending" => ~SettingRead(p)'.verifyOnly
  BY <1>1 DEF Deliver, Goto, SettingRead, GateInv, TypeOK
<1>3. \A g \in Gates, u \in Users : ~InHand(p, g, u)
  BY DEF InHand
<1>4. delivery[loc'[p].cur][IdOf(replies[loc'[p].reply].user)].status = "absent"
  BY <1>2 DEF OnceInv, Named, Writes, RowOf, UserOf, Deciding
<1>5. pc'[p] \in Deciding /\ UNCHANGED <<delivery, replies, sent, unrecorded>>
  BY <1>2 DEF Deciding, rows, outside
<1>. QED  BY <1>2, <1>3, <1>4, <1>5, StayOnce

LEMMA GateOnce ==
    ASSUME GateInv, OnceInv, OneProcessor, NEW p \in Processors,
           \/ Scan(p) \/ LoadGate(p) \/ AccountFails(p) \/ List(p) \/ CallFails(p)
           \/ BackOff(p) \/ MoveMark(p)
    PROVE  OnceInv'
<1>1. p \in Actors
  BY DEF Actors
<1>2. /\ sent' = sent /\ unrecorded' = unrecorded /\ delivery' = delivery
      /\ pc[p] \notin {"accepted", "record", "insert"}
  BY DEF Scan, LoadGate, AccountFails, List, CallFails, BackOff, MoveMark, Turn, rows, outside
<1>3. ClientsStay
  BY OthersStay DEF Handle, ProviderStep
<1>4. pc'[p] \notin Deciding
  <2>1. \A l : Goto(p, l) => pc'[p] = l
    BY <1>1 DEF Goto, GateInv, TypeOK
  <2>2. CASE Scan(p)
    BY <2>1, <2>2 DEF Scan, Deciding
  <2>3. CASE LoadGate(p) \/ AccountFails(p)
    <3>1. PICK g \in loc[p].batch : NextGate(p, loc[p].batch \ {g}, loc[p].held)
                                    \/ Finish(p) \/ Goto(p, "listing")
      BY <2>3 DEF LoadGate, AccountFails
    <3>2. loc[p].batch \ {g} \subseteq loc[p].batch
      OBVIOUS
    <3>3. NextGate(p, loc[p].batch \ {g}, loc[p].held) \/ Finish(p) => Leaves(p)
      BY <1>1, <3>2, NextGateLeaves, FinishLeaves
    <3>. QED  BY <2>1, <3>1, <3>3, LeavesDeciding DEF Deciding
  <2>4. CASE List(p)
    BY <1>1, <2>4, NextReplyLeaves, LeavesDeciding DEF List
  <2>5. CASE CallFails(p) \/ BackOff(p) \/ MoveMark(p)
    <3>1. Finish(p) \/ \E held : NextGate(p, loc[p].batch, held) /\ (loc[p].held => held)
      BY <2>5 DEF CallFails, BackOff, MoveMark
    <3>2. loc[p].batch \subseteq loc[p].batch
      OBVIOUS
    <3>. QED  BY <1>1, <3>1, <3>2, NextGateLeaves, FinishLeaves, LeavesDeciding
  <2>. QED  BY <2>2, <2>3, <2>4, <2>5
<1>. QED  BY <1>2, <1>3, <1>4, QuietLeave

\* A reply is looked up, counted and checked before anything is written.
LEMMA DecideOnce ==
    ASSUME GateInv, OnceInv, OneProcessor, NEW p \in Processors,
           FindDelivery(p) \/ CountDeliveries(p) \/ CheckConditions(p)
    PROVE  OnceInv'
<1>1. p \in Actors /\ ClientsStay
  BY OthersStay DEF Handle, ProviderStep, Actors
<1>2. /\ UNCHANGED <<rows, outside>> /\ pc[p] \in {"reply", "count", "checking"}
      /\ UNCHANGED <<delivery, replies, sent, unrecorded>>
  BY DEF FindDelivery, CountDeliveries, CheckConditions, Turn, rows, outside
<1>3. CASE \E list, next, keep : NextReply(p, list, next, keep)
  BY <1>1, <1>2, <1>3, NextReplyLeaves, LeavesDeciding, QuietLeave
<1>4. CASE FindDelivery(p)
  <2>1. PICK r \in loc[p].list :
          \/ \E list, next, keep : NextReply(p, list, next, keep)
          \/ /\ ~Found(p, r) /\ Goto(p, "count")
             /\ SetLocals(p, [loc[p] EXCEPT !.list = loc[p].list \ {r}, !.reply = r])
    BY <1>4 DEF FindDelivery
  <2>2. CASE /\ ~Found(p, r) /\ Goto(p, "count")
             /\ SetLocals(p, [loc[p] EXCEPT !.list = loc[p].list \ {r}, !.reply = r])
    <3>1. loc[p] \in Locals
      BY <1>1, InHandNow
    <3>2. pc'[p] = "count" /\ loc'[p].cur = loc[p].cur /\ loc'[p].reply = r
      BY <1>1, <2>2, <3>1 DEF Goto, SetLocals, Locals, GateInv, TypeOK
    <3>3. delivery[loc'[p].cur][IdOf(replies[loc'[p].reply].user)].status = "absent"
      BY <2>2, <3>2 DEF Found, HasRow
    <3>4. \A g \in Gates, u \in Users : ~InHand(p, g, u)
      BY <1>2 DEF InHand
    <3>5. pc'[p] \in Deciding /\ pc'[p] \notin {"sending", "accepted"}
      BY <3>2 DEF Deciding
    <3>. QED  BY <1>1, <1>2, <3>3, <3>4, <3>5, StayOnce
  <2>. QED  BY <1>3, <2>1, <2>2
<1>5. CASE CountDeliveries(p) \/ CheckConditions(p)
  <2>1. \/ \E list, next, keep : NextReply(p, list, next, keep)
        \/ /\ Deliver(p) \/ (Goto(p, "checking") /\ UNCHANGED loc)
           /\ pc[p] \in {"count", "checking"}
    BY <1>5 DEF CountDeliveries, CheckConditions, PutOff, Settle, Turn
  <2>. QED  BY <1>1, <1>2, <1>3, <2>1, DeliverOnce
<1>. QED  BY <1>4, <1>5

\* The platform accepts a message for a user who has no row.
LEMMA AcceptOnce ==
    ASSUME GateInv, OnceInv, OneProcessor, NEW p \in Processors, Accept(p)
    PROVE  OnceInv'
<1>. PICK cur, u0 : cur = loc[p].cur /\ u0 = UserOf(p)
  OBVIOUS
<1>1. /\ p \in Actors /\ ClientsStay /\ pc[p] = "sending" /\ pc[p] \in Deciding
  BY OthersStay DEF ProviderStep, Actors, Accept, Deciding
<1>2. cur \in Gates /\ u0 \in Users
  BY <1>1, SentTypes
<1>3. /\ loc' = loc /\ pc'[p] = "accepted" /\ replies' = replies /\ delivery' = delivery
      /\ unrecorded' = unrecorded
      /\ sent' = [sent EXCEPT ![cur][u0] = @ + 1]
  BY <1>1 DEF Accept, Goto, rows, GateInv, TypeOK
<1>4. Writes(p) /\ delivery[cur][IdOf(u0)].status = "absent" /\ ~SettingRead(p).verifyOnly
  BY <1>1 DEF OnceInv, Named, Writes, RowOf
<1>5. UserOf(p)' = u0 /\ InHand(p, cur, u0)'
  BY <1>3, <1>4 DEF UserOf, InHand, SettingRead
<1>6. \A g \in Gates, u \in Users : ~\E q \in Processors : InHand(q, g, u)
  BY <1>1 DEF InHand, OneProcessor
<1>7. ASSUME NEW g \in Gates, NEW u \in Users PROVE Once(g, u)'
  <2>1. Once(g, u)
    BY DEF OnceInv, Named
  <2>2. CASE g = cur /\ u = u0
    <3>1. /\ sent'[g][u] = sent[g][u] + 1 /\ sent[g][u] \in Nat /\ unrecorded[g][u] \in Nat
      BY <1>2, <1>3, <2>2 DEF GateInv, TypeOK
    <3>2. sent[g][u] <= unrecorded[g][u]
      BY <1>4, <1>6, <2>1, <2>2 DEF Once
    <3>3. (\E q \in Processors : InHand(q, g, u))'
      BY <1>5, <2>2
    <3>4. sent'[g][u] <= 1 + unrecorded'[g][u]
      BY <1>3, <3>1, <3>2
    <3>. QED  BY <3>3, <3>4 DEF Once
  <2>3. CASE g # cur \/ u # u0
    <3>1. sent'[g][u] = sent[g][u]
      BY <1>2, <1>3, <2>3 DEF GateInv, TypeOK
    <3>2. unrecorded'[g][u] \in Nat /\ unrecorded'[g][u] >= unrecorded[g][u]
      BY <1>3 DEF GateInv, TypeOK
    <3>. QED  BY <1>3, <1>6, <2>1, <3>1, <3>2, OnceKept
  <2>. QED  BY <2>2, <2>3
<1>8. Writes(p)'
  BY <1>3, <1>4, <1>5 DEF Writes, RowOf, SettingRead
<1>9. \A q \in Processors : Writes(q)'
  BY <1>8 DEF OneProcessor
<1>. QED  BY <1>1, <1>7, <1>9 DEF OnceInv, Named, ClientsStay

\* An answer is lost, or its row refused: the message counts as unrecorded.
LEMMA UnrecordOnce ==
    ASSUME GateInv, OnceInv, OneProcessor, NEW p \in Processors, pc[p] \in Deciding,
           pc'[p] \notin Deciding, ClientsStay, sent' = sent, delivery' = delivery,
           Unrecord(p) \/ (SettingRead(p).verifyOnly /\ UNCHANGED unrecorded)
    PROVE  OnceInv'
<1>1. /\ p \in Actors /\ loc[p].cur \in Gates /\ UserOf(p) \in Users
  BY SentTypes DEF Actors
<1>2. unrecorded \in [Gates -> [Users -> Nat]]
  BY DEF GateInv, TypeOK
<1>3. ASSUME NEW g \in Gates, NEW u \in Users
      PROVE  /\ unrecorded'[g][u] \in Nat /\ unrecorded'[g][u] >= unrecorded[g][u]
             /\ InHand(p, g, u) => unrecorded'[g][u] > unrecorded[g][u]
  <2>1. CASE SettingRead(p).verifyOnly /\ UNCHANGED unrecorded
    BY <1>2, <2>1 DEF InHand
  <2>2. CASE Unrecord(p)
    <3>1. CASE g = loc[p].cur /\ u = UserOf(p)
      <4>1. unrecorded'[g][u] = unrecorded[g][u] + 1
        BY <1>1, <1>2, <2>2, <3>1 DEF Unrecord
      <4>. QED  BY <1>2, <4>1
    <3>2. CASE ~(g = loc[p].cur /\ u = UserOf(p))
      <4>1. unrecorded'[g][u] = unrecorded[g][u]
        BY <1>1, <1>2, <2>2, <3>2 DEF Unrecord
      <4>2. ~InHand(p, g, u)
        BY <3>2 DEF InHand
      <4>. QED  BY <1>2, <4>1, <4>2
    <3>. QED  BY <3>1, <3>2
  <2>. QED  BY <2>1, <2>2
<1>. QED  BY <1>3, LeaveOnce

LEMMA CallOnce ==
    ASSUME GateInv, OnceInv, OneProcessor, NEW p \in Processors,
           Reply(p) \/ LoseReply(p) \/ Refuse(p)
    PROVE  OnceInv'
<1>1. p \in Actors /\ ClientsStay /\ pc[p] \in {"accepted", "sending"} /\ pc[p] \in Deciding
  BY OthersStay DEF ProviderStep, Actors, Reply, LoseReply, Refuse, Turn, Deciding
<1>2. UNCHANGED <<delivery, replies, sent>>
  BY DEF Reply, LoseReply, Refuse, rows, outside
<1>3. RowOf(p).status = "absent" /\ ~SettingRead(p).verifyOnly
  BY <1>1 DEF OnceInv, Named, Writes
<1>4. CASE LoseReply(p)
  <2>1. pc'[p] \notin Deciding
    BY <1>1, <1>4, FinishLeaves, LeavesDeciding DEF LoseReply
  <2>. QED  BY <1>1, <1>2, <1>4, <2>1, UnrecordOnce DEF LoseReply
<1>5. CASE Refuse(p) /\ Finish(p)
  <2>1. pc'[p] \notin Deciding
    BY <1>1, <1>5, FinishLeaves, LeavesDeciding
  <2>2. pc[p] = "sending" /\ unrecorded' = unrecorded
    BY <1>5 DEF Refuse, Turn, outside
  <2>. QED  BY <1>1, <1>2, <2>1, <2>2, QuietLeave
<1>6. CASE Reply(p) \/ (Refuse(p) /\ ~Finish(p))
  <2>1. /\ loc' = loc /\ unrecorded' = unrecorded
        /\ pc'[p] \in {"record", "backOff"}
        /\ pc[p] = "accepted" => pc'[p] = "record"
    BY <1>1, <1>6 DEF Reply, Refuse, Goto, Turn, outside, GateInv, TypeOK
  <2>2. delivery[loc'[p].cur][IdOf(replies[loc'[p].reply].user)].status = "absent"
    BY <1>3, <2>1 DEF RowOf, UserOf
  <2>3. \A g \in Gates, u \in Users : InHand(p, g, u) => InHand(p, g, u)'
    BY <1>1, <1>2, <2>1 DEF InHand, UserOf, SettingRead
  <2>4. pc'[p] \in Deciding /\ pc'[p] \notin {"sending", "accepted"}
    BY <2>1 DEF Deciding
  <2>. QED  BY <1>1, <1>2, <2>1, <2>2, <2>3, <2>4, StayOnce
<1>. QED  BY <1>4, <1>5, <1>6

\* The row of the user is still missing when it is inserted.
LEMMA RecordOnce ==
    ASSUME GateInv, OnceInv, OneProcessor, NEW p \in Processors, Record(p) \/ Insert(p)
    PROVE  OnceInv'
<1>. PICK cur, u0 : cur = loc[p].cur /\ u0 = UserOf(p)
  OBVIOUS
<1>1. p \in Actors /\ ClientsStay /\ pc[p] \in {"record", "insert"} /\ pc[p] \in Deciding
  BY OthersStay DEF Handle, Actors, Record, Insert, Turn, Deciding
<1>2. cur \in Gates /\ u0 \in Users /\ IdOf(u0) \in Names
  BY <1>1, SentTypes DEF IdOf, Names
<1>3. RowOf(p).status = "absent" /\ RowOf(p) = delivery[cur][IdOf(u0)] /\ sent' = sent
      /\ replies' = replies
  BY <1>1 DEF OnceInv, Named, Writes, RowOf, Record, Insert
<1>4. CASE Record(p)
  <2>1. Goto(p, "insert") /\ loc' = loc /\ unrecorded' = unrecorded /\ delivery' = delivery
    BY <1>3, <1>4 DEF Record, rows
  <2>2. pc'[p] = "insert"
    BY <1>1, <2>1 DEF Goto, GateInv, TypeOK
  <2>3. delivery[loc'[p].cur][IdOf(replies[loc'[p].reply].user)].status = "absent"
    BY <1>3, <2>1 DEF RowOf, UserOf
  <2>4. \A g \in Gates, u \in Users : InHand(p, g, u) => InHand(p, g, u)'
    BY <1>3, <2>1, <2>2 DEF InHand, UserOf, SettingRead
  <2>5. pc'[p] \in Deciding /\ pc'[p] \notin {"sending", "accepted"}
    BY <2>2 DEF Deciding
  <2>. QED  BY <1>1, <1>3, <2>1, <2>3, <2>4, <2>5, StayOnce
<1>5. CASE Insert(p) /\ Exists(cur)
  <2> DEFINE row == [status |-> IF SettingRead(p).verifyOnly THEN "verified" ELSE "delivered",
                     consumed |-> FALSE, ago |-> 0]
  <2>1. /\ delivery' = [delivery EXCEPT ![cur][IdOf(u0)] = row]
        /\ unrecorded' = unrecorded /\ Settle(p)
    BY <1>3, <1>5 DEF Insert
  <2>2. pc'[p] \notin Deciding
    BY <1>1, <2>1, NextReplyLeaves, LeavesDeciding DEF Settle
  <2>3. delivery'[cur][IdOf(u0)] = row
    BY <1>2, <2>1 DEF GateInv, TypeOK
  <2>4. ASSUME NEW g \in Gates, NEW u \in Users, ~(g = cur /\ u = u0)
        PROVE  delivery'[g][IdOf(u)] = delivery[g][IdOf(u)] /\ ~InHand(p, g, u)
    <3>1. IdOf(u) \in Names /\ (g # cur \/ IdOf(u) # IdOf(u0))
      BY <2>4 DEF IdOf, Names
    <3>2. delivery'[g][IdOf(u)] = delivery[g][IdOf(u)]
      BY <1>2, <2>1, <3>1 DEF GateInv, TypeOK
    <3>. QED  BY <2>4, <3>2 DEF InHand
  <2>5. ASSUME NEW g \in Gates, NEW u \in Users
        PROVE  /\ unrecorded'[g][u] \in Nat /\ unrecorded'[g][u] >= unrecorded[g][u]
               /\ \/ delivery'[g][IdOf(u)].status = "delivered"
                  \/ delivery[g][IdOf(u)].status # "delivered" /\ ~InHand(p, g, u)
    <3>1. unrecorded[g][u] \in Nat
      BY DEF GateInv, TypeOK
    <3>2. CASE ~(g = cur /\ u = u0)
      BY <2>1, <2>4, <3>1, <3>2
    <3>3. CASE g = cur /\ u = u0 /\ SettingRead(p).verifyOnly
      BY <1>3, <2>1, <3>1, <3>3 DEF InHand
    <3>4. CASE g = cur /\ u = u0 /\ ~SettingRead(p).verifyOnly
      BY <2>1, <2>3, <3>1, <3>4
    <3>. QED  BY <3>2, <3>3, <3>4
  <2>. QED  BY <1>1, <1>3, <2>2, <2>5, LeaveOnce
<1>6. CASE Insert(p) /\ ~Exists(cur)
  <2>1. /\ Unrecord(p) \/ (SettingRead(p).verifyOnly /\ UNCHANGED unrecorded)
        /\ Finish(p) /\ delivery' = delivery
    BY <1>6 DEF Insert
  <2>2. pc'[p] \notin Deciding
    BY <1>1, <2>1, FinishLeaves, LeavesDeciding
  <2>. QED  BY <1>1, <1>3, <2>1, <2>2, UnrecordOnce
<1>. QED  BY <1>4, <1>5, <1>6

\* A request moves its client only.
LEMMA RequestStays ==
    ASSUME GateInv, NEW c \in Clients, RequestStep(c)
    PROVE  /\ \A p \in Processors : pc'[p] = pc[p] /\ loc'[p] = loc[p]
           /\ \A b \in Clients : b # c => pc'[b] = pc[b] /\ loc'[b] = loc[b]
<1>1. c \in Actors /\ \A p \in Processors : p \in Actors /\ p # c
  BY GateActorsAssumption DEF Actors
<1>2. /\ pc' = pc \/ \E l : Goto(c, l)
      /\ loc' = loc \/ \E x : SetLocals(c, x)
  BY DEF RequestStep, CreateGate, UpdateGate, DeleteDeliveries, Verify, FindToken, DeleteGate,
         InsertVerified, ConsumeToken, Finish
<1>. QED  BY <1>1, <1>2 DEF Goto, SetLocals, GateInv, TypeOK, Actors

LEMMA RequestNamed ==
    ASSUME GateInv, Named, NEW c \in Clients, RequestStep(c)
    PROVE  Named'
<1>1. c \in Actors
  BY DEF Actors
<1>2. \A b \in Clients : b # c => (pc'[b] = "insertVerified" => loc'[b].name[2] = "name")
  BY RequestStays DEF Named
<1>3. ASSUME pc'[c] = "insertVerified" PROVE loc'[c].name[2] = "name"
  <2>1. CASE \E g \in Gates, u \in Users : Verify(c, g, u)
    <3>1. PICK g \in Gates, u \in Users :
            SetLocals(c, [NoLocals EXCEPT !.cur = g, !.name = <<u, "name">>])
      BY <2>1 DEF Verify
    <3>2. loc'[c] = [NoLocals EXCEPT !.cur = g, !.name = <<u, "name">>]
      BY <1>1, <3>1 DEF SetLocals, GateInv, TypeOK
    <3>. QED  BY <3>2 DEF NoLocals
  <2>2. CASE ~\E g \in Gates, u \in Users : Verify(c, g, u)
    <3>1. \/ pc' = pc /\ loc' = loc
          \/ Goto(c, "idle") \/ Goto(c, "deleteGate") \/ Goto(c, "consume")
      BY <2>2 DEF RequestStep, CreateGate, UpdateGate, DeleteDeliveries, FindToken,
                  DeleteGate, InsertVerified, ConsumeToken, Finish
    <3>2. pc' = pc /\ loc' = loc
      BY <1>1, <1>3, <3>1 DEF Goto, GateInv, TypeOK
    <3>. QED  BY <1>3, <3>2 DEF Named
  <2>. QED  BY <2>1, <2>2
<1>. QED  BY <1>2, <1>3 DEF Named

LEMMA RequestOnce ==
    ASSUME GateInv, OnceInv, NEW c \in Clients, RequestStep(c)
    PROVE  OnceInv'
<1>1. /\ c \in Actors /\ sent' = sent /\ replies' = replies
      /\ delivery \in [Gates -> [Names -> DeliveryRows]]
      /\ unrecorded \in [Gates -> [Users -> Nat]]
  BY DEF RequestStep, CreateGate, UpdateGate, DeleteDeliveries, Verify, FindToken, DeleteGate,
         InsertVerified, ConsumeToken, outside, Actors, GateInv, TypeOK
<1>2. \A u \in Users : IdOf(u) \in Names /\ IdOf(u)[2] = "id"
  BY DEF IdOf, Names
<1>3. Named'
  BY RequestNamed DEF OnceInv
<1>4. ASSUME NEW g \in Gates, NEW u \in Users
      PROVE  /\ unrecorded'[g][u] \in Nat /\ unrecorded'[g][u] >= unrecorded[g][u]
             /\ \/ delivery'[g][IdOf(u)].status = delivery[g][IdOf(u)].status
                \/ /\ delivery'[g][IdOf(u)].status = "absent"
                   /\ delivery[g][IdOf(u)].status = "delivered" =>
                         unrecorded'[g][u] > unrecorded[g][u]
  <2>1. unrecorded[g][u] \in Nat /\ delivery[g][IdOf(u)] \in DeliveryRows
    BY <1>1, <1>2
  <2>2. CASE delivery' = delivery /\ unrecorded' = unrecorded
    BY <2>1, <2>2
  <2>3. ASSUME NEW f \in Gates, DeleteDeliveries(c, f)
        PROVE  /\ unrecorded'[g][u] \in Nat /\ unrecorded'[g][u] >= unrecorded[g][u]
               /\ \/ delivery'[g][IdOf(u)].status = delivery[g][IdOf(u)].status
                  \/ /\ delivery'[g][IdOf(u)].status = "absent"
                     /\ delivery[g][IdOf(u)].status = "delivered" =>
                           unrecorded'[g][u] > unrecorded[g][u]
    <3>1. CASE g = f
      <4>1. /\ delivery'[g][IdOf(u)] = NoDelivery
            /\ unrecorded'[g][u] = unrecorded[g][u]
                 + IF delivery[g][IdOf(u)].status = "delivered" THEN 1 ELSE 0
        BY <1>1, <1>2, <2>3, <3>1 DEF DeleteDeliveries
      <4>. QED  BY <2>1, <4>1 DEF NoDelivery
    <3>2. CASE g # f
      <4>1. delivery'[g] = delivery[g] /\ unrecorded'[g] = unrecorded[g]
        BY <1>1, <2>3, <3>2 DEF DeleteDeliveries
      <4>. QED  BY <2>1, <4>1
    <3>. QED  BY <3>1, <3>2
  <2>4. CASE InsertVerified(c)
    <3>1. unrecorded' = unrecorded /\ pc[c] = "insertVerified" /\ loc[c].name[2] = "name"
      BY <2>4 DEF InsertVerified, Turn, OnceInv, Named, outside
    <3>2. IdOf(u) # loc[c].name
      BY <1>2, <3>1
    <3>3. loc[c].cur \in Gates /\ loc[c].name \in Names
      BY <1>1, <3>1, InHandNow DEF Hand, HandOK, Placed
    <3>4. delivery'[g][IdOf(u)] = delivery[g][IdOf(u)]
      <4>1. \/ delivery' = delivery
            \/ delivery' = [delivery EXCEPT ![loc[c].cur][loc[c].name] =
                              [status |-> "verified", consumed |-> FALSE, ago |-> 0]]
        BY <2>4 DEF InsertVerified
      <4>. QED  BY <1>1, <1>2, <3>2, <3>3, <4>1
    <3>. QED  BY <2>1, <3>1, <3>4
  <2>5. CASE ConsumeToken(c)
    <3>1. unrecorded' = unrecorded /\ pc[c] = "consume"
      BY <2>5 DEF ConsumeToken, Turn
    <3>2. loc[c].cur \in Gates /\ loc[c].name \in Names
      BY <1>1, <3>1, InHandNow DEF Hand, HandOK, Placed
    <3>3. \/ delivery'[g][IdOf(u)] = delivery[g][IdOf(u)]
          \/ delivery'[g][IdOf(u)] = [delivery[g][IdOf(u)] EXCEPT !.consumed = TRUE]
      <4>1. PICK f \in Gates, n \in Names : f = loc[c].cur /\ n = loc[c].name
        BY <3>2
      <4>2. \/ delivery' = delivery
            \/ delivery' = [delivery EXCEPT ![f] =
                              [delivery[f] EXCEPT ![n] =
                                 [delivery[f][n] EXCEPT !.consumed = TRUE]]]
        BY <2>5, <4>1 DEF ConsumeToken
      <4>3. delivery[g] \in [Names -> DeliveryRows] /\ IdOf(u) \in Names
        BY <1>1, <1>2
      <4>4. \/ delivery'[g] = delivery[g]
            \/ /\ g = f
               /\ delivery'[g] = [delivery[g] EXCEPT ![n] =
                                    [delivery[g][n] EXCEPT !.consumed = TRUE]]
        BY <1>1, <4>2
      <4>5. CASE delivery'[g] = delivery[g]
        BY <4>5
      <4>6. CASE delivery'[g] = [delivery[g] EXCEPT ![n] =
                                   [delivery[g][n] EXCEPT !.consumed = TRUE]]
        <5>1. CASE IdOf(u) = n
          BY <4>3, <4>6, <5>1
        <5>2. CASE IdOf(u) # n
          BY <4>3, <4>6, <5>2
        <5>. QED  BY <5>1, <5>2
      <4>. QED  BY <4>4, <4>5, <4>6
    <3>4. delivery'[g][IdOf(u)].status = delivery[g][IdOf(u)].status
      BY <2>1, <3>3 DEF DeliveryRows
    <3>. QED  BY <2>1, <3>1, <3>4
  <2>. QED  BY <2>2, <2>3, <2>4, <2>5
            DEF RequestStep, CreateGate, UpdateGate, Verify, FindToken, DeleteGate, rows, outside
<1>. QED  BY <1>1, <1>3, <1>4, RequestStays, AroundOnce

LEMMA TimeOnce ==
    ASSUME GateInv, OnceInv, PostReply \/ Tick \/ UNCHANGED vars
    PROVE  OnceInv'
<1>1. UNCHANGED <<sent, unrecorded, pc, loc>>
  BY DEF PostReply, Tick, vars
<1>2. replies \in Seq(ReplyRecords) /\ DOMAIN replies = 1..Len(replies)
  BY DEF GateInv, TypeOK
<1>3. \A r \in 1..Len(replies) : replies'[r].user = replies[r].user
  <2>1. CASE PostReply
    <3>1. PICK u \in Users, q \in Posts :
            replies' = Append(replies, [user |-> u, to |-> q, age |-> 0])
      BY <2>1 DEF PostReply
    <3>. QED  BY <1>2, <3>1
  <2>2. CASE Tick
    <3>1. ASSUME NEW r \in 1..Len(replies) PROVE replies'[r].user = replies[r].user
      <4>1. replies'[r] = [replies[r] EXCEPT !.age = Later(@, Jitter)]
        BY <1>2, <2>2 DEF Tick
      <4>2. replies[r] \in ReplyRecords
        BY <1>2
      <4>. QED  BY <4>1, <4>2 DEF ReplyRecords
    <3>. QED  BY <3>1
  <2>3. CASE UNCHANGED vars
    BY <2>3 DEF vars
  <2>. QED  BY <2>1, <2>2, <2>3
<1>4. ASSUME NEW g \in Gates, NEW u \in Users
      PROVE  delivery'[g][IdOf(u)].status = delivery[g][IdOf(u)].status
  <2>1. IdOf(u) \in Names /\ delivery[g][IdOf(u)] \in DeliveryRows
    BY DEF IdOf, Names, GateInv, TypeOK
  <2>2. \/ delivery'[g][IdOf(u)] = delivery[g][IdOf(u)]
        \/ delivery'[g][IdOf(u)] = [delivery[g][IdOf(u)] EXCEPT !.ago = Later(@, Window)]
    BY <2>1 DEF PostReply, Tick, vars, rows
  <2>. QED  BY <2>1, <2>2 DEF DeliveryRows
<1>5. \A g \in Gates, u \in Users :
        unrecorded'[g][u] \in Nat /\ unrecorded'[g][u] >= unrecorded[g][u]
  BY <1>1 DEF GateInv, TypeOK
<1>6. Named'
  BY <1>1 DEF OnceInv, Named
<1>. QED  BY <1>1, <1>3, <1>4, <1>5, <1>6, AroundOnce

\* A crash loses the message its processor had in hand, and counts it.
LEMMA CrashOnce ==
    ASSUME GateInv, OnceInv, OneProcessor, NEW h \in Hosts, Crash(h)
    PROVE  OnceInv'
<1> DEFINE lost(g, u) == {p \in Processors : HostOf[p] = h /\ InHand(p, g, u)}
<1>1. /\ sent' = sent /\ replies' = replies /\ delivery' = delivery
      /\ \A g \in Gates, u \in Users :
            unrecorded'[g][u] = unrecorded[g][u] + Cardinality(lost(g, u))
  BY DEF Crash, rows
<1>2. ASSUME NEW g \in Gates, NEW u \in Users
      PROVE  /\ unrecorded'[g][u] \in Nat /\ unrecorded'[g][u] >= unrecorded[g][u]
             /\ lost(g, u) # {} => unrecorded'[g][u] > unrecorded[g][u]
  <2>1. IsFiniteSet(lost(g, u))
    BY GateActorsAssumption, FS_Subset
  <2>2. Cardinality(lost(g, u)) \in Nat /\ (Cardinality(lost(g, u)) = 0 <=> lost(g, u) = {})
    BY <2>1, FS_CardinalityType, FS_EmptySet
  <2>3. unrecorded[g][u] \in Nat
    BY DEF GateInv, TypeOK
  <2>4. unrecorded'[g][u] = unrecorded[g][u] + Cardinality(lost(g, u))
    BY <1>1
  <2> HIDE DEF lost
  <2>. QED  BY <2>2, <2>3, <2>4
<1>3. Named'
  <2>1. ASSUME NEW c \in Clients
        PROVE  pc'[c] = "idle" \/ (pc'[c] = pc[c] /\ loc'[c] = loc[c])
    BY DEF Crash, Actors
  <2>. QED  BY <2>1 DEF OnceInv, Named
<1>4. ASSUME NEW g \in Gates, NEW u \in Users PROVE Once(g, u)'
  <2>1. Once(g, u)
    BY DEF OnceInv, Named
  <2>2. ASSUME NEW p \in Processors, InHand(p, g, u)
        PROVE  InHand(p, g, u)' \/ unrecorded'[g][u] > unrecorded[g][u]
    <3>1. CASE HostOf[p] = h
      <4>1. p \in lost(g, u)
        BY <2>2, <3>1
      <4>. QED  BY <1>2, <4>1
    <3>2. CASE HostOf[p] # h
      <4>1. pc'[p] = pc[p] /\ loc'[p] = loc[p]
        BY <3>2 DEF Crash, Actors
      <4>. QED  BY <1>1, <2>2, <4>1 DEF InHand, UserOf, SettingRead
    <3>. QED  BY <3>1, <3>2
  <2>3. /\ ~(\E p \in Processors : InHand(p, g, u))'
        => \/ unrecorded'[g][u] > unrecorded[g][u]
           \/ ~\E p \in Processors : InHand(p, g, u)
    BY <2>2
  <2>4. unrecorded'[g][u] \in Nat /\ unrecorded'[g][u] >= unrecorded[g][u]
    BY <1>2
  <2>. QED  BY <1>1, <2>1, <2>3, <2>4, OnceKept
<1>5. ASSUME NEW p \in Processors PROVE Writes(p)'
  <2>1. CASE HostOf[p] = h
    <3>1. pc'[p] = "idle"
      BY <2>1 DEF Crash, Actors
    <3>. QED  BY <3>1 DEF Writes, Deciding
  <2>2. CASE HostOf[p] # h
    <3>1. pc'[p] = pc[p] /\ loc'[p] = loc[p]
      BY <2>2 DEF Crash, Actors
    <3>. QED  BY <1>1, <3>1 DEF OnceInv, Named, Writes, RowOf, UserOf, SettingRead
  <2>. QED  BY <2>1, <2>2
<1>. QED  BY <1>3, <1>4, <1>5 DEF OnceInv, Named

LEMMA OnceInit == Init => OnceInv
<1>. SUFFICES ASSUME Init PROVE OnceInv
  OBVIOUS
<1>1. \A g \in Gates, u \in Users : sent[g][u] = 0 /\ unrecorded[g][u] = 0
  BY DEF Init
<1>2. \A a \in Actors : pc[a] = "idle"
  BY DEF Init
<1>3. \A g \in Gates, u \in Users : Once(g, u)
  BY <1>1 DEF Once
<1>4. \A p \in Processors : Writes(p)
  BY <1>2 DEF Writes, Deciding, Actors
<1>. QED  BY <1>2, <1>3, <1>4 DEF OnceInv, Named, Actors

LEMMA OnceNext ==
    ASSUME GateInv, OnceInv, OneProcessor, [Next]_vars
    PROVE  OnceInv'
<1>1. ASSUME NEW p \in Processors, Scan(p) \/ Handle(p) \/ ProviderStep(p) PROVE OnceInv'
  BY <1>1, GateOnce, DecideOnce, AcceptOnce, CallOnce, RecordOnce DEF Handle, ProviderStep
<1>. QED  BY <1>1, RequestOnce, TimeOnce, CrashOnce DEF Next

\* With one processor a user is written to once per gate, plus once for every
\* message that no row stands for: lost answers, crashes, rows refused because
\* the gate is gone, and rows that were deleted with it.
THEOREM UsersWrittenOnce == ASSUME OneProcessor PROVE Spec => []ActionOnce
<1>1. GateInv /\ OnceInv => ActionOnce
  BY DEF OnceInv, Named, Once, ActionOnce
<1>2. GateInv /\ OnceInv /\ [Next]_vars => (GateInv /\ OnceInv)'
  BY GateNext, OnceNext
<1>. QED  BY <1>1, <1>2, GateInit, OnceInit, PTL DEF Spec

-----------------------------------------------------------------------------
(* LimitKept, and by how much several processors miss it: each has counted    *)
(* before the others' deliveries were recorded.  What is counted and who is   *)
(* past the count never add up to more than Limit and the processors that did *)
(* not count last.  Requests add no row under a user's id.                    *)

RecentIds == {x \in Recent : x[2][2] = "id"}

\* Past the count of deliveries, and not yet counted.
Counted == {"checking", "sending", "accepted", "record", "insert"}
Ahead   == {p \in Processors : pc[p] \in Counted}

\* The processors that may be ahead while another counts.
Rivals == IF Processors = {} THEN 0 ELSE Cardinality(Processors) - 1

RoomInv ==
    /\ IsFiniteSet(Recent)
    /\ Cardinality(RecentIds) + Cardinality(Ahead) <= Limit + Rivals

\* Only requests that verify a user come to InsertVerified, whatever the
\* processors do.
LEMMA NamedNext ==
    ASSUME GateInv, Named, [Next]_vars
    PROVE  Named'
<1>1. CASE \E c \in Clients : RequestStep(c)
  BY <1>1, RequestNamed
<1>2. ASSUME NEW p \in Processors, Scan(p) \/ Handle(p) \/ ProviderStep(p) PROVE Named'
  BY <1>2, OthersStay DEF ClientsStay, Named
<1>3. CASE UNCHANGED vars \/ PostReply \/ Tick
  BY <1>3 DEF vars, PostReply, Tick, Named
<1>4. ASSUME NEW h \in Hosts, Crash(h) PROVE Named'
  BY <1>4 DEF Crash, Actors, Named
<1>. QED  BY <1>1, <1>2, <1>3, <1>4 DEF Next

LEMMA ProcessorGoes ==
    ASSUME GateInv, NEW p \in Processors, Scan(p) \/ Handle(p) \/ ProviderStep(p)
    PROVE  \/ pc'[p] \notin {"checking", "sending", "accepted", "record", "insert"}
           \/ pc[p] \in {"checking", "sending", "accepted", "record"}
           \/ ~RateLimited
<1>1. p \in Actors /\ \A l : Goto(p, l) => pc'[p] = l
  BY DEF Goto, Actors, GateInv, TypeOK
<1>2. Leaves(p) => pc'[p] \in {"idle", "gate", "reply", "mark"}
  BY DEF Leaves
<1>3. Finish(p) => Leaves(p)
  BY <1>1, FinishLeaves
<1>4. \A list, next, keep : NextReply(p, list, next, keep) => Leaves(p)
  BY <1>1, NextReplyLeaves
<1>5. \A g, held : (NextGate(p, loc[p].batch \ {g}, held) \/ NextGate(p, loc[p].batch, held))
                     /\ (loc[p].held => held) => Leaves(p)
  BY <1>1, NextGateLeaves
<1>6. CASE Scan(p)
  BY <1>1, <1>6 DEF Scan
<1>7. CASE LoadGate(p) \/ AccountFails(p)
  BY <1>1, <1>2, <1>3, <1>5, <1>7 DEF LoadGate, AccountFails
<1>8. CASE FindDelivery(p)
  BY <1>1, <1>2, <1>4, <1>8 DEF FindDelivery
<1>9. CASE CountDeliveries(p)
  BY <1>2, <1>4, <1>9 DEF CountDeliveries, PutOff
<1>10. CASE BackOff(p) \/ MoveMark(p)
  BY <1>2, <1>3, <1>5, <1>10 DEF BackOff, MoveMark
<1>11. CASE List(p) \/ CallFails(p)
  BY <1>2, <1>3, <1>4, <1>11 DEF List, CallFails
<1>12. CASE Insert(p)
  BY <1>2, <1>3, <1>4, <1>12 DEF Insert, Settle
<1>13. CASE Record(p) \/ CheckConditions(p) \/ Accept(p) \/ Reply(p) \/ LoseReply(p) \/ Refuse(p)
  BY <1>13 DEF Record, CheckConditions, Accept, Reply, LoseReply, Refuse, Turn
<1>. QED  BY <1>6, <1>7, <1>8, <1>9, <1>10, <1>11, <1>12, <1>13 DEF Handle, ProviderStep

\* All other steps leave a processor at its statement, or crash it.
LEMMA ElsewhereStay ==
    ASSUME GateInv, NEW p \in Processors,
           \/ UNCHANGED vars \/ PostReply \/ Tick
           \/ \E c \in Clients : RequestStep(c)
           \/ \E h \in Hosts : Crash(h)
    PROVE  pc'[p] = "idle" \/ (pc'[p] = pc[p] /\ loc'[p] = loc[p])
<1>1. CASE UNCHANGED vars \/ PostReply \/ Tick
  BY <1>1 DEF vars, PostReply, Tick
<1>2. CASE \E c \in Clients : RequestStep(c)
  BY <1>2, RequestStays
<1>3. CASE \E h \in Hosts : Crash(h)
  BY <1>3 DEF Crash, Actors
<1>. QED  BY <1>1, <1>2, <1>3

LEMMA RoomNumbers ==
    /\ IsFiniteSet(Ahead) /\ IsFiniteSet(Ahead') /\ Limit \in Nat /\ Rivals \in Nat
    /\ Cardinality(Ahead) \in Nat /\ Cardinality(Ahead') \in Nat
    /\ Processors # {} => Cardinality(Processors) = Rivals + 1
    /\ Cardinality(Ahead') <= Cardinality(Processors)
<1>1. IsFiniteSet(Processors) /\ Limit \in Nat
  BY GateActorsAssumption, GateBoundsAssumption
<1>2. Ahead \subseteq Processors /\ Ahead' \subseteq Processors
  BY DEF Ahead
<1>3. /\ IsFiniteSet(Ahead) /\ IsFiniteSet(Ahead')
      /\ Cardinality(Ahead') <= Cardinality(Processors)
  BY <1>1, <1>2, FS_Subset
<1>4. /\ Cardinality(Ahead) \in Nat /\ Cardinality(Ahead') \in Nat
      /\ Cardinality(Processors) \in Nat
  BY <1>1, <1>3, FS_CardinalityType
<1>5. Processors # {} => Cardinality(Processors) # 0
  BY <1>1, FS_EmptySet
<1>. QED  BY <1>1, <1>3, <1>4, <1>5 DEF Rivals

\* Deliveries are forgotten with time and with their gate; a processor joins
\* those ahead only where it has found room among all rows.
LEMMA RoomKept ==
    ASSUME RoomInv, IsFiniteSet(Recent'), RecentIds' \subseteq RecentIds,
           Ahead' \subseteq Ahead \/ (~RateLimited /\ Processors # {})
    PROVE  RoomInv'
<1>1. IsFiniteSet(RecentIds) /\ Cardinality(RecentIds) <= Cardinality(Recent)
  BY FS_Subset DEF RoomInv, RecentIds
<1>2. IsFiniteSet(RecentIds') /\ Cardinality(RecentIds') <= Cardinality(RecentIds)
  BY <1>1, FS_Subset
<1>3. /\ Cardinality(Recent) \in Nat /\ Cardinality(RecentIds) \in Nat
      /\ Cardinality(RecentIds') \in Nat
  BY <1>1, <1>2, FS_CardinalityType DEF RoomInv
<1>4. Cardinality(RecentIds) + Cardinality(Ahead) <= Limit + Rivals
  BY DEF RoomInv
<1>5. Cardinality(RecentIds') + Cardinality(Ahead') <= Limit + Rivals
  <2>1. CASE Ahead' \subseteq Ahead
    <3>1. Cardinality(Ahead') <= Cardinality(Ahead)
      BY <2>1, RoomNumbers, FS_Subset
    <3>. QED  BY <1>2, <1>3, <1>4, <3>1, RoomNumbers
  <2>2. CASE ~RateLimited /\ Processors # {}
    <3>1. Cardinality(Recent) < Limit
      BY <1>3, <2>2, RoomNumbers DEF RateLimited
    <3>2. Cardinality(Ahead') <= Rivals + 1
      BY <2>2, RoomNumbers
    <3>. QED  BY <1>1, <1>2, <1>3, <3>1, <3>2, RoomNumbers
  <2>. QED  BY <2>1, <2>2
<1>6. Rivals' = Rivals
  BY DEF Rivals
<1>. QED  BY <1>5, <1>6 DEF RoomInv

\* A processor that records a delivery adds at most one to them, and is no
\* longer ahead of them.
LEMMA InsertRoom ==
    ASSUME GateInv, RoomInv, NEW p \in Processors, Insert(p)
    PROVE  RoomInv'
<1>. PICK new : new = <<loc[p].cur, IdOf(UserOf(p))>>
  OBVIOUS
<1>1. p \in Actors /\ pc[p] = "insert" /\ pc'[p] \in {"idle", "gate", "reply", "mark"}
  <2>1. p \in Actors
    BY DEF Actors
  <2>2. Leaves(p)
    BY <2>1, FinishLeaves, NextReplyLeaves DEF Insert, Settle
  <2>. QED  BY <2>1, <2>2 DEF Insert, Turn, Leaves
<1>2. Recent' \subseteq Recent \cup {new}
  <2>1. ASSUME NEW g \in Gates, NEW n \in Names, <<g, n>> # new
        PROVE  delivery'[g][n] = delivery[g][n]
    <3>1. delivery \in [Gates -> [Names -> DeliveryRows]]
      BY DEF GateInv, TypeOK
    <3>2. \/ delivery' = delivery
          \/ \E r : delivery' = [delivery EXCEPT ![loc[p].cur][IdOf(UserOf(p))] = r]
      BY DEF Insert
    <3>3. loc[p].cur # g \/ IdOf(UserOf(p)) # n
      BY <2>1
    <3>. QED  BY <3>1, <3>2, <3>3
  <2>2. ASSUME NEW x \in Gates \X Names, x # new,
               HasRow(x[1], x[2])', delivery'[x[1]][x[2]].ago < Window
        PROVE  HasRow(x[1], x[2]) /\ delivery[x[1]][x[2]].ago < Window
    <3>1. x[1] \in Gates /\ x[2] \in Names /\ x = <<x[1], x[2]>>
      OBVIOUS
    <3>2. delivery'[x[1]][x[2]] = delivery[x[1]][x[2]]
      BY <2>1, <2>2, <3>1
    <3>. QED  BY <2>2, <3>2 DEF HasRow
  <2>. QED  BY <2>2 DEF Recent
<1>3. IsFiniteSet(Recent \cup {new}) /\ IsFiniteSet(RecentIds)
  BY FS_AddElement, FS_Subset DEF RoomInv, RecentIds
<1>4. IsFiniteSet(Recent') /\ RecentIds' \subseteq RecentIds \cup {new}
  BY <1>2, <1>3, FS_Subset DEF RecentIds
<1>5. /\ IsFiniteSet(RecentIds \cup {new})
      /\ \/ Cardinality(RecentIds \cup {new}) = Cardinality(RecentIds)
         \/ Cardinality(RecentIds \cup {new}) = Cardinality(RecentIds) + 1
  BY <1>3, FS_AddElement
<1>6. /\ IsFiniteSet(RecentIds')
      /\ Cardinality(RecentIds') <= Cardinality(RecentIds \cup {new})
  BY <1>4, <1>5, FS_Subset
<1>7. Cardinality(RecentIds) \in Nat /\ Cardinality(RecentIds') \in Nat /\ Limit \in Nat
  BY <1>3, <1>6, FS_CardinalityType, GateBoundsAssumption
<1>8. Ahead' \subseteq Ahead \ {p} /\ p \in Ahead
  <2>1. \A q \in Processors \ {p} : pc'[q] = pc[q]
    BY OthersStay DEF Handle
  <2>. QED  BY <1>1, <2>1 DEF Ahead, Counted
<1>9. Cardinality(Ahead') <= Cardinality(Ahead) - 1
  <2>1. IsFiniteSet(Ahead \ {p}) /\ Cardinality(Ahead \ {p}) = Cardinality(Ahead) - 1
    BY <1>8, RoomNumbers, FS_RemoveElement
  <2>2. Cardinality(Ahead') <= Cardinality(Ahead \ {p})
    BY <1>8, <2>1, FS_Subset
  <2>. QED  BY <2>1, <2>2
<1>10. Cardinality(RecentIds) + Cardinality(Ahead) <= Limit + Rivals
  BY DEF RoomInv
<1>11. Cardinality(RecentIds') + Cardinality(Ahead') <= Limit + Rivals
  BY <1>5, <1>6, <1>7, <1>9, <1>10, RoomNumbers
<1>12. Rivals' = Rivals
  BY DEF Rivals
<1>. QED  BY <1>4, <1>11, <1>12 DEF RoomInv

\* No other step adds a row under a user's id, and none adds more than one row.
LEMMA RecentOthers ==
    ASSUME GateInv, Named, RoomInv, [Next]_vars, ~\E p \in Processors : Insert(p)
    PROVE  IsFiniteSet(Recent') /\ RecentIds' \subseteq RecentIds
<1>1. delivery \in [Gates -> [Names -> DeliveryRows]]
  BY DEF GateInv, TypeOK
<1>2. ASSUME \A g \in Gates, n \in Names :
                HasRow(g, n)' /\ delivery'[g][n].ago < Window =>
                  HasRow(g, n) /\ delivery[g][n].ago < Window
      PROVE  IsFiniteSet(Recent') /\ RecentIds' \subseteq RecentIds
  <2>1. Recent' \subseteq Recent
    <3>1. ASSUME NEW x \in Gates \X Names, HasRow(x[1], x[2])',
                 delivery'[x[1]][x[2]].ago < Window
          PROVE  HasRow(x[1], x[2]) /\ delivery[x[1]][x[2]].ago < Window
      BY <1>2, <3>1
    <3>. QED  BY <3>1 DEF Recent
  <2>. QED  BY <2>1, FS_Subset DEF RoomInv, RecentIds
<1>3. CASE delivery' = delivery
  BY <1>2, <1>3 DEF HasRow
<1>4. ASSUME NEW c \in Clients, NEW f \in Gates, DeleteDeliveries(c, f)
      PROVE  IsFiniteSet(Recent') /\ RecentIds' \subseteq RecentIds
  <2>1. ASSUME NEW g \in Gates, NEW n \in Names
        PROVE  delivery'[g][n] \in {delivery[g][n], NoDelivery}
    BY <1>1, <1>4 DEF DeleteDeliveries
  <2>2. NoDelivery.status = "absent"
    BY DEF NoDelivery
  <2>. QED  BY <1>2, <2>1, <2>2 DEF HasRow
<1>5. ASSUME NEW c \in Clients, InsertVerified(c)
      PROVE  IsFiniteSet(Recent') /\ RecentIds' \subseteq RecentIds
  <2>. PICK new : new = <<loc[c].cur, loc[c].name>>
    OBVIOUS
  <2>1. loc[c].name[2] = "name"
    BY <1>5 DEF InsertVerified, Turn, Named
  <2>2. ASSUME NEW g \in Gates, NEW n \in Names, <<g, n>> # new
        PROVE  delivery'[g][n] = delivery[g][n]
    <3>1. \/ delivery' = delivery
          \/ \E r : delivery' = [delivery EXCEPT ![loc[c].cur][loc[c].name] = r]
      BY <1>5 DEF InsertVerified
    <3>2. loc[c].cur # g \/ loc[c].name # n
      BY <2>2
    <3>. QED  BY <1>1, <3>1, <3>2
  <2>3. Recent' \subseteq Recent \cup {new}
    <3>1. ASSUME NEW x \in Gates \X Names, x # new,
                 HasRow(x[1], x[2])', delivery'[x[1]][x[2]].ago < Window
          PROVE  HasRow(x[1], x[2]) /\ delivery[x[1]][x[2]].ago < Window
      <4>1. x[1] \in Gates /\ x[2] \in Names /\ x = <<x[1], x[2]>>
        OBVIOUS
      <4>2. delivery'[x[1]][x[2]] = delivery[x[1]][x[2]]
        BY <2>2, <3>1, <4>1
      <4>. QED  BY <3>1, <4>2 DEF HasRow
    <3>. QED  BY <3>1 DEF Recent
  <2>4. IsFiniteSet(Recent \cup {new})
    BY FS_AddElement DEF RoomInv
  <2>5. IsFiniteSet(Recent')
    BY <2>3, <2>4, FS_Subset
  <2>6. new[2][2] # "id"
    BY <2>1
  <2>. QED  BY <2>3, <2>5, <2>6 DEF RecentIds
<1>6. ASSUME NEW c \in Clients, ConsumeToken(c)
      PROVE  IsFiniteSet(Recent') /\ RecentIds' \subseteq RecentIds
  <2>1. PICK f, m : f = loc[c].cur /\ m = loc[c].name
    OBVIOUS
  <2>2. ASSUME NEW g \in Gates, NEW n \in Names
        PROVE  /\ delivery'[g][n].status = delivery[g][n].status
               /\ delivery'[g][n].ago = delivery[g][n].ago
    <3>1. \/ delivery' = delivery
          \/ delivery' = [delivery EXCEPT ![f] =
                            [delivery[f] EXCEPT ![m] =
                               [delivery[f][m] EXCEPT !.consumed = TRUE]]]
      BY <1>6, <2>1 DEF ConsumeToken
    <3>2. delivery[g] \in [Names -> DeliveryRows] /\ delivery[g][n] \in DeliveryRows
      BY <1>1
    <3>3. \/ delivery'[g] = delivery[g]
          \/ delivery'[g] = [delivery[g] EXCEPT ![m] =
                               [delivery[g][m] EXCEPT !.consumed = TRUE]]
      BY <1>1, <3>1
    <3>4. \/ delivery'[g][n] = delivery[g][n]
          \/ delivery'[g][n] = [delivery[g][n] EXCEPT !.consumed = TRUE]
      <4>1. CASE n = m
        BY <3>2, <3>3, <4>1
      <4>2. CASE n # m
        BY <3>2, <3>3, <4>2
      <4>. QED  BY <4>1, <4>2
    <3>. QED  BY <3>2, <3>4 DEF DeliveryRows
  <2>. QED  BY <1>2, <2>2 DEF HasRow
<1>7. CASE Tick
  <2>1. ASSUME NEW g \in Gates, NEW n \in Names
        PROVE  /\ delivery'[g][n].status = delivery[g][n].status
               /\ delivery'[g][n].ago < Window => delivery[g][n].ago < Window
    <3>1. delivery'[g][n] = [delivery[g][n] EXCEPT !.ago = Later(@, Window)]
      BY <1>7 DEF Tick
    <3>2. delivery[g][n] \in DeliveryRows
      BY <1>1
    <3>3. /\ delivery'[g][n].status = delivery[g][n].status
          /\ delivery'[g][n].ago = Later(delivery[g][n].ago, Window)
      BY <3>1, <3>2 DEF DeliveryRows
    <3>. QED  BY <3>3 DEF Later
  <2>. QED  BY <1>2, <2>1 DEF HasRow
<1>8. ASSUME NEW p \in Processors, Scan(p) \/ Handle(p) \/ ProviderStep(p), ~Insert(p)
      PROVE  delivery' = delivery
  BY <1>8 DEF Scan, Handle, LoadGate, AccountFails, FindDelivery, CountDeliveries, BackOff,
              Record, MoveMark, ProviderStep, List, CallFails, CheckConditions, Accept, Reply,
              LoseReply, Refuse, rows
<1>9. ASSUME NEW c \in Clients, RequestStep(c), ~InsertVerified(c), ~ConsumeToken(c),
             ~\E g \in Gates : DeleteDeliveries(c, g)
      PROVE  delivery' = delivery
  BY <1>9 DEF RequestStep, CreateGate, UpdateGate, Verify, FindToken, DeleteGate, rows
<1>10. ASSUME UNCHANGED vars \/ PostReply \/ \E h \in Hosts : Crash(h)
       PROVE  delivery' = delivery
  BY <1>10 DEF vars, PostReply, Crash, rows
<1>. QED  BY <1>3, <1>4, <1>5, <1>6, <1>7, <1>8, <1>9, <1>10 DEF Next

LEMMA RoomNext ==
    ASSUME GateInv, Named, RoomInv, [Next]_vars
    PROVE  RoomInv'
<1>1. CASE \E p \in Processors : Insert(p)
  BY <1>1, InsertRoom
<1>2. CASE ~\E p \in Processors : Insert(p)
  <2>1. IsFiniteSet(Recent') /\ RecentIds' \subseteq RecentIds
    BY <1>2, RecentOthers
  <2>2. ASSUME NEW p \in Processors, Scan(p) \/ Handle(p) \/ ProviderStep(p)
        PROVE  Ahead' \subseteq Ahead \/ (~RateLimited /\ Processors # {})
    <3>1. \A q \in Processors \ {p} : pc'[q] = pc[q]
      BY <2>2, OthersStay
    <3>2. pc'[p] \notin Counted \/ pc[p] \in Counted \/ ~RateLimited
      BY <2>2, ProcessorGoes DEF Counted
    <3>. QED  BY <3>1, <3>2 DEF Ahead
  <2>3. CASE ~\E p \in Processors : Scan(p) \/ Handle(p) \/ ProviderStep(p)
    <3>1. \A p \in Processors : pc'[p] = "idle" \/ pc'[p] = pc[p]
      BY <2>3, ElsewhereStay DEF Next
    <3>2. Ahead' \subseteq Ahead
      BY <3>1 DEF Ahead, Counted
    <3>. QED  BY <2>1, <3>2, RoomKept
  <2>. QED  BY <2>1, <2>2, <2>3, RoomKept
<1>. QED  BY <1>1, <1>2

LEMMA RoomInit == Init => Named /\ RoomInv
<1>. SUFFICES ASSUME Init PROVE Named /\ RoomInv
  OBVIOUS
<1>1. \A g \in Gates, n \in Names : ~HasRow(g, n)
  BY DEF Init, NoDelivery, HasRow
<1>2. Recent = {} /\ RecentIds = {}
  BY <1>1 DEF Recent, RecentIds
<1>3. \A a \in Actors : pc[a] = "idle"
  BY DEF Init
<1>4. Ahead = {} /\ Named
  BY <1>3 DEF Ahead, Counted, Named, Actors
<1>5. IsFiniteSet({}) /\ Cardinality({}) = 0
  BY FS_EmptySet
<1>. QED  BY <1>2, <1>4, <1>5, RoomNumbers DEF RoomInv

\* However many processors poll the account, within Window their deliveries
\* pass Limit by fewer than there are processors, though each took its count
\* before the others recorded theirs and requests add rows meanwhile.
OvershootBounded ==
    Processors # {} =>
      Cardinality({x \in Recent : x[2][2] = "id"}) < Limit + Cardinality(Processors)

LEMMA RoomNumber ==
    ASSUME RoomInv
    PROVE  /\ Cardinality(RecentIds) \in Nat
           /\ Cardinality(RecentIds) + Cardinality(Ahead) <= Limit + Rivals
<1>1. IsFiniteSet(RecentIds)
  BY FS_Subset DEF RoomInv, RecentIds
<1>. QED  BY <1>1, FS_CardinalityType DEF RoomInv

\* That holds for any number of processes, crashes, lost answers and requests.
THEOREM OvershootLimited == Spec => []OvershootBounded
<1>1. RoomInv => OvershootBounded
  <2>. SUFFICES ASSUME RoomInv, Processors # {}
                PROVE  Cardinality(RecentIds) < Limit + Cardinality(Processors)
    BY DEF OvershootBounded, RecentIds
  <2>. QED  BY RoomNumber, RoomNumbers
<1>2. GateInv /\ Named /\ RoomInv /\ [Next]_vars => (GateInv /\ Named /\ RoomInv)'
  BY GateNext, NamedNext, RoomNext
<1>. QED  BY <1>1, <1>2, GateInit, RoomInit, PTL DEF Spec

\* With one processor it makes no more than Limit deliveries within Window,
\* though requests add and delete rows while it waits for the platform.
THEOREM DeliveriesLimited == ASSUME OneProcessor PROVE Spec => []LimitKept
<1>1. RoomInv => LimitKept
  <2>. SUFFICES ASSUME RoomInv  PROVE Cardinality(RecentIds) <= Limit
    BY DEF LimitKept, RecentIds
  <2>1. Rivals = 0
    <3>1. CASE Processors = {}
      BY <3>1 DEF Rivals
    <3>2. CASE Processors # {}
      <4>1. PICK p \in Processors : TRUE
        BY <3>2
      <4>2. Processors = {p}
        BY <4>1 DEF OneProcessor
      <4>3. Cardinality({p}) = 1
        BY FS_Singleton
      <4>. QED  BY <3>2, <4>2, <4>3, RoomNumbers
    <3>. QED  BY <3>1, <3>2
  <2>. QED  BY <2>1, RoomNumber, RoomNumbers
<1>2. GateInv /\ Named /\ RoomInv /\ [Next]_vars => (GateInv /\ Named /\ RoomInv)'
  BY GateNext, NamedNext, RoomNext
<1>. QED  BY <1>1, <1>2, GateInit, RoomInit, PTL DEF Spec

-----------------------------------------------------------------------------
(* BackoffKept, with one processor.  It passes a gate over by the time the scan *)
(* read, and no other actor writes that time: only it does, and then it holds   *)
(* the account for the rest of the batch.                                       *)

Asked == {"listing", "reply", "count", "checking", "sending", "accepted", "record",
          "insert"}

BackoffInv ==
    \A p \in Processors :
       /\ pc[p] # "idle" /\ ~loc[p].held =>
             \A g \in loc[p].batch : loc[p].rows[g].backoffIn = gate[g].backoffIn
       /\ pc[p] \in Asked => gate[loc[p].cur].backoffIn = 0

\* The times to wait for are as they were.
SameBackoffs == \A g \in Gates : gate'[g].backoffIn = gate[g].backoffIn

\* What the locals of processor p hold, when the times stay.
LEMMA BackoffFrom ==
    ASSUME GateInv, BackoffInv, OneProcessor, SameBackoffs, NEW p \in Processors,
           pc[p] # "idle",
           \/ pc'[p] = "idle"
           \/ /\ loc'[p].rows = loc[p].rows /\ loc'[p].batch \subseteq loc[p].batch
              /\ loc[p].held => loc'[p].held
              /\ pc'[p] \in Asked => /\ loc'[p].cur \in Gates
                                     /\ gate[loc'[p].cur].backoffIn = 0
    PROVE  BackoffInv'
<1>1. p \in Actors /\ loc[p].batch \subseteq Gates
  BY InHandNow DEF Actors, Locals
<1>2. ASSUME pc'[p] # "idle", ~loc'[p].held, NEW g \in loc'[p].batch
      PROVE  loc'[p].rows[g].backoffIn = gate'[g].backoffIn
  BY <1>1, <1>2 DEF BackoffInv, SameBackoffs
<1>3. ASSUME pc'[p] \in Asked PROVE gate'[loc'[p].cur].backoffIn = 0
  <2>1. pc'[p] # "idle"
    BY <1>3 DEF Asked
  <2>. QED  BY <1>3, <2>1 DEF SameBackoffs
<1>. QED  BY <1>2, <1>3 DEF BackoffInv, OneProcessor

LEMMA BackoffLeaves ==
    ASSUME GateInv, BackoffInv, OneProcessor, SameBackoffs, NEW p \in Processors,
           pc[p] # "idle", Leaves(p), pc[p] \in Asked \/ pc'[p] # "reply"
    PROVE  BackoffInv'
<1>1. p \in Actors
  BY DEF Actors
<1>2. pc[p] \in Asked => loc[p].cur \in Gates /\ gate[loc[p].cur].backoffIn = 0
  BY <1>1, InHandNow DEF Hand, HandOK, Placed, Deciding, Asked, BackoffInv
<1>3. pc'[p] \in Asked => pc'[p] = "reply"
  BY DEF Leaves, Asked
<1>. QED  BY <1>2, <1>3, BackoffFrom DEF Leaves

\* The next statement about the same reply.
LEMMA BackoffGoesOn ==
    ASSUME GateInv, BackoffInv, OneProcessor, SameBackoffs, NEW p \in Processors,
           pc[p] \in Asked, loc'[p].rows = loc[p].rows, loc'[p].batch = loc[p].batch,
           loc'[p].held = loc[p].held, loc'[p].cur = loc[p].cur
    PROVE  BackoffInv'
<1>1. p \in Actors /\ pc[p] # "idle"
  BY DEF Actors, Asked
<1>2. loc[p].cur \in Gates /\ gate[loc[p].cur].backoffIn = 0
  BY <1>1, InHandNow DEF Hand, HandOK, Placed, Deciding, Asked, BackoffInv
<1>. QED  BY <1>1, <1>2, BackoffFrom

LEMMA ScanBackoff ==
    ASSUME GateInv, BackoffInv, OneProcessor, NEW p \in Processors, Scan(p)
    PROVE  BackoffInv'
<1>1. PICK batch \in SUBSET Triggers :
        SetLocals(p, [NoLocals EXCEPT !.batch = batch,
              !.rows = [g \in Gates |-> IF g \in batch THEN gate[g] ELSE NoGate]])
  BY DEF Scan
<1> DEFINE old == [g \in Gates |-> IF g \in batch THEN gate[g] ELSE NoGate]
           x   == [NoLocals EXCEPT !.batch = batch, !.rows = old]
<1>2. x.rows = old /\ x.batch = batch
  BY DEF NoLocals
<1>3. p \in Actors /\ pc'[p] = "gate" /\ loc'[p] = x /\ gate' = gate
  BY <1>1 DEF Scan, Goto, SetLocals, Actors, GateInv, TypeOK, rows
<1>4. \A g \in batch : g \in Gates /\ old[g] = gate[g]
  BY DEF Triggers
<1>. HIDE DEF old, x
<1>5. \A g \in loc'[p].batch : loc'[p].rows[g].backoffIn = gate'[g].backoffIn
  BY <1>2, <1>3, <1>4
<1>. QED  BY <1>3, <1>5 DEF BackoffInv, OneProcessor, Asked

\* A gate is opened only if the scan found nothing to wait for.
LEMMA LoadBackoff ==
    ASSUME GateInv, BackoffInv, OneProcessor, NEW p \in Processors,
           LoadGate(p) \/ AccountFails(p)
    PROVE  BackoffInv'
<1>1. p \in Actors /\ pc[p] = "gate" /\ SameBackoffs
  BY DEF LoadGate, AccountFails, Turn, Actors, SameBackoffs, rows
<1>2. loc[p] \in Locals /\ loc[p].batch \subseteq Gates
  BY <1>1, InHandNow DEF Locals
<1>3. PICK g \in loc[p].batch :
        \/ NextGate(p, loc[p].batch \ {g}, loc[p].held)
        \/ Finish(p)
        \/ /\ ~Held(p, g) /\ Goto(p, "listing")
           /\ SetLocals(p, [loc[p] EXCEPT !.batch = @ \ {g}, !.cur = g])
  BY DEF LoadGate, AccountFails
<1>4. CASE NextGate(p, loc[p].batch \ {g}, loc[p].held) \/ Finish(p)
  <2>1. Leaves(p)
    BY <1>1, <1>4, NextGateLeaves, FinishLeaves
  <2>2. pc'[p] # "reply"
    BY <1>1, <1>4 DEF NextGate, Finish, Goto, GateInv, TypeOK
  <2>. QED  BY <1>1, <2>1, <2>2, BackoffLeaves
<1>5. CASE /\ ~Held(p, g) /\ Goto(p, "listing")
           /\ SetLocals(p, [loc[p] EXCEPT !.batch = @ \ {g}, !.cur = g])
  <2> DEFINE x == [loc[p] EXCEPT !.batch = @ \ {g}, !.cur = g]
  <2>1. /\ x.rows = loc[p].rows /\ x.batch \subseteq loc[p].batch
        /\ x.held = loc[p].held /\ x.cur = g
    BY <1>2 DEF Locals
  <2>2. loc'[p] = x
    BY <1>1, <1>5 DEF SetLocals, GateInv, TypeOK
  <2>3. gate[g].backoffIn = 0 /\ g \in Gates
    <3>1. ~loc[p].held /\ ~(loc[p].rows[g].backoffIn > 0) /\ g \in Gates
      BY <1>2, <1>5 DEF Held
    <3>2. loc[p].rows[g].backoffIn = gate[g].backoffIn
      BY <1>1, <3>1 DEF BackoffInv
    <3>3. gate[g].backoffIn \in Nat
      BY <3>1 DEF GateInv, TypeOK, GateRows
    <3>. QED  BY <3>1, <3>2, <3>3
  <2>. HIDE DEF x
  <2>. QED  BY <1>1, <2>1, <2>2, <2>3, BackoffFrom
<1>. QED  BY <1>3, <1>4, <1>5

LEMMA DecideBackoff ==
    ASSUME GateInv, BackoffInv, OneProcessor, NEW p \in Processors,
           \/ List(p) \/ CallFails(p) \/ FindDelivery(p) \/ CountDeliveries(p)
           \/ CheckConditions(p) \/ Accept(p) \/ Reply(p) \/ LoseReply(p) \/ Refuse(p)
           \/ Record(p) \/ Insert(p)
    PROVE  BackoffInv'
<1>1. p \in Actors /\ pc[p] \in Asked /\ pc[p] # "idle"
  BY DEF List, CallFails, FindDelivery, CountDeliveries, CheckConditions, Accept, Reply,
         LoseReply, Refuse, Record, Insert, Turn, Asked, Actors
<1>2. SameBackoffs
  BY DEF List, CallFails, FindDelivery, CountDeliveries, CheckConditions, Accept, Reply,
         LoseReply, Refuse, Record, Insert, rows, SameBackoffs
<1>3. Leaves(p) => BackoffInv'
  BY <1>1, <1>2, BackoffLeaves
<1>4. loc' = loc => BackoffInv'
  BY <1>1, <1>2, BackoffGoesOn
<1>5. Finish(p) => Leaves(p)
  BY <1>1, FinishLeaves
<1>6. \A list, next, keep : NextReply(p, list, next, keep) => Leaves(p)
  BY <1>1, NextReplyLeaves
<1>7. CASE FindDelivery(p)
  <2>1. PICK r \in loc[p].list :
          \/ \E list, next, keep : NextReply(p, list, next, keep)
          \/ SetLocals(p, [loc[p] EXCEPT !.list = loc[p].list \ {r}, !.reply = r])
    BY <1>7 DEF FindDelivery
  <2>2. CASE SetLocals(p, [loc[p] EXCEPT !.list = loc[p].list \ {r}, !.reply = r])
    <3> DEFINE x == [loc[p] EXCEPT !.list = loc[p].list \ {r}, !.reply = r]
    <3>1. loc'[p] = x
      BY <1>1, <2>2 DEF SetLocals, GateInv, TypeOK
    <3>2. /\ x.rows = loc[p].rows /\ x.batch = loc[p].batch /\ x.held = loc[p].held
          /\ x.cur = loc[p].cur
      BY <1>1, InHandNow DEF Locals
    <3>. HIDE DEF x
    <3>. QED  BY <1>1, <1>2, <3>1, <3>2, BackoffGoesOn
  <2>. QED  BY <1>3, <1>6, <2>1, <2>2
<1>8. CASE List(p) \/ CallFails(p)
  BY <1>3, <1>5, <1>6, <1>8 DEF List, CallFails
<1>9. CASE CountDeliveries(p) \/ CheckConditions(p)
  BY <1>3, <1>4, <1>6, <1>9 DEF CountDeliveries, CheckConditions, PutOff, Settle, Deliver
<1>10. CASE Accept(p) \/ Reply(p) \/ LoseReply(p) \/ Refuse(p)
  BY <1>3, <1>4, <1>5, <1>10 DEF Accept, Reply, LoseReply, Refuse
<1>11. CASE Record(p) \/ Insert(p)
  BY <1>3, <1>4, <1>5, <1>6, <1>11 DEF Record, Insert, Settle
<1>. QED  BY <1>7, <1>8, <1>9, <1>10, <1>11

\* Either the account is held for the rest of the batch or the mark has moved.
LEMMA WriteBackoff ==
    ASSUME GateInv, BackoffInv, OneProcessor, NEW p \in Processors, BackOff(p) \/ MoveMark(p)
    PROVE  BackoffInv'
<1>1. p \in Actors /\ pc[p] \in {"backOff", "mark"} /\ gate \in [Gates -> GateRows]
  BY DEF BackOff, MoveMark, Turn, Actors, GateInv, TypeOK
<1>2. \A batch, held : NextGate(p, batch, held) \/ Finish(p) => pc'[p] \in {"idle", "gate"}
  BY <1>1 DEF NextGate, Finish, Goto, GateInv, TypeOK
<1>3. CASE BackOff(p)
  <2>1. Finish(p) \/ NextGate(p, loc[p].batch, TRUE)
    BY <1>3 DEF BackOff
  <2>2. pc'[p] \in {"idle", "gate"}
    BY <1>2, <2>1
  <2>3. pc'[p] = "gate" => loc'[p].held
    BY <1>1, <2>1 DEF NextGate, Finish, Goto, SetLocals, NoLocals, GateInv, TypeOK
  <2>. QED  BY <2>2, <2>3 DEF BackoffInv, OneProcessor, Asked
<1>4. CASE MoveMark(p)
  <2>1. SameBackoffs
    <3>1. ASSUME NEW g \in Gates PROVE gate'[g].backoffIn = gate[g].backoffIn
      <4>1. \/ gate' = gate
            \/ gate' = [gate EXCEPT ![loc[p].cur] =
                          [gate[loc[p].cur] EXCEPT !.since = loc[p].next]]
        BY <1>4 DEF MoveMark
      <4>. QED  BY <1>1, <4>1 DEF GateRows
    <3>. QED  BY <3>1 DEF SameBackoffs
  <2>2. Finish(p) \/ NextGate(p, loc[p].batch, loc[p].held)
    BY <1>4 DEF MoveMark
  <2>3. Leaves(p)
    BY <1>1, <2>2, NextGateLeaves, FinishLeaves
  <2>4. pc'[p] # "reply" /\ pc[p] # "idle"
    BY <1>1, <1>2, <2>2
  <2>. QED  BY <2>1, <2>3, <2>4, BackoffLeaves
<1>. QED  BY <1>3, <1>4

\* Requests write no time to wait for, and time stands still during a tick.
LEMMA ElsewhereBackoff ==
    ASSUME GateInv, BackoffInv, OneProcessor,
           \/ UNCHANGED vars \/ PostReply \/ Tick
           \/ \E c \in Clients : RequestStep(c)
           \/ \E h \in Hosts : Crash(h)
    PROVE  BackoffInv'
<1>1. ASSUME SameBackoffs, NEW p \in Processors PROVE BackoffInv'
  <2>1. pc'[p] = "idle" \/ (pc'[p] = pc[p] /\ loc'[p] = loc[p])
    BY ElsewhereStay
  <2>2. p \in Actors /\ (pc[p] \in Asked => loc[p].cur \in Gates)
    BY InHandNow DEF Hand, HandOK, Placed, Deciding, Asked, Actors
  <2>3. CASE pc[p] = "idle"
    <3>1. pc'[p] = "idle"
      BY <2>1, <2>3
    <3>. QED  BY <3>1 DEF BackoffInv, OneProcessor, Asked
  <2>4. CASE pc[p] # "idle"
    BY <1>1, <2>1, <2>2, <2>4, BackoffFrom DEF BackoffInv
  <2>. QED  BY <2>3, <2>4
<1>2. CASE Tick
  BY <1>2 DEF Tick, BackoffInv, Asked
<1>3. CASE UNCHANGED vars \/ PostReply \/ \E h \in Hosts : Crash(h)
  <2>1. SameBackoffs
    BY <1>3 DEF vars, PostReply, Crash, rows, SameBackoffs
  <2>. QED  BY <1>1, <2>1 DEF BackoffInv
<1>4. ASSUME NEW c \in Clients, RequestStep(c) PROVE BackoffInv'
  <2>1. gate \in [Gates -> GateRows]
    BY DEF GateInv, TypeOK
  <2>2. ASSUME NEW g \in Gates, CreateGate(c, g) PROVE SameBackoffs
    <3>1. gate' = [gate EXCEPT ![g].status = "active", ![g].setting = CreatedWith[g]]
      BY <2>2 DEF CreateGate
    <3>. QED  BY <2>1, <3>1 DEF SameBackoffs, GateRows
  <2>3. ASSUME NEW g \in Gates, UpdateGate(c, g) PROVE SameBackoffs
    <3>1. PICK s, t : gate' = [gate EXCEPT ![g].status = s, ![g].setting = t]
      BY <2>3 DEF UpdateGate
    <3>. QED  BY <2>1, <3>1 DEF SameBackoffs, GateRows
  <2>4. DeleteGate(c) => SameBackoffs
    <3>1. DeleteGate(c) => \/ gate' = gate
                           \/ gate' = [gate EXCEPT ![loc[c].cur].status = "deleted"]
      BY DEF DeleteGate
    <3>. QED  BY <2>1, <3>1 DEF SameBackoffs, GateRows
  <2>5. ASSUME gate' = gate PROVE SameBackoffs
    BY <2>5 DEF SameBackoffs
  <2>6. \/ \E g \in Gates : CreateGate(c, g) \/ UpdateGate(c, g)
        \/ DeleteGate(c)
        \/ gate' = gate
    BY <1>4 DEF RequestStep, DeleteDeliveries, Verify, FindToken, InsertVerified, ConsumeToken, rows
  <2>. QED  BY <1>1, <2>2, <2>3, <2>4, <2>5, <2>6 DEF BackoffInv
<1>. QED  BY <1>2, <1>3, <1>4

LEMMA BackoffNext ==
    ASSUME GateInv, BackoffInv, OneProcessor, [Next]_vars
    PROVE  BackoffInv'
BY ScanBackoff, LoadBackoff, DecideBackoff, WriteBackoff, ElsewhereBackoff
   DEF Next, Handle, ProviderStep

\* A call starts where the gate has nothing to wait for.
LEMMA CallsAfterBackoff ==
    ASSUME GateInv, BackoffInv, OneProcessor, [Next]_vars, NEW p \in Processors,
           pc[p] # "sending", pc'[p] = "sending"
    PROVE  gate[loc[p].cur].backoffIn = 0
<1>1. \E q \in Processors : Scan(q) \/ Handle(q) \/ ProviderStep(q)
  BY ElsewhereStay DEF Next
<1>2. Scan(p) \/ Handle(p) \/ ProviderStep(p)
  BY <1>1 DEF OneProcessor
<1>3. p \in Actors /\ \A l : Goto(p, l) => pc'[p] = l
  BY DEF Goto, Actors, GateInv, TypeOK
<1>4. pc'[p] \notin {"idle", "gate", "reply", "mark"}
  OBVIOUS
<1>5. ~Leaves(p)
  BY <1>4 DEF Leaves
<1>6. ~Finish(p) /\ \A list, next, keep : ~NextReply(p, list, next, keep)
  BY <1>3, <1>5, FinishLeaves, NextReplyLeaves
<1>7. \A batch, held : ~NextGate(p, batch, held)
  BY <1>3, <1>4, <1>6 DEF NextGate
<1>8. pc[p] \in {"count", "checking"}
  BY <1>2, <1>3, <1>6, <1>7
     DEF Scan, Handle, LoadGate, AccountFails, FindDelivery, CountDeliveries, BackOff, Record,
         Insert, MoveMark, ProviderStep, List, CallFails, CheckConditions, Accept, Reply,
         LoseReply, Refuse, Deliver, PutOff, Settle, Turn
<1>. QED  BY <1>8 DEF BackoffInv, Asked

\* After the platform asked for a pause the processor sends for no gate that is
\* to wait, whatever requests come between its steps.
THEOREM BackoffRespected == ASSUME OneProcessor PROVE Spec => BackoffKept
<1> DEFINE I == GateInv /\ BackoffInv
           Kept == \A p \in Processors : pc[p] # "sending" /\ pc'[p] = "sending" =>
                                           gate[loc[p].cur].backoffIn = 0
<1>1. Init => I
  <2>1. Init => BackoffInv
    BY DEF Init, BackoffInv, Actors, Asked
  <2>. QED  BY <2>1, GateInit
<1>2. I /\ [Next]_vars => I'
  BY GateNext, BackoffNext
<1>3. I /\ [Next]_vars => [Kept]_vars
  <2> SUFFICES ASSUME I, [Next]_vars PROVE Kept
    OBVIOUS
  <2>. QED  BY CallsAfterBackoff
<1> HIDE DEF I
<1>. QED  BY <1>1, <1>2, <1>3, PTL DEF Spec, BackoffKept

-----------------------------------------------------------------------------
(* consumeToken tests consumedAt in one statement and writes it in the next:  *)
(* within one process no other request comes between the two.                 *)

OneServer == \A b, c \in Clients : HostOf[b] = HostOf[c]

\* A request that will be told it has consumed a token is the first to do so.
TokenRedeemedOnce ==
    \A c \in Clients :
       pc[c] = "consume" => ~delivery[loc[c].cur][loc[c].name].consumed

\* While a request has a token in hand, no other request runs.
LEMMA AloneWithToken ==
    ASSUME OneServer, NEW b \in Clients, NEW c \in Clients, b # c, pc[b] = "consume",
           RequestStep(c)
    PROVE  FALSE
<1>1. b \in Actors \ {c} /\ HostOf[b] = HostOf[c]
  BY DEF OneServer, Actors
<1>2. \E l : Turn(c, l)
  BY DEF RequestStep, Offered, CreateGate, UpdateGate, DeleteDeliveries, Verify, FindToken,
         DeleteGate, InsertVerified, ConsumeToken
<1>. QED  BY <1>1, <1>2 DEF Turn, Yielding

\* Only a request redeems: what processors write, and time, redeem nothing.
LEMMA NothingRedeemed ==
    ASSUME GateInv, [Next]_vars, ~\E c \in Clients : RequestStep(c),
           NEW g \in Gates, NEW n \in Names, ~delivery[g][n].consumed
    PROVE  ~delivery'[g][n].consumed
<1>1. delivery \in [Gates -> [Names -> DeliveryRows]] /\ delivery[g][n] \in DeliveryRows
  BY DEF GateInv, TypeOK
<1>2. CASE \E p \in Processors : Insert(p)
  <2>1. PICK p \in Processors : Insert(p)
    BY <1>2
  <2>2. PICK f, m : f = loc[p].cur /\ m = IdOf(UserOf(p))
    OBVIOUS
  <2>3. \/ delivery' = delivery
        \/ \E s \in {"delivered", "verified"} :
              delivery' = [delivery EXCEPT ![f][m] =
                             [status |-> s, consumed |-> FALSE, ago |-> 0]]
    BY <2>1, <2>2 DEF Insert
  <2>. QED  BY <1>1, <2>3
<1>3. CASE Tick
  <2>1. delivery'[g][n] = [delivery[g][n] EXCEPT !.ago = Later(@, Window)]
    BY <1>3 DEF Tick
  <2>. QED  BY <1>1, <2>1 DEF DeliveryRows
<1>4. CASE ~Tick /\ ~\E p \in Processors : Insert(p)
  <2>1. delivery' = delivery
    BY <1>4 DEF Next, vars, rows, Scan, Handle, LoadGate, AccountFails, FindDelivery,
           CountDeliveries, BackOff, Record, MoveMark, ProviderStep, List, CallFails,
           CheckConditions, Accept, Reply, LoseReply, Refuse, PostReply, Crash
  <2>. QED  BY <2>1
<1>. QED  BY <1>2, <1>3, <1>4

LEMMA TokenElsewhere ==
    ASSUME GateInv, TokenRedeemedOnce, [Next]_vars, ~\E c \in Clients : RequestStep(c)
    PROVE  TokenRedeemedOnce'
<1>1. ASSUME NEW c \in Clients, pc'[c] = "consume"
      PROVE  ~delivery'[loc'[c].cur][loc'[c].name].consumed
  <2>1. c \in Actors
    BY DEF Actors
  <2>2. pc'[c] = "idle" \/ (pc'[c] = pc[c] /\ loc'[c] = loc[c])
    <3>1. CASE \E p \in Processors : Scan(p) \/ Handle(p) \/ ProviderStep(p)
      BY <3>1, OthersStay DEF ClientsStay
    <3>2. CASE ~\E p \in Processors : Scan(p) \/ Handle(p) \/ ProviderStep(p)
      BY <2>1, <3>2 DEF Next, PostReply, Tick, Crash, vars
    <3>. QED  BY <3>1, <3>2
  <2>3. pc[c] = "consume" /\ loc'[c] = loc[c]
    BY <1>1, <2>2
  <2>4. loc[c].cur \in Gates /\ loc[c].name \in Names
    BY <2>1, <2>3, InHandNow DEF Hand, HandOK, Placed
  <2>5. ~delivery[loc[c].cur][loc[c].name].consumed
    BY <2>3 DEF TokenRedeemedOnce
  <2>. QED  BY <2>3, <2>4, <2>5, NothingRedeemed
<1>. QED  BY <1>1 DEF TokenRedeemedOnce

LEMMA TokenRequest ==
    ASSUME GateInv, OneServer, NEW c \in Clients, RequestStep(c)
    PROVE  TokenRedeemedOnce'
<1>1. c \in Actors
  BY DEF Actors
<1>2. ASSUME NEW b \in Clients, b # c PROVE pc'[b] # "consume"
  <2>1. pc'[b] = pc[b]
    BY <1>2, RequestStays
  <2>. QED  BY <1>2, <2>1, AloneWithToken
<1>3. ASSUME pc'[c] = "consume" PROVE ~delivery'[loc'[c].cur][loc'[c].name].consumed
  <2>1. CASE \E g \in Gates, n \in Names : FindToken(c, g, n)
    <3>1. PICK g \in Gates, n \in Names : FindToken(c, g, n)
      BY <2>1
    <3>2. loc'[c] = [NoLocals EXCEPT !.cur = g, !.name = n]
      BY <1>1, <3>1 DEF FindToken, SetLocals, GateInv, TypeOK
    <3>3. loc'[c].cur = g /\ loc'[c].name = n
      BY <3>2 DEF NoLocals
    <3>. QED  BY <3>1, <3>3 DEF FindToken, rows
  <2>2. CASE ~\E g \in Gates, n \in Names : FindToken(c, g, n)
    <3>1. \/ pc' = pc /\ \E l \in Yielding : Turn(c, l)
          \/ Goto(c, "idle") \/ Goto(c, "deleteGate") \/ Goto(c, "insertVerified")
      BY <2>2 DEF RequestStep, CreateGate, UpdateGate, DeleteDeliveries, Verify, DeleteGate,
                  InsertVerified, ConsumeToken, Finish, Offered, Yielding
    <3>. QED  BY <1>1, <1>3, <3>1 DEF Goto, Turn, Yielding, GateInv, TypeOK
  <2>. QED  BY <2>1, <2>2
<1>. QED  BY <1>2, <1>3 DEF TokenRedeemedOnce

\* When one process serves the API, a token is redeemed once, though processors
\* of other processes write rows, processes crash, and a gate is deleted with
\* the row its token came from.
THEOREM TokensRedeemedOnce == ASSUME OneServer PROVE Spec => []TokenRedeemedOnce
<1>1. Init => TokenRedeemedOnce
  BY DEF Init, TokenRedeemedOnce, Actors
<1>2. GateInv /\ TokenRedeemedOnce /\ [Next]_vars => (GateInv /\ TokenRedeemedOnce)'
  BY GateNext, TokenElsewhere, TokenRequest
<1>. QED  BY <1>1, <1>2, GateInit, PTL DEF Spec
=============================================================================
