-------------------------- MODULE FollowerSyncProofs -------------------------
(***************************************************************************)
(* TLAPS proofs about FollowerSync: types, and, when one process serves    *)
(* the requests, that only who was gone is taken for lost (LostOnlyIfGone) *)
(* and that what a complete listing leaves behind was true                 *)
(* (SyncedWasTrue), for any number of users, requests, changes, failures   *)
(* and crashes and any size of a page.                                     *)
(***************************************************************************)
EXTENDS FollowerSync, TLAPS

OneProcess == \A c, d \in Clients : HostOf[c] = HostOf[d]

-----------------------------------------------------------------------------
(* What a request knows, whoever else is at work: it has listed only whom it *)
(* could have, and everyone it could not have missed once a listing is over. *)

ListedOK(l, x, rels) ==
    /\ l \notin Yielding => \A r \in Relations : ~x.open[r]
    /\ l \in {"upsert", "write"} => x.user \in Users
    /\ \A r \in Relations :
         /\ x.got[r] \subseteq x.ever[r]
         /\ x.open[r] => rels[r] \subseteq x.ever[r]
         /\ x.full[r] /\ ~x.open[r] => x.always[r] \subseteq x.got[r]

Listed == \A c \in Clients : ListedOK(pc[c], loc[c], related)

ListInv == TypeOK /\ Listed

\* Request c goes to statement l with locals x.
Moves(c, l, x) ==
    /\ pc' = [pc EXCEPT ![c] = l] /\ loc' = [loc EXCEPT ![c] = x]
    /\ UNCHANGED <<related, changes>>

-----------------------------------------------------------------------------
(* In one process the rows a request has read are those there are, and what  *)
(* it has stored stays.                                                      *)

StoredOK(l, x, w) ==
    /\ l \in {"upsert", "write"} => x.row = w[x.user]
    /\ l \in {"find", "upsert", "write"} =>
         \A r \in Relations : \A u \in x.got[r] :
            w[u][r] \/ u \in x.todo[r] \/ (l # "find" /\ u = x.user /\ r = x.rel)
    /\ l \in {"select", "mark"} =>
         /\ \A r \in Relations : \A u \in x.got[r] : w[u][r]
         /\ x.rel = "following" /\ x.full["follower"] =>
              \A u \in Users : w[u]["follower"] => u \in x.got["follower"]
    /\ l = "mark" =>
         /\ x.full[x.rel]
         /\ x.missing = {u \in Users : w[u][x.rel] /\ u \notin x.got[x.rel]}

Alone == \A c, d \in Clients : pc[c] \notin Yielding /\ pc[d] \notin Yielding => c = d

StoreInv == Alone /\ \A c \in Clients : StoredOK(pc[c], loc[c], row)

-----------------------------------------------------------------------------
(* Types and listings. *)

LEMMA NoLocalsType == NoLocals \in Locals /\ \A rels : ListedOK("idle", NoLocals, rels)
BY DEF NoLocals, Locals, NoRow, Rows, Nobody, Relations, ListedOK, Yielding

LEMMA UpsertedType ==
    ASSUME NEW old \in Rows, NEW r \in Relations
    PROVE  /\ Upserted(old, r) \in Rows /\ Upserted(old, r)[r]
           /\ \A q \in Relations : old[q] => Upserted(old, r)[q]
<1>1. CASE r = "follower"
  BY <1>1 DEF Upserted, Rows, Relations
<1>2. CASE r = "following"
  BY <1>2 DEF Upserted, Rows, Relations
<1>. QED  BY <1>1, <1>2 DEF Relations

\* A step that moves one request to locals that are as they should be.
LEMMA MoveListed ==
    ASSUME ListInv, NEW c \in Clients, NEW l \in PCs, NEW x \in Locals,
           Moves(c, l, x), ListedOK(l, x, related), row' \in [Users -> Rows]
    PROVE  ListInv'
<1>1. TypeOK'
  BY DEF ListInv, TypeOK, Moves
<1>2. ASSUME NEW d \in Clients PROVE ListedOK(pc'[d], loc'[d], related')
  BY DEF ListInv, TypeOK, Listed, Moves
<1>. QED  BY <1>1, <1>2 DEF ListInv, Listed

LEMMA FinishListed ==
    ASSUME ListInv, NEW c \in Clients, Finish(c), UNCHANGED <<related, changes>>,
           row' \in [Users -> Rows]
    PROVE  ListInv'
BY NoLocalsType, MoveListed DEF Finish, Goto, SetLocals, Moves, PCs, Yielding

THEOREM ListInit == Init => ListInv
<1>. SUFFICES ASSUME Init PROVE ListInv
  OBVIOUS
<1>1. TypeOK
  BY NoLocalsType, FollowerSyncAssumption DEF Init, TypeOK, NoRow, Rows, PCs, Yielding
<1>2. Listed
  BY NoLocalsType DEF Init, Listed
<1>. QED  BY <1>1, <1>2 DEF ListInv

LEMMA StartSyncListed ==
    ASSUME ListInv, NEW c \in Clients, StartSync(c)
    PROVE  ListInv'
<1>1. PICK full \in Modes :
        loc' = [loc EXCEPT ![c] =
                  [NoLocals EXCEPT !.full = full, !.open = [r \in Relations |-> TRUE],
                                   !.always = related, !.ever = related]]
  BY DEF StartSync, SetLocals
<1> DEFINE x == [NoLocals EXCEPT !.full = full, !.open = [r \in Relations |-> TRUE],
                                 !.always = related, !.ever = related]
<1>2. x \in Locals
  BY NoLocalsType, FollowerSyncAssumption DEF ListInv, TypeOK, Locals
<1>3. ListedOK("listing", x, related)
  BY DEF ListedOK, NoLocals, Yielding, Nobody
<1>4. Moves(c, "listing", x) /\ row' \in [Users -> Rows]
  BY <1>1 DEF StartSync, Goto, Moves, ListInv, TypeOK
<1>. QED  BY <1>2, <1>3, <1>4, MoveListed DEF PCs, Yielding

LEMMA ListPageListed ==
    ASSUME ListInv, NEW c \in Clients, NEW r \in Relations, ListPage(c, r)
    PROVE  ListInv'
<1>1. loc[c] \in Locals /\ ListedOK("listing", loc[c], related) /\ loc[c].open[r]
  BY DEF ListInv, TypeOK, Listed, ListPage, Turn
<1>2. PICK p \in Pages(c, r) :
        LET got  == [loc[c].got EXCEPT ![r] = @ \cup p.users]
            open == [loc[c].open EXCEPT ![r] = loc[c].full[r] /\ ~p.last]
            over == \A q \in Relations : ~open[q]
        IN  /\ SetLocals(c, [loc[c] EXCEPT !.got = got, !.open = open,
                                           !.todo = IF over THEN got ELSE @])
            /\ Goto(c, IF over THEN "find" ELSE "listing")
  BY DEF ListPage
<1>3. /\ p.users \subseteq related[r] /\ p.users \subseteq Users /\ p.last \in BOOLEAN
      /\ p.last /\ loc[c].full[r] => loc[c].always[r] \subseteq loc[c].got[r] \cup p.users
  BY <1>2 DEF Pages, ListInv, TypeOK
<1> DEFINE got  == [loc[c].got EXCEPT ![r] = @ \cup p.users]
           open == [loc[c].open EXCEPT ![r] = loc[c].full[r] /\ ~p.last]
           over == \A q \in Relations : ~open[q]
           l    == IF over THEN "find" ELSE "listing"
           x    == [loc[c] EXCEPT !.got = got, !.open = open,
                                  !.todo = IF over THEN got ELSE @]
<1>4. /\ got \in [Relations -> SUBSET Users] /\ open \in [Relations -> BOOLEAN]
      /\ loc[c].todo \in [Relations -> SUBSET Users]
      /\ loc[c].full \in [Relations -> BOOLEAN]
  BY <1>1, <1>3 DEF Locals
<1>5. /\ x \in Locals /\ x.got = got /\ x.open = open /\ x.full = loc[c].full
      /\ x.ever = loc[c].ever /\ x.always = loc[c].always
  BY <1>1, <1>4 DEF Locals
<1>6. ListedOK(l, x, related)
  <2>1. l \notin Yielding => over
    BY DEF Yielding
  <2>2. ASSUME NEW q \in Relations
        PROVE  /\ got[q] \subseteq loc[c].ever[q]
               /\ open[q] => related[q] \subseteq loc[c].ever[q]
               /\ loc[c].full[q] /\ ~open[q] => loc[c].always[q] \subseteq got[q]
    <3>1. CASE q = r
      BY <1>1, <1>3, <3>1 DEF ListedOK, Locals
    <3>2. CASE q # r
      BY <1>1, <1>3, <3>2 DEF ListedOK, Locals
    <3>. QED  BY <3>1, <3>2
  <2>. QED  BY <1>5, <2>1, <2>2 DEF ListedOK
<1>7. Moves(c, l, x) /\ row' \in [Users -> Rows] /\ l \in PCs
  BY <1>2 DEF ListPage, Goto, SetLocals, Moves, ListInv, TypeOK, PCs, Yielding
<1>. QED  BY <1>5, <1>6, <1>7, MoveListed

LEMMA ChangeListed ==
    ASSUME ListInv, NEW r \in Relations, NEW u \in Users, Change(r, u)
    PROVE  ListInv'
<1>1. related' \in [Relations -> SUBSET Users] /\ \A q \in Relations : q # r => related'[q] = related[q]
  BY DEF Change, ListInv, TypeOK
<1>2. changes' \in 0..MaxChanges /\ UNCHANGED <<row, pc>>
  <2>1. MaxChanges \in Nat /\ changes \in 0..MaxChanges
    BY FollowerSyncAssumption DEF ListInv, TypeOK
  <2>2. changes < MaxChanges /\ changes' = changes + 1 /\ UNCHANGED <<row, pc>>
    BY DEF Change
  <2>. QED  BY <2>1, <2>2
<1>3. ASSUME NEW c \in Clients
      PROVE  loc'[c] \in Locals /\ ListedOK(pc[c], loc'[c], related')
  <2>1. loc[c] \in Locals /\ ListedOK(pc[c], loc[c], related)
    BY DEF ListInv, TypeOK, Listed
  <2>2. CASE ~loc[c].open[r]
    <3>1. loc'[c] = loc[c]
      BY <2>2 DEF Change
    <3>. QED  BY <1>1, <2>1, <2>2, <3>1 DEF ListedOK
  <2>3. CASE loc[c].open[r]
    <3> DEFINE x == [loc[c] EXCEPT !.always[r] = @ \cap related'[r],
                                   !.ever[r] = @ \cup related'[r]]
    <3>1. loc'[c] = x
      BY <2>3 DEF Change
    <3>2. /\ x.open = loc[c].open /\ x.full = loc[c].full /\ x.got = loc[c].got
          /\ x.user = loc[c].user
          /\ x.always = [loc[c].always EXCEPT ![r] = @ \cap related'[r]]
          /\ x.ever = [loc[c].ever EXCEPT ![r] = @ \cup related'[r]]
      BY <2>1 DEF Locals
    <3>3. x \in Locals
      BY <1>1, <2>1 DEF Locals
    <3>4. ListedOK(pc[c], x, related')
      <4>1. /\ pc[c] \notin Yielding => \A q \in Relations : ~x.open[q]
            /\ pc[c] \in {"upsert", "write"} => x.user \in Users
        BY <2>1, <3>2 DEF ListedOK
      <4>2. ASSUME NEW q \in Relations
            PROVE  /\ x.got[q] \subseteq x.ever[q]
                   /\ x.open[q] => related'[q] \subseteq x.ever[q]
                   /\ x.full[q] /\ ~x.open[q] => x.always[q] \subseteq x.got[q]
        <5>1. CASE q = r
          BY <2>1, <2>3, <3>2, <5>1 DEF ListedOK, Locals
        <5>2. CASE q # r
          BY <1>1, <2>1, <3>2, <5>2 DEF ListedOK, Locals
        <5>. QED  BY <5>1, <5>2
      <4>. QED  BY <4>1, <4>2 DEF ListedOK
    <3>. QED  BY <3>1, <3>3, <3>4
  <2>. QED  BY <2>2, <2>3
<1>4. loc' = [c \in Clients |-> loc'[c]]
  BY DEF Change
<1>. QED  BY <1>1, <1>2, <1>3, <1>4 DEF ListInv, TypeOK, Listed

LEMMA CrashListed ==
    ASSUME ListInv, NEW h \in Hosts, Crash(h)
    PROVE  ListInv'
BY NoLocalsType DEF Crash, ListInv, TypeOK, Listed, PCs, Yielding

\* The other steps of a request change no listing.
LEMMA StoreListed ==
    ASSUME ListInv, NEW c \in Clients, Store(c) \/ Mark(c)
    PROVE  ListInv'
<1>1. loc[c] \in Locals /\ ListedOK(pc[c], loc[c], related) /\ row \in [Users -> Rows]
  BY DEF ListInv, TypeOK, Listed
<1>2. ASSUME NEW x \in Locals, NEW l \in PCs, pc[c] \notin Yielding, Moves(c, l, x),
             x.open = loc[c].open, x.full = loc[c].full, x.got = loc[c].got,
             x.always = loc[c].always, x.ever = loc[c].ever, row' \in [Users -> Rows],
             l \in {"upsert", "write"} => x.user \in Users
      PROVE  ListInv'
  BY <1>1, <1>2, MoveListed DEF ListedOK
<1>3. CASE FindProfile(c)
  <2>1. PICK r \in Relations, u \in Users :
          SetLocals(c, [loc[c] EXCEPT !.todo[r] = @ \ {u}, !.rel = r, !.user = u,
                                      !.row = row[u]])
    BY <1>3 DEF FindProfile
  <2> DEFINE x == [loc[c] EXCEPT !.todo[r] = @ \ {u}, !.rel = r, !.user = u,
                                 !.row = row[u]]
  <2>2. x \in Locals
    BY <1>1 DEF Locals
  <2>3. Moves(c, "upsert", x) /\ row' = row /\ pc[c] \notin Yielding
    BY <1>3, <2>1 DEF FindProfile, Turn, Goto, SetLocals, Moves, Yielding
  <2>. QED  BY <1>1, <1>2, <2>2, <2>3 DEF Locals, PCs, Yielding
<1>4. CASE FindRow(c)
  <2> DEFINE x == [loc[c] EXCEPT !.found = row[loc[c].user].exists]
  <2>1. loc[c].user \in Users
    BY <1>1, <1>4 DEF ListedOK, FindRow, Turn
  <2>2. x \in Locals /\ x.user = loc[c].user
    BY <1>1, <2>1 DEF Locals, Rows
  <2>3. Moves(c, "write", x) /\ row' = row /\ pc[c] \notin Yielding
    BY <1>4 DEF FindRow, Turn, Goto, SetLocals, Moves, Yielding
  <2>. QED  BY <1>1, <1>2, <2>1, <2>2, <2>3 DEF Locals, PCs, Yielding
<1>5. CASE WriteRow(c)
  <2>1. loc[c].user \in Users /\ pc[c] \notin Yielding
    BY <1>1, <1>5 DEF ListedOK, WriteRow, Turn, Yielding
  <2> DEFINE w == [row EXCEPT ![loc[c].user] = Upserted(loc[c].row, loc[c].rel)]
             x == [loc[c] EXCEPT !.user = None, !.row = NoRow, !.found = FALSE]
  <2>2. CASE row' = w /\ SetLocals(c, x) /\ Goto(c, "find")
    <3>1. x \in Locals
      BY <1>1 DEF Locals, NoRow, Rows
    <3>2. w \in [Users -> Rows]
      BY <1>1, <2>1, UpsertedType DEF Locals
    <3>3. Moves(c, "find", x)
      BY <1>5, <2>2 DEF WriteRow, Goto, SetLocals, Moves
    <3>. QED  BY <1>1, <1>2, <2>1, <2>2, <3>1, <3>2, <3>3 DEF Locals, PCs, Yielding
  <2>3. CASE Finish(c) /\ UNCHANGED row
    BY <1>1, <1>5, <2>3, FinishListed DEF WriteRow
  <2>. QED  BY <1>5, <2>2, <2>3 DEF WriteRow
<1>6. CASE StartMarking(c)
  <2> DEFINE x == [loc[c] EXCEPT !.rel = "follower"]
  <2>1. x \in Locals
    BY <1>1 DEF Locals, Relations
  <2>2. Moves(c, "select", x) /\ row' = row /\ pc[c] \notin Yielding
    BY <1>6 DEF StartMarking, Turn, Goto, SetLocals, Moves, Yielding
  <2>. QED  BY <1>1, <1>2, <2>1, <2>2 DEF Locals, PCs, Yielding
<1>7. ASSUME NextRelation(c), pc[c] \notin Yielding, UNCHANGED <<related, changes>>,
             row' \in [Users -> Rows]
      PROVE  ListInv'
  <2>1. CASE Finish(c)
    BY <1>7, <2>1, FinishListed
  <2>2. CASE ~Finish(c)
    <3> DEFINE x == [loc[c] EXCEPT !.rel = "following", !.missing = {}]
    <3>1. x \in Locals
      BY <1>1 DEF Locals, Relations
    <3>2. Moves(c, "select", x)
      BY <1>7, <2>2 DEF NextRelation, Goto, SetLocals, Moves
    <3>. QED  BY <1>1, <1>2, <1>7, <3>1, <3>2 DEF Locals, PCs, Yielding
  <2>. QED  BY <2>1, <2>2
<1>8. CASE SelectMissing(c)
  <2>1. pc[c] \notin Yielding /\ row' = row
    BY <1>8 DEF SelectMissing, Turn, Yielding
  <2> DEFINE x == [loc[c] EXCEPT !.missing = Missing(c)]
  <2>2. CASE SetLocals(c, x) /\ Goto(c, "mark")
    <3>1. x \in Locals
      BY <1>1 DEF Locals, Missing
    <3>2. Moves(c, "mark", x)
      BY <1>8, <2>2 DEF SelectMissing, Goto, SetLocals, Moves
    <3>. QED  BY <1>1, <1>2, <2>1, <3>1, <3>2 DEF Locals, PCs, Yielding
  <2>. QED  BY <1>1, <1>7, <1>8, <2>1, <2>2 DEF SelectMissing
<1>9. CASE MarkMissing(c)
  <2>1. row' \in [Users -> Rows]
    BY <1>1, <1>9 DEF MarkMissing, Rows
  <2>. QED  BY <1>7, <1>9, <2>1 DEF MarkMissing, Turn, Yielding
<1>. QED  BY <1>3, <1>4, <1>5, <1>6, <1>8, <1>9 DEF Store, Mark

LEMMA ListInvNext == ListInv /\ [Next]_vars => ListInv'
<1>. SUFFICES ASSUME ListInv, [Next]_vars PROVE ListInv'
  OBVIOUS
<1>1. ASSUME NEW c \in Clients, List(c) PROVE ListInv'
  <2>1. ASSUME ListFails(c) PROVE ListInv'
    BY <2>1, FinishListed DEF ListFails, ListInv, TypeOK
  <2>. QED  BY <1>1, <2>1, StartSyncListed, ListPageListed DEF List
<1>2. CASE UNCHANGED vars
  BY <1>2 DEF vars, ListInv, TypeOK, Listed
<1>. QED  BY <1>1, <1>2, StoreListed, ChangeListed, CrashListed DEF Next

\* Every variable keeps its type in every behaviour.
THEOREM SyncTypeCorrect == Spec => []TypeOK
<1>1. ListInv => TypeOK
  BY DEF ListInv
<1>. QED  BY <1>1, ListInit, ListInvNext, PTL DEF Spec

-----------------------------------------------------------------------------
(* One process. *)

LEMMA InitStore == Init => StoreInv
BY DEF Init, StoreInv, Alone, StoredOK, Yielding

\* A request that runs a statement is alone, and moves itself only.
LEMMA MoveStored ==
    ASSUME ListInv, StoreInv, NEW c \in Clients, NEW l \in PCs, NEW x \in Locals,
           OneProcess, Turn(c, pc[c]), Moves(c, l, x), StoredOK(l, x, row')
    PROVE  StoreInv'
<1>1. \A d \in Clients : d # c => pc[d] \in Yielding /\ pc'[d] = pc[d] /\ loc'[d] = loc[d]
  BY DEF Turn, OneProcess, Moves, ListInv, TypeOK
<1>2. pc'[c] = l /\ loc'[c] = x
  BY DEF Moves, ListInv, TypeOK
<1>3. Alone'
  BY <1>1, <1>2 DEF Alone
<1>4. \A d \in Clients : d # c => StoredOK(pc'[d], loc'[d], row')
  BY <1>1 DEF StoredOK, Yielding
<1>. QED  BY <1>2, <1>3, <1>4 DEF StoreInv

LEMMA FinishStored ==
    ASSUME ListInv, StoreInv, NEW c \in Clients, OneProcess, Turn(c, pc[c]),
           Finish(c), UNCHANGED <<related, changes>>
    PROVE  StoreInv'
<1>1. StoredOK("idle", NoLocals, row')
  BY DEF StoredOK
<1>. QED  BY <1>1, NoLocalsType, MoveStored DEF Finish, Goto, SetLocals, Moves, PCs, Yielding

\* What a page leaves to be stored is everything it has listed.
LEMMA ListStored ==
    ASSUME ListInv, StoreInv, OneProcess, NEW c \in Clients, List(c)
    PROVE  StoreInv'
<1>1. CASE StartSync(c)
  <2>1. pc' = [pc EXCEPT ![c] = "listing"] /\ Turn(c, "idle")
    BY <1>1 DEF StartSync, Goto
  <2>2. \A d \in Clients : d # c => loc'[d] = loc[d] /\ pc'[d] = pc[d]
    BY <1>1, <2>1 DEF StartSync, SetLocals, ListInv, TypeOK
  <2>3. pc'[c] = "listing" /\ row' = row
    BY <1>1, <2>1 DEF StartSync, ListInv, TypeOK
  <2>4. Alone'
    BY <2>2, <2>3 DEF StoreInv, Alone, Yielding
  <2>5. StoredOK(pc'[c], loc'[c], row')
    BY <2>3 DEF StoredOK
  <2>. QED  BY <2>2, <2>3, <2>4, <2>5 DEF StoreInv
<1>2. ASSUME NEW r \in Relations, ListPage(c, r) PROVE StoreInv'
  <2>1. loc[c] \in Locals /\ Turn(c, "listing") /\ row' = row
    BY <1>2 DEF ListInv, TypeOK, ListPage
  <2>2. PICK p \in Pages(c, r) :
          LET got  == [loc[c].got EXCEPT ![r] = @ \cup p.users]
              open == [loc[c].open EXCEPT ![r] = loc[c].full[r] /\ ~p.last]
              over == \A q \in Relations : ~open[q]
          IN  /\ SetLocals(c, [loc[c] EXCEPT !.got = got, !.open = open,
                                             !.todo = IF over THEN got ELSE @])
              /\ Goto(c, IF over THEN "find" ELSE "listing")
    BY <1>2 DEF ListPage
  <2>3. \A d \in Clients : d # c => loc'[d] = loc[d] /\ pc'[d] = pc[d] /\ pc[d] \in Yielding
    BY <2>1, <2>2 DEF SetLocals, Goto, ListInv, TypeOK, Turn, OneProcess
  <2>4. Alone'
    BY <2>3 DEF Alone
  <2>5. StoredOK(pc'[c], loc'[c], row')
    <3>1. CASE pc'[c] = "listing"
      BY <3>1 DEF StoredOK
    <3>2. CASE pc'[c] # "listing"
      <4>1. pc'[c] = "find" /\ loc'[c].todo = loc'[c].got
        BY <2>1, <2>2, <3>2 DEF SetLocals, Goto, ListInv, TypeOK, Locals
      <4>. QED  BY <4>1 DEF StoredOK
    <3>. QED  BY <3>1, <3>2
  <2>6. \A d \in Clients : d # c => StoredOK(pc'[d], loc'[d], row')
    BY <2>3 DEF StoredOK, Yielding
  <2>. QED  BY <2>4, <2>5, <2>6 DEF StoreInv
<1>3. CASE ListFails(c)
  <2>1. pc[c] = "listing"
    BY <1>3 DEF ListFails, Turn
  <2>. QED  BY <1>3, <2>1, FinishStored DEF ListFails
<1>. QED  BY <1>1, <1>2, <1>3 DEF List

LEMMA StoreStored ==
    ASSUME ListInv, StoreInv, OneProcess, NEW c \in Clients, Store(c)
    PROVE  StoreInv'
<1>1. /\ loc[c] \in Locals /\ row \in [Users -> Rows]
      /\ StoredOK(pc[c], loc[c], row) /\ ListedOK(pc[c], loc[c], related)
  BY DEF ListInv, TypeOK, Listed, StoreInv
<1>2. CASE FindProfile(c)
  <2>1. PICK r \in Relations, u \in Users :
          SetLocals(c, [loc[c] EXCEPT !.todo[r] = @ \ {u}, !.rel = r, !.user = u,
                                      !.row = row[u]])
    BY <1>2 DEF FindProfile
  <2> DEFINE x == [loc[c] EXCEPT !.todo[r] = @ \ {u}, !.rel = r, !.user = u,
                                 !.row = row[u]]
  <2>2. x \in Locals /\ x.rel = r /\ x.user = u /\ x.row = row[u] /\ x.got = loc[c].got
    BY <1>1 DEF Locals
  <2>3. x.todo = [loc[c].todo EXCEPT ![r] = @ \ {u}]
    BY <1>1 DEF Locals
  <2>4. Moves(c, "upsert", x) /\ row' = row /\ pc[c] = "find" /\ Turn(c, "find")
    BY <1>2, <2>1 DEF FindProfile, Turn, Goto, SetLocals, Moves
  <2>5. ASSUME NEW q \in Relations, NEW v \in x.got[q]
        PROVE  row[v][q] \/ v \in x.todo[q] \/ (v = u /\ q = r)
    <3>1. row[v][q] \/ v \in loc[c].todo[q]
      BY <1>1, <2>2, <2>4, <2>5 DEF StoredOK
    <3>. QED  BY <1>1, <2>3, <3>1 DEF Locals
  <2>6. StoredOK("upsert", x, row')
    BY <2>2, <2>4, <2>5 DEF StoredOK
  <2>. QED  BY <2>2, <2>4, <2>6, MoveStored DEF PCs
<1>3. CASE FindRow(c)
  <2> DEFINE x == [loc[c] EXCEPT !.found = row[loc[c].user].exists]
  <2>1. loc[c].user \in Users /\ pc[c] = "upsert" /\ Turn(c, pc[c])
    BY <1>1, <1>3 DEF ListedOK, FindRow, Turn
  <2>2. /\ x \in Locals /\ x.user = loc[c].user /\ x.row = loc[c].row
        /\ x.got = loc[c].got /\ x.todo = loc[c].todo /\ x.rel = loc[c].rel
    BY <1>1, <2>1 DEF Locals, Rows
  <2>3. Moves(c, "write", x) /\ row' = row
    BY <1>3 DEF FindRow, Goto, SetLocals, Moves
  <2>4. StoredOK("write", x, row')
    BY <1>1, <2>1, <2>2, <2>3 DEF StoredOK
  <2>. QED  BY <2>1, <2>2, <2>3, <2>4, MoveStored DEF PCs
<1>4. CASE WriteRow(c)
  <2>1. loc[c].user \in Users /\ pc[c] = "write" /\ Turn(c, pc[c])
    BY <1>1, <1>4 DEF ListedOK, WriteRow, Turn
  <2> DEFINE u == loc[c].user
             w == [row EXCEPT ![u] = Upserted(loc[c].row, loc[c].rel)]
             x == [loc[c] EXCEPT !.user = None, !.row = NoRow, !.found = FALSE]
  <2>2. CASE row' = w /\ SetLocals(c, x) /\ Goto(c, "find")
    <3>1. x \in Locals /\ x.got = loc[c].got /\ x.todo = loc[c].todo
      BY <1>1 DEF Locals, NoRow, Rows
    <3>2. Moves(c, "find", x)
      BY <1>4, <2>2 DEF WriteRow, Goto, SetLocals, Moves
    <3>3. loc[c].row = row[u] /\ loc[c].rel \in Relations /\ row[u] \in Rows
      BY <1>1, <2>1 DEF StoredOK, Locals
    <3>4. /\ w[u][loc[c].rel]
          /\ \A v \in Users, q \in Relations : row[v][q] => w[v][q]
      BY <1>1, <2>1, <3>3, UpsertedType
    <3>5. ASSUME NEW q \in Relations, NEW v \in x.got[q]
          PROVE  w[v][q] \/ v \in x.todo[q]
      <4>1. v \in Users
        BY <1>1, <3>1, <3>5 DEF Locals
      <4>2. row[v][q] \/ v \in loc[c].todo[q] \/ (v = u /\ q = loc[c].rel)
        BY <1>1, <2>1, <3>1, <3>5 DEF StoredOK
      <4>. QED  BY <3>1, <3>4, <4>1, <4>2
    <3>6. StoredOK("find", x, row')
      BY <2>2, <3>5 DEF StoredOK
    <3>. QED  BY <2>1, <3>1, <3>2, <3>6, MoveStored DEF PCs
  <2>3. CASE Finish(c) /\ UNCHANGED row
    BY <1>4, <2>1, <2>3, FinishStored DEF WriteRow
  <2>. QED  BY <1>4, <2>2, <2>3 DEF WriteRow
<1>. QED  BY <1>2, <1>3, <1>4 DEF Store

\* What is marked was not listed, so what was listed and stored stays; once the
\* followers are marked, the rows of a complete listing are those it has.
LEMMA RelationMarked ==
    ASSUME ListInv, StoreInv, OneProcess, NEW c \in Clients,
           pc[c] \in {"select", "mark"}, Turn(c, pc[c]), NextRelation(c),
           UNCHANGED <<related, changes>>,
           \A r \in Relations : \A u \in loc[c].got[r] : row'[u][r],
           loc[c].rel = "follower" /\ loc[c].full["follower"] =>
             \A u \in Users : row'[u]["follower"] => u \in loc[c].got["follower"]
    PROVE  StoreInv'
<1>1. loc[c] \in Locals
  BY DEF ListInv, TypeOK
<1>2. CASE Finish(c)
  BY <1>2, FinishStored
<1>3. CASE ~Finish(c)
  <2> DEFINE x == [loc[c] EXCEPT !.rel = "following", !.missing = {}]
  <2>1. x \in Locals /\ x.got = loc[c].got /\ x.full = loc[c].full
    BY <1>1 DEF Locals, Relations
  <2>2. Moves(c, "select", x) /\ loc[c].rel = "follower"
    BY <1>3 DEF NextRelation, Goto, SetLocals, Moves
  <2>3. StoredOK("select", x, row')
    BY <2>1, <2>2 DEF StoredOK
  <2>. QED  BY <2>1, <2>2, <2>3, MoveStored DEF PCs
<1>. QED  BY <1>2, <1>3

LEMMA MarkStored ==
    ASSUME ListInv, StoreInv, OneProcess, NEW c \in Clients, Mark(c)
    PROVE  StoreInv'
<1>1. /\ loc[c] \in Locals /\ row \in [Users -> Rows]
      /\ StoredOK(pc[c], loc[c], row)
  BY DEF ListInv, TypeOK, StoreInv
<1>2. CASE StartMarking(c)
  <2> DEFINE x == [loc[c] EXCEPT !.rel = "follower"]
  <2>1. x \in Locals /\ x.rel = "follower" /\ x.got = loc[c].got
    BY <1>1 DEF Locals, Relations
  <2>2. Moves(c, "select", x) /\ row' = row /\ pc[c] = "find" /\ Turn(c, pc[c])
    BY <1>2 DEF StartMarking, Turn, Goto, SetLocals, Moves
  <2>3. \A r \in Relations : \A u \in loc[c].got[r] : row[u][r]
    BY <1>1, <1>2, <2>2 DEF StoredOK, StartMarking
  <2>4. StoredOK("select", x, row')
    BY <2>1, <2>2, <2>3 DEF StoredOK
  <2>. QED  BY <2>1, <2>2, <2>4, MoveStored DEF PCs
<1>3. CASE SelectMissing(c)
  <2>1. pc[c] = "select" /\ row' = row /\ Turn(c, pc[c]) /\ loc[c].rel \in Relations
    BY <1>1, <1>3 DEF SelectMissing, Turn, Locals
  <2>2. CASE Missing(c) = {} /\ NextRelation(c)
    <3>1. loc[c].rel = "follower" /\ loc[c].full["follower"] =>
             \A u \in Users : row'[u]["follower"] => u \in loc[c].got["follower"]
      BY <2>1, <2>2 DEF Missing
    <3>2. \A r \in Relations : \A u \in loc[c].got[r] : row'[u][r]
      BY <1>1, <2>1 DEF StoredOK
    <3>. QED  BY <1>3, <2>1, <2>2, <3>1, <3>2, RelationMarked DEF SelectMissing
  <2> DEFINE x == [loc[c] EXCEPT !.missing = Missing(c)]
  <2>3. CASE Missing(c) # {} /\ SetLocals(c, x) /\ Goto(c, "mark")
    <3>1. /\ x \in Locals /\ x.got = loc[c].got /\ x.full = loc[c].full
          /\ x.rel = loc[c].rel /\ x.missing = Missing(c)
      BY <1>1 DEF Locals, Missing
    <3>2. Moves(c, "mark", x)
      BY <1>3, <2>3 DEF SelectMissing, Goto, SetLocals, Moves
    <3>3. x.full[x.rel] /\ x.missing = {u \in Users : row[u][x.rel] /\ u \notin x.got[x.rel]}
      BY <2>3, <3>1 DEF Missing
    <3>4. StoredOK("mark", x, row')
      BY <1>1, <2>1, <3>1, <3>3 DEF StoredOK
    <3>. QED  BY <2>1, <3>1, <3>2, <3>4, MoveStored DEF PCs
  <2>. QED  BY <1>3, <2>2, <2>3 DEF SelectMissing
<1>4. CASE MarkMissing(c)
  <2>1. pc[c] = "mark" /\ Turn(c, pc[c]) /\ loc[c].rel \in Relations
    BY <1>1, <1>4 DEF MarkMissing, Turn, Locals
  <2>2. loc[c].missing = {u \in Users : row[u][loc[c].rel] /\ u \notin loc[c].got[loc[c].rel]}
    BY <1>1, <2>1 DEF StoredOK
  <2>3. ASSUME NEW r \in Relations, NEW u \in loc[c].got[r] PROVE row'[u][r]
    <3>1. u \in Users /\ row[u][r] /\ row[u] \in Rows
      BY <1>1, <2>1 DEF StoredOK, Locals
    <3>2. CASE u \notin loc[c].missing
      BY <1>4, <3>1, <3>2 DEF MarkMissing
    <3>3. CASE u \in loc[c].missing /\ loc[c].rel = "follower"
      BY <1>4, <2>2, <2>3, <3>1, <3>3 DEF MarkMissing, Rows, Relations
    <3>4. CASE u \in loc[c].missing /\ loc[c].rel = "following"
      BY <1>4, <2>2, <2>3, <3>1, <3>4 DEF MarkMissing, Rows, Relations
    <3>. QED  BY <2>1, <3>2, <3>3, <3>4 DEF Relations
  <2>4. ASSUME loc[c].rel = "follower", NEW u \in Users, row'[u]["follower"]
        PROVE  u \in loc[c].got["follower"]
    <3>1. u \in loc[c].missing => ~row'[u].follower
      BY <1>1, <1>4, <2>4 DEF MarkMissing, Rows
    <3>2. u \notin loc[c].missing => row'[u] = row[u]
      BY <1>1, <1>4, <2>4 DEF MarkMissing
    <3>. QED  BY <2>2, <2>4, <3>1, <3>2
  <2>. QED  BY <1>4, <2>1, <2>3, <2>4, RelationMarked DEF MarkMissing
<1>. QED  BY <1>2, <1>3, <1>4 DEF Mark

LEMMA StoreInvNext == OneProcess /\ ListInv /\ StoreInv /\ [Next]_vars => StoreInv'
<1>. SUFFICES ASSUME OneProcess, ListInv, StoreInv, [Next]_vars PROVE StoreInv'
  OBVIOUS
<1>1. ASSUME NEW r \in Relations, NEW u \in Users, Change(r, u) PROVE StoreInv'
  <2>1. ASSUME NEW c \in Clients PROVE StoredOK(pc'[c], loc'[c], row')
    <3>1. pc' = pc /\ row' = row /\ loc[c] \in Locals
      BY <1>1 DEF Change, ListInv, TypeOK
    <3>2. /\ loc'[c].user = loc[c].user /\ loc'[c].row = loc[c].row
          /\ loc'[c].got = loc[c].got /\ loc'[c].todo = loc[c].todo
          /\ loc'[c].rel = loc[c].rel /\ loc'[c].full = loc[c].full
          /\ loc'[c].missing = loc[c].missing
      BY <1>1, <3>1 DEF Change, Locals
    <3>3. StoredOK(pc[c], loc[c], row)
      BY DEF StoreInv
    <3>. QED  BY <3>1, <3>2, <3>3 DEF StoredOK
  <2>2. pc' = pc
    BY <1>1 DEF Change
  <2>. QED  BY <2>1, <2>2 DEF StoreInv, Alone
<1>2. ASSUME NEW h \in Hosts, Crash(h) PROVE StoreInv'
  <2>1. \A c \in Clients : HostOf[c] = h
    BY DEF Hosts, OneProcess
  <2>2. \A c \in Clients : pc'[c] = "idle"
    BY <1>2, <2>1 DEF Crash
  <2>. QED  BY <2>2 DEF StoreInv, Alone, StoredOK, Yielding
<1>3. CASE UNCHANGED vars
  BY <1>3 DEF vars, StoreInv, Alone, StoredOK
<1>. QED  BY <1>1, <1>2, <1>3, ListStored, StoreStored, MarkStored DEF Next

-----------------------------------------------------------------------------
(* What a step may take away, and what a request leaves behind. *)

LEMMA StepKeeps ==
    ASSUME OneProcess, ListInv, StoreInv, [Next]_vars,
           NEW u \in Users, NEW r \in Relations, row[u][r], ~row'[u][r]
    PROVE  \E c \in Clients : /\ pc[c] = "mark" /\ loc[c].full[r]
                              /\ u \notin loc[c].always[r]
<1>1. row \in [Users -> Rows] /\ row[u] \in Rows
  BY DEF ListInv, TypeOK
<1>2. row' # row
  OBVIOUS
<1>3. CASE \E c \in Clients : WriteRow(c)
  <2>1. PICK c \in Clients : WriteRow(c)
    BY <1>3
  <2> DEFINE v == loc[c].user
  <2>2. /\ loc[c] \in Locals /\ v \in Users /\ loc[c].row = row[v]
        /\ loc[c].rel \in Relations /\ row[v] \in Rows
    BY <1>1, <2>1 DEF ListInv, TypeOK, Listed, ListedOK, StoreInv, StoredOK, WriteRow,
                     Turn, Locals
  <2>3. row' = [row EXCEPT ![v] = Upserted(row[v], loc[c].rel)]
    BY <1>2, <2>1, <2>2 DEF WriteRow
  <2>4. row[v][r] => row'[v][r]
    BY <1>1, <2>2, <2>3, UpsertedType
  <2>. QED  BY <1>1, <2>2, <2>3, <2>4
<1>4. CASE \E c \in Clients : MarkMissing(c)
  <2>1. PICK c \in Clients : MarkMissing(c)
    BY <1>4
  <2>2. pc[c] = "mark" /\ loc[c] \in Locals /\ loc[c].rel \in Relations
    BY <2>1 DEF MarkMissing, Turn, ListInv, TypeOK, Locals
  <2>3. u \in loc[c].missing
    BY <1>1, <2>1 DEF MarkMissing
  <2>4. r = loc[c].rel
    <3>1. CASE loc[c].rel = "follower"
      BY <1>1, <2>1, <2>3, <3>1 DEF MarkMissing, Rows, Relations
    <3>2. CASE loc[c].rel = "following"
      BY <1>1, <2>1, <2>3, <3>2 DEF MarkMissing, Rows, Relations
    <3>. QED  BY <2>2, <3>1, <3>2 DEF Relations
  <2>5. loc[c].full[r] /\ u \notin loc[c].got[r]
    BY <2>2, <2>3, <2>4 DEF StoreInv, StoredOK
  <2>6. loc[c].always[r] \subseteq loc[c].got[r]
    BY <2>2, <2>5 DEF ListInv, Listed, ListedOK, Yielding
  <2>. QED  BY <2>2, <2>5, <2>6
<1>5. CASE UNCHANGED vars
  BY <1>2, <1>5 DEF vars
<1>6. ASSUME NEW c \in Clients,
             List(c) \/ FindProfile(c) \/ FindRow(c) \/ StartMarking(c) \/ SelectMissing(c)
      PROVE  row' = row
  BY <1>6 DEF List, StartSync, ListPage, ListFails, FindProfile, FindRow, StartMarking,
              SelectMissing
<1>7. ASSUME NEW q \in Relations, NEW v \in Users, Change(q, v) PROVE row' = row
  BY <1>7 DEF Change
<1>8. ASSUME NEW h \in Hosts, Crash(h) PROVE row' = row
  BY <1>8 DEF Crash
<1>. QED  BY <1>2, <1>3, <1>4, <1>5, <1>6, <1>7, <1>8 DEF Next, Store, Mark

LEMMA SyncLeaves ==
    ASSUME OneProcess, ListInv, StoreInv, NEW c \in Clients,
           SelectMissing(c) \/ MarkMissing(c), pc'[c] = "idle",
           NEW r \in Relations, NEW u \in Users, loc[c].full[r]
    PROVE  /\ u \in loc[c].always[r] => row'[u][r]
           /\ row'[u][r] => u \in loc[c].ever[r]
<1>1. /\ loc[c] \in Locals /\ row \in [Users -> Rows] /\ row[u] \in Rows
      /\ pc[c] \in {"select", "mark"} /\ StoredOK(pc[c], loc[c], row)
  BY DEF ListInv, TypeOK, StoreInv, SelectMissing, MarkMissing, Turn
<1>2. loc[c].got[r] \subseteq loc[c].ever[r] /\ loc[c].always[r] \subseteq loc[c].got[r]
  BY <1>1 DEF ListInv, Listed, ListedOK, Yielding
<1>3. loc[c].rel = "following" /\ "following" \in Relations
  BY <1>1 DEF SelectMissing, MarkMissing, NextRelation, Goto, SetLocals, Finish,
              ListInv, TypeOK, Locals, Relations
<1>4. u \in loc[c].got["follower"] => row[u]["follower"]
  BY <1>1 DEF StoredOK, Relations
<1>5. loc[c].full["follower"] /\ row[u]["follower"] => u \in loc[c].got["follower"]
  BY <1>1, <1>3 DEF StoredOK
<1>6. u \in loc[c].got["following"] => row[u]["following"]
  BY <1>1, <1>3 DEF StoredOK
<1>7. u \in loc[c].got[r] <=> row'[u][r]
  <2>1. CASE SelectMissing(c)
    <3>1. row' = row /\ Missing(c) = {}
      BY <1>1, <2>1 DEF SelectMissing, Goto, ListInv, TypeOK
    <3>2. loc[c].full["following"] /\ row[u]["following"] => u \in loc[c].got["following"]
      BY <1>3, <3>1 DEF Missing
    <3>. QED  BY <1>4, <1>5, <1>6, <3>1, <3>2 DEF Relations
  <2>2. CASE MarkMissing(c)
    <3>1. loc[c].missing =
            {v \in Users : row[v]["following"] /\ v \notin loc[c].got["following"]}
      BY <1>1, <1>3, <2>2 DEF StoredOK, MarkMissing, Turn
    <3>2. row'[u] = IF u \notin loc[c].missing THEN row[u]
                    ELSE [row[u] EXCEPT !.following = FALSE]
      BY <1>3, <2>2 DEF MarkMissing
    <3>3. row'[u]["follower"] = row[u]["follower"]
      BY <1>1, <3>2 DEF Rows
    <3>4. row'[u]["following"] <=> row[u]["following"] /\ u \notin loc[c].missing
      BY <1>1, <3>2 DEF Rows
    <3>. QED  BY <1>4, <1>5, <1>6, <3>1, <3>3, <3>4 DEF Relations
  <2>. QED  BY <2>1, <2>2
<1>. QED  BY <1>2, <1>7

\* One process: a relation is taken for lost only after a complete listing during
\* which it was not there all the time.
THEOREM NobodyLostWrongly ==
  ASSUME OneProcess
  PROVE  Spec => LostOnlyIfGone
<1>1. Init => StoreInv
  BY InitStore
<1>2. ListInv /\ StoreInv /\ [Next]_vars => StoreInv'
  BY StoreInvNext
<1>3. ListInv /\ StoreInv /\ [Next]_vars =>
        [\A u \in Users, r \in Relations : row[u][r] /\ ~row'[u][r] =>
           \E c \in Clients : /\ pc[c] = "mark" /\ loc[c].full[r]
                              /\ u \notin loc[c].always[r]]_vars
  BY StepKeeps
<1>. QED  BY <1>1, <1>2, <1>3, ListInit, ListInvNext, PTL DEF Spec, LostOnlyIfGone

\* One process: of each user, the rows a complete listing leaves behind say what
\* was true at a moment of it.
THEOREM RowsWereTrue ==
  ASSUME OneProcess
  PROVE  Spec => SyncedWasTrue
<1>1. Init => StoreInv
  BY InitStore
<1>2. ListInv /\ StoreInv /\ [Next]_vars => StoreInv'
  BY StoreInvNext
<1>3. ListInv /\ StoreInv /\ [Next]_vars =>
        [\A c \in Clients : (SelectMissing(c) \/ MarkMissing(c)) /\ pc'[c] = "idle" =>
           \A r \in Relations, u \in Users : loc[c].full[r] =>
             /\ u \in loc[c].always[r] => row'[u][r]
             /\ row'[u][r] => u \in loc[c].ever[r]]_vars
  BY SyncLeaves
<1>. QED  BY <1>1, <1>2, <1>3, ListInit, ListInvNext, PTL DEF Spec, SyncedWasTrue
=============================================================================
