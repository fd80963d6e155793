----------------------------- MODULE FollowerSync ----------------------------
(***************************************************************************)
(* Follower synchronisation (usecases/followers.ts, follower-repository.ts):*)
(* requests page through the followers of an account and the users it      *)
(* follows, store a row per user, and mark those a complete listing no     *)
(* longer has, while the platform changes and calls fail.                  *)
(***************************************************************************)
EXTENDS Naturals, FiniteSets

CONSTANTS Users,        \* of the platform
          Clients,      \* requests POST /followers/sync
          HostOf,       \* the OS process of each request
          Modes,        \* which relations a request lists without a cursor
          PageSize,     \* profiles the platform answers at once
          MaxChanges,   \* bound on who follows whom changing; calls may
                        \* fail and processes crash any number of times
          None

Hosts     == {HostOf[c] : c \in Clients}
Relations == {"follower", "following"}

ASSUME FollowerSyncAssumption ==
    /\ Modes \subseteq [Relations -> BOOLEAN] /\ IsFiniteSet(Users) /\ None \notin Users
    /\ PageSize \in Nat \ {0} /\ MaxChanges \in Nat

VARIABLES related,  \* related[r]: who is in relation r to the account by now
          row,      \* the followers rows
          pc, loc,
          changes

vars == <<related, row, pc, loc, changes>>

-----------------------------------------------------------------------------
\* unfollowed: the row has an unfollowedAt.
Rows  == [exists : BOOLEAN, follower : BOOLEAN, following : BOOLEAN,
          unfollowed : BOOLEAN]
NoRow == [exists |-> FALSE, follower |-> FALSE, following |-> FALSE,
          unfollowed |-> FALSE]

Locals ==
    [full : [Relations -> BOOLEAN],      \* completeListing, if it gets there
     open : [Relations -> BOOLEAN],      \* the listing is not over
     got : [Relations -> SUBSET Users],  \* profiles
     todo : [Relations -> SUBSET Users], \* those still to be stored
     user : Users \cup {None},           \* the one being stored
     rel : Relations,                    \* the relation being stored or marked
     row : Rows,                         \* existing of upsertProfile
     found : BOOLEAN,                    \* existing of upsert is not null
     missing : SUBSET Users,             \* the rows a select returned
     always : [Relations -> SUBSET Users],   \* listable during all of the listing
     ever : [Relations -> SUBSET Users]]     \* ... or at some time of it

Nobody   == [r \in Relations |-> {}]
NoLocals ==
    [full |-> [r \in Relations |-> FALSE], open |-> [r \in Relations |-> FALSE],
     got |-> Nobody, todo |-> Nobody, user |-> None, rel |-> "follower",
     row |-> NoRow, found |-> FALSE, missing |-> {}, always |-> Nobody,
     ever |-> Nobody]

\* Waiting for a request or for the platform.
Yielding == {"idle", "listing"}
PCs      == Yielding \cup {"find", "upsert", "write", "select", "mark"}

TypeOK ==
    /\ related \in [Relations -> SUBSET Users]
    /\ row \in [Users -> Rows]
    /\ pc \in [Clients -> PCs] /\ loc \in [Clients -> Locals]
    /\ changes \in 0..MaxChanges

Init ==
    /\ related \in [Relations -> SUBSET Users]
    /\ row = [u \in Users |-> NoRow]
    /\ pc = [c \in Clients |-> "idle"] /\ loc = [c \in Clients |-> NoLocals]
    /\ changes = 0

-----------------------------------------------------------------------------
\* Request c runs its next statement: alone in its process until it yields.
Turn(c, l) ==
    /\ pc[c] = l
    /\ \A d \in Clients \ {c} : HostOf[d] = HostOf[c] => pc[d] \in Yielding

Goto(c, l)      == pc' = [pc EXCEPT ![c] = l]
SetLocals(c, x) == loc' = [loc EXCEPT ![c] = x]
Finish(c)       == Goto(c, "idle") /\ SetLocals(c, NoLocals)

-----------------------------------------------------------------------------
(* syncFollowersFromProvider. *)

\* Without a cursor a listing goes on to its end; with one it is a page.
StartSync(c) ==
    /\ Turn(c, "idle")
    /\ \E full \in Modes :
         SetLocals(c, [NoLocals EXCEPT
            !.full = full, !.open = [r \in Relations |-> TRUE],
            !.always = related, !.ever = related])
    /\ Goto(c, "listing")
    /\ UNCHANGED <<related, row, changes>>

\* The platform's answer: some who were not listed before; the last page only
\* when nobody who was there all the time is missing.
Pages(c, r) ==
    {p \in [users : SUBSET (related[r] \ loc[c].got[r]), last : BOOLEAN] :
       /\ Cardinality(p.users) <= PageSize
       /\ p.last \/ p.users # {}
       /\ p.last /\ loc[c].full[r] =>
            loc[c].always[r] \subseteq loc[c].got[r] \cup p.users}

\* listFollowerPages; the two lists are fetched side by side, and what they
\* return is stored when both have ended.
ListPage(c, r) ==
    /\ Turn(c, "listing") /\ loc[c].open[r]
    /\ \E p \in Pages(c, r) :
         LET got  == [loc[c].got EXCEPT ![r] = @ \cup p.users]
             open == [loc[c].open EXCEPT ![r] = loc[c].full[r] /\ ~p.last]
             over == \A q \in Relations : ~open[q]
         IN  /\ SetLocals(c, [loc[c] EXCEPT !.got = got, !.open = open,
                                           !.todo = IF over THEN got ELSE @])
             /\ Goto(c, IF over THEN "find" ELSE "listing")
    /\ UNCHANGED <<related, row, changes>>

\* One call fails: the request ends, the other listing is for nothing.
ListFails(c) ==
    /\ Turn(c, "listing")
    /\ Finish(c)
    /\ UNCHANGED <<related, row, changes>>

\* The followers, then the users followed, as they were listed: upsertProfile
\* reads the row, upsert reads it again and writes it.
FindProfile(c) ==
    /\ Turn(c, "find")
    /\ \E r \in Relations, u \in Users :
         /\ u \in loc[c].todo[r]
         /\ r = "following" => loc[c].todo["follower"] = {}
         /\ SetLocals(c, [loc[c] EXCEPT !.todo[r] = @ \ {u}, !.rel = r,
                                       !.user = u, !.row = row[u]])
    /\ Goto(c, "upsert")
    /\ UNCHANGED <<related, row, changes>>

FindRow(c) ==
    /\ Turn(c, "upsert")
    /\ SetLocals(c, [loc[c] EXCEPT !.found = row[loc[c].user].exists])
    /\ Goto(c, "write")
    /\ UNCHANGED <<related, row, changes>>

UpsertedAnew(old, r) ==
    [exists |-> TRUE, follower |-> r = "follower", following |-> r = "following",
     unfollowed |-> FALSE]

\* The relation that was listed is set, the other stays as it was read.
Upserted(old, r) ==
    IF r = "follower"
    THEN [old EXCEPT !.exists = TRUE, !.follower = TRUE, !.unfollowed = FALSE]
    ELSE [old EXCEPT !.exists = TRUE, !.following = TRUE]

\* A row inserted meanwhile by another process makes the insert fail.
WriteRow(c) ==
    LET u == loc[c].user IN
    /\ Turn(c, "write")
    /\ \/ /\ loc[c].found = row[u].exists
          /\ row' = [row EXCEPT ![u] = Upserted(loc[c].row, loc[c].rel)]
          /\ SetLocals(c, [loc[c] EXCEPT !.user = None, !.row = NoRow, !.found = FALSE])
          /\ Goto(c, "find")
       \/ loc[c].found # row[u].exists /\ Finish(c) /\ UNCHANGED row
    /\ UNCHANGED <<related, changes>>

\* Everything is stored: the complete listings are compared with the rows.
NextRelation(c) ==
    IF loc[c].rel = "follower"
    THEN SetLocals(c, [loc[c] EXCEPT !.rel = "following", !.missing = {}]) /\ Goto(c, "select")
    ELSE Finish(c)

StartMarking(c) ==
    /\ Turn(c, "find") /\ \A r \in Relations : loc[c].todo[r] = {}
    /\ SetLocals(c, [loc[c] EXCEPT !.rel = "follower"])
    /\ Goto(c, "select")
    /\ UNCHANGED <<related, row, changes>>

MissingOfPage(c) ==
    LET r == loc[c].rel IN {u \in Users : row[u][r] /\ u \notin loc[c].got[r]}

\* markMissingFollowersUnfollowed, markMissingFollowingInactive: the select.
Missing(c) ==
    LET r == loc[c].rel
    IN  {u \in Users : loc[c].full[r] /\ row[u][r] /\ u \notin loc[c].got[r]}

SelectMissing(c) ==
    /\ Turn(c, "select")
    /\ \/ Missing(c) = {} /\ NextRelation(c)
       \/ /\ Missing(c) # {}
          /\ SetLocals(c, [loc[c] EXCEPT !.missing = Missing(c)]) /\ Goto(c, "mark")
    /\ UNCHANGED <<related, row, changes>>

\* ... and the update of the rows it returned, whatever they are by now.
MarkMissing(c) ==
    LET r == loc[c].rel IN
    /\ Turn(c, "mark")
    /\ row' = [u \in Users |->
         IF u \notin loc[c].missing THEN row[u]
         ELSE IF r = "follower"
         THEN [row[u] EXCEPT !.follower = FALSE, !.unfollowed = TRUE]
         ELSE [row[u] EXCEPT !.following = FALSE]]
    /\ NextRelation(c)
    /\ UNCHANGED <<related, changes>>

-----------------------------------------------------------------------------
(* The platform and crashes. *)

\* u follows, is followed, or no longer; listings under way may or may not see it.
Change(r, u) ==
    /\ changes < MaxChanges /\ changes' = changes + 1
    /\ related' = [related EXCEPT ![r] = IF u \in @ THEN @ \ {u} ELSE @ \cup {u}]
    /\ loc' = [c \in Clients |-> IF ~loc[c].open[r] THEN loc[c]
         ELSE [loc[c] EXCEPT !.always[r] = @ \cap related'[r],
                             !.ever[r] = @ \cup related'[r]]]
    /\ UNCHANGED <<row, pc>>

Crash(h) ==
    /\ pc' = [c \in Clients |-> IF HostOf[c] = h THEN "idle" ELSE pc[c]]
    /\ loc' = [c \in Clients |-> IF HostOf[c] = h THEN NoLocals ELSE loc[c]]
    /\ UNCHANGED <<related, row, changes>>

-----------------------------------------------------------------------------
List(c)  == StartSync(c) \/ (\E r \in Relations : ListPage(c, r)) \/ ListFails(c)
Store(c) == FindProfile(c) \/ FindRow(c) \/ WriteRow(c)
Mark(c)  == StartMarking(c) \/ SelectMissing(c) \/ MarkMissing(c)

Next ==
    \/ \E c \in Clients : List(c) \/ Store(c) \/ Mark(c)
    \/ \E r \in Relations, u \in Users : Change(r, u)
    \/ \E h \in Hosts : Crash(h)

Spec == Init /\ [][Next]_vars

-----------------------------------------------------------------------------
(* Properties. *)

\* A relation is taken for lost only when a complete listing, of which nobody
\* knows at which moment it read which page, can have missed it because it was
\* gone for a moment at least: not by a page of a listing, a listing that
\* failed, or the storing of the other relation (one process).
LostOnlyIfGone ==
    [][\A u \in Users, r \in Relations : row[u][r] /\ ~row'[u][r] =>
         \E c \in Clients : /\ pc[c] = "mark" /\ loc[c].full[r]
                            /\ u \notin loc[c].always[r]]_vars

\* When a complete listing has been stored, whatever other requests list and
\* store at the same time, the rows say of each user what was true at some
\* moment of that listing (one process).
SyncedWasTrue ==
    [][\A c \in Clients : (SelectMissing(c) \/ MarkMissing(c)) /\ pc'[c] = "idle" =>
           \A r \in Relations, u \in Users : loc[c].full[r] =>
             /\ u \in loc[c].always[r] => row'[u][r]
             /\ row'[u][r] => u \in loc[c].ever[r]]_vars
=============================================================================
