---------------------------- MODULE PostLifecycle ----------------------------
(***************************************************************************)
(* What the system promises about one post, whatever requests, decisions,  *)
(* jobs, retries and cancellations interleave behind it: the status the    *)
(* database gives agrees with what the platform shows.  A post that may be *)
(* edited, scheduled or tried again is not out; one that is out is said to *)
(* be published, or is in the hands of who will say so; and it goes out    *)
(* once, but for publications nobody was told of.                          *)
(***************************************************************************)
EXTENDS Naturals

CONSTANT Posts

VARIABLES status,   \* what the database says of the post
          out       \* how many of its publications somebody was told of

Init ==
    /\ status = [p \in Posts |-> "draft"]
    /\ out = [p \in Posts |-> 0]

Becomes(p, s) == status' = [status EXCEPT ![p] = s] /\ UNCHANGED out

\* While it is parked or tried again, and when a try fails, it is not out.  A
\* try may also end and leave the post in "publishing".
Schedule(p) == status[p] = "draft" /\ out[p] = 0 /\ Becomes(p, "scheduled")

Release(p) ==
    /\ status[p] \in {"scheduled", "failed", "publishing"} /\ out[p] = 0
    /\ Becomes(p, "draft")

Begin(p) == status[p] = "draft" /\ out[p] = 0 /\ Becomes(p, "publishing")

Fail(p) ==
    /\ status[p] \in {"draft", "publishing", "deleted"} /\ out[p] = 0
    /\ Becomes(p, "failed")

\* Only a post whose try has begun goes out, or is taken for not having gone out.
Tried(p) == status[p] \in {"publishing", "deleted"} /\ UNCHANGED status

GoOut(p) == Tried(p) /\ out[p] = 0 /\ out' = [out EXCEPT ![p] = 1]

Forget(p) == Tried(p) /\ out[p] = 1 /\ out' = [out EXCEPT ![p] = 0]

Succeed(p) ==
    /\ status[p] \in {"publishing", "deleted"} /\ out[p] = 1
    /\ Becomes(p, "published")

Delete(p) == Becomes(p, "deleted")

Next ==
    \E p \in Posts :
       \/ Schedule(p) \/ Release(p) \/ Begin(p) \/ Fail(p)
       \/ GoOut(p) \/ Forget(p) \/ Succeed(p) \/ Delete(p)

Spec == Init /\ [][Next]_<<status, out>>
=============================================================================
