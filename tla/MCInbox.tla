-------------------------------- MODULE MCInbox ------------------------------
(***************************************************************************)
(* Small deployments of Inbox for TLC.                                     *)
(***************************************************************************)
EXTENDS Inbox, TLC

CONSTANTS c1, c2, c3, t1, t2, r1

\* All requests are served by the API process.
OneProcess == [c \in {c1, c2, c3} |-> "api"]

\* A platform, a user who synchronises and reviews, a user who answers.
SomeOps == {<<c1, "webhook">>, <<c1, "review">>, <<c2, "sync">>,
            <<c3, "ask">>, <<c3, "reply">>, <<c3, "like">>}

Interchange == Permutations(Threads)
=============================================================================
