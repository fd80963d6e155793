---------------------------- MODULE MCFollowerSync ---------------------------
(***************************************************************************)
(* A small deployment of FollowerSync for TLC.                             *)
(***************************************************************************)
EXTENDS FollowerSync, TLC

CONSTANTS c1, c2, u1, u2

\* Both requests are served by the API process.
OneProcess == [c \in {c1, c2} |-> "api"]

\* A sync of everything, or of all followers and one page of the followed.
AllOrFollowers ==
    {[follower |-> TRUE, following |-> x] : x \in BOOLEAN}

\* No property tells requests or users apart.
Symmetry == Permutations(Users) \cup Permutations(Clients)

=============================================================================
