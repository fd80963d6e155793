--------------------------- MODULE MCBudgetedPosts ---------------------------
(***************************************************************************)
(* A small deployment of BudgetedPosts for TLC.                            *)
(***************************************************************************)
EXTENDS BudgetedPosts, TLC

CONSTANTS c1, c2, c3, x, p1, p2, k1

\* The API process, and one that takes over from it and already accepts posts.
TwoProcesses == [c \in {c1, c2, c3} |-> IF c = c3 THEN "next" ELSE "api"]

SomeOps == {<<c1, "createNow">>, <<c1, "publish">>, <<c2, "publish">>,
            <<c2, "review">>, <<c3, "create">>, <<c3, "policies">>}

TwoPolicies ==
    {[scope |-> "endpoint", value |-> "post.publish", limit |-> 1, action |-> "block"],
     [scope |-> "workspace", value |-> None, limit |-> 1,
      action |-> "require-approval"]}

Interchange == Permutations(Posts)
=============================================================================
