---------------------------- MODULE MCApprovalFlow ---------------------------
(***************************************************************************)
(* Small deployments of ApprovalFlow for TLC: the API server with its      *)
(* embedded dispatcher, where a second dispatcher is a request to          *)
(* POST /schedules/run-due.                                                *)
(***************************************************************************)
EXTENDS ApprovalFlow, TLC

CONSTANTS w1, w2, c1, c2, p1, p2, j1, j2, r1

OneProcess == [a \in {w1, w2, c1, c2} |-> "api"]

FlatBackoff == <<1>>

\* In one process actors, and rows of one table, are interchangeable.
Interchange == Permutations(Posts) \cup Permutations(Jobs)
                 \cup Permutations(Workers) \cup Permutations(Clients)
=============================================================================
