---------------------------- MODULE MCDispatchers ----------------------------
(***************************************************************************)
(* The dispatchers of PostScheduler alone, on posts that were scheduled    *)
(* before: the embedded worker in the API process and the cron process     *)
(* poll the same file, and a process may crash.                            *)
(***************************************************************************)
EXTENDS PostScheduler

CONSTANTS w1, w2, p1, p2, j1, j2

TwoProcesses == [a \in {w1, w2} |-> IF a = w1 THEN "api" ELSE "cron"]
PostOf       == [j \in {j1, j2} |-> IF j = j1 THEN p1 ELSE p2]

ShortBackoff == <<1, 2>>

InitScheduled == QueuedInit /\ \A j \in Jobs : job[j].post = PostOf[j]

DispatchSpec == InitScheduled /\ [][Next]_vars /\ Fairness
=============================================================================
