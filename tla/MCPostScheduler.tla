--------------------------- MODULE MCPostScheduler ---------------------------
(***************************************************************************)
(* Small deployments of PostScheduler for TLC.                             *)
(*                                                                         *)
(* OneProcess: the API server with the embedded polling worker             *)
(* (ENABLE_SCHEDULER=true), where a second dispatcher is a request to      *)
(* POST /schedules/run-due.                                                *)
(***************************************************************************)
EXTENDS PostScheduler

CONSTANTS w1, w2, c1, c2, p1, p2, j1, j2

OneProcess   == [a \in {w1, w2, c1, c2} |-> "api"]

\* RETRY_BACKOFF_SECONDS = [30, 120, 480] grows with each try; so does this.
ShortBackoff == <<1, 2>>
=============================================================================
