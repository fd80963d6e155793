---------------------------- MODULE MCStepSequences --------------------------
(***************************************************************************)
(* Small deployments of StepSequences for TLC: d1 and the requests run in  *)
(* the API process, d2 is the cron process.                                *)
(***************************************************************************)
EXTENDS StepSequences

CONSTANTS d1, d2, c1, e1, e2

ApiAndCron == [a \in {d1, d2, c1} |-> IF a = d2 THEN "cron" ELSE "api"]

\* Lists of delays: a first step that is due at once, or later.
TwoSteps        == {<<0, 1>>}
ShortAndLong    == {<<0>>, <<1, 0>>}
=============================================================================
