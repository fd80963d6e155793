---------------------------- MODULE JobLifecycle ----------------------------
(***************************************************************************)
(* What the scheduler promises about one scheduled_jobs row, whatever the  *)
(* dispatchers, locks and clocks do: it waits, is run one try at a time    *)
(* and at most limit times (once if limit is 0), and ends once.            *)
(***************************************************************************)
EXTENDS Naturals

CONSTANT Jobs

VARIABLES phase, tries, limit

Phases == {"none", "waiting", "running", "succeeded", "failed"}

Init ==
    /\ phase = [j \in Jobs |-> "none"]
    /\ tries = [j \in Jobs |-> 0]
    /\ limit = [j \in Jobs |-> 0]

Move(j, from, to) ==
    /\ phase[j] = from
    /\ phase' = [phase EXCEPT ![j] = to]

Submit(j) ==
    /\ Move(j, "none", "waiting")
    /\ limit' = [limit EXCEPT ![j] = limit'[j]] /\ limit'[j] \in Nat
    /\ UNCHANGED tries

Begin(j) ==
    /\ Move(j, "waiting", "running")
    /\ tries[j] = 0 \/ tries[j] < limit[j]
    /\ tries' = [tries EXCEPT ![j] = @ + 1]
    /\ UNCHANGED limit

Retry(j) ==
    /\ Move(j, "running", "waiting")
    /\ tries[j] < limit[j]
    /\ UNCHANGED <<tries, limit>>

\* The last try has an outcome, or the user cancels a waiting job.
End(j) ==
    /\ \/ Move(j, "running", "succeeded")
       \/ Move(j, "running", "failed")
       \/ Move(j, "waiting", "failed")
    /\ UNCHANGED <<tries, limit>>

Next == \E j \in Jobs : Submit(j) \/ Begin(j) \/ Retry(j) \/ End(j)

Spec == Init /\ [][Next]_<<phase, tries, limit>>
=============================================================================
