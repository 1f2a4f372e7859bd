----------------------------- MODULE MCJobLocks -----------------------------
(***************************************************************************)
(* Two runs of the standard forward job, one of the selected-universe job  *)
(* and one heavy analysis, with the lock names of app/core/job_lock.py:    *)
(* 1 analysis-heavy, 2 forward-selected, 3 forward-standard.               *)
(***************************************************************************)
EXTENDS JobLocks

CONSTANTS standard1, standard2, selected, heavy

MCJobs == {standard1, standard2, selected, heavy}
MCLocks == 1..3
MCNeeds ==
    [p \in MCJobs |->
        CASE p = heavy -> {1}
          [] p = selected -> {1, 2}
          [] OTHER -> {1, 3}]

=============================================================================
