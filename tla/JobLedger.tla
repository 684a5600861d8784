----------------------------- MODULE JobLedger -----------------------------
(***************************************************************************)
(* What a run promises about its jobs, without queue, workers or reporter: *)
(* a job is started at most once and settles at most once under one class, *)
(* at most Slots of them run at a time, jobs are lost only by a cancelled  *)
(* run, and the run is declared over only when every job has settled or    *)
(* the run was cancelled.                                                  *)
(***************************************************************************)
EXTENDS Naturals, FiniteSets, Outcome

CONSTANTS
    Jobs,    \* the jobs of the plan
    Slots    \* how many may run at a time, a positive number

VARIABLES status, cancelled, over

ledgerVars == <<status, cancelled, over>>

LedgerTypeOK ==
    /\ status \in [Jobs -> {"pending", "running", "lost"} \cup JobClass]
    /\ cancelled \in BOOLEAN
    /\ over \in BOOLEAN

LedgerInit ==
    /\ status = [j \in Jobs |-> "pending"]
    /\ cancelled = FALSE
    /\ over = FALSE

Running == {j \in Jobs : status[j] = "running"}

Start(j) ==
    /\ status[j] = "pending"
    /\ Cardinality(Running) < Slots
    /\ status' = [status EXCEPT ![j] = "running"]
    /\ UNCHANGED <<cancelled, over>>

Settle(j, class) ==
    /\ status[j] = "running"
    /\ status' = [status EXCEPT ![j] = class]
    /\ UNCHANGED <<cancelled, over>>

Lose(j) ==
    /\ cancelled
    /\ status[j] = "pending"
    /\ status' = [status EXCEPT ![j] = "lost"]
    /\ UNCHANGED <<cancelled, over>>

CancelRun ==
    /\ cancelled' = TRUE
    /\ UNCHANGED <<status, over>>

Finish ==
    /\ cancelled \/ \A j \in Jobs : status[j] \in JobClass
    /\ over' = TRUE
    /\ UNCHANGED <<status, cancelled>>

LedgerNext ==
    \/ \E j \in Jobs : Start(j) \/ Lose(j)
    \/ \E j \in Jobs, class \in JobClass : Settle(j, class)
    \/ CancelRun
    \/ Finish

LedgerSpec == LedgerInit /\ [][LedgerNext]_ledgerVars
=============================================================================
