------------------------------- MODULE MCPool -------------------------------
(* Bounds and instances of Pool for TLC. *)
EXTENDS Pool, TLC

\* One result per way the pool and the reporter can go: both cache outcomes
\* of a success, failures with and without a response, a target's timeout,
\* and the run's cancellation, which may follow a response.
MCOutcomes ==
    {[err |-> "nil", cache |-> "hit"], [err |-> "nil", cache |-> "other"],
     [err |-> "permanent", cache |-> "other"], [err |-> "transient", cache |-> "none"],
     [err |-> "timeout", cache |-> "none"], [err |-> "ctx", cache |-> "hit"]}

\* The results when the target answers every request in time.
MCAnswered == {r \in MCOutcomes : r.err # "timeout"}

\* Two ways for a request to end, for the liveness run.
MCTwoOutcomes ==
    {[err |-> "nil", cache |-> "other"], [err |-> "ctx", cache |-> "none"]}

WorkerSymmetry == Permutations(Workers)
=============================================================================
