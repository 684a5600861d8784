------------------------------ MODULE Outcome ------------------------------
(***************************************************************************)
(* The vocabulary the components share: how one attempt of a request, and  *)
(* one job after its retries, can end.  Status codes, bytes and durations  *)
(* are abstracted to what the retrier, the pool and the reporter branch    *)
(* on.                                                                     *)
(***************************************************************************)

\* The error of one Client.Warm call:
\*   "permanent"  a retry.PermanentError: a bad URL or a final 4xx status
\*   "transient"  a 429 or 5xx status, or a transport error
\*   "timeout"    the transport error of http.Client.Timeout or of a dial
\*                timeout: the target was too slow
\*   "ctx"        the run's own context was cancelled or expired
WarmErr == {"nil", "permanent", "transient", "timeout", "ctx"}

\* What is known of the cache once Execute is over: nothing (no response),
\* a hit, or one of miss / bypass / unknown.
CacheClass == {"none", "hit", "other"}

Result == [err : WarmErr, cache : CacheClass]

\* errors.Is(err, Canceled) or errors.Is(err, DeadlineExceeded).  The errors
\* net/http and net build for their own timeouts also answer TRUE to
\* errors.Is(err, context.DeadlineExceeded).
IsCtxErr(e) == e \in {"ctx", "timeout"}

JobClass == {"success", "failed", "cancelled"}

\* The class the pool counts a job under and the reporter writes it under.
ClassOf(r) ==
    IF r.err = "nil" THEN "success"
    ELSE IF IsCtxErr(r.err) THEN "cancelled" ELSE "failed"

\* What Retrier.Execute may hand back for a job while the context is done or
\* not: success comes with a response, and the context's error only from a
\* context that is done.  A response of an earlier attempt survives the error
\* of a later one.
Returns(done) ==
    {r \in Result : /\ r.err = "nil" => r.cache # "none"
                    /\ r.err = "ctx" => done}
=============================================================================
