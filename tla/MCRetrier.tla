----------------------------- MODULE MCRetrier -----------------------------
(* Bounds and instances of Retrier for TLC. *)
EXTENDS Retrier

Policy(n, base, max, jitter, num, den) ==
    [maxAttempts |-> n, base |-> base, maxDelay |-> max, jitter |-> jitter,
     factor |-> [num |-> num, den |-> den]]

\* With and without a cap and a jitter, a base of zero, the values Execute
\* clamps, a product that reaches the cap, the largest that still fits, and
\* products and sums that the width cannot hold, under a cap and without;
\* factors between whole numbers and below one, and negative durations.
MCPolicies ==
    {Policy(4, 1, 3, 2, 2, 1), Policy(4, 1, 0, 0, 3, 1), Policy(3, 0, 2, 0, 2, 1),
     Policy(0, 1, 3, 2, 2, 1), Policy(3, 2, 6, 3, 0, 1), Policy(4, 3, 0, 4, 2, 1),
     Policy(6, 1, 3, 2, 2, 1), Policy(6, 1, 0, 2, 2, 1),
     Policy(4, 3, 9, 2, 3, 2), Policy(4, 12, 0, 0, 2, 3),
     Policy(5, -3, 4, 3, 2, 1), Policy(3, 3, -2, -1, 5, 2)}
=============================================================================
