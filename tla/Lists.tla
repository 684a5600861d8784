-------------------------------- MODULE Lists --------------------------------
(***************************************************************************)
(* The loop the program filters its slices with.                           *)
(***************************************************************************)
EXTENDS Sequences, Naturals

\* out = append(out, x) for the elements at some positions, in their order.
Kept(s, positions) ==
    LET upTo[i \in 0..Len(s)] ==
          IF i = 0 THEN <<>>
          ELSE IF i \in positions THEN Append(upTo[i - 1], s[i]) ELSE upTo[i - 1]
    IN  upTo[Len(s)]
=============================================================================
