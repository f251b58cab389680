-------------------------------- MODULE Retain --------------------------------
(***************************************************************************)
(* Vec::retain and VecDeque::retain: what is kept of a sequence, in order. *)
(***************************************************************************)
EXTENDS Naturals, Sequences

\* What is left of the first n elements, for each n.
Kept(s, keep) ==
    LET kept[n \in 0..Len(s)] ==
          IF n = 0 THEN <<>>
          ELSE IF s[n] \in keep THEN Append(kept[n-1], s[n]) ELSE kept[n-1]
    IN  kept

Retained(s, keep) == Kept(s, keep)[Len(s)]
=============================================================================
