------------------------------- MODULE Lists -------------------------------
(* Lists as Python makes them. *)
EXTENDS Integers, Sequences

\* [s[k] for k in range(len(s)) if k in K]
Kept(s, K) ==
    LET kept[k \in 0 .. Len(s)] ==
          IF k = 0 THEN << >>
          ELSE IF k \in K THEN Append(kept[k - 1], s[k]) ELSE kept[k - 1]
    IN  kept[Len(s)]
=============================================================================
