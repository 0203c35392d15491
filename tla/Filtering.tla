------------------------------- MODULE Filtering -------------------------------
(* Lists from which elements are taken out: retain and filter of Rust. Kept is *)
(* SelectSeq with a set for the test, as a recursive function so that it can   *)
(* be reasoned about.                                                         *)
EXTENDS Naturals, Sequences

Elements(b) == {b[i] : i \in 1..Len(b)}

\* The elements of b that are in S, in their order.
Kept(b, S) ==
    LET kept[n \in 0..Len(b)] ==
            IF n = 0 THEN <<>>
            ELSE IF b[n] \in S THEN Append(kept[n - 1], b[n]) ELSE kept[n - 1]
    IN  kept[Len(b)]
===============================================================================
