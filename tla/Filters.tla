-------------------------------- MODULE Filters --------------------------------
(***************************************************************************)
(* What is kept of a sequence, in its order: an array's filter, or the     *)
(* WHERE of a query with an ORDER BY.  (SelectSeq has no definition that   *)
(* the provers can unfold, so the proofs about what it keeps need this.)   *)
(***************************************************************************)
EXTENDS Naturals, Sequences

(* KeptTo(s, K)[i] is what is kept of the first i elements. *)
KeptTo(s, K) ==
  LET kept[i \in 0..Len(s)] ==
        IF i = 0 THEN <<>>
        ELSE IF s[i] \in K THEN Append(kept[i - 1], s[i]) ELSE kept[i - 1]
  IN kept

Kept(s, K) == KeptTo(s, K)[Len(s)]
=============================================================================
