---------------------------- MODULE Collections ----------------------------
(* Operations on sets and sequences that several modules need, written so    *)
(* that proofs can unfold them.                                              *)
EXTENDS Integers, Sequences, FiniteSetsExt

(* The sum of a function's values over a finite set: the SUM() of the        *)
(* queries and the sums of loops over rows                                   *)
SumOver(f, S) == MapThenSumSet(LAMBDA x : f[x], S)

(* The orders of the queue q whose ids are not among ids, in their order     *)
Dropped(q, ids) ==
  LET kept[i \in 0 .. Len(q)] ==
        IF i = 0 THEN <<>>
        ELSE IF q[i].id \in ids THEN kept[i - 1] ELSE Append(kept[i - 1], q[i])
  IN kept[Len(q)]
=============================================================================
