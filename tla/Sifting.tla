------------------------------ MODULE Sifting ------------------------------
(***************************************************************************)
(* The elements of a sequence that are in a set, in their order: what a    *)
(* loop with a `continue` keeps of its input.  It is SelectSeq with a set  *)
(* for the predicate, written out as a recursive function so that it can   *)
(* be reasoned about (RecursionProofs).                                    *)
(***************************************************************************)
EXTENDS Naturals, Sequences

Sift(s, S) ==
    LET kept[n \in 0..Len(s)] ==
            IF n = 0 THEN <<>>
            ELSE IF s[n] \in S THEN Append(kept[n - 1], s[n])
            ELSE kept[n - 1]
    IN kept[Len(s)]
=============================================================================
