---------------------------- MODULE OffsetGroups ----------------------------
(***************************************************************************)
(* How flush takes a batch apart: one pass over it, in order, in which     *)
(* every offset is appended to the slice of its own key.  Used by the      *)
(* database writer and by the store it implements.                         *)
(***************************************************************************)
EXTENDS Naturals, Sequences

\* The offsets of b that are in S, in the order in which b has them: the
\* slice of the loop over b after each of its turns.
Only(b, S) ==
    LET slice[n \in 0..Len(b)] ==
            IF n = 0 THEN <<>>
            ELSE IF b[n] \in S THEN Append(slice[n - 1], b[n])
            ELSE slice[n - 1]
    IN  slice[Len(b)]
=============================================================================
