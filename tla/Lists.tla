------------------------------- MODULE Lists -------------------------------
(* SelectSeq of the standard modules, as a recursive function: the provers do not *)
(* know what SelectSeq is.                                                        *)
EXTENDS Integers, Sequences

\* The members of a list that are kept, in their order.
Sift(list, keep) ==
    LET upTo[n \in 0..Len(list)] ==
            IF n = 0 THEN <<>>
            ELSE IF list[n] \in keep THEN Append(upTo[n - 1], list[n]) ELSE upTo[n - 1]
    IN  upTo[Len(list)]
=============================================================================
