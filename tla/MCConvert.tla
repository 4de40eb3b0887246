------------------------------ MODULE MCConvert ------------------------------
(* A model of three tensors for Convert, in TLC; the .cfg files choose the budget. *)
EXTENDS Convert

\* Two quantised tensors with a plain one between them.
ThreeTensors == <<"embed", "norm", "proj">>
TwoQuantised == {"embed", "proj"}
SmallBytes == [a \in {"embed", "proj"} \X {"codes"} |-> 3]
              @@ [a \in ({"embed", "proj"} \X {"scales"}) \union {<<"norm", "plain">>} |-> 1]

\* The eight bytes of a shard end between the codes and the scales of "proj";
\* in nine bytes everything fits.
Split == {8}
SplitOrNot == {8, 9}
=============================================================================
