----------------------------- MODULE MCDispatch -----------------------------
(* The tensors of the model, and some that it does not have: rows that no row    *)
(* block divides, a prime number of groups.                                      *)
EXTENDS Dispatch

MCLayouts ==
    {LayoutOf(s[1], s[2]) :
        s \in {<<48, 40>>, <<1024, 40>>, <<5120, 48>>, <<5120, 136>>, <<6144, 40>>,
               <<10240, 40>>, <<12288, 40>>, <<17408, 40>>, <<248320, 40>>,
               <<300, 37>>, <<2048, 12>>, <<77, 1>>}}
=============================================================================
