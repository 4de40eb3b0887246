------------------------------ MODULE MCMetal ------------------------------
(* Tensors of one tile and of several, batches that fill their blocks and that  *)
(* do not, and every form of the two kernels.                                   *)
EXTENDS MetalMatmul

MCShapes == {<<1, 2>>, <<3, 2>>, <<4, 2>>}

Lut23(threads, batch_tile, k_split) ==
    [kernel |-> "lut", threads |-> threads, batch_tile |-> batch_tile, k_split |-> k_split]

Gemm(batch_block, row_block, simd_rows, simd_columns, k_chunks, fragments, epilogue, table) ==
    [kernel |-> "gemm", batch_block |-> batch_block, row_block |-> row_block,
     simd_rows |-> simd_rows, simd_columns |-> simd_columns, k_chunks |-> k_chunks,
     direct_fragments |-> fragments, direct_epilogue |-> epilogue, threadgroup_table |-> table]

MCConfigs ==
    {Lut23(2, 1, 1), Lut23(2, 2, 2)}
    \union {Gemm(2, 2, 1, 2, 1, f[1], f[2], f[3]) :
                f \in {f \in BOOLEAN \X BOOLEAN \X BOOLEAN : f[3] => f[1]}}
    \union {Gemm(2, 1, 2, 1, 2, FALSE, FALSE, FALSE), Gemm(2, 3, 2, 1, 1, FALSE, FALSE, FALSE)}
=============================================================================
