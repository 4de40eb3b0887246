----------------------------- MODULE MCSidecars -----------------------------
(* A recurrent and an attention layer of one matrix each, the output head and the *)
(* embedding; blocks of eight weights, tiles of two rows. For the crosscheck, two  *)
(* key heads and three value heads to each, of eight channels.                    *)
EXTENDS Sidecars, Crosscheck

Qkv == <<0, "attn_qkv">>
Query == <<1, "attn_q">>
Embedding == <<-1, "token_embd">>

\* Three rows: the last tile is half padding.
MCShape ==
    Embedding :> [rows |-> 1, groups |-> 1] @@ Qkv :> [rows |-> 3, groups |-> 1]
    @@ Query :> [rows |-> 1, groups |-> 2] @@ Output :> [rows |-> 1, groups |-> 1]

\* Not the order of the launches.
MCTensorOrder == <<Embedding, Output, Qkv, Query>>

MCAttention == <<"attn_q">>
MCRecurrent == <<"attn_qkv">>

\* Bytes of four codes: 0 1 2 0, 2 2 2 2, 1 0 0 2 by turns. The first is not its own reverse.
MCQuants == <<36, 170, 129>>

MCQ2(t) ==
    [c \in CellsOf(t) |->
        [scale |-> IF c[1] = 0 THEN "s" ELSE "t",
         quants |-> [i \in 0..1 |-> MCQuants[((c[1] + c[2] + i) % 3) + 1]]]]

MCRelease == [q2 |-> [t \in Names |-> MCQ2(t)], plain |-> 0]

\* The tail of the row is 7: 34 decodes to the same weights, and is no code. In the model,
\* another ternary byte and one with a fourth symbol.
MCDamages ==
    {[file |-> f, tensor |-> Qkv, cell |-> <<2, 0>>, slot |-> 1, byte |-> b] :
        f \in {"sidecar", "reordered"}, b \in {0, 34}}
    \cup {[file |-> "reordered", tensor |-> Qkv, cell |-> <<3, 0>>, slot |-> 0, byte |-> 1],
          [file |-> "gguf", tensor |-> Qkv, cell |-> <<0, 0>>, slot |-> 0, byte |-> 0],
          [file |-> "model", tensor |-> Query, cell |-> <<0, 1>>, slot |-> 1, byte |-> 192],
          [file |-> "model", tensor |-> Query, cell |-> <<0, 1>>, slot |-> 1, byte |-> 1],
          [file |-> "plain", tensor |-> Query, cell |-> <<0, 1>>, slot |-> 1, byte |-> 1]}
----------------------------------------------------------------------------

Matrix(rows, groups, axis, unit) ==
    [layer |-> 0, rows |-> rows, groups |-> groups, quantised |-> TRUE,
     axis |-> axis, unit |-> unit, logged |-> FALSE]

\* Two slots before the value heads; a matrix of a chunk and a half; two rivals.
MCCensus ==
    "attn_qkv" :> Matrix(50, 1, "rows", "channel") @@ "ssm_out" :> Matrix(1, 6, "columns", "channel")
    @@ "ssm_alpha" :> Matrix(6, 1, "rows", "head") @@ "ssm_beta" :> Matrix(6, 1, "rows", "head")
    @@ "ffn_down" :> Matrix(3, 1, "none", "none")
    @@ "ssm_a" :> [Matrix(6, 1, "rows", "head") EXCEPT !.quantised = FALSE, !.logged = TRUE]

MCModuleOf == [t \in DOMAIN MCCensus |-> <<"mlx", t>>]

MCLogNegate == [v \in -7..0 |-> IF v = 0 THEN NaN ELSE 0 - v - 1]

\* Every row and group has a scale of its own; ssm_beta is not ssm_alpha.
MCGguf ==
    [t \in DOMAIN MCCensus |->
        IF t = "ssm_a" THEN [r \in 0..5 |-> 0 - r - 1]
        ELSE [c \in Cells(MCCensus[t].rows, MCCensus[t].groups) |->
            [scale |-> c[1] + c[2] + (IF t = "ssm_beta" THEN 2 ELSE 1),
             quants |-> [i \in 0..1 |-> MCQuants[((c[1] + c[2] + i) % 3) + 1]]]]]

\* The checkpoint that holds the same: its head k * 3 + n is the GGUF's n * 2 + k.
Twin(i, first, slots) ==
    LET head == (i - first) \div slots
    IN  IF i < first THEN i
        ELSE first + ((head % 3) * 2 + head \div 3) * slots + ((i - first) % slots)

TwinBlock(t, r, g) ==
    CASE t = "attn_qkv" -> MCGguf[t][Twin(r, 2, 8), g]
      [] t = "ssm_out" -> MCGguf[t][r, Twin(g, 0, 1)]
      [] t \in {"ssm_alpha", "ssm_beta"} -> MCGguf[t][Twin(r, 0, 1), g]
      [] t = "ffn_down" -> MCGguf[t][r, g]

TwinModule(t) ==
    IF t = "ssm_a" THEN [r \in 0..5 |-> MCLogNegate[MCGguf[t][Twin(r, 0, 1)]]]
    ELSE LET rows == 0..MCCensus[t].rows - 1
             groups == 0..MCCensus[t].groups - 1
         IN  [codes |-> [x \in rows \X (0..MCCensus[t].groups * 8 - 1) |->
                            DecodeQ2(TwinBlock(t, x[1], x[2] \div 8))[x[2] % 8]],
              scales |-> [c \in rows \X groups |-> TwinBlock(t, c[1], c[2]).scale],
              biases |-> [c \in rows \X groups |-> 0 - TwinBlock(t, c[1], c[2]).scale]]

Same == [m \in {MCModuleOf[t] : t \in DOMAIN MCCensus} |-> TwinModule(m[2])]

Of(t) == <<"mlx", t>>

\* A code, a scale, a bias or a value that is another, wherever a chunk begins or ends; one
\* that is not finite; heads left in the GGUF's order; rivals exchanged, and a name missing.
MCCheckpoints ==
    {Same,
     [Same EXCEPT ![Of("ssm_alpha")] = Same[Of("ssm_beta")],
                  ![Of("ssm_beta")] = Same[Of("ssm_alpha")]],
     [Same EXCEPT ![Of("ssm_alpha")] = Same[Of("ssm_beta")]],
     [Same EXCEPT ![Of("ssm_out")].scales =
         [c \in DOMAIN @ |-> MCGguf["ssm_out"][c].scale]],
     [m \in DOMAIN Same \ {Of("ssm_a")} |-> Same[m]],
     [Same EXCEPT ![Of("ssm_a")][2] = NaN],
     [Same EXCEPT ![Of("ssm_a")][0] = NegativeZero],
     [Same EXCEPT ![Of("ssm_a")][3] = 9]}
    \cup {[Same EXCEPT ![Of("attn_qkv")].codes[<<r, 5>>] = 3 - @] : r \in {0, 1, 2, 49}}
    \cup {[Same EXCEPT ![Of("ffn_down")].codes[<<r, 7>>] = (@ + 1) % 3] : r \in {0, 1, 2}}
    \cup {[Same EXCEPT ![Of("ffn_down")].biases[<<r, 0>>] = @ - d] : r \in {1, 2}, d \in {1, 2}}
    \cup {[Same EXCEPT ![Of("ffn_down")].scales[<<r, 0>>] = NaN,
                       ![Of("ffn_down")].biases[<<r, 0>>] = NaN] : r \in {0, 2}}
    \cup {[Same EXCEPT ![Of("ssm_beta")].scales[<<r, 0>>] = @ + 1] : r \in {0, 5}}

----------------------------------------------------------------------------
\* The crosscheck shares no state with the other tools: it is made before any of them.
MCInit == Init /\ CheckInit

MCNext ==
    \/ Next /\ checked = NotChecked /\ UNCHANGED checked
    \/ audit = Missing /\ damage = 0 /\ Check /\ UNCHANGED vars

MCSpec == MCInit /\ [][MCNext]_<<vars, checked>>
=============================================================================
