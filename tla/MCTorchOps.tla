---------------------------- MODULE MCTorchOps ----------------------------
(* TorchOps with a library that lacks any one symbol, or the hgcc half.    *)
EXTENDS TorchOps

HgccOnly == {"prepare_dense", "recover_dense", "prepare_dense_for_tile", "recover_dense_for_tile",
             "dense_lowbit", "dense_fully_quantized", "grouped_fully_quantized"}
MCBuilds == {Symbols, Symbols \ HgccOnly, Symbols \ {"gemv_lowbit"},
             Symbols \ {"prepass_unit", "vecdot_dense", "bc_gemv", "dense_lowbit"},
             Symbols \ {"prepare_units", "recover_dense_for_tile"}}

MCDisks ==
  {[p \in Paths |-> IF p = LibraryPath(Default) THEN b ELSE Symbols \ HgccOnly] : b \in MCBuilds \cup {NoFile}}
    \cup {[p \in Paths |-> NoFile]}

Dense(q, n, act, tile) ==
  [q |-> q, n |-> n, k |-> 512, grouped |-> FALSE, rows |-> <<act>>, act |-> act,
   blocks |-> 2 * n, tile |-> tile, zmul |-> 8]
Ragged(q, rows) ==
  [q |-> q, n |-> 256, k |-> 512, grouped |-> TRUE, rows |-> rows,
   act |-> FoldLeft(LAMBDA a, b : a + b, 0, rows), blocks |-> Len(rows) * 512, tile |-> 0, zmul |-> 8]
Odd(r) == {[r EXCEPT !.k = 256, !.blocks = @ \div 2], [r EXCEPT !.blocks = @ + 1], [r EXCEPT !.act = @ + 1]}

Calls(routes, reqs) == {[route |-> x, req |-> r] : x \in routes, r \in reqs}
AllFormatsOf(r) == {[r EXCEPT !.q = q] : q \in Formats}
D == Dense("Q4_K", 256, 1, 0)
MCDense ==
  Calls({"scale_first_gemv", "scale_first_dense", "fully_quantized_dense", "bc_gemv",
         "dequantize_fully_quantized"}, AllFormatsOf(D))
  \cup Calls({"scale_first_dense_raw"}, {[D EXCEPT !.q = "Q3_K"], [D EXCEPT !.q = "Q6_K"]})
  \cup Calls({"dequantize_scale_first", "fully_quantized_dense", "native_gemv"},
             Odd(Dense("Q6_K", 256, 1, 0)))
  \cup Calls({"dequant_first", "fully_quantized_dense", "scale_first_gemv", "bc_gemv"},
             {Dense("Q4_K", 256, m, 0) : m \in {0, 2}} \cup {Dense("Q4_K", 128, 1, 0)})
  \cup Calls({"vecdot", "native_gemv", "scale_prepass"},
             {D, Dense("Q4_K", 8192, 1, 0), Dense("Q4_K", 256, 8192, 0), [D EXCEPT !.zmul = 4]})
  \cup Calls({"q4_artifact"}, {D, Dense("Q4_K", 32, 1, 0), Dense("Q5_K", 256, 1, 0)})
  \cup Calls({"dequantize_for_tile"},
             {Dense(q, 256, 1, tile) : q \in {"Q2_K", "Q5_K", "Q6_K"}, tile \in {64, 256}}
               \cup {Dense("Q4_K", 256, 1, 512)})
MCGrouped ==
  Calls({"scale_first_gemv", "fully_quantized_grouped", "bc_gemv", "dequantize_fully_quantized"},
        {Ragged("Q3_K", <<2, 0, 1>>), Ragged("Q6_K", <<0, 2>>)})
  \cup Calls({"dequant_first", "native_gemv_moe", "fully_quantized_grouped"},
             {Ragged("Q3_K", <<0, 0>>), Ragged("Q5_K", <<0, 2>>)} \cup Odd(Ragged("Q6_K", <<0, 2>>)))
  \cup Calls({"native_gemv_moe", "scale_first_gemv", "fully_quantized_grouped", "bc_gemv"},
             {Ragged("Q6_K", <<3, -1>>)})
Asks == {[route |-> "load_format", format |-> f] : f \in AllFormats}

(* The artifacts routes.prepare_fully_quantized_dense(tile_k) makes, given *)
(* to routes.dequantize_fully_quantized, which has no such parameter.      *)
MCTiled == [t \in Threads |-> Calls({"dequantize_fully_quantized"}, {Dense("Q2_K", 256, 1, 64)})]

MCWork == [t \in Threads |-> IF t = "t1" THEN MCDense \cup MCGrouped ELSE Asks]
=============================================================================
