---------------------------- MODULE DenseDecoder ----------------------------
(***************************************************************************)
(* The program the shared lowering emits for a bound model: its parameter  *)
(* globals, its helper functions, and the instructions of the prefill and  *)
(* decode entry points, static and paged.                                  *)
(*                                                                         *)
(* An instruction is [ssa, fn, args, w]: the value it defines, the emitted *)
(* function (or dialect operation) it calls, the values it takes and the   *)
(* weight it loads. A value is <<layer, name>>; a function is              *)
(* <<base, variant>>, variant "tok" for the one-row functions of decode.   *)
(* A function that only wraps instructions is entered, which is an         *)
(* instruction of its own, and its body follows in place. What is unrolled *)
(* over the pages of a chunk is one instruction.                           *)
(* The configuration c is DenseDecoderConfig; rope -1 is None.             *)
(***************************************************************************)
EXTENDS Kernels

NoWeight == <<"none", -1, "none">>
Instr(ssa, fn, args, w) == [ssa |-> ssa, fn |-> fn, args |-> args, w |-> w]
LayerKind(c, l) == c.kinds[l + 1]
HasShortConv(c) == "conv" \in ToSet(c.kinds)
QDim(c) == c.heads * c.headDim
KvDim(c) == c.kvHeads * c.headDim
UseIreeAttention(c) == c.flash /\ c.headDim >= 64
PagedKvElementType(c) == IF c.paged /\ UseIreeAttention(c) THEN "f16" ELSE "f32"

----------------------------------------------------------------------------
(* ParameterLowerings *)

Plain(c, w) == w \notin DOMAIN c.bindings \/ c.bindings[w].enc.kind = "plain"

\* helper_key of the quantized definitions: the shape is the checkpoint's. The
\* MLX key also asks for the lowering of the operation and the group size. The
\* key that is missing is NoHelper.
NoHelper == <<>>
HelperKind(operation) == IF operation = "Embedding" THEN "gather" ELSE "linear"
BlockHelperKey(enc, shape, operation, rows) ==
  IF enc.codec \in DOMAIN BlockLayouts /\ Len(shape) = 2 /\ shape[2] % BlockLayouts[enc.codec][1] = 0
  THEN <<enc.codec, HelperKind(operation), rows, shape[2], shape[1]>>
  ELSE NoHelper
AffineHelperKey(enc, shape, lowering, operation, rows) ==
  IF /\ enc.bits = 4 /\ Len(shape) = 2 /\ Len(lowering) = 3
     /\ lowering[2] = (IF operation = "Embedding" THEN "gather" ELSE "matmul")
  THEN <<"mlx-u4", HelperKind(operation), rows, shape[2], shape[1], enc.group, lowering[3]>>
  ELSE NoHelper
HelperKey(binding, lowering, operation, rows) ==
  CASE binding.enc.kind = "block" -> BlockHelperKey(binding.enc, binding.shape, operation, rows)
    [] binding.enc.kind = "group" ->
         AffineHelperKey(binding.enc, binding.shape, lowering, operation, rows)
    [] OTHER -> NoHelper

\* emit_quantized_helpers: one helper for each key of each mode; a parameter is
\* an embedding or an output projection by its name.
OperationOf(w) == CASE w = <<"blk", -1, "token_embd">> -> "Embedding"
                    [] w = <<"blk", -1, "output">> -> "OutputProjection"
                    [] OTHER -> "Linear"
RowsOf(c, w, mode) ==
  IF OperationOf(w) = "Linear" /\ mode = "Prefill" THEN c.seq ELSE 1
QuantizedHelpers(c) ==
  {HelperKey(c.bindings[w], c.lowerings[<<w, mode>>], OperationOf(w), RowsOf(c, w, mode)) :
     w \in {v \in DOMAIN c.bindings : ~Plain(c, v) /\ Len(c.bindings[v].shape) = 2},
     mode \in Modes}

\* emit_linear_call, emit_embedding_call and emit_output_projection: a plain
\* weight goes to the shared function, a quantized one to its own helper. On
\* NoHelper the emitter's expect panics.
WeightFn(c, dense, mode, w, rows) ==
  IF Plain(c, w) THEN dense
  ELSE HelperKey(c.bindings[w], c.lowerings[<<w, mode>>], OperationOf(w), rows)

\* emit_load: a plain weight is stored in a float type and computed in f32.
LoadAccepts(c, w) ==
  Plain(c, w) => /\ c.dtypes[w] \in {"f16", "bf16", "f32"}
                 /\ c.compute[w] = "f32"

----------------------------------------------------------------------------
(* emit_globals *)

\* The weights a program declares, with the shapes the configuration gives them.
LayerWeights(c, l) ==
  LET w(leaf, shape) == <<<<"blk", l, leaf>>, shape>>
      attention == << w("attn_q", <<QDim(c), c.hidden>>), w("attn_k", <<KvDim(c), c.hidden>>),
                      w("attn_v", <<KvDim(c), c.hidden>>), w("attn_output", <<c.hidden, QDim(c)>>) >>
      norms == IF c.qkNorm THEN << w("attn_q_norm", <<c.headDim>>), w("attn_k_norm", <<c.headDim>>) >>
               ELSE <<>>
      conv == << w("shortconv.in_proj", <<3 * c.convDim, c.hidden>>),
                 w("shortconv.conv", <<c.convDim, 1, c.convKernel>>),
                 w("shortconv.out_proj", <<c.hidden, c.convDim>>) >>
  IN <<w("attn_norm", <<c.hidden>>)>>
       \o (IF LayerKind(c, l) = "conv" THEN conv ELSE attention \o norms)
       \o << w("ffn_norm", <<c.hidden>>), w("ffn_gate", <<c.inter, c.hidden>>),
             w("ffn_up", <<c.inter, c.hidden>>), w("ffn_down", <<c.hidden, c.inter>>) >>
Weights(c) ==
  << <<<<"blk", -1, "token_embd">>, <<c.vocab, c.hidden>>>> >>
    \o FlattenSeq([i \in DOMAIN c.kinds |-> LayerWeights(c, i - 1)])
    \o << <<<<"blk", -1, "output_norm">>, <<c.hidden>>>>,
          <<<<"blk", -1, "output">>, <<c.vocab, c.hidden>>>> >>

\* Mutant: a plain global has the type it is computed in.
GlobalsOfComputeType(c, w, shape) == {<<c.keys[w], Product(shape) * SizeBytes(c.compute[w])>>}

\* emit_global: the key of each global and the bytes of its type. A plain one
\* has the configured shape, a quantized one the components of its binding.
GlobalsOf(c, w, shape) ==
  IF Plain(c, w)
  THEN {<<c.keys[w], Product(shape) * SizeBytes(c.dtypes[w])>>}
  ELSE {<<comp.external, FoldLeft(LAMBDA a, b : a + b, 0, comp.lengths)>> :
          comp \in ToSet(c.bindings[w].comps)}
Globals(c) == UNION {GlobalsOf(c, w[1], w[2]) : w \in ToSet(Weights(c))}

----------------------------------------------------------------------------
(* emit_helpers *)

Fn(base, tok) == <<base, IF tok THEN "tok" ELSE "seq">>
KvFn(c, base, tok) == Fn(base \o (IF c.kvHeads = c.heads THEN "_q" ELSE "_kv"), tok)

\* PagedVariant::function: a function of an entry point, or of one of its layers.
PageFn(base, tok) == <<base, IF tok THEN "decode_" ELSE "">>
LayerFn(base, tok, l) == <<base, l, tok>>
LayersOf(c, conv) == {l \in 0..(Len(c.kinds) - 1) : (LayerKind(c, l) = "conv") = conv}

\* The functions every entry point of one row count needs.
RowHelpers(c, tok) ==
  {Fn(f, tok) : f \in {"rms_norm", "linear_hq", "linear_hkv", "linear_qh", "linear_hi",
                       "linear_ih"}}
    \cup (IF HasShortConv(c)
          THEN {Fn("linear_h_c3", tok), Fn("linear_c_h", tok)}
                 \cup {LayerFn("conv_op", tok, l) : l \in LayersOf(c, TRUE)}
          ELSE {})
    \cup (IF c.qkNorm THEN {Fn("rms_norm_heads_q", tok), KvFn(c, "rms_norm_heads", tok)}
          ELSE {})

\* Mutant: the rotary helper of the key heads is left to the query's.
PagedHelpersShareRope(c, tok) ==
  RowHelpers(c, tok)
    \cup {Fn("prepare_paged_attention", tok)}
    \cup {Fn(f, tok) : f \in IF UseIreeAttention(c) THEN {"iree_attention", "full_causal_mask"}
                             ELSE {"online_attention_page", "paged_causal_mask"}}
    \cup (IF c.rope >= 0 THEN {Fn("apply_rope_chunk_q", tok)} ELSE {})
    \cup (IF ~tok /\ c.kvHeads # c.heads THEN {<<"repeat_kv", "seq">>} ELSE {})

\* emit_helpers with pages and emit_paged_decode_helpers: prefill and decode have
\* separate helpers.
PagedHelpers(c, tok) ==
  RowHelpers(c, tok)
    \cup {Fn("prepare_paged_attention", tok)}
    \cup {Fn(f, tok) : f \in IF UseIreeAttention(c) THEN {"iree_attention", "full_causal_mask"}
                             ELSE {"online_attention_page", "paged_causal_mask"}}
    \cup (IF c.rope >= 0 THEN {Fn("apply_rope_chunk_q", tok), Fn("apply_rope_chunk_kv", tok)}
          ELSE {})
    \cup (IF ~tok /\ c.kvHeads # c.heads THEN {<<"repeat_kv", "seq">>} ELSE {})

\* emit_paged_decoder: the functions a paged entry point is made of, those of a
\* layer by its kind. layer_page is for the attention by pages only.
PagedFunctions(c, tok) ==
  {PageFn(f, tok) : f \in {"chunk_begin", "layer_store", "chunk_logits", "hist_pages",
                           "packed_extract", "page_to_kv"}}
    \cup (IF UseIreeAttention(c) THEN {} ELSE {PageFn("layer_page", tok)})
    \cup {LayerFn("layer_shortconv", tok, l) : l \in LayersOf(c, TRUE)}
    \cup UNION {{LayerFn("layer_prepare", tok, l), LayerFn("layer_finish", tok, l),
                 LayerFn("fused_attn", tok, l)} : l \in LayersOf(c, FALSE)}

\* emit_helpers without pages, emit_attn and emit_decode_helpers: a key helper
\* is emitted apart from the query's only when there are fewer key heads.
StaticHelpers(c) ==
  RowHelpers(c, FALSE) \cup RowHelpers(c, TRUE)
    \cup {<<"attn", "seq">>, <<"attn_decode", "tok">>, <<"kv_update_row", "tok">>}
    \cup (IF c.rope >= 0
          THEN {Fn("apply_rope_q", FALSE), KvFn(c, "apply_rope", FALSE),
                Fn("apply_rope_at_q", TRUE), KvFn(c, "apply_rope_at", TRUE)}
          ELSE {})
    \cup (IF c.kvHeads # c.heads THEN {<<"repeat_kv", "seq">>, <<"repeat_kv_mk", "tok">>} ELSE {})

\* Which entry points a program has: it is "Combined", "Prefill" or "Decode".
Emits(program, tok) == program # (IF tok THEN "Prefill" ELSE "Decode")

\* What a program defines.
Helpers(c, program) ==
  QuantizedHelpers(c) \cup
  (IF c.paged
   THEN UNION {PagedHelpers(c, tok) \cup PagedFunctions(c, tok) :
                 tok \in {t \in BOOLEAN : Emits(program, t)}}
   ELSE StaticHelpers(c))

----------------------------------------------------------------------------
(* Instructions shared by the entry points *)

Mode(tok) == IF tok THEN "Decode" ELSE "Prefill"
Rows(c, tok) == IF tok THEN 1 ELSE c.seq
W(l, leaf) == <<"blk", l, leaf>>
V(l, name) == <<l, name>>
\* Operations that are emitted in place.
Dialect(op) == <<op, "dialect">>
DialectOps == {Dialect(op) : op \in {"addf", "mulf", "silu", "store", "gather", "output_proj",
                                      "select", "extract_slice"}}
Enter(l, fn) == <<Instr(V(l, "enter"), fn, <<>>, NoWeight)>>

Norm(c, tok, l, name, x, leaf) ==
  Instr(V(l, name), Fn("rms_norm", tok), <<x>>, W(l, leaf))
Lin(c, tok, l, name, dense, x, leaf) ==
  Instr(V(l, name), WeightFn(c, Fn(dense, tok), Mode(tok), W(l, leaf), Rows(c, tok)), <<x>>,
        W(l, leaf))
Add(l, name, x, y) == Instr(V(l, name), Dialect("addf"), <<x, y>>, NoWeight)

Projections(c, tok, l, x) ==
  << Norm(c, tok, l, "xn", x, "attn_norm"),
     Lin(c, tok, l, "q", "linear_hq", V(l, "xn"), "attn_q"),
     Lin(c, tok, l, "k", "linear_hkv", V(l, "xn"), "attn_k"),
     Lin(c, tok, l, "v", "linear_hkv", V(l, "xn"), "attn_v") >>

\* Head norms and rotation, in that order; the names say which happened.
HeadNorms(c, tok, l) ==
  IF c.qkNorm
  THEN << Instr(V(l, "qn"), Fn("rms_norm_heads_q", tok), <<V(l, "q")>>, W(l, "attn_q_norm")),
          Instr(V(l, "kn"), KvFn(c, "rms_norm_heads", tok), <<V(l, "k")>>, W(l, "attn_k_norm")) >>
  ELSE <<>>
Normed(c, l, part) == V(l, IF c.qkNorm THEN part \o "n" ELSE part)
Rotated(c, l, part) == IF c.rope >= 0 THEN V(l, part \o "r") ELSE Normed(c, l, part)
Rotations(c, l, qfn, kfn) ==
  IF c.rope >= 0 THEN << Instr(V(l, "qr"), qfn, <<Normed(c, l, "q")>>, NoWeight),
                         Instr(V(l, "kr"), kfn, <<Normed(c, l, "k")>>, NoWeight) >>
  ELSE <<>>
\* The key and the value heads repeated for every query head.
Repeats(c, l, fn, k, v) ==
  IF c.kvHeads # c.heads THEN << Instr(V(l, "krep"), fn, <<k>>, NoWeight),
                                 Instr(V(l, "vrep"), fn, <<v>>, NoWeight) >>
  ELSE <<>>
Repeated(c, l, part, x) == IF c.kvHeads # c.heads THEN V(l, part \o "rep") ELSE x
Store(l, k, v) == << Instr(V(l, "kstore"), Dialect("store"), <<k>>, NoWeight),
                     Instr(V(l, "vstore"), Dialect("store"), <<v>>, NoWeight) >>
AttnOut(c, tok, l, x) == << Lin(c, tok, l, "o", "linear_qh", V(l, "ctx"), "attn_output"),
                            Add(l, "h2", x, V(l, "o")) >>

ConvMixer(c, tok, l, x) ==
  << Norm(c, tok, l, "xn", x, "attn_norm"),
     Lin(c, tok, l, "conv_inp", "linear_h_c3", V(l, "xn"), "shortconv.in_proj"),
     Instr(V(l, "conv_y"), LayerFn("conv_op", tok, l), <<V(l, "conv_inp")>>, W(l, "shortconv.conv")),
     Lin(c, tok, l, "conv_proj", "linear_c_h", V(l, "conv_y"), "shortconv.out_proj"),
     Add(l, "h2", x, V(l, "conv_proj")) >>
FeedForward(c, tok, l) ==
  << Norm(c, tok, l, "fn", V(l, "h2"), "ffn_norm"),
     Lin(c, tok, l, "gate", "linear_hi", V(l, "fn"), "ffn_gate"),
     Lin(c, tok, l, "up", "linear_hi", V(l, "fn"), "ffn_up"),
     Instr(V(l, "silu"), Dialect("silu"), <<V(l, "gate")>>, NoWeight),
     Instr(V(l, "ff"), Dialect("mulf"), <<V(l, "silu"), V(l, "up")>>, NoWeight),
     Lin(c, tok, l, "down", "linear_ih", V(l, "ff"), "ffn_down"),
     Add(l, "hout", V(l, "h2"), V(l, "down")) >>

Tokens == V(-1, "tokens")
Gather(c, mode) ==
  <<Instr(V(-1, "embed"), WeightFn(c, Dialect("gather"), mode, W(-1, "token_embd"), 1),
          <<Tokens>>, W(-1, "token_embd"))>>
Projected(c, tok, x) ==
  << Norm(c, tok, -1, "ln", x, "output_norm"),
     Instr(V(-1, "logits"), WeightFn(c, Dialect("output_proj"), Mode(tok), W(-1, "output"), 1),
           <<V(-1, "ln")>>, W(-1, "output")) >>
LayerIn(l) == IF l = 0 THEN V(-1, "embed") ELSE V(l - 1, "hout")
LastOut(c) == LayerIn(Len(c.kinds))

----------------------------------------------------------------------------
(* emit_prefill and emit_decode: the static entry points *)

PrefillEmbed(c) == Gather(c, "Prefill")
PrefillConv(c, l) == ConvMixer(c, FALSE, l, LayerIn(l))
\* attn rotates, repeats the heads, attends over the window and returns the keys
\* it rotated, which are stored at the head of a cleared cache.
Attn(c, l) ==
  LET k == Rotated(c, l, "k")
      v == V(l, "v")
  IN HeadNorms(c, FALSE, l)
       \o Rotations(c, l, Fn("apply_rope_q", FALSE), KvFn(c, "apply_rope", FALSE))
       \o Repeats(c, l, <<"repeat_kv", "seq">>, k, v)
       \o <<Instr(V(l, "ctx"), <<"attn", "seq">>,
                  <<Rotated(c, l, "q"), Repeated(c, l, "k", k), Repeated(c, l, "v", v)>>,
                  NoWeight)>>
PrefillAttention(c, l) ==
  Projections(c, FALSE, l, LayerIn(l)) \o Attn(c, l) \o Store(l, Rotated(c, l, "k"), V(l, "v"))
    \o AttnOut(c, FALSE, l, LayerIn(l))
PrefillFfn(c, l) == FeedForward(c, FALSE, l)
PrefillLogits(c) == Projected(c, FALSE, LastOut(c))

DecodeEmbed(c) == Gather(c, "Decode")
DecodeConv(c, l) == ConvMixer(c, TRUE, l, LayerIn(l))
\* Mutant: the cache row of a decoded token holds the key before its rotation.
AttnDecodeStoresEarly(c, l) ==
  LET update == <<"kv_update_row", "tok">>
      k == V(l, "k_upd")
      v == V(l, "v_upd")
  IN HeadNorms(c, TRUE, l)
       \o Rotations(c, l, Fn("apply_rope_at_q", TRUE), KvFn(c, "apply_rope_at", TRUE))
       \o << Instr(k, update, <<Normed(c, l, "k")>>, NoWeight),
             Instr(v, update, <<V(l, "v")>>, NoWeight) >>
       \o Repeats(c, l, <<"repeat_kv_mk", "tok">>, k, v)
       \o <<Instr(V(l, "ctx"), <<"attn_decode", "tok">>,
                  <<Rotated(c, l, "q"), Repeated(c, l, "k", k), Repeated(c, l, "v", v)>>,
                  NoWeight)>>
\* attn_decode puts the new rows into the cache it was handed, repeats the heads,
\* attends over the cache and returns it; the caller stores it.
AttnDecode(c, l) ==
  LET update == <<"kv_update_row", "tok">>
      k == V(l, "k_upd")
      v == V(l, "v_upd")
  IN HeadNorms(c, TRUE, l)
       \o Rotations(c, l, Fn("apply_rope_at_q", TRUE), KvFn(c, "apply_rope_at", TRUE))
       \o << Instr(k, update, <<Rotated(c, l, "k")>>, NoWeight),
             Instr(v, update, <<V(l, "v")>>, NoWeight) >>
       \o Repeats(c, l, <<"repeat_kv_mk", "tok">>, k, v)
       \o <<Instr(V(l, "ctx"), <<"attn_decode", "tok">>,
                  <<Rotated(c, l, "q"), Repeated(c, l, "k", k), Repeated(c, l, "v", v)>>,
                  NoWeight)>>
DecodeAttention(c, l) ==
  Projections(c, TRUE, l, LayerIn(l)) \o AttnDecode(c, l)
    \o Store(l, V(l, "k_upd"), V(l, "v_upd")) \o AttnOut(c, TRUE, l, LayerIn(l))
DecodeFfn(c, l) == FeedForward(c, TRUE, l)
DecodeLogits(c) == Projected(c, TRUE, LastOut(c))

StaticEntry(c, tok) ==
  LET conv(l) == IF tok THEN DecodeConv(c, l) ELSE PrefillConv(c, l)
      attention(l) == IF tok THEN DecodeAttention(c, l) ELSE PrefillAttention(c, l)
      ffn(l) == IF tok THEN DecodeFfn(c, l) ELSE PrefillFfn(c, l)
      layer(l) == (IF LayerKind(c, l) = "conv" THEN conv(l) ELSE attention(l)) \o ffn(l)
  IN (IF tok THEN DecodeEmbed(c) ELSE PrefillEmbed(c))
       \o FlattenSeq([i \in DOMAIN c.kinds |-> layer(i - 1)])
       \o (IF tok THEN DecodeLogits(c) ELSE PrefillLogits(c))

----------------------------------------------------------------------------
(* emit_paged_decoder: the paged entry points *)

ChunkBegin(c, tok) == Enter(-1, PageFn("chunk_begin", tok)) \o Gather(c, Mode(tok))
PreparePagedAttention(c, tok, l) ==
  Enter(l, Fn("prepare_paged_attention", tok)) \o HeadNorms(c, tok, l)
    \o Rotations(c, l, Fn("apply_rope_chunk_q", tok), Fn("apply_rope_chunk_kv", tok))
LayerPrepare(c, tok, l) ==
  Enter(l, LayerFn("layer_prepare", tok, l)) \o Projections(c, tok, l, LayerIn(l))
    \o PreparePagedAttention(c, tok, l)
LayerFinish(c, tok, l) ==
  Enter(l, LayerFn("layer_finish", tok, l)) \o AttnOut(c, tok, l, LayerIn(l))
    \o FeedForward(c, tok, l)

\* paged_fused_attn_ops: the pages a chunk meets are taken out of the planes, its
\* rows are laid over them, and they are packed into the planes again.
PagedWrites(c, tok, l) ==
  << Instr(V(l, "kv1"), PageFn("packed_extract", tok), <<>>, NoWeight),
     Instr(V(l, "kv2"), PageFn("layer_store", tok),
           <<V(l, "kv1"), Rotated(c, l, "k"), V(l, "v")>>, NoWeight) >>
PackPages(tok, l) ==
  << Instr(V(l, "kp"), PageFn("page_to_kv", tok), <<V(l, "kv2")>>, NoWeight),
     Instr(V(l, "vp"), PageFn("page_to_kv", tok), <<V(l, "kv2")>>, NoWeight) >>
\* The fused kernel attends over the packed planes, with a mask of all of them.
IreeAttn(c, tok, l) ==
  PackPages(tok, l)
    \o << Instr(V(l, "mask"), Fn("full_causal_mask", tok), <<>>, NoWeight),
          Instr(V(l, "ctx"), Fn("iree_attention", tok),
                <<Rotated(c, l, "q"), V(l, "kp"), V(l, "vp"), V(l, "mask")>>, NoWeight) >>
\* The loop over the pages takes a page that was written, else the one in the
\* planes, to layer_page, with the mask of that page.
LayerPage(c, tok, l) ==
  << Instr(V(l, "kv1_pg"), PageFn("packed_extract", tok), <<>>, NoWeight),
     Instr(V(l, "kva"), Dialect("select"), <<V(l, "kv2"), V(l, "kv1_pg")>>, NoWeight) >>
    \o Enter(l, PageFn("layer_page", tok))
    \o << Instr(V(l, "kp"), Dialect("extract_slice"), <<V(l, "kva")>>, NoWeight),
          Instr(V(l, "vp"), Dialect("extract_slice"), <<V(l, "kva")>>, NoWeight) >>
    \o << Instr(V(l, "mask"), Fn("paged_causal_mask", tok), <<>>, NoWeight),
          Instr(V(l, "ctx"), Fn("online_attention_page", tok),
                <<Rotated(c, l, "q"), V(l, "kp"), V(l, "vp"), V(l, "mask")>>, NoWeight) >>
FusedAttn(c, tok, l) ==
  Enter(l, LayerFn("fused_attn", tok, l)) \o Enter(l, PageFn("hist_pages", tok))
    \o LayerPrepare(c, tok, l) \o PagedWrites(c, tok, l)
    \o (IF UseIreeAttention(c) THEN IreeAttn(c, tok, l)
        ELSE LayerPage(c, tok, l) \o PackPages(tok, l))
    \o LayerFinish(c, tok, l)
LayerShortConv(c, tok, l) ==
  Enter(l, LayerFn("layer_shortconv", tok, l)) \o ConvMixer(c, tok, l, LayerIn(l))
    \o FeedForward(c, tok, l)
ChunkLogits(c, tok) ==
  Enter(-1, PageFn("chunk_logits", tok)) \o Projected(c, tok, LastOut(c))
PagedEntry(c, tok) ==
  ChunkBegin(c, tok)
    \o FlattenSeq([i \in DOMAIN c.kinds |->
         IF LayerKind(c, i - 1) = "conv" THEN LayerShortConv(c, tok, i - 1)
         ELSE FusedAttn(c, tok, i - 1)])
    \o ChunkLogits(c, tok)

\* build_dense_decoder_program: the entry points of each module. Pages without
\* short convolutions are compiled as two modules.
Programs(c) == IF c.paged /\ ~HasShortConv(c) THEN {"Prefill", "Decode"} ELSE {"Combined"}
Entries(c, program) ==
  {IF c.paged THEN PagedEntry(c, tok) ELSE StaticEntry(c, tok) :
     tok \in {t \in BOOLEAN : Emits(program, t)}}

VocabLimit == 160000
KvLimit(paged) == IF paged THEN 1048576 ELSE 512
\* supports_dense_emit; the kinds are LFM2's, so there may be more than layers.
SupportsDenseEmit(c) ==
  /\ c.heads > 0 /\ c.kvHeads > 0 /\ c.heads % c.kvHeads = 0
  /\ c.headDim > 0 /\ c.headDim % 2 = 0 /\ c.headDim <= 256
  /\ c.inter > 0 /\ c.layers \in 1..32
  /\ c.vocab \in 1..VocabLimit /\ c.hidden <= 2048 /\ QDim(c) <= 4096
  /\ c.seq \in 1..(IF c.paged THEN 512 ELSE 256)
  /\ c.maxKv >= c.seq /\ c.maxKv <= KvLimit(c.paged)
  /\ c.convDim >= 1 /\ (c.convDim <= c.hidden \/ c.convDim = 1) /\ c.convKernel \in 1..16
=============================================================================
