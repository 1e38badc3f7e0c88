----------------------------- MODULE Denotation -----------------------------
(***************************************************************************)
(* What a typed graph and an emitted program compute, as terms over the    *)
(* weights: the reference the lowering is checked against. A term is       *)
(* [op, attrs, args, w]. Reading a cache after writing it denotes what was *)
(* written; the rows of earlier tokens are the same on both sides.         *)
(***************************************************************************)
EXTENDS Compiler

Term(op, attrs, args, w) == [op |-> op, attrs |-> attrs, args |-> args, w |-> w]

\* The state of a walk over a graph or a program: the term of every value, and
\* the terms written to the cache.
Start == [env |-> <<>>, writes |-> {}]
Define(st, id, term) == [st EXCEPT !.env = (id :> term) @@ @]

----------------------------------------------------------------------------
(* Of a graph *)

GraphOp ==
     "Input" :> "tokens" @@ "Embedding" :> "gather" @@ "Linear" :> "matmul"
  @@ "OutputProjection" :> "matmul" @@ "RmsNorm" :> "rms" @@ "PerHeadRmsNorm" :> "head_rms"
  @@ "Rope" :> "rope" @@ "Attention" :> "attention" @@ "Silu" :> "silu"
  @@ "Multiply" :> "mul" @@ "Residual" :> "add" @@ "ShortConv" :> "conv"

GraphStep(st, op) ==
  LET args == [i \in DOMAIN op.inputs |-> st.env[op.inputs[i]]]
  IN CASE op.op = "KvCacheRead" -> Define(st, op.id, args[1])
       [] op.op = "KvCacheWrite" ->
            [st EXCEPT !.writes = @ \cup {<<op.attrs[1], op.attrs[2], args[1]>>}]
       [] OTHER -> Define(st, op.id, Term(GraphOp[op.op], op.attrs, args, op.slot.name))

GraphMeaning(graph) ==
  LET st == FoldLeft(GraphStep, Start, graph.ops)
  IN [logits |-> st.env[graph.exports.prefill], writes |-> st.writes]

----------------------------------------------------------------------------
(* Of a program *)

QueryAttrs(c) == <<c.heads, c.headDim>>
KeyAttrs(c) == <<c.kvHeads, c.headDim>>

\* What the emitted functions compute, <<op, attributes>>, by the emitter of
\* their bodies: emit_linear, emit_rms_norm_heads, the three forms of rotation.
\* A quantized helper is named by its kind.
LinearKernels ==
  [f \in {"linear_hq", "linear_hkv", "linear_qh", "linear_hi", "linear_ih", "linear_h_c3",
          "linear_c_h", "output_proj"} |-> <<"matmul", <<>>>>]
NormKernels(c) ==
     "rms_norm" :> <<"rms", <<>>>> @@ "rms_norm_heads_q" :> <<"head_rms", QueryAttrs(c)>>
  @@ "rms_norm_heads_kv" :> <<"head_rms", KeyAttrs(c)>>
RotationKernels(c) ==
     [f \in {"apply_rope_q", "apply_rope_at_q", "apply_rope_chunk_q"} |->
        <<"rope", QueryAttrs(c) \o <<c.rope>>>>]
  @@ [f \in {"apply_rope_kv", "apply_rope_at_kv", "apply_rope_chunk_kv"} |->
        <<"rope", KeyAttrs(c) \o <<c.rope>>>>]
Arithmetic ==
     "gather" :> <<"gather", <<>>>> @@ "silu" :> <<"silu", <<>>>> @@ "mulf" :> <<"mul", <<>>>>
  @@ "addf" :> <<"add", <<>>>>
QuantizedKernel(fn) == IF fn[2] = "gather" THEN <<"gather", <<>>>> ELSE <<"matmul", <<>>>>

Computes(c, fn, l) ==
  LET table == LinearKernels @@ NormKernels(c) @@ RotationKernels(c) @@ Arithmetic
  IN CASE fn[1] \in DOMAIN table -> table[fn[1]]
       [] fn[1] = "conv_op" -> <<"conv", <<l, c.convDim, c.convKernel>>>>
       [] OTHER -> QuantizedKernel(fn)

\* Functions that hand on what they are given, and calls that define no value of
\* the graph: functions that are only entered, and the bound of a loop over pages.
HandsOn == {"repeat_kv", "repeat_kv_mk", "kv_update_row", "select"}
Entered == {"chunk_begin", "chunk_logits", "fused_attn", "layer_prepare", "layer_finish",
            "layer_shortconv", "layer_page", "prepare_paged_attention", "hist_pages"}
Masks == {"full_causal_mask", "paged_causal_mask"}
Page(parts) == Term("page", <<>>, parts, NoWeight)
Write(st, l, part, x) == [st EXCEPT !.writes = @ \cup {<<l, part, x>>}]

\* A paged kernel is the attention of the graph when a causal mask is its last
\* argument; the static ones mask by themselves.
Attends(c, fn, args) ==
  LET term(rows) == Term("attention", <<c.heads, c.kvHeads, c.headDim>>, rows, NoWeight)
  IN IF fn[1] \in {"attn", "attn_decode"} THEN term(args)
     ELSE IF Last(args).op = "mask" THEN term(Front(args))
     ELSE Term("unmasked", <<>>, args, NoWeight)

ProgramStep(c, st, i) ==
  LET args == [j \in DOMAIN i.args |-> st.env[i.args[j]]]
      name == i.fn[1]
      l == i.ssa[1]
      isKey == i.ssa[2] \in {"kstore", "kp"}
      what == Computes(c, i.fn, l)
  IN CASE name \in Entered -> st
       [] name \in HandsOn -> Define(st, i.ssa, args[1])
       [] name \in Masks -> Define(st, i.ssa, Term("mask", <<>>, <<>>, NoWeight))
       [] name = "store" -> Write(st, l, IF isKey THEN Key ELSE Value, args[1])
       [] name = "packed_extract" -> Define(st, i.ssa, Page(<<>>))
       [] name = "layer_store" ->
            Define(Write(Write(st, l, Key, args[2]), l, Value, args[3]), i.ssa, Page(Tail(args)))
       [] name \in {"page_to_kv", "extract_slice"} ->
            Define(st, i.ssa, args[1].args[IF isKey THEN 1 ELSE 2])
       [] name \in {"attn", "attn_decode", "iree_attention", "online_attention_page"} ->
            Define(st, i.ssa, Attends(c, i.fn, args))
       [] OTHER -> Define(st, i.ssa, Term(what[1], what[2], args, i.w))

ProgramMeaning(c, entry) ==
  LET tokens == Define(Start, Tokens, Term("tokens", <<>>, <<>>, NoWeight))
      st == FoldLeft(LAMBDA s, i : ProgramStep(c, s, i), tokens, entry)
  IN [logits |-> st.env[V(-1, "logits")], writes |-> st.writes]
=============================================================================
