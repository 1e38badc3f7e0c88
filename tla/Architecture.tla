---------------------------- MODULE Architecture ----------------------------
(***************************************************************************)
(* Architecture packages: which definition a checkpoint resolves to, how   *)
(* its configuration is resolved, how tensor keys become canonical names,  *)
(* and the typed graph each definition builds.                             *)
(*                                                                         *)
(* A tensor name is <<scope, layer, leaf>>: scope "model" for a key under  *)
(* `model.`, "bare" for one without that prefix, "blk" for a canonical     *)
(* name; layer -1 for a tensor of the whole model. The `.weight` ending is *)
(* left out. A metadata map is a function on the fields it holds. A graph  *)
(* value is named by the operation that produces it.                       *)
(***************************************************************************)
EXTENDS Integers, Sequences, SequencesExt, FiniteSets, TLC

CONSTANT U32  \* 2^32 in the code: get_u32 truncates to it

ASSUME WidthAssumption == U32 \in Nat \ {0}

Err == [ok |-> FALSE]
NoName == <<"none", -1, "none">>

\* f, and g where f is not defined: the @@ of TLC, with a definition to reason from.
Over(f, g) ==
  [x \in DOMAIN f \cup DOMAIN g |-> IF x \in DOMAIN f THEN f[x] ELSE g[x]]

----------------------------------------------------------------------------
(* Which definition: registry, remapping, resolve_architecture *)

Registered == {"llama.decoder", "qwen3.decoder", "lfm2.hybrid"}
NoType == "none"

\* MODEL_REMAPPING and architecture_id_for_stem, ignoring case; a class name
\* that is not listed is tried again without its ForCausalLM ending.
Stem(class) == CASE class = "Qwen3MoeForCausalLM" -> "qwen3moe"
                 [] OTHER -> class
RemapModelType(t) ==
  CASE Stem(t) \in {"llama", "mistral", "LlamaForCausalLM", "MistralForCausalLM"}
         -> "llama.decoder"
    [] Stem(t) \in {"qwen3", "Qwen3ForCausalLM"} -> "qwen3.decoder"
    [] Stem(t) \in {"lfm2", "Lfm2ForCausalLM"} -> "lfm2.hybrid"
    [] OTHER -> NoType

\* model_types of every definition, searched by find_by_model_type.
FindByModelType(t) == RemapModelType(t)

\* The override wins and must be registered; then model_type, then the class
\* name of the checkpoint; resolve_from_metadata tries the same two last.
ResolveArchitecture(override, types) ==
  LET known == SelectSeq(types, LAMBDA t : RemapModelType(t) \in Registered)
      listed == SelectSeq(types, LAMBDA t : FindByModelType(t) # NoType)
  IN CASE override \in Registered -> override
       [] override \notin Registered \cup {"auto", NoType} -> NoType
       [] known # <<>> -> RemapModelType(Head(known))
       [] listed # <<>> -> FindByModelType(Head(listed))
       [] OTHER -> NoType

----------------------------------------------------------------------------
(* ConfigSchema::resolve *)

DecoderDefaults(layers, heads, kv, dim, hidden, inter, vocab, ctx) ==
  [num_layers |-> layers, num_heads |-> heads, num_kv_heads |-> kv,
   head_dim |-> dim, hidden_size |-> hidden, intermediate_size |-> inter,
   vocab_size |-> vocab, context_length |-> ctx]

\* The CONFIG_SCHEMA of each definition: the fields with a default, and the
\* names of all its fields. A value is a natural number, -1 for a number that
\* is not one, or the schedule of an LFM2 model.
SchemaDefaults(arch) ==
  CASE arch = "llama.decoder" -> DecoderDefaults(2, 4, 4, 64, 256, 512, 32000, 2048)
    [] arch = "qwen3.decoder" ->
         Over(DecoderDefaults(28, 16, 8, 128, 1024, 3072, 151936, 40960),
              [rope_theta |-> 1000000])
    [] arch = "lfm2.hybrid" ->
         Over(DecoderDefaults(3, 4, 2, 64, 256, 512, 32000, 4096),
              [rope_theta |-> 1000000, conv_kernel |-> 3,
               layer_types |-> <<"conv", "conv", "full_attention">>])
SchemaFields(arch) ==
  DOMAIN SchemaDefaults(arch) \cup {"rope_theta", "prefill_window", "max_kv"}
    \cup (IF arch = "lfm2.hybrid" THEN {"conv_dim"} ELSE {})

Only(f, S) == [x \in DOMAIN f \cap S |-> f[x]]

\* An override beats the checkpoint's key, that beats its `llama.` key, that
\* beats the default (every required field has one). head_dim is derived when
\* only the dimensions it follows from are configured.
Resolve(arch, overrides, meta, dotted) ==
  LET given == Over(overrides, Over(meta, dotted))
      v == Only(Over(given, SchemaDefaults(arch)), SchemaFields(arch))
      derive == /\ "head_dim" \notin DOMAIN given
                /\ {"hidden_size", "num_heads"} \cap DOMAIN given # {}
  IN CASE ~derive -> [ok |-> TRUE, values |-> v]
       [] derive /\ (\/ v.hidden_size < 0 \/ v.num_heads < 1
                     \/ v.hidden_size % v.num_heads # 0) -> Err
       [] OTHER -> [ok |-> TRUE,
                    values |-> [v EXCEPT !.head_dim = v.hidden_size \div v.num_heads]]

\* get_u32: the value must be a natural number, and is truncated.
HasU32(values, keys) == \A k \in keys : k \in DOMAIN values /\ values[k] >= 0
GetU32(values, key) == values[key] % U32
GetOr(values, key, default) ==
  IF HasU32(values, {key}) THEN GetU32(values, key) ELSE default

----------------------------------------------------------------------------
(* canonicalize_param, apply_naming *)

HfLeaf ==
     "input_layernorm" :> "attn_norm" @@ "post_attention_layernorm" :> "ffn_norm"
  @@ "self_attn.q_proj" :> "attn_q" @@ "self_attn.k_proj" :> "attn_k"
  @@ "self_attn.v_proj" :> "attn_v" @@ "self_attn.o_proj" :> "attn_output"
  @@ "self_attn.q_norm" :> "attn_q_norm" @@ "self_attn.k_norm" :> "attn_k_norm"
  @@ "mlp.gate_proj" :> "ffn_gate" @@ "mlp.up_proj" :> "ffn_up"
  @@ "mlp.down_proj" :> "ffn_down"
HfModel == "embed_tokens" :> "token_embd" @@ "norm" :> "output_norm"
Rotary == {"self_attn.rotary_emb.inv_freq"}

\* NoName drops the tensor; a key that is not in the table is kept.
CanonicalizeHfFamily(key) ==
  CASE key[3] \in Rotary -> NoName
    [] key = <<"bare", -1, "lm_head">> -> <<"blk", -1, "output">>
    [] key[1] # "blk" /\ key[2] = -1 /\ key[3] \in DOMAIN HfModel ->
         <<"blk", -1, HfModel[key[3]]>>
    [] key[1] # "blk" /\ key[2] >= 0 /\ key[3] \in DOMAIN HfLeaf ->
         <<"blk", key[2], HfLeaf[key[3]]>>
    [] OTHER -> key

\* Mutant: the gate and the up projection of the feed forward are swapped.
Lfm2LeafSwapped ==
     "operator_norm" :> "attn_norm" @@ "ffn_norm" :> "ffn_norm"
  @@ "feed_forward.w1" :> "ffn_up" @@ "feed_forward.w3" :> "ffn_gate"
  @@ "feed_forward.w2" :> "ffn_down"
  @@ "self_attn.q_proj" :> "attn_q" @@ "self_attn.k_proj" :> "attn_k"
  @@ "self_attn.v_proj" :> "attn_v" @@ "self_attn.out_proj" :> "attn_output"
  @@ "self_attn.q_layernorm" :> "attn_q_norm" @@ "self_attn.k_layernorm" :> "attn_k_norm"
  @@ "conv.in_proj" :> "shortconv.in_proj" @@ "conv.conv" :> "shortconv.conv"
  @@ "conv.out_proj" :> "shortconv.out_proj"

Lfm2Leaf ==
     "operator_norm" :> "attn_norm" @@ "ffn_norm" :> "ffn_norm"
  @@ "feed_forward.w1" :> "ffn_gate" @@ "feed_forward.w3" :> "ffn_up"
  @@ "feed_forward.w2" :> "ffn_down"
  @@ "self_attn.q_proj" :> "attn_q" @@ "self_attn.k_proj" :> "attn_k"
  @@ "self_attn.v_proj" :> "attn_v" @@ "self_attn.out_proj" :> "attn_output"
  @@ "self_attn.q_layernorm" :> "attn_q_norm" @@ "self_attn.k_layernorm" :> "attn_k_norm"
  @@ "conv.in_proj" :> "shortconv.in_proj" @@ "conv.conv" :> "shortconv.conv"
  @@ "conv.out_proj" :> "shortconv.out_proj"
Lfm2Model == "embed_tokens" :> "token_embd" @@ "embedding_norm" :> "output_norm"

CanonicalizeLfm2(key) ==
  CASE key[3] \in Rotary -> NoName
    [] key = <<"bare", -1, "lm_head">> -> <<"blk", -1, "output">>
    [] key[1] = "model" /\ key[2] = -1 /\ key[3] \in DOMAIN Lfm2Model ->
         <<"blk", -1, Lfm2Model[key[3]]>>
    [] key[1] = "model" /\ key[2] >= 0 /\ key[3] \in DOMAIN Lfm2Leaf ->
         <<"blk", key[2], Lfm2Leaf[key[3]]>>
    [] OTHER -> key

CanonicalizeParam(arch, key) ==
  IF arch = "lfm2.hybrid" THEN CanonicalizeLfm2(key) ELSE CanonicalizeHfFamily(key)

\* infer_role looks for substrings, in this order: what matters of a leaf is
\* which of them it contains. The order settles attn_q_norm and output_norm.
Patterns(leaf) ==
  CASE leaf \in {"token_embd", "embed_tokens"} -> {"embed"}
    [] leaf = "embedding_norm" -> {"embed", "norm"}
    [] leaf \in {"attn_q_norm", "self_attn.q_norm"} -> {"q_norm", "attn_q", "norm"}
    [] leaf \in {"attn_k_norm", "self_attn.k_norm"} -> {"q_norm", "attn_k", "norm"}
    [] leaf \in {"attn_q", "self_attn.q_proj"} -> {"attn_q"}
    [] leaf \in {"attn_k", "self_attn.k_proj"} -> {"attn_k"}
    [] leaf \in {"attn_v", "self_attn.v_proj"} -> {"attn_v"}
    [] leaf = "attn_output" -> {"attn_o", "output"}
    [] leaf = "self_attn.o_proj" -> {"attn_o"}
    [] leaf \in {"ffn_gate", "mlp.gate_proj", "feed_forward.w1"} -> {"ffn_gate"}
    [] leaf \in {"ffn_up", "mlp.up_proj", "feed_forward.w3"} -> {"ffn_up"}
    [] leaf \in {"ffn_down", "mlp.down_proj", "feed_forward.w2"} -> {"ffn_down"}
    [] leaf = "output_norm" -> {"norm", "output"}
    [] leaf \in {"attn_norm", "ffn_norm", "norm", "input_layernorm", "operator_norm",
                 "post_attention_layernorm", "self_attn.q_layernorm",
                 "self_attn.k_layernorm"} -> {"norm"}
    [] leaf \in {"output", "lm_head"} -> {"output"}
    [] OTHER -> {}
RoleRules ==
  << <<"embed", "Embedding">>, <<"q_norm", "Norm">>, <<"attn_q", "AttentionQ">>,
     <<"attn_k", "AttentionK">>, <<"attn_v", "AttentionV">>,
     <<"attn_o", "AttentionO">>, <<"ffn_gate", "FfnGate">>, <<"ffn_up", "FfnUp">>,
     <<"ffn_down", "FfnDown">>, <<"norm", "Norm">>, <<"output", "Output">> >>
InferRole(name) ==
  LET hits == SelectSeq(RoleRules, LAMBDA r : r[1] \in Patterns(name[3]))
  IN IF hits = <<>> THEN "Other" ELSE Head(hits)[2]

\* One parameter: its storage key decides, its own name only when the key is
\* unknown to the table.
Renamed(arch, p) ==
  LET source == IF p.aliases = <<>> THEN p.name ELSE Head(p.aliases)
      first == CanonicalizeParam(arch, source)
      again == CanonicalizeParam(arch, p.name)
      name == IF first = source /\ p.name # source /\ again # NoName THEN again ELSE first
  IN [p EXCEPT !.name = name, !.role = InferRole(name),
               !.aliases = IF Contains(@, name) THEN @ ELSE Append(@, name)]

\* sanitize_catalog of every definition: a missing output projection becomes a
\* second parameter over the embedding's storage.
TieOutputToEmbed(params) ==
  LET out == <<"blk", -1, "output">>
      embeds == SelectSeq(params, LAMBDA p : p.name = <<"blk", -1, "token_embd">>)
  IN IF embeds = <<>> \/ \E i \in DOMAIN params : params[i].name = out THEN params
     ELSE Append(params, [Head(embeds) EXCEPT !.name = out, !.role = "Output",
                            !.aliases = @ \o <<out, <<"bare", -1, "lm_head">> >>])

ApplyNaming(arch, params) ==
  LET kept == SelectSeq(params, LAMBDA p :
                CanonicalizeParam(arch, IF p.aliases = <<>> THEN p.name
                                        ELSE Head(p.aliases)) # NoName)
  IN TieOutputToEmbed([i \in DOMAIN kept |-> Renamed(arch, kept[i])])

----------------------------------------------------------------------------
(* ModelBuilder: an operation as the builder's helpers describe it *)

Act(width) == <<"act", width>>
Kv(heads, dim) == <<"kv", heads * dim>>
NoOut == <<"none", 0>>
NoSlot == [name |-> NoName, role |-> "none", rank |-> 0]
Slot(name, role, rank) == [name |-> name, role |-> role, rank |-> rank]

\* x and y are the operations whose values the new one takes.
Op(id, op, attrs, inputs, out, slot) ==
  [id |-> id, op |-> op, attrs |-> attrs, inputs |-> inputs, out |-> out, slot |-> slot]
Unary(id, op, attrs, x, out, slot) == Op(id, op, attrs, <<x.id>>, out, slot)

InputTokens(name) == Op(<<-1, name>>, "Input", <<>>, <<>>, <<"tokens", 0>>, NoSlot)
Embedding(id, x, w, hidden) ==
  Unary(id, "Embedding", <<>>, x, Act(hidden), Slot(w, "Embedding", 2))
Linear(id, x, w, width, role) ==
  Unary(id, "Linear", <<>>, x, Act(width), Slot(w, role, 2))
RmsNorm(id, x, w) == Unary(id, "RmsNorm", <<>>, x, x.out, Slot(w, "Norm", 1))
PerHeadRmsNorm(id, x, w, heads, dim) ==
  Unary(id, "PerHeadRmsNorm", <<heads, dim>>, x, x.out, Slot(w, "Norm", 1))
Rope(id, x, heads, dim, theta) ==
  Unary(id, "Rope", <<heads, dim, theta>>, x, x.out, NoSlot)
CacheWrite(id, x, layer, part) ==
  Unary(id, "KvCacheWrite", <<layer, part>>, x, NoOut, NoSlot)
CacheRead(id, x, layer, part, heads, dim) ==
  Unary(id, "KvCacheRead", <<layer, part>>, x, Kv(heads, dim), NoSlot)
Attention(id, q, k, v, s) ==
  Op(id, "Attention", <<s.num_heads, s.num_kv_heads, s.head_dim>>,
     <<q.id, k.id, v.id>>, Act((s.num_heads * s.head_dim) % U32), NoSlot)
Silu(id, x) == Unary(id, "Silu", <<>>, x, x.out, NoSlot)
Binary(id, op, x, y) == Op(id, op, <<>>, <<x.id, y.id>>, x.out, NoSlot)
ShortConv(id, x, w, layer, channels, kernel) ==
  Unary(id, "ShortConv", <<layer, channels, kernel>>, x, Act(channels), Slot(w, "Other", 3))
OutputProjection(id, x, w, vocab) ==
  Unary(id, "OutputProjection", <<>>, x, Act(vocab), Slot(w, "Output", 2))

\* Key and Value components of the cache.
Key == 0
Value == 1

\* A sublayer is the sequence of operations it emits; its last one is its value.
AttentionSublayer(x, l, qkNorm, s) ==
  LET id(leaf) == <<l, leaf>>
      w(leaf) == <<"blk", l, leaf>>
      kvDim == (s.num_kv_heads * s.head_dim) % U32
      norm == RmsNorm(id("attn_norm"), x, w("attn_norm"))
      q == Linear(id("attn_q"), norm, w("attn_q"), (s.num_heads * s.head_dim) % U32,
                  "AttentionQ")
      k == Linear(id("attn_k"), norm, w("attn_k"), kvDim, "AttentionK")
      v == Linear(id("attn_v"), norm, w("attn_v"), kvDim, "AttentionV")
      qn == PerHeadRmsNorm(id("attn_q_norm"), q, w("attn_q_norm"), s.num_heads, s.head_dim)
      kn == PerHeadRmsNorm(id("attn_k_norm"), k, w("attn_k_norm"), s.num_kv_heads,
                           s.head_dim)
      q1 == IF qkNorm THEN qn ELSE q
      k1 == IF qkNorm THEN kn ELSE k
      qr == Rope(id("attn_q_rope"), q1, s.num_heads, s.head_dim, s.rope_theta)
      kr == Rope(id("attn_k_rope"), k1, s.num_kv_heads, s.head_dim, s.rope_theta)
      q2 == IF s.rope_theta >= 0 THEN qr ELSE q1
      k2 == IF s.rope_theta >= 0 THEN kr ELSE k1
      kc == CacheRead(id("key_cache_read"), k2, l, Key, s.num_kv_heads, s.head_dim)
      vc == CacheRead(id("value_cache_read"), v, l, Value, s.num_kv_heads, s.head_dim)
      att == Attention(id("attention"), q2, kc, vc, s)
      out == Linear(id("attn_output"), att, w("attn_output"), s.hidden_size, "AttentionO")
  IN <<norm, q, k, v>>
       \o (IF qkNorm THEN <<qn, kn>> ELSE <<>>)
       \o (IF s.rope_theta >= 0 THEN <<qr, kr>> ELSE <<>>)
       \o <<CacheWrite(id("key_cache_write"), k2, l, Key),
            CacheWrite(id("value_cache_write"), v, l, Value),
            kc, vc, att, out, Binary(id("attn_residual"), "Residual", x, out)>>

ShortConvSublayer(x, l, s) ==
  LET id(leaf) == <<l, leaf>>
      w(leaf) == <<"blk", l, leaf>>
      norm == RmsNorm(id("attn_norm"), x, w("attn_norm"))
      gates == Linear(id("shortconv_in"), norm, w("shortconv.in_proj"),
                      (3 * s.channels) % U32, "Other")
      mixed == ShortConv(id("shortconv"), gates, w("shortconv.conv"), l, s.channels,
                         s.kernel_size)
      out == Linear(id("shortconv_out"), mixed, w("shortconv.out_proj"), s.hidden_size,
                    "Other")
  IN <<norm, gates, mixed, out, Binary(id("shortconv_residual"), "Residual", x, out)>>

FeedForwardSublayer(x, l, s) ==
  LET id(leaf) == <<l, leaf>>
      w(leaf) == <<"blk", l, leaf>>
      norm == RmsNorm(id("ffn_norm"), x, w("ffn_norm"))
      gate == Linear(id("ffn_gate"), norm, w("ffn_gate"), s.intermediate_size, "FfnGate")
      up == Linear(id("ffn_up"), norm, w("ffn_up"), s.intermediate_size, "FfnUp")
      act == Silu(id("ffn_silu"), gate)
      mul == Binary(id("ffn_multiply"), "Multiply", act, up)
      down == Linear(id("ffn_down"), mul, w("ffn_down"), s.hidden_size, "FfnDown")
  IN <<norm, gate, up, act, mul, down, Binary(id("ffn_residual"), "Residual", x, down)>>

\* validate of the two block specs.
BlockValid(s) ==
  /\ \A d \in {s.hidden_size, s.intermediate_size, s.num_heads, s.num_kv_heads,
               s.head_dim} : d # 0
  /\ s.num_heads % s.num_kv_heads = 0
ConvValid(s) == s.hidden_size # 0 /\ s.channels # 0 /\ s.kernel_size # 0

----------------------------------------------------------------------------
(* The definitions' build, and the verifier finish calls *)

\* The builder's refusals, over the operations in the order they were added.
BuilderAccepts(ops) ==
  \A i \in DOMAIN ops, j \in DOMAIN ops :
    /\ i < j => /\ ops[i].id # ops[j].id
                /\ ops[i].slot = NoSlot \/ ops[i].slot.name # ops[j].slot.name
    /\ (ops[i].op \in {"Residual", "Multiply"} /\ ops[j].id = ops[i].inputs[2])
         => ops[j].out = ops[i].out

\* The schedule of operator sublayers: attention for every layer, or LFM2's
\* layer_types, which must name every layer and nothing else.
LayerSchedule(arch, values) ==
  LET n == GetU32(values, "num_layers")
      attention == [i \in 1..n |-> "full_attention"]
  IN CASE arch # "lfm2.hybrid" -> [ok |-> TRUE, kinds |-> attention]
       [] /\ Len(values.layer_types) = n
          /\ ToSet(values.layer_types) \subseteq {"conv", "full_attention"}
            -> [ok |-> TRUE, kinds |-> values.layer_types]
       [] OTHER -> Err

BlockSpec(values) ==
  [hidden_size |-> GetU32(values, "hidden_size"),
   intermediate_size |-> GetU32(values, "intermediate_size"),
   num_heads |-> GetU32(values, "num_heads"),
   num_kv_heads |-> GetU32(values, "num_kv_heads"),
   head_dim |-> GetU32(values, "head_dim"),
   rope_theta |-> IF "rope_theta" \in DOMAIN values THEN values.rope_theta ELSE -1]
ConvSpec(values) ==
  [hidden_size |-> GetU32(values, "hidden_size"),
   channels |-> GetOr(values, "conv_dim", GetU32(values, "hidden_size")),
   kernel_size |-> GetOr(values, "conv_kernel", 0)]

\* has_qk_norm of the definitions' blocks.
UsesQkNorm(arch) == arch # "llama.decoder"
\* Both entry points answer the same logits.
ExportPrefillAndDecode(logits) == [prefill |-> logits.id, decode |-> logits.id]

\* One layer: the scheduled operator and the feed forward.
DecoderLayer(arch, values, kind, l, ops) ==
  LET mixer == IF kind = "conv" THEN ShortConvSublayer(Last(ops), l, ConvSpec(values))
               ELSE AttentionSublayer(Last(ops), l, UsesQkNorm(arch), BlockSpec(values))
  IN ops \o mixer \o FeedForwardSublayer(Last(mixer), l, BlockSpec(values))

\* What is reached after each of n steps from first.
Steps(step(_, _), first, n) ==
  LET reached[i \in 0..n] == IF i = 0 THEN first ELSE step(reached[i - 1], i)
  IN reached

\* The operations after each layer of the schedule.
DecoderLayers(arch, values, kinds, first) ==
  Steps(LAMBDA ops, n : DecoderLayer(arch, values, kinds[n], n - 1, ops), first, Len(kinds))

\* build: embedding, the layers, then the final norm and the projection to the
\* vocabulary.
Build(arch, values) ==
  LET spec == BlockSpec(values)
      schedule == LayerSchedule(arch, values)
      tokens == InputTokens("tokens")
      embed == Embedding(<<-1, "token_embedding">>, tokens, <<"blk", -1, "token_embd">>,
                         spec.hidden_size)
      body == DecoderLayers(arch, values, schedule.kinds, <<tokens, embed>>)[Len(schedule.kinds)]
      norm == RmsNorm(<<-1, "output_norm">>, Last(body), <<"blk", -1, "output_norm">>)
      logits == OutputProjection(<<-1, "output_projection">>, norm, <<"blk", -1, "output">>,
                                 GetU32(values, "vocab_size"))
      ops == body \o <<norm, logits>>
      kinds == ToSet(schedule.kinds)
  IN IF /\ HasU32(values, {"num_layers", "hidden_size", "vocab_size", "intermediate_size",
                           "num_heads", "num_kv_heads", "head_dim"})
        /\ arch = "lfm2.hybrid" => HasU32(values, {"conv_kernel"})
        /\ schedule.ok
        /\ "full_attention" \in kinds => BlockValid(spec)
        /\ "conv" \in kinds => ConvValid(ConvSpec(values))
        /\ BuilderAccepts(ops)
     THEN [ok |-> TRUE, ops |-> ops, arch |-> arch,
           exports |-> ExportPrefillAndDecode(logits)]
     ELSE Err

SlotsOf(ops) == SelectSeq([i \in DOMAIN ops |-> ops[i].slot], LAMBDA s : s # NoSlot)

\* verify_architecture_graph and the two exports; it does not look at the order.
GraphVerified(g) ==
  LET produced == {g.ops[i].id : i \in {j \in DOMAIN g.ops : g.ops[j].out # NoOut}}
  IN /\ \A i \in DOMAIN g.ops : ToSet(g.ops[i].inputs) \subseteq produced
     /\ Cardinality({g.ops[i].id : i \in DOMAIN g.ops}) = Len(g.ops)
     /\ Cardinality({s.name : s \in ToSet(SlotsOf(g.ops))}) = Len(SlotsOf(g.ops))
     /\ {g.exports.prefill, g.exports.decode} \subseteq produced

\* build_package: resolve the configuration, build and verify.
BuildPackage(arch, overrides, meta, dotted) ==
  LET config == Resolve(arch, overrides, meta, dotted)
      graph == Build(arch, config.values)
  IN IF config.ok /\ graph.ok /\ GraphVerified(graph)
     THEN [ok |-> TRUE, arch |-> arch, values |-> config.values, graph |-> graph]
     ELSE Err
=============================================================================
