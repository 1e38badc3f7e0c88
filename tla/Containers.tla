----------------------------- MODULE Containers -----------------------------
(***************************************************************************)
(* Checkpoint inspection: the container readers (SafeTensors, its sharded  *)
(* form, GGUF), the convention decoders that turn raw tensor entries into  *)
(* parameters (dense, MLX affine, GGUF), and the metadata each provides.   *)
(*                                                                         *)
(* A source is a record: its format, size, metadata and tensor directory;  *)
(* config is the config.json beside it, a function on the keys it has. A   *)
(* tensor key is <<name, part>> where name is as in Architecture and part  *)
(* the key's ending, "weight", "scales" or "biases". A raw entry is        *)
(* [key, file, shape, store, range, align].                                *)
(***************************************************************************)
EXTENDS Architecture, Kernels

CONSTANT Limits  \* InspectionLimits: [tensors, rank, dim, total]

WithinLimits(shape) ==
  Len(shape) <= Limits.rank /\ \A i \in DOMAIN shape : shape[i] <= Limits.dim

Entry(key, file, shape, store, offset, length, align) ==
  [key |-> key, file |-> file, shape |-> shape, store |-> store,
   range |-> <<offset, length>>, align |-> align]

----------------------------------------------------------------------------
(* SafeTensorsContainer::index *)

\* A tensor of the header: its offsets are relative to the end of the header,
\* and span exactly its elements, inside the file.
TensorInfoValid(source, t) ==
  /\ WithinLimits(t.shape)
  /\ t.to >= t.from
  /\ SizeBytes(t.dtype) # 0
  /\ t.to - t.from = Product(t.shape) * SizeBytes(t.dtype)
  /\ source.header + t.to <= source.size

\* No two ranges overlap. The code sorts by start and compares neighbours.
DisjointRanges(tensors) ==
  \A i, j \in DOMAIN tensors :
    (i # j /\ tensors[i].from <= tensors[j].from) => tensors[j].from >= tensors[i].to

SafetensorsIndex(source, file) ==
  LET ts == source.tensors
  IN IF /\ source.header \in 1..source.size
        /\ \A i \in DOMAIN ts : TensorInfoValid(source, ts[i])
        /\ DisjointRanges(ts)
        /\ Len(ts) <= Limits.tensors
        /\ FoldLeft(LAMBDA n, t : n + (t.to - t.from), 0, ts) <= Limits.total
     THEN [ok |-> TRUE, format |-> "safetensors", meta |-> source.meta,
           files |-> (file :> source.size),
           entries |-> [i \in DOMAIN ts |->
             Entry(ts[i].key, file, ts[i].shape, ts[i].dtype, source.header + ts[i].from,
                   ts[i].to - ts[i].from, 1)]]
     ELSE Failure

----------------------------------------------------------------------------
(* ShardedSafeTensorsContainer::index *)

\* A shard holds exactly the tensors the weight map gives it.
ShardAgrees(source, shard) ==
  {k \in DOMAIN source.weightMap : source.weightMap[k] = shard}
    = {t.key : t \in ToSet(source.shards[shard].tensors)}

\* Shards are numbered in the order of their names, here natural numbers; a
\* name that leaves the directory is refused, here any that is not a shard.
ShardedIndex(source) ==
  LET listed == Range(source.weightMap)
      order == SetToSortSeq(listed, <)
      index(i) == SafetensorsIndex(source.shards[order[i]], i - 1)
  IN IF /\ source.weightMap # <<>>
        /\ Cardinality(DOMAIN source.weightMap) <= Limits.tensors
        /\ listed \subseteq DOMAIN source.shards
        /\ \A i \in DOMAIN order : index(i).ok /\ ShardAgrees(source, order[i])
     THEN [ok |-> TRUE, format |-> "safetensors.sharded",
           meta |-> FoldLeftDomain(LAMBDA f, i : f @@ index(i).meta, source.meta, order),
           files |-> [f \in 0..(Len(order) - 1) |-> source.shards[order[f + 1]].size],
           entries |-> FlattenSeq([i \in DOMAIN order |-> index(i).entries])]
     ELSE Failure

----------------------------------------------------------------------------
(* GgufContainer::index *)

GgufBlocks == BlockLayouts @@ SchemaOnlyLayouts

\* nbytes_for_shape; -1 where it refuses a partial block.
NbytesForShape(type, shape) ==
  LET numel == Product(shape)
  IN CASE type \notin DOMAIN GgufBlocks -> numel * SizeBytes(type)
       [] numel % GgufBlocks[type][1] # 0 -> -1
       [] OTHER -> (numel \div GgufBlocks[type][1]) * GgufBlocks[type][2]

AlignUp(value, align) ==
  IF align = 0 THEN value ELSE ((value + align - 1) \div align) * align

\* GGUF stores the fastest dimension first.
RowMajor(dims) == Reverse(dims)

\* Offsets are relative to the end of the directory, aligned. Nothing looks at
\* overlaps here.
GgufIndex(source) ==
  LET ts == source.tensors
      align == IF "alignment" \in DOMAIN source.meta THEN source.meta.alignment ELSE 32
      base == AlignUp(source.header, align)
      bytes(t) == NbytesForShape(t.type, RowMajor(t.dims))
  IN IF /\ source.version \in {2, 3}
        /\ Len(ts) <= Limits.tensors
        /\ \A i \in DOMAIN ts : /\ WithinLimits(ts[i].dims)
                                /\ bytes(ts[i]) >= 0
                                /\ base + ts[i].offset + bytes(ts[i]) <= source.size
     THEN [ok |-> TRUE, format |-> "gguf", meta |-> source.meta,
           files |-> (0 :> source.size),
           entries |-> [i \in DOMAIN ts |->
             Entry(<<ts[i].name, "weight">>, 0, RowMajor(ts[i].dims), ts[i].type,
                   base + ts[i].offset, bytes(ts[i]), align)]]
     ELSE Failure

\* index_source: the containers' probes tell the three formats apart.
IndexSource(source) ==
  CASE source.format = "safetensors" -> SafetensorsIndex(source, 0)
    [] source.format = "sharded" -> ShardedIndex(source)
    [] source.format = "gguf" -> GgufIndex(source)
    [] OTHER -> Failure

----------------------------------------------------------------------------
(* Metadata *)

\* The first of the keys that config.json has, under its own name here.
Field(json, name, keys) ==
  LET present == SelectSeq(keys, LAMBDA k : k \in DOMAIN json)
  IN IF present = <<>> THEN <<>> ELSE name :> json[Head(present)]

\* load_hf_config_metadata; without a config.json there is no field at all,
\* with one there is always a theta.
LoadHfConfigMetadata(json) ==
  LET heads == Field(json, "num_heads", <<"num_attention_heads", "n_head", "num_heads">>)
      hidden == Field(json, "hidden_size", <<"hidden_size", "n_embd">>)
      kv == Field(json, "num_kv_heads", <<"num_key_value_heads", "num_kv_heads">>)
      divided == IF /\ hidden # <<>> /\ heads # <<>>
                    /\ heads.num_heads > 0 /\ hidden.hidden_size % heads.num_heads = 0
                 THEN "head_dim" :> hidden.hidden_size \div heads.num_heads ELSE <<>>
  IN IF json = <<>> THEN <<>>
     ELSE Field(json, "num_layers", <<"num_hidden_layers", "n_layer", "num_layers">>)
       @@ hidden @@ heads @@ kv
       @@ (IF heads # <<>> THEN "num_kv_heads" :> heads.num_heads ELSE <<>>)
       @@ Field(json, "intermediate_size", <<"intermediate_size">>)
       @@ Field(json, "vocab_size", <<"vocab_size">>)
       @@ Field(json, "context_length", <<"max_position_embeddings", "context_length">>)
       @@ Field(json, "rope_theta", <<"rope_theta", "rope_parameters.rope_theta">>)
       @@ ("rope_theta" :> 10000)
       @@ Field(json, "layer_types", <<"layer_types">>)
       @@ Field(json, "conv_kernel", <<"conv_L_cache", "conv_kernel">>)
       @@ Field(json, "conv_dim", <<"conv_dim">>)
       @@ Field(json, "head_dim", <<"head_dim">>) @@ divided
       @@ Field(json, "model_type", <<"model_type">>)
       @@ Field(json, "hf_architecture", <<"architectures">>)
       @@ Field(json, "bits", <<"quantization.bits">>)
       @@ Field(json, "group_size", <<"quantization.group_size">>)

\* normalized_metadata of a GGUF file; its architecture prefix is left out.
NormalizedMetadata(meta) ==
  (IF "architecture" \notin DOMAIN meta THEN <<>>
   ELSE "model_type" :> meta.architecture
     @@ Field(meta, "num_layers", <<"block_count">>)
     @@ Field(meta, "hidden_size", <<"embedding_length">>)
     @@ Field(meta, "intermediate_size", <<"feed_forward_length">>)
     @@ Field(meta, "num_heads", <<"attention.head_count">>)
     @@ Field(meta, "num_kv_heads", <<"attention.head_count_kv">>)
     @@ Field(meta, "head_dim", <<"attention.key_length", "rope.dimension_count">>)
     @@ Field(meta, "context_length", <<"context_length">>)
     @@ Field(meta, "rope_theta", <<"rope.freq_base">>))
  @@ Field(meta, "vocab_size", <<"tokens">>)

----------------------------------------------------------------------------
(* Convention decoders *)

Component(part, e) ==
  [name |-> part, key |-> e.key, file |-> e.file, shape |-> e.shape, store |-> e.store,
   align |-> e.align, ranges |-> <<e.range>>]
Parameter(e, shape, elem, enc, comps) ==
  LET n == e.key[1]
      name == IF e.key[2] = "weight" THEN n
              ELSE <<n[1], n[2], n[3] \o "." \o e.key[2]>>
  IN [name |-> name, aliases |-> <<name>>, role |-> InferRole(name), shape |-> shape,
      elem |-> elem, enc |-> enc, comps |-> comps]
PlainParameter(e) ==
  Parameter(e, e.shape, e.store, [kind |-> "plain", type |-> e.store], <<Component("data", e)>>)
Floats == {"bf16", "f16", "f32"}

\* DenseSafetensorsConvention::decode.
DenseDecode(index) ==
  LET kept == SelectSeq(index.entries, LAMBDA e : e.key[1][3] \notin Rotary)
  IN IF \A i \in DOMAIN index.entries : index.entries[i].store \in Floats
     THEN [ok |-> TRUE, params |-> [i \in DOMAIN kept |-> PlainParameter(kept[i])]]
     ELSE Failure

\* decode_affine_weight: the packed axis holds 32 bit words.
AffineValid(w, s, b, bits, group) ==
  LET last == (Last(w.shape) * 32) \div bits
      groups == Append(Front(w.shape), last \div group)
  IN /\ w.shape # <<>>
     /\ w.store = "u32" /\ s.store = b.store /\ s.store \in Floats
     /\ (Last(w.shape) * 32) % bits = 0
     /\ last % group = 0
     /\ s.shape = groups /\ b.shape = groups
AffineWeight(w, s, b, bits, group) ==
  Parameter(w, Append(Front(w.shape), (Last(w.shape) * 32) \div bits), s.store,
            [kind |-> "group", bits |-> bits, container |-> "u32", scale |-> s.store,
             group |-> group],
            <<Component("packed", w), Component("scales", s), Component("biases", b)>>)

\* MlxSafeTensorsConvention::decode: weights with both of their companions are
\* quantized, those with neither are plain, and no companion is left over.
MlxDecode(index, meta) ==
  LET parts(part) == {e \in ToSet(index.entries) : e.key[2] = part}
      of(w, part) == {e \in parts(part) : e.key[1] = w.key[1]}
      the(w, part) == CHOOSE e \in of(w, part) : TRUE
      weights == SelectSeq(index.entries, LAMBDA e :
                             e.key[2] = "weight" /\ e.key[1][3] \notin Rotary)
      paired(w) == of(w, "scales") # {}
      valid(w) == IF paired(w)
                  THEN /\ of(w, "biases") # {}
                       /\ AffineValid(w, the(w, "scales"), the(w, "biases"), meta.bits,
                                      meta.group_size)
                  ELSE of(w, "biases") = {} /\ w.store \in Floats
      decode(w) == IF paired(w)
                   THEN AffineWeight(w, the(w, "scales"), the(w, "biases"), meta.bits,
                                     meta.group_size)
                   ELSE PlainParameter(w)
  IN IF /\ {"bits", "group_size"} \subseteq DOMAIN meta
        /\ meta.bits \in MlxBits /\ meta.group_size > 0
        /\ \A i \in DOMAIN weights : valid(weights[i])
        /\ \A e \in parts("scales") \cup parts("biases") :
             \E i \in DOMAIN weights : weights[i].key[1] = e.key[1]
     THEN [ok |-> TRUE, params |-> [i \in DOMAIN weights |-> decode(weights[i])]]
     ELSE Failure

\* GgufMixedConvention::decode: a block type is an f16 tensor of its blocks.
GgufEncoding(type) ==
  IF type \in DOMAIN GgufBlocks
  THEN [kind |-> "block", codec |-> type, block |-> GgufBlocks[type][1],
        bytes |-> GgufBlocks[type][2]]
  ELSE [kind |-> "plain", type |-> type]
GgufDecode(index) ==
  [ok |-> index.entries # <<>>,
   params |-> [i \in DOMAIN index.entries |->
     LET e == index.entries[i]
     IN Parameter(e, e.shape, IF e.store \in DOMAIN GgufBlocks THEN "f16" ELSE e.store,
                  GgufEncoding(e.store), <<Component("data", e)>>)]]

\* The match scores: MLX beats dense where the file says so and has companions.
IsMlx(index) ==
  /\ "format" \in DOMAIN index.meta /\ index.meta.format = "mlx"
  /\ \E i \in DOMAIN index.entries : index.entries[i].key[2] \in {"scales", "biases"}

\* decode_index: the convention's metadata, then its parameters. The match
\* scores are of the container's metadata.
ConventionMetadata(index, config) ==
  IF index.format = "gguf" THEN NormalizedMetadata(index.meta) @@ index.meta
  ELSE index.meta @@ LoadHfConfigMetadata(config)
DecodeConvention(index, meta) ==
  CASE index.format = "gguf" -> GgufDecode(index)
    [] IsMlx(index) -> MlxDecode(index, meta)
    [] OTHER -> DenseDecode(index)
Catalog(index, meta, decoded) ==
  IF decoded.ok THEN [ok |-> TRUE, params |-> decoded.params, meta |-> meta,
                      files |-> index.files]
  ELSE Failure
DecodeWith(index, meta) == Catalog(index, meta, DecodeConvention(index, meta))
DecodeIndex(index, config) ==
  IF index.ok /\ index.entries # <<>> THEN DecodeWith(index, ConventionMetadata(index, config))
  ELSE Failure

\* inspect_path: index the container, decode its convention.
Inspect(ckpt) == DecodeIndex(IndexSource(ckpt.source), ckpt.config)

\* The architecture names of the metadata, in the order they are tried.
ModelTypes(meta) ==
  LET present == SelectSeq(<<"model_type", "hf_architecture">>, LAMBDA k : k \in DOMAIN meta)
  IN [i \in DOMAIN present |-> meta[present[i]]]
=============================================================================
