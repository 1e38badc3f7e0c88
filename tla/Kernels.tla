------------------------------ MODULE Kernels -------------------------------
(***************************************************************************)
(* The quantization definitions and the kernel registry: which encodings   *)
(* are known, what each requires of a parameter's storage, which kernel    *)
(* candidates each registers, and the dry run that selects a kernel for    *)
(* every operation of a graph in both execution modes.                     *)
(*                                                                         *)
(* An encoding is [kind |-> "plain", type], [kind |-> "block", codec,      *)
(* block, bytes] or [kind |-> "group", bits, container, scale, group]; the *)
(* descriptor fields that every reader writes the same way are left out. A *)
(* candidate is a record; ids and lowerings are tuples of their parts; an  *)
(* empty rank is 0, an empty multiple is 1.                                *)
(***************************************************************************)
EXTENDS Binding

Modes == {"Prefill", "Decode"}
NoEncoding == <<"none", 0>>
NoKernel == [id |-> <<"none">>]

----------------------------------------------------------------------------
(* Encoding definitions *)

\* The block codecs with kernels, and some of the schema-only ones.
BlockLayouts ==
     "gguf.q4_0" :> <<32, 18>> @@ "gguf.q4_1" :> <<32, 20>>
  @@ "gguf.q6_k" :> <<256, 210>> @@ "gguf.q8_0" :> <<32, 34>>
SchemaOnlyLayouts ==
     "gguf.q5_0" :> <<32, 22>> @@ "gguf.q5_1" :> <<32, 24>> @@ "gguf.q2_k" :> <<256, 84>>
  @@ "gguf.q3_k" :> <<256, 110>> @@ "gguf.q4_k" :> <<256, 144>> @@ "gguf.q5_k" :> <<256, 176>>
MlxBits == {2, 3, 4, 6, 8}
MlxPacking(bits) == <<"mlx.affine", bits>>

\* physical_encoding_key.
PhysicalEncodingKey(enc) ==
  CASE enc.kind = "plain" -> <<"plain", enc.type>>
    [] enc.kind = "block" -> <<"block", enc.codec>>
    [] OTHER -> MlxPacking(enc.bits)

\* QuantizationRegistry::resolve: some definition matches.
Resolvable(enc) ==
  CASE enc.kind = "plain" -> enc.type \in {"f32", "f16", "bf16"}
    [] enc.kind = "block" -> enc.codec \in DOMAIN (BlockLayouts @@ SchemaOnlyLayouts)
    [] OTHER -> enc.bits \in MlxBits

PlainValid(p) ==
  /\ p.elem = p.enc.type
  /\ Len(p.comps) = 1
  /\ StorageBytes(p) = Product(p.shape) * SizeBytes(p.enc.type)

\* validate of the block codecs: complete blocks, one interleaved component.
GgufBlockValid(p) ==
  LET layout == (BlockLayouts @@ SchemaOnlyLayouts)[p.enc.codec]
      numel == Product(p.shape)
  IN /\ p.enc.block = layout[1] /\ p.enc.bytes = layout[2]
     /\ numel % layout[1] = 0
     /\ Len(p.comps) = 1
     /\ p.comps[1].name = "data" /\ p.comps[1].store = p.enc.codec
     /\ StorageBytes(p) = (numel \div layout[1]) * layout[2]

\* validate of the MLX affine definitions: words of 32 bits, one scale and one
\* bias per group of the last axis, and every component complete.
MlxValid(p) ==
  LET last == Last(p.shape)
      row(n) == Append(Front(p.shape), n)
      want == << <<"packed", "u32", row((last * p.enc.bits) \div 32)>>,
                 <<"scales", p.enc.scale, row(last \div p.enc.group)>>,
                 <<"biases", p.enc.scale, row(last \div p.enc.group)>> >>
  IN /\ p.enc.group # 0 /\ p.shape # <<>>
     /\ Len(p.comps) = 3
     /\ (last * p.enc.bits) % 32 = 0
     /\ last % p.enc.group = 0
     /\ \A i \in 1..3 :
          /\ p.comps[i].name = want[i][1]
          /\ p.comps[i].store = want[i][2]
          /\ p.comps[i].shape = want[i][3]
          /\ RangeBytes(p.comps[i]) = Product(want[i][3]) * SizeBytes(want[i][2])

EncodingValid(p) ==
  CASE p.enc.kind = "plain" -> PlainValid(p)
    [] p.enc.kind = "block" -> GgufBlockValid(p)
    [] OTHER -> MlxValid(p)

----------------------------------------------------------------------------
(* Kernel candidates *)

Candidate(id, op, enc, type, rank, multiple, backends, features, lowering, score) ==
  [id |-> id, op |-> op, enc |-> enc, type |-> type, accumulator |-> "f32",
   rank |-> rank, multiple |-> multiple, backends |-> backends, features |-> features,
   lowering |-> lowering, score |-> score]

\* register_builtin_semantic_candidates: operations without a parameter.
SemanticCandidate(op, type, lowering, score) ==
  Candidate(<<lowering>>, op, NoEncoding, type, 0, 1, {"any"}, {}, <<lowering>>, score)
SemanticCandidates ==
  {SemanticCandidate("Input", "i64", "model.input.abi", 100),
   SemanticCandidate("Rope", "f32", "rope.generated", 100),
   SemanticCandidate("KvCacheWrite", "f32", "kv_cache.write.generated", 100),
   SemanticCandidate("KvCacheRead", "f32", "kv_cache.read.generated", 100),
   SemanticCandidate("Attention", "f32", "attention.gqa.generated", 100),
   SemanticCandidate("Attention", "f32", "attention.online_paged.generated", 90),
   SemanticCandidate("Silu", "f32", "elementwise.silu.generated", 100),
   SemanticCandidate("Multiply", "f32", "elementwise.multiply.generated", 100),
   SemanticCandidate("Residual", "f32", "residual.add.generated", 100)}

\* PlainDefinition: a portable candidate for each operation with a weight, and
\* for f16 and bf16 one gated by the target's native arithmetic.
LogicalRank(op) == CASE op \in {"RmsNorm", "PerHeadRmsNorm"} -> 1
                     [] op = "ShortConv" -> 3
                     [] OTHER -> 2
PlainLowering ==
     "Embedding" :> "dense.gather.linalg" @@ "Linear" :> "dense.matmul.linalg"
  @@ "RmsNorm" :> "dense.rms_norm.generated"
  @@ "PerHeadRmsNorm" :> "dense.per_head_rms_norm.generated"
  @@ "OutputProjection" :> "dense.matmul.linalg" @@ "ShortConv" :> "short_conv.gated.generated"
PlainCandidates ==
  {Candidate(<<"dense", op, type, "portable">>, op, <<"plain", type>>, "f32",
             LogicalRank(op), 1, {"any"}, {}, <<PlainLowering[op]>>, 100) :
     op \in DOMAIN PlainLowering, type \in {"f32", "f16", "bf16"}}
NativeFeature == "f16" :> "native_f16" @@ "bf16" :> "native_bf16"
NativeCandidates ==
  {Candidate(<<"dense", op, type, "native">>, op, <<"plain", type>>, type,
             LogicalRank(op), 1, {"any"}, {NativeFeature[type]}, <<"native", op>>, 200) :
     op \in DOMAIN PlainLowering, type \in DOMAIN NativeFeature}

\* The quantized kernels of one encoding: gather, matmul and output projection
\* for CPUs with AVX2 and for HIP.
QuantizedBackends ==
  [b \in {"cpu", "hip"} |-> IF b = "cpu" THEN <<{"local-task", "local-sync"}, {"avx2"}>>
                            ELSE <<{"hip", "rocm"}, {}>>]
QuantizedOps == {"Embedding", "Linear", "OutputProjection"}
QuantizedCandidates(enc, multiple, lowering) ==
  {Candidate(enc \o <<op, b>>, op, enc, "f32", 2, multiple, QuantizedBackends[b][1],
             QuantizedBackends[b][2], lowering[<<op, b>>], 300) :
     op \in QuantizedOps, b \in DOMAIN QuantizedBackends}
GgufCandidates(codec) ==
  QuantizedCandidates(<<"block", codec>>, BlockLayouts[codec][1],
                      [p \in QuantizedOps \X DOMAIN QuantizedBackends |-> <<codec, p[1]>>])

\* Mutant: the embedding is offered with the lowering of the projections.
MlxCandidatesMatmul ==
  QuantizedCandidates(MlxPacking(4), 32,
    [p \in QuantizedOps \X DOMAIN QuantizedBackends |-> <<"mlx.affine.u4", "matmul", p[2]>>])

\* Only the 4 bit packing has kernels; the GPU has a lowering of its own.
MlxCandidates ==
  QuantizedCandidates(MlxPacking(4), 32,
    [p \in QuantizedOps \X DOMAIN QuantizedBackends |->
       <<"mlx.affine.u4", IF p[1] = "Embedding" THEN "gather" ELSE "matmul", p[2]>>])

\* register_all and register_kernel_candidates.
KernelRegistry ==
  SemanticCandidates \cup PlainCandidates \cup NativeCandidates \cup MlxCandidates
    \cup UNION {GgufCandidates(codec) : codec \in DOMAIN BlockLayouts}

----------------------------------------------------------------------------
(* KernelRegistry::select *)

PrecisionSensitive == {"RmsNorm", "PerHeadRmsNorm", "Rope", "Attention"}

\* No rejection reason. A request is [op, enc, shape]; without a parameter its
\* shape is empty and constrains nothing. Every candidate serves both modes and
\* the native orientation, and is production ready.
Eligible(c, request, target) ==
  /\ c.op = request.op
  /\ c.enc = request.enc
  /\ c.backends \cap {"any", target.driver} # {}
  /\ c.features \subseteq target.features
  /\ (c.rank # 0 /\ request.shape # <<>>) => Len(request.shape) = c.rank
  /\ (c.multiple # 1 /\ Len(request.shape) >= 2) => request.shape[2] % c.multiple = 0
  /\ request.op \in PrecisionSensitive => c.accumulator = request.sensitive

\* Mutant: only a backend of its own tells candidates apart.
ScoreBackendOnly(c, target) == IF target.driver \in c.backends THEN 1000 ELSE 0

\* DeterministicCostModel.
Score(c, target) == c.score + (IF target.driver \in c.backends THEN 1000 ELSE 0)

\* The best score; ids break a tie, and SelectionHasNoTie says there is none.
Best(request, target) ==
  LET eligible == {c \in KernelRegistry : Eligible(c, request, target)}
  IN {c \in eligible : \A d \in eligible : Score(d, target) <= Score(c, target)}
Select(request, target) ==
  LET best == Best(request, target)
  IN IF best = {} THEN NoKernel ELSE CHOOSE c \in best : TRUE

----------------------------------------------------------------------------
(* dry_run_coverage *)

\* The request of an operation, and whether its parameter is well formed.
RequestOf(op, params, bindings) ==
  LET bound == SelectSeq(bindings, LAMBDA b : b.slot = op.slot.name)
      param == SelectSeq(params, LAMBDA p : p.name = Head(bound).name)
      none == op.slot.rank = 0
  IN [op |-> op.op, sensitive |-> "f32",
      enc |-> IF none THEN NoEncoding ELSE PhysicalEncodingKey(Head(param).enc),
      shape |-> IF none THEN <<>> ELSE Head(bound).shape,
      valid |-> none \/ (Resolvable(Head(param).enc) /\ EncodingValid(Head(param)))]

\* One entry for every operation and mode.
DryRunCoverage(ops, params, bindings, target) ==
  [i \in DOMAIN ops |->
    LET request == RequestOf(ops[i], params, bindings)
    IN [mode \in Modes |->
          [op |-> ops[i], mode |-> mode, request |-> request,
           selected |-> Select(request, target), valid |-> request.valid]]]

IsComplete(coverage) ==
  \A i \in DOMAIN coverage : \A mode \in Modes :
    coverage[i][mode].selected # NoKernel /\ coverage[i][mode].valid

\* The kernels found, in the order of the graph.
SelectedKernels(coverage) ==
  LET entries == FlattenSeq([i \in DOMAIN coverage |->
                   <<coverage[i]["Prefill"], coverage[i]["Decode"]>>])
      found == SelectSeq(entries, LAMBDA e : e.selected # NoKernel)
  IN [i \in DOMAIN found |->
        [op |-> found[i].op, mode |-> found[i].mode, kernel |-> found[i].selected.id,
         lowering |-> found[i].selected.lowering, enc |-> found[i].request.enc,
         type |-> found[i].selected.type]]
=============================================================================
