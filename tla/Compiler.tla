------------------------------ MODULE Compiler ------------------------------
(***************************************************************************)
(* The compile pipeline: shape profile, bound model, the configuration and *)
(* checks of the lowering, the executables it produces and the manifest.   *)
(*                                                                         *)
(* A bound model is [graph, values, bindings, seq, maxKv, target,          *)
(* kernels]; an executable is the program it was compiled from, for the    *)
(* configuration c of the lowering.                                        *)
(***************************************************************************)
EXTENDS Containers, Target, DenseDecoder

PagedPrefillChunkSize == 512
PagedKvPageSize == 256

----------------------------------------------------------------------------
(* Shapes and the bound model *)

Synthetic(values) ==
  /\ GetOr(values, "vocab_size", 32) = 32
  /\ GetOr(values, "hidden_size", 64) = 64
  /\ GetOr(values, "num_heads", 4) = 4

AtLeast(x, y) == IF x >= y THEN x ELSE y

\* default_shape_profile: three buckets, and the user's values before them.
DefaultShapeProfile(values) ==
  LET large == \/ GetOr(values, "vocab_size", 32) > 50000
               \/ GetOr(values, "num_layers", 1) > 16
               \/ GetOr(values, "hidden_size", 64) >= 1024
      bucket == CASE Synthetic(values) -> <<4, 4>>
                  [] large -> <<32, 256>>
                  [] OTHER -> <<64, 128>>
      prefill == AtLeast(GetOr(values, "prefill_window", bucket[1]), 1)
  IN [prefill |-> prefill, maxKv |-> AtLeast(GetOr(values, "max_kv", bucket[2]), prefill)]

\* Mutant: a paged model keeps the kernels the dry run chose.
PagedKernelsKept(kernels) == kernels

\* The attention kernels of a paged model are replaced by the paged one.
PagedKernels(kernels) ==
  [i \in DOMAIN kernels |->
     IF kernels[i].op.op # "Attention" THEN kernels[i]
     ELSE [kernels[i] EXCEPT !.kernel = <<"attention.online_paged.generated">>,
                             !.lowering = <<"attention.online_paged.generated">>]]

BuildBoundModel(package, bindings, target, kernels, shape) ==
  LET paged == shape.maxKv > PagedPrefillChunkSize
  IN [graph |-> package.graph, values |-> package.values, bindings |-> bindings,
      target |-> target, maxKv |-> shape.maxKv,
      seq |-> IF paged THEN PagedPrefillChunkSize ELSE shape.prefill,
      kernels |-> IF paged THEN PagedKernels(kernels) ELSE kernels]

----------------------------------------------------------------------------
(* DenseDecoderConfig::from_bound_model *)

NoTheta == -1

\* The theta of the first rotation; a model without one gets 10000, and the
\* dimensions of the synthetic fixture switch it off.
RopeTheta(graph, values) ==
  LET ropes == SelectSeq(graph.ops, LAMBDA op : op.op = "Rope")
      theta == IF ropes = <<>> THEN 10000 ELSE Head(ropes).attrs[3]
  IN IF Synthetic(values) \/ theta <= 0 THEN NoTheta ELSE theta

ResolveLayerTypes(values, layers) ==
  IF "layer_types" \in DOMAIN values THEN values.layer_types
  ELSE [i \in 1..layers |-> "full_attention"]

IsPaged(bound) ==
  \E i \in DOMAIN bound.kernels :
    /\ bound.kernels[i].op.op = "Attention" /\ bound.kernels[i].mode = "Prefill"
    /\ bound.kernels[i].lowering = <<"attention.online_paged.generated">>

\* Everything a weight's emitter asks for, by canonical name.
FromBoundModel(bound, portable) ==
  LET v == bound.values
      hidden == GetOr(v, "hidden_size", 64)
      heads == GetOr(v, "num_heads", 4)
      layers == GetOr(v, "num_layers", 1)
      names == {b.name : b \in ToSet(bound.bindings)}
      of(w) == CHOOSE b \in ToSet(bound.bindings) : b.name = w
      kernel(w, mode) == SelectSeq(bound.kernels, LAMBDA k : k.op.slot.name = w /\ k.mode = mode)
      first(w) == Head(of(w).comps)
  IN [vocab |-> GetOr(v, "vocab_size", 32), hidden |-> hidden,
      inter |-> GetOr(v, "intermediate_size", hidden * 2),
      heads |-> heads, kvHeads |-> GetOr(v, "num_kv_heads", heads),
      headDim |-> GetOr(v, "head_dim", hidden \div AtLeast(heads, 1)), layers |-> layers,
      seq |-> bound.seq, maxKv |-> AtLeast(bound.maxKv, bound.seq), paged |-> IsPaged(bound),
      flash |-> bound.target.driver = "hip" /\ ~portable,
      rope |-> RopeTheta(bound.graph, v),
      qkNorm |-> \E i \in DOMAIN bound.graph.ops : bound.graph.ops[i].op = "PerHeadRmsNorm",
      convDim |-> GetOr(v, "conv_dim", hidden), convKernel |-> GetOr(v, "conv_kernel", 3),
      kinds |-> ResolveLayerTypes(v, layers),
      keys |-> [w \in names |-> first(w).external],
      dtypes |-> [w \in names |-> IF first(w).store \in DOMAIN BlockLayouts THEN "f32"
                                  ELSE first(w).store],
      compute |-> [w \in {n \in names : kernel(n, "Decode") # <<>>} |->
                     Last(kernel(w, "Decode")).type],
      bindings |-> [w \in names |-> of(w)],
      lowerings |-> [p \in {n \in names \X Modes : kernel(n[1], n[2]) # <<>>} |->
                       Last(kernel(p[1], p[2])).lowering]]

----------------------------------------------------------------------------
(* lower_bound_model *)

\* lowering_matches_operation and implements_lowering of the registry.
LoweringMatchesOperation(op, lowering) ==
  \E k \in KernelRegistry : k.op = op /\ k.lowering = lowering

\* validate_bound_model_lowerings: every operation in every mode, and f32 only.
ValidateLowerings(bound) ==
  \A i \in DOMAIN bound.graph.ops : \A mode \in Modes :
    \E j \in DOMAIN bound.kernels :
      LET k == bound.kernels[j]
      IN /\ k.op = bound.graph.ops[i] /\ k.mode = mode
         /\ k.type \in {"i64", "f32"}
         /\ LoweringMatchesOperation(k.op.op, k.lowering)

\* The configuration that is emitted, when it is supported.
LowerBoundModel(bound, portable) ==
  LET c == FromBoundModel(bound, portable)
  IN IF /\ ValidateLowerings(bound)
        /\ \A i \in DOMAIN bound.bindings : bound.bindings[i].name \in DOMAIN c.compute
        /\ SupportsDenseEmit(c)
     THEN [ok |-> TRUE, config |-> c]
     ELSE Failure

----------------------------------------------------------------------------
(* LocalCompiler::compile *)

CompileFlagsReady(target) == IsCompileReady(target) /\ target.flags # {}

\* The set of keys and lengths the manifest promises.
ParameterComponents(bindings) ==
  LET bytes(c) == FoldLeft(LAMBDA m, n : m + n, 0, c.lengths)
  IN UNION {{<<c.external, bytes(c)>> : c \in ToSet(b.comps)} : b \in ToSet(bindings)}

\* Mutant: a cache row has the query's heads.
KvSpecQueryHeads(bound, c) ==
  [layers |-> GetOr(bound.values, "num_layers", 1), maxSeq |-> c.maxKv,
   heads |-> GetOr(bound.values, "num_heads", 1),
   dim |-> GetOr(bound.values, "head_dim", 64), elem |-> PagedKvElementType(c),
   storage |-> IF c.paged THEN <<"paged", PagedKvPageSize, PagedPrefillChunkSize>>
               ELSE <<"static">>]

KvSpec(bound, c) ==
  [layers |-> GetOr(bound.values, "num_layers", 1), maxSeq |-> c.maxKv,
   heads |-> GetOr(bound.values, "num_kv_heads", 1),
   dim |-> GetOr(bound.values, "head_dim", 64), elem |-> PagedKvElementType(c),
   storage |-> IF c.paged THEN <<"paged", PagedKvPageSize, PagedPrefillChunkSize>>
               ELSE <<"static">>]
Manifest(bound, c, schema) ==
  [version |-> IF c.paged THEN 11 ELSE 2, arch |-> bound.graph.arch, schema |-> schema,
   target |-> bound.target,
   window |-> c.seq,
   entrypoints |-> IF c.paged THEN {"prefill_chunk", "decode_chunk"} ELSE {"prefill", "decode"},
   kv |-> KvSpec(bound, c),
   components |-> ParameterComponents(bound.bindings)]

\* The executables: model.vmfb, and decode.vmfb where there are two programs.
Executables(c) ==
  IF Programs(c) = {"Combined"} THEN [model |-> "Combined"]
  ELSE [model |-> "Prefill", decode |-> "Decode"]

\* compile, up to the IREE compiler itself: everything it decides. The bindings
\* are validated last; every component list must be non-empty.
Compile(bound, c, schema) ==
  IF /\ CompileFlagsReady(bound.target)
     /\ \A i \in DOMAIN bound.bindings : bound.bindings[i].comps # <<>>
  THEN [ok |-> TRUE, executables |-> Executables(c), manifest |-> Manifest(bound, c, schema)]
  ELSE Failure
=============================================================================
