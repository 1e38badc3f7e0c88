--------------------------- MODULE CommandProofs ---------------------------
(* Theorems about Command, for every checkpoint, device dump, tokenizer and   *)
(* request: the room a command computes from its prompt reaches the session.  *)
EXTENDS Command, SequenceTheorems, WellFoundedInduction, TLAPS

----------------------------------------------------------------------------
(* The inductive invariant *)

Stages == {"tokenize", "architecture", "target", "inspect", "package", "bind", "kernels",
           "lower", "compile", "load", "parameters", "prefill", "decode", "done", "failed"}

Given ==
  pc \in Stages /\ request \in DOMAIN Requests /\ checkpoint \in DOMAIN Checkpoints

\* The cache was sized for the prompt and its answer, in 32 bits.
PromptSized ==
  pc \notin {"tokenize", "failed"} =>
    /\ prompt.ids \in Seq(Nat) /\ prompt.maxKv \in 0..(U32 - 1)
    /\ Len(prompt.ids) + Req.new <= prompt.maxKv

\* A window the checkpoint's metadata names is a number.
MetadataRead ==
  /\ pc \in {"target", "inspect", "package"} => arch \in Registered
  /\ pc = "package" /\ "prefill_window" \in DOMAIN catalog.meta =>
       catalog.meta.prefill_window \in Int

\* A shape with a number of positions, at least those the prompt was sized for.
Roomy(window, positions) ==
  window \in Int /\ positions \in Int /\ positions >= prompt.maxKv

\* The positions on their way from the request to the manifest.
RoomKept ==
  /\ pc \in {"bind", "kernels"} =>
       LET shape == DefaultShapeProfile(package.values) IN Roomy(shape.prefill, shape.maxKv)
  /\ pc = "lower" =>
       DOMAIN bound = {"complete", "model"} /\ Roomy(bound.model.seq, bound.model.maxKv)
  /\ pc = "compile" => Roomy(0, bound.lowered.config.maxKv)
  /\ pc \in {"load", "parameters", "prefill", "decode", "done"} =>
       Roomy(0, bundle.manifest.kv.maxSeq)

\* Every token that was fed back has its row.
TokensCounted ==
  /\ pc \notin {"decode", "done", "failed"} => generated = [tokens |-> <<>>, position |-> 0]
  /\ pc = "decode" =>
       /\ generated.tokens \in Seq(Sampled) /\ Len(generated.tokens) <= Req.new
       /\ generated.position = Len(prompt.ids) + Len(generated.tokens)

CommandInv == Given /\ PromptSized /\ MetadataRead /\ RoomKept /\ TokensCounted

----------------------------------------------------------------------------
(* The operators on the way *)

\* A set of numbers that is not empty has a least one. Induction on the
\* layers of a graph or the lines of a dump takes the least number at which a
\* claim fails.
LEMMA LeastNatural ==
  ASSUME NEW T, T \subseteq Nat, T # {}
  PROVE  \E x \in T : \A y \in T : x <= y
<1> DEFINE Less == {ss \in Nat \X Nat : ss[1] < ss[2]}
<1>1. IsWellFoundedOn(Less, Nat)
  BY NatLessThanWellFounded DEF OpToRel
<1>2. \A x, y \in Nat : y < x => <<y, x>> \in Less
  OBVIOUS
<1> HIDE DEF Less
<1>3. PICK x \in T : \A y \in T : ~(<<y, x>> \in Less)
  BY <1>1, WFMin
<1>4. ASSUME NEW y \in T
      PROVE  x <= y
  <2>1. x \in Nat /\ y \in Nat /\ ~(y < x)
    BY <1>2, <1>3
  <2> QED
    BY <2>1
<1> QED
  BY <1>3, <1>4

\* The larger of two integers.
LEMMA AtLeastIs ==
  ASSUME NEW x \in Int, NEW y \in Int
  PROVE  AtLeast(x, y) \in Int /\ AtLeast(x, y) >= x /\ AtLeast(x, y) >= y
<1> QED
  BY DEF AtLeast

\* A request that is resolved names a registered architecture.
LEMMA ResolvedIsRegistered ==
  ASSUME NEW override, NEW types
  PROVE  ResolveArchitecture(override, types) \in Registered \cup {NoType}
<1> QED
  BY DEF ResolveArchitecture, Registered, RemapModelType, FindByModelType, NoType

\* No definition has a default for the window.
LEMMA DefaultsLeaveWindow ==
  ASSUME NEW a \in Registered
  PROVE  "prefill_window" \notin DOMAIN SchemaDefaults(a)
<1>1. \A b, c, d, e, f, g, h, i :
        "prefill_window" \notin DOMAIN DecoderDefaults(b, c, d, e, f, g, h, i)
  BY DEF DecoderDefaults
<1>2. \A f, x : "prefill_window" \notin DOMAIN f =>
                  "prefill_window" \notin DOMAIN Over(f, [rope_theta |-> x])
  BY DEF Over
<1>3. \A f, x, y, z :
        "prefill_window" \notin DOMAIN f =>
          "prefill_window" \notin
            DOMAIN Over(f, [rope_theta |-> x, conv_kernel |-> y, layer_types |-> z])
  BY DEF Over
<1>4. CASE a = "llama.decoder"
  BY <1>1, <1>4, SMT DEF SchemaDefaults
<1>5. CASE a = "qwen3.decoder"
  <2>1. SchemaDefaults(a) = Over(DecoderDefaults(28, 16, 8, 128, 1024, 3072, 151936, 40960),
                                 [rope_theta |-> 1000000])
    BY <1>5, SMT DEF SchemaDefaults
  <2> QED
    BY <1>1, <1>2, <2>1, SMT
<1>6. CASE a = "lfm2.hybrid"
  <2>1. SchemaDefaults(a) = Over(DecoderDefaults(3, 4, 2, 64, 256, 512, 32000, 4096),
                                 [rope_theta |-> 1000000, conv_kernel |-> 3,
                                  layer_types |-> <<"conv", "conv", "full_attention">>])
    BY <1>6, SMT DEF SchemaDefaults
  <2> QED
    BY <1>1, <1>3, <2>1, SMT
<1> QED
  BY <1>4, <1>5, <1>6 DEF Registered

\* The override of max_kv is what the package resolves; a window is a number,
\* whether the override or the metadata names it.
LEMMA PackageResolves ==
  ASSUME NEW a \in Registered, NEW overrides, NEW meta, NEW kv,
         "max_kv" \in DOMAIN overrides, overrides["max_kv"] = kv,
         "prefill_window" \in DOMAIN overrides => overrides["prefill_window"] \in Int,
         "prefill_window" \in DOMAIN meta => meta["prefill_window"] \in Int,
         NEW config, config = BuildPackage(a, overrides, meta,
                                           Only(meta, {"vocab_size", "context_length"})),
         config.ok
  PROVE  /\ "max_kv" \in DOMAIN config.values /\ config.values["max_kv"] = kv
         /\ "prefill_window" \in DOMAIN config.values => config.values["prefill_window"] \in Int
<1> DEFINE dotted == Only(meta, {"vocab_size", "context_length"})
           given == Over(overrides, Over(meta, dotted))
           v == Only(Over(given, SchemaDefaults(a)), SchemaFields(a))
<1>1. config.values = Resolve(a, overrides, meta, dotted).values
      /\ Resolve(a, overrides, meta, dotted).ok
  BY DEF BuildPackage, Err
<1>2. \/ config.values = v
      \/ config.values = [v EXCEPT !.head_dim = v.hidden_size \div v.num_heads]
  BY <1>1 DEF Resolve, Err
<1>3. "prefill_window" \notin DOMAIN dotted
  BY DEF Only
<1>4. /\ "max_kv" \in DOMAIN given /\ given["max_kv"] = kv
      /\ "prefill_window" \in DOMAIN given => given["prefill_window"] \in Int
  BY <1>3 DEF Over
<1>5. "max_kv" \in SchemaFields(a) /\ "prefill_window" \notin DOMAIN SchemaDefaults(a)
  BY DefaultsLeaveWindow DEF SchemaFields
<1> HIDE DEF given
<1>6. /\ "max_kv" \in DOMAIN v /\ v["max_kv"] = kv
      /\ "prefill_window" \in DOMAIN v => v["prefill_window"] \in Int
  BY <1>4, <1>5 DEF Over, Only
<1>7. v = [x \in DOMAIN v |-> v[x]]
  BY DEF Only
<1> HIDE DEF v
<1> QED
  BY <1>2, <1>6, <1>7

\* default_shape_profile never goes below a max_kv of 32 bits.
LEMMA ShapeKeepsRoom ==
  ASSUME NEW values, NEW kv \in 0..(U32 - 1),
         "max_kv" \in DOMAIN values, values["max_kv"] = kv,
         "prefill_window" \in DOMAIN values => values["prefill_window"] \in Int
  PROVE  LET shape == DefaultShapeProfile(values)
         IN shape.prefill \in Int /\ shape.maxKv \in Int /\ shape.maxKv >= kv
<1> USE WidthAssumption
<1>1. \A d : GetOr(values, "max_kv", d) = kv
  <2>1. kv % U32 = kv /\ kv >= 0
    OBVIOUS
  <2> QED
    BY <2>1 DEF GetOr, HasU32, GetU32
<1>2. \A d \in Int : GetOr(values, "prefill_window", d) \in Int
  <2>1. \A n \in Int : n % U32 \in Int
    OBVIOUS
  <2> QED
    BY <2>1 DEF GetOr, HasU32, GetU32
<1>3. PICK bucket \in {<<4, 4>>, <<32, 256>>, <<64, 128>>} :
        DefaultShapeProfile(values) =
          [prefill |-> AtLeast(GetOr(values, "prefill_window", bucket[1]), 1),
           maxKv |-> AtLeast(GetOr(values, "max_kv", bucket[2]),
                             AtLeast(GetOr(values, "prefill_window", bucket[1]), 1))]
  BY DEF DefaultShapeProfile
<1> DEFINE prefill == AtLeast(GetOr(values, "prefill_window", bucket[1]), 1)
<1>4. bucket[1] \in Int
  OBVIOUS
<1>5. prefill \in Int
  <2>1. GetOr(values, "prefill_window", bucket[1]) \in Int
    BY <1>2, <1>4
  <2> QED
    BY <2>1, AtLeastIs
<1>6. DefaultShapeProfile(values) = [prefill |-> prefill, maxKv |-> AtLeast(kv, prefill)]
  BY <1>1, <1>3
<1> HIDE DEF prefill
<1>7. kv \in Int
  OBVIOUS
<1> QED
  BY <1>5, <1>6, <1>7, AtLeastIs

----------------------------------------------------------------------------
(* The stages *)

\* Nothing is known yet.
LEMMA InitCommand == Init => CommandInv
<1> QED
  BY DEF Init, CommandInv, Given, Stages, PromptSized, MetadataRead, RoomKept, TokensCounted

\* A command that failed has nothing left to keep.
LEMMA FailedStage ==
  ASSUME CommandInv, pc' = "failed", request' = request, checkpoint' = checkpoint
  PROVE  CommandInv'
<1> QED
  BY DEF CommandInv, Given, Stages, PromptSized, MetadataRead, RoomKept, TokensCounted

\* The cache is sized for the prompt and its answer.
LEMMA TokenizeStage == CommandInv /\ Tokenize => CommandInv'
<1> SUFFICES ASSUME CommandInv, Tokenize PROVE CommandInv'
  OBVIOUS
<1> DEFINE ids == ModelPrompt(Tokenizers[Req.tokenizer], Req.text, Req.chat)
           needed == NeededKv(ids, Req.new)
           maxKv == IF Req.maxKv = 0 THEN needed ELSE Req.maxKv
<1>1. /\ pc = "tokenize" /\ request' = request /\ checkpoint' = checkpoint
      /\ prompt' = [ids |-> ids, needed |-> needed, maxKv |-> maxKv]
      /\ pc' = IF prompt'.maxKv >= prompt'.needed THEN "architecture" ELSE "failed"
      /\ generated' = generated
  BY DEF Tokenize, GoOn, givenVars
<1>2. CASE pc' = "failed"
  BY <1>1, <1>2, FailedStage
<1>3. CASE pc' # "failed"
  <2>1. /\ Req.new \in Nat /\ Req.maxKv \in 0..(U32 - 1)
        /\ ids \in Seq(Nat) /\ Len(ids) + Req.new + 1 < U32
    BY RequestAssumption DEF CommandInv, Given, Req
  <2>2. Len(ids) \in Nat
    BY <2>1, LenProperties
  <2>3. needed \in Int /\ needed >= Len(ids) + Req.new /\ needed \in 0..(U32 - 1)
    <3> DEFINE n == Len(ids)
               new == Req.new
    <3>1. n \in Nat /\ new \in Nat /\ n + new + 1 < U32
      BY <2>1, <2>2
    <3>2. needed = AtLeast(n + new, 1)
      BY DEF NeededKv
    <3> HIDE DEF n, new, needed
    <3>3. /\ needed \in Int /\ needed >= n + new /\ needed \in 0..(U32 - 1)
      BY <3>1, <3>2, WidthAssumption DEF AtLeast
    <3> QED
      BY <3>3 DEF n, new
  <2> HIDE DEF ids, needed
  <2>4. maxKv \in 0..(U32 - 1)
    BY <2>1, <2>3
  <2> HIDE DEF maxKv
  <2>5. prompt'.ids = ids /\ prompt'.maxKv = maxKv /\ prompt'.needed = needed
    BY <1>1
  <2>6. pc' = "architecture" /\ maxKv >= needed
    BY <1>1, <1>3, <2>5
  <2>7. Len(ids) + Req.new <= maxKv
    BY <2>1, <2>2, <2>3, <2>4, <2>6, WidthAssumption
  <2>8. Req' = Req
    BY <1>1 DEF Req
  <2>9. PromptSized'
    BY <2>1, <2>4, <2>5, <2>7, <2>8 DEF PromptSized
  <2>10. Given' /\ TokensCounted'
    BY <1>1, <2>6 DEF CommandInv, Given, Stages, TokensCounted
  <2> QED
    BY <2>6, <2>9, <2>10 DEF CommandInv, MetadataRead, RoomKept
<1> QED
  BY <1>2, <1>3

\* A stage that goes on keeps the prompt; what it knows of its own is shown below.
LEMMA StageGoesOn ==
  ASSUME CommandInv, pc \notin {"tokenize", "failed", "decode", "done"},
         UNCHANGED <<request, prompt, generated>>, checkpoint' \in DOMAIN Checkpoints,
         pc' \in Stages \ {"tokenize", "failed", "decode", "done"},
         MetadataRead', RoomKept'
  PROVE  CommandInv'
<1>1. request' = request /\ prompt' = prompt /\ generated' = generated /\ Req' = Req
  BY DEF Req
<1>2. PromptSized'
  BY <1>1 DEF CommandInv, PromptSized
<1>3. Given' /\ TokensCounted'
  BY <1>1 DEF CommandInv, Given, TokensCounted, Stages
<1> QED
  BY <1>2, <1>3 DEF CommandInv

\* The architecture and the target.
LEMMA ResolveStage ==
  ASSUME CommandInv, ResolveCommandArchitecture \/ ResolveCommandTarget
  PROVE  CommandInv'
<1>1. UNCHANGED <<request, checkpoint, prompt, generated>>
  BY DEF ResolveCommandArchitecture, ResolveCommandTarget, givenVars
<1>2. CASE pc' = "failed"
  BY <1>1, <1>2, FailedStage
<1>3. CASE pc' # "failed" /\ ResolveCommandArchitecture
  <2>1. pc = "architecture" /\ pc' = "target" /\ arch' # NoType
    BY <1>3 DEF ResolveCommandArchitecture, GoOn
  <2>2. arch' = ArchitectureOf(Inspect(Checkpoints[checkpoint]))
    BY <1>3 DEF ResolveCommandArchitecture
  <2>3. arch' \in Registered
    BY <2>1, <2>2, ResolvedIsRegistered DEF ArchitectureOf
  <2>4. MetadataRead' /\ RoomKept'
    BY <2>1, <2>3 DEF MetadataRead, RoomKept
  <2> QED
    BY <1>1, <2>1, <2>4, StageGoesOn DEF CommandInv, Given, Stages
<1>4. CASE pc' # "failed" /\ ResolveCommandTarget
  <2>1. pc = "target" /\ pc' = "inspect" /\ arch' = arch
    BY <1>4 DEF ResolveCommandTarget, GoOn
  <2>2. MetadataRead' /\ RoomKept'
    BY <2>1 DEF CommandInv, MetadataRead, RoomKept
  <2> QED
    BY <1>1, <2>1, <2>2, StageGoesOn DEF CommandInv, Given, Stages
<1> QED
  BY <1>2, <1>3, <1>4

\* The metadata of the catalog is that of the inspection.
LEMMA InspectStage == CommandInv /\ InspectAndName => CommandInv'
<1> SUFFICES ASSUME CommandInv, InspectAndName PROVE CommandInv'
  OBVIOUS
<1>1. /\ UNCHANGED <<request, checkpoint, prompt, generated>> /\ arch' = arch
      /\ pc = "inspect" /\ catalog' = NamedCatalog(arch, checkpoint)
      /\ pc' = IF catalog'.ok THEN "package" ELSE "failed"
  BY DEF InspectAndName, givenVars, GoOn
<1>2. CASE pc' = "failed"
  BY <1>1, <1>2, FailedStage
<1>3. CASE pc' # "failed"
  <2> DEFINE found == Inspect(Checkpoints[checkpoint])
  <2>1. pc' = "package" /\ catalog'.ok
    BY <1>1, <1>3
  <2>2. found.ok /\ catalog'.meta = found.meta
    BY <1>1, <2>1 DEF NamedCatalog, Named, None, Fingerprinted
  <2>3. "prefill_window" \in DOMAIN found.meta => found.meta.prefill_window \in Int
    BY <2>2, MetadataAssumption DEF CommandInv, Given
  <2> HIDE DEF found
  <2>4. MetadataRead' /\ RoomKept'
    BY <1>1, <2>1, <2>2, <2>3 DEF CommandInv, MetadataRead, RoomKept
  <2> QED
    BY <1>1, <2>1, <2>4, StageGoesOn DEF CommandInv, Given, Stages
<1> QED
  BY <1>2, <1>3

\* The package resolves the max_kv of the override.
LEMMA PackageStage == CommandInv /\ BuildArchitecture => CommandInv'
<1> SUFFICES ASSUME CommandInv, BuildArchitecture PROVE CommandInv'
  OBVIOUS
<1>1. /\ UNCHANGED <<request, checkpoint, prompt, generated>> /\ pc = "package"
      /\ package' = BuildPackage(arch, Overrides, catalog.meta,
                                 Only(catalog.meta, {"vocab_size", "context_length"}))
      /\ pc' = IF package'.ok THEN "bind" ELSE "failed"
  BY DEF BuildArchitecture, givenVars, GoOn
<1>2. CASE pc' = "failed"
  BY <1>1, <1>2, FailedStage
<1>3. CASE pc' # "failed"
  <2> DEFINE kv == prompt.maxKv
  <2>1. pc' = "bind" /\ package'.ok
    BY <1>1, <1>3
  <2>2. /\ arch \in Registered /\ kv \in 0..(U32 - 1)
        /\ "prefill_window" \in DOMAIN catalog.meta => catalog.meta["prefill_window"] \in Int
    BY <1>1 DEF CommandInv, PromptSized, MetadataRead
  <2>3. /\ "max_kv" \in DOMAIN Overrides /\ Overrides["max_kv"] = kv
        /\ "prefill_window" \in DOMAIN Overrides => Overrides["prefill_window"] \in Int
    <3>1. Req.window \in Nat
      BY RequestAssumption DEF CommandInv, Given, Req
    <3> QED
      BY <3>1 DEF Overrides
  <2> HIDE DEF kv
  <2>4. /\ "max_kv" \in DOMAIN package'.values /\ package'.values["max_kv"] = kv
        /\ "prefill_window" \in DOMAIN package'.values =>
             package'.values["prefill_window"] \in Int
    BY <1>1, <2>1, <2>2, <2>3, PackageResolves
  <2> DEFINE shape == DefaultShapeProfile(package'.values)
  <2>5. shape.prefill \in Int /\ shape.maxKv \in Int /\ shape.maxKv >= kv
    BY <2>2, <2>4, ShapeKeepsRoom
  <2>6. RoomKept'
    BY <1>1, <2>1, <2>5 DEF RoomKept, Roomy, kv
  <2>7. MetadataRead'
    BY <2>1 DEF MetadataRead
  <2> QED
    BY <1>1, <2>1, <2>6, <2>7, StageGoesOn DEF CommandInv, Given, Stages
<1> QED
  BY <1>2, <1>3

\* The binding and the dry run take the shape over; a paged model has its own window.
LEMMA BindStage == CommandInv /\ (BindSlots \/ SelectKernels) => CommandInv'
<1> SUFFICES ASSUME CommandInv, BindSlots \/ SelectKernels PROVE CommandInv'
  OBVIOUS
<1>1. UNCHANGED <<request, checkpoint, prompt, generated, package>>
  BY DEF BindSlots, SelectKernels, givenVars
<1>2. CASE pc' = "failed"
  BY <1>1, <1>2, FailedStage
<1>3. CASE pc' # "failed" /\ BindSlots
  <2>1. pc = "bind" /\ pc' = "kernels" /\ package' = package /\ prompt' = prompt
    BY <1>1, <1>3 DEF BindSlots, GoOn
  <2>2. MetadataRead' /\ RoomKept'
    BY <2>1 DEF CommandInv, MetadataRead, RoomKept, Roomy
  <2> QED
    BY <1>1, <2>1, <2>2, StageGoesOn DEF CommandInv, Given, Stages
<1>4. CASE pc' # "failed" /\ SelectKernels
  <2> DEFINE shape == DefaultShapeProfile(package.values)
  <2>1. PICK coverage :
          /\ pc = "kernels" /\ pc' = "lower" /\ prompt' = prompt
          /\ bound' = Cover(coverage)
    BY <1>1, <1>4 DEF SelectKernels, GoOn
  <2>2. shape.prefill \in Int /\ shape.maxKv \in Int /\ shape.maxKv >= prompt.maxKv
    BY <2>1 DEF CommandInv, RoomKept, Roomy
  <2> DEFINE model == BuildBoundModel(package, bindings.bindings, target.profile,
                                      SelectedKernels(coverage), shape)
  <2>3. bound' = [complete |-> IsComplete(coverage), model |-> model]
    BY <2>1 DEF Cover
  <2> HIDE DEF shape
  <2>4. /\ model.maxKv = shape.maxKv
        /\ model.seq = PagedPrefillChunkSize \/ model.seq = shape.prefill
    BY DEF BuildBoundModel
  <2> HIDE DEF model
  <2>5. model.seq \in Int
    BY <2>2, <2>4 DEF PagedPrefillChunkSize
  <2>6. DOMAIN bound' = {"complete", "model"} /\ bound'.model = model
    BY <2>3
  <2>7. MetadataRead' /\ RoomKept'
    BY <2>1, <2>2, <2>4, <2>5, <2>6 DEF MetadataRead, RoomKept, Roomy
  <2> QED
    BY <1>1, <2>1, <2>7, StageGoesOn DEF CommandInv, Given, Stages
<1> QED
  BY <1>2, <1>3, <1>4

\* The lowering's configuration is never below the bound model.
LEMMA LowerStage == CommandInv /\ LowerModel => CommandInv'
<1> SUFFICES ASSUME CommandInv, LowerModel PROVE CommandInv'
  OBVIOUS
<1> DEFINE lowered == LowerBoundModel(bound.model, Req.portable)
<1>1. /\ UNCHANGED <<request, checkpoint, prompt, generated>> /\ pc = "lower"
      /\ prompt' = prompt
      /\ bound' = Over(bound, [lowered |-> lowered])
      /\ pc' = IF bound'.lowered.ok THEN "compile" ELSE "failed"
  BY DEF LowerModel, givenVars, GoOn
<1>2. CASE pc' = "failed"
  BY <1>1, <1>2, FailedStage
<1>3. CASE pc' # "failed"
  <2>1. DOMAIN bound = {"complete", "model"} /\ Roomy(bound.model.seq, bound.model.maxKv)
    BY <1>1 DEF CommandInv, RoomKept
  <2> HIDE DEF lowered
  <2>2. bound'.lowered = lowered
    BY <1>1, <2>1 DEF Over
  <2>3. pc' = "compile" /\ lowered.ok
    BY <1>1, <1>3, <2>2
  <2>4. lowered.config = FromBoundModel(bound.model, Req.portable)
    BY <2>3 DEF lowered, LowerBoundModel, Failure
  <2>5. FromBoundModel(bound.model, Req.portable).maxKv =
          AtLeast(bound.model.maxKv, bound.model.seq)
    BY DEF FromBoundModel
  <2>6. prompt.maxKv \in Int
    BY <1>1, WidthAssumption DEF CommandInv, PromptSized
  <2>7. Roomy(0, lowered.config.maxKv)
    <3> DEFINE m == bound.model.maxKv
               w == bound.model.seq
    <3>1. m \in Int /\ w \in Int /\ m >= prompt.maxKv
      BY <2>1 DEF Roomy
    <3> HIDE DEF m, w
    <3>2. AtLeast(m, w) \in Int /\ AtLeast(m, w) >= m
      BY <3>1, AtLeastIs
    <3>3. AtLeast(m, w) >= prompt.maxKv
      BY <2>6, <3>1, <3>2
    <3> QED
      BY <2>4, <2>5, <3>2, <3>3 DEF Roomy, m, w
  <2>8. MetadataRead' /\ RoomKept'
    BY <1>1, <2>2, <2>3, <2>7 DEF MetadataRead, RoomKept, Roomy
  <2> QED
    BY <1>1, <2>3, <2>8, StageGoesOn DEF CommandInv, Given, Stages
<1> QED
  BY <1>2, <1>3

\* The manifest says what the configuration has.
LEMMA CompileStage == CommandInv /\ CompileBundle => CommandInv'
<1> SUFFICES ASSUME CommandInv, CompileBundle PROVE CommandInv'
  OBVIOUS
<1> DEFINE c == bound.lowered.config
           made == Compile(bound.model, c, catalog.schema)
<1>1. /\ UNCHANGED <<request, checkpoint, prompt, generated>> /\ pc = "compile"
      /\ prompt' = prompt
      /\ bundle' = Over(made, [config |-> c, bindings |-> bindings.bindings,
                               checkpoint |-> checkpoint, dump |-> dump])
      /\ pc' = "failed" \/ (pc' = "load" /\ bundle'.ok)
  BY DEF CompileBundle, givenVars, compileVars, GoOn
<1>2. CASE pc' = "failed"
  BY <1>1, <1>2, FailedStage
<1>3. CASE pc' # "failed"
  <2>1. pc' = "load" /\ bundle'.ok
    BY <1>1, <1>3
  <2>2. \/ made = Failure
        \/ made = [ok |-> TRUE, executables |-> Executables(c),
                   manifest |-> Manifest(bound.model, c, catalog.schema)]
    BY DEF Compile
  <2> HIDE DEF made, c
  <2>3. made # Failure
    BY <1>1, <2>1 DEF Over, Failure
  <2>4. bundle'.manifest = Manifest(bound.model, c, catalog.schema)
    BY <1>1, <2>2, <2>3 DEF Over
  <2>5. Manifest(bound.model, c, catalog.schema).kv.maxSeq = c.maxKv
    BY DEF Manifest, KvSpec
  <2>6. Roomy(0, c.maxKv)
    BY <1>1 DEF CommandInv, RoomKept, c
  <2>7. MetadataRead' /\ RoomKept'
    BY <1>1, <2>1, <2>4, <2>5, <2>6 DEF MetadataRead, RoomKept, Roomy
  <2> QED
    BY <1>1, <2>1, <2>7, StageGoesOn DEF CommandInv, Given, Stages
<1> QED
  BY <1>2, <1>3

\* The load takes the manifest as it is, from whatever checkpoint and device.
LEMMA LoadStage ==
  ASSUME CommandInv, ReplaceCheckpoint \/ ChangeDevices \/ CheckBundle \/ OpenParameters
  PROVE  CommandInv'
<1>1. /\ UNCHANGED <<request, prompt, generated>> /\ bundle' = bundle /\ prompt' = prompt
      /\ checkpoint' \in DOMAIN Checkpoints
      /\ pc \in {"load", "parameters"}
      /\ pc' = "failed" => checkpoint' = checkpoint /\ request' = request
      /\ pc' \in {"load", "parameters", "prefill", "failed"}
  BY DEF ReplaceCheckpoint, ChangeDevices, CheckBundle, OpenParameters, givenVars, compileVars,
         GoOn, CommandInv, Given
<1>2. CASE pc' = "failed"
  BY <1>1, <1>2, FailedStage
<1>3. CASE pc' # "failed"
  <2>1. MetadataRead' /\ RoomKept'
    BY <1>1, <1>3 DEF CommandInv, MetadataRead, RoomKept, Roomy
  <2> QED
    BY <1>1, <1>3, <2>1, StageGoesOn DEF Stages
<1> QED
  BY <1>2, <1>3

\* The session has room for all the prompt was sized for.
LEMMA SessionRoom ==
  ASSUME CommandInv, pc \in {"prefill", "decode"}
  PROVE  /\ SessionLimit = prompt.maxKv /\ prompt.maxKv \in Int
         /\ Len(prompt.ids) \in Nat /\ Req.new \in Nat
         /\ Len(prompt.ids) + Req.new <= SessionLimit
<1> DEFINE kv == bundle.manifest.kv.maxSeq
           m == prompt.maxKv
<1>1. kv \in Int /\ kv >= m /\ m \in Int
  BY WidthAssumption DEF CommandInv, RoomKept, Roomy, PromptSized
<1>2. SessionLimit = IF m < kv THEN m ELSE kv
  BY DEF SessionLimit
<1> HIDE DEF kv, m
<1>3. SessionLimit = m
  BY <1>1, <1>2
<1>4. prompt.ids \in Seq(Nat) /\ Len(prompt.ids) + Req.new <= m
  BY DEF CommandInv, PromptSized, m
<1>5. Len(prompt.ids) \in Nat
  BY <1>4, LenProperties
<1>6. Req.new \in Nat
  BY RequestAssumption DEF CommandInv, Given, Req
<1> QED
  BY <1>1, <1>3, <1>4, <1>5, <1>6 DEF m

\* The prompt takes its rows.
LEMMA PrefillStage == CommandInv /\ Prefill => CommandInv'
<1> SUFFICES ASSUME CommandInv, Prefill PROVE CommandInv'
  OBVIOUS
<1>1. /\ request' = request /\ checkpoint' = checkpoint /\ prompt' = prompt
      /\ bundle' = bundle /\ pc = "prefill" /\ pc' \in {"decode", "failed"}
      /\ generated' = [generated EXCEPT !.position = Len(prompt.ids)]
      /\ Req' = Req
  BY DEF Prefill, givenVars, compileVars, GoOn, Req
<1>2. CASE pc' = "failed"
  BY <1>1, <1>2, FailedStage
<1>3. CASE pc' = "decode"
  <2>1. generated = [tokens |-> <<>>, position |-> 0]
    BY <1>1 DEF CommandInv, TokensCounted
  <2>2. generated'.tokens = <<>> /\ generated'.position = Len(prompt.ids)
    BY <1>1, <2>1
  <2>3. <<>> \in Seq(Sampled) /\ Len(<<>>) = 0
    BY EmptySeq
  <2>4. 0 <= Req.new /\ Len(prompt.ids) + 0 = Len(prompt.ids)
    <3>1. Len(prompt.ids) \in Nat /\ Req.new \in Nat
      BY <1>1, SessionRoom
    <3> QED
      BY <3>1
  <2>5. TokensCounted'
    BY <1>1, <1>3, <2>2, <2>3, <2>4 DEF TokensCounted
  <2>6. Given' /\ PromptSized' /\ MetadataRead' /\ RoomKept'
    BY <1>1, <1>3
    DEF CommandInv, Given, Stages, PromptSized, MetadataRead, RoomKept, Roomy
  <2> QED
    BY <2>5, <2>6 DEF CommandInv
<1> QED
  BY <1>1, <1>2, <1>3

\* A token takes one more; the command ends.
LEMMA DecodeStage == CommandInv /\ (DecodeTurn \/ Finish) => CommandInv'
<1> SUFFICES ASSUME CommandInv, DecodeTurn \/ Finish PROVE CommandInv'
  OBVIOUS
<1>1. /\ request' = request /\ checkpoint' = checkpoint /\ prompt' = prompt
      /\ bundle' = bundle /\ pc = "decode" /\ Req' = Req
      /\ pc' \in {"decode", "done", "failed"}
  BY DEF DecodeTurn, Finish, givenVars, compileVars, GoOn, Req
<1>2. CASE pc' = "failed"
  BY <1>1, <1>2, FailedStage
<1>3. ASSUME pc' # "failed"
      PROVE  Given' /\ PromptSized' /\ MetadataRead' /\ RoomKept'
  BY <1>1, <1>3
  DEF CommandInv, Given, Stages, PromptSized, MetadataRead, RoomKept, Roomy
<1>4. CASE pc' = "done"
  BY <1>3, <1>4 DEF CommandInv, TokensCounted
<1>5. CASE pc' = "decode"
  <2>1. PICK token \in Sampled :
          /\ Len(generated.tokens) < Req.new
          /\ generated' = [tokens |-> Append(generated.tokens, token),
                           position |-> generated.position + 1]
    BY <1>5 DEF DecodeTurn, Finish
  <2> DEFINE tokens == generated.tokens
  <2>2. /\ tokens \in Seq(Sampled) /\ Len(tokens) <= Req.new
        /\ generated.position = Len(prompt.ids) + Len(tokens)
    BY <1>1 DEF CommandInv, TokensCounted
  <2>3. Append(tokens, token) \in Seq(Sampled) /\ Len(Append(tokens, token)) = Len(tokens) + 1
    BY <2>2, AppendProperties
  <2>4. Len(tokens) \in Nat /\ Len(prompt.ids) \in Nat /\ Req.new \in Nat
    BY <1>1, <2>2, LenProperties, SessionRoom
  <2>5. Len(tokens) + 1 <= Req.new /\ generated.position + 1 = Len(prompt.ids) + (Len(tokens) + 1)
    <3>1. \A a, b, n \in Nat : b < n => b + 1 <= n /\ (a + b) + 1 = a + (b + 1)
      OBVIOUS
    <3>2. Len(tokens) < Req.new
      BY <2>1
    <3> HIDE DEF tokens
    <3> QED
      BY <2>2, <2>4, <3>1, <3>2
  <2>6. TokensCounted'
    BY <1>1, <1>5, <2>1, <2>3, <2>5 DEF TokensCounted
  <2> QED
    BY <1>3, <1>5, <2>6 DEF CommandInv
<1> QED
  BY <1>1, <1>2, <1>4, <1>5

----------------------------------------------------------------------------
(* The theorems *)

\* Every stage keeps the invariant.
LEMMA NextCommand == CommandInv /\ [Next]_vars => CommandInv'
<1> SUFFICES ASSUME CommandInv, [Next]_vars PROVE CommandInv'
  OBVIOUS
<1>1. CASE UNCHANGED vars
  BY <1>1
  DEF vars, givenVars, compileVars, CommandInv, Given, PromptSized, MetadataRead, RoomKept,
      Roomy, TokensCounted, Req
<1>2. CASE Next
  BY <1>2, TokenizeStage, ResolveStage, InspectStage, PackageStage, BindStage, LowerStage,
     CompileStage, LoadStage, PrefillStage, DecodeStage
  DEF Next
<1> QED
  BY <1>1, <1>2

\* The invariant holds throughout.
THEOREM CommandInvariant == Spec => []CommandInv
<1> QED
  BY InitCommand, NextCommand, PTL DEF Spec

\* Only the prefill and the decode refuse for room, and they do not.
LEMMA RoomStep ==
  ASSUME CommandInv, [Next]_vars, pc' = "failed", pc \in {"prefill", "decode"}
  PROVE  pc = "prefill" /\ (prompt.ids = <<>> \/ ~PromptFits)
<1> USE DEF GoOn
<1>1. /\ SessionLimit = prompt.maxKv /\ prompt.maxKv \in Int
      /\ Len(prompt.ids) \in Nat /\ Req.new \in Nat
      /\ Len(prompt.ids) + Req.new <= SessionLimit
  BY SessionRoom
<1>2. Len(prompt.ids) <= SessionLimit
  BY <1>1
<1>3. Prefill \/ DecodeTurn
  BY DEF Next, vars, Tokenize, ResolveCommandArchitecture, ResolveCommandTarget, InspectAndName,
         BuildArchitecture, BindSlots, SelectKernels, LowerModel, CompileBundle,
         ReplaceCheckpoint, ChangeDevices, CheckBundle, OpenParameters, Finish
<1>4. CASE Prefill
  BY <1>2, <1>4 DEF Prefill
<1>5. CASE DecodeTurn
  <2>1. /\ pc = "decode" /\ Len(generated.tokens) < Req.new
        /\ ~(generated.position < SessionLimit)
    BY <1>5 DEF DecodeTurn
  <2>2. /\ generated.tokens \in Seq(Sampled)
        /\ generated.position = Len(prompt.ids) + Len(generated.tokens)
    BY <2>1 DEF CommandInv, TokensCounted
  <2>3. Len(generated.tokens) \in Nat
    BY <2>2, LenProperties
  <2>4. generated.position < SessionLimit
    <3>1. \A a, b, n \in Nat, limit \in Int : b < n /\ a + n <= limit => a + b < limit
      OBVIOUS
    <3>2. SessionLimit \in Int
      BY <1>1
    <3> QED
      BY <1>1, <2>1, <2>2, <2>3, <3>1, <3>2
  <2> QED
    BY <2>1, <2>4
<1> QED
  BY <1>3, <1>4, <1>5

\* A command that sized its cache has room to its last token. The size it computes from
\* the prompt goes through the overrides, the configuration's resolution and its 32 bit
\* numbers, the shape profile, the paged window, the lowering's configuration and the
\* manifest, and no stage makes it smaller.
THEOREM GenerationAlwaysFits == Spec => GenerationFits
<1>1. CommandInv /\ [Next]_vars =>
        [pc' = "failed" => /\ pc # "decode"
                           /\ pc = "prefill" => prompt.ids = <<>> \/ ~PromptFits]_vars
  BY RoomStep
<1> QED
  BY <1>1, CommandInvariant, PTL DEF Spec, GenerationFits
----------------------------------------------------------------------------
(* The typed graph, for every number of layers *)

\* An operation fits e = <<layers, key heads, head dimension, vocabulary>>: a
\* cache read is of a layer the cache has, with rows as wide as the cache's; the
\* logits are as wide as the vocabulary.
OpFits(o, e) ==
  /\ o.op = "KvCacheRead" => o.attrs[1] < e[1] /\ o.out = Kv(e[2], e[3])
  /\ o.op = "OutputProjection" => o.out = Act(e[4])
AllFit(ops, e) == \E S : ops \in Seq(S) /\ \A o \in S : OpFits(o, e)

LEMMA JoinFit ==
  ASSUME NEW e, NEW s, AllFit(s, e), NEW t, AllFit(t, e)
  PROVE  AllFit(s \o t, e)
<1>1. PICK S : s \in Seq(S) /\ \A o \in S : OpFits(o, e)
  BY DEF AllFit
<1>2. PICK T : t \in Seq(T) /\ \A o \in T : OpFits(o, e)
  BY DEF AllFit
<1>3. s \in Seq(S \cup T) /\ t \in Seq(S \cup T)
  BY <1>1, <1>2, SeqMonotonic
<1>4. s \o t \in Seq(S \cup T)
  BY <1>3, ConcatProperties
<1> QED
  BY <1>1, <1>2, <1>4 DEF AllFit

\* What each helper of the builder emits.
LEMMA OpKinds ==
  /\ \A id, x, w : RmsNorm(id, x, w).op = "RmsNorm"
  /\ \A id, x, w, width, role : Linear(id, x, w, width, role).op = "Linear"
  /\ \A id, x, w, h, d : PerHeadRmsNorm(id, x, w, h, d).op = "PerHeadRmsNorm"
  /\ \A id, x, h, d, theta : Rope(id, x, h, d, theta).op = "Rope"
  /\ \A id, x, l, part : CacheWrite(id, x, l, part).op = "KvCacheWrite"
  /\ \A id, q, k, v, s : Attention(id, q, k, v, s).op = "Attention"
  /\ \A id, x : Silu(id, x).op = "Silu"
  /\ \A id, op, x, y : Binary(id, op, x, y).op = op
  /\ \A id, x, w, l, ch, kernel : ShortConv(id, x, w, l, ch, kernel).op = "ShortConv"
  /\ \A id, x, w, hidden : Embedding(id, x, w, hidden).op = "Embedding"
  /\ \A name : InputTokens(name).op = "Input"
BY DEF RmsNorm, Linear, PerHeadRmsNorm, Rope, CacheWrite, Attention, Silu, Binary, ShortConv,
       Embedding, InputTokens, Unary, Op

LEMMA ReadsAndLogits ==
  /\ \A id, x, l, part, h, d : /\ CacheRead(id, x, l, part, h, d).op = "KvCacheRead"
                               /\ CacheRead(id, x, l, part, h, d).attrs = <<l, part>>
                               /\ CacheRead(id, x, l, part, h, d).out = Kv(h, d)
  /\ \A id, x, w, vocab : /\ OutputProjection(id, x, w, vocab).op = "OutputProjection"
                          /\ OutputProjection(id, x, w, vocab).out = Act(vocab)
BY DEF CacheRead, OutputProjection, Unary, Op

LEMMA AttentionFits ==
  ASSUME NEW x, NEW l \in Nat, NEW qkNorm, NEW s, NEW e, l < e[1],
         s.num_kv_heads = e[2], s.head_dim = e[3]
  PROVE  AllFit(AttentionSublayer(x, l, qkNorm, s), e)
<1> DEFINE id(leaf) == <<l, leaf>>
           w(leaf) == <<"blk", l, leaf>>
           kvDim == (s.num_kv_heads * s.head_dim) % U32
           norm == RmsNorm(id("attn_norm"), x, w("attn_norm"))
           q == Linear(id("attn_q"), norm, w("attn_q"), (s.num_heads * s.head_dim) % U32,
                       "AttentionQ")
           k == Linear(id("attn_k"), norm, w("attn_k"), kvDim, "AttentionK")
           v == Linear(id("attn_v"), norm, w("attn_v"), kvDim, "AttentionV")
           qn == PerHeadRmsNorm(id("attn_q_norm"), q, w("attn_q_norm"), s.num_heads, s.head_dim)
           kn == PerHeadRmsNorm(id("attn_k_norm"), k, w("attn_k_norm"), s.num_kv_heads,
                                s.head_dim)
           q1 == IF qkNorm THEN qn ELSE q
           k1 == IF qkNorm THEN kn ELSE k
           qr == Rope(id("attn_q_rope"), q1, s.num_heads, s.head_dim, s.rope_theta)
           kr == Rope(id("attn_k_rope"), k1, s.num_kv_heads, s.head_dim, s.rope_theta)
           q2 == IF s.rope_theta >= 0 THEN qr ELSE q1
           k2 == IF s.rope_theta >= 0 THEN kr ELSE k1
           kc == CacheRead(id("key_cache_read"), k2, l, Key, s.num_kv_heads, s.head_dim)
           vc == CacheRead(id("value_cache_read"), v, l, Value, s.num_kv_heads, s.head_dim)
           att == Attention(id("attention"), q2, kc, vc, s)
           out == Linear(id("attn_output"), att, w("attn_output"), s.hidden_size, "AttentionO")
           kw == CacheWrite(id("key_cache_write"), k2, l, Key)
           vw == CacheWrite(id("value_cache_write"), v, l, Value)
           res == Binary(id("attn_residual"), "Residual", x, out)
           S == {norm, q, k, v, qn, kn, qr, kr, kw, vw, kc, vc, att, out, res}
<1>1. AttentionSublayer(x, l, qkNorm, s) =
        <<norm, q, k, v>> \o (IF qkNorm THEN <<qn, kn>> ELSE <<>>)
          \o (IF s.rope_theta >= 0 THEN <<qr, kr>> ELSE <<>>)
          \o <<kw, vw, kc, vc, att, out, res>>
  BY DEF AttentionSublayer
<1>2. /\ norm.op = "RmsNorm" /\ q.op = "Linear" /\ k.op = "Linear" /\ v.op = "Linear"
      /\ qn.op = "PerHeadRmsNorm" /\ kn.op = "PerHeadRmsNorm" /\ qr.op = "Rope"
      /\ kr.op = "Rope" /\ kw.op = "KvCacheWrite" /\ vw.op = "KvCacheWrite"
      /\ att.op = "Attention" /\ out.op = "Linear" /\ res.op = "Residual"
  BY OpKinds
<1>3. /\ kc.op = "KvCacheRead" /\ kc.attrs[1] = l /\ kc.out = Kv(e[2], e[3])
      /\ vc.op = "KvCacheRead" /\ vc.attrs[1] = l /\ vc.out = Kv(e[2], e[3])
  BY ReadsAndLogits
<1> HIDE DEF norm, q, k, v, qn, kn, qr, kr, kc, vc, att, out, kw, vw, res
<1>4. \A o \in S : OpFits(o, e)
  BY <1>2, <1>3 DEF OpFits
<1>5. /\ <<norm, q, k, v>> \in Seq(S) /\ <<qn, kn>> \in Seq(S) /\ <<>> \in Seq(S)
      /\ <<qr, kr>> \in Seq(S) /\ <<kw, vw, kc, vc, att, out, res>> \in Seq(S)
  OBVIOUS
<1> HIDE DEF S
<1>6. AttentionSublayer(x, l, qkNorm, s) \in Seq(S)
  BY <1>1, <1>5, ConcatProperties
<1> QED
  BY <1>4, <1>6 DEF AllFit

LEMMA ShortConvFits ==
  ASSUME NEW x, NEW l, NEW s, NEW e
  PROVE  AllFit(ShortConvSublayer(x, l, s), e)
<1> DEFINE id(leaf) == <<l, leaf>>
           w(leaf) == <<"blk", l, leaf>>
           norm == RmsNorm(id("attn_norm"), x, w("attn_norm"))
           gates == Linear(id("shortconv_in"), norm, w("shortconv.in_proj"),
                           (3 * s.channels) % U32, "Other")
           mixed == ShortConv(id("shortconv"), gates, w("shortconv.conv"), l, s.channels,
                              s.kernel_size)
           out == Linear(id("shortconv_out"), mixed, w("shortconv.out_proj"), s.hidden_size,
                         "Other")
           res == Binary(id("shortconv_residual"), "Residual", x, out)
           S == {norm, gates, mixed, out, res}
<1>1. ShortConvSublayer(x, l, s) = <<norm, gates, mixed, out, res>>
  BY DEF ShortConvSublayer
<1>2. /\ norm.op = "RmsNorm" /\ gates.op = "Linear" /\ mixed.op = "ShortConv"
      /\ out.op = "Linear" /\ res.op = "Residual"
  BY OpKinds
<1> HIDE DEF norm, gates, mixed, out, res
<1>3. \A o \in S : OpFits(o, e)
  BY <1>2 DEF OpFits
<1>4. ShortConvSublayer(x, l, s) \in Seq(S)
  BY <1>1
<1> QED
  BY <1>3, <1>4 DEF AllFit

LEMMA FeedForwardFits ==
  ASSUME NEW x, NEW l, NEW s, NEW e
  PROVE  AllFit(FeedForwardSublayer(x, l, s), e)
<1> DEFINE id(leaf) == <<l, leaf>>
           w(leaf) == <<"blk", l, leaf>>
           norm == RmsNorm(id("ffn_norm"), x, w("ffn_norm"))
           gate == Linear(id("ffn_gate"), norm, w("ffn_gate"), s.intermediate_size, "FfnGate")
           up == Linear(id("ffn_up"), norm, w("ffn_up"), s.intermediate_size, "FfnUp")
           act == Silu(id("ffn_silu"), gate)
           mul == Binary(id("ffn_multiply"), "Multiply", act, up)
           down == Linear(id("ffn_down"), mul, w("ffn_down"), s.hidden_size, "FfnDown")
           res == Binary(id("ffn_residual"), "Residual", x, down)
           S == {norm, gate, up, act, mul, down, res}
<1>1. FeedForwardSublayer(x, l, s) = <<norm, gate, up, act, mul, down, res>>
  BY DEF FeedForwardSublayer
<1>2. /\ norm.op = "RmsNorm" /\ gate.op = "Linear" /\ up.op = "Linear" /\ act.op = "Silu"
      /\ mul.op = "Multiply" /\ down.op = "Linear" /\ res.op = "Residual"
  BY OpKinds
<1> HIDE DEF norm, gate, up, act, mul, down, res
<1>3. \A o \in S : OpFits(o, e)
  BY <1>2 DEF OpFits
<1>4. FeedForwardSublayer(x, l, s) \in Seq(S)
  BY <1>1
<1> QED
  BY <1>3, <1>4 DEF AllFit

\* The layers are built one after the other, each on the operations before it.
LEMMA LayersSteps ==
  ASSUME NEW a, NEW values, NEW kinds, NEW first, Len(kinds) \in Nat
  PROVE  LET body == DecoderLayers(a, values, kinds, first)
         IN /\ body[0] = first
            /\ \A n \in 1..Len(kinds) :
                 body[n] = DecoderLayer(a, values, kinds[n], n - 1, body[n - 1])
<1> DEFINE IsRun(f, m) ==
             f = [n \in 0..m |-> IF n = 0 THEN first
                                 ELSE DecoderLayer(a, values, kinds[n], n - 1, f[n - 1])]
<1>1. \A m \in Nat : \E f : IsRun(f, m)
  <2> DEFINE Bad == {m \in Nat : ~\E f : IsRun(f, m)}
  <2> SUFFICES ASSUME Bad # {} PROVE FALSE
    OBVIOUS
  <2>0. Bad \subseteq Nat
    OBVIOUS
  <2> HIDE DEF Bad
  <2>1. PICK m \in Bad : \A k \in Bad : m <= k
    BY <2>0, LeastNatural
  <2>2. CASE m = 0
    <3> USE DEF Bad
    <3>1. IsRun([n \in 0..m |-> first], m)
      BY <2>2
    <3> QED
      BY <3>1, <2>1
  <2>3. CASE m # 0
    <3>1. m - 1 \in Nat /\ m - 1 \notin Bad
      BY <2>0, <2>1, <2>3
    <3> USE DEF Bad
    <3>2. PICK f : IsRun(f, m - 1)
      BY <3>1
    <3> DEFINE g == [n \in 0..m |-> IF n = m THEN DecoderLayer(a, values, kinds[m], m - 1, f[m - 1])
                                    ELSE f[n]]
    <3>3. ASSUME NEW n \in 0..m
          PROVE  g[n] = IF n = 0 THEN first
                        ELSE DecoderLayer(a, values, kinds[n], n - 1, g[n - 1])
      <4>1. CASE n = m
        BY <4>1, <2>3, <3>1
      <4>2. CASE n # m
        <5>1. n \in 0..(m - 1) /\ g[n] = f[n]
          BY <4>2, <3>1
        <5>2. f[n] = IF n = 0 THEN first ELSE DecoderLayer(a, values, kinds[n], n - 1, f[n - 1])
          BY <3>2, <5>1
        <5>3. n # 0 => g[n - 1] = f[n - 1]
          BY <5>1, <3>1
        <5> QED
          BY <5>1, <5>2, <5>3
      <4> QED
        BY <4>1, <4>2
    <3>4. IsRun(g, m)
      BY <3>3
    <3> QED
      BY <3>4, <2>1
  <2> QED
    BY <2>2, <2>3
<1>2. IsRun(DecoderLayers(a, values, kinds, first), Len(kinds))
  <2>1. PICK f : IsRun(f, Len(kinds))
    BY <1>1
  <2>2. DecoderLayers(a, values, kinds, first) = CHOOSE h : IsRun(h, Len(kinds))
    BY DEF DecoderLayers, Steps
  <2> QED
    BY <2>1, <2>2
<1> QED
  BY <1>2

\* Every layer of the schedule fits, so all of them do.
LEMMA LayersFit ==
  ASSUME NEW a, NEW values, NEW kinds, NEW first, NEW e, Len(kinds) \in Nat, e[1] = Len(kinds),
         e[2] = GetU32(values, "num_kv_heads"), e[3] = GetU32(values, "head_dim"),
         AllFit(first, e)
  PROVE  AllFit(DecoderLayers(a, values, kinds, first)[Len(kinds)], e)
<1> DEFINE body(n) == DecoderLayers(a, values, kinds, first)[n]
           Good(n) == AllFit(body(n), e)
           Bad == {n \in 0..Len(kinds) : ~Good(n)}
<1>1. /\ body(0) = first
      /\ \A n \in 1..Len(kinds) : body(n) = DecoderLayer(a, values, kinds[n], n - 1, body(n - 1))
  BY LayersSteps
<1> HIDE DEF body
<1>2. BlockSpec(values).num_kv_heads = e[2] /\ BlockSpec(values).head_dim = e[3]
  BY DEF BlockSpec
<1>3. ASSUME NEW n \in 1..Len(kinds), Good(n - 1)
      PROVE  Good(n)
  <2> DEFINE ops == body(n - 1)
             mixer == IF kinds[n] = "conv"
                      THEN ShortConvSublayer(Last(ops), n - 1, ConvSpec(values))
                      ELSE AttentionSublayer(Last(ops), n - 1, UsesQkNorm(a), BlockSpec(values))
             ffn == FeedForwardSublayer(Last(mixer), n - 1, BlockSpec(values))
  <2>1. body(n) = (ops \o mixer) \o ffn
    BY <1>1 DEF DecoderLayer
  <2>2. n - 1 \in Nat /\ n - 1 < e[1]
    OBVIOUS
  <2>3. AllFit(mixer, e)
    <3>1. AllFit(ShortConvSublayer(Last(ops), n - 1, ConvSpec(values)), e)
      BY ShortConvFits
    <3>2. AllFit(AttentionSublayer(Last(ops), n - 1, UsesQkNorm(a), BlockSpec(values)), e)
      BY <1>2, <2>2, AttentionFits
    <3> QED
      BY <3>1, <3>2
  <2>4. AllFit(ffn, e)
    BY FeedForwardFits
  <2> HIDE DEF mixer, ffn
  <2> QED
    BY <1>3, <2>1, <2>3, <2>4, JoinFit
<1>4. Good(0)
  BY <1>1
<1> HIDE DEF Good
<1>5. Bad = {}
  <2> SUFFICES ASSUME Bad # {} PROVE FALSE
    OBVIOUS
  <2>1. Bad \subseteq Nat
    OBVIOUS
  <2> HIDE DEF Bad
  <2>2. PICK n \in Bad : \A k \in Bad : n <= k
    BY <2>1, LeastNatural
  <2>3. n # 0 /\ n - 1 \in 0..Len(kinds) /\ n - 1 \notin Bad
    BY <1>4, <2>1, <2>2 DEF Bad
  <2>4. Good(n - 1) /\ n \in 1..Len(kinds)
    BY <2>2, <2>3 DEF Bad
  <2> QED
    BY <1>3, <2>2, <2>4 DEF Bad
<1>6. Good(Len(kinds))
  BY <1>5
<1> QED
  BY <1>6 DEF Good, body

\* A schedule names every layer.
LEMMA ScheduleLength ==
  ASSUME NEW a, NEW values, GetU32(values, "num_layers") \in Nat, LayerSchedule(a, values).ok
  PROVE  Len(LayerSchedule(a, values).kinds) = GetU32(values, "num_layers")
<1> DEFINE n == GetU32(values, "num_layers")
           attention == [i \in 1..n |-> "full_attention"]
<1>1. n \in Nat
  OBVIOUS
<1> HIDE DEF n
<1>2. Len(attention) = n
  BY <1>1
<1>3. CASE a # "lfm2.hybrid"
  BY <1>2, <1>3 DEF LayerSchedule, n
<1>4. CASE a = "lfm2.hybrid"
  BY <1>4 DEF LayerSchedule, Err
<1> QED
  BY <1>3, <1>4

\* The graph of a configuration fits its dimensions.
LEMMA BuildFits ==
  ASSUME NEW a, NEW values, GetU32(values, "num_layers") \in Nat, Build(a, values).ok
  PROVE  /\ HasU32(values, {"num_layers", "num_kv_heads", "head_dim", "vocab_size"})
         /\ Build(a, values).arch = a
         /\ AllFit(Build(a, values).ops,
                   <<GetU32(values, "num_layers"), GetU32(values, "num_kv_heads"),
                     GetU32(values, "head_dim"), GetU32(values, "vocab_size")>>)
<1> DEFINE e == <<GetU32(values, "num_layers"), GetU32(values, "num_kv_heads"),
                  GetU32(values, "head_dim"), GetU32(values, "vocab_size")>>
           schedule == LayerSchedule(a, values)
           tokens == InputTokens("tokens")
           embed == Embedding(<<-1, "token_embedding">>, tokens, <<"blk", -1, "token_embd">>,
                              BlockSpec(values).hidden_size)
           body == DecoderLayers(a, values, schedule.kinds, <<tokens, embed>>)[Len(schedule.kinds)]
           norm == RmsNorm(<<-1, "output_norm">>, Last(body), <<"blk", -1, "output_norm">>)
           logits == OutputProjection(<<-1, "output_projection">>, norm, <<"blk", -1, "output">>,
                                      GetU32(values, "vocab_size"))
<1>1. /\ Build(a, values).ops = body \o <<norm, logits>> /\ Build(a, values).arch = a
      /\ HasU32(values, {"num_layers", "hidden_size", "vocab_size", "intermediate_size",
                         "num_heads", "num_kv_heads", "head_dim"})
      /\ schedule.ok
  BY DEF Build, Err
<1>2. Len(schedule.kinds) \in Nat /\ Len(schedule.kinds) = e[1]
  BY <1>1, ScheduleLength
<1>3. /\ tokens.op = "Input" /\ embed.op = "Embedding" /\ norm.op = "RmsNorm"
      /\ logits.op = "OutputProjection" /\ logits.out = Act(e[4])
  BY OpKinds, ReadsAndLogits
<1>4. e[2] = GetU32(values, "num_kv_heads") /\ e[3] = GetU32(values, "head_dim")
  OBVIOUS
<1> HIDE DEF e, schedule, tokens, embed, norm, logits
<1>5. AllFit(<<tokens, embed>>, e)
  <2>1. PICK S : S = {tokens, embed}
    OBVIOUS
  <2>2. <<tokens, embed>> \in Seq(S) /\ \A o \in S : OpFits(o, e)
    BY <1>3, <2>1 DEF OpFits
  <2> QED
    BY <2>2 DEF AllFit
<1>6. AllFit(<<norm, logits>>, e)
  <2>1. PICK S : S = {norm, logits}
    OBVIOUS
  <2>2. <<norm, logits>> \in Seq(S) /\ \A o \in S : OpFits(o, e)
    BY <1>3, <2>1 DEF OpFits
  <2> QED
    BY <2>2 DEF AllFit
<1>7. AllFit(body, e)
  BY <1>2, <1>4, <1>5, LayersFit
<1> HIDE DEF body
<1>8. AllFit(body \o <<norm, logits>>, e)
  BY <1>6, <1>7, JoinFit
<1>9. HasU32(values, {"num_layers", "num_kv_heads", "head_dim", "vocab_size"})
  BY <1>1 DEF HasU32
<1> QED
  BY <1>1, <1>8, <1>9 DEF e

\* What the session takes from the manifest, and the vocabulary.
Expected(values, vocab) ==
  <<GetOr(values, "num_layers", 1), GetOr(values, "num_kv_heads", 1),
    GetOr(values, "head_dim", 64), vocab>>

\* The package of a checkpoint fits its configuration; an override changes neither
\* the layers nor the vocabulary.
LEMMA PackageFits ==
  ASSUME NEW a \in Registered, NEW overrides, NEW meta,
         {"num_layers", "vocab_size"} \cap DOMAIN overrides = {},
         "num_layers" \in DOMAIN meta => meta["num_layers"] \in Int,
         NEW config, config = BuildPackage(a, overrides, meta,
                                           Only(meta, {"vocab_size", "context_length"})),
         config.ok
  PROVE  /\ config.graph.arch = a /\ ConfiguredVocabulary(a, meta) >= 0
         /\ AllFit(config.graph.ops,
                   Expected(config.values, ConfiguredVocabulary(a, meta) % U32))
<1> DEFINE dotted == Only(meta, {"vocab_size", "context_length"})
           given == Over(overrides, Over(meta, dotted))
           v == Only(Over(given, SchemaDefaults(a)), SchemaFields(a))
           values == config.values
<1>1. /\ values = Resolve(a, overrides, meta, dotted).values
      /\ Resolve(a, overrides, meta, dotted).ok
      /\ config.graph = Build(a, values) /\ Build(a, values).ok
  BY DEF BuildPackage, Err
<1>2. \/ values = v
      \/ values = [v EXCEPT !.head_dim = v.hidden_size \div v.num_heads]
  BY <1>1 DEF Resolve, Err
<1>3. /\ "num_layers" \in DOMAIN SchemaDefaults(a) /\ SchemaDefaults(a)["num_layers"] \in Int
      /\ "vocab_size" \in DOMAIN SchemaDefaults(a)
      /\ {"num_layers", "vocab_size"} \subseteq SchemaFields(a)
  BY DEF SchemaDefaults, SchemaFields, DecoderDefaults, Over, Registered
<1>4. /\ "num_layers" \in DOMAIN given => given["num_layers"] \in Int
      /\ "vocab_size" \in DOMAIN given <=> "vocab_size" \in DOMAIN meta
      /\ "vocab_size" \in DOMAIN meta => given["vocab_size"] = meta["vocab_size"]
  BY DEF Over, Only
<1> HIDE DEF given
<1>5. /\ {"num_layers", "vocab_size"} \subseteq DOMAIN v /\ v["num_layers"] \in Int
      /\ v["vocab_size"] = ConfiguredVocabulary(a, meta)
  BY <1>3, <1>4 DEF Over, Only, ConfiguredVocabulary
<1>6. v = [x \in DOMAIN v |-> v[x]]
  BY DEF Only
<1> HIDE DEF v, values
<1>7. values["num_layers"] \in Int /\ values["vocab_size"] = ConfiguredVocabulary(a, meta)
  BY <1>2, <1>5, <1>6
<1>8. GetU32(values, "num_layers") \in Nat
  BY <1>7, WidthAssumption DEF GetU32
<1>9. /\ HasU32(values, {"num_layers", "num_kv_heads", "head_dim", "vocab_size"})
      /\ Build(a, values).arch = a
      /\ AllFit(Build(a, values).ops,
                <<GetU32(values, "num_layers"), GetU32(values, "num_kv_heads"),
                  GetU32(values, "head_dim"), GetU32(values, "vocab_size")>>)
  BY <1>1, <1>8, BuildFits
<1>10. <<GetU32(values, "num_layers"), GetU32(values, "num_kv_heads"),
         GetU32(values, "head_dim"), GetU32(values, "vocab_size")>> =
       Expected(values, ConfiguredVocabulary(a, meta) % U32)
  <2>1. GetU32(values, "vocab_size") = ConfiguredVocabulary(a, meta) % U32
    BY <1>7 DEF GetU32
  <2>2. /\ GetOr(values, "num_layers", 1) = GetU32(values, "num_layers")
        /\ GetOr(values, "num_kv_heads", 1) = GetU32(values, "num_kv_heads")
        /\ GetOr(values, "head_dim", 64) = GetU32(values, "head_dim")
    BY <1>9 DEF GetOr, HasU32
  <2> QED
    BY <2>1, <2>2 DEF Expected
<1>11. ConfiguredVocabulary(a, meta) >= 0
  BY <1>7, <1>9 DEF HasU32
<1> QED
  BY <1>1, <1>9, <1>10, <1>11 DEF values

----------------------------------------------------------------------------
(* The vocabulary of two checkpoints of one schema *)

\* The parameters of one digest have the same names and shapes.
LEMMA SchemaNames ==
  ASSUME NEW p1, NEW p2, SchemaFingerprint(p1) = SchemaFingerprint(p2), NEW i \in DOMAIN p1
  PROVE  \E j \in DOMAIN p2 : p2[j].name = p1[i].name /\ p2[j].shape = p1[i].shape
<1>1. {FingerprintEntry(p1, p1[k]) : k \in DOMAIN p1} =
        {FingerprintEntry(p2, p2[k]) : k \in DOMAIN p2}
  <2>1. /\ SchemaFingerprint(p1).entries = {FingerprintEntry(p1, p1[k]) : k \in DOMAIN p1}
        /\ SchemaFingerprint(p2).entries = {FingerprintEntry(p2, p2[k]) : k \in DOMAIN p2}
    BY DEF SchemaFingerprint
  <2> QED
    BY <2>1
<1>2. PICK j \in DOMAIN p2 : FingerprintEntry(p2, p2[j]) = FingerprintEntry(p1, p1[i])
  BY <1>1
<1>3. \A ps, p : /\ FingerprintEntry(ps, p).name = p.name
                 /\ FingerprintEntry(ps, p).shape = p.shape
  BY DEF FingerprintEntry
<1> QED
  BY <1>2, <1>3

\* So a session over either has the vocabulary the graph was compiled for.
LEMMA SameVocabulary ==
  ASSUME NEW id, NEW f1, NEW f2, Describes(id, f1), Describes(id, f2),
         SchemaFingerprint(f1.params) = SchemaFingerprint(f2.params),
         ConfiguredVocabulary(id, f1.meta) >= 0
  PROVE  LoadedVocabulary(f2) = ConfiguredVocabulary(id, f1.meta) % U32
<1> DEFINE v1 == ConfiguredVocabulary(id, f1.meta)
           v2 == ConfiguredVocabulary(id, f2.meta)
           named == {i \in DOMAIN f2.params : f2.params[i].name \in PerToken}
<1>1. PICK i \in DOMAIN f1.params :
        f1.params[i].name = <<"blk", -1, "token_embd">> /\ f1.params[i].shape[1] = v1
  BY DEF Describes, PerToken
<1>2. PICK j \in DOMAIN f2.params :
        f2.params[j].name = f1.params[i].name /\ f2.params[j].shape = f1.params[i].shape
  <2> DEFINE p1 == f1.params
             p2 == f2.params
  <2>1. SchemaFingerprint(p1) = SchemaFingerprint(p2) /\ i \in DOMAIN p1
    BY <1>1
  <2> HIDE DEF p1, p2
  <2>2. \E j \in DOMAIN p2 : p2[j].name = p1[i].name /\ p2[j].shape = p1[i].shape
    BY <2>1, SchemaNames
  <2> QED
    BY <2>2 DEF p1, p2
<1>3. j \in named /\ f2.params[j].shape[1] = v2
  BY <1>1, <1>2 DEF Describes, PerToken
<1>4. v1 = v2
  BY <1>1, <1>2, <1>3
<1>5. CASE HasU32(f2.meta, {"vocab_size"})
  <2>1. f2.meta.vocab_size = v2
    BY <1>5 DEF HasU32, ConfiguredVocabulary, Over
  <2> QED
    BY <1>4, <1>5, <2>1 DEF LoadedVocabulary
<1>6. CASE ~HasU32(f2.meta, {"vocab_size"})
  <2>1. named \subseteq Nat /\ named # {}
    BY <1>3 DEF Describes
  <2>2. LoadedVocabulary(f2) = f2.params[Min(named)].shape[1] % U32
    BY <1>6, <2>1 DEF LoadedVocabulary
  <2>3. \A m \in named : f2.params[m].shape[1] = v2
    BY DEF Describes
  <2> HIDE DEF named
  <2>4. \E x \in named : \A y \in named : x <= y
    BY <2>1, LeastNatural
  <2>5. Min(named) \in named
    BY <2>4 DEF Min
  <2> QED
    BY <1>4, <2>2, <2>3, <2>5
<1> QED
  BY <1>5, <1>6

----------------------------------------------------------------------------
(* From the graph to the session *)

Compiling == {"bind", "kernels", "lower", "compile"}
Bundled == {"load", "parameters", "prefill", "decode", "done"}

\* The package is that of checkpoint k.
GraphOf(k) ==
  LET found == NamedCatalog(arch, k)
      vocab == ConfiguredVocabulary(arch, found.meta)
  IN /\ arch \in Registered /\ k \in DOMAIN Checkpoints /\ found.ok
     /\ package.graph.arch = arch /\ vocab >= 0
     /\ AllFit(package.graph.ops, Expected(package.values, vocab % U32))

CompileKeeps ==
  /\ pc \in {"package"} \cup Compiling =>
       arch \in Registered /\ catalog = NamedCatalog(arch, checkpoint) /\ catalog.ok
  /\ pc \in Compiling => GraphOf(checkpoint)
  /\ pc \in {"lower", "compile"} =>
       bound.model.graph = package.graph /\ bound.model.values = package.values

\* The manifest has the architecture, the digest and the cache of that package.
BundleKeeps ==
  pc \in Bundled =>
    /\ GraphOf(bundle.checkpoint) /\ bundle.manifest.arch = arch
    /\ bundle.manifest.schema = NamedCatalog(arch, bundle.checkpoint).schema
    /\ bundle.manifest.kv.layers = GetOr(package.values, "num_layers", 1)
    /\ bundle.manifest.kv.heads = GetOr(package.values, "num_kv_heads", 1)
    /\ bundle.manifest.kv.dim = GetOr(package.values, "head_dim", 64)

\* What was loaded has the digest of the manifest.
SameSchema(k) ==
  /\ k \in DOMAIN Checkpoints /\ NamedCatalog(arch, k).ok
  /\ NamedCatalog(arch, k).schema = bundle.manifest.schema
LoadKeeps ==
  /\ pc = "parameters" => SameSchema(checkpoint) /\ loaded.catalog = NamedCatalog(arch, checkpoint)
  /\ Running => /\ SameSchema(loaded.checkpoint)
                /\ loaded.vocab = LoadedVocabulary(NamedCatalog(arch, loaded.checkpoint))

GraphInv == CompileKeeps /\ BundleKeeps /\ LoadKeeps

\* What a catalogue under an architecture's names has of the inspection.
LEMMA NamedCatalogIs ==
  ASSUME NEW a, NEW k, NamedCatalog(a, k).ok
  PROVE  /\ Inspect(Checkpoints[k]).ok
         /\ NamedCatalog(a, k).meta = Inspect(Checkpoints[k]).meta
         /\ NamedCatalog(a, k).schema = SchemaFingerprint(NamedCatalog(a, k).params)
BY DEF NamedCatalog, Named, None, Fingerprinted

\* A stage before the package, or a failure, has nothing to keep.
LEMMA NothingKept ==
  ASSUME pc' \notin {"package"} \cup Compiling \cup Bundled
  PROVE  GraphInv'
BY DEF GraphInv, CompileKeeps, BundleKeeps, LoadKeeps, Running, Bundled, Compiling

LEMMA GraphInspect ==
  ASSUME CommandInv, GraphInv, InspectAndName
  PROVE  GraphInv'
<1>1. /\ pc = "inspect" /\ catalog' = NamedCatalog(arch, checkpoint) /\ arch' = arch
      /\ checkpoint' = checkpoint /\ pc' = IF catalog'.ok THEN "package" ELSE "failed"
  BY DEF InspectAndName, givenVars, GoOn
<1>2. arch \in Registered
  BY <1>1 DEF CommandInv, MetadataRead
<1> QED
  BY <1>1, <1>2 DEF GraphInv, CompileKeeps, BundleKeeps, LoadKeeps, Running, Bundled, Compiling

LEMMA GraphPackage ==
  ASSUME CommandInv, GraphInv, BuildArchitecture
  PROVE  GraphInv'
<1>1. /\ pc = "package" /\ arch' = arch /\ catalog' = catalog /\ checkpoint' = checkpoint
      /\ package' = BuildPackage(arch, Overrides, catalog.meta,
                                 Only(catalog.meta, {"vocab_size", "context_length"}))
      /\ pc' = IF package'.ok THEN "bind" ELSE "failed"
  BY DEF BuildArchitecture, givenVars, GoOn
<1>2. CASE pc' = "failed"
  BY <1>2, NothingKept DEF Compiling, Bundled
<1>3. CASE pc' # "failed"
  <2>1. pc' = "bind" /\ package'.ok
    BY <1>1, <1>3
  <2>2. /\ arch \in Registered /\ catalog = NamedCatalog(arch, checkpoint) /\ catalog.ok
        /\ checkpoint \in DOMAIN Checkpoints
    BY <1>1 DEF GraphInv, CompileKeeps, CommandInv, Given
  <2>3. "num_layers" \in DOMAIN catalog.meta => catalog.meta["num_layers"] \in Int
    <3>1. /\ Inspect(Checkpoints[checkpoint]).ok
          /\ catalog.meta = Inspect(Checkpoints[checkpoint]).meta
      BY <2>2, NamedCatalogIs
    <3> QED
      BY <2>2, <3>1, MetadataAssumption
  <2>4. {"num_layers", "vocab_size"} \cap DOMAIN Overrides = {}
    BY DEF Overrides
  <2>5. /\ package'.graph.arch = arch /\ ConfiguredVocabulary(arch, catalog.meta) >= 0
        /\ AllFit(package'.graph.ops,
                  Expected(package'.values, ConfiguredVocabulary(arch, catalog.meta) % U32))
    BY <1>1, <2>1, <2>2, <2>3, <2>4, PackageFits
  <2>6. GraphOf(checkpoint)'
    BY <1>1, <2>2, <2>5 DEF GraphOf
  <2> QED
    BY <1>1, <2>1, <2>2, <2>6
    DEF GraphInv, CompileKeeps, BundleKeeps, LoadKeeps, Running, Bundled, Compiling
<1> QED
  BY <1>2, <1>3

LEMMA GraphBound ==
  ASSUME CommandInv, GraphInv, BindSlots \/ SelectKernels \/ LowerModel
  PROVE  GraphInv'
<1>1. /\ arch' = arch /\ catalog' = catalog /\ checkpoint' = checkpoint /\ package' = package
      /\ pc \in Compiling
  BY DEF BindSlots, SelectKernels, LowerModel, givenVars, Compiling
<1>2. CASE pc' = "failed"
  BY <1>2, NothingKept DEF Compiling, Bundled
<1>3. CASE pc' # "failed"
  <2>1. pc' \in Compiling
    BY <1>3 DEF BindSlots, SelectKernels, LowerModel, GoOn, Compiling
  <2>2. GraphOf(checkpoint)'
    BY <1>1 DEF GraphInv, CompileKeeps, GraphOf
  <2>3. pc' \in {"lower", "compile"} =>
          bound'.model.graph = package.graph /\ bound'.model.values = package.values
    <3>1. CASE BindSlots
      BY <1>3, <3>1 DEF BindSlots, GoOn
    <3>2. CASE SelectKernels
      <4>1. PICK coverage : bound' = Cover(coverage)
        BY <3>2 DEF SelectKernels
      <4>2. bound'.model = BuildBoundModel(package, bindings.bindings, target.profile,
                             SelectedKernels(coverage), DefaultShapeProfile(package.values))
        BY <4>1 DEF Cover
      <4> QED
        BY <4>2 DEF BuildBoundModel
    <3>3. CASE LowerModel
      <4>1. DOMAIN bound = {"complete", "model"} /\ pc = "lower"
        BY <3>3 DEF LowerModel, CommandInv, RoomKept
      <4>2. bound'.model = bound.model
        BY <3>3, <4>1 DEF LowerModel, Over
      <4> QED
        BY <4>1, <4>2 DEF GraphInv, CompileKeeps
    <3> QED
      BY <3>1, <3>2, <3>3
  <2>4. CompileKeeps'
    BY <1>1, <2>1, <2>2, <2>3 DEF GraphInv, CompileKeeps
  <2> QED
    BY <2>1, <2>4 DEF GraphInv, BundleKeeps, LoadKeeps, Running, Bundled, Compiling
<1> QED
  BY <1>2, <1>3

LEMMA GraphCompiled ==
  ASSUME CommandInv, GraphInv, CompileBundle
  PROVE  GraphInv'
<1> DEFINE c == bound.lowered.config
           made == Compile(bound.model, c, catalog.schema)
<1>1. /\ arch' = arch /\ package' = package /\ pc = "compile"
      /\ bundle' = Over(made, [config |-> c, bindings |-> bindings.bindings,
                               checkpoint |-> checkpoint, dump |-> dump])
      /\ pc' = "failed" \/ (pc' = "load" /\ bundle'.ok)
  BY DEF CompileBundle, compileVars, GoOn
<1>2. CASE pc' = "failed"
  BY <1>2, NothingKept DEF Compiling, Bundled
<1>3. CASE pc' # "failed"
  <2>1. pc' = "load" /\ bundle'.ok
    BY <1>1, <1>3
  <2>2. \/ made = Failure
        \/ made = [ok |-> TRUE, executables |-> Executables(c),
                   manifest |-> Manifest(bound.model, c, catalog.schema)]
    BY DEF Compile
  <2> HIDE DEF made, c
  <2>3. made # Failure
    BY <1>1, <2>1 DEF Over, Failure
  <2>4. /\ bundle'.manifest = Manifest(bound.model, c, catalog.schema)
        /\ bundle'.checkpoint = checkpoint
    BY <1>1, <2>2, <2>3 DEF Over
  <2>5. /\ bundle'.manifest.arch = bound.model.graph.arch
        /\ bundle'.manifest.schema = catalog.schema
        /\ bundle'.manifest.kv = KvSpec(bound.model, c)
    BY <2>4 DEF Manifest
  <2>6. /\ KvSpec(bound.model, c).layers = GetOr(bound.model.values, "num_layers", 1)
        /\ KvSpec(bound.model, c).heads = GetOr(bound.model.values, "num_kv_heads", 1)
        /\ KvSpec(bound.model, c).dim = GetOr(bound.model.values, "head_dim", 64)
    BY DEF KvSpec
  <2>7. /\ GraphOf(checkpoint) /\ catalog = NamedCatalog(arch, checkpoint)
        /\ bound.model.graph = package.graph /\ bound.model.values = package.values
    BY <1>1 DEF GraphInv, CompileKeeps, Compiling
  <2>8. GraphOf(bundle.checkpoint)'
    BY <1>1, <2>4, <2>7 DEF GraphOf
  <2>9. BundleKeeps'
    BY <1>1, <2>5, <2>6, <2>7, <2>4, <2>8 DEF BundleKeeps, GraphOf
  <2> QED
    BY <2>1, <2>9 DEF GraphInv, CompileKeeps, LoadKeeps, Running, Compiling
<1> QED
  BY <1>2, <1>3

\* The bundle and the package stay as they are.
LEMMA BundleStays ==
  ASSUME GraphInv, pc \in Bundled, UNCHANGED <<arch, package, bundle>>
  PROVE  BundleKeeps'
<1>1. arch' = arch /\ package' = package /\ bundle' = bundle
  OBVIOUS
<1>2. GraphOf(bundle.checkpoint)'
  BY <1>1 DEF GraphInv, BundleKeeps, GraphOf
<1> QED
  BY <1>1, <1>2 DEF GraphInv, BundleKeeps

LEMMA GraphLoaded ==
  ASSUME CommandInv, GraphInv,
         ReplaceCheckpoint \/ ChangeDevices \/ CheckBundle \/ OpenParameters
  PROVE  GraphInv'
<1>1. /\ UNCHANGED <<arch, package, bundle>> /\ pc \in Bundled
  BY DEF ReplaceCheckpoint, ChangeDevices, CheckBundle, OpenParameters, compileVars, Bundled
<1>2. BundleKeeps'
  BY <1>1, BundleStays
<1>3. arch' = arch /\ bundle' = bundle
  BY <1>1
<1>4. CASE ReplaceCheckpoint \/ ChangeDevices
  <2>1. pc' = "load"
    BY <1>4 DEF ReplaceCheckpoint, ChangeDevices
  <2> QED
    BY <1>2, <2>1 DEF GraphInv, CompileKeeps, LoadKeeps, Running, Compiling
<1>5. CASE CheckBundle
  <2> DEFINE found == NamedCatalog(bundle.manifest.arch, checkpoint)
             matches == /\ AbiValid(bundle.manifest)
                        /\ SchemaMatches(bundle.manifest, found)
                        /\ TargetMatches(bundle.manifest)
  <2>1. /\ pc = "load" /\ checkpoint' = checkpoint
        /\ loaded' = [ok |-> TRUE, catalog |-> found]
        /\ pc' = IF matches THEN "parameters" ELSE "failed"
    BY <1>5 DEF CheckBundle, givenVars, GoOn
  <2>2. bundle.manifest.arch = arch /\ checkpoint \in DOMAIN Checkpoints
    BY <1>1 DEF GraphInv, BundleKeeps, CommandInv, Given
  <2>3. matches => found.ok /\ found.schema = bundle.manifest.schema
    BY DEF SchemaMatches
  <2> HIDE DEF matches, found
  <2>4. loaded'.catalog = found
    BY <2>1
  <2>5. found = NamedCatalog(arch, checkpoint)
    BY <2>2 DEF found
  <2>6. LoadKeeps'
    BY <1>3, <2>1, <2>2, <2>3, <2>4, <2>5 DEF LoadKeeps, SameSchema, Running
  <2> QED
    BY <1>2, <2>1, <2>6 DEF GraphInv, CompileKeeps, Compiling
<1>6. CASE OpenParameters
  <2>1. PICK plan : /\ pc = "parameters" /\ loaded' = Opened(loaded.catalog, plan)
                    /\ pc' = IF loaded'.ok THEN "prefill" ELSE "failed"
    BY <1>6 DEF OpenParameters, GoOn
  <2>2. loaded'.vocab = LoadedVocabulary(loaded.catalog) /\ loaded'.checkpoint = checkpoint
    BY <2>1 DEF Opened
  <2>3. SameSchema(checkpoint) /\ loaded.catalog = NamedCatalog(arch, checkpoint)
    BY <2>1 DEF GraphInv, LoadKeeps
  <2>4. LoadKeeps'
    BY <1>3, <2>1, <2>2, <2>3 DEF LoadKeeps, SameSchema, Running
  <2> QED
    BY <1>2, <2>1, <2>4 DEF GraphInv, CompileKeeps, Compiling
<1> QED
  BY <1>4, <1>5, <1>6

LEMMA GraphSession ==
  ASSUME GraphInv, Prefill \/ DecodeTurn \/ Finish
  PROVE  GraphInv'
<1>1. /\ UNCHANGED <<arch, package, bundle, loaded>> /\ pc \in {"prefill", "decode"}
      /\ pc' \in {"decode", "done", "failed"}
  BY DEF Prefill, DecodeTurn, Finish, compileVars, GoOn
<1>2. BundleKeeps'
  BY <1>1, BundleStays DEF Bundled
<1>3. LoadKeeps'
  BY <1>1 DEF GraphInv, LoadKeeps, SameSchema, Running
<1> QED
  BY <1>1, <1>2, <1>3 DEF GraphInv, CompileKeeps, Compiling

LEMMA NextGraph == CommandInv /\ GraphInv /\ [Next]_vars => GraphInv'
<1> SUFFICES ASSUME CommandInv, GraphInv, [Next]_vars
             PROVE  GraphInv'
  OBVIOUS
<1>1. CASE Tokenize \/ ResolveCommandArchitecture \/ ResolveCommandTarget
  <2>1. pc' \in {"architecture", "target", "inspect", "failed"}
    BY <1>1 DEF Tokenize, ResolveCommandArchitecture, ResolveCommandTarget, GoOn
  <2> QED
    BY <2>1, NothingKept DEF Compiling, Bundled
<1>2. CASE UNCHANGED vars
  BY <1>2 DEF vars, givenVars, compileVars, GraphInv, CompileKeeps, BundleKeeps, LoadKeeps,
              GraphOf, SameSchema, Running
<1> QED
  BY <1>1, <1>2, GraphInspect, GraphPackage, GraphBound, GraphCompiled, GraphLoaded, GraphSession
  DEF Next

\* An operation of the graph fits what the session has.
LEMMA SessionFits == GraphInv => SessionMatchesGraph
<1> SUFFICES ASSUME GraphInv, Running, Checkpoints[bundle.checkpoint].described,
                    Checkpoints[loaded.checkpoint].described,
                    NEW i \in DOMAIN package.graph.ops
             PROVE  LET op == package.graph.ops[i]
                        kv == bundle.manifest.kv
                    IN /\ op.op = "KvCacheRead" =>
                            op.attrs[1] < kv.layers /\ op.out = Kv(kv.heads, kv.dim)
                       /\ op.op = "OutputProjection" => op.out = Act(loaded.vocab)
  BY DEF SessionMatchesGraph
<1> DEFINE f1 == NamedCatalog(arch, bundle.checkpoint)
           f2 == NamedCatalog(arch, loaded.checkpoint)
           vocab == ConfiguredVocabulary(arch, f1.meta)
           e == Expected(package.values, vocab % U32)
<1>1. /\ arch \in Registered /\ bundle.checkpoint \in DOMAIN Checkpoints /\ f1.ok
      /\ vocab >= 0 /\ AllFit(package.graph.ops, e)
      /\ f1.schema = bundle.manifest.schema
      /\ bundle.manifest.kv.layers = e[1] /\ bundle.manifest.kv.heads = e[2]
      /\ bundle.manifest.kv.dim = e[3] /\ e[4] = vocab % U32
  BY DEF GraphInv, BundleKeeps, GraphOf, Running, Bundled, Expected
<1>2. /\ loaded.checkpoint \in DOMAIN Checkpoints /\ f2.ok
      /\ f2.schema = bundle.manifest.schema /\ loaded.vocab = LoadedVocabulary(f2)
  BY DEF GraphInv, LoadKeeps, SameSchema
<1>3. Describes(arch, f1) /\ Describes(arch, f2)
  BY <1>1, <1>2, DescribedAssumption
<1>4. SchemaFingerprint(f1.params) = SchemaFingerprint(f2.params)
  BY <1>1, <1>2, NamedCatalogIs
<1> HIDE DEF f1, f2
<1>5. loaded.vocab = vocab % U32
  BY <1>1, <1>2, <1>3, <1>4, SameVocabulary
<1> HIDE DEF e, vocab
<1>6. PICK S : package.graph.ops \in Seq(S) /\ \A o \in S : OpFits(o, e)
  BY <1>1 DEF AllFit
<1>7. OpFits(package.graph.ops[i], e)
  BY <1>6
<1> QED
  BY <1>1, <1>5, <1>7 DEF OpFits

\* What each stage keeps of the graph, of the manifest and of what was loaded.
LEMMA GraphInvariant == Spec => []GraphInv
<1>1. Init => GraphInv
  BY DEF Init, GraphInv, CompileKeeps, BundleKeeps, LoadKeeps, Running, Compiling, Bundled
<1> QED
  BY <1>1, NextGraph, CommandInvariant, PTL DEF Spec

\* The session's cache and vocabulary are those of the graph that was compiled, for
\* every number of layers and every two checkpoints of one schema that their
\* configurations describe: the manifest takes the cache from the resolved
\* configuration, the load takes the vocabulary from another checkpoint's metadata
\* or tensors.
THEOREM SessionFitsGraph == Spec => []SessionMatchesGraph
BY GraphInvariant, SessionFits, PTL

=============================================================================
