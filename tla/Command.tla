------------------------------- MODULE Command -------------------------------
(***************************************************************************)
(* The generate and run commands end to end: tokenize the prompt and size  *)
(* the cache, compile_to_bundle, load_bundle, create_session and           *)
(* generate_greedy. One stage is one action; each keeps what the later     *)
(* ones read. Between the compile and the load the checkpoint may be       *)
(* replaced and the devices may change, as when a bundle is run later.     *)
(***************************************************************************)
EXTENDS Denotation, Tokenizer

CONSTANTS
  Checkpoints,  \* id |-> [source, config, truth, described]: what the directory
                \* may hold, where each weight really is, and whether the
                \* configuration is that of the tensors
  Dumps,        \* id |-> [lines, chips]: the device dump, and the chip of each device
  Requests,     \* id |-> the command's arguments
  Tokenizers,   \* id |-> the tokenizer.json
  Texts,        \* texts of which tokenizers are asked both directions
  Sampled       \* the tokens the model may answer

ASSUME CommandAssumption ==
  DOMAIN Checkpoints # {} /\ DOMAIN Dumps # {} /\ DOMAIN Requests # {} /\ Sampled # {}

VARIABLES
  pc,          \* the stage that runs next, or how the command ended
  request, checkpoint, dump,  \* what it was given: ids
  prompt,      \* [ids, maxKv]: the encoded prompt and the sized cache
  arch, target,
  catalog,     \* the checkpoint as bind sees it, renamed for the architecture
  package,     \* [graph, values]
  bindings,
  bound,       \* the bound model and its lowering configuration
  bundle,      \* [executables, config, manifest, bindings, checkpoint, dump]: what was written
  loaded,      \* [catalog, ranges, vocab]: the loaded model
  generated    \* [tokens, position]

compileVars == <<prompt, arch, target, catalog, package, bindings, bound>>
givenVars == <<request, checkpoint, dump>>
vars == <<pc, givenVars, compileVars, bundle, loaded, generated>>

Req == Requests[request]
None == [ok |-> FALSE]

Init ==
  /\ pc = "tokenize"
  /\ request \in DOMAIN Requests
  /\ checkpoint \in DOMAIN Checkpoints
  /\ dump \in DOMAIN Dumps
  /\ prompt = None /\ arch = NoType /\ target = None /\ catalog = None
  /\ package = None /\ bindings = None /\ bound = None
  /\ bundle = None /\ loaded = None
  /\ generated = [tokens |-> <<>>, position |-> 0]

\* A stage that succeeds goes on; an error ends the command.
GoOn(ok, to) == pc' = IF ok THEN to ELSE "failed"

----------------------------------------------------------------------------
(* Commands::Generate, up to the compile *)

\* Mutant: room for the tokens that are fed back only.
NeededKvLast(ids, new) == AtLeast(Len(ids) + new - 1, 1)

NeededKv(ids, new) == AtLeast(Len(ids) + new, 1)

\* The prompt as the model gets it. Chat templates and byte level tokenizers
\* bring their own marks, so no begin token is added then.
ModelPrompt(t, text, chat) ==
  Encode(t, IF chat THEN ApplyChatTemplate(t, text) ELSE text, ~IsByteLevel(t) /\ ~chat)

\* The arguments are 32 bit numbers, 0 where one is not given. No prompt with its
\* answer has 2^32 tokens, where the sum would be cut off.
ASSUME RequestAssumption ==
  \A r \in DOMAIN Requests :
    LET q == Requests[r]
        ids == ModelPrompt(Tokenizers[q.tokenizer], q.text, q.chat)
    IN /\ q.new \in Nat /\ q.window \in Nat /\ q.maxKv \in 0..(U32 - 1)
       /\ ids \in Seq(Nat) /\ Len(ids) + q.new + 1 < U32

\* A dump tells the truth: it lists devices that are here, and an architecture
\* under a device is that of its chip. The host is always a device.
Under(lines, i, j) ==
  /\ i < j /\ lines[i].says = "device"
  /\ \A k \in (i + 1)..j : lines[k].says \notin {"driver", "device"}
Truthful(lines, chips) ==
  /\ Len(lines) \in Nat /\ DOMAIN lines = 1..Len(lines)
  /\ "local-task://" \in DOMAIN chips /\ chips["local-task://"] = Absent
  /\ \A i \in DOMAIN lines :
       lines[i].says = "device" => lines[i].value # Absent /\ lines[i].value \in DOMAIN chips
  /\ \A i, j \in DOMAIN lines :
       lines[j].says = "arch" /\ Under(lines, i, j) =>
         lines[j].value \in {Absent, chips[lines[i].value]}
ASSUME DumpAssumption == \A d \in DOMAIN Dumps : Truthful(Dumps[d].lines, Dumps[d].chips)

\* A number of the metadata is an integer, a schedule a list of strings.
ASSUME MetadataAssumption ==
  \A k \in DOMAIN Checkpoints :
    LET found == Inspect(Checkpoints[k])
    IN found.ok =>
         /\ \A f \in {"prefill_window", "num_layers"} \cap DOMAIN found.meta :
              found.meta[f] \in Int
         /\ "layer_types" \in DOMAIN found.meta => found.meta.layer_types \in Seq(STRING)

\* The prompt is encoded to size the cache, and again by generate_greedy.
Tokenize ==
  LET ids == ModelPrompt(Tokenizers[Req.tokenizer], Req.text, Req.chat)
  IN /\ pc = "tokenize"
     /\ prompt' = [ids |-> ids, needed |-> NeededKv(ids, Req.new),
                   maxKv |-> IF Req.maxKv = 0 THEN NeededKv(ids, Req.new) ELSE Req.maxKv]
     /\ GoOn(prompt'.maxKv >= prompt'.needed, "architecture")
     /\ UNCHANGED <<givenVars, arch, target, catalog, package, bindings, bound, bundle, loaded,
                    generated>>

Overrides ==
  IF Req.window = 0 THEN [max_kv |-> prompt.maxKv]
  ELSE [prefill_window |-> Req.window, max_kv |-> prompt.maxKv]

\* The checkpoint is inspected for its metadata, and again by the compile.
ArchitectureOf(inspected) ==
  IF inspected.ok THEN ResolveArchitecture(Req.override, ModelTypes(inspected.meta)) ELSE NoType
ResolveCommandArchitecture ==
  /\ pc = "architecture"
  /\ arch' = ArchitectureOf(Inspect(Checkpoints[checkpoint]))
  /\ GoOn(arch' # NoType, "target")
  /\ UNCHANGED <<givenVars, prompt, target, catalog, package, bindings, bound, bundle, loaded,
                 generated>>

----------------------------------------------------------------------------
(* compile_to_bundle *)

ResolveCommandTarget ==
  /\ pc = "target"
  /\ target' = ResolveTarget(Req.spec, Dumps[dump].lines)
  /\ GoOn(target'.ok, "inspect")
  /\ UNCHANGED <<givenVars, prompt, arch, catalog, package, bindings, bound, bundle, loaded,
                 generated>>

\* inspect and apply_naming, with the schema fingerprint of the new names.
Fingerprinted(found, params) ==
  [ok |-> TRUE, params |-> params, meta |-> found.meta, files |-> found.files,
   schema |-> SchemaFingerprint(params)]
Named(id, found) ==
  IF found.ok THEN Fingerprinted(found, ApplyNaming(id, found.params)) ELSE None
NamedCatalog(id, k) == Named(id, Inspect(Checkpoints[k]))

\* What it is that a configuration describes the tensors: the embedding is there,
\* and each tensor with a row for each token has as many as the vocabulary.
PerToken == {<<"blk", -1, "token_embd">>, <<"blk", -1, "output">>}
ConfiguredVocabulary(id, meta) == Over(meta, SchemaDefaults(id)).vocab_size
Describes(id, found) ==
  /\ DOMAIN found.params \subseteq Nat
  /\ \E i \in DOMAIN found.params : found.params[i].name = <<"blk", -1, "token_embd">>
  /\ \A i \in DOMAIN found.params :
       found.params[i].name \in PerToken =>
         found.params[i].shape[1] = ConfiguredVocabulary(id, found.meta)
ASSUME DescribedAssumption ==
  \A k \in DOMAIN Checkpoints : \A id \in Registered :
    LET found == NamedCatalog(id, k)
    IN Checkpoints[k].described /\ found.ok => Describes(id, found)

InspectAndName ==
  /\ pc = "inspect"
  /\ catalog' = NamedCatalog(arch, checkpoint)
  /\ GoOn(catalog'.ok, "package")
  /\ UNCHANGED <<givenVars, prompt, arch, target, package, bindings, bound, bundle, loaded,
                 generated>>

BuildArchitecture ==
  /\ pc = "package"
  /\ package' = BuildPackage(arch, Overrides, catalog.meta,
                             Only(catalog.meta, {"vocab_size", "context_length"}))
  /\ GoOn(package'.ok, "bind")
  /\ UNCHANGED <<givenVars, prompt, arch, target, catalog, bindings, bound, bundle, loaded,
                 generated>>

BindSlots ==
  /\ pc = "bind"
  /\ bindings' = Bind(SlotsOf(package.graph.ops), catalog.params)
  /\ GoOn(bindings'.ok, "kernels")
  /\ UNCHANGED <<givenVars, prompt, arch, target, catalog, package, bound, bundle, loaded,
                 generated>>

\* The dry run must be complete; then build_bound_model.
Cover(coverage) ==
  [complete |-> IsComplete(coverage),
   model |-> BuildBoundModel(package, bindings.bindings, target.profile,
                             SelectedKernels(coverage), DefaultShapeProfile(package.values))]
SelectKernels ==
  /\ pc = "kernels"
  /\ bound' = Cover(DryRunCoverage(package.graph.ops, catalog.params, bindings.bindings,
                                   target.profile))
  /\ GoOn(bound'.complete, "lower")
  /\ UNCHANGED <<givenVars, prompt, arch, target, catalog, package, bindings, bundle, loaded,
                 generated>>

LowerModel ==
  /\ pc = "lower"
  /\ bound' = Over(bound, [lowered |-> LowerBoundModel(bound.model, Req.portable)])
  /\ GoOn(bound'.lowered.ok, "compile")
  /\ UNCHANGED <<givenVars, prompt, arch, target, catalog, package, bindings, bundle, loaded,
                 generated>>

\* LocalCompiler::compile and write_bundle; the IREE compiler may fail.
CompileBundle ==
  /\ pc = "compile"
  /\ bundle' = Over(Compile(bound.model, bound.lowered.config, catalog.schema),
                    [config |-> bound.lowered.config, bindings |-> bindings.bindings,
                     checkpoint |-> checkpoint, dump |-> dump])
  /\ \/ GoOn(bundle'.ok, "load")
     \/ GoOn(FALSE, "load")
  /\ UNCHANGED <<givenVars, compileVars, loaded, generated>>

----------------------------------------------------------------------------
(* Between the compile and the load *)

ReplaceCheckpoint ==
  /\ pc = "load"
  /\ checkpoint = bundle.checkpoint /\ dump = bundle.dump
  /\ checkpoint' \in DOMAIN Checkpoints \ {checkpoint}
  /\ UNCHANGED <<pc, request, dump, compileVars, bundle, loaded, generated>>

ChangeDevices ==
  /\ pc = "load"
  /\ checkpoint = bundle.checkpoint /\ dump = bundle.dump
  /\ dump' \in DOMAIN Dumps \ {dump}
  /\ UNCHANGED <<pc, request, checkpoint, compileVars, bundle, loaded, generated>>

----------------------------------------------------------------------------
(* load_bundle *)

\* validate_executable_abi.
AbiValid(m) ==
  \/ /\ m.version \in {1, 2} /\ m.kv.storage = <<"static">>
     /\ {"prefill", "decode"} \subseteq m.entrypoints
  \/ /\ \/ m.version = 10 /\ m.kv.elem = "f32"
        \/ m.version = 11 /\ m.kv.elem \in {"f16", "f32"}
     /\ Len(m.kv.storage) = 3 /\ m.kv.storage[2] > 0 /\ m.kv.storage[3] > 0
     /\ {"prefill_chunk", "decode_chunk"} \subseteq m.entrypoints

\* Mutant: the digest of the parameters under the names of the file.
SchemaMatchesRaw(m, found) ==
  SchemaFingerprint(Inspect(Checkpoints[checkpoint]).params) = m.schema

SchemaMatches(m, found) == found.ok /\ found.schema = m.schema

\* resolve(manifest.target.runtime_device()).
DeviceSpec(profile) ==
  IF profile.driver \in {"hip", "cuda"}
  THEN [form |-> "uri", word |-> profile.driver, rest |-> RuntimeDevice(profile)]
  ELSE [form |-> "cpu", word |-> "local", rest |-> ""]

\* Mutant: the device is found again, its features are not compared.
TargetMatchesUri(m) == ResolveTarget(DeviceSpec(m.target), Dumps[dump].lines).ok

TargetMatches(m) ==
  LET local == ResolveTarget(DeviceSpec(m.target), Dumps[dump].lines)
  IN local.ok /\ Fingerprint(local.profile) = Fingerprint(m.target)

CheckBundle ==
  /\ pc = "load"
  /\ loaded' = [ok |-> TRUE, catalog |-> NamedCatalog(bundle.manifest.arch, checkpoint)]
  /\ GoOn(/\ AbiValid(bundle.manifest)
          /\ SchemaMatches(bundle.manifest, loaded'.catalog)
          /\ TargetMatches(bundle.manifest), "parameters")
  /\ UNCHANGED <<givenVars, compileVars, bundle, generated>>

\* FileParameterStorage::new: every range under its key and under the key of
\* the checkpoint, one range for each, inside its file.
FileParameterStorage(plan, ranges, sizes) ==
  LET comps == UNION {ToSet(b.comps) : b \in ToSet(plan)}
      entries == {<<k, ranges[k]>> : k \in DOMAIN ranges}
                   \cup {<<c.key, ranges[c.external]>> : c \in comps}
  IN /\ entries # {}
     /\ \A e, f \in entries : e[1] = f[1] => e[2] = f[2]
     /\ \A e \in entries : /\ e[2].file \in DOMAIN sizes
                           /\ e[2].offset + e[2].length <= sizes[e[2].file]

\* The vocabulary size of the loaded model's metadata: the configured one, or the
\* rows of the first tensor that has one for each token.
LoadedVocabulary(found) ==
  LET named == {i \in DOMAIN found.params : found.params[i].name \in PerToken}
  IN (IF HasU32(found.meta, {"vocab_size"}) THEN found.meta.vocab_size
      ELSE IF named # {} THEN found.params[Min(named)].shape[1] ELSE 32000) % U32

\* The provider plan has exactly the components the manifest expects.
Opened(found, plan) ==
  [ok |-> /\ plan.ok
          /\ bundle.manifest.components = {<<k, plan.ranges[k].length>> : k \in DOMAIN plan.ranges}
          /\ FileParameterStorage(bundle.bindings, plan.ranges, found.files),
   ranges |-> IF plan.ok THEN plan.ranges ELSE <<>>,
   vocab |-> LoadedVocabulary(found), checkpoint |-> checkpoint]
OpenParameters ==
  /\ pc = "parameters"
  /\ loaded' = Opened(loaded.catalog,
                      ProviderPlan(loaded.catalog.params, loaded.catalog.files, bundle.bindings))
  /\ GoOn(loaded'.ok, "prefill")
  /\ UNCHANGED <<givenVars, compileVars, bundle, generated>>

----------------------------------------------------------------------------
(* generate_greedy over the session *)

SessionLimit == LET kv == bundle.manifest.kv.maxSeq
                IN IF prompt.maxKv < kv THEN prompt.maxKv ELSE kv
PromptFits == \/ bundle.manifest.version = 11
              \/ Len(prompt.ids) <= bundle.manifest.window

Prefill ==
  /\ pc = "prefill"
  /\ GoOn(prompt.ids # <<>> /\ PromptFits /\ Len(prompt.ids) <= SessionLimit, "decode")
  /\ generated' = [generated EXCEPT !.position = Len(prompt.ids)]
  /\ UNCHANGED <<givenVars, compileVars, bundle, loaded>>

Stops == StopIds(Tokenizers[Req.tokenizer])

\* One turn of the loop: the best token of the last answer, a stop token ends
\* it; the token is kept and decoded, the last one too.
DecodeTurn ==
  \E token \in Sampled :
    /\ pc = "decode" /\ Len(generated.tokens) < Req.new /\ token \notin Stops
    /\ GoOn(generated.position < SessionLimit, "decode")
    /\ generated' = [tokens |-> Append(generated.tokens, token),
                     position |-> generated.position + 1]
    /\ UNCHANGED <<givenVars, compileVars, bundle, loaded>>

Finish ==
  /\ pc = "decode"
  /\ Len(generated.tokens) = Req.new \/ Sampled \cap Stops # {}
  /\ pc' = "done"
  /\ UNCHANGED <<givenVars, compileVars, bundle, loaded, generated>>

Next ==
  \/ Tokenize \/ ResolveCommandArchitecture \/ ResolveCommandTarget \/ InspectAndName
  \/ BuildArchitecture \/ BindSlots \/ SelectKernels \/ LowerModel \/ CompileBundle
  \/ ReplaceCheckpoint \/ ChangeDevices \/ CheckBundle \/ OpenParameters
  \/ Prefill \/ DecodeTurn \/ Finish

Spec == Init /\ [][Next]_vars

----------------------------------------------------------------------------
(* Properties *)

Running == pc \in {"prefill", "decode", "done"}

\* Every component a program asks for is served from the bytes of that weight
\* in the checkpoint of the session: through the readers' offsets and
\* alignment, the renaming, the tied output, the binding and the provider plan,
\* also when the bundle was compiled from a checkpoint laid out differently.
SessionReadsOwnTensors ==
  Running =>
    \A i \in DOMAIN bundle.bindings : \A j \in DOMAIN bundle.bindings[i].comps :
      LET b == bundle.bindings[i]
          c == b.comps[j]
      IN loaded.ranges[c.external] = Checkpoints[loaded.checkpoint].truth[<<b.name, c.name>>]

\* Every parameter global of the program has a range of exactly its bytes, when
\* the configuration was that of the tensors: nothing compares the two.
SessionParametersFit ==
  Running /\ Checkpoints[bundle.checkpoint].described =>
    \A g \in Globals(bundle.config) :
      g[1] \in DOMAIN loaded.ranges /\ loaded.ranges[g[1]].length = g[2]

\* The session's cache and vocabulary, taken from the manifest and from the
\* metadata of the checkpoint that was loaded, are those of the graph that was
\* compiled: every cache row it reads, and the width of its logits.
SessionMatchesGraph ==
  Running /\ Checkpoints[bundle.checkpoint].described /\ Checkpoints[loaded.checkpoint].described =>
    \A i \in DOMAIN package.graph.ops :
      LET op == package.graph.ops[i]
          kv == bundle.manifest.kv
      IN /\ op.op = "KvCacheRead" => op.attrs[1] < kv.layers /\ op.out = Kv(kv.heads, kv.dim)
         /\ op.op = "OutputProjection" => op.out = Act(loaded.vocab)

\* Every function an entry point calls is emitted into the same module, and so is
\* every function called inside those: the layer functions of a paged program, and
\* what the attention calls for rotation, repeated heads, row updates, masks and
\* pages. Helpers and calls are emitted apart: for two row counts, with and without
\* pages, head norms, rotation, convolutions and quantized weights, in one module or
\* in two.
CallsAreDefined ==
  pc = "compile" =>
    LET c == bound.lowered.config
    IN \A program \in Programs(c) : \A entry \in Entries(c, program) :
         \A i \in DOMAIN entry :
           entry[i].fn \in DialectOps \cup Helpers(c, program) \cup {NoHelper}

\* Every weight an entry point loads is bound, has a helper if it is quantized, and
\* a conversion to the compute type if it is not; the emitter panics where one is
\* missing.
WeightsAreLowered ==
  pc = "compile" =>
    LET c == bound.lowered.config
    IN \A program \in Programs(c) : \A entry \in Entries(c, program) :
         \A i \in DOMAIN entry :
           /\ entry[i].fn # NoHelper
           /\ entry[i].w # NoWeight => LoadAccepts(c, entry[i].w)

\* Each entry point of each module, prefill and decode, static and paged,
\* computes the terms of the typed graph: the same logits and the same rows
\* written to the cache.
ProgramComputesGraph ==
  pc = "compile" =>
    \A program \in Programs(bound.lowered.config) :
      \A entry \in Entries(bound.lowered.config, program) :
        ProgramMeaning(bound.lowered.config, entry) = GraphMeaning(package.graph)

\* The cost model decides alone: no two eligible kernels have the best score.
SelectionHasNoTie ==
  pc = "lower" =>
    \A i \in DOMAIN package.graph.ops :
      Cardinality(Best(RequestOf(package.graph.ops[i], catalog.params, bindings.bindings),
                       target.profile)) = 1

\* A model whose dry run is complete is not refused by the lowering, for a
\* target without native float kernels and a window the lowering takes: the
\* kernels of a paged model are replaced after the dry run.
CompleteCoverageLowers ==
  [][(/\ pc = "lower" /\ pc' = "failed" /\ Req.window <= 256) =>
       {"native_f16", "native_bf16"} \cap target.profile.features # {}]_vars

\* A bundle loads on the checkpoint and the devices it was compiled for.
FreshBundleLoads ==
  [][(/\ pc \in {"load", "parameters"} /\ pc' = "failed") =>
       checkpoint # bundle.checkpoint \/ dump # bundle.dump]_vars

\* A loaded program runs on a device that is there, of the chip it was compiled
\* for.
ProgramRunsOnItsChip ==
  pc \in {"parameters", "prefill", "decode", "done"} =>
    LET uri == RuntimeDevice(bundle.manifest.target)
        chips == Dumps[dump].chips
    IN uri \in DOMAIN chips /\ chips[uri] = bundle.manifest.target.arch

\* A command that got past the sizing of its cache is not refused for room, and
\* only for an empty prompt or one longer than the compiled window: also the
\* token after the last one, which the loop decodes and drops, has its row.
GenerationFits ==
  [][pc' = "failed" => /\ pc # "decode"
                       /\ pc = "prefill" => prompt.ids = <<>> \/ ~PromptFits]_vars

\* Decoding gives back the text that was encoded: all of it for a byte level
\* tokenizer; for SentencePiece without its leading spaces, of a text without
\* special pieces or unknown ones.
DecodeInvertsEncode ==
  pc = "architecture" =>
    LET t == Tokenizers[Req.tokenizer]
        lossless(text) ==
          /\ \A a \in ToSet(SpecialPieces(t)) : Find(text, a.content) = {}
          /\ t.vocab[Unk] \notin ToSet(Encode(t, text, TRUE))
    IN \A text \in Texts :
         IF IsByteLevel(t) THEN Decode(t, Encode(t, text, FALSE), FALSE) = text
         ELSE lossless(text) => Decode(t, Encode(t, text, TRUE), TRUE) = TrimStart(text)
=============================================================================
