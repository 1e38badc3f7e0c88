# TLA+ verification of dyninfer

dyninfer compiles a language model checkpoint to an IREE executable and runs it:
`checkpoint + architecture package -> binding -> MLIR -> VMFB -> session -> tokens`.
This directory holds TLA+ modules for the parts of it that keep state and for
the chain of decisions between a checkpoint and a running session, TLC
configurations for them, and TLAPS proofs. Paths below are relative to the
repository root, `src/` being its checkout.

    tlc -workers 2 -config session_paged.cfg MCIreeSession     # one run
    tlapm IreeSessionProofs.tla                                # the proofs of a module

`PROJECT.json` lists the runs with their properties, the lines every definition
models (`map`), the mutants that show each property can fail, the hazards of the
code, and the findings.

## 1. The system

| Component | Code | State | Operations |
|---|---|---|---|
| executable cache | `dyninfer-cache/src/lib.rs` | `executables/<digest>/`, `locks/<digest>.lock`, staging directories | `lookup`, `publish`, `list`, `remove`, `verify` |
| inference session | `dyninfer-runtime/src/session.rs` | position, history, attention bias | `prefill`, `prefill_argmax`, `decode`, `decode_argmax`, `reset` |
| IREE wrapper | `third_party/iree_runtime_c_api/wrapper.c`, `iree-runtime/src/lib.rs` | native session, K/V planes per layer, cached calls | `configure_paged_kv`, `ensure_kv_pages`, `invoke_paged_chunk`, `reset_paged_kv`, `invoke_prefill`, `invoke_decode` |
| compiled program | emitted by `lowering/dense_decoder.rs`, `lowering/kernels.rs` | K/V planes or KV globals, `conv_state` globals | `prefill_chunk`, `decode_chunk`, `prefill`, `decode` |
| model loader and bundles | `dyninfer-runtime/src/model.rs` | bundle directory, `ExecutableHandle` | `compile_or_load`, `write_bundle`, `materialize_bundle_from_cache`, `load_bundle`, `create_session` |
| greedy generation | `dyninfer-runtime/src/generate.rs` | ids, generated, seen | `generate_greedy` |
| compile pipeline | `dyninfer-compiler/src/lib.rs`, `lowering/*.rs` | none between calls | shape profile, bound model, validation, lowering, combined or split modules, manifest |
| architectures | `dyninfer-architecture` | none | resolve, configure, rename tensors, build the typed graph |
| checkpoints | `dyninfer-checkpoint*` | none | index a container, decode its convention, fingerprint, provider plan |
| binding | `dyninfer-binding` | none | one parameter for every slot |
| encodings and kernels | `dyninfer-quantization`, `dyninfer-kernel-registry` | registries | validate storage, offer and select kernels |
| targets | `dyninfer-target`, `dyninfer-core/src/types.rs` | none | discover, resolve, fingerprint |
| tokenizer | `tokenizer_bpe.rs` | vocabulary, merges | encode, decode, chat wrap |
| command line | `dyninfer-cli/src/main.rs` | none | generate, run and the tools |
| hub lookup | `hf_hub.rs` | none | find a model in the local hub cache |
| tools | `perf*.rs`, `dyninfer-cli` | none | benchmark, logits, drift |

How they interact. A command loads a bundle, or computes a `CacheKey`, looks the
digest up, compiles on a miss and publishes; the entry's files are then copied
into a bundle **by path**, without the lock that publishing takes. Several
processes share one cache directory and nothing but its files. `create_session`
opens a fresh IREE context, so a session owns its native session, its planes
and its globals. The session calls the wrapper, the wrapper hands the planes to
the compiled program as tied outputs; every one of these calls may return an
error, which the session returns with `?` from the middle of the operation.
`generate_greedy` drives one session and stops on a stop token, a count or an
error.

What is hard. In the cache: interleavings of processes over file system calls,
crashes that leave locks and half-removed directories, the recovery from them,
and a remover that takes no lock. In the session: errors in the middle of a
multi-step prefill, resets that fail halfway, retries of a decode whose row is
already stored, padding, and the boundary between chunks, windows, pages and the
capacity, none of which divides the other. In the compiled program: page writes
that are unrolled, clamped to the last page and chained, and a page walk that
reads the *old* planes except for pages the chunk touched. In bundles: files
written one by one, read at three different times, and run on a checkpoint and
a device that may have changed since. In the pipeline nothing is concurrent;
what is hard is that a dozen stages agree about one model without comparing
notes: names, offsets, shapes, kernels and helper functions are each decided in
one stage and relied upon in another, and the same layer is emitted four times.

What makes each part correct:

* cache: what appears at the entry path is whole; a complete entry stays; a loader
  never sees a gap or a mixture; nothing outlives `publish`; everybody returns;
* session: an answer is computed from exactly the context the caller built up;
  a failed decode can be repeated; the position stays inside the planes;
* program: a chunk stores its real rows and no others; a query sees exactly its
  prefix; the convolution state is the tail of the sequence;
* bundles: a session runs modules of the manifest's build or a later one; a
  completed write answers its request; a load fails only for a cause;
* generation: reaching the limit does not lose what was generated;
* pipeline: the program computes the typed graph in all of its entry points;
  what a stage accepted is not refused by a later one; a session reads, for
  every weight, the bytes of that weight; its cache and vocabulary are the
  graph's; the program runs on the chip it was compiled for;
* tokenizer: decoding gives back what was encoded.

## 2. Modules

| Module | What it is |
|---|---|
| `ArtifactCache` | publishers, removers and loaders over one digest |
| `MCArtifactCache` | its instances for TLC |
| `ArtifactCacheProofs` | its theorems |
| `ChunkOps` | what a chunk call amounts to: the rows it stores, the rows a query attends to, the calls it is defined for |
| `ChunkCall` (extends `ChunkOps`) | the abstract chunk function: a call stores and attends in one step |
| `PagedChunk` | the KV half of one layer of a chunk function, write by write and page by page |
| `MCPagedChunk` | its geometries |
| `PagedChunkProofs` | its theorems |
| `InferenceSession` | the abstract contract of a session: a context, replaced by prefill, extended by decode |
| `IreeSession` (extends `ChunkOps`) | the session, the wrapper's planes and the program's KV and convolution state |
| `MCIreeSession` | its instances |
| `IreeSessionProofs` | its theorems, the refinement of the contract among them |
| `IreeSessionConvProofs` (extends `IreeSessionProofs`) | the theorems about the convolution state |
| `ModelLoader` | the bundle directory between its writer and its reader, file by file |
| `MCModelLoader` | its instance |
| `ModelLoaderProofs` | its theorems |
| `Architecture` | resolution, configuration, naming and typed graphs of llama, qwen3, lfm2 |
| `Binding` | binder, schema fingerprint, provider plan |
| `Kernels` (extends `Binding`) | encodings, kernel candidates, selection, dry run |
| `Containers` (extends `Architecture`, `Kernels`) | SafeTensors, sharded SafeTensors, GGUF, MLX, config.json |
| `Target` | device dump, target profiles and their resolution |
| `DenseDecoder` (extends `Kernels`) | globals, helpers and instructions of the emitted program |
| `Compiler` (extends `Containers`, `Target`, `DenseDecoder`) | shape profile, bound model, validation, manifest |
| `Denotation` (extends `Compiler`) | the terms a graph and a program compute |
| `Tokenizer` | BPE of both kinds, both directions |
| `Command` (extends `Denotation`, `Tokenizer`) | the generate command, stage by stage |
| `MCCommand` | six checkpoints, four device lists, seven requests |
| `CommandProofs` | its theorems about the room of a generation, the session's cache and its vocabulary |
| `TargetProofs` (extends `CommandProofs`) | the theorem about the chip a program runs on |
| `LoweringProofs` (extends `CommandProofs`) | the theorems about kernel selection and the calls of the emitted programs |

### ArtifactCache

One action is one file system call, or a run of calls on files nobody else can
name (the writes of one staging file). Paths of different digests are disjoint,
so one digest stands for all. `dest` is the directory *object* at the entry path
and `content[d]` the files in object `d`: a rename moves an object, an open
directory handle (`victim`) keeps the object although the path changes, and a
path lookup uses `dest` at the time of the call. This distinction is what lets
`remove_dir_all` of one process hit the directory that another has just renamed
into place. `lockBy`, `lockPid` and `lockAge` are the creator, the recorded pid
and the age of the lock file; `lock_is_stale` is two calls, `StatLock` and
`ReadPid`, and the removal a third, `UnlinkStale`. The `is_file` calls of
`entry_if_complete` are one step (`IsComplete`): a directory appears at the path
with all of its files and from then on only loses some, so a pair of answers is
always the answer at one moment between the two calls.

`publish` is `Acquire`, `CheckExisting`, `WriteFile` (model, decode, manifest,
key, in that order), `Recheck`, `DirExists`, `RemoveDirAll`, `RenameIntoPlace`,
`Cleanup`, `ReleaseLock`. The guard's drop is on every path after the lock is
taken. `ListForRemove` and `RemoveDirAll` are `cache remove`; `Lookup`,
`ReadFile`, `ReadDone` are the loader. `std::fs::remove_dir_all`, the death of a
process and the clock are external and modelled from how the code uses them.

`Faults` selects what the environment may do: `crash` (a process dies and keeps
its files), `io` (a call fails and the error is returned), `old` and `future` (the
lock outlives `STALE_SECS`, or the clock is set back), `no_proc` (the build whose
`process_is_running` is always false). `Unlucky` are the publishers whose calls
may fail with an error the code discards (`let _ =`): the pid is not written, the
lock file or a part of the staging directory stays.

### PagedChunk

The emitted program is single-assignment code. `kvIn` is the imported plane,
`stored[w]` the page value after unrolled write `w`, `kvOut` the chain of
`insert_slice` results. A step is one page write, one page of the walk or one
insert. `prefill_chunk` and `decode_chunk` are the same emitted code with
`seq` the chunk size or 1, and are called in any order on the same planes. `seen`
records which key, holding which row, every query gave a weight
to; the arithmetic of attention is left out. Both forms that
`use_iree_attention` chooses between are covered.

`ChunkCall` is the same function as its caller sees it: a call begins, and in one
step it has stored its real rows (`StoreChunk`) and answered every real query
(`Attended`). The refinement mapping (`Call` in `PagedChunk`):

    plane   <- kvOut between calls, kvIn while one is under way
    call    <- the rows of the chunk, its last real index and start_pos
    answer  <- per real query the keys and rows that got a weight

`Admitted` are the calls it is defined for. The wrapper checks the length of the
window and the index of the last row, nobody but the session that the rows lie
inside the capacity.

### IreeSession and InferenceSession

A row of a plane stands for the token whose activations it holds, `Pad` for the
padding token, `Zero` for a row nobody wrote; an answer is the sequence of rows
it was computed from. One attention layer and one short-convolution layer stand
for all layers, which are stored alike. The chunk program is used as the atomic
call that `PagedChunk` implements (`StoreChunk`, `Attended` of `ChunkOps`), and
`CallsAreAdmitted` says that the session never calls it outside of what
`ChunkCall` is defined for. A prefill is one step
per chunk (`next` is the chunk), because an error ends it between chunks; decode
and reset are single steps with one disjunct per place an error can occur. A
failed chunk may have stored any of its rows and may or may not have moved
`conv_state`. The `_argmax` variants run the same control and are the same
actions. `StaticGlobals` has its own actions: its prefill stores the padding as
well, and its reset touches neither globals nor `conv_state`.

The refinement mapping (`Contract` in `IreeSession`):

    said    <- history, what the caller passed: a prompt, then the tokens decoded
    ctx     <- the first `position` rows of the planes
    busy    <- whether a prefill is under way
    answer  <- the last call, whether it succeeded, and the rows it attended to

The contract has one action per call and outcome. A prefill that succeeds makes
the context its prompt, a decode that succeeds extends the context by the token it
also adds to the caller's sequence, a reset empties both, and each of them answers
from exactly the context it leaves. A refused call and a failed decode leave
everything as it was, so a decode can be repeated. Only a prefill or a reset that
fails, and a prefill under way, may leave anything where the context was, at its
old length; the name of the call in `answer` keeps the outcomes of different calls
apart.

### ModelLoader

Two processes share a bundle directory: a compile job (`BindJob`, `LookupHit` or
`LookupMiss` and `CompileAndPublish`, then `TruncateFile` and `WriteFile` for
each file in the order of `WriteOrder`) and a loader (`ReadManifest` up to
`Probe`, then `OpenSession`). Every file carries the number of the write that
produced it and the build it was made for; a file can be missing or cut off.
`Abort` is every error and the death of the writer. The checkpoint may be replaced
and the devices may change at any time. `load_bundle` reads its inputs at
different moments, one action each, and the native session opens the modules a
second time by path (`with_session`), which is `OpenSession`.

### Command and the modules below it

A pipeline of pure stages. Each stage of `compile_to_bundle`, `load_bundle` and
`generate_greedy` is one action whose work is an operator of the module of its
component; the action keeps what later stages read and ends the command on an
error. Between the compile and the load the checkpoint or the device list may
be exchanged, as when a bundle is run later. What the components exchange is
kept as it is, as far as a later stage looks at it:

* names are `<<scope, layer, leaf>>`, tensors have shapes, storage types, files
  and byte ranges; `MCCommand` lays the checkpoints out byte by byte and states
  separately where each weight is (`truth`);
* a digest is the value digested: two digests are equal when their inputs are;
* a program is the sequence of its instructions `[ssa, fn, args, w]`, a helper
  function its name. A function that only wraps instructions is entered, which is
  an instruction of its own, and its body follows in place, so that the calls
  inside the attention and page functions (repeated heads, row updates, masks,
  `packed_extract`, `layer_store`, `hist_pages`) are there as well. `DenseDecoder` follows the emitter: `emit_prefill` and `emit_decode` for static
  programs, the `emit_paged_*` functions for paged ones, each in its own
  definitions, so that a difference between the four is a difference in the model;
* `Denotation` maps each helper to the operation it computes (`Computes`) and
  unfolds a program, and the typed graph, to terms over weights. Cache reads
  denote what was written by this call; the rows of earlier calls are the
  subject of `PagedChunk` and `IreeSession`;
* a text is a sequence of symbols, some of which have two bytes.

Left out: the norm's epsilon, floating-point values (the sampled token is a free
choice, so the repetition penalty has no effect here), the `eos_token_id` of the
metadata, jinja chat templates (ChatML is modelled), the smoke-only program,
the text of MLIR.

## 3. Runs

| Run | Instance | Shows |
|---|---|---|
| `cache_publish` | 3 publishers, 1 loader, no fault, fair; nothing at the entry path or any subset of an entry's files; 210 thousand states | one builder at a time while the entry is missing, a complete entry is kept, `Ok` means a complete entry, the loader never sees a gap or a mixture nor a part of a published entry, the entry is eventually there and stays |
| `cache_faults` | 2 publishers (one with discarded errors), 1 remover, crashes, I/O errors, old locks, clock set back, fair; 590 thousand states | publication is atomic whatever happens; no return path keeps lock or staging; everyone that is not killed returns |
| `cache_lock_not_exclusive` | 3 publishers, no fault | **violation**, finding 1 |
| `cache_complete_entry_deleted` | 2 publishers, a lock that grows old, no crash and no other fault | **violation**, finding 2 |
| `chunk_program` | page 2, chunk 4 and 1, capacity 5, both forms of attention; 250 thousand states | stores are the overlay, queries see their prefix, the pages are invisible to the caller (`ChunkCall`) |
| `session_paged` | window 2, page 4, capacity 5, kernel 3, faults; 200 thousand states | type, prefill and its convolution see the prompt, the convolution state is carried on, the program is only called where it is defined, the contract |
| `session_static` | window 3, capacity 5, kernel 2, faults; 160 thousand states | the same for KV globals |
| `session_pool_too_small` | session limit 3 below capacity 5 | **violation**, finding 3 |
| `session_conv_padding` | every prompt, no fault | **violation**, finding 4 |
| `generate_command` | 6 checkpoints (llama in SafeTensors, the same at other offsets, one whose config.json is wrong, MLX 4 bit, qwen3 in GGUF, hybrid lfm2 in two shards), 4 device lists, 7 requests; 5.2 thousand states, each of them a whole model | the twelve properties below |
| `bundle_protocol` | 3 checkpoints, 2 devices, 3 requests, 3 writes, 1 change; 2.7 million states | modules are not older than the manifest, a completed write answers its request, a load fails for a cause |
| `bundle_stale_decode` | the same, 2 writes | **violation**, finding 5 |

What `generate_command` shows of every combination: every component is served
from the bytes of its weight, through alignment, naming, tying, binding and
provider plan, also after the checkpoint was laid out anew
(`SessionReadsOwnTensors`); parameter globals have the size of their ranges
(`SessionParametersFit`); cache and vocabulary of the session are the graph's
(`SessionMatchesGraph`); every function an entry point calls or enters, and every
one called inside those, is emitted into the same module (`CallsAreDefined`); every weight it loads has a helper or a
conversion, where the emitter would panic (`WeightsAreLowered`); all entry points compute the typed graph
(`ProgramComputesGraph`); kernel selection has no ties (`SelectionHasNoTie`); a
complete dry run lowers (`CompleteCoverageLowers`); a bundle loads where it was
made (`FreshBundleLoads`) and never on another chip (`ProgramRunsOnItsChip`);
the cache that was sized is large enough for the decode after the last token
(`GenerationFits`); decoding inverts encoding (`DecodeInvertsEncode`). Four of
them name an exception the code really has: a config.json that does not
describe the tensors is accepted everywhere; a target with native f16 or bf16 kernels
and a prefill window above 256 are refused by the lowering only; an empty prompt is refused, and by a static program a
prompt longer than its window; SentencePiece drops leading spaces, unknown and
special pieces.

Bounds and why they are enough.

* `MaxAttempts` is 2 for the code's 500: an iteration either takes the lock,
  waits or unlinks, and the races need one iteration that judges and one that
  creates. The proofs hold for every bound.
* Three publishers are the least for the lock race (a holder, a waiter that
  judges, a third that is robbed); two are enough for the faults, where the third
  is a remover. What an earlier run left at the path is any set of files where it
  matters: a removal that was interrupted may leave `manifest.json` and
  `model.vmfb` without the others, which `entry_if_complete` accepts. The loader
  then takes what is there, and `ReaderSeesOneEntry` says no more of such a leftover
  than that its files are not mixed with others. No symmetry is used, since both passing runs check liveness.
* The chunk geometries are the smallest in which a chunk spans two pages and
  starts inside one, a write is clamped to the last page and meets another one
  there, and the capacity is no multiple of the page.
* A layer of each kind is enough for the programs, since layers are emitted by
  the same code; the hybrid model has one of each. Dimensions keep the real
  divisibility rules (blocks of 32, groups of 64, heads of 64), and all four
  formats of a weight occur. The requests reach both storages, both forms of
  attention, a chip, a URI and a host target, a window too small, a cache
  too small and a prompt without tokens.
* Three writes of a bundle are a first one, one over it and one over that while
  an older load is under way; the one change of checkpoint or device can fall
  between any two steps.
* In the sessions page, window and capacity do not divide each other, a prompt
  takes up to three chunks, and the capacity is reached by prefill and by decode.
  Prompts include the empty one and one over the limit. Two tokens tell rows
  apart; nothing in the code branches on a token.

Fairness. `FairSpec` is weak fairness of every process's own steps: the operating
system runs a live process, and every call returns or fails. A crashed process
has no steps. Nothing is assumed of the clock, of faults or of who wins
`create_new`: the acquire loop is bounded, so no strong fairness is needed.
The sessions have no liveness property: a call runs to its return on the
caller's thread and the loop over the chunks of a prompt is finite.

`ModelLoader` and `Command` state none either: the writer may die anywhere, and a
command is a finite sequence of stages.

Deadlock is checked in every run but `generate_command`, where the command ends;
`Terminated` is the cache's stuttering end.

## 4. Proofs

`ArtifactCacheProofs` (for every finite or infinite set of processes, every
`MaxAttempts`, every leftover the instance allows):

* `TypeCorrect`: the type invariant, which includes that no loop exceeds its
  bound. Not inductive as it stands: `LockTimeout` is separated from the other
  loop steps only together with the fact that a publisher in the middle of an
  iteration has iterations left.
* `PublicationAtomic`, `LockReleased`, `StagingRemoved` hold under faults. The
  invariant says that a staging directory is private until it is renamed, that
  its contents follow from the control point of its publisher, and that the
  creator of the lock file that exists has not returned. `LockReleased` and
  `StagingRemoved` speak of the publishers that are not `Unlucky`, whatever
  happens to the others. `PublicationAtomic` assumes nothing, and in particular
  not that the lock excludes anyone.
* `SoleBuilderWithoutFaults`, `CompleteEntryKeptWithoutFaults`,
  `SuccessWithoutFaults`, `ReaderSeesOneEntryWithoutFaults` assume no faults
  and no removers, and nothing of what an earlier run left. The lock is *not* exclusive then (finding 1), so mutual
  exclusion cannot carry the argument. The invariant replaces it: while the entry
  is missing the lock file, if any, belongs to the one publisher under the lock,
  and only a publisher that leaves with a complete entry in place ever unlinks a
  lock others may have replaced; once the entry is complete, whoever is under the
  lock finds it and leaves.

`IreeSessionProofs` (for every geometry with `1 <= Window <= MaxKv`, both storages, every
session limit, kernel and set of prompts, failing devices included):

* `SessionTypeCorrect` and `PrefillSound` from the inductive invariant
  `SessionInv`: the type invariant; while a prefill is under way the planes hold
  the prompt up to the current chunk, which lies inside the limit; unallocated
  planes are zero; a finished prefill saw its prompt. `PrefillSeesPrompt` alone is
  not inductive: it says nothing of the chunks before the last one.
* `SessionCallsAreAdmitted` from the same invariant: whatever failed, was reset
  or refused before, a chunk of a prefill starts where the chunks before it end
  and ends inside the limit, and a decode has room for its row. With
  `ChunkImplementsCall` below, this is what the session's use of the program as one
  step rests on.
* `SessionMeetsContract`: `Spec => Contract!Spec`, the refinement of the same
  name as the run's property. A decode extends the context because the row it
  writes is the one at `position` and the rows below are kept; a failed decode
  may have stored that very row, which is outside the context; a released pool is
  zero, and so is what a later allocation makes of it. What the caller said is
  followed beside the planes, so that the row a decode stores is the caller's token
  and the context a prefill leaves is the caller's prompt.

`IreeSessionConvProofs` (for every kernel width, 0 included, and otherwise as
above):

* `PrefillConvolvesPrompt` and `ConvolutionContinuesAnswers` from `ConvInv`, which
  is inductive on top of `SessionInv`: the next chunk of a prefill enters with
  the trailing rows of the chunks before it, and an answer was computed from the
  context a decode would continue. The first is what carries `ConvSeesPrompt` over
  the chunk boundaries; the second relates the answer `ConvContinues` speaks of to
  the planes. The argument is about one operator: the trailing rows of `s \o t`
  depend on the trailing rows of `s` and on `t` only, also where both together
  are shorter than the kernel (lemma `ConvolutionContinues`).

`PagedChunkProofs` (for every page size, chunk size and capacity that
`configure_paged_kv` accepts, every content, both forms of attention):

* `ChunkTypeCorrect`, `ChunkStoresItsRows` and `ChunkAttendsToPrefix` from
  `ChunkInv`. None of the properties says anything of a call under way; the
  invariant does. Every write done so far left its page as the overlay has it,
  whether it took the page from the plane or, being clamped, from an earlier
  write; the inserts done so far replaced exactly those pages; the walk has seen
  the visible rows of the pages behind it. That is enough because the writes reach
  every page a real row of the chunk lies in, and the pages of the walk every key
  a query may see. The first is lemma `WritesCover`, where the one write more than
  the pages of an aligned chunk is needed. The proof does not use that page and
  chunk sizes divide each other, which `configure_paged_kv` demands.
* `ChunkImplementsCall`: `Spec => Call!Spec`, the refinement of `ChunkCall`. The step
  that packs the last page is the abstract return, every other step of a call a
  stutter: what the caller holds is the imported plane until then. `ChunkInv` gives
  the stored rows and the answers; the rest is that the next call starts from
  the planes the last one left.

`ModelLoaderProofs` (for every number of writes, set of checkpoints, devices and
requests):

* `LoadedModulesNotOlder`, `CompletedWritesAnswer` and `LoadsFailForCause` from
  `LoaderInv`. Its core is an order that nobody enforces with a lock: a module is
  written before the manifest that names it, so a module that can be read is at
  least as new as the manifest in the directory and as every manifest a loader
  holds, and a file that is cut off stays unreadable until a later write. For
  the completed write: what was written so far is of the write under way, and the
  bindings, which come last, are older until then; a split build has its decode
  module among the files that were written. A cache hit may serve
  executables of another request; `CacheKey` equality and the assumption that a
  schema determines whether a model is hybrid give the rest, and `portable` is
  what the key leaves out.

`CommandProofs`, `TargetProofs` and `LoweringProofs` (for every checkpoint, device
list, tokenizer and request):

* `GenerationAlwaysFits` from `CommandInv`: the number of positions is followed
  from the prompt to the overrides, the package's values, the shape profile, the
  bound model, the lowering configuration, the manifest and the session's
  limit. Each stage may enlarge it and none loses it: the lemmas say which fields the
  merges of defaults, metadata and overrides leave alone. The other half counts the tokens: in
  the loop the position is the length of the prompt and of what was generated.
  No stage's fold is opened; what a fold returns does not matter here.
* `SessionFitsGraph` from `GraphInv`: what the manifest says of the cache and what
  the load makes of another checkpoint's metadata or tensors is the resolved
  configuration the graph was built from. For the graph the operations of all
  layers have to be followed (`LayersFit`): layer `n` reads row `n` of the cache,
  and the schedule has as many entries as the manifest has layers. For the
  vocabulary: the load looks at the metadata first and at the first tensor with a
  row per token otherwise, and equal schema fingerprints carry it from the
  checkpoint of the load to that of the compile.
* `LoadedRunsOnItsChip` from `ChipInv`: reading a dump line by line keeps every
  device found so far, and the one under way, true to the chips (`LinesSound`);
  discovery, preference and resolution return one of them or the host
  (`ResolveSound`); the load accepts a bundle only if the device it resolves has
  the manifest's profile, whichever device list it is then.
* `CostModelDecides`: candidates of the registry fall into families by operation
  and encoding (`RegistryForm`), and within a family no two eligible ones have the
  same score (`OneBest`). The run sees the selections of a few models; the theorem
  covers all operations, encodings and targets.
* `EmittedCallsAreDefined` from `ScheduleKept` (the schedule the emitter walks is
  a list). Both sides are followed: a call of a layer is to a function the helper
  lists have under the same condition, for prefill and decode rows and for both
  storages; the calls inside the attention functions count, and a paged program
  also has to define the functions it is made of (`PagedDefines`); a convolution layer is one of those that got an operator of its own;
  and a quantized weight asks for a helper by the key under which
  `emit_quantized_helpers` wrote one, because both take the operation from the
  name of the weight and the number of rows from operation and mode
  (`WeightCall`). The layers are joined by `FlattenCalls`.

Every inductive invariant was checked by TLC on the instance of the
component's runs before it was proved.

The assumptions on constants are `CacheAssumption`, `SessionAssumption`,
`ChunkAssumption`, `LoaderAssumption`, and for the command `WidthAssumption`,
`RequestAssumption` (arguments are 32 bit numbers, an encoded prompt is a sequence of token
ids, and no prompt and answer together have 2^32 tokens),
`MetadataAssumption` (a prefill window and a number of layers in the metadata are
integers, a schedule is a list of strings), `DumpAssumption` (`Truthful`: a dump lists devices that are here, an
architecture under a device is its chip's) and `DescribedAssumption`, which says
what the flag `described` of a checkpoint means: the embedding is there, and the
tensors with a row per token have as many rows as the configured vocabulary. The
code checks neither of the last two; without them the properties are about
input that contradicts itself. TLC evaluates each assumption in the component's runs.

Recursion. The induction theorems of the library take an operator as their
parameter and cannot be used here. What the layers of a graph and the lines of a
dump amount to is proved with a least counterexample instead (`LeastNatural`, from
the well-foundedness of the naturals): the set of indices at which a statement
fails has no least element. The recursion itself is a recursive function
(in `Steps` for the layers, `ReadLines`, the library's `FlattenSeq`), whose existence is shown
the same way (`LayersSteps`, `ReadLinesSteps`, `FlattenSteps`).

Only model-checked:

* liveness, `EntryIsPublished` and `EveryoneReturns`: the proof system used here has
  no reasoning about fairness, so these stay with TLC for good;
* `SessionReadsOwnTensors`, `SessionParametersFit` and `FreshBundleLoads` follow one
  tensor through five folds (reading, aligning, naming, tying, planning), each of
  which would need the treatment of `LayersFit`;
* `WeightsAreLowered` and `ProgramComputesGraph` are statements about the models of
  the run: nothing in the code excludes a catalogue with two tensors of one name or
  a stored type that contradicts its encoding, and the dimensions of the synthetic
  fixture switch the rotation off that the graph has (`RopeTheta`);
* `CompleteCoverageLowers` is a statement about the models of the run, not about
  all: the lowering has limits on sizes that the dry run does not know
  (`SupportsDenseEmit`), and the models keep below them;
* `DecodeInvertsEncode` is about the tokenizers of the run: a vocabulary that lacks a
  byte, or has one id twice, does not invert. For those that do, the argument would
  go through the fold over the merges.

## 5. Findings

1. **The publish lock is not exclusive** (`dyninfer-cache/src/lib.rs:304`).
   `lock_is_stale` answers `true` when the lock file has just been released, and
   the waiter then unlinks whatever is at the path, possibly a third publisher's
   lock. No fault is needed. Without faults this is harmless, which
   `SoleBuilder` and the theorems of section 4 show.
2. **A complete entry can be deleted** (`lib.rs:145`). A publisher creates the lock
   file and stalls for longer than `STALE_SECS` before it writes its pid; the empty
   file is judged stale, since no living holder can be read from it, and another
   publisher unlinks it and takes the lock. Both stage a build and both find no
   entry at the recheck. The first renames its entry into place; the second then
   finds that `dir.exists()`, takes the complete entry for a leftover and removes
   it, against the comment at line 138. Nobody crashed and nothing was left over:
   the recheck and the existence test are two looks at the path.
3. **A session limit below the compiled capacity makes every call fail**
   (`session.rs:132`). The pool is sized by the session's limit where the comment
   says the compiled capacity; planes of fewer pages do not have the program's
   type, so the program refuses them.
4. **Padding enters the convolution state** (`lowering/dense_decoder.rs:1854`).
   The state is taken from the end of the right-padded window, so after a prompt
   that does not fill its last window a decode convolves rows of padding tokens.
   With prompts that fill it the state is what the comment says
   (`ConvContinues`). The same property is stated for a decode that continues an
   *answer*: a decode that failed after the device moved `conv_state` and is
   repeated rolls the state twice, which the attention rows do not suffer from.

5. **A stale decode module is run** (`dyninfer-runtime/src/model.rs:401`).
   `decode.vmfb` is loaded beside any paged manifest if it exists, and no writer
   removes the one of an earlier build. A hybrid model compiled into the
   directory of a split bundle runs its own prefill and the other model's decode,
   although the comments say that hybrid bundles have a single module.

Observations that contradict no comment and are therefore hazards in
`PROJECT.json` and not findings: `DYNINFER_PORTABLE_ATTN` is not part of the cache
key; a configuration that disagrees with the tensors is never noticed; native
float kernels win the selection on CUDA targets and are then refused; a bundle
replaced between load and first call is run under the old manifest.

## 6. Not modelled, and the plan

Not modelled:

* arithmetic inside kernels (projections, norms, RoPE, softmax,
  dequantization), which needs real numbers;
* parsing of bytes and JSON, the NPZ reader, MLIR text, foreign function
  bindings, the IREE compiler process (it succeeds or fails);
* commands other than generate and run, measurement and reporting, the hub
  lookup, which keep no state of their own;
* `list` and `verify` of the cache over several entries;
* a power failure that loses unsynced writes (the cache's crash kills processes
  and keeps the file system).

Next, in this order:

1. Proofs: `SessionParametersFit`, which needs the binder's fold.
2. `CachedModels`: several digests: `list`, `verify` and prefix `remove` with
   entries that vanish while they are listed.
