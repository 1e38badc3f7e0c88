----------------------------- MODULE ModelLoader -----------------------------
(***************************************************************************)
(* The bundle directory between its writer and its reader: one process     *)
(* runs compile_to_bundle, file by file and with a shared executable       *)
(* cache, while another runs load_bundle and create_session; either may    *)
(* see the checkpoint replaced or the devices changed, and the writer may  *)
(* stop anywhere. What a compile makes of its inputs, and what a load      *)
(* compares, is in Command; here a build is                                *)
(* [schema, keys, hybrid, target, paged, portable].                        *)
(*                                                                         *)
(* A bundle file is [n, build]: the write that produced it, 0 for a file   *)
(* that is missing and -1 for one cut off in the middle, and the build it  *)
(* was made for.                                                           *)
(***************************************************************************)
EXTENDS Integers, Sequences, FiniteSets

CONSTANTS
  Checkpoints,  \* a set of [schema, keys, hybrid]: what the directory may hold;
                \* keys are the tensor keys and files, not part of the schema
  Devices,      \* the target profiles that may be discovered
  Requests,     \* a set of [paged, portable]
  MaxWrites,    \* bound on the compile jobs that reach the bundle
  MaxChanges    \* bound on replaced checkpoints and changed devices

\* The schema tells convolutional models from the others.
ASSUME LoaderAssumption ==
  /\ \A a, b \in Checkpoints : a.schema = b.schema => a.hybrid = b.hybrid
  /\ \A r \in Requests : r.paged \in BOOLEAN /\ r.portable \in BOOLEAN
  /\ MaxWrites \in Nat /\ MaxChanges \in Nat

VARIABLES
  checkpoint,  \* what the checkpoint directory holds
  device,      \* what discovery finds
  cache,       \* the builds whose executables are published
  bundle,      \* the files of the bundle directory
  job,         \* the compile call that is under way
  loader,      \* the loading of the bundle, and the model it gave
  session,     \* the modules a session opened
  writes,      \* the number of writes of the bundle that began
  changes      \* replaced checkpoints and changed devices

vars == <<checkpoint, device, cache, bundle, job, loader, session, writes, changes>>

Build(c, d, r) ==
  [schema |-> c.schema, keys |-> c.keys, hybrid |-> c.hybrid, target |-> d,
   paged |-> r.paged, portable |-> r.portable]
NoBuild == [schema |-> "none"]
Missing == [n |-> 0, build |-> NoBuild]
Torn == [n |-> -1, build |-> NoBuild]
BundleFiles == {"model", "decode", "manifest", "bindings"}
NoJob == [pc |-> "idle", build |-> NoBuild, source |-> NoBuild, todo |-> <<>>]
NoLoad == [pc |-> "idle", manifest |-> Missing, decode |-> FALSE, bindings |-> Missing,
           keys |-> "none"]
NoSession == [pc |-> "none", model |-> Missing, decode |-> Missing]
Readable(file) == file.n > 0
\* Two modules: pages without short convolutions.
Split(b) == b.paged /\ ~b.hybrid

Init ==
  /\ checkpoint \in Checkpoints
  /\ device \in Devices
  /\ cache = {}
  /\ bundle = [f \in BundleFiles |-> Missing]
  /\ job = NoJob /\ loader = NoLoad /\ session = NoSession
  /\ writes = 0 /\ changes = 0

----------------------------------------------------------------------------
(* The surroundings *)

ReplaceCheckpoint ==
  /\ changes < MaxChanges
  /\ checkpoint' \in Checkpoints \ {checkpoint}
  /\ changes' = changes + 1
  /\ UNCHANGED <<device, cache, bundle, job, loader, session, writes>>

ChangeDevices ==
  /\ changes < MaxChanges
  /\ device' \in Devices \ {device}
  /\ changes' = changes + 1
  /\ UNCHANGED <<checkpoint, cache, bundle, job, loader, session, writes>>

----------------------------------------------------------------------------
(* compile_to_bundle. Every reason to give up, and a crash, is Abort. *)

JobStep(pc, next) ==
  /\ job.pc = pc
  /\ job' = next
  /\ UNCHANGED <<checkpoint, device, loader, session, changes>>

\* Target, architecture, binding and coverage; the inspection is one moment.
BindJob(r) ==
  /\ writes < MaxWrites
  /\ JobStep("idle", [NoJob EXCEPT !.pc = "lookup", !.build = Build(checkpoint, device, r)])
  /\ UNCHANGED <<cache, bundle, writes>>

\* Mutant: the key does not tell two targets apart.
CacheKeyAnyTarget(b) == <<b.schema, b.keys, b.paged>>

\* cache_key_for: the binding plan has the tensor keys, the resolved
\* configuration the cache size. The environment variable behind portable is
\* not part of it.
CacheKey(b) == <<b.schema, b.keys, b.paged, b.target>>

\* Mutant: bindings.json and the manifest before the executables they describe.
WriteOrderManifestFirst(b) ==
  IF Split(b) THEN <<"bindings", "manifest", "model", "decode">>
  ELSE <<"bindings", "manifest", "model">>

\* Mutant: the manifest of an existing bundle is left alone.
WriteOrderNoManifest(b) ==
  IF Split(b) THEN <<"model", "decode", "bindings">> ELSE <<"model", "bindings">>

\* The order in which write_bundle and materialize_bundle_from_cache write the
\* files. A decode.vmfb that is not to be written is not removed either.
WriteOrder(b) ==
  IF Split(b) THEN <<"model", "decode", "manifest", "bindings">>
  ELSE <<"model", "manifest", "bindings">>

LookupHit ==
  \E h \in cache :
    /\ job.pc = "lookup"
    /\ CacheKey(h) = CacheKey(job.build)
    /\ JobStep("lookup", [job EXCEPT !.pc = "write", !.source = h, !.todo = WriteOrder(h)])
    /\ writes' = writes + 1
    /\ UNCHANGED <<cache, bundle>>

LookupMiss ==
  /\ job.pc = "lookup"
  /\ \A h \in cache : CacheKey(h) # CacheKey(job.build)
  /\ JobStep("lookup", [job EXCEPT !.pc = "compile"])
  /\ UNCHANGED <<cache, bundle, writes>>

\* LocalCompiler::compile and publish.
CompileAndPublish ==
  /\ JobStep("compile", [job EXCEPT !.pc = "write", !.source = job.build,
                                    !.todo = WriteOrder(job.build)])
  /\ cache' = cache \cup {job.build}
  /\ writes' = writes + 1
  /\ UNCHANGED bundle

\* fs::write truncates, then writes.
TruncateFile ==
  /\ job.todo # <<>> /\ bundle[Head(job.todo)] # Torn
  /\ bundle' = [bundle EXCEPT ![Head(job.todo)] = Torn]
  /\ JobStep("write", job)
  /\ UNCHANGED <<cache, writes>>

\* The bindings are the job's own, the rest comes from the cache or compiler.
WriteFile ==
  LET f == Head(job.todo)
  IN /\ job.todo # <<>> /\ bundle[f] = Torn
     /\ bundle' = [bundle EXCEPT ![f] =
                     [n |-> writes, build |-> IF f = "bindings" THEN job.build
                                              ELSE job.source]]
     /\ JobStep("write", IF Len(job.todo) = 1 THEN NoJob ELSE [job EXCEPT !.todo = Tail(@)])
     /\ UNCHANGED <<cache, writes>>

Abort ==
  /\ job.pc # "idle"
  /\ JobStep(job.pc, NoJob)
  /\ UNCHANGED <<cache, bundle, writes>>

----------------------------------------------------------------------------
(* load_bundle *)

LoadStep(pc, ok, next) ==
  /\ loader.pc = pc
  /\ loader' = IF ok THEN next ELSE [NoLoad EXCEPT !.pc = "failed"]
  /\ UNCHANGED <<checkpoint, device, cache, bundle, job, session, writes, changes>>

\* decode.vmfb is looked for beside any paged program, and only its presence
\* decides.
ReadManifest ==
  LET file == bundle["manifest"]
  IN LoadStep("idle", Readable(file),
              [NoLoad EXCEPT !.pc = "bindings", !.manifest = file,
                             !.decode = file.build.paged /\ bundle["decode"] # Missing])

ReadBindings ==
  LoadStep("bindings", Readable(bundle["bindings"]),
           [loader EXCEPT !.pc = "inspect", !.bindings = bundle["bindings"]])

InspectCheckpoint ==
  LoadStep("inspect", checkpoint.schema = loader.manifest.build.schema,
           [loader EXCEPT !.pc = "device", !.keys = checkpoint.keys])

CheckDevice ==
  LoadStep("device", device = loader.manifest.build.target,
           [loader EXCEPT !.pc = "parameters"])

\* The provider plan finds every component of the bindings by its key, and the
\* manifest has the same components.
OpenParameters ==
  LoadStep("parameters", /\ loader.bindings.build.keys = loader.keys
                         /\ loader.bindings.build.schema = loader.manifest.build.schema,
           [loader EXCEPT !.pc = "probe"])

\* open_context reads both modules and throws them away.
Probe ==
  LoadStep("probe", bundle["model"] # Missing /\ (loader.decode => bundle["decode"] # Missing),
           [loader EXCEPT !.pc = "loaded"])

\* create_session; the native session opens the modules by path again, at its
\* first call. A module that was cut off does not load.
OpenSession ==
  LET decode == IF loader.decode THEN bundle["decode"] ELSE Missing
      ok == Readable(bundle["model"]) /\ decode # Torn
  IN /\ loader.pc = "loaded" /\ session = NoSession
     /\ session' = [pc |-> IF ok THEN "open" ELSE "failed", model |-> bundle["model"],
                    decode |-> decode]
     /\ UNCHANGED <<checkpoint, device, cache, bundle, job, loader, writes, changes>>

\* The model, or the error, is dropped with its session.
Drop ==
  /\ loader.pc \in {"loaded", "failed"}
  /\ loader' = NoLoad /\ session' = NoSession
  /\ UNCHANGED <<checkpoint, device, cache, bundle, job, writes, changes>>

Next ==
  \/ ReplaceCheckpoint \/ ChangeDevices
  \/ \E r \in Requests : BindJob(r)
  \/ LookupHit \/ LookupMiss \/ CompileAndPublish \/ TruncateFile \/ WriteFile \/ Abort
  \/ ReadManifest \/ ReadBindings \/ InspectCheckpoint \/ CheckDevice \/ OpenParameters
  \/ Probe \/ OpenSession \/ Drop

Spec == Init /\ [][Next]_vars

----------------------------------------------------------------------------
(* Properties *)

\* A session never runs a module older than the manifest it was loaded with,
\* whatever the writer does meanwhile and wherever it stopped; the two modules
\* of an attention-only paged program are both there.
ModulesNotOlder ==
  session.pc = "open" =>
    /\ session.model.n >= loader.manifest.n
    /\ Split(loader.manifest.build) => session.decode.n >= loader.manifest.n

\* The files a build puts beside its bindings.
FilesOf(b) == {"model", "manifest"} \cup (IF Split(b) THEN {"decode"} ELSE {})

\* A write that was completed left one bundle: both modules where the build has
\* two, manifest and bindings of the same write, made for the checkpoint, the
\* target and the shapes of the request, from the cache or not.
CompletedWriteAnswersRequest ==
  job.pc # "write" /\ writes > 0 /\ bundle["bindings"].n = writes =>
    \A f \in FilesOf(bundle["bindings"].build) :
      /\ bundle[f].n = writes
      /\ [bundle[f].build EXCEPT !.portable = FALSE]
           = [bundle["bindings"].build EXCEPT !.portable = FALSE]

\* What the loader has read so far is what is there now.
Snapshot ==
  /\ loader.pc = "idle" \/ loader.manifest = bundle["manifest"]
  /\ loader.pc \in {"idle", "bindings"} \/ loader.bindings = bundle["bindings"]
  /\ loader.pc \in {"idle", "bindings", "inspect"} \/ loader.keys = checkpoint.keys

\* A load fails only for a cause: a write that is under way or was cut off, a
\* bundle that changed under the load, another checkpoint or another device.
LoadFailsForCause ==
  [][(loader.pc # "failed" /\ loader'.pc = "failed") =>
       ~(/\ Snapshot
         /\ job.pc # "write" /\ writes > 0 /\ bundle["bindings"].n = writes
         /\ bundle["bindings"].build.schema = checkpoint.schema
         /\ bundle["bindings"].build.keys = checkpoint.keys
         /\ bundle["bindings"].build.target = device)]_vars

\* A comment of load_bundle says that a hybrid paged program ships a single
\* combined module; then its session has no decode module.
HybridHasOneModule ==
  session.pc = "open" /\ loader.manifest.build.hybrid => session.decode = Missing
=============================================================================
