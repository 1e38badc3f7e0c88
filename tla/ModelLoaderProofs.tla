------------------------- MODULE ModelLoaderProofs -------------------------
(* Theorems about ModelLoader, for every number of compile calls, every       *)
(* interleaving of the writer with the reader and every place where the       *)
(* writer stops.                                                              *)
EXTENDS ModelLoader, SequenceTheorems, TLAPS

----------------------------------------------------------------------------
(* The inductive invariant *)

Builds ==
  {Build(x[1], x[2], x[3]) : x \in Checkpoints \X Devices \X Requests}
Files == [n : Int, build : Builds \cup {NoBuild}]
KeysOf == {c.keys : c \in Checkpoints} \cup {"none"}

LoaderTypes ==
  /\ checkpoint \in Checkpoints /\ device \in Devices
  /\ cache \subseteq Builds /\ writes \in Nat
  /\ bundle \in [BundleFiles -> Files]
  /\ job \in [pc : {"idle", "lookup", "compile", "write"}, build : Builds \cup {NoBuild},
              source : Builds \cup {NoBuild}, todo : Seq(BundleFiles)]
  /\ loader \in [pc : {"idle", "bindings", "inspect", "device", "parameters", "probe",
                       "loaded", "failed"},
                 manifest : Files, decode : BOOLEAN, bindings : Files, keys : KeysOf]
  /\ session \in [pc : {"none", "open", "failed"}, model : Files, decode : Files]

\* A file that can be read was produced by a write that has begun, for a build.
FilesAreNumbered ==
  \A f \in BundleFiles :
    \/ bundle[f] \in {Missing, Torn}
    \/ bundle[f].n \in 1..writes /\ bundle[f].build \in Builds

\* The file is of the write under way, from its source.
Fresh(f) == bundle[f].n = writes /\ bundle[f].build = job.source

\* The write under way has produced the files it has passed, and not yet the
\* bindings.
JobProgress ==
  /\ job.pc # "idle" => job.build \in Builds
  /\ job.pc = "write" =>
       /\ writes > 0 /\ job.source \in Builds /\ CacheKey(job.source) = CacheKey(job.build)
       /\ bundle["bindings"].n < writes
       /\ \/ job.todo = WriteOrder(job.source)
          \/ /\ job.todo = <<"decode", "manifest", "bindings">>
             /\ Split(job.source) /\ Fresh("model")
          \/ /\ job.todo = <<"manifest", "bindings">>
             /\ Fresh("model")
             /\ Split(job.source) => Fresh("decode")
          \/ /\ job.todo = <<"bindings">>
             /\ Fresh("model") /\ Fresh("manifest")
             /\ Split(job.source) => Fresh("decode")

\* A file that is cut off, or at least as new as write n.
NotOlder(f, n) == bundle[f] = Torn \/ bundle[f].n >= n

\* The modules are never older than a manifest, neither than the one in the
\* directory nor than the one the loader has read.
ModulesOf(manifest) ==
  /\ NotOlder("model", manifest.n)
  /\ Split(manifest.build) => NotOlder("decode", manifest.n)
BundleOrder == Readable(bundle["manifest"]) => ModulesOf(bundle["manifest"])

LoaderOrder ==
  /\ loader.decode => bundle["decode"] # Missing
  /\ loader.pc \notin {"idle", "failed"} =>
       /\ loader.manifest.n \in 1..writes /\ ModulesOf(loader.manifest)
       /\ Split(loader.manifest.build) => loader.decode
  /\ loader.pc # "loaded" => session = NoSession

LoaderInv ==
  LoaderTypes /\ FilesAreNumbered /\ JobProgress /\ BundleOrder /\ LoaderOrder
    /\ ModulesNotOlder /\ CompletedWriteAnswersRequest

----------------------------------------------------------------------------
(* Builds and the order of a write *)

\* A build has the fields of the checkpoint, the target and the request.
LEMMA BuildFields ==
  ASSUME NEW b \in Builds
  PROVE  /\ \E c \in Checkpoints : b.schema = c.schema /\ b.keys = c.keys /\ b.hybrid = c.hybrid
         /\ b.paged \in BOOLEAN
         /\ b = [schema |-> b.schema, keys |-> b.keys, hybrid |-> b.hybrid,
                 target |-> b.target, paged |-> b.paged, portable |-> b.portable]
<1>1. PICK x \in Checkpoints \X Devices \X Requests : b = Build(x[1], x[2], x[3])
  BY DEF Builds
<1>2. x[1] \in Checkpoints /\ x[3] \in Requests
  BY <1>1
<1> QED
  BY <1>1, <1>2, LoaderAssumption DEF Build

\* What the key of the cache leaves out is only portable: the schema tells hybrid
\* models from the others.
LEMMA SameKey ==
  ASSUME NEW a \in Builds, NEW b \in Builds, CacheKey(a) = CacheKey(b)
  PROVE  /\ [a EXCEPT !.portable = FALSE] = [b EXCEPT !.portable = FALSE]
         /\ a.schema = b.schema /\ a.target = b.target /\ a.keys = b.keys
         /\ Split(a) <=> Split(b)
<1>1. a.schema = b.schema /\ a.keys = b.keys /\ a.paged = b.paged /\ a.target = b.target
  BY DEF CacheKey
<1>2. a.hybrid = b.hybrid
  BY <1>1, BuildFields, LoaderAssumption
<1>3. ASSUME NEW x \in Builds
      PROVE  /\ DOMAIN x = {"schema", "keys", "hybrid", "target", "paged", "portable"}
             /\ [x EXCEPT !.portable = FALSE] =
                  [f \in DOMAIN x |-> IF f = "portable" THEN FALSE ELSE x[f]]
  BY BuildFields
<1>4. [f \in DOMAIN a |-> IF f = "portable" THEN FALSE ELSE a[f]] =
        [f \in DOMAIN b |-> IF f = "portable" THEN FALSE ELSE b[f]]
  <2>1. /\ DOMAIN a = {"schema", "keys", "hybrid", "target", "paged", "portable"}
        /\ DOMAIN b = DOMAIN a
    BY <1>3
  <2> QED
    BY <1>1, <1>2, <2>1
<1>5. [a EXCEPT !.portable = FALSE] = [b EXCEPT !.portable = FALSE]
  BY <1>3, <1>4
<1> QED
  BY <1>1, <1>2, <1>5 DEF Split

\* The place in the order, and what is left of it.
LEMMA TodoHeads ==
  ASSUME LoaderInv, job.pc = "write"
  PROVE  \/ /\ job.todo = <<"model", "decode", "manifest", "bindings">>
            /\ Head(job.todo) = "model" /\ Len(job.todo) = 4
            /\ Tail(job.todo) = <<"decode", "manifest", "bindings">>
            /\ Split(job.source)
         \/ /\ job.todo = <<"model", "manifest", "bindings">>
            /\ Head(job.todo) = "model" /\ Len(job.todo) = 3
            /\ Tail(job.todo) = <<"manifest", "bindings">>
            /\ ~Split(job.source)
         \/ /\ job.todo = <<"decode", "manifest", "bindings">>
            /\ Head(job.todo) = "decode" /\ Len(job.todo) = 3
            /\ Tail(job.todo) = <<"manifest", "bindings">>
            /\ Split(job.source) /\ Fresh("model")
         \/ /\ job.todo = <<"manifest", "bindings">>
            /\ Head(job.todo) = "manifest" /\ Len(job.todo) = 2
            /\ Tail(job.todo) = <<"bindings">>
            /\ Fresh("model")
            /\ Split(job.source) => Fresh("decode")
         \/ /\ job.todo = <<"bindings">>
            /\ Head(job.todo) = "bindings" /\ Len(job.todo) = 1
            /\ Fresh("model") /\ Fresh("manifest")
            /\ Split(job.source) => Fresh("decode")
<1>1. \/ job.todo = WriteOrder(job.source)
      \/ /\ job.todo = <<"decode", "manifest", "bindings">>
         /\ Split(job.source) /\ Fresh("model")
      \/ /\ job.todo = <<"manifest", "bindings">>
         /\ Fresh("model")
         /\ Split(job.source) => Fresh("decode")
      \/ /\ job.todo = <<"bindings">>
         /\ Fresh("model") /\ Fresh("manifest")
         /\ Split(job.source) => Fresh("decode")
  BY DEF LoaderInv, JobProgress
<1>2. CASE job.todo = WriteOrder(job.source) /\ Split(job.source)
  BY <1>2 DEF WriteOrder
<1>3. CASE job.todo = WriteOrder(job.source) /\ ~Split(job.source)
  BY <1>3 DEF WriteOrder
<1>4. CASE job.todo = <<"decode", "manifest", "bindings">> /\ Split(job.source) /\ Fresh("model")
  BY <1>4
<1>5. CASE /\ job.todo = <<"manifest", "bindings">> /\ Fresh("model")
           /\ Split(job.source) => Fresh("decode")
  BY <1>5
<1>6. CASE /\ job.todo = <<"bindings">> /\ Fresh("model") /\ Fresh("manifest")
           /\ Split(job.source) => Fresh("decode")
  BY <1>6
<1> QED
  BY <1>1, <1>2, <1>3, <1>4, <1>5, <1>6

----------------------------------------------------------------------------
(* The steps *)

\* An empty directory, no job and no model.
LEMMA InitLoader == Init => LoaderInv
<1> SUFFICES ASSUME Init PROVE LoaderInv
  OBVIOUS
<1>1. LoaderTypes
  <2>1. Missing \in Files
    BY DEF Missing, Files
  <2>2. <<>> \in Seq(BundleFiles)
    BY EmptySeq
  <2>3. job \in [pc : {"idle", "lookup", "compile", "write"}, build : Builds \cup {NoBuild},
                 source : Builds \cup {NoBuild}, todo : Seq(BundleFiles)]
    BY <2>2 DEF Init, NoJob
  <2>4. loader \in [pc : {"idle", "bindings", "inspect", "device", "parameters", "probe",
                          "loaded", "failed"},
                    manifest : Files, decode : BOOLEAN, bindings : Files, keys : KeysOf]
    BY <2>1 DEF Init, NoLoad, KeysOf
  <2>5. session \in [pc : {"none", "open", "failed"}, model : Files, decode : Files]
    BY <2>1 DEF Init, NoSession
  <2> QED
    BY <2>1, <2>3, <2>4, <2>5 DEF Init, LoaderTypes
<1>2. FilesAreNumbered
  BY DEF Init, FilesAreNumbered
<1>3. JobProgress
  BY DEF Init, JobProgress, NoJob
<1>4. BundleOrder
  BY DEF Init, BundleOrder, Readable, Missing, BundleFiles
<1>5. LoaderOrder
  BY DEF Init, LoaderOrder, NoLoad
<1>6. ModulesNotOlder
  BY DEF Init, ModulesNotOlder, NoSession
<1>7. CompletedWriteAnswersRequest
  BY DEF Init, CompletedWriteAnswersRequest
<1> QED
  BY <1>1, <1>2, <1>3, <1>4, <1>5, <1>6, <1>7 DEF LoaderInv

\* The checkpoint and the devices are not part of what is kept.
LEMMA EnvironmentStep == LoaderInv /\ (ReplaceCheckpoint \/ ChangeDevices) => LoaderInv'
<1> SUFFICES ASSUME LoaderInv, ReplaceCheckpoint \/ ChangeDevices PROVE LoaderInv'
  OBVIOUS
<1>1. /\ cache' = cache /\ bundle' = bundle /\ job' = job /\ loader' = loader
      /\ session' = session /\ writes' = writes
      /\ checkpoint' \in Checkpoints /\ device' \in Devices
  BY DEF ReplaceCheckpoint, ChangeDevices, LoaderInv, LoaderTypes
<1> QED
  BY <1>1
  DEF LoaderInv, LoaderTypes, FilesAreNumbered, JobProgress, Fresh, BundleOrder, LoaderOrder,
      ModulesOf, NotOlder, ModulesNotOlder, CompletedWriteAnswersRequest

\* A job outside its writes, and one that gives up: the directory stays as it is.
\* If the write was under way, the bindings are not of it.
LEMMA JobQuietStep ==
  ASSUME LoaderInv, UNCHANGED <<checkpoint, device, bundle, loader, session, writes>>,
         cache' = cache,
         job' \in [pc : {"idle", "lookup", "compile"}, build : Builds \cup {NoBuild},
                   source : Builds \cup {NoBuild}, todo : Seq(BundleFiles)],
         job'.pc # "idle" => job'.build \in Builds
  PROVE  LoaderInv'
<1>1. /\ checkpoint' = checkpoint /\ device' = device /\ bundle' = bundle /\ loader' = loader
      /\ session' = session /\ writes' = writes
  OBVIOUS
<1>2. job'.pc # "write"
  OBVIOUS
<1>3. LoaderTypes'
  <2>1. job' \in [pc : {"idle", "lookup", "compile", "write"}, build : Builds \cup {NoBuild},
                  source : Builds \cup {NoBuild}, todo : Seq(BundleFiles)]
    OBVIOUS
  <2> QED
    BY <1>1, <2>1 DEF LoaderInv, LoaderTypes
<1>4. JobProgress'
  BY <1>1, <1>2 DEF JobProgress
<1>5. CompletedWriteAnswersRequest'
  <2>1. CASE job.pc = "write"
    <3>1. bundle["bindings"].n < writes /\ writes \in Nat
      BY <2>1 DEF LoaderInv, JobProgress, LoaderTypes
    <3>2. bundle["bindings"].n # writes
      <4>1. bundle["bindings"].n \in Int
        BY DEF LoaderInv, LoaderTypes, Files, BundleFiles
      <4> QED
        BY <3>1, <4>1
    <3> QED
      BY <1>1, <3>2 DEF CompletedWriteAnswersRequest
  <2>2. CASE job.pc # "write"
    BY <1>1, <2>2 DEF LoaderInv, CompletedWriteAnswersRequest
  <2> QED
    BY <2>1, <2>2
<1>6. FilesAreNumbered' /\ BundleOrder' /\ LoaderOrder' /\ ModulesNotOlder'
  BY <1>1 DEF LoaderInv, FilesAreNumbered, BundleOrder, LoaderOrder, ModulesOf, NotOlder,
              ModulesNotOlder
<1> QED
  BY <1>3, <1>4, <1>5, <1>6 DEF LoaderInv

\* Binding, a cache miss, and giving up.
LEMMA JobStepsInv ==
  ASSUME LoaderInv, (\E r \in Requests : BindJob(r)) \/ LookupMiss \/ Abort
  PROVE  LoaderInv'
<1>1. <<>> \in Seq(BundleFiles)
  BY EmptySeq
<1>2. /\ checkpoint \in Checkpoints /\ device \in Devices
      /\ job \in [pc : {"idle", "lookup", "compile", "write"}, build : Builds \cup {NoBuild},
                  source : Builds \cup {NoBuild}, todo : Seq(BundleFiles)]
      /\ job.pc # "idle" => job.build \in Builds
  BY DEF LoaderInv, LoaderTypes, JobProgress
<1>3. /\ UNCHANGED <<checkpoint, device, bundle, loader, session, writes>> /\ cache' = cache
  BY DEF BindJob, LookupMiss, Abort, JobStep
<1>4. ASSUME NEW r \in Requests, BindJob(r)
      PROVE  LoaderInv'
  <2> DEFINE b == Build(checkpoint, device, r)
  <2>1. b \in Builds
    <3>1. <<checkpoint, device, r>> \in Checkpoints \X Devices \X Requests
      BY <1>2
    <3> QED
      BY <3>1 DEF Builds
  <2>2. job' = [pc |-> "lookup", build |-> b, source |-> NoBuild, todo |-> <<>>]
    BY <1>4 DEF BindJob, JobStep, NoJob
  <2> HIDE DEF b
  <2>3. /\ job' \in [pc : {"idle", "lookup", "compile"}, build : Builds \cup {NoBuild},
                     source : Builds \cup {NoBuild}, todo : Seq(BundleFiles)]
        /\ job'.build \in Builds
    BY <1>1, <2>1, <2>2
  <2> QED
    BY <1>3, <2>3, JobQuietStep
<1>5. CASE LookupMiss
  <2>1. job' = [job EXCEPT !.pc = "compile"] /\ job.pc = "lookup"
    BY <1>5 DEF LookupMiss, JobStep
  <2>2. /\ job' \in [pc : {"idle", "lookup", "compile"}, build : Builds \cup {NoBuild},
                     source : Builds \cup {NoBuild}, todo : Seq(BundleFiles)]
        /\ job'.build \in Builds
    BY <1>2, <2>1
  <2> QED
    BY <1>3, <2>2, JobQuietStep
<1>6. CASE Abort
  <2>1. job' = [pc |-> "idle", build |-> NoBuild, source |-> NoBuild, todo |-> <<>>]
    BY <1>6 DEF Abort, JobStep, NoJob
  <2>2. /\ job' \in [pc : {"idle", "lookup", "compile"}, build : Builds \cup {NoBuild},
                     source : Builds \cup {NoBuild}, todo : Seq(BundleFiles)]
        /\ job'.pc = "idle"
    BY <1>1, <2>1
  <2> QED
    BY <1>3, <2>2, JobQuietStep
<1> QED
  BY <1>4, <1>5, <1>6

\* A write begins, from the cache or from the compiler: its number is new.
LEMMA BeginWriteInv ==
  ASSUME LoaderInv, LookupHit \/ CompileAndPublish
  PROVE  LoaderInv'
<1>1. PICK h \in Builds :
        /\ CacheKey(h) = CacheKey(job.build)
        /\ job' = [job EXCEPT !.pc = "write", !.source = h, !.todo = WriteOrder(h)]
        /\ cache' \subseteq Builds
  <2>1. CASE LookupHit
    <3>1. PICK h \in cache :
            /\ CacheKey(h) = CacheKey(job.build)
            /\ job' = [job EXCEPT !.pc = "write", !.source = h, !.todo = WriteOrder(h)]
            /\ cache' = cache
      BY <2>1 DEF LookupHit, JobStep
    <3> QED
      BY <3>1 DEF LoaderInv, LoaderTypes
  <2>2. CASE CompileAndPublish
    <3>1. /\ job' = [job EXCEPT !.pc = "write", !.source = job.build,
                                !.todo = WriteOrder(job.build)]
          /\ cache' = cache \cup {job.build} /\ job.pc = "compile"
      BY <2>2 DEF CompileAndPublish, JobStep
    <3>2. job.build \in Builds /\ cache \subseteq Builds
      BY <3>1 DEF LoaderInv, LoaderTypes, JobProgress
    <3> QED
      BY <3>1, <3>2
  <2> QED
    BY <2>1, <2>2
<1>2. /\ checkpoint' = checkpoint /\ device' = device /\ loader' = loader
      /\ session' = session /\ bundle' = bundle /\ writes' = writes + 1
      /\ job.pc \in {"lookup", "compile"}
  BY DEF LookupHit, CompileAndPublish, JobStep
<1>3. /\ writes \in Nat /\ job.build \in Builds
      /\ job \in [pc : {"idle", "lookup", "compile", "write"}, build : Builds \cup {NoBuild},
                  source : Builds \cup {NoBuild}, todo : Seq(BundleFiles)]
  BY <1>2 DEF LoaderInv, LoaderTypes, JobProgress
<1>4. WriteOrder(h) \in Seq(BundleFiles)
  <2>1. /\ <<"model", "decode", "manifest", "bindings">> \in Seq(BundleFiles)
        /\ <<"model", "manifest", "bindings">> \in Seq(BundleFiles)
    BY DEF BundleFiles
  <2> QED
    BY <2>1 DEF WriteOrder
<1>5. /\ job'.pc = "write" /\ job'.build = job.build /\ job'.source = h
      /\ job'.todo = WriteOrder(h)
      /\ job' \in [pc : {"idle", "lookup", "compile", "write"}, build : Builds \cup {NoBuild},
                   source : Builds \cup {NoBuild}, todo : Seq(BundleFiles)]
  BY <1>1, <1>3, <1>4
<1>6. LoaderTypes'
  BY <1>1, <1>2, <1>3, <1>5 DEF LoaderInv, LoaderTypes
<1>7. /\ FilesAreNumbered'
      /\ bundle["bindings"].n < writes + 1
  <2>1. ASSUME NEW f \in BundleFiles
        PROVE  /\ \/ bundle[f] \in {Missing, Torn}
                  \/ bundle[f].n \in 1..(writes + 1) /\ bundle[f].build \in Builds
               /\ bundle[f].n < writes + 1
    <3>1. \/ bundle[f] \in {Missing, Torn}
          \/ bundle[f].n \in 1..writes /\ bundle[f].build \in Builds
      BY DEF LoaderInv, FilesAreNumbered
    <3>2. Missing.n = 0 /\ Torn.n = -1
      BY DEF Missing, Torn
    <3> QED
      BY <1>3, <3>1, <3>2
  <2>2. "bindings" \in BundleFiles
    BY DEF BundleFiles
  <2> QED
    BY <1>2, <2>1, <2>2 DEF FilesAreNumbered
<1>8. JobProgress'
  <2>1. writes' > 0
    BY <1>2, <1>3
  <2>2. CacheKey(job.source)' = CacheKey(job.build)'
    BY <1>1, <1>5 DEF CacheKey
  <2> QED
    BY <1>1, <1>2, <1>3, <1>5, <1>7, <2>1, <2>2 DEF JobProgress
<1>9. BundleOrder' /\ LoaderOrder' /\ ModulesNotOlder'
  <2>1. \A n : n \in 1..writes => n \in 1..(writes + 1)
    BY <1>3
  <2> QED
    BY <1>2, <2>1 DEF LoaderInv, BundleOrder, LoaderOrder, ModulesOf, NotOlder, ModulesNotOlder
<1>10. CompletedWriteAnswersRequest'
  BY <1>5 DEF CompletedWriteAnswersRequest
<1> QED
  BY <1>6, <1>7, <1>8, <1>9, <1>10 DEF LoaderInv

\* A file is truncated or replaced by one of the write under way: no file becomes
\* older than it was, and none goes missing.
LEMMA ReplaceFile ==
  ASSUME LoaderInv, NEW f \in BundleFiles, NEW new \in Files,
         new = Torn \/ (writes > 0 /\ new.n = writes /\ new.build \in Builds),
         bundle' = [bundle EXCEPT ![f] = new],
         UNCHANGED <<checkpoint, device, cache, loader, session, writes>>
  PROVE  /\ bundle' \in [BundleFiles -> Files]
         /\ \A g \in BundleFiles : bundle'[g] = IF g = f THEN new ELSE bundle[g]
         /\ FilesAreNumbered'
         /\ f # "manifest" => BundleOrder'
         /\ LoaderOrder' /\ ModulesNotOlder'
<1>1. /\ loader' = loader /\ session' = session /\ writes' = writes /\ writes \in Nat
      /\ bundle \in [BundleFiles -> Files]
  BY DEF LoaderInv, LoaderTypes
<1>2. /\ bundle' \in [BundleFiles -> Files]
      /\ \A g \in BundleFiles : bundle'[g] = IF g = f THEN new ELSE bundle[g]
  BY <1>1
<1>3. Missing.n = 0 /\ Torn.n = -1
  BY DEF Missing, Torn
<1>4. FilesAreNumbered'
  <2>1. new \in {Missing, Torn} \/ (new.n \in 1..writes /\ new.build \in Builds)
    BY <1>1
  <2> QED
    BY <1>1, <1>2, <2>1 DEF LoaderInv, FilesAreNumbered
<1>5. ASSUME NEW g \in BundleFiles, NEW n \in 1..writes, bundle[g] = Torn \/ bundle[g].n >= n
      PROVE  bundle'[g] = Torn \/ bundle'[g].n >= n
  BY <1>1, <1>2, <1>5
<1>6. "model" \in BundleFiles /\ "decode" \in BundleFiles /\ "manifest" \in BundleFiles
  BY DEF BundleFiles
<1>7. ASSUME NEW m, m.n \in 1..writes, ModulesOf(m) PROVE ModulesOf(m)'
  BY <1>5, <1>6, <1>7 DEF ModulesOf, NotOlder
<1>8. ASSUME f # "manifest" PROVE BundleOrder'
  <2>1. bundle'["manifest"] = bundle["manifest"]
    BY <1>2, <1>6, <1>8
  <2>2. SUFFICES ASSUME Readable(bundle["manifest"])
                 PROVE  ModulesOf(bundle["manifest"])'
    BY <2>1 DEF BundleOrder, Readable
  <2>3. bundle["manifest"].n \in 1..writes
    BY <1>3, <1>6, <2>2 DEF LoaderInv, FilesAreNumbered, Readable
  <2>4. ModulesOf(bundle["manifest"])
    BY <2>2 DEF LoaderInv, BundleOrder
  <2> DEFINE m == bundle["manifest"]
  <2>5. NotOlder("model", m.n) /\ (Split(m.build) => NotOlder("decode", m.n))
    BY <2>4 DEF ModulesOf
  <2>6. /\ bundle'["model"] = Torn \/ bundle'["model"].n >= m.n
        /\ Split(m.build) => bundle'["decode"] = Torn \/ bundle'["decode"].n >= m.n
    BY <1>5, <1>6, <2>3, <2>5 DEF NotOlder
  <2> QED
    BY <2>1, <2>6 DEF ModulesOf, NotOlder
<1>9. LoaderOrder'
  <2>1. loader.decode => bundle'["decode"] # Missing
    <3>1. new # Missing
      BY <1>1, <1>3
    <3> QED
      BY <1>2, <1>6, <3>1 DEF LoaderInv, LoaderOrder
  <2>2. ASSUME loader.pc \notin {"idle", "failed"} PROVE ModulesOf(loader.manifest)'
    <3> DEFINE m == loader.manifest
    <3>1. m.n \in 1..writes /\ ModulesOf(m)
      BY <2>2 DEF LoaderInv, LoaderOrder
    <3>2. /\ bundle'["model"] = Torn \/ bundle'["model"].n >= m.n
          /\ Split(m.build) => bundle'["decode"] = Torn \/ bundle'["decode"].n >= m.n
      BY <1>5, <1>6, <3>1 DEF ModulesOf, NotOlder
    <3> QED
      BY <1>1, <3>2 DEF ModulesOf, NotOlder
  <2> QED
    BY <1>1, <2>1, <2>2 DEF LoaderInv, LoaderOrder
<1>10. ModulesNotOlder'
  BY <1>1 DEF LoaderInv, ModulesNotOlder
<1> QED
  BY <1>2, <1>4, <1>8, <1>9, <1>10

\* fs::write truncates the next file of the order.
LEMMA TruncateFileInv == LoaderInv /\ TruncateFile => LoaderInv'
<1> SUFFICES ASSUME LoaderInv, TruncateFile PROVE LoaderInv'
  OBVIOUS
<1> DEFINE f == Head(job.todo)
<1>1. /\ job.pc = "write" /\ job' = job /\ bundle' = [bundle EXCEPT ![f] = Torn]
      /\ UNCHANGED <<checkpoint, device, cache, loader, session, writes>>
      /\ writes' = writes
  BY DEF TruncateFile, JobStep
<1>2. f \in BundleFiles /\ Torn \in Files /\ Torn.n = -1
  BY <1>1, TodoHeads DEF BundleFiles, Torn, Files
<1> HIDE DEF f
<1>3. /\ bundle' \in [BundleFiles -> Files]
      /\ \A g \in BundleFiles : bundle'[g] = IF g = f THEN Torn ELSE bundle[g]
      /\ FilesAreNumbered' /\ LoaderOrder' /\ ModulesNotOlder'
      /\ f # "manifest" => BundleOrder'
  BY <1>1, <1>2, ReplaceFile
<1>4. LoaderTypes'
  BY <1>1, <1>3 DEF LoaderInv, LoaderTypes
<1>5. BundleOrder'
  <2>1. CASE f = "manifest"
    <3>1. bundle'["manifest"].n = -1
      BY <1>2, <1>3, <2>1
    <3> QED
      BY <3>1 DEF BundleOrder, Readable
  <2> QED
    BY <1>3, <2>1
<1>6. JobProgress'
  <2>1. /\ job.build \in Builds /\ writes > 0 /\ job.source \in Builds
        /\ CacheKey(job.source) = CacheKey(job.build) /\ bundle["bindings"].n < writes
        /\ writes \in Nat
    BY <1>1 DEF LoaderInv, JobProgress, LoaderTypes
  <2>2. bundle'["bindings"].n < writes
    BY <1>2, <1>3, <2>1 DEF BundleFiles
  <2>3. \/ job.todo = WriteOrder(job.source)
        \/ /\ job.todo = <<"decode", "manifest", "bindings">>
           /\ Split(job.source) /\ Fresh("model")'
        \/ /\ job.todo = <<"manifest", "bindings">>
           /\ Fresh("model")'
           /\ Split(job.source) => Fresh("decode")'
        \/ /\ job.todo = <<"bindings">>
           /\ Fresh("model")' /\ Fresh("manifest")'
           /\ Split(job.source) => Fresh("decode")'
    <3>1. \A g \in BundleFiles : g # f /\ Fresh(g) => Fresh(g)'
      BY <1>1, <1>3 DEF Fresh
    <3>2. "model" \in BundleFiles /\ "decode" \in BundleFiles /\ "manifest" \in BundleFiles
      BY DEF BundleFiles
    <3> QED
      BY <1>1, <3>1, <3>2, TodoHeads DEF WriteOrder, f
  <2> QED
    BY <1>1, <2>1, <2>2, <2>3 DEF JobProgress, CacheKey
<1>7. CompletedWriteAnswersRequest'
  BY <1>1 DEF CompletedWriteAnswersRequest
<1> QED
  BY <1>3, <1>4, <1>5, <1>6, <1>7 DEF LoaderInv

\* The file is written; with the bindings the write is complete.
LEMMA WriteFileInv == LoaderInv /\ WriteFile => LoaderInv'
<1> SUFFICES ASSUME LoaderInv, WriteFile PROVE LoaderInv'
  OBVIOUS
<1> DEFINE f == Head(job.todo)
           new == [n |-> writes, build |-> IF f = "bindings" THEN job.build ELSE job.source]
<1>1. /\ job.pc = "write" /\ bundle' = [bundle EXCEPT ![f] = new]
      /\ UNCHANGED <<checkpoint, device, cache, loader, session, writes>>
      /\ writes' = writes
      /\ job' = IF Len(job.todo) = 1 THEN NoJob ELSE [job EXCEPT !.todo = Tail(job.todo)]
  BY DEF WriteFile, JobStep
<1>2. /\ job.build \in Builds /\ writes > 0 /\ job.source \in Builds
      /\ CacheKey(job.source) = CacheKey(job.build) /\ bundle["bindings"].n < writes
      /\ writes \in Nat
      /\ job \in [pc : {"idle", "lookup", "compile", "write"}, build : Builds \cup {NoBuild},
                  source : Builds \cup {NoBuild}, todo : Seq(BundleFiles)]
  BY <1>1 DEF LoaderInv, JobProgress, LoaderTypes
<1>3. /\ f \in BundleFiles /\ new \in Files /\ new.n = writes /\ new.build \in Builds
      /\ new.build = IF f = "bindings" THEN job.build ELSE job.source
  BY <1>1, <1>2, TodoHeads DEF BundleFiles, Files
<1>4. \/ /\ f = "model" /\ Len(job.todo) # 1
         /\ \/ Tail(job.todo) = <<"decode", "manifest", "bindings">> /\ Split(job.source)
            \/ Tail(job.todo) = <<"manifest", "bindings">> /\ ~Split(job.source)
      \/ /\ f = "decode" /\ Len(job.todo) # 1 /\ Tail(job.todo) = <<"manifest", "bindings">>
         /\ Split(job.source) /\ Fresh("model")
      \/ /\ f = "manifest" /\ Len(job.todo) # 1 /\ Tail(job.todo) = <<"bindings">>
         /\ Fresh("model")
         /\ Split(job.source) => Fresh("decode")
      \/ /\ f = "bindings" /\ Len(job.todo) = 1
         /\ Fresh("model") /\ Fresh("manifest")
         /\ Split(job.source) => Fresh("decode")
  <2>1. 4 # 1 /\ 3 # 1 /\ 2 # 1
    OBVIOUS
  <2> QED
    BY <1>1, <2>1, TodoHeads, Zenon
<1> HIDE DEF f, new
<1>5. /\ bundle' \in [BundleFiles -> Files]
      /\ \A g \in BundleFiles : bundle'[g] = IF g = f THEN new ELSE bundle[g]
      /\ FilesAreNumbered' /\ LoaderOrder' /\ ModulesNotOlder'
      /\ f # "manifest" => BundleOrder'
  BY <1>1, <1>2, <1>3, ReplaceFile
<1>6. /\ "model" \in BundleFiles /\ "decode" \in BundleFiles /\ "manifest" \in BundleFiles
      /\ "bindings" \in BundleFiles
  BY DEF BundleFiles
<1>7. BundleOrder'
  <2>1. CASE f = "manifest"
    <3>1. /\ bundle'["manifest"] = new /\ bundle'["model"] = bundle["model"]
          /\ bundle'["decode"] = bundle["decode"]
      BY <1>5, <1>6, <2>1
    <3>2. /\ bundle["model"].n = writes /\ new.n = writes /\ new.build = job.source
          /\ Split(job.source) => bundle["decode"].n = writes
      BY <1>3, <1>4, <2>1 DEF Fresh
    <3>3. writes >= writes
      BY <1>2
    <3> QED
      BY <3>1, <3>2, <3>3 DEF BundleOrder, ModulesOf, NotOlder
  <2> QED
    BY <1>5, <2>1
<1>8. CASE f # "bindings"
  <2>1. /\ job' = [job EXCEPT !.todo = Tail(job.todo)]
        /\ Tail(job.todo) \in {<<"decode", "manifest", "bindings">>,
                               <<"manifest", "bindings">>, <<"bindings">>}
    BY <1>1, <1>4, <1>8
  <2>2. Tail(job.todo) \in Seq(BundleFiles)
    <3>1. /\ <<"decode", "manifest", "bindings">> \in Seq(BundleFiles)
          /\ <<"manifest", "bindings">> \in Seq(BundleFiles)
          /\ <<"bindings">> \in Seq(BundleFiles)
      BY <1>6
    <3> QED
      BY <2>1, <3>1
  <2>3. /\ job'.pc = "write" /\ job'.build = job.build /\ job'.source = job.source
        /\ job'.todo = Tail(job.todo)
        /\ job' \in [pc : {"idle", "lookup", "compile", "write"}, build : Builds \cup {NoBuild},
                     source : Builds \cup {NoBuild}, todo : Seq(BundleFiles)]
    BY <1>1, <1>2, <2>1, <2>2
  <2>4. LoaderTypes'
    BY <1>1, <1>5, <2>3 DEF LoaderInv, LoaderTypes
  <2>5. bundle'["bindings"].n < writes
    BY <1>2, <1>5, <1>6, <1>8
  <2>6. \A g \in BundleFiles : g = f \/ Fresh(g) => Fresh(g)'
    BY <1>1, <1>3, <1>5, <1>8, <2>3 DEF Fresh
  <2>7. \/ /\ job'.todo = <<"decode", "manifest", "bindings">>
           /\ Split(job.source) /\ Fresh("model")'
        \/ /\ job'.todo = <<"manifest", "bindings">>
           /\ Fresh("model")'
           /\ Split(job.source) => Fresh("decode")'
        \/ /\ job'.todo = <<"bindings">>
           /\ Fresh("model")' /\ Fresh("manifest")'
           /\ Split(job.source) => Fresh("decode")'
    BY <1>4, <1>6, <1>8, <2>3, <2>6
  <2>8. JobProgress'
    BY <1>1, <1>2, <2>3, <2>5, <2>7 DEF JobProgress, CacheKey
  <2>9. CompletedWriteAnswersRequest'
    BY <2>3 DEF CompletedWriteAnswersRequest
  <2> QED
    BY <1>5, <1>7, <2>4, <2>8, <2>9 DEF LoaderInv
<1>9. CASE f = "bindings"
  <2>1. job' = [pc |-> "idle", build |-> NoBuild, source |-> NoBuild, todo |-> <<>>]
    BY <1>1, <1>4, <1>9 DEF NoJob
  <2>2. /\ job'.pc = "idle"
        /\ job' \in [pc : {"idle", "lookup", "compile", "write"}, build : Builds \cup {NoBuild},
                     source : Builds \cup {NoBuild}, todo : Seq(BundleFiles)]
    BY <2>1, EmptySeq
  <2>3. LoaderTypes'
    BY <1>1, <1>5, <2>2 DEF LoaderInv, LoaderTypes
  <2>4. JobProgress'
    BY <2>2 DEF JobProgress
  <2>5. /\ bundle'["bindings"].build = job.build
        /\ \A g \in FilesOf(job.source) :
             bundle'[g].n = writes /\ bundle'[g].build = job.source
    BY <1>3, <1>4, <1>5, <1>6, <1>9 DEF Fresh, FilesOf
  <2>6. /\ [job.source EXCEPT !.portable = FALSE] = [job.build EXCEPT !.portable = FALSE]
        /\ FilesOf(job.build) = FilesOf(job.source)
    BY <1>2, SameKey DEF FilesOf
  <2>7. CompletedWriteAnswersRequest'
    <3>1. FilesOf(bundle'["bindings"].build) = FilesOf(job.source)
      BY <2>5, <2>6
    <3>2. ASSUME NEW g \in FilesOf(bundle'["bindings"].build)
          PROVE  /\ bundle'[g].n = writes'
                 /\ [bundle'[g].build EXCEPT !.portable = FALSE]
                      = [bundle'["bindings"].build EXCEPT !.portable = FALSE]
      <4>1. bundle'[g].n = writes' /\ bundle'[g].build = job.source
        BY <1>1, <2>5, <3>1, <3>2
      <4> QED
        BY <2>5, <2>6, <4>1, Zenon
    <3> QED
      BY <3>2, Zenon DEF CompletedWriteAnswersRequest
  <2> QED
    BY <1>5, <1>7, <2>3, <2>4, <2>7 DEF LoaderInv
<1> QED
  BY <1>8, <1>9

\* A step of the load that keeps the invariant of the loader keeps the rest.
LEMMA LoadQuietStep ==
  ASSUME LoaderInv,
         UNCHANGED <<checkpoint, device, cache, bundle, job, writes>>,
         loader' \in [pc : {"idle", "bindings", "inspect", "device", "parameters", "probe",
                            "loaded", "failed"},
                      manifest : Files, decode : BOOLEAN, bindings : Files, keys : KeysOf],
         session' \in [pc : {"none", "open", "failed"}, model : Files, decode : Files],
         LoaderOrder', ModulesNotOlder'
  PROVE  LoaderInv'
<1>1. /\ checkpoint' = checkpoint /\ device' = device /\ cache' = cache /\ bundle' = bundle
      /\ job' = job /\ writes' = writes
  OBVIOUS
<1> QED
  BY <1>1
  DEF LoaderInv, LoaderTypes, FilesAreNumbered, JobProgress, Fresh, BundleOrder, ModulesOf,
      NotOlder, CompletedWriteAnswersRequest

\* A check of the load fails: the model and its session are gone.
LEMMA LoadFailsStep ==
  ASSUME LoaderInv, loader.pc # "loaded",
         UNCHANGED <<checkpoint, device, cache, bundle, job, session, writes>>,
         loader' = [NoLoad EXCEPT !.pc = "failed"]
  PROVE  LoaderInv'
<1>1. loader' = [pc |-> "failed", manifest |-> Missing, decode |-> FALSE,
                 bindings |-> Missing, keys |-> "none"]
  BY DEF NoLoad
<1>2. Missing \in Files /\ "none" \in KeysOf
  BY DEF Missing, Files, KeysOf
<1>3. /\ loader' \in [pc : {"idle", "bindings", "inspect", "device", "parameters", "probe",
                            "loaded", "failed"},
                      manifest : Files, decode : BOOLEAN, bindings : Files, keys : KeysOf]
      /\ loader'.pc = "failed" /\ ~loader'.decode
  <2>1. loader'.pc = "failed" /\ ~loader'.decode
    BY <1>1
  <2>2. \A m \in Files, k \in KeysOf :
          [pc |-> "failed", manifest |-> m, decode |-> FALSE, bindings |-> m, keys |-> k]
            \in [pc : {"idle", "bindings", "inspect", "device", "parameters", "probe",
                       "loaded", "failed"},
                 manifest : Files, decode : BOOLEAN, bindings : Files, keys : KeysOf]
    OBVIOUS
  <2> QED
    BY <1>1, <1>2, <2>1, <2>2
<1>4. session = NoSession /\ session' = session
  BY DEF LoaderInv, LoaderOrder
<1>5. LoaderOrder'
  BY <1>3, <1>4 DEF LoaderOrder, NoSession, Missing, NoBuild
<1>6. ModulesNotOlder'
  BY <1>4 DEF ModulesNotOlder, NoSession
<1>7. session' \in [pc : {"none", "open", "failed"}, model : Files, decode : Files]
  BY <1>4 DEF LoaderInv, LoaderTypes
<1> QED
  BY <1>3, <1>5, <1>6, <1>7, LoadQuietStep

\* A check of the load passes: the manifest it began with is still the loader's.
LEMMA LoadAdvancesStep ==
  ASSUME LoaderInv, loader.pc \notin {"idle", "loaded", "failed"},
         UNCHANGED <<checkpoint, device, cache, bundle, job, session, writes>>,
         loader' \in [pc : {"idle", "bindings", "inspect", "device", "parameters", "probe",
                            "loaded", "failed"},
                      manifest : Files, decode : BOOLEAN, bindings : Files, keys : KeysOf],
         loader'.manifest = loader.manifest, loader'.decode = loader.decode
  PROVE  LoaderInv'
<1>1. session = NoSession /\ session' = session /\ bundle' = bundle /\ writes' = writes
  BY DEF LoaderInv, LoaderOrder
<1>2. LoaderOrder'
  <2>1. session' = NoSession
    BY <1>1
  <2>2. /\ loader.decode => bundle["decode"] # Missing
        /\ loader.manifest.n \in 1..writes /\ ModulesOf(loader.manifest)
        /\ Split(loader.manifest.build) => loader.decode
    BY DEF LoaderInv, LoaderOrder
  <2> QED
    BY <1>1, <2>1, <2>2 DEF LoaderOrder, ModulesOf, NotOlder, NoSession, Missing, NoBuild
<1>3. ModulesNotOlder'
  BY <1>1 DEF ModulesNotOlder, NoSession
<1>4. session' \in [pc : {"none", "open", "failed"}, model : Files, decode : Files]
  BY <1>1 DEF LoaderInv, LoaderTypes
<1> QED
  BY <1>2, <1>3, <1>4, LoadQuietStep

\* The manifest that can be read has its modules beside it.
LEMMA ReadManifestInv == LoaderInv /\ ReadManifest => LoaderInv'
<1> SUFFICES ASSUME LoaderInv, ReadManifest PROVE LoaderInv'
  OBVIOUS
<1> DEFINE file == bundle["manifest"]
           decode == file.build.paged /\ bundle["decode"] # Missing
<1>1. /\ loader.pc = "idle"
      /\ loader' = IF Readable(file)
                     THEN [NoLoad EXCEPT !.pc = "bindings", !.manifest = file, !.decode = decode]
                     ELSE [NoLoad EXCEPT !.pc = "failed"]
      /\ UNCHANGED <<checkpoint, device, cache, bundle, job, session, writes>>
  BY DEF ReadManifest, LoadStep
<1>2. CASE ~Readable(file)
  BY <1>1, <1>2, LoadFailsStep
<1>3. CASE Readable(file)
  <2>1. loader' = [pc |-> "bindings", manifest |-> file, decode |-> decode,
                   bindings |-> Missing, keys |-> "none"]
    BY <1>1, <1>3 DEF NoLoad
  <2>2. Missing \in Files /\ "none" \in KeysOf /\ file \in Files /\ "decode" \in BundleFiles
    BY DEF Missing, Files, KeysOf, LoaderInv, LoaderTypes, BundleFiles
  <2>3. file.n \in 1..writes /\ file.build \in Builds
    <3>1. "manifest" \in BundleFiles /\ Missing.n = 0 /\ Torn.n = -1
      BY DEF BundleFiles, Missing, Torn
    <3> QED
      BY <1>3, <3>1 DEF LoaderInv, FilesAreNumbered, Readable
  <2>4. decode \in BOOLEAN
    OBVIOUS
  <2>5. ModulesOf(file)
    BY <1>3 DEF LoaderInv, BundleOrder
  <2>6. Split(file.build) => decode
    <3>1. SUFFICES ASSUME Split(file.build) PROVE bundle["decode"] # Missing
      BY <3>1 DEF Split
    <3>2. bundle["decode"] = Torn \/ bundle["decode"].n >= file.n
      BY <2>5, <3>1 DEF ModulesOf, NotOlder
    <3>3. Missing.n = 0 /\ Torn.n = -1
      BY DEF Missing, Torn
    <3> HIDE DEF file
    <3> QED
      BY <2>3, <3>2, <3>3
  <2>7. decode => bundle["decode"] # Missing
    OBVIOUS
  <2>8. /\ session = NoSession /\ session' = session /\ bundle' = bundle /\ writes' = writes
        /\ session' \in [pc : {"none", "open", "failed"}, model : Files, decode : Files]
    BY <1>1 DEF LoaderInv, LoaderOrder, LoaderTypes
  <2> HIDE DEF file, decode
  <2>9. /\ loader' \in [pc : {"idle", "bindings", "inspect", "device", "parameters", "probe",
                              "loaded", "failed"},
                        manifest : Files, decode : BOOLEAN, bindings : Files, keys : KeysOf]
        /\ loader'.pc = "bindings" /\ loader'.manifest = file /\ loader'.decode = decode
    BY <2>1, <2>2, <2>4
  <2>10. LoaderOrder'
    BY <2>3, <2>5, <2>6, <2>7, <2>8, <2>9
    DEF LoaderOrder, ModulesOf, NotOlder, NoSession, Missing, NoBuild
  <2>11. ModulesNotOlder'
    BY <2>8 DEF ModulesNotOlder, NoSession
  <2> QED
    BY <1>1, <2>8, <2>9, <2>10, <2>11, LoadQuietStep
<1> QED
  BY <1>2, <1>3

\* The later checks of the load.
LEMMA LoadStepsInv ==
  ASSUME LoaderInv,
         ReadBindings \/ InspectCheckpoint \/ CheckDevice \/ OpenParameters \/ Probe
  PROVE  LoaderInv'
<1>1. /\ UNCHANGED <<checkpoint, device, cache, bundle, job, session, writes>>
      /\ loader.pc \notin {"idle", "loaded", "failed"}
  BY DEF ReadBindings, InspectCheckpoint, CheckDevice, OpenParameters, Probe, LoadStep
<1>2. /\ loader \in [pc : {"idle", "bindings", "inspect", "device", "parameters", "probe",
                           "loaded", "failed"},
                     manifest : Files, decode : BOOLEAN, bindings : Files, keys : KeysOf]
      /\ bundle["bindings"] \in Files /\ checkpoint.keys \in KeysOf
  BY DEF LoaderInv, LoaderTypes, BundleFiles, KeysOf
<1>3. \/ loader' = [NoLoad EXCEPT !.pc = "failed"]
      \/ loader' = [loader EXCEPT !.pc = "inspect", !.bindings = bundle["bindings"]]
      \/ loader' = [loader EXCEPT !.pc = "device", !.keys = checkpoint.keys]
      \/ \E pc \in {"parameters", "probe", "loaded"} : loader' = [loader EXCEPT !.pc = pc]
  BY DEF ReadBindings, InspectCheckpoint, CheckDevice, OpenParameters, Probe, LoadStep
<1>4. CASE loader' = [NoLoad EXCEPT !.pc = "failed"]
  BY <1>1, <1>4, LoadFailsStep
<1>5. CASE loader' # [NoLoad EXCEPT !.pc = "failed"]
  <2>1. /\ loader' \in [pc : {"idle", "bindings", "inspect", "device", "parameters", "probe",
                              "loaded", "failed"},
                        manifest : Files, decode : BOOLEAN, bindings : Files, keys : KeysOf]
        /\ loader'.manifest = loader.manifest /\ loader'.decode = loader.decode
    BY <1>2, <1>3, <1>5
  <2> QED
    BY <1>1, <2>1, LoadAdvancesStep
<1> QED
  BY <1>4, <1>5

\* A session that opened read modules that were whole, so as new as the manifest.
LEMMA OpenSessionInv == LoaderInv /\ OpenSession => LoaderInv'
<1> SUFFICES ASSUME LoaderInv, OpenSession PROVE LoaderInv'
  OBVIOUS
<1> DEFINE decode == IF loader.decode THEN bundle["decode"] ELSE Missing
           ok == Readable(bundle["model"]) /\ decode # Torn
<1>1. /\ loader.pc = "loaded" /\ loader' = loader /\ bundle' = bundle /\ writes' = writes
      /\ session' = [pc |-> IF ok THEN "open" ELSE "failed", model |-> bundle["model"],
                     decode |-> decode]
      /\ UNCHANGED <<checkpoint, device, cache, bundle, job, writes>>
  BY DEF OpenSession
<1>2. bundle["model"] \in Files /\ decode \in Files
  BY DEF LoaderInv, LoaderTypes, BundleFiles, Missing, Files
<1>3. /\ loader.manifest.n \in 1..writes /\ ModulesOf(loader.manifest)
      /\ Split(loader.manifest.build) => loader.decode
  BY <1>1 DEF LoaderInv, LoaderOrder
<1>4. ASSUME ok
      PROVE  /\ bundle["model"].n >= loader.manifest.n
             /\ Split(loader.manifest.build) => decode.n >= loader.manifest.n
  <2>1. Torn.n = -1
    BY DEF Torn
  <2>2. bundle["model"] # Torn
    BY <1>4, <2>1 DEF Readable
  <2> QED
    BY <1>3, <1>4, <2>2 DEF ModulesOf, NotOlder
<1>5. ok \in BOOLEAN
  OBVIOUS
<1> HIDE DEF decode, ok
<1>6. /\ session' \in [pc : {"none", "open", "failed"}, model : Files, decode : Files]
      /\ session'.pc = "open" => ok
      /\ session'.model = bundle["model"] /\ session'.decode = decode
  BY <1>1, <1>2
<1>7. ModulesNotOlder'
  BY <1>1, <1>4, <1>6 DEF ModulesNotOlder
<1>8. LoaderOrder'
  BY <1>1 DEF LoaderInv, LoaderOrder, ModulesOf, NotOlder
<1>9. loader' \in [pc : {"idle", "bindings", "inspect", "device", "parameters", "probe",
                         "loaded", "failed"},
                   manifest : Files, decode : BOOLEAN, bindings : Files, keys : KeysOf]
  BY <1>1 DEF LoaderInv, LoaderTypes
<1> QED
  BY <1>1, <1>6, <1>7, <1>8, <1>9, LoadQuietStep

\* Nothing of the model is left.
LEMMA DropInv == LoaderInv /\ Drop => LoaderInv'
<1> SUFFICES ASSUME LoaderInv, Drop PROVE LoaderInv'
  OBVIOUS
<1>1. /\ loader' = NoLoad /\ session' = NoSession
      /\ UNCHANGED <<checkpoint, device, cache, bundle, job, writes>>
  BY DEF Drop
<1>2. Missing \in Files /\ "none" \in KeysOf
  BY DEF Missing, Files, KeysOf
<1>3. /\ loader' \in [pc : {"idle", "bindings", "inspect", "device", "parameters", "probe",
                            "loaded", "failed"},
                      manifest : Files, decode : BOOLEAN, bindings : Files, keys : KeysOf]
      /\ loader'.pc = "idle" /\ loader'.decode = FALSE
      /\ session' \in [pc : {"none", "open", "failed"}, model : Files, decode : Files]
      /\ session'.pc = "none"
  BY <1>1, <1>2 DEF NoLoad, NoSession
<1>4. LoaderOrder' /\ ModulesNotOlder'
  BY <1>1, <1>3 DEF LoaderOrder, ModulesNotOlder, NoSession, Missing, NoBuild
<1> QED
  BY <1>1, <1>3, <1>4, LoadQuietStep

----------------------------------------------------------------------------
(* The theorems *)

\* Every step keeps the invariant.
LEMMA NextLoader == LoaderInv /\ [Next]_vars => LoaderInv'
<1> SUFFICES ASSUME LoaderInv, [Next]_vars PROVE LoaderInv'
  OBVIOUS
<1>1. CASE UNCHANGED vars
  BY <1>1
  DEF vars, LoaderInv, LoaderTypes, FilesAreNumbered, JobProgress, Fresh, BundleOrder,
      LoaderOrder, ModulesOf, NotOlder, ModulesNotOlder, CompletedWriteAnswersRequest
<1>2. CASE Next
  BY <1>2, EnvironmentStep, JobStepsInv, BeginWriteInv, TruncateFileInv, WriteFileInv,
     ReadManifestInv, LoadStepsInv, OpenSessionInv, DropInv
  DEF Next
<1> QED
  BY <1>1, <1>2

\* The invariant holds throughout.
THEOREM LoaderInvariant == Spec => []LoaderInv
<1> QED
  BY InitLoader, NextLoader, PTL DEF Spec

\* The writer's order, model, decode, manifest, bindings, and the loader's, manifest
\* before modules, are enough: however often the bundle is rewritten under a load, and
\* wherever a write stops, a session that opens runs no module older than its manifest.
THEOREM LoadedModulesNotOlder == Spec => []ModulesNotOlder
<1>1. LoaderInv => ModulesNotOlder
  BY DEF LoaderInv
<1> QED
  BY <1>1, LoaderInvariant, PTL

\* A write that reached its bindings left one bundle, made for the request's
\* checkpoint, target and shapes: the manifest and the model module, and the decode
\* module where the build has one, though they may come from the cache.
THEOREM CompletedWritesAnswer == Spec => []CompletedWriteAnswersRequest
<1>1. LoaderInv => CompletedWriteAnswersRequest
  BY DEF LoaderInv
<1> QED
  BY <1>1, LoaderInvariant, PTL

\* The bundle is complete, nothing changed since the loader began to read it, and it
\* was made for the checkpoint and the device that are there.
BundleServes ==
  /\ Snapshot
  /\ job.pc # "write" /\ writes > 0 /\ bundle["bindings"].n = writes
  /\ bundle["bindings"].build.schema = checkpoint.schema
  /\ bundle["bindings"].build.keys = checkpoint.keys
  /\ bundle["bindings"].build.target = device

\* Then manifest and bindings agree on what the loader compares.
LEMMA ServingBundle ==
  ASSUME LoaderInv, BundleServes
  PROVE  /\ bundle["model"].n = writes /\ bundle["manifest"].n = writes
         /\ bundle["manifest"].build.schema = checkpoint.schema
         /\ bundle["manifest"].build.target = device
<1> DEFINE m == bundle["manifest"].build
           b == bundle["bindings"].build
<1>1. /\ bundle["model"].n = writes /\ bundle["manifest"].n = writes
      /\ [m EXCEPT !.portable = FALSE] = [b EXCEPT !.portable = FALSE]
  BY DEF LoaderInv, CompletedWriteAnswersRequest, FilesOf, BundleServes
<1>2. m \in Builds /\ b \in Builds
  <2>1. /\ "manifest" \in BundleFiles /\ "bindings" \in BundleFiles
        /\ Missing.n = 0 /\ Torn.n = -1 /\ writes > 0
        /\ bundle["bindings"].n = writes
    BY DEF BundleFiles, Missing, Torn, BundleServes
  <2>2. writes \in Nat
    BY DEF LoaderInv, LoaderTypes
  <2> QED
    BY <1>1, <2>1, <2>2 DEF LoaderInv, FilesAreNumbered
<1>3. b.schema = checkpoint.schema /\ b.target = device
  BY DEF BundleServes
<1> HIDE DEF m, b
<1>4. m.schema = b.schema /\ m.target = b.target
  <2>1. ASSUME NEW x \in Builds
        PROVE  /\ [x EXCEPT !.portable = FALSE].schema = x.schema
               /\ [x EXCEPT !.portable = FALSE].target = x.target
    BY BuildFields
  <2> QED
    BY <1>1, <1>2, <2>1
<1> QED
  BY <1>1, <1>3, <1>4 DEF m

\* No check of load_bundle rejects such a bundle.
LEMMA ServingBundleLoads ==
  ASSUME LoaderInv, BundleServes, [Next]_vars, loader.pc # "failed"
  PROVE  loader'.pc # "failed"
<1>1. /\ bundle["model"].n = writes /\ bundle["manifest"].n = writes
      /\ bundle["manifest"].build.schema = checkpoint.schema
      /\ bundle["manifest"].build.target = device
  BY ServingBundle
<1>2. /\ writes > 0 /\ bundle["bindings"].n = writes
      /\ bundle["bindings"].build.schema = checkpoint.schema
      /\ bundle["bindings"].build.keys = checkpoint.keys
      /\ loader.pc = "idle" \/ loader.manifest = bundle["manifest"]
      /\ loader.pc \in {"idle", "bindings"} \/ loader.bindings = bundle["bindings"]
      /\ loader.pc \in {"idle", "bindings", "inspect"} \/ loader.keys = checkpoint.keys
  BY DEF BundleServes, Snapshot
<1>3. Missing.n = 0 /\ NoLoad.pc = "idle" /\ DOMAIN loader = DOMAIN NoLoad /\ writes \in Nat
  BY DEF Missing, NoLoad, LoaderInv, LoaderTypes
<1>4. loader.decode => bundle["decode"] # Missing
  BY DEF LoaderInv, LoaderOrder
<1>5. CASE ReadManifest
  <2>1. Readable(bundle["manifest"])
    BY <1>1, <1>2 DEF Readable
  <2> QED
    BY <1>5, <2>1 DEF ReadManifest, LoadStep, NoLoad
<1>6. CASE ReadBindings
  <2>1. Readable(bundle["bindings"])
    BY <1>2 DEF Readable
  <2> QED
    BY <1>3, <1>6, <2>1 DEF ReadBindings, LoadStep, NoLoad
<1>7. CASE InspectCheckpoint
  <2>1. checkpoint.schema = loader.manifest.build.schema
    BY <1>1, <1>2, <1>7 DEF InspectCheckpoint, LoadStep
  <2> QED
    BY <1>3, <1>7, <2>1 DEF InspectCheckpoint, LoadStep, NoLoad
<1>8. CASE CheckDevice
  <2>1. device = loader.manifest.build.target
    BY <1>1, <1>2, <1>8 DEF CheckDevice, LoadStep
  <2> QED
    BY <1>3, <1>8, <2>1 DEF CheckDevice, LoadStep, NoLoad
<1>9. CASE OpenParameters
  <2>1. /\ loader.bindings.build.keys = loader.keys
        /\ loader.bindings.build.schema = loader.manifest.build.schema
    BY <1>1, <1>2, <1>9 DEF OpenParameters, LoadStep
  <2> QED
    BY <1>3, <1>9, <2>1 DEF OpenParameters, LoadStep, NoLoad
<1>10. CASE Probe
  <2>1. bundle["model"] # Missing
    BY <1>1, <1>2, <1>3
  <2> QED
    BY <1>3, <1>4, <1>10, <2>1 DEF Probe, LoadStep, NoLoad
<1>11. CASE Drop
  BY <1>11, <1>3 DEF Drop
<1>12. CASE loader' = loader
  BY <1>12
<1>13. \/ loader' = loader \/ Drop \/ ReadManifest \/ ReadBindings \/ InspectCheckpoint
       \/ CheckDevice \/ OpenParameters \/ Probe
  BY DEF Next, vars, ReplaceCheckpoint, ChangeDevices, BindJob, LookupHit, LookupMiss,
         CompileAndPublish, TruncateFile, WriteFile, Abort, JobStep, OpenSession
<1> QED
  BY <1>5, <1>6, <1>7, <1>8, <1>9, <1>10, <1>11, <1>12, <1>13

\* A load fails only for a cause: a bundle that a completed write left, read without a
\* change in between, for the checkpoint and the device that are there, loads. The
\* executables of such a bundle may have been compiled for an earlier call.
THEOREM LoadsFailForCause == Spec => LoadFailsForCause
<1>1. LoaderInv /\ [Next]_vars =>
        [(loader.pc # "failed" /\ loader'.pc = "failed") =>
          ~(/\ Snapshot
            /\ job.pc # "write" /\ writes > 0 /\ bundle["bindings"].n = writes
            /\ bundle["bindings"].build.schema = checkpoint.schema
            /\ bundle["bindings"].build.keys = checkpoint.keys
            /\ bundle["bindings"].build.target = device)]_vars
  BY ServingBundleLoads DEF BundleServes
<1> QED
  BY <1>1, LoaderInvariant, PTL DEF Spec, LoadFailsForCause
=============================================================================
