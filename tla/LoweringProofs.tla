--------------------------- MODULE LoweringProofs ---------------------------
(* Theorems about the kernel selection and the emitted programs of Command,  *)
(* for every checkpoint, graph and target profile.                           *)
EXTENDS CommandProofs, FiniteSetTheorems

----------------------------------------------------------------------------
(* One family of candidates at a time *)

\* A backend of the candidate is that of the driver.
RunsOn(c, driver) == c.backends \cap {"any", driver} # {}

\* Of the candidates without a parameter, one for each operation has the score
\* 100, and one more has less.
LEMMA SemanticForm ==
  ASSUME NEW c \in SemanticCandidates
  PROVE  /\ c.enc = NoEncoding /\ c.rank = 0 /\ c.multiple = 1 /\ c.backends = {"any"}
         /\ c.features = {} /\ c.accumulator = "f32"
         /\ \/ /\ c.score = 100
               /\ \A d \in SemanticCandidates : d.op = c.op /\ d.score = 100 => d = c
            \/ /\ c.score = 90 /\ c.op = "Attention"
               /\ \A d \in SemanticCandidates : d.score = 90 => d = c
<1>1. ASSUME NEW op, NEW type, NEW lowering, NEW score,
             NEW d, d = SemanticCandidate(op, type, lowering, score)
      PROVE  /\ d.op = op /\ d.score = score /\ d.enc = NoEncoding /\ d.rank = 0
             /\ d.multiple = 1 /\ d.backends = {"any"} /\ d.features = {}
             /\ d.accumulator = "f32"
  BY <1>1 DEF SemanticCandidate, Candidate
<1> QED
  BY <1>1, SMT DEF SemanticCandidates

\* A plain candidate is settled by its operation, its encoding and its score.
LEMMA PlainForm ==
  ASSUME NEW c \in PlainCandidates \cup NativeCandidates
  PROVE  /\ c.enc[1] = "plain" /\ c.backends = {"any"} /\ c.score \in {100, 200}
         /\ \A d \in PlainCandidates \cup NativeCandidates :
              d.op = c.op /\ d.enc = c.enc /\ d.score = c.score => d = c
<1> DEFINE Portable(op, type) ==
             Candidate(<<"dense", op, type, "portable">>, op, <<"plain", type>>, "f32",
                       LogicalRank(op), 1, {"any"}, {}, <<PlainLowering[op]>>, 100)
           Native(op, type) ==
             Candidate(<<"dense", op, type, "native">>, op, <<"plain", type>>, type,
                       LogicalRank(op), 1, {"any"}, {NativeFeature[type]}, <<"native", op>>, 200)
<1>1. /\ \A op, type : /\ Portable(op, type).op = op /\ Portable(op, type).enc = <<"plain", type>>
                       /\ Portable(op, type).backends = {"any"} /\ Portable(op, type).score = 100
      /\ \A op, type : /\ Native(op, type).op = op /\ Native(op, type).enc = <<"plain", type>>
                       /\ Native(op, type).backends = {"any"} /\ Native(op, type).score = 200
  BY DEF Candidate
<1>2. /\ PlainCandidates = {Portable(op, type) : op \in DOMAIN PlainLowering,
                                                type \in {"f32", "f16", "bf16"}}
      /\ NativeCandidates = {Native(op, type) : op \in DOMAIN PlainLowering,
                                               type \in DOMAIN NativeFeature}
  BY DEF PlainCandidates, NativeCandidates
<1> HIDE DEF Portable, Native
<1>3. ASSUME NEW d \in PlainCandidates
      PROVE  /\ d.enc[1] = "plain" /\ d.backends = {"any"} /\ d.score = 100
             /\ d = Portable(d.op, d.enc[2])
  <2>1. PICK op \in DOMAIN PlainLowering, type \in {"f32", "f16", "bf16"} : d = Portable(op, type)
    BY <1>2
  <2> QED
    BY <1>1, <2>1
<1>4. ASSUME NEW d \in NativeCandidates
      PROVE  /\ d.enc[1] = "plain" /\ d.backends = {"any"} /\ d.score = 200
             /\ d = Native(d.op, d.enc[2])
  <2>1. PICK op \in DOMAIN PlainLowering, type \in DOMAIN NativeFeature : d = Native(op, type)
    BY <1>2
  <2> QED
    BY <1>1, <2>1
<1> QED
  BY <1>3, <1>4

\* A quantized candidate of an encoding is settled by its operation and the
\* driver it runs on: no driver is both a CPU's and HIP's.
LEMMA QuantizedForm ==
  ASSUME NEW enc, NEW multiple, NEW lowering,
         NEW c \in QuantizedCandidates(enc, multiple, lowering)
  PROVE  /\ c.enc = enc /\ c.score = 300
         /\ \A driver : \A d \in QuantizedCandidates(enc, multiple, lowering) :
              d.op = c.op /\ RunsOn(c, driver) /\ RunsOn(d, driver) => d = c
<1> DEFINE Make(op, b) ==
             Candidate(enc \o <<op, b>>, op, enc, "f32", 2, multiple, QuantizedBackends[b][1],
                       QuantizedBackends[b][2], lowering[<<op, b>>], 300)
<1>1. ASSUME NEW d \in QuantizedCandidates(enc, multiple, lowering)
      PROVE  \E b \in {"cpu", "hip"} :
               /\ d = Make(d.op, b) /\ d.enc = enc /\ d.score = 300
               /\ d.backends = QuantizedBackends[b][1]
  <2>1. PICK op \in QuantizedOps, b \in {"cpu", "hip"} : d = Make(op, b)
    BY DEF QuantizedCandidates, QuantizedBackends
  <2>2. d.op = op /\ d.enc = enc /\ d.backends = QuantizedBackends[b][1] /\ d.score = 300
    BY <2>1 DEF Candidate
  <2> QED
    BY <2>1, <2>2
<1>2. /\ QuantizedBackends["cpu"][1] = {"local-task", "local-sync"}
      /\ QuantizedBackends["hip"][1] = {"hip", "rocm"}
  BY DEF QuantizedBackends
<1> HIDE DEF Make
<1>3. ASSUME NEW d \in QuantizedCandidates(enc, multiple, lowering), d.op = c.op,
             NEW driver, RunsOn(c, driver), RunsOn(d, driver)
      PROVE  d = c
  <2>1. PICK a \in {"cpu", "hip"} : c = Make(c.op, a) /\ c.backends = QuantizedBackends[a][1]
    BY <1>1
  <2>2. PICK b \in {"cpu", "hip"} : d = Make(d.op, b) /\ d.backends = QuantizedBackends[b][1]
    BY <1>1
  <2>3. a = b
    BY <1>2, <1>3, <2>1, <2>2 DEF RunsOn
  <2> QED
    BY <1>3, <2>1, <2>2, <2>3
<1> QED
  BY <1>1, <1>3

\* The MLX candidates and those of a GGUF codec are quantized ones.
LEMMA QuantizedFamilies ==
  /\ \E lowering : MlxCandidates = QuantizedCandidates(MlxPacking(4), 32, lowering)
  /\ \A codec : \E multiple, lowering :
       GgufCandidates(codec) = QuantizedCandidates(<<"block", codec>>, multiple, lowering)
<1>1. \E lowering : MlxCandidates = QuantizedCandidates(MlxPacking(4), 32, lowering)
  <2> DEFINE lowering == [p \in QuantizedOps \X DOMAIN QuantizedBackends |->
                           <<"mlx.affine.u4", IF p[1] = "Embedding" THEN "gather" ELSE "matmul",
                             p[2]>>]
  <2>1. MlxCandidates = QuantizedCandidates(MlxPacking(4), 32, lowering)
    BY DEF MlxCandidates
  <2> HIDE DEF lowering
  <2> QED
    BY <2>1
<1>2. ASSUME NEW codec
      PROVE  \E multiple, lowering :
               GgufCandidates(codec) = QuantizedCandidates(<<"block", codec>>, multiple, lowering)
  <2> DEFINE multiple == BlockLayouts[codec][1]
             lowering == [p \in QuantizedOps \X DOMAIN QuantizedBackends |-> <<codec, p[1]>>]
  <2>1. GgufCandidates(codec) = QuantizedCandidates(<<"block", codec>>, multiple, lowering)
    BY DEF GgufCandidates
  <2> HIDE DEF multiple, lowering
  <2> QED
    BY <2>1
<1> QED
  BY <1>1, <1>2

----------------------------------------------------------------------------
(* The registry *)

\* The encoding tells the families apart.
LEMMA RegistryForm ==
  ASSUME NEW c \in KernelRegistry
  PROVE  \/ c \in SemanticCandidates /\ c.enc = NoEncoding
         \/ c \in PlainCandidates \cup NativeCandidates /\ c.enc[1] = "plain"
         \/ c \in MlxCandidates /\ c.enc = MlxPacking(4)
         \/ \E codec \in DOMAIN BlockLayouts :
              c \in GgufCandidates(codec) /\ c.enc = <<"block", codec>>
<1>1. CASE c \in SemanticCandidates
  BY <1>1, SemanticForm
<1>2. CASE c \in PlainCandidates \cup NativeCandidates
  BY <1>2, PlainForm
<1>3. CASE c \in MlxCandidates
  <2>1. PICK lowering : MlxCandidates = QuantizedCandidates(MlxPacking(4), 32, lowering)
    BY QuantizedFamilies
  <2>2. c \in QuantizedCandidates(MlxPacking(4), 32, lowering)
    BY <1>3, <2>1
  <2>3. c.enc = MlxPacking(4)
    BY <2>2, QuantizedForm
  <2> QED
    BY <1>3, <2>3
<1>4. ASSUME NEW codec \in DOMAIN BlockLayouts, c \in GgufCandidates(codec)
      PROVE  c.enc = <<"block", codec>>
  <2>1. PICK multiple, lowering :
          GgufCandidates(codec) = QuantizedCandidates(<<"block", codec>>, multiple, lowering)
    BY QuantizedFamilies
  <2>2. c \in QuantizedCandidates(<<"block", codec>>, multiple, lowering)
    BY <1>4, <2>1
  <2> QED
    BY <2>2, QuantizedForm
<1> QED
  BY <1>1, <1>2, <1>3, <1>4 DEF KernelRegistry

\* The cost model leaves one kernel at most: the portable and the paged form of
\* the attention, the portable and the native kernel of an encoding differ in
\* score, and no target is offered the kernels of two backends.
LEMMA OneBest ==
  ASSUME NEW req, NEW on, NEW c \in Best(req, on), NEW d \in Best(req, on)
  PROVE  c = d
<1>1. /\ c \in KernelRegistry /\ d \in KernelRegistry
      /\ Eligible(c, req, on) /\ Eligible(d, req, on)
      /\ Score(c, on) <= Score(d, on) /\ Score(d, on) <= Score(c, on)
      /\ \A e \in KernelRegistry :
           Eligible(e, req, on) => Score(e, on) <= Score(c, on)
  BY DEF Best
<1>2. /\ c.op = d.op /\ c.enc = d.enc
      /\ RunsOn(c, on.driver) /\ RunsOn(d, on.driver)
  BY <1>1 DEF Eligible, RunsOn
<1>3. NoEncoding[1] = "none" /\ MlxPacking(4)[1] = "mlx.affine"
      /\ \A codec : <<"block", codec>>[1] = "block" /\ <<"block", codec>>[2] = codec
  BY DEF NoEncoding, MlxPacking
<1>4. CASE c \in SemanticCandidates /\ c.enc = NoEncoding
  <2>1. d \in SemanticCandidates
    BY <1>1, <1>2, <1>3, <1>4, RegistryForm
  <2>2. c.backends = {"any"} /\ d.backends = {"any"} /\ c.score \in {90, 100}
        /\ d.score \in {90, 100}
    BY <1>4, <2>1, SemanticForm
  <2>3. c.score = d.score
    BY <1>1, <2>2 DEF Score
  <2> QED
    BY <1>2, <1>4, <2>1, <2>3, SemanticForm
<1>5. CASE c \in PlainCandidates \cup NativeCandidates /\ c.enc[1] = "plain"
  <2>1. d \in PlainCandidates \cup NativeCandidates
    BY <1>1, <1>2, <1>3, <1>5, RegistryForm
  <2>2. c.backends = {"any"} /\ d.backends = {"any"} /\ c.score \in {100, 200}
        /\ d.score \in {100, 200}
    BY <1>5, <2>1, PlainForm
  <2>3. c.score = d.score
    BY <1>1, <2>2 DEF Score
  <2> QED
    BY <1>2, <1>5, <2>1, <2>3, PlainForm
<1>6. CASE c \in MlxCandidates /\ c.enc = MlxPacking(4)
  <2>1. d \in MlxCandidates
    BY <1>1, <1>2, <1>3, <1>6, RegistryForm
  <2>2. PICK lowering : MlxCandidates = QuantizedCandidates(MlxPacking(4), 32, lowering)
    BY QuantizedFamilies
  <2>3. c \in QuantizedCandidates(MlxPacking(4), 32, lowering)
        /\ d \in QuantizedCandidates(MlxPacking(4), 32, lowering)
    BY <1>6, <2>1, <2>2
  <2> QED
    BY <1>2, <2>3, QuantizedForm
<1>7. ASSUME NEW codec \in DOMAIN BlockLayouts,
             c \in GgufCandidates(codec) /\ c.enc = <<"block", codec>>
      PROVE  c = d
  <2>1. d \in GgufCandidates(codec)
    <3>1. d.enc[1] = "block" /\ d.enc[2] = codec
      BY <1>2, <1>3, <1>7
    <3>2. PICK other \in DOMAIN BlockLayouts :
            d \in GgufCandidates(other) /\ d.enc = <<"block", other>>
      BY <1>1, <1>3, <3>1, RegistryForm
    <3>3. other = codec
      BY <1>3, <3>1, <3>2
    <3> QED
      BY <3>2, <3>3
  <2>2. PICK multiple, lowering :
          GgufCandidates(codec) = QuantizedCandidates(<<"block", codec>>, multiple, lowering)
    BY QuantizedFamilies
  <2>3. c \in QuantizedCandidates(<<"block", codec>>, multiple, lowering)
        /\ d \in QuantizedCandidates(<<"block", codec>>, multiple, lowering)
    BY <1>7, <2>1, <2>2
  <2> QED
    BY <1>2, <2>3, QuantizedForm
<1> QED
  BY <1>1, <1>4, <1>5, <1>6, <1>7, RegistryForm

----------------------------------------------------------------------------
(* The theorem *)

\* A kernel was selected, so some kernel is best.
LEMMA SelectedIsBest ==
  ASSUME NEW req, NEW on, Select(req, on) # NoKernel
  PROVE  Cardinality(Best(req, on)) = 1
<1>1. Best(req, on) # {}
  BY DEF Select
<1>2. PICK c : Best(req, on) = {c}
  BY <1>1, OneBest
<1> QED
  BY <1>2, FS_Singleton

\* A complete dry run has selected a kernel for every operation.
LEMMA CompleteSelects ==
  ASSUME NEW ops, NEW params, NEW plan, NEW profile,
         IsComplete(DryRunCoverage(ops, params, plan, profile)),
         NEW i \in DOMAIN ops
  PROVE  Select(RequestOf(ops[i], params, plan), profile) # NoKernel
<1> DEFINE coverage == DryRunCoverage(ops, params, plan, profile)
<1>1. DOMAIN coverage = DOMAIN ops /\ "Prefill" \in Modes
  BY DEF DryRunCoverage, Modes
<1>2. coverage[i]["Prefill"].selected = Select(RequestOf(ops[i], params, plan), profile)
  BY <1>1 DEF DryRunCoverage
<1> QED
  BY <1>1, <1>2 DEF IsComplete

\* The cost model decides alone, for every architecture, checkpoint and target:
\* the order of the registry and the ids of the candidates never matter.
THEOREM CostModelDecides == Spec => []SelectionHasNoTie
<1>1. Init => SelectionHasNoTie
  BY DEF Init, SelectionHasNoTie
<1>2. SelectionHasNoTie /\ [Next]_vars => SelectionHasNoTie'
  <2> SUFFICES ASSUME SelectionHasNoTie, [Next]_vars, pc' = "lower"
               PROVE  SelectionHasNoTie'
    BY DEF SelectionHasNoTie
  <2>1. CASE SelectKernels
    <3>1. UNCHANGED <<package, catalog, bindings, target>>
      BY <2>1 DEF SelectKernels
    <3>2. IsComplete(DryRunCoverage(package.graph.ops, catalog.params, bindings.bindings,
                                    target.profile))
      BY <2>1 DEF SelectKernels, GoOn, Cover
    <3> QED
      BY <3>1, <3>2, CompleteSelects, SelectedIsBest DEF SelectionHasNoTie
  <2>2. CASE UNCHANGED vars
    BY <2>2 DEF vars, compileVars, SelectionHasNoTie
  <2>3. CASE Next /\ ~SelectKernels
    BY <2>3 DEF Next, Tokenize, ResolveCommandArchitecture, ResolveCommandTarget,
                InspectAndName, BuildArchitecture, BindSlots, LowerModel, CompileBundle,
                ReplaceCheckpoint, ChangeDevices, CheckBundle, OpenParameters, Prefill,
                DecodeTurn, Finish, GoOn
  <2> QED
    BY <2>1, <2>2, <2>3
<1> QED
  BY <1>1, <1>2, PTL DEF Spec

----------------------------------------------------------------------------
(* The emitted programs: what a sequence of instructions calls *)

IsList(s) == Len(s) \in Nat /\ DOMAIN s = 1..Len(s)

\* A sequence of instructions calls functions of F only.
CallsOnly(code, F) == \E S : code \in Seq(S) /\ \A o \in S : o.fn \in F

LEMMA JoinCalls ==
  ASSUME NEW F, NEW s, CallsOnly(s, F), NEW t, CallsOnly(t, F)
  PROVE  CallsOnly(s \o t, F)
<1>1. PICK S : s \in Seq(S) /\ \A o \in S : o.fn \in F
  BY DEF CallsOnly
<1>2. PICK T : t \in Seq(T) /\ \A o \in T : o.fn \in F
  BY DEF CallsOnly
<1>3. s \in Seq(S \cup T) /\ t \in Seq(S \cup T)
  BY <1>1, <1>2, SeqMonotonic
<1>4. s \o t \in Seq(S \cup T)
  BY <1>3, ConcatProperties
<1> QED
  BY <1>1, <1>2, <1>4 DEF CallsOnly

LEMMA NoCalls == ASSUME NEW F PROVE CallsOnly(<<>>, F)
<1>1. PICK S : S = {}
  OBVIOUS
<1>2. <<>> \in Seq(S) /\ \A o \in S : o.fn \in F
  BY <1>1
<1> QED
  BY <1>2 DEF CallsOnly

LEMMA OneCall == ASSUME NEW F, NEW o, o.fn \in F PROVE CallsOnly(<<o>>, F)
<1>1. PICK S : S = {o}
  OBVIOUS
<1>2. <<o>> \in Seq(S) /\ \A x \in S : x.fn \in F
  BY <1>1
<1> QED
  BY <1>2 DEF CallsOnly

LEMMA TwoCalls == ASSUME NEW F, NEW o, NEW p, o.fn \in F, p.fn \in F PROVE CallsOnly(<<o, p>>, F)
<1>1. PICK S : S = {o, p}
  OBVIOUS
<1>2. <<o, p>> \in Seq(S) /\ \A x \in S : x.fn \in F
  BY <1>1
<1> QED
  BY <1>2 DEF CallsOnly

\* A flattened sequence is put together from the left.
LEMMA FlattenSteps ==
  ASSUME NEW s, Len(s) \in Nat \ {0}
  PROVE  \E f : /\ FlattenSeq(s) = f[Len(s)] /\ f[1] = s[1]
                /\ \A n \in 2..Len(s) : f[n] = f[n - 1] \o s[n]
<1> DEFINE IsRun(f, m) == f = [n \in 1..m |-> IF n = 1 THEN s[n] ELSE f[n - 1] \o s[n]]
<1>1. \A m \in Nat : \E f : IsRun(f, m)
  <2> DEFINE Bad == {m \in Nat : ~\E f : IsRun(f, m)}
  <2> SUFFICES ASSUME Bad # {} PROVE FALSE
    OBVIOUS
  <2>0. Bad \subseteq Nat
    OBVIOUS
  <2> HIDE DEF Bad
  <2>1. PICK m \in Bad : \A k \in Bad : m <= k
    BY <2>0, LeastNatural
  <2>2. CASE m = 0
    <3> USE DEF Bad
    <3> DEFINE none == [n \in 1..m |-> s[n]]
    <3>1. none = [n \in 1..m |-> IF n = 1 THEN s[n] ELSE none[n - 1] \o s[n]]
      BY <2>2
    <3>2. IsRun(none, m)
      BY <3>1
    <3> QED
      BY <3>2, <2>1
  <2>3. CASE m # 0
    <3>1. m - 1 \in Nat /\ m - 1 \notin Bad
      BY <2>0, <2>1, <2>3
    <3> USE DEF Bad
    <3>2. PICK f : IsRun(f, m - 1)
      BY <3>1
    <3> DEFINE last == IF m = 1 THEN s[m] ELSE f[m - 1] \o s[m]
               g == [n \in 1..m |-> IF n = m THEN last ELSE f[n]]
    <3>3. ASSUME NEW n \in 1..m
          PROVE  g[n] = IF n = 1 THEN s[n] ELSE g[n - 1] \o s[n]
      <4>1. CASE n = m
        <5>1. m # 1 => g[m - 1] = f[m - 1]
          BY <2>3, <3>1
        <5> QED
          BY <4>1, <5>1
      <4>2. CASE n # m
        <5>1. n \in 1..(m - 1) /\ g[n] = f[n]
          BY <4>2, <3>1
        <5>2. f[n] = IF n = 1 THEN s[n] ELSE f[n - 1] \o s[n]
          BY <3>2, <5>1
        <5>3. n # 1 => g[n - 1] = f[n - 1]
          BY <5>1, <3>1
        <5> QED
          BY <5>1, <5>2, <5>3
      <4> QED
        BY <4>1, <4>2
    <3>4. IsRun(g, m)
      BY <3>3
    <3> QED
      BY <3>4, <2>1
  <2> QED
    BY <2>2, <2>3
<1> DEFINE run == CHOOSE h : IsRun(h, Len(s))
<1>2. FlattenSeq(s) = run[Len(s)]
  BY DEF FlattenSeq
<1>3. IsRun(run, Len(s))
  BY <1>1
<1> HIDE DEF run
<1>4. ASSUME NEW n \in 1..Len(s)
      PROVE  run[n] = IF n = 1 THEN s[n] ELSE run[n - 1] \o s[n]
  BY <1>3
<1>5. run[1] = s[1]
  BY <1>4
<1>6. ASSUME NEW n \in 2..Len(s) PROVE run[n] = run[n - 1] \o s[n]
  <2>1. n \in 1..Len(s) /\ n # 1
    OBVIOUS
  <2> QED
    BY <1>4, <2>1
<1> QED
  BY <1>2, <1>5, <1>6

LEMMA FlattenCalls ==
  ASSUME NEW F, NEW m \in Nat, NEW s, s = [i \in 1..m |-> s[i]],
         \A i \in 1..m : CallsOnly(s[i], F)
  PROVE  CallsOnly(FlattenSeq(s), F)
<1>1. Len(s) = m
  OBVIOUS
<1>2. CASE m = 0
  <2>1. s = <<>>
    BY <1>2
  <2>2. FlattenSeq(s) = s
    BY <1>1, <1>2 DEF FlattenSeq
  <2> QED
    BY <2>1, <2>2, NoCalls
<1>3. CASE m # 0
  <2>1. PICK f : /\ FlattenSeq(s) = f[m] /\ f[1] = s[1]
                 /\ \A n \in 2..m : f[n] = f[n - 1] \o s[n]
    BY <1>1, <1>3, FlattenSteps
  <2> DEFINE Bad == {n \in 1..m : ~CallsOnly(f[n], F)}
  <2>2. Bad = {}
    <3> SUFFICES ASSUME Bad # {} PROVE FALSE
      OBVIOUS
    <3>0. Bad \subseteq Nat
      OBVIOUS
    <3> HIDE DEF Bad
    <3>1. PICK n \in Bad : \A k \in Bad : n <= k
      BY <3>0, LeastNatural
    <3> USE DEF Bad
    <3>2. n # 1
      BY <1>3, <2>1, <3>1
    <3>3. n - 1 \in 1..m /\ n - 1 \notin Bad
      BY <3>1, <3>2
    <3>4. CallsOnly(f[n - 1] \o s[n], F)
      BY <3>1, <3>3, JoinCalls
    <3>5. n \in 2..m
      BY <3>1, <3>2
    <3>6. f[n] = f[n - 1] \o s[n]
      BY <2>1, <3>5
    <3> QED
      BY <3>1, <3>4, <3>6
  <2> QED
    BY <1>3, <2>1, <2>2
<1> QED
  BY <1>2, <1>3

\* A weight's instruction calls the shared function, or a quantized helper that
\* emit_quantized_helpers wrote for the same key.
LEMMA WeightCall ==
  ASSUME NEW c, NEW dense, NEW mode \in Modes, NEW w, NEW rows, rows = RowsOf(c, w, mode)
  PROVE  WeightFn(c, dense, mode, w, rows) \in {dense, NoHelper} \cup QuantizedHelpers(c)
<1> DEFINE b == c.bindings[w]
           key == HelperKey(b, c.lowerings[<<w, mode>>], OperationOf(w), rows)
<1>1. CASE Plain(c, w)
  BY <1>1 DEF WeightFn
<1>2. CASE ~Plain(c, w)
  <2>1. w \in DOMAIN c.bindings /\ WeightFn(c, dense, mode, w, rows) = key
    BY <1>2 DEF Plain, WeightFn
  <2>2. CASE Len(b.shape) = 2
    <3>1. w \in {v \in DOMAIN c.bindings : ~Plain(c, v) /\ Len(c.bindings[v].shape) = 2}
      BY <1>2, <2>1, <2>2
    <3>2. key \in QuantizedHelpers(c)
      BY <3>1 DEF QuantizedHelpers
    <3> QED
      BY <2>1, <3>2
  <2>3. CASE Len(b.shape) # 2
    <3>1. key = NoHelper
      BY <2>3 DEF HelperKey, BlockHelperKey, AffineHelperKey
    <3> QED
      BY <2>1, <3>1
  <2> QED
    BY <2>2, <2>3
<1> QED
  BY <1>1, <1>2

\* What the instructions that both layouts share may call.
Callable(c, tok) == RowHelpers(c, tok) \cup QuantizedHelpers(c) \cup DialectOps \cup {NoHelper}

LEMMA RowCalls ==
  ASSUME NEW c, NEW tok \in BOOLEAN
  PROVE  /\ \A f \in {"rms_norm", "linear_hq", "linear_hkv", "linear_qh", "linear_hi", "linear_ih"} :
              Fn(f, tok) \in Callable(c, tok)
         /\ \A op \in {"addf", "mulf", "silu", "store", "gather", "output_proj",
                        "select", "extract_slice"} :
              Dialect(op) \in Callable(c, tok)
         /\ c.qkNorm => /\ Fn("rms_norm_heads_q", tok) \in Callable(c, tok)
                        /\ KvFn(c, "rms_norm_heads", tok) \in Callable(c, tok)
BY DEF Callable, RowHelpers, DialectOps

\* The weight of a layer is no embedding and no output projection.
LEMMA LinCall ==
  ASSUME NEW c, NEW tok \in BOOLEAN, NEW l \in Nat, NEW name, NEW dense, NEW x, NEW leaf,
         Fn(dense, tok) \in Callable(c, tok)
  PROVE  Lin(c, tok, l, name, dense, x, leaf).fn \in Callable(c, tok)
<1>1. OperationOf(W(l, leaf)) = "Linear"
  BY DEF OperationOf, W
<1>2. Rows(c, tok) = RowsOf(c, W(l, leaf), Mode(tok)) /\ Mode(tok) \in Modes
  BY <1>1 DEF Rows, RowsOf, Mode, Modes
<1>3. WeightFn(c, Fn(dense, tok), Mode(tok), W(l, leaf), Rows(c, tok))
        \in {Fn(dense, tok), NoHelper} \cup QuantizedHelpers(c)
  BY <1>2, WeightCall
<1> QED
  BY <1>3 DEF Lin, Instr, Callable

LEMMA EndCalls ==
  ASSUME NEW c, NEW tok \in BOOLEAN, NEW x, NEW F, Callable(c, tok) \subseteq F
  PROVE  CallsOnly(Gather(c, Mode(tok)), F) /\ CallsOnly(Projected(c, tok, x), F)
<1> DEFINE embed == W(-1, "token_embd")
           output == W(-1, "output")
           gather == WeightFn(c, Dialect("gather"), Mode(tok), embed, 1)
           project == WeightFn(c, Dialect("output_proj"), Mode(tok), output, 1)
<1>1. OperationOf(embed) = "Embedding" /\ OperationOf(output) = "OutputProjection"
  BY DEF OperationOf, W
<1>2. 1 = RowsOf(c, embed, Mode(tok)) /\ 1 = RowsOf(c, output, Mode(tok)) /\ Mode(tok) \in Modes
  BY <1>1 DEF RowsOf, Mode, Modes
<1>3. /\ gather \in {Dialect("gather"), NoHelper} \cup QuantizedHelpers(c)
      /\ project \in {Dialect("output_proj"), NoHelper} \cup QuantizedHelpers(c)
  BY <1>2, WeightCall
<1>4. gather \in F /\ project \in F /\ Fn("rms_norm", tok) \in F
  BY <1>3, RowCalls DEF Callable
<1>5. CallsOnly(Gather(c, Mode(tok)), F)
  BY <1>4, OneCall DEF Gather, Instr
<1>6. CallsOnly(Projected(c, tok, x), F)
  BY <1>4, TwoCalls DEF Projected, Norm, Instr
<1> QED
  BY <1>5, <1>6

LEMMA ProjectionCalls ==
  ASSUME NEW c, NEW tok \in BOOLEAN, NEW l \in Nat, NEW x, NEW F, Callable(c, tok) \subseteq F
  PROVE  CallsOnly(Projections(c, tok, l, x), F)
<1> DEFINE norm == Norm(c, tok, l, "xn", x, "attn_norm")
           q == Lin(c, tok, l, "q", "linear_hq", V(l, "xn"), "attn_q")
           k == Lin(c, tok, l, "k", "linear_hkv", V(l, "xn"), "attn_k")
           v == Lin(c, tok, l, "v", "linear_hkv", V(l, "xn"), "attn_v")
           S == {norm, q, k, v}
<1>1. Projections(c, tok, l, x) = <<norm, q, k, v>>
  BY DEF Projections
<1>2. norm.fn \in F
  BY RowCalls DEF Norm, Instr
<1>3. q.fn \in F /\ k.fn \in F /\ v.fn \in F
  BY RowCalls, LinCall
<1> HIDE DEF norm, q, k, v
<1>4. Projections(c, tok, l, x) \in Seq(S) /\ \A o \in S : o.fn \in F
  BY <1>1, <1>2, <1>3
<1> QED
  BY <1>4 DEF CallsOnly

LEMMA AttentionCalls ==
  ASSUME NEW c, NEW tok \in BOOLEAN, NEW l \in Nat, NEW x, NEW F, Callable(c, tok) \subseteq F
  PROVE  /\ CallsOnly(HeadNorms(c, tok, l), F)
         /\ \A k, v : CallsOnly(Store(l, k, v), F)
         /\ CallsOnly(AttnOut(c, tok, l, x), F)
<1>1. CallsOnly(HeadNorms(c, tok, l), F)
  <2>1. CASE c.qkNorm
    <3>1. Fn("rms_norm_heads_q", tok) \in F /\ KvFn(c, "rms_norm_heads", tok) \in F
      BY <2>1, RowCalls
    <3> QED
      BY <2>1, <3>1, TwoCalls DEF HeadNorms, Instr
  <2>2. CASE ~c.qkNorm
    BY <2>2, NoCalls DEF HeadNorms
  <2> QED
    BY <2>1, <2>2
<1>2. ASSUME NEW k, NEW v PROVE CallsOnly(Store(l, k, v), F)
  <2>1. Dialect("store") \in F
    BY RowCalls
  <2> QED
    BY <2>1, TwoCalls DEF Store, Instr
<1>3. CallsOnly(AttnOut(c, tok, l, x), F)
  <2>1. Lin(c, tok, l, "o", "linear_qh", V(l, "ctx"), "attn_output").fn \in F
    BY RowCalls, LinCall
  <2>2. Add(l, "h2", x, V(l, "o")).fn \in F
    BY RowCalls DEF Add, Instr
  <2> QED
    BY <2>1, <2>2, TwoCalls DEF AttnOut
<1> QED
  BY <1>1, <1>2, <1>3

LEMMA RotationCalls ==
  ASSUME NEW c, NEW l, NEW qfn, NEW kfn, NEW F, c.rope >= 0 => qfn \in F /\ kfn \in F
  PROVE  CallsOnly(Rotations(c, l, qfn, kfn), F)
<1>1. CASE c.rope >= 0
  BY <1>1, TwoCalls DEF Rotations, Instr
<1>2. CASE ~(c.rope >= 0)
  BY <1>2, NoCalls DEF Rotations
<1> QED
  BY <1>1, <1>2

LEMMA RepeatCalls ==
  ASSUME NEW c, NEW l, NEW fn, NEW k, NEW v, NEW F, c.kvHeads # c.heads => fn \in F
  PROVE  CallsOnly(Repeats(c, l, fn, k, v), F)
<1>1. CASE c.kvHeads # c.heads
  BY <1>1, TwoCalls DEF Repeats, Instr
<1>2. CASE ~(c.kvHeads # c.heads)
  BY <1>2, NoCalls DEF Repeats
<1> QED
  BY <1>1, <1>2

LEMMA EnterCalls == ASSUME NEW F, NEW l, NEW fn \in F PROVE CallsOnly(Enter(l, fn), F)
  BY OneCall DEF Enter, Instr

LEMMA FeedForwardCalls ==
  ASSUME NEW c, NEW tok \in BOOLEAN, NEW l \in Nat, NEW F, Callable(c, tok) \subseteq F
  PROVE  CallsOnly(FeedForward(c, tok, l), F)
<1> DEFINE norm == Norm(c, tok, l, "fn", V(l, "h2"), "ffn_norm")
           gate == Lin(c, tok, l, "gate", "linear_hi", V(l, "fn"), "ffn_gate")
           up == Lin(c, tok, l, "up", "linear_hi", V(l, "fn"), "ffn_up")
           act == Instr(V(l, "silu"), Dialect("silu"), <<V(l, "gate")>>, NoWeight)
           mul == Instr(V(l, "ff"), Dialect("mulf"), <<V(l, "silu"), V(l, "up")>>, NoWeight)
           down == Lin(c, tok, l, "down", "linear_ih", V(l, "ff"), "ffn_down")
           sum == Add(l, "hout", V(l, "h2"), V(l, "down"))
           S == {norm, gate, up, act, mul, down, sum}
<1>1. FeedForward(c, tok, l) = <<norm, gate, up, act, mul, down, sum>>
  BY DEF FeedForward
<1>2. norm.fn \in F /\ act.fn \in F /\ mul.fn \in F /\ sum.fn \in F
  BY RowCalls DEF Norm, Add, Instr
<1>3. gate.fn \in F /\ up.fn \in F /\ down.fn \in F
  BY RowCalls, LinCall
<1> HIDE DEF norm, gate, up, act, mul, down, sum
<1>4. FeedForward(c, tok, l) \in Seq(S) /\ \A o \in S : o.fn \in F
  BY <1>1, <1>2, <1>3
<1> QED
  BY <1>4 DEF CallsOnly

\* The convolution helpers exist in a program with a convolution layer, the
\* operator for each such layer.
LEMMA ConvCalls ==
  ASSUME NEW c, IsList(c.kinds), NEW tok \in BOOLEAN, NEW l \in 0..(Len(c.kinds) - 1),
         LayerKind(c, l) = "conv", NEW x, NEW F, Callable(c, tok) \subseteq F
  PROVE  CallsOnly(ConvMixer(c, tok, l, x), F)
<1> DEFINE norm == Norm(c, tok, l, "xn", x, "attn_norm")
           in == Lin(c, tok, l, "conv_inp", "linear_h_c3", V(l, "xn"), "shortconv.in_proj")
           conv == Instr(V(l, "conv_y"), LayerFn("conv_op", tok, l), <<V(l, "conv_inp")>>,
                         W(l, "shortconv.conv"))
           out == Lin(c, tok, l, "conv_proj", "linear_c_h", V(l, "conv_y"), "shortconv.out_proj")
           sum == Add(l, "h2", x, V(l, "conv_proj"))
           S == {norm, in, conv, out, sum}
<1>1. ConvMixer(c, tok, l, x) = <<norm, in, conv, out, sum>>
  BY DEF ConvMixer
<1>2. HasShortConv(c) /\ l \in Nat
  <2>1. l + 1 \in DOMAIN c.kinds /\ c.kinds[l + 1] = "conv" /\ l \in Nat
    BY DEF LayerKind, IsList
  <2> QED
    BY <2>1 DEF HasShortConv, ToSet
<1>3. /\ Fn("linear_h_c3", tok) \in Callable(c, tok) /\ Fn("linear_c_h", tok) \in Callable(c, tok)
      /\ LayerFn("conv_op", tok, l) \in Callable(c, tok)
  <2>1. l \in LayersOf(c, TRUE)
    BY DEF LayersOf
  <2> QED
    BY <1>2, <2>1 DEF Callable, RowHelpers
<1>4. norm.fn \in F /\ conv.fn \in F /\ sum.fn \in F
  BY <1>3, RowCalls DEF Norm, Add, Instr
<1>5. in.fn \in F /\ out.fn \in F
  BY <1>2, <1>3, LinCall
<1> HIDE DEF norm, in, conv, out, sum
<1>6. ConvMixer(c, tok, l, x) \in Seq(S) /\ \A o \in S : o.fn \in F
  BY <1>1, <1>4, <1>5
<1> QED
  BY <1>6 DEF CallsOnly

\* The functions a static program defines.
StaticCallable(c) == StaticHelpers(c) \cup QuantizedHelpers(c) \cup DialectOps \cup {NoHelper}

LEMMA StaticAttentionCalls ==
  ASSUME NEW c, NEW l \in Nat, NEW F, StaticCallable(c) \subseteq F
  PROVE  CallsOnly(PrefillAttention(c, l), F) /\ CallsOnly(DecodeAttention(c, l), F)
<1>1. Callable(c, FALSE) \subseteq F /\ Callable(c, TRUE) \subseteq F
  BY DEF StaticCallable, StaticHelpers, Callable
<1>2. /\ <<"attn", "seq">> \in F /\ <<"attn_decode", "tok">> \in F
      /\ <<"kv_update_row", "tok">> \in F
      /\ c.rope >= 0 => /\ Fn("apply_rope_q", FALSE) \in F /\ KvFn(c, "apply_rope", FALSE) \in F
                        /\ Fn("apply_rope_at_q", TRUE) \in F /\ KvFn(c, "apply_rope_at", TRUE) \in F
      /\ c.kvHeads # c.heads => <<"repeat_kv", "seq">> \in F /\ <<"repeat_kv_mk", "tok">> \in F
  BY DEF StaticCallable, StaticHelpers
<1>3. CallsOnly(PrefillAttention(c, l), F)
  <2> DEFINE k == Rotated(c, l, "k")
             v == V(l, "v")
             rot == Rotations(c, l, Fn("apply_rope_q", FALSE), KvFn(c, "apply_rope", FALSE))
             rep == Repeats(c, l, <<"repeat_kv", "seq">>, k, v)
             ctx == <<Instr(V(l, "ctx"), <<"attn", "seq">>,
                            <<Rotated(c, l, "q"), Repeated(c, l, "k", k), Repeated(c, l, "v", v)>>,
                            NoWeight)>>
             store == Store(l, k, v)
             norms == HeadNorms(c, FALSE, l)
             proj == Projections(c, FALSE, l, LayerIn(l))
             out == AttnOut(c, FALSE, l, LayerIn(l))
  <2>1. CallsOnly(rot, F) /\ CallsOnly(rep, F)
    BY <1>2, RotationCalls, RepeatCalls
  <2>2. CallsOnly(ctx, F)
    BY <1>2, OneCall DEF Instr
  <2>3. CallsOnly(norms, F) /\ CallsOnly(store, F) /\ CallsOnly(out, F) /\ CallsOnly(proj, F)
    BY <1>1, AttentionCalls, ProjectionCalls
  <2>4. Attn(c, l) = norms \o rot \o rep \o ctx
    BY DEF Attn
  <2>5. PrefillAttention(c, l) = proj \o Attn(c, l) \o store \o out
    BY DEF PrefillAttention
  <2> HIDE DEF rot, rep, ctx, store, norms, proj, out
  <2>6. CallsOnly(Attn(c, l), F)
    <3>1. CallsOnly(norms \o rot, F)
      BY <2>1, <2>3, JoinCalls
    <3>2. CallsOnly(norms \o rot \o rep, F)
      BY <2>1, <3>1, JoinCalls
    <3> QED
      BY <2>2, <2>4, <3>2, JoinCalls
  <2>7. CallsOnly(proj \o Attn(c, l), F)
    BY <2>3, <2>6, JoinCalls
  <2>8. CallsOnly(proj \o Attn(c, l) \o store, F)
    BY <2>3, <2>7, JoinCalls
  <2> QED
    BY <2>3, <2>5, <2>8, JoinCalls
<1>4. CallsOnly(DecodeAttention(c, l), F)
  <2> DEFINE k == V(l, "k_upd")
             v == V(l, "v_upd")
             rot == Rotations(c, l, Fn("apply_rope_at_q", TRUE), KvFn(c, "apply_rope_at", TRUE))
             update == << Instr(k, <<"kv_update_row", "tok">>, <<Rotated(c, l, "k")>>, NoWeight),
                          Instr(v, <<"kv_update_row", "tok">>, <<V(l, "v")>>, NoWeight) >>
             rep == Repeats(c, l, <<"repeat_kv_mk", "tok">>, k, v)
             ctx == <<Instr(V(l, "ctx"), <<"attn_decode", "tok">>,
                            <<Rotated(c, l, "q"), Repeated(c, l, "k", k), Repeated(c, l, "v", v)>>,
                            NoWeight)>>
             store == Store(l, k, v)
             norms == HeadNorms(c, TRUE, l)
             proj == Projections(c, TRUE, l, LayerIn(l))
             out == AttnOut(c, TRUE, l, LayerIn(l))
  <2>1. CallsOnly(rot, F) /\ CallsOnly(rep, F)
    BY <1>2, RotationCalls, RepeatCalls
  <2>2. CallsOnly(ctx, F) /\ CallsOnly(update, F)
    BY <1>2, OneCall, TwoCalls DEF Instr
  <2>3. CallsOnly(norms, F) /\ CallsOnly(store, F) /\ CallsOnly(out, F) /\ CallsOnly(proj, F)
    BY <1>1, AttentionCalls, ProjectionCalls
  <2>4. AttnDecode(c, l) = norms \o rot \o update \o rep \o ctx
    BY DEF AttnDecode
  <2>5. DecodeAttention(c, l) = proj \o AttnDecode(c, l) \o store \o out
    BY DEF DecodeAttention
  <2> HIDE DEF rot, update, rep, ctx, store, norms, proj, out
  <2>6. CallsOnly(AttnDecode(c, l), F)
    <3>1. CallsOnly(norms \o rot, F)
      BY <2>1, <2>3, JoinCalls
    <3>2. CallsOnly(norms \o rot \o update, F)
      BY <2>2, <3>1, JoinCalls
    <3>3. CallsOnly(norms \o rot \o update \o rep, F)
      BY <2>1, <3>2, JoinCalls
    <3> QED
      BY <2>2, <2>4, <3>3, JoinCalls
  <2>7. CallsOnly(proj \o AttnDecode(c, l), F)
    BY <2>3, <2>6, JoinCalls
  <2>8. CallsOnly(proj \o AttnDecode(c, l) \o store, F)
    BY <2>3, <2>7, JoinCalls
  <2> QED
    BY <2>3, <2>5, <2>8, JoinCalls
<1> QED
  BY <1>3, <1>4

\* An entry point is its beginning, its layers in order, and its end.
LEMMA EntryCalls ==
  ASSUME NEW F, NEW n \in Nat, NEW first, CallsOnly(first, F), NEW last, CallsOnly(last, F),
         NEW layers, layers = [i \in 1..n |-> layers[i]], \A i \in 1..n : CallsOnly(layers[i], F)
  PROVE  CallsOnly(first \o FlattenSeq(layers) \o last, F)
<1>1. CallsOnly(FlattenSeq(layers), F)
  BY FlattenCalls
<1>2. CallsOnly(first \o FlattenSeq(layers), F)
  BY <1>1, JoinCalls
<1> QED
  BY <1>2, JoinCalls

LEMMA StaticCalls ==
  ASSUME NEW c, IsList(c.kinds), NEW tok \in BOOLEAN, NEW F, StaticCallable(c) \subseteq F
  PROVE  CallsOnly(StaticEntry(c, tok), F)
<1> DEFINE conv(l) == IF tok THEN DecodeConv(c, l) ELSE PrefillConv(c, l)
           attention(l) == IF tok THEN DecodeAttention(c, l) ELSE PrefillAttention(c, l)
           ffn(l) == IF tok THEN DecodeFfn(c, l) ELSE PrefillFfn(c, l)
           layer(l) == (IF LayerKind(c, l) = "conv" THEN conv(l) ELSE attention(l)) \o ffn(l)
           layers == [i \in DOMAIN c.kinds |-> layer(i - 1)]
           first == IF tok THEN DecodeEmbed(c) ELSE PrefillEmbed(c)
           last == IF tok THEN DecodeLogits(c) ELSE PrefillLogits(c)
           n == Len(c.kinds)
<1>1. StaticEntry(c, tok) = first \o FlattenSeq(layers) \o last
  BY DEF StaticEntry
<1>2. Callable(c, tok) \subseteq F
  BY DEF StaticCallable, StaticHelpers, Callable
<1>3. first = Gather(c, Mode(tok)) /\ last = Projected(c, tok, LastOut(c))
  BY DEF DecodeEmbed, PrefillEmbed, DecodeLogits, PrefillLogits, Mode
<1>4. CallsOnly(first, F) /\ CallsOnly(last, F)
  BY <1>2, <1>3, EndCalls
<1>5. ASSUME NEW l \in 0..(n - 1) PROVE CallsOnly(layer(l), F)
  <2>1. l \in Nat
    BY DEF IsList
  <2>2. LayerKind(c, l) = "conv" => CallsOnly(conv(l), F)
    <3>1. conv(l) = ConvMixer(c, tok, l, LayerIn(l))
      BY DEF DecodeConv, PrefillConv
    <3> QED
      BY <1>2, <3>1, ConvCalls
  <2>3. CallsOnly(attention(l), F)
    BY <2>1, StaticAttentionCalls
  <2>4. CallsOnly(ffn(l), F)
    <3>1. ffn(l) = FeedForward(c, tok, l)
      BY DEF DecodeFfn, PrefillFfn
    <3> QED
      BY <1>2, <2>1, <3>1, FeedForwardCalls
  <2> HIDE DEF conv, attention, ffn
  <2> QED
    BY <2>2, <2>3, <2>4, JoinCalls
<1>6. n \in Nat /\ DOMAIN c.kinds = 1..n
  BY DEF IsList
<1> HIDE DEF layer, first, last, n
<1>7. layers = [i \in 1..n |-> layers[i]] /\ \A i \in 1..n : layers[i] = layer(i - 1)
  BY <1>6
<1>8. ASSUME NEW i \in 1..n PROVE CallsOnly(layers[i], F)
  <2>1. i - 1 \in 0..(n - 1)
    BY <1>6
  <2>2. layers[i] = layer(i - 1)
    BY <1>7
  <2> HIDE DEF layers
  <2> QED
    BY <1>5, <2>1, <2>2
<1> HIDE DEF layers
<1> QED
  BY <1>1, <1>4, <1>6, <1>7, <1>8, EntryCalls

\* The functions of one paged entry point.
PagedCallable(c, tok) ==
  PagedHelpers(c, tok) \cup PagedFunctions(c, tok) \cup QuantizedHelpers(c) \cup DialectOps
    \cup {NoHelper}

\* The functions a paged entry point and its layers are made of are emitted.
LEMMA PagedDefines ==
  ASSUME NEW c, NEW tok \in BOOLEAN, NEW F, PagedCallable(c, tok) \subseteq F
  PROVE  /\ \A f \in {"chunk_begin", "layer_store", "chunk_logits", "hist_pages",
                       "packed_extract", "page_to_kv"} : PageFn(f, tok) \in F
         /\ ~UseIreeAttention(c) => PageFn("layer_page", tok) \in F
         /\ \A l \in LayersOf(c, TRUE) : LayerFn("layer_shortconv", tok, l) \in F
         /\ \A l \in LayersOf(c, FALSE) :
              /\ LayerFn("layer_prepare", tok, l) \in F
              /\ LayerFn("layer_finish", tok, l) \in F
              /\ LayerFn("fused_attn", tok, l) \in F
<1> DEFINE names == {"chunk_begin", "layer_store", "chunk_logits", "hist_pages",
                     "packed_extract", "page_to_kv"}
           entry == {PageFn(f, tok) : f \in names}
           page == IF UseIreeAttention(c) THEN {} ELSE {PageFn("layer_page", tok)}
           conv == {LayerFn("layer_shortconv", tok, l) : l \in LayersOf(c, TRUE)}
           parts(l) == {LayerFn("layer_prepare", tok, l), LayerFn("layer_finish", tok, l),
                        LayerFn("fused_attn", tok, l)}
           attention == UNION {parts(l) : l \in LayersOf(c, FALSE)}
<1>1. PagedFunctions(c, tok) \subseteq F
  BY DEF PagedCallable
<1>2. PagedFunctions(c, tok) = entry \cup page \cup conv \cup attention
  BY Zenon DEF PagedFunctions
<1>3. \A f \in names : PageFn(f, tok) \in entry
  OBVIOUS
<1>4. ~UseIreeAttention(c) => PageFn("layer_page", tok) \in page
  OBVIOUS
<1>5. \A l \in LayersOf(c, TRUE) : LayerFn("layer_shortconv", tok, l) \in conv
  OBVIOUS
<1>6. \A l \in LayersOf(c, FALSE) : parts(l) \subseteq attention
  BY Zenon
<1>7. \A l \in LayersOf(c, FALSE) : /\ LayerFn("layer_prepare", tok, l) \in attention
                                    /\ LayerFn("layer_finish", tok, l) \in attention
                                    /\ LayerFn("fused_attn", tok, l) \in attention
  <2> HIDE DEF attention
  <2> QED
    BY <1>6
<1> HIDE DEF entry, page, conv, attention
<1>8. /\ entry \subseteq F /\ page \subseteq F
      /\ conv \subseteq F /\ attention \subseteq F
  BY <1>1, <1>2
<1> QED
  BY <1>3, <1>4, <1>5, <1>7, <1>8

\* What a layer of a paged entry point calls before and after its pages.
LEMMA PagedFrameCalls ==
  ASSUME NEW c, NEW tok \in BOOLEAN, NEW l \in Nat, l \in LayersOf(c, FALSE),
         NEW F, PagedCallable(c, tok) \subseteq F
  PROVE  CallsOnly(LayerPrepare(c, tok, l), F) /\ CallsOnly(LayerFinish(c, tok, l), F)
<1> DEFINE enter == Enter(l, LayerFn("layer_prepare", tok, l))
           leave == Enter(l, LayerFn("layer_finish", tok, l))
           prepare == Enter(l, Fn("prepare_paged_attention", tok))
           rot == Rotations(c, l, Fn("apply_rope_chunk_q", tok), Fn("apply_rope_chunk_kv", tok))
           norms == HeadNorms(c, tok, l)
           proj == Projections(c, tok, l, LayerIn(l))
           out == AttnOut(c, tok, l, LayerIn(l))
           ffn == FeedForward(c, tok, l)
<1>1. Callable(c, tok) \subseteq F
  BY DEF PagedCallable, PagedHelpers, Callable
<1>2. /\ Fn("prepare_paged_attention", tok) \in F
      /\ c.rope >= 0 => Fn("apply_rope_chunk_q", tok) \in F /\ Fn("apply_rope_chunk_kv", tok) \in F
  BY DEF PagedCallable, PagedHelpers
<1>3. LayerFn("layer_prepare", tok, l) \in F /\ LayerFn("layer_finish", tok, l) \in F
  BY PagedDefines
<1>4. CallsOnly(enter, F) /\ CallsOnly(leave, F) /\ CallsOnly(prepare, F) /\ CallsOnly(rot, F)
  BY <1>2, <1>3, EnterCalls, RotationCalls
<1>5. CallsOnly(norms, F) /\ CallsOnly(out, F) /\ CallsOnly(proj, F) /\ CallsOnly(ffn, F)
  BY <1>1, AttentionCalls, ProjectionCalls, FeedForwardCalls
<1>6. /\ LayerPrepare(c, tok, l) = enter \o proj \o (prepare \o norms \o rot)
      /\ LayerFinish(c, tok, l) = leave \o out \o ffn
  BY DEF LayerPrepare, PreparePagedAttention, LayerFinish
<1> HIDE DEF enter, leave, prepare, rot, norms, proj, out, ffn
<1>7. CallsOnly(prepare \o norms, F) /\ CallsOnly(enter \o proj, F) /\ CallsOnly(leave \o out, F)
  BY <1>4, <1>5, JoinCalls
<1>8. CallsOnly(prepare \o norms \o rot, F) /\ CallsOnly(leave \o out \o ffn, F)
  BY <1>4, <1>5, <1>7, JoinCalls
<1> QED
  BY <1>6, <1>7, <1>8, JoinCalls

\* The two forms of attention over the pages, each with its mask.
LEMMA PagedKernelCalls ==
  ASSUME NEW c, NEW tok \in BOOLEAN, NEW l, NEW F, PagedCallable(c, tok) \subseteq F
  PROVE  /\ CallsOnly(PagedWrites(c, tok, l), F) /\ CallsOnly(PackPages(tok, l), F)
         /\ UseIreeAttention(c) => CallsOnly(IreeAttn(c, tok, l), F)
         /\ ~UseIreeAttention(c) => CallsOnly(LayerPage(c, tok, l), F)
<1>1. /\ PageFn("packed_extract", tok) \in F /\ PageFn("layer_store", tok) \in F
      /\ PageFn("page_to_kv", tok) \in F
      /\ ~UseIreeAttention(c) => PageFn("layer_page", tok) \in F
  BY PagedDefines
<1>2. /\ UseIreeAttention(c) =>
           Fn("full_causal_mask", tok) \in F /\ Fn("iree_attention", tok) \in F
      /\ ~UseIreeAttention(c) =>
           Fn("paged_causal_mask", tok) \in F /\ Fn("online_attention_page", tok) \in F
  BY DEF PagedCallable, PagedHelpers
<1>3. Dialect("select") \in F /\ Dialect("extract_slice") \in F
  BY DEF PagedCallable, DialectOps
<1>4. CallsOnly(PagedWrites(c, tok, l), F) /\ CallsOnly(PackPages(tok, l), F)
  BY <1>1, TwoCalls DEF PagedWrites, PackPages, Instr
<1>5. ASSUME UseIreeAttention(c) PROVE CallsOnly(IreeAttn(c, tok, l), F)
  <2> DEFINE kernel == << Instr(V(l, "mask"), Fn("full_causal_mask", tok), <<>>, NoWeight),
                          Instr(V(l, "ctx"), Fn("iree_attention", tok),
                                <<Rotated(c, l, "q"), V(l, "kp"), V(l, "vp"), V(l, "mask")>>,
                                NoWeight) >>
  <2>1. CallsOnly(kernel, F)
    BY <1>2, <1>5, TwoCalls DEF Instr
  <2> HIDE DEF kernel
  <2>2. IreeAttn(c, tok, l) = PackPages(tok, l) \o kernel
    BY DEF IreeAttn, kernel
  <2> QED
    BY <1>4, <2>1, <2>2, JoinCalls
<1>6. ASSUME ~UseIreeAttention(c) PROVE CallsOnly(LayerPage(c, tok, l), F)
  <2> DEFINE page == << Instr(V(l, "kv1_pg"), PageFn("packed_extract", tok), <<>>, NoWeight),
                        Instr(V(l, "kva"), Dialect("select"), <<V(l, "kv2"), V(l, "kv1_pg")>>,
                              NoWeight) >>
             enter == Enter(l, PageFn("layer_page", tok))
             slices == << Instr(V(l, "kp"), Dialect("extract_slice"), <<V(l, "kva")>>, NoWeight),
                          Instr(V(l, "vp"), Dialect("extract_slice"), <<V(l, "kva")>>, NoWeight) >>
             kernel == << Instr(V(l, "mask"), Fn("paged_causal_mask", tok), <<>>, NoWeight),
                          Instr(V(l, "ctx"), Fn("online_attention_page", tok),
                                <<Rotated(c, l, "q"), V(l, "kp"), V(l, "vp"), V(l, "mask")>>,
                                NoWeight) >>
  <2>1. CallsOnly(page, F) /\ CallsOnly(slices, F)
    BY <1>1, <1>3, TwoCalls DEF Instr
  <2>2. CallsOnly(enter, F) /\ CallsOnly(kernel, F)
    BY <1>1, <1>2, <1>6, EnterCalls, TwoCalls DEF Instr
  <2>3. LayerPage(c, tok, l) = page \o enter \o slices \o kernel
    BY DEF LayerPage
  <2> HIDE DEF page, enter, slices, kernel
  <2>4. CallsOnly(page \o enter, F)
    BY <2>1, <2>2, JoinCalls
  <2>5. CallsOnly(page \o enter \o slices, F)
    BY <2>1, <2>4, JoinCalls
  <2> QED
    BY <2>2, <2>3, <2>5, JoinCalls
<1> QED
  BY <1>4, <1>5, <1>6

\* An attention layer of a paged entry point.
LEMMA PagedAttentionCalls ==
  ASSUME NEW c, NEW tok \in BOOLEAN, NEW l \in Nat, l \in LayersOf(c, FALSE),
         NEW F, PagedCallable(c, tok) \subseteq F
  PROVE  CallsOnly(FusedAttn(c, tok, l), F)
<1> DEFINE enter == Enter(l, LayerFn("fused_attn", tok, l))
           hist == Enter(l, PageFn("hist_pages", tok))
           prepare == LayerPrepare(c, tok, l)
           writes == PagedWrites(c, tok, l)
           pack == PackPages(tok, l)
           body == IF UseIreeAttention(c) THEN IreeAttn(c, tok, l)
                   ELSE LayerPage(c, tok, l) \o pack
           finish == LayerFinish(c, tok, l)
<1>1. LayerFn("fused_attn", tok, l) \in F /\ PageFn("hist_pages", tok) \in F
  BY PagedDefines
<1>2. CallsOnly(enter, F) /\ CallsOnly(hist, F)
  BY <1>1, EnterCalls
<1>3. CallsOnly(prepare, F) /\ CallsOnly(finish, F)
  BY PagedFrameCalls
<1>4. CallsOnly(writes, F) /\ CallsOnly(pack, F)
  BY PagedKernelCalls
<1>5. CallsOnly(body, F)
  <2>1. CASE UseIreeAttention(c)
    BY <2>1, PagedKernelCalls
  <2>2. CASE ~UseIreeAttention(c)
    <3>1. CallsOnly(LayerPage(c, tok, l), F)
      BY <2>2, PagedKernelCalls
    <3> HIDE DEF pack
    <3> QED
      BY <1>4, <2>2, <3>1, JoinCalls
  <2> QED
    BY <2>1, <2>2
<1>6. FusedAttn(c, tok, l) = enter \o hist \o prepare \o writes \o body \o finish
  BY DEF FusedAttn
<1> HIDE DEF enter, hist, prepare, writes, body, finish
<1>7. CallsOnly(enter \o hist, F)
  BY <1>2, JoinCalls
<1>8. CallsOnly(enter \o hist \o prepare, F)
  BY <1>3, <1>7, JoinCalls
<1>9. CallsOnly(enter \o hist \o prepare \o writes, F)
  BY <1>4, <1>8, JoinCalls
<1>10. CallsOnly(enter \o hist \o prepare \o writes \o body, F)
  BY <1>5, <1>9, JoinCalls
<1> QED
  BY <1>3, <1>6, <1>10, JoinCalls

LEMMA PagedCalls ==
  ASSUME NEW c, IsList(c.kinds), NEW tok \in BOOLEAN, NEW F,
         PagedCallable(c, tok) \subseteq F
  PROVE  CallsOnly(PagedEntry(c, tok), F)
<1> DEFINE layer(l) == IF LayerKind(c, l) = "conv" THEN LayerShortConv(c, tok, l)
                       ELSE FusedAttn(c, tok, l)
           layers == [i \in DOMAIN c.kinds |-> layer(i - 1)]
           first == ChunkBegin(c, tok)
           last == ChunkLogits(c, tok)
           n == Len(c.kinds)
<1>1. PagedEntry(c, tok) = first \o FlattenSeq(layers) \o last
  BY DEF PagedEntry
<1>2. Callable(c, tok) \subseteq F
  BY DEF PagedCallable, PagedHelpers, Callable
<1>3. CallsOnly(first, F) /\ CallsOnly(last, F)
  <2>1. PageFn("chunk_begin", tok) \in F /\ PageFn("chunk_logits", tok) \in F
    BY PagedDefines
  <2>2. /\ CallsOnly(Enter(-1, PageFn("chunk_begin", tok)), F)
        /\ CallsOnly(Enter(-1, PageFn("chunk_logits", tok)), F)
    BY <2>1, EnterCalls
  <2>3. CallsOnly(Gather(c, Mode(tok)), F) /\ CallsOnly(Projected(c, tok, LastOut(c)), F)
    BY <1>2, EndCalls
  <2> QED
    BY <2>2, <2>3, JoinCalls DEF ChunkBegin, ChunkLogits
<1>4. ASSUME NEW l \in 0..(n - 1) PROVE CallsOnly(layer(l), F)
  <2>1. l \in Nat
    BY DEF IsList
  <2>2. CASE LayerKind(c, l) = "conv"
    <3>1. l \in LayersOf(c, TRUE)
      BY <2>2 DEF LayersOf
    <3>2. LayerFn("layer_shortconv", tok, l) \in F
      BY <3>1, PagedDefines
    <3>3. CallsOnly(Enter(l, LayerFn("layer_shortconv", tok, l)), F)
      BY <3>2, EnterCalls
    <3>4. CallsOnly(ConvMixer(c, tok, l, LayerIn(l)), F)
      BY <1>2, <2>2, ConvCalls
    <3>5. CallsOnly(FeedForward(c, tok, l), F)
      BY <1>2, <2>1, FeedForwardCalls
    <3>6. CallsOnly(Enter(l, LayerFn("layer_shortconv", tok, l))
                      \o ConvMixer(c, tok, l, LayerIn(l)), F)
      BY <3>3, <3>4, JoinCalls
    <3>7. CallsOnly(LayerShortConv(c, tok, l), F)
      BY <3>5, <3>6, JoinCalls DEF LayerShortConv
    <3> QED
      BY <2>2, <3>7
  <2>3. CASE LayerKind(c, l) # "conv"
    <3>1. l \in LayersOf(c, FALSE)
      BY <2>3 DEF LayersOf
    <3> QED
      BY <2>1, <2>3, <3>1, PagedAttentionCalls
  <2> QED
    BY <2>2, <2>3
<1>5. n \in Nat /\ DOMAIN c.kinds = 1..n
  BY DEF IsList
<1> HIDE DEF layer, first, last, n
<1>6. layers = [i \in 1..n |-> layers[i]] /\ \A i \in 1..n : layers[i] = layer(i - 1)
  BY <1>5
<1>7. ASSUME NEW i \in 1..n PROVE CallsOnly(layers[i], F)
  <2>1. i - 1 \in 0..(n - 1)
    BY <1>5
  <2>2. layers[i] = layer(i - 1)
    BY <1>6
  <2> HIDE DEF layers
  <2> QED
    BY <1>4, <2>1, <2>2
<1> HIDE DEF layers
<1> QED
  BY <1>1, <1>3, <1>5, <1>6, <1>7, EntryCalls

\* Every entry point of every module, whatever the configuration.
LEMMA ProgramCalls ==
  ASSUME NEW c, IsList(c.kinds), NEW program \in Programs(c),
         NEW entry \in Entries(c, program)
  PROVE  CallsOnly(entry, DialectOps \cup Helpers(c, program) \cup {NoHelper})
<1> DEFINE F == DialectOps \cup Helpers(c, program) \cup {NoHelper}
<1>1. PICK tok \in BOOLEAN :
        /\ entry = IF c.paged THEN PagedEntry(c, tok) ELSE StaticEntry(c, tok)
        /\ tok => program # "Prefill"
        /\ ~tok => program # "Decode"
  BY DEF Entries, Emits
<1>2. CASE c.paged
  <2>1. PagedCallable(c, tok) \subseteq F
    BY <1>1, <1>2 DEF PagedCallable, Helpers, Emits
  <2> QED
    BY <1>1, <1>2, <2>1, PagedCalls
<1>3. CASE ~c.paged
  <2>1. StaticCallable(c) \subseteq F
    BY <1>3 DEF StaticCallable, Helpers
  <2> QED
    BY <1>1, <1>3, <2>1, StaticCalls
<1> QED
  BY <1>2, <1>3

----------------------------------------------------------------------------
(* The schedule on its way to the emitter *)

Listed(values) == "layer_types" \in DOMAIN values => IsList(values["layer_types"])

ScheduleKept ==
  /\ pc \in Compiling => Listed(package.values)
  /\ pc = "compile" => IsList(bound.lowered.config.kinds)

LEMMA DefaultSchedule == ASSUME NEW a \in Registered PROVE Listed(SchemaDefaults(a))
<1>1. \A b, c, d, e, f, g, h, i :
        "layer_types" \notin DOMAIN DecoderDefaults(b, c, d, e, f, g, h, i)
  BY DEF DecoderDefaults
<1>2. CASE a = "llama.decoder"
  BY <1>1, <1>2, SMT DEF SchemaDefaults, Listed
<1>3. CASE a = "qwen3.decoder"
  <2>1. SchemaDefaults(a) = Over(DecoderDefaults(28, 16, 8, 128, 1024, 3072, 151936, 40960),
                                 [rope_theta |-> 1000000])
    BY <1>3, SMT DEF SchemaDefaults
  <2>2. "layer_types" \notin DOMAIN SchemaDefaults(a)
    BY <1>1, <2>1, SMT DEF Over
  <2> QED
    BY <2>2 DEF Listed
<1>4. CASE a = "lfm2.hybrid"
  <2> DEFINE kinds == <<"conv", "conv", "full_attention">>
  <2>1. SchemaDefaults(a) = Over(DecoderDefaults(3, 4, 2, 64, 256, 512, 32000, 4096),
                                 [rope_theta |-> 1000000, conv_kernel |-> 3,
                                  layer_types |-> kinds])
    BY <1>4, SMT DEF SchemaDefaults
  <2>2. IsList(kinds)
    BY DEF IsList
  <2> HIDE DEF kinds
  <2>3. SchemaDefaults(a)["layer_types"] = kinds
    BY <1>1, <2>1, SMT DEF Over
  <2> QED
    BY <2>2, <2>3 DEF Listed
<1> QED
  BY <1>2, <1>3, <1>4 DEF Registered

LEMMA ScheduleResolves ==
  ASSUME NEW a \in Registered, NEW overrides, NEW meta,
         "layer_types" \notin DOMAIN overrides, Listed(meta),
         NEW config, config = BuildPackage(a, overrides, meta,
                                           Only(meta, {"vocab_size", "context_length"})),
         config.ok
  PROVE  Listed(config.values)
<1> DEFINE dotted == Only(meta, {"vocab_size", "context_length"})
           given == Over(overrides, Over(meta, dotted))
           v == Only(Over(given, SchemaDefaults(a)), SchemaFields(a))
<1>1. config.values = Resolve(a, overrides, meta, dotted).values
      /\ Resolve(a, overrides, meta, dotted).ok
  BY DEF BuildPackage, Err
<1>2. \/ config.values = v
      \/ config.values = [v EXCEPT !.head_dim = v.hidden_size \div v.num_heads]
  BY <1>1 DEF Resolve, Err
<1>3. "layer_types" \notin DOMAIN dotted
  BY DEF Only
<1>4. Listed(given)
  BY <1>3 DEF Over, Listed
<1>5. Listed(SchemaDefaults(a))
  BY DefaultSchedule
<1> HIDE DEF given
<1>6. Listed(v)
  BY <1>4, <1>5 DEF Over, Only, Listed
<1>7. v = [x \in DOMAIN v |-> v[x]]
  BY DEF Only
<1> HIDE DEF v
<1> QED
  BY <1>2, <1>6, <1>7 DEF Listed

LEMMA SchedulePackage ==
  ASSUME CommandInv, GraphInv, ScheduleKept, BuildArchitecture
  PROVE  ScheduleKept'
<1>1. /\ pc = "package" /\ package' = BuildPackage(arch, Overrides, catalog.meta,
                                 Only(catalog.meta, {"vocab_size", "context_length"}))
      /\ pc' = IF package'.ok THEN "bind" ELSE "failed"
  BY DEF BuildArchitecture, GoOn
<1>2. CASE pc' = "failed"
  BY <1>2 DEF ScheduleKept, Compiling
<1>3. CASE pc' # "failed"
  <2>1. pc' = "bind" /\ package'.ok
    BY <1>1, <1>3
  <2>2. /\ arch \in Registered /\ catalog = NamedCatalog(arch, checkpoint) /\ catalog.ok
        /\ checkpoint \in DOMAIN Checkpoints
    BY <1>1 DEF GraphInv, CompileKeeps, CommandInv, Given
  <2>3. Listed(catalog.meta)
    <3>1. /\ Inspect(Checkpoints[checkpoint]).ok
          /\ catalog.meta = Inspect(Checkpoints[checkpoint]).meta
      BY <2>2, NamedCatalogIs
    <3>2. "layer_types" \in DOMAIN catalog.meta => catalog.meta["layer_types"] \in Seq(STRING)
      BY <2>2, <3>1, MetadataAssumption
    <3> QED
      BY <3>2 DEF Listed, IsList
  <2>4. "layer_types" \notin DOMAIN Overrides
    BY DEF Overrides
  <2>5. Listed(package'.values)
    BY <1>1, <2>1, <2>2, <2>3, <2>4, ScheduleResolves
  <2> QED
    BY <2>1, <2>5 DEF ScheduleKept, Listed
<1> QED
  BY <1>2, <1>3

LEMMA SupportedLayers == ASSUME NEW c, SupportsDenseEmit(c) PROVE c.layers \in 1..32
BY DEF SupportsDenseEmit

LEMMA ScheduleLowered ==
  ASSUME CommandInv, GraphInv, ScheduleKept, LowerModel
  PROVE  ScheduleKept'
<1> DEFINE lowered == LowerBoundModel(bound.model, Req.portable)
           config == FromBoundModel(bound.model, Req.portable)
<1>1. /\ pc = "lower" /\ package' = package
      /\ bound' = Over(bound, [lowered |-> lowered])
      /\ pc' = IF bound'.lowered.ok THEN "compile" ELSE "failed"
  BY DEF LowerModel, GoOn
<1>2. CASE pc' = "failed"
  BY <1>2 DEF ScheduleKept, Compiling
<1>3. CASE pc' # "failed"
  <2>1. DOMAIN bound = {"complete", "model"}
    BY <1>1 DEF CommandInv, RoomKept
  <2> HIDE DEF lowered
  <2>2. bound'.lowered = lowered
    BY <1>1, <2>1 DEF Over
  <2>3. pc' = "compile" /\ lowered.ok
    BY <1>1, <1>3, <2>2
  <2>4. lowered.config = config /\ config.layers \in Nat
    <3> HIDE DEF config
    <3>1. lowered = IF /\ ValidateLowerings(bound.model)
                       /\ \A i \in DOMAIN bound.model.bindings :
                            bound.model.bindings[i].name \in DOMAIN config.compute
                       /\ SupportsDenseEmit(config)
                    THEN [ok |-> TRUE, config |-> config]
                    ELSE Failure
      BY DEF lowered, LowerBoundModel, config
    <3>2. lowered.config = config /\ SupportsDenseEmit(config)
      BY <2>3, <3>1 DEF Failure
    <3>3. config.layers \in 1..32
      BY <3>2, SupportedLayers
    <3> QED
      BY <3>2, <3>3
  <2>5. config.kinds = ResolveLayerTypes(bound.model.values, config.layers)
    BY DEF FromBoundModel
  <2>6. Listed(bound.model.values)
    BY <1>1 DEF ScheduleKept, GraphInv, CompileKeeps, Compiling
  <2> HIDE DEF config
  <2>7. IsList(config.kinds)
    <3> DEFINE values == bound.model.values
               n == config.layers
    <3>1. CASE "layer_types" \in DOMAIN values
      BY <2>5, <2>6, <3>1 DEF ResolveLayerTypes, Listed
    <3>2. CASE "layer_types" \notin DOMAIN values
      <4>1. config.kinds = [i \in 1..n |-> "full_attention"]
        BY <2>5, <3>2 DEF ResolveLayerTypes
      <4>2. n \in Nat
        BY <2>4
      <4> HIDE DEF n
      <4>3. IsList([i \in 1..n |-> "full_attention"])
        BY <4>2 DEF IsList
      <4> QED
        BY <4>1, <4>3
    <3> QED
      BY <3>1, <3>2
  <2>8. Listed(package'.values)
    BY <1>1 DEF ScheduleKept, Compiling
  <2> QED
    BY <2>2, <2>3, <2>4, <2>7, <2>8 DEF ScheduleKept, Listed
<1> QED
  BY <1>2, <1>3

LEMMA NextSchedule == CommandInv /\ GraphInv /\ ScheduleKept /\ [Next]_vars => ScheduleKept'
<1> SUFFICES ASSUME CommandInv, GraphInv, ScheduleKept, [Next]_vars
             PROVE  ScheduleKept'
  OBVIOUS
<1>1. CASE BindSlots \/ SelectKernels
  BY <1>1 DEF BindSlots, SelectKernels, GoOn, ScheduleKept, Compiling, Listed
<1>2. CASE UNCHANGED vars
  BY <1>2 DEF vars, givenVars, compileVars, ScheduleKept, Compiling, Listed
<1>3. CASE Tokenize \/ ResolveCommandArchitecture \/ ResolveCommandTarget \/ InspectAndName
  BY <1>3 DEF Tokenize, ResolveCommandArchitecture, ResolveCommandTarget, InspectAndName, GoOn,
              ScheduleKept, Compiling
<1>4. CASE CompileBundle \/ ReplaceCheckpoint \/ ChangeDevices \/ CheckBundle \/ OpenParameters
  BY <1>4 DEF CompileBundle, ReplaceCheckpoint, ChangeDevices, CheckBundle, OpenParameters, GoOn,
              ScheduleKept, Compiling
<1>5. CASE Prefill \/ DecodeTurn \/ Finish
  BY <1>5 DEF Prefill, DecodeTurn, Finish, GoOn, ScheduleKept, Compiling
<1> QED
  BY <1>1, <1>2, <1>3, <1>4, <1>5, SchedulePackage, ScheduleLowered DEF Next

\* No entry point calls a function that its module does not define, and neither do
\* the functions it enters, down to the masks, the repeated heads, the row updates
\* and the page helpers of the attention, for every number and kind of layers, every
\* weight encoding, with and without pages, head norms and rotation, in one module
\* or in two: emit_helpers and the entry points decide apart which helper there is,
\* by the same conditions.
THEOREM EmittedCallsAreDefined == Spec => []CallsAreDefined
<1>1. Init => ScheduleKept
  BY DEF Init, ScheduleKept, Compiling
<1>2. ScheduleKept => CallsAreDefined
  <2> SUFFICES ASSUME ScheduleKept, pc = "compile"
               PROVE  LET c == bound.lowered.config
                      IN \A program \in Programs(c) : \A entry \in Entries(c, program) :
                           \A i \in DOMAIN entry :
                             entry[i].fn \in DialectOps \cup Helpers(c, program) \cup {NoHelper}
    BY DEF CallsAreDefined
  <2> DEFINE c == bound.lowered.config
  <2>1. IsList(c.kinds)
    BY DEF ScheduleKept
  <2> HIDE DEF c
  <2>2. ASSUME NEW program \in Programs(c), NEW entry \in Entries(c, program),
               NEW i \in DOMAIN entry
        PROVE  entry[i].fn \in DialectOps \cup Helpers(c, program) \cup {NoHelper}
    <3> DEFINE F == DialectOps \cup Helpers(c, program) \cup {NoHelper}
    <3>1. CallsOnly(entry, F)
      BY <2>1, ProgramCalls
    <3> HIDE DEF F
    <3>2. PICK S : entry \in Seq(S) /\ \A o \in S : o.fn \in F
      BY <3>1 DEF CallsOnly
    <3>3. entry[i] \in S
      BY <3>2
    <3> QED
      BY <3>2, <3>3 DEF F
  <2> QED
    BY <2>2 DEF c
<1> QED
  BY <1>1, <1>2, NextSchedule, GraphInvariant, CommandInvariant, PTL DEF Spec

=============================================================================
