----------------------------- MODULE PagedChunk -----------------------------
(***************************************************************************)
(* The KV half of one attention layer of a compiled paged program, whose   *)
(* functions prefill_chunk and decode_chunk (a chunk of one) are called in *)
(* any order on the same planes: the rows of a chunk are stored page by    *)
(* page into the packed planes [kv_len], and the queries of the chunk      *)
(* attend to them, either over the packed planes (flash attention) or page *)
(* by page (portable page walk).                                           *)
(*                                                                         *)
(* The emitted program is single-assignment code: kvIn is the imported     *)
(* plane %k_0, stored[w] the page value %kv1o_w<w>, kvOut the chain of     *)
(* insert_slice results that becomes the tied output.                      *)
(***************************************************************************)
EXTENDS Integers, FiniteSets

CONSTANTS
  PageSize,         \* rows of one page
  ChunkSize,        \* static width of the chunk of prefill_chunk
  MaxKv,            \* compiled sequence capacity
  Rows              \* contents of a row

\* The geometry configure_paged_kv accepts.
ASSUME ChunkAssumption ==
  /\ PageSize \in Nat \ {0} /\ ChunkSize \in Nat \ {0} /\ MaxKv \in Nat \ {0}
  /\ PageSize % ChunkSize = 0 \/ ChunkSize % PageSize = 0
  /\ Rows # {}

CeilDiv(a, b) == (a + b - 1) \div b
AtMost(a, b) == IF a < b THEN a ELSE b

NumPages == CeilDiv(MaxKv, PageSize)
KvLen == NumPages * PageSize

Positions == 0..(KvLen - 1)
Offsets == 0..(PageSize - 1)
Plane == [Positions -> Rows]
Page == [Offsets -> Rows]

VARIABLES
  flash,    \* use_iree_attention, settled when the program is compiled
  phase,    \* "idle", "store", "attend", "pack"
  kvIn,     \* the imported plane, read by every packed_extract
  kvOut,    \* the plane after the insert_slices emitted so far
  seq,      \* c.seq of the called function: ChunkSize, or 1 for decode_chunk
  start,    \* %start_pos
  valid,    \* %valid, one more than the index of the last real token
  chunk,    \* the chunk's own rows, those of the padding included
  stored,   \* stored[i]: page value after write i, for the writes done so far
  w,        \* next write, page of the walk, or insert of the phase
  seen      \* <<q, k, row>>: query q gave key k, holding row, a weight

callVars == <<flash, seq, start, valid, chunk>>
vars == <<flash, phase, kvIn, kvOut, seq, start, valid, chunk, stored, w, seen>>

----------------------------------------------------------------------------
Queries == 0..(seq - 1)

\* Mutant: no room for the page a chunk that starts inside a page spills into.
MaxWritesAligned == CeilDiv(seq, PageSize)

\* paged_max_writes
MaxWrites == CeilDiv(seq, PageSize) + 1
Writes == 0..(MaxWrites - 1)

\* packed_extract: one page of a plane.
PackedExtract(plane, pi) == [o \in Offsets |-> plane[pi * PageSize + o]]

\* layer_store: overlay the chunk rows [start, start + valid) on page pi.
LayerStore(page, pi) ==
  [o \in Offsets |->
    LET abs == pi * PageSize + o
    IN IF start <= abs /\ abs < start + valid
         THEN chunk[AtMost(abs - start, seq - 1)] ELSE page[o]]

\* pi_w<w>_c: the page of write w, clamped to the last page of the plane.
WritePage(i) == AtMost(start \div PageSize + i, NumPages - 1)

\* Mutant: a page the sequence only begins to fill is left out of the walk.
HistPagesFilled == AtMost((start + valid) \div PageSize, NumPages)

\* hist_pages: pages the walk visits.
HistPages == AtMost(CeilDiv(start + valid, PageSize), NumPages)

\* full_causal_mask and paged_causal_mask: causal, and inside the written range.
Visible(q, k) == k <= start + q /\ k < start + valid

----------------------------------------------------------------------------
Init ==
  /\ phase = "idle"
  /\ \E r \in Rows : kvIn = [k \in Positions |-> r]
  /\ kvOut = kvIn
  /\ flash \in BOOLEAN
  /\ seq = 1 /\ start = 0 /\ valid = 1
  /\ \E r \in Rows : chunk = [q \in {0} |-> r]
  /\ stored = <<>> /\ w = 0 /\ seen = {}

\* Mutant: the session lets a chunk run past the compiled capacity.
InvokeAnywhere ==
  /\ phase = "idle"
  /\ seq' \in {ChunkSize, 1}
  /\ start' \in 0..(MaxKv - 1) /\ valid' \in 1..seq'
  /\ chunk' \in [0..(seq' - 1) -> Rows]
  /\ phase' = "store" /\ w' = 0
  /\ kvIn' = kvOut
  /\ stored' = <<>> /\ seen' = {}
  /\ UNCHANGED <<flash, kvOut>>

\* Mutant: a call imports the planes its predecessor imported.
InvokeStale ==
  /\ phase = "idle"
  /\ seq' \in {ChunkSize, 1}
  /\ start' \in 0..(MaxKv - 1) /\ valid' \in 1..seq'
  /\ start' + valid' <= MaxKv
  /\ chunk' \in [0..(seq' - 1) -> Rows]
  /\ phase' = "store" /\ w' = 0
  /\ stored' = <<>> /\ seen' = {}
  /\ UNCHANGED <<flash, kvIn, kvOut>>

\* The chunk function is invoked; chunk_begin derives valid from `last`. The
\* session keeps start + valid inside its sequence cap.
Invoke ==
  /\ phase = "idle"
  /\ seq' \in {ChunkSize, 1}
  /\ start' \in 0..(MaxKv - 1) /\ valid' \in 1..seq'
  /\ start' + valid' <= MaxKv
  /\ chunk' \in [0..(seq' - 1) -> Rows]
  /\ phase' = "store" /\ w' = 0
  /\ kvIn' = kvOut \* the tied output of the last call is this call's input
  /\ stored' = <<>> /\ seen' = {}
  /\ UNCHANGED <<flash, kvOut>>

\* Write w: the page comes from the input plane, or from the last earlier write
\* of the same page (several writes meet on the last page).
StorePage ==
  /\ phase = "store"
  /\ LET pi == WritePage(w)
         same == {i \in 0..(w - 1) : WritePage(i) = pi}
         page == IF same = {} THEN PackedExtract(kvIn, pi)
                 ELSE stored[CHOOSE i \in same : \A j \in same : j <= i]
     IN stored' = [i \in 0..w |-> IF i = w THEN LayerStore(page, pi) ELSE stored[i]]
  /\ IF w + 1 < MaxWrites
       THEN w' = w + 1 /\ UNCHANGED phase
       ELSE w' = 0 /\ phase' = IF flash THEN "pack" ELSE "attend"
  /\ UNCHANGED <<kvIn, kvOut, callVars, seen>>

\* insert_slice of the page of write w into the plane.
PackPage ==
  /\ phase = "pack"
  /\ kvOut' = [k \in Positions |->
                 IF k \div PageSize = WritePage(w) THEN stored[w][k % PageSize]
                 ELSE kvOut[k]]
  /\ IF w + 1 < MaxWrites
       THEN w' = w + 1 /\ UNCHANGED phase
       ELSE w' = 0 /\ phase' = IF flash THEN "attend" ELSE "idle"
  /\ UNCHANGED <<kvIn, callVars, stored, seen>>

\* One attention over the packed planes under the full mask.
AttendPacked ==
  /\ phase = "attend" /\ flash
  /\ seen' = {x \in Queries \X Positions \X Rows :
                /\ Visible(x[1], x[2]) /\ x[3] = kvOut[x[2]]}
  /\ phase' = "idle"
  /\ UNCHANGED <<kvIn, kvOut, callVars, stored, w>>

\* layer_page on page w of the walk: a page some write touched is taken from
\* the first such write, any other from the input plane.
AttendPage ==
  /\ phase = "attend" /\ ~flash
  /\ LET touched == {i \in Writes : WritePage(i) = w}
         page == IF touched = {} THEN PackedExtract(kvIn, w)
                 ELSE stored[CHOOSE i \in touched : \A j \in touched : i <= j]
     IN seen' = seen \cup
          {x \in Queries \X Positions \X Rows :
             /\ x[2] \div PageSize = w
             /\ Visible(x[1], x[2]) /\ x[3] = page[x[2] % PageSize]}
  /\ IF w + 1 < HistPages
       THEN w' = w + 1 /\ UNCHANGED phase
       ELSE w' = 0 /\ phase' = "pack"
  /\ UNCHANGED <<kvIn, kvOut, callVars, stored>>

Next == Invoke \/ StorePage \/ PackPage \/ AttendPacked \/ AttendPage

Spec == Init /\ [][Next]_vars

----------------------------------------------------------------------------
(* Properties *)

\* What a chunk is supposed to store: its real rows at their positions.
Overlay(plane) ==
  [k \in Positions |->
    IF start <= k /\ k < start + valid THEN chunk[k - start] ELSE plane[k]]

\* Type invariant of the chunk program.
TypeOK ==
  /\ phase \in {"idle", "store", "attend", "pack"}
  /\ kvIn \in Plane /\ kvOut \in Plane
  /\ flash \in BOOLEAN /\ seq \in {1, ChunkSize}
  /\ start \in 0..(MaxKv - 1) /\ valid \in 1..seq /\ start + valid <= MaxKv
  /\ chunk \in [Queries -> Rows]
  /\ w \in 0..(MaxWrites + NumPages)
  /\ \E n \in 0..MaxWrites : stored \in [0..(n - 1) -> Page]
  /\ seen \subseteq (Queries \X Positions \X Rows)

\* The page writes of paged_fused_attn_ops together store the chunk's real rows
\* and nothing else, wherever the chunk starts, however many pages it spans and
\* although the writes past the last page are clamped onto it.
StoreIsOverlay ==
  (phase = "idle" \/ (phase = "attend" /\ flash)) /\ seen # {}
    => kvOut = Overlay(kvIn)

\* A query of a real token attends to exactly the keys up to its own position,
\* with the rows the planes hold after the chunk is stored: no padding row, no
\* row left from an earlier sequence, no page missed by the walk.
AttentionSeesPrefix ==
  phase = "idle" /\ seen # {} =>
    \A q \in 0..(valid - 1) :
      {<<x[2], x[3]>> : x \in {y \in seen : y[1] = q}} =
        {<<k, Overlay(kvIn)[k]>> : k \in 0..(start + q)}

\* The call as the session made it.
Call == INSTANCE ChunkCall WITH
  plane <- IF phase = "idle" THEN kvOut ELSE kvIn,
  busy <- phase # "idle",
  call <- [window |-> [i \in 1..seq |-> chunk[i - 1]],
           last |-> valid - 1, start |-> start],
  answer <- IF phase = "idle" /\ seen # {}
              THEN [q \in 0..(valid - 1) |->
                      {<<x[2], x[3]>> : x \in {y \in seen : y[1] = q}}]
              ELSE <<>>

\* The pages of the emitted program are invisible to its caller: a call that
\* returns has stored its real rows and answered every real query in one step,
\* from the planes the last call left, flash attention and page walk alike. The
\* session is modelled on calls of this kind.
ImplementsChunkCall == Call!Spec
=============================================================================
