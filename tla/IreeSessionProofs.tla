------------------------- MODULE IreeSessionProofs -------------------------
(* Theorems about IreeSession, for every geometry of pages and chunks, every *)
(* limit, both storages and every failing device.                            *)
EXTENDS IreeSession, SequenceTheorems, TLAPS

----------------------------------------------------------------------------
(* The compiled program *)

\* The plane of the program has a row for every position the session may use.
LEMMA CapacityCovers ==
  /\ MaxSeq \in Nat \ {0} /\ KvLen \in Nat
  /\ MaxSeq <= MaxKv /\ MaxKv <= KvLen
  /\ MaxPages \in Nat \ {0}
<1> USE SessionAssumption
<1>1. MaxSeq \in Nat \ {0} /\ MaxSeq <= MaxKv
  BY DEF MaxSeq, AtMost, AtLeast
<1>2. ASSUME NEW a \in Nat \ {0} PROVE CeilDiv(a, PageSize) \in Nat
  BY DEF CeilDiv
<1>3. ASSUME NEW a \in Nat \ {0} PROVE a <= CeilDiv(a, PageSize) * PageSize
  <2> DEFINE x == a + PageSize - 1
             q == x \div PageSize
             r == x % PageSize
  <2>1. x \in Nat /\ PageSize \in Nat \ {0}
    OBVIOUS
  <2>2. q \in Nat /\ r \in 0..(PageSize - 1) /\ x = PageSize * q + r
    BY <2>1 DEF q, r
  <2> HIDE DEF q, r
  <2>3. a <= PageSize * q
    BY <2>2
  <2>4. PageSize * q = q * PageSize
    BY <2>2
  <2> QED
    BY <2>3, <2>4 DEF CeilDiv, q, x
<1>4. NumPages \in Nat /\ MaxKv <= NumPages * PageSize
  BY <1>2, <1>3 DEF NumPages
<1>5. NumPages * PageSize \in Nat
  BY <1>4
<1>6. MaxPages \in Nat \ {0}
  BY <1>1, <1>2 DEF MaxPages, AtLeast
<1> QED
  BY <1>1, <1>4, <1>5, <1>6 DEF KvLen

\* A chunk of the prompt fits its window, and its real tokens are the prompt's.
LEMMA WindowFits ==
  ASSUME NEW tokens \in Seq(Tokens), NEW i \in Nat, i * Window < Len(tokens)
  PROVE  /\ WindowOf(tokens, i) \in Seq(Rows)
         /\ Len(WindowOf(tokens, i)) = Window
         /\ LastOf(tokens, i) \in 0..(Window - 1)
         /\ i * Window + LastOf(tokens, i) < Len(tokens)
         /\ LastOf(tokens, i) + 1 < Window => i * Window + LastOf(tokens, i) + 1 = Len(tokens)
         /\ \A j \in 1..(LastOf(tokens, i) + 1) :
              WindowOf(tokens, i)[j] = tokens[i * Window + j]
<1> USE SessionAssumption
<1> DEFINE base == i * Window
           win == WindowOf(tokens, i)
<1>1. base \in Nat /\ Window \in Nat \ {0} /\ Len(tokens) \in Nat
  BY LenProperties
<1>2. win = [j \in 1..Window |-> IF base + j <= Len(tokens) THEN tokens[base + j] ELSE Pad]
  BY DEF WindowOf
<1>3. LastOf(tokens, i) = AtMost(Window, Len(tokens) - base) - 1
  BY DEF LastOf
<1> HIDE DEF base, win
<1>4. ASSUME NEW j \in 1..Window
      PROVE (IF base + j <= Len(tokens) THEN tokens[base + j] ELSE Pad) \in Rows
  BY <1>1, ElementOfSeq DEF Rows
<1>5. win \in Seq(Rows) /\ Len(win) = Window
  BY <1>1, <1>2, <1>4
<1>6. base < Len(tokens)
  BY DEF base
<1> DEFINE last == LastOf(tokens, i)
<1> HIDE DEF last
<1>7. last = AtMost(Window, Len(tokens) - base) - 1
  BY <1>3 DEF last
<1>8. /\ last \in 0..(Window - 1)
      /\ base + last < Len(tokens)
      /\ last + 1 < Window => base + last + 1 = Len(tokens)
  BY <1>1, <1>6, <1>7 DEF AtMost
<1>9. ASSUME NEW j \in 1..(last + 1) PROVE win[j] = tokens[base + j]
  BY <1>1, <1>2, <1>8
<1> QED
  BY <1>5, <1>8, <1>9 DEF base, win, last

\* The convolution state keeps its length and holds rows.
LEMMA ConvType ==
  ASSUME NEW state \in Seq(Rows), Len(state) = ConvKernel,
         NEW window \in Seq(Rows), window # <<>>
  PROVE  ConvLeft(state, window) \in Seq(Rows) /\ Len(ConvLeft(state, window)) = ConvKernel
<1> USE SessionAssumption
<1>1. CASE ConvKernel = 0
  BY <1>1, EmptySeq DEF ConvLeft
<1>2. CASE ConvKernel # 0
  <2>1. state # <<>>
    BY <1>2
  <2>2. Tail(state) \in Seq(Rows) /\ Len(Tail(state)) = ConvKernel - 1
    BY <2>1, HeadTailProperties
  <2> DEFINE p == ConvPadded(state, window)
             n == Len(window)
  <2>3. n \in Nat \ {0}
    BY EmptySeq
  <2>4. p \in Seq(Rows) /\ Len(p) = ConvKernel - 1 + n
    BY <2>2, ConcatProperties DEF ConvPadded
  <2> HIDE DEF p, n
  <2>5. \A j \in n..(n + ConvKernel - 1) : p[j] \in Rows
    BY <1>2, <2>3, <2>4, ElementOfSeq
  <2>6. /\ SubSeq(p, n, n + ConvKernel - 1) \in Seq(Rows)
        /\ Len(SubSeq(p, n, n + ConvKernel - 1)) = ConvKernel
    BY <1>2, <2>3, <2>5, SubSeqProperties
  <2> QED
    BY <1>2, <2>6 DEF ConvLeft, p, n
<1> QED
  BY <1>1, <1>2

\* A convolution state of zeros is one.
LEMMA ZeroConvType == ZeroConv \in Seq(Rows) /\ Len(ZeroConv) = ConvKernel
  BY SessionAssumption DEF ZeroConv, Rows

----------------------------------------------------------------------------
(* The inductive invariant *)

\* While a prefill runs, the chunks done so far are in the planes.
PrefillProgress ==
  next # Idle =>
    /\ Paged /\ Len(history) <= MaxSeq
    /\ \A k \in Positions : k < next * Window => kv[k] = history[k + 1]

\* Planes that are not allocated hold nothing.
UnallocatedIsZero == Paged /\ pages = 0 => kv = ZeroPlane

SessionInv == TypeOK /\ PrefillProgress /\ UnallocatedIsZero /\ PrefillSeesPrompt

\* A row of the planes after a chunk.
LEMMA StoredAt ==
  ASSUME kv \in [Positions -> Rows], NEW window, NEW last, NEW start, NEW k \in Positions
  PROVE  StoreChunk(kv, window, last, start)[k]
           = IF start <= k /\ k <= start + last THEN window[k - start + 1] ELSE kv[k]
BY DEF StoreChunk

\* A chunk stores rows, the prompt is in the planes up to its end, and the loop
\* ends exactly with the prompt.
LEMMA ChunkStep ==
  ASSUME SessionInv, next # Idle,
         NEW window, window = WindowOf(history, next),
         NEW last, last = LastOf(history, next),
         NEW start, start = next * Window
  PROVE  /\ window \in Seq(Rows) /\ window # <<>>
         /\ \A k \in start..(start + last) : window[k - start + 1] \in Rows
         /\ start \in Nat /\ last \in Nat /\ start + last + 1 <= KvLen
         /\ \A k \in Positions : k < start + last + 1 =>
              StoreChunk(kv, window, last, start)[k] = history[k + 1]
         /\ start + last + 1 < Len(history) =>
              (next + 1) * Window = start + last + 1
         /\ start + last + 1 <= Len(history)
<1> USE SessionAssumption
<1>1. /\ next \in Nat /\ next * Window < Len(history) /\ history \in Seq(Tokens)
      /\ Len(history) \in Nat /\ kv \in [Positions -> Rows] /\ Window \in Nat \ {0}
  BY LenProperties DEF SessionInv, TypeOK
<1>2. /\ window \in Seq(Rows) /\ Len(window) = Window
      /\ last \in 0..(Window - 1) /\ start + last < Len(history)
      /\ last + 1 < Window => start + last + 1 = Len(history)
      /\ \A j \in 1..(last + 1) : window[j] = history[start + j]
  BY <1>1, WindowFits
<1>3. start \in Nat /\ last \in Nat
  BY <1>1, <1>2
<1>4. Len(history) <= MaxSeq
  BY DEF SessionInv, PrefillProgress
<1>5. start + last + 1 <= KvLen
  BY <1>1, <1>2, <1>3, <1>4, CapacityCovers, SessionAssumption
<1>6. window # <<>>
  BY <1>1, <1>2
<1>7. ASSUME NEW k \in start..(start + last) PROVE window[k - start + 1] \in Rows
  <2>1. k - start + 1 \in 1..Len(window)
    BY <1>2, <1>3
  <2> QED
    BY <1>2, <2>1, ElementOfSeq
<1>8. ASSUME NEW k \in Positions, k < start + last + 1
      PROVE StoreChunk(kv, window, last, start)[k] = history[k + 1]
  <2>1. k \in Nat
    BY CapacityCovers DEF Positions
  <2>2. CASE start <= k
    <3>1. k - start + 1 \in 1..(last + 1) /\ start + (k - start + 1) = k + 1
      BY <1>3, <2>1, <2>2, <1>8
    <3>2. StoreChunk(kv, window, last, start)[k] = window[k - start + 1]
      BY <1>1, <1>3, <2>1, <2>2, <1>8, StoredAt
    <3> QED
      BY <3>1, <3>2, <1>2
  <2>3. CASE k < start
    <3>1. StoreChunk(kv, window, last, start)[k] = kv[k]
      BY <1>1, <1>3, <2>1, <2>3, StoredAt
    <3> QED
      BY <3>1, <2>3 DEF SessionInv, PrefillProgress
  <2> QED
    BY <2>1, <2>2, <2>3, <1>3
<1>9. ASSUME start + last + 1 < Len(history) PROVE (next + 1) * Window = start + last + 1
  <2>1. last + 1 = Window
    BY <1>2, <1>3, <1>9, <1>1
  <2>2. (next + 1) * Window = next * Window + Window
    BY <1>1
  <2> QED
    BY <2>1, <2>2, <1>3
<1>10. start + last + 1 <= Len(history)
  BY <1>1, <1>2, <1>3
<1> QED
  BY <1>2, <1>3, <1>5, <1>6, <1>7, <1>8, <1>9, <1>10

\* Storing a chunk gives a plane of rows.
LEMMA StoreType ==
  ASSUME kv \in [Positions -> Rows], NEW window, NEW last \in Nat, NEW start \in Nat,
         \A k \in start..(start + last) : window[k - start + 1] \in Rows
  PROVE  /\ StoreChunk(kv, window, last, start) \in [Positions -> Rows]
         /\ \A done \in SUBSET (start..(start + last)) :
              [k \in Positions |-> IF k \in done THEN window[k - start + 1] ELSE kv[k]]
                \in [Positions -> Rows]
<1>1. \A k \in Positions : k \in Nat
  BY CapacityCovers DEF Positions
<1>2. StoreChunk(kv, window, last, start) \in [Positions -> Rows]
  <2> SUFFICES ASSUME NEW k \in Positions
               PROVE (IF start <= k /\ k <= start + last THEN window[k - start + 1]
                      ELSE kv[k]) \in Rows
    BY DEF StoreChunk
  <2>1. CASE start <= k /\ k <= start + last
    <3>1. k \in start..(start + last)
      BY <1>1, <2>1
    <3> QED
      BY <2>1, <3>1
  <2>2. CASE ~(start <= k /\ k <= start + last)
    BY <2>2
  <2> QED
    BY <2>1, <2>2
<1>3. ASSUME NEW done \in SUBSET (start..(start + last))
      PROVE [k \in Positions |-> IF k \in done THEN window[k - start + 1] ELSE kv[k]]
              \in [Positions -> Rows]
  OBVIOUS
<1> QED
  BY <1>2, <1>3

\* A failed chunk leaves rows in the planes and a convolution state of its shape.
LEMMA ChunkFailsType ==
  ASSUME SessionInv, NEW window \in Seq(Rows), window # <<>>,
         NEW last \in Nat, NEW start \in Nat,
         \A k \in start..(start + last) : window[k - start + 1] \in Rows,
         ChunkFails(kv, window, last, start)
  PROVE  /\ kv' \in [Positions -> Rows]
         /\ conv' \in Seq(Rows) /\ Len(conv') = ConvKernel
         /\ \A k \in Positions : k < start => kv'[k] = kv[k]
<1>1. kv \in [Positions -> Rows] /\ conv \in Seq(Rows) /\ Len(conv) = ConvKernel
  BY DEF SessionInv, TypeOK
<1>2. PICK done \in SUBSET (start..(start + last)) :
        kv' = [k \in Positions |-> IF k \in done THEN window[k - start + 1] ELSE kv[k]]
  BY DEF ChunkFails
<1>3. kv' \in [Positions -> Rows]
  BY <1>1, <1>2, StoreType
<1>4. ConvEntry(start) \in Seq(Rows) /\ Len(ConvEntry(start)) = ConvKernel
  BY <1>1, ZeroConvType DEF ConvEntry
<1>5. conv' \in Seq(Rows) /\ Len(conv') = ConvKernel
  BY <1>1, <1>4, ConvType DEF ChunkFails
<1>6. ASSUME NEW k \in Positions, k < start PROVE kv'[k] = kv[k]
  <2>1. k \in Nat
    BY CapacityCovers DEF Positions
  <2>2. k \notin done
    BY <2>1, <1>6
  <2> QED
    BY <1>2, <2>2
<1> QED
  BY <1>3, <1>5, <1>6

----------------------------------------------------------------------------
(* The invariant is inductive *)

\* A session that was just created satisfies the invariant.
LEMMA InitInv == Init => SessionInv
<1> SUFFICES ASSUME Init PROVE SessionInv
  OBVIOUS
<1> USE SessionAssumption DEF Init
<1>1. TypeOK
  <2>1. ZeroPlane \in [Positions -> Rows]
    BY DEF ZeroPlane, Rows
  <2>2. position \in 0..MaxSeq /\ history \in Seq(Tokens)
    BY CapacityCovers, EmptySeq
  <2>3. out.ok \in BOOLEAN
    BY DEF Failed
  <2> QED
    BY <2>1, <2>2, <2>3, ZeroConvType DEF TypeOK
<1>2. PrefillProgress /\ UnallocatedIsZero
  BY DEF PrefillProgress, UnallocatedIsZero
<1>3. PrefillSeesPrompt
  BY DEF PrefillSeesPrompt, Failed
<1> QED
  BY <1>1, <1>2, <1>3 DEF SessionInv

\* A call that returns an error keeps the answer well formed.
LEMMA FailedShape ==
  ASSUME NEW call
  PROVE  Failed(call).ok = FALSE /\ Failed(call).call = call /\ Failed(call).seen = <<>>
  BY DEF Failed

\* reset_paged_kv and ensure_kv_pages leave the pool empty or of MaxPages.
LEMMA PagesType ==
  ASSUME pages \in {0, MaxPages}
  PROVE  EnsuredPages = MaxPages /\ MaxPages # 0
  BY CapacityCovers DEF EnsuredPages, AtLeast

\* A prefill that is refused or begun preserves the invariant.
LEMMA PrefillBeginInv ==
  ASSUME SessionInv, NEW tokens \in Prompts,
         PrefillRefused(tokens) \/ PrefillBegin(tokens)
  PROVE  SessionInv'
<1> USE SessionAssumption
<1>1. TypeOK /\ PrefillProgress /\ UnallocatedIsZero /\ PrefillSeesPrompt
  BY DEF SessionInv
<1>2. CASE PrefillRefused(tokens)
  <2> USE <1>1, <1>2 DEF PrefillRefused, deviceVars
  <2>1. TypeOK'
    BY FailedShape DEF TypeOK
  <2>2. PrefillProgress' /\ UnallocatedIsZero'
    BY DEF PrefillProgress, UnallocatedIsZero
  <2>3. PrefillSeesPrompt'
    BY FailedShape DEF PrefillSeesPrompt
  <2> QED
    BY <2>1, <2>2, <2>3 DEF SessionInv
<1>3. CASE PrefillBegin(tokens)
  <2>1. /\ Paged /\ next = Idle /\ history' = tokens /\ tokens \in Seq(Tokens)
        /\ tokens # <<>> /\ Len(tokens) <= MaxSeq
        /\ position' = position /\ conv' = conv
    BY <1>3 DEF PrefillBegin, Admissible
  <2>2. ZeroPlane \in [Positions -> Rows]
    BY DEF ZeroPlane, Rows
  <2>3. CASE pages' = EnsuredPages /\ kv' = ZeroPlane /\ next' = 0 /\ UNCHANGED out
    <3>1. Len(tokens) \in Nat \ {0} /\ 0 * Window = 0
      BY <2>1, EmptySeq, LenProperties
    <3>2. pages' = MaxPages /\ MaxPages # 0
      BY <1>1, <2>3, PagesType DEF TypeOK
    <3>3. TypeOK'
      BY <1>1, <2>1, <2>2, <2>3, <3>1, <3>2 DEF TypeOK
    <3>4. \A k \in Positions : ~(k < 0)
      BY CapacityCovers DEF Positions
    <3>5. PrefillProgress'
      BY <2>1, <2>3, <3>1, <3>4 DEF PrefillProgress
    <3>6. UnallocatedIsZero' /\ PrefillSeesPrompt'
      BY <2>3 DEF UnallocatedIsZero, PrefillSeesPrompt
    <3> QED
      BY <3>3, <3>5, <3>6 DEF SessionInv
  <2>4. CASE Release /\ out' = Failed("prefill") /\ UNCHANGED next
    <3>1. TypeOK'
      BY <1>1, <2>1, <2>2, <2>4, FailedShape DEF TypeOK, Release
    <3>2. PrefillProgress' /\ UnallocatedIsZero' /\ PrefillSeesPrompt'
      BY <2>1, <2>4, FailedShape
      DEF PrefillProgress, UnallocatedIsZero, PrefillSeesPrompt, Release
    <3> QED
      BY <3>1, <3>2 DEF SessionInv
  <2> QED
    BY <1>3, <2>3, <2>4 DEF PrefillBegin
<1> QED
  BY <1>2, <1>3

\* Planes that hold a sequence from their first row on are attended to as it.
LEMMA AttendedIs ==
  ASSUME NEW rows \in Seq(Tokens), NEW plane, Len(rows) <= KvLen,
         \A k \in Positions : k < Len(rows) => plane[k] = rows[k + 1],
         NEW last, NEW start, start + last + 1 = Len(rows)
  PROVE  /\ Attended(plane, last, start) = rows
         /\ [i \in 1..Len(rows) |-> plane[i - 1]] = rows
<1>1. Len(rows) \in Nat /\ rows = [i \in 1..Len(rows) |-> rows[i]]
  BY LenProperties
<1>2. ASSUME NEW i \in 1..Len(rows) PROVE plane[i - 1] = rows[i]
  <2>1. i - 1 \in Positions /\ i - 1 < Len(rows) /\ (i - 1) + 1 = i
    BY <1>1, CapacityCovers DEF Positions
  <2> QED
    BY <2>1
<1>3. [i \in 1..Len(rows) |-> plane[i - 1]] = [i \in 1..Len(rows) |-> rows[i]]
  BY <1>2
<1> QED
  BY <1>1, <1>3 DEF Attended

\* A chunk of a prefill preserves the invariant: it stores the prompt's rows
\* one window further, and the last one answers from the whole prompt.
LEMMA PrefillChunkInv == SessionInv /\ PrefillChunk => SessionInv'
<1> SUFFICES ASSUME SessionInv, PrefillChunk PROVE SessionInv'
  OBVIOUS
<1> USE SessionAssumption
<1> DEFINE window == WindowOf(history, next)
           last == LastOf(history, next)
           start == next * Window
           entry == ConvEntry(start)
           plane == StoreChunk(kv, window, last, start)
<1>1. /\ TypeOK /\ PrefillProgress /\ UnallocatedIsZero
      /\ next # Idle /\ Paged /\ Len(history) <= MaxSeq
      /\ history' = history /\ pages' = pages
  BY DEF SessionInv, PrefillChunk, PrefillProgress
<1>2. /\ window \in Seq(Rows) /\ window # <<>>
      /\ \A k \in start..(start + last) : window[k - start + 1] \in Rows
      /\ start \in Nat /\ last \in Nat /\ start + last + 1 <= KvLen
      /\ \A k \in Positions : k < start + last + 1 => plane[k] = history[k + 1]
      /\ start + last + 1 < Len(history) => (next + 1) * Window = start + last + 1
      /\ start + last + 1 <= Len(history)
  BY <1>1, ChunkStep
<1>3. entry \in Seq(Rows) /\ Len(entry) = ConvKernel
  BY <1>1, ZeroConvType DEF ConvEntry, TypeOK
<1>4. /\ plane \in [Positions -> Rows]
      /\ ConvLeft(entry, window) \in Seq(Rows) /\ Len(ConvLeft(entry, window)) = ConvKernel
  BY <1>1, <1>2, <1>3, StoreType, ConvType DEF TypeOK
<1>5. /\ Len(history) \in Nat /\ history \in Seq(Tokens) /\ MaxSeq \in Nat /\ MaxSeq <= KvLen
      /\ next \in Nat
  BY <1>1, LenProperties, CapacityCovers DEF TypeOK
<1>6. \/ /\ ProgramAccepts(pages)
         /\ kv' = plane /\ conv' = ConvLeft(entry, window)
         /\ start + last + 1 < Len(history)
         /\ next' = next + 1 /\ UNCHANGED <<position, out>>
      \/ /\ ProgramAccepts(pages)
         /\ kv' = plane /\ conv' = ConvLeft(entry, window)
         /\ ~(start + last + 1 < Len(history))
         /\ next' = Idle /\ position' = Len(history)
         /\ out' = Answer("prefill", Attended(plane, last, start),
                           Convolved(entry, window, last))
      \/ /\ ProgramAccepts(pages) /\ ChunkFails(kv, window, last, start)
         /\ next' = Idle /\ out' = Failed("prefill") /\ UNCHANGED position
      \/ /\ next' = Idle /\ out' = Failed("prefill")
         /\ UNCHANGED <<position, kv, conv>>
  BY DEF PrefillChunk
<1>7. ProgramAccepts(pages) => UnallocatedIsZero'
  BY <1>1 DEF ProgramAccepts, UnallocatedIsZero
<1> HIDE DEF window, last, start, entry, plane
<1>8. start = next * Window
  BY DEF start
<1>9. CASE /\ ProgramAccepts(pages)
           /\ kv' = plane /\ conv' = ConvLeft(entry, window)
           /\ start + last + 1 < Len(history)
           /\ next' = next + 1 /\ UNCHANGED <<position, out>>
  <2>1. next' \in Nat /\ next' * Window = start + last + 1
    BY <1>2, <1>5, <1>9
  <2>2. next' * Window < Len(history)
    BY <1>9, <2>1
  <2>3. TypeOK'
    BY <1>1, <1>4, <1>9, <2>1, <2>2 DEF TypeOK
  <2>4. PrefillProgress'
    BY <1>1, <1>2, <1>9, <2>1 DEF PrefillProgress
  <2>5. PrefillSeesPrompt'
    BY <2>1 DEF PrefillSeesPrompt
  <2> QED
    BY <1>7, <1>9, <2>3, <2>4, <2>5 DEF SessionInv
<1>10. CASE /\ ProgramAccepts(pages)
            /\ kv' = plane /\ conv' = ConvLeft(entry, window)
            /\ ~(start + last + 1 < Len(history))
            /\ next' = Idle /\ position' = Len(history)
            /\ out' = Answer("prefill", Attended(plane, last, start),
                              Convolved(entry, window, last))
  <2>1. start + last + 1 = Len(history) /\ Len(history) <= KvLen
    BY <1>1, <1>2, <1>5, <1>10
  <2>2. Attended(plane, last, start) = history
    BY <1>2, <1>5, <2>1, AttendedIs
  <2>3. out'.ok = TRUE /\ out'.seen = history
    BY <1>10, <2>2 DEF Answer
  <2>4. position' \in 0..MaxSeq
    BY <1>1, <1>5, <1>10
  <2>5. TypeOK'
    BY <1>1, <1>4, <1>10, <2>3, <2>4 DEF TypeOK
  <2>6. PrefillProgress' /\ PrefillSeesPrompt'
    BY <1>1, <1>10, <2>3 DEF PrefillProgress, PrefillSeesPrompt
  <2> QED
    BY <1>7, <1>10, <2>5, <2>6 DEF SessionInv
<1>11. CASE /\ ProgramAccepts(pages) /\ ChunkFails(kv, window, last, start)
            /\ next' = Idle /\ out' = Failed("prefill") /\ UNCHANGED position
  <2>1. /\ kv' \in [Positions -> Rows]
        /\ conv' \in Seq(Rows) /\ Len(conv') = ConvKernel
    BY <1>2, <1>11, ChunkFailsType
  <2>2. TypeOK'
    BY <1>1, <1>11, <2>1, FailedShape DEF TypeOK
  <2>3. PrefillProgress' /\ PrefillSeesPrompt'
    BY <1>11, FailedShape DEF PrefillProgress, PrefillSeesPrompt
  <2> QED
    BY <1>7, <1>11, <2>2, <2>3 DEF SessionInv
<1>12. CASE /\ next' = Idle /\ out' = Failed("prefill")
            /\ UNCHANGED <<position, kv, conv>>
  <2>1. TypeOK'
    BY <1>1, <1>12, FailedShape DEF TypeOK
  <2>2. PrefillProgress' /\ PrefillSeesPrompt' /\ UnallocatedIsZero'
    BY <1>1, <1>12, FailedShape DEF PrefillProgress, PrefillSeesPrompt, UnallocatedIsZero
  <2> QED
    BY <2>1, <2>2 DEF SessionInv
<1> QED
  BY <1>6, <1>9, <1>10, <1>11, <1>12

\* The planes of a static prefill, their padding included, begin with the prompt.
LEMMA StaticPlane ==
  ASSUME NEW tokens \in Prompts, Admissible(tokens), ~Paged,
         NEW window, window = WindowOf(tokens, 0),
         NEW last, last = LastOf(tokens, 0),
         NEW plane,
         plane = PrefillGlobals(window)
  PROVE  /\ window \in Seq(Rows) /\ window # <<>>
         /\ plane \in [Positions -> Rows]
         /\ Attended(plane, last, 0) = tokens
         /\ Len(tokens) \in 0..MaxSeq
         /\ Len(tokens) <= KvLen
         /\ \A k \in Positions : k < Len(tokens) => plane[k] = tokens[k + 1]
<1> USE SessionAssumption
<1>1. /\ tokens \in Seq(Tokens) /\ tokens # <<>> /\ Len(tokens) <= Window
      /\ Len(tokens) <= MaxSeq
  BY DEF Admissible
<1>2. Len(tokens) \in Nat \ {0} /\ 0 * Window = 0 /\ Window \in Nat \ {0}
  BY <1>1, EmptySeq, LenProperties
<1>3. /\ window \in Seq(Rows) /\ Len(window) = Window
      /\ last \in 0..(Window - 1)
      /\ 0 * Window + last < Len(tokens)
      /\ last + 1 < Window => 0 * Window + last + 1 = Len(tokens)
      /\ \A j \in 1..(last + 1) : window[j] = tokens[0 * Window + j]
  BY <1>1, <1>2, WindowFits
<1>4. last + 1 = Len(tokens)
  BY <1>1, <1>2, <1>3
<1>5. \A k \in Positions : k \in Nat
  BY CapacityCovers DEF Positions
<1>6. plane \in [Positions -> Rows]
  <2> SUFFICES ASSUME NEW k \in Positions
               PROVE (IF k < Window THEN window[k + 1] ELSE Zero) \in Rows
    BY DEF PrefillGlobals
  <2>1. CASE k < Window
    <3>1. k + 1 \in 1..Len(window)
      BY <1>2, <1>3, <1>5, <2>1
    <3> QED
      BY <1>3, <2>1, <3>1, ElementOfSeq
  <2> QED
    BY <2>1 DEF Rows
<1>7. ASSUME NEW k \in Positions, k < Len(tokens) PROVE plane[k] = tokens[k + 1]
  <2>1. k + 1 \in 1..(last + 1) /\ k < Window /\ 0 * Window + (k + 1) = k + 1
    BY <1>1, <1>2, <1>4, <1>5, <1>7
  <2> QED
    BY <1>3, <2>1 DEF PrefillGlobals
<1>8. Len(tokens) <= KvLen /\ Len(tokens) \in 0..MaxSeq
  BY <1>1, <1>2, CapacityCovers
<1>9. Attended(plane, last, 0) = tokens
  BY <1>1, <1>2, <1>3, <1>4, <1>7, <1>8, AttendedIs
<1>10. window # <<>>
  BY <1>2, <1>3
<1> QED
  BY <1>3, <1>6, <1>7, <1>8, <1>9, <1>10

\* A prefill of StaticGlobals preserves the invariant.
LEMMA PrefillStaticInv ==
  ASSUME SessionInv, NEW tokens \in Prompts, PrefillStatic(tokens)
  PROVE  SessionInv'
<1> USE SessionAssumption
<1> DEFINE window == WindowOf(tokens, 0)
           last == LastOf(tokens, 0)
           plane == PrefillGlobals(window)
<1>1. /\ TypeOK /\ ~Paged /\ next = Idle /\ Admissible(tokens) /\ history' = tokens
      /\ pages' = pages /\ next' = next /\ tokens \in Seq(Tokens)
  BY DEF SessionInv, PrefillStatic
<1>2. /\ window \in Seq(Rows) /\ window # <<>> /\ plane \in [Positions -> Rows]
      /\ Attended(plane, last, 0) = tokens /\ Len(tokens) \in 0..MaxSeq
  BY <1>1, StaticPlane
<1>3. ConvLeft(ZeroConv, window) \in Seq(Rows) /\ Len(ConvLeft(ZeroConv, window)) = ConvKernel
  BY <1>2, ZeroConvType, ConvType
<1>4. \/ /\ kv' = plane /\ conv' = ConvLeft(ZeroConv, window)
         /\ position' = Len(tokens)
         /\ out' = Answer("prefill", Attended(plane, last, 0), Convolved(ZeroConv, window, last))
      \/ /\ kv' \in {kv, plane}
         /\ conv' \in {conv, ZeroConv, ConvLeft(ZeroConv, window)}
         /\ out' = Failed("prefill") /\ position' = position
  BY DEF PrefillStatic
<1> HIDE DEF window, last, plane
<1>5. kv' \in [Positions -> Rows] /\ conv' \in Seq(Rows) /\ Len(conv') = ConvKernel
  BY <1>1, <1>2, <1>3, <1>4, ZeroConvType DEF TypeOK
<1>6. /\ position' \in 0..MaxSeq /\ out'.ok \in BOOLEAN
      /\ out'.ok => out'.seen = tokens
  <2>1. position' \in 0..MaxSeq
    BY <1>1, <1>2, <1>4 DEF TypeOK
  <2>2. CASE out' = Failed("prefill")
    BY <2>1, <2>2, FailedShape
  <2>3. CASE out' = Answer("prefill", tokens, Convolved(ZeroConv, window, last))
    BY <2>1, <2>3 DEF Answer
  <2> QED
    BY <1>2, <1>4, <2>2, <2>3
<1>7. TypeOK'
  BY <1>1, <1>5, <1>6 DEF TypeOK
<1> QED
  BY <1>1, <1>6, <1>7 DEF SessionInv, PrefillProgress, UnallocatedIsZero, PrefillSeesPrompt

\* A decode preserves the invariant: its row is inside the planes.
LEMMA DecodeInv ==
  ASSUME SessionInv, NEW t \in Tokens, DecodePaged(t) \/ DecodeStatic(t)
  PROVE  SessionInv'
<1> USE SessionAssumption
<1> DEFINE plane == StoreChunk(kv, <<t>>, 0, position)
           entry == IF Paged THEN ConvEntry(position) ELSE conv
<1>1. TypeOK /\ UnallocatedIsZero /\ next = Idle /\ next' = next /\ position < MaxSeq
  BY DEF SessionInv, DecodePaged, DecodeStatic, MayDecode
<1>2. /\ <<t>> \in Seq(Rows) /\ <<t>> # <<>> /\ position \in Nat
      /\ \A k \in position..(position + 0) : <<t>>[k - position + 1] \in Rows
  BY <1>1, CapacityCovers DEF Rows, TypeOK
<1>3. plane \in [Positions -> Rows]
  BY <1>1, <1>2, StoreType DEF TypeOK
<1>4. entry \in Seq(Rows) /\ Len(entry) = ConvKernel
  BY <1>1, ZeroConvType DEF TypeOK, ConvEntry
<1>5. ConvLeft(entry, <<t>>) \in Seq(Rows) /\ Len(ConvLeft(entry, <<t>>)) = ConvKernel
  BY <1>2, <1>4, ConvType
<1>6. ZeroPlane \in [Positions -> Rows]
  BY DEF ZeroPlane, Rows
<1>7. MaxPages # 0 /\ EnsuredPages = MaxPages
  BY <1>1, PagesType DEF TypeOK
<1>8. /\ kv' \in [Positions -> Rows] /\ conv' \in Seq(Rows) /\ Len(conv') = ConvKernel
      /\ pages' \in {0, MaxPages}
      /\ Paged /\ pages' = 0 => kv' = ZeroPlane
  <2>1. CASE DecodePaged(t)
    <3>1. CASE /\ pages' = EnsuredPages
               /\ kv' = plane /\ conv' = ConvLeft(ConvEntry(position), <<t>>)
      BY <1>3, <1>5, <1>7, <2>1, <3>1 DEF DecodePaged
    <3>2. CASE pages' = EnsuredPages /\ ChunkFails(kv, <<t>>, 0, position)
      <4>1. /\ kv' \in [Positions -> Rows]
            /\ conv' \in Seq(Rows) /\ Len(conv') = ConvKernel
        BY <1>2, <3>2, ChunkFailsType
      <4> QED
        BY <1>7, <3>2, <4>1
    <3>3. CASE pages' = EnsuredPages /\ UNCHANGED <<kv, conv>>
      BY <1>1, <1>7, <3>3 DEF TypeOK
    <3>4. CASE Release /\ UNCHANGED conv
      BY <1>1, <1>6, <3>4 DEF TypeOK, Release
    <3> QED
      BY <2>1, <3>1, <3>2, <3>3, <3>4 DEF DecodePaged
  <2>2. CASE DecodeStatic(t)
    <3>1. /\ ~Paged /\ pages' = pages /\ kv' \in {kv, plane}
          /\ conv' \in {conv, ConvLeft(entry, <<t>>)}
      BY <2>2 DEF DecodeStatic
    <3> QED
      BY <1>1, <1>3, <1>5, <3>1 DEF TypeOK
  <2> QED
    BY <2>1, <2>2
<1>9. \/ /\ history' = Append(history, t) /\ position' = position + 1
         /\ \E rows, convolved : out' = Answer("decode", rows, convolved)
      \/ UNCHANGED <<position, history>> /\ out' = Failed("decode")
  BY DEF DecodePaged, DecodeStatic
<1>10. position' \in 0..MaxSeq /\ history' \in Seq(Tokens)
  <2>1. MaxSeq \in Nat /\ position \in 0..MaxSeq /\ history \in Seq(Tokens)
    BY <1>1, CapacityCovers DEF TypeOK
  <2>2. Append(history, t) \in Seq(Tokens)
    BY <2>1, AppendProperties
  <2>3. position + 1 \in 0..MaxSeq
    BY <1>1, <2>1
  <2> QED
    BY <1>9, <2>1, <2>2, <2>3
<1>11. out'.ok \in BOOLEAN /\ out'.call = "decode"
  <2>1. CASE out' = Failed("decode")
    BY <2>1, FailedShape
  <2>2. ASSUME NEW rows, NEW convolved, out' = Answer("decode", rows, convolved)
        PROVE out'.ok \in BOOLEAN /\ out'.call = "decode"
    BY <2>2 DEF Answer
  <2> QED
    BY <1>9, <2>1, <2>2
<1>12. TypeOK'
  BY <1>1, <1>8, <1>10, <1>11 DEF TypeOK
<1>13. PrefillProgress' /\ UnallocatedIsZero'
  BY <1>1, <1>8 DEF PrefillProgress, UnallocatedIsZero
<1>14. PrefillSeesPrompt'
  BY <1>11 DEF PrefillSeesPrompt
<1> QED
  BY <1>12, <1>13, <1>14 DEF SessionInv

\* A refused decode and a reset preserve the invariant.
LEMMA ResetInv == SessionInv /\ (DecodeRefused \/ Reset) => SessionInv'
<1> SUFFICES ASSUME SessionInv, DecodeRefused \/ Reset PROVE SessionInv'
  OBVIOUS
<1>1. TypeOK /\ UnallocatedIsZero /\ next = Idle /\ next' = next /\ conv' = conv
  BY DEF SessionInv, DecodeRefused, Reset, deviceVars
<1>2. ZeroPlane \in [Positions -> Rows]
  BY DEF ZeroPlane, Rows
<1>3. /\ kv' \in [Positions -> Rows] /\ pages' \in {0, MaxPages}
      /\ Paged /\ pages' = 0 => kv' = ZeroPlane
      /\ position' \in 0..MaxSeq /\ history' \in Seq(Tokens)
  <2>1. CASE DecodeRefused
    BY <1>1, <2>1 DEF DecodeRefused, TypeOK, UnallocatedIsZero, deviceVars
  <2>2. CASE Reset
    <3>1. /\ \/ kv' = ZeroPlane
             \/ kv' = kv /\ ~Paged
          /\ position' \in {0, position} /\ history' \in {<<>>, history}
          /\ pages' \in {0, pages}
      BY <2>2 DEF Reset, Release
    <3>2. 0 \in 0..MaxSeq /\ <<>> \in Seq(Tokens)
      BY CapacityCovers, EmptySeq
    <3> QED
      BY <1>1, <1>2, <3>1, <3>2 DEF TypeOK
  <2> QED
    BY <2>1, <2>2
<1>4. out' \in {Failed("decode"), Failed("reset"), Answer("reset", <<>>, <<>>)}
  BY DEF DecodeRefused, Reset
<1>5. out'.ok \in BOOLEAN /\ out'.call # "prefill"
  <2>1. CASE out' \in {Failed("decode"), Failed("reset")}
    <3>1. out'.ok = FALSE /\ out'.call \in {"decode", "reset"}
      BY <2>1 DEF Failed
    <3> QED
      BY <3>1
  <2>2. CASE out' = Answer("reset", <<>>, <<>>)
    <3>1. out'.ok = TRUE /\ out'.call = "reset"
      BY <2>2 DEF Answer
    <3> QED
      BY <3>1
  <2> QED
    BY <1>4, <2>1, <2>2
<1>6. TypeOK'
  BY <1>1, <1>3, <1>5 DEF TypeOK
<1> QED
  BY <1>1, <1>3, <1>5, <1>6
  DEF SessionInv, PrefillProgress, UnallocatedIsZero, PrefillSeesPrompt

\* Every step preserves the invariant.
LEMMA NextInv == SessionInv /\ [Next]_vars => SessionInv'
<1> SUFFICES ASSUME SessionInv, [Next]_vars PROVE SessionInv'
  OBVIOUS
<1>1. ASSUME NEW tokens \in Prompts,
             PrefillRefused(tokens) \/ PrefillBegin(tokens) \/ PrefillStatic(tokens)
      PROVE SessionInv'
  BY <1>1, PrefillBeginInv, PrefillStaticInv
<1>2. CASE PrefillChunk
  BY <1>2, PrefillChunkInv
<1>3. ASSUME NEW t \in Tokens, DecodePaged(t) \/ DecodeStatic(t) PROVE SessionInv'
  BY <1>3, DecodeInv
<1>4. CASE DecodeRefused \/ Reset
  BY <1>4, ResetInv
<1>5. CASE UNCHANGED vars
  BY <1>5
  DEF vars, SessionInv, TypeOK, PrefillProgress, UnallocatedIsZero, PrefillSeesPrompt
<1> QED
  BY <1>1, <1>2, <1>3, <1>4, <1>5 DEF Next

\* The session stays within its type and its limit, for every geometry of
\* pages and windows, both storages and every failing device.
THEOREM SessionTypeCorrect == Spec => []TypeOK
<1>1. SessionInv => TypeOK
  BY DEF SessionInv
<1> QED
  BY <1>1, InitInv, NextInv, PTL DEF Spec

\* A successful prefill attended to its prompt and to nothing else: no
\* padding row, no row of an earlier sequence, no gap between chunks.
THEOREM PrefillSound == Spec => []PrefillSeesPrompt
<1>1. SessionInv => PrefillSeesPrompt
  BY DEF SessionInv
<1> QED
  BY <1>1, InitInv, NextInv, PTL DEF Spec

\* The session calls the paged program only as it was compiled: a prefill is
\* admitted up to a limit that is no more than the capacity, its loop ends with
\* the prompt, and a decode is refused at the limit.
THEOREM SessionCallsAreAdmitted == Spec => []CallsAreAdmitted
<1> USE SessionAssumption
<1>1. ASSUME SessionInv, next # Idle
      PROVE  Admitted(WindowOf(history, next), LastOf(history, next), next * Window,
                      Window, MaxKv)
  <2> DEFINE window == WindowOf(history, next)
             last == LastOf(history, next)
             start == next * Window
  <2>1. /\ next \in Nat /\ start < Len(history) /\ history \in Seq(Tokens)
        /\ Len(history) \in Nat /\ Len(history) <= MaxSeq
    BY <1>1, LenProperties DEF SessionInv, TypeOK, PrefillProgress
  <2>2. Len(window) = Window /\ last \in 0..(Window - 1) /\ start + last < Len(history)
    BY <2>1, WindowFits
  <2>3. start \in Nat
    BY <2>1
  <2> HIDE DEF window, last, start
  <2>4. start + last < MaxKv
    BY <2>1, <2>2, <2>3, CapacityCovers
  <2>5. Admitted(window, last, start, Window, MaxKv)
    BY <2>2, <2>3, <2>4 DEF Admitted
  <2> QED
    BY <2>5 DEF window, last, start
<1>2. ASSUME SessionInv, MayDecode, NEW t \in Tokens
      PROVE  Admitted(<<t>>, 0, position, Window, MaxKv)
  <2>1. position \in Nat /\ position < MaxKv
    BY <1>2, CapacityCovers DEF SessionInv, TypeOK, MayDecode
  <2> QED
    BY <2>1 DEF Admitted
<1>3. SessionInv => CallsAreAdmitted
  BY <1>1, <1>2 DEF CallsAreAdmitted
<1> QED
  BY <1>3, InitInv, NextInv, PTL DEF Spec

----------------------------------------------------------------------------
(* The session implements its contract *)

\* The first n rows of the planes are a context of length n.
LEMMA ContextType ==
  ASSUME NEW plane \in [Positions -> Rows], NEW n \in 0..MaxSeq
  PROVE  /\ [i \in 1..n |-> plane[i - 1]] \in [1..n -> Rows]
         /\ [i \in 1..n |-> plane[i - 1]] \in Seq(Rows)
         /\ Len([i \in 1..n |-> plane[i - 1]]) = n
<1>1. n \in Nat
  BY CapacityCovers
<1>2. ASSUME NEW i \in 1..n PROVE plane[i - 1] \in Rows
  <2>1. i - 1 \in Positions
    BY <1>1, CapacityCovers, SessionAssumption DEF Positions
  <2> QED
    BY <2>1
<1> QED
  BY <1>1, <1>2

\* A prefill or a reset that leaves the position alone damages at most what is
\* in the context.
LEMMA MayDamage ==
  ASSUME TypeOK, position' = position, kv' \in [Positions -> Rows]
  PROVE  Context' \in Contract!Damaged
<1>1. Len(Context) = position
  BY ContextType DEF TypeOK, Context
<1>2. Context' \in [1..position -> Rows]
  BY ContextType DEF TypeOK, Context
<1> QED
  BY <1>1, <1>2 DEF Contract!Damaged

\* A step that leaves the rows below the position alone keeps the context.
LEMMA KeepsContext ==
  ASSUME TypeOK, position' = position,
         \A k \in Positions : k < position => kv'[k] = kv[k]
  PROVE  Context' = Context
<1>1. position \in Nat /\ position <= KvLen /\ KvLen \in Nat
  BY CapacityCovers, SessionAssumption DEF TypeOK
<1>2. ASSUME NEW i \in 1..position PROVE kv'[i - 1] = kv[i - 1]
  <2>1. i - 1 \in Positions /\ i - 1 < position
    BY <1>1 DEF Positions
  <2> QED
    BY <2>1
<1> QED
  BY <1>2 DEF Context

\* A step that fails as a refusal.
LEMMA RefuseStep ==
  ASSUME next = Idle, next' = next, Context' = Context, history' = history,
         NEW call \in {"prefill", "decode"}, out' = Failed(call)
  PROVE  Contract!Refuse
<1>1. out'.call = call /\ out'.ok = FALSE /\ out'.seen = <<>>
  BY FailedShape
<1> QED
  BY <1>1 DEF Contract!Refuse, Contract!Refusal

\* A prefill that fails may damage the context.
LEMMA FailPrefillStep ==
  ASSUME TypeOK, next' = Idle, position' = position, kv' \in [Positions -> Rows],
         IF next # Idle THEN history' = history ELSE history' \in Prompts,
         out' = Failed("prefill")
  PROVE  Contract!FailPrefill
<1>1. out'.call = "prefill" /\ out'.ok = FALSE /\ out'.seen = <<>>
  BY FailedShape
<1>2. Context' \in Contract!Damaged
  BY MayDamage
<1> QED
  BY <1>1, <1>2 DEF Contract!FailPrefill, Contract!Refusal

\* The steps of a prefill are those of the contract.
LEMMA PrefillRefines ==
  ASSUME SessionInv, SessionInv', NEW tokens \in Prompts,
         PrefillRefused(tokens) \/ PrefillBegin(tokens) \/ PrefillStatic(tokens)
  PROVE  Contract!Next
<1> USE SessionAssumption
<1>1. TypeOK /\ next = Idle /\ kv' \in [Positions -> Rows]
  BY DEF SessionInv, TypeOK, PrefillRefused, PrefillBegin, PrefillStatic
<1>2. CASE PrefillRefused(tokens)
  <2>1. Context' = Context
    BY <1>2 DEF PrefillRefused, deviceVars, Context
  <2> QED
    BY <1>2, <2>1, RefuseStep DEF PrefillRefused, Contract!Next
<1>3. CASE PrefillBegin(tokens)
  <2>1. history' = tokens /\ position' = position
    BY <1>3 DEF PrefillBegin
  <2>2. CASE next' = 0 /\ UNCHANGED out
    <3>1. Context' \in Contract!Damaged
      BY <1>1, <2>1, MayDamage
    <3>2. 0 # Idle
      OBVIOUS
    <3> QED
      BY <1>1, <2>1, <2>2, <3>1, <3>2 DEF Contract!BeginPrefill, Contract!Next
  <2>3. CASE out' = Failed("prefill") /\ UNCHANGED next
    BY <1>1, <2>1, <2>3, FailPrefillStep DEF Contract!Next
  <2> QED
    BY <1>3, <2>2, <2>3 DEF PrefillBegin
<1>4. CASE PrefillStatic(tokens)
  <2> DEFINE window == WindowOf(tokens, 0)
             last == LastOf(tokens, 0)
             plane == PrefillGlobals(window)
             convolved == Convolved(ZeroConv, window, last)
  <2>1. CASE out' = Failed("prefill") /\ position' = position
    BY <1>1, <1>4, <2>1, FailPrefillStep DEF Contract!Next, PrefillStatic
  <2>2. CASE /\ kv' = plane /\ position' = Len(tokens)
             /\ out' = Answer("prefill", Attended(plane, last, 0), convolved)
    <3>1. Admissible(tokens) /\ ~Paged /\ tokens \in Seq(Tokens)
          /\ history' = tokens /\ next' = next
      BY <1>1, <1>4 DEF PrefillStatic
    <3>2. /\ Attended(plane, last, 0) = tokens /\ Len(tokens) <= KvLen
          /\ \A k \in Positions : k < Len(tokens) => plane[k] = tokens[k + 1]
      BY <3>1, StaticPlane
    <3> HIDE DEF plane, last, convolved
    <3>3. 0 + (Len(tokens) - 1) + 1 = Len(tokens)
      BY <3>1, LenProperties
    <3>4. [i \in 1..Len(tokens) |-> plane[i - 1]] = tokens
      <4> DEFINE n == Len(tokens) - 1
      <4>1. 0 + n + 1 = Len(tokens)
        BY <3>3
      <4> HIDE DEF n
      <4> QED
        BY <3>1, <3>2, <4>1, AttendedIs
    <3>5. Context' = tokens
      BY <2>2, <3>4 DEF Context
    <3>6. out'.call = "prefill" /\ out'.ok = TRUE /\ out'.seen = tokens
      BY <2>2, <3>2 DEF Answer
    <3> QED
      BY <1>1, <3>1, <3>5, <3>6 DEF Contract!Prefill, Contract!Success, Contract!Next
  <2> QED
    BY <1>4, <2>1, <2>2 DEF PrefillStatic
<1> QED
  BY <1>2, <1>3, <1>4

\* A chunk of a prefill proceeds, finishes with the prompt as the context, or
\* fails.
LEMMA PrefillChunkRefines ==
  ASSUME SessionInv, SessionInv', PrefillChunk
  PROVE  Contract!Next
<1> USE SessionAssumption
<1> DEFINE window == WindowOf(history, next)
           last == LastOf(history, next)
           start == next * Window
           entry == ConvEntry(start)
           plane == StoreChunk(kv, window, last, start)
           convolved == Convolved(entry, window, last)
<1>1. /\ TypeOK /\ next # Idle /\ history' = history /\ history \in Seq(Tokens)
      /\ kv' \in [Positions -> Rows] /\ Len(history) <= MaxSeq
  BY DEF SessionInv, TypeOK, PrefillProgress, PrefillChunk
<1>2. /\ \A k \in Positions : k < start + last + 1 => plane[k] = history[k + 1]
      /\ start \in Nat /\ last \in Nat /\ start + last + 1 <= Len(history)
  BY <1>1, ChunkStep
<1>3. \/ next' = next + 1 /\ UNCHANGED <<position, out>>
      \/ /\ kv' = plane /\ ~(start + last + 1 < Len(history))
         /\ next' = Idle /\ position' = Len(history)
         /\ out' = Answer("prefill", Attended(plane, last, start), convolved)
      \/ next' = Idle /\ out' = Failed("prefill") /\ position' = position
  BY DEF PrefillChunk
<1> HIDE DEF window, last, start, entry, plane, convolved
<1>4. CASE next' = next + 1 /\ UNCHANGED <<position, out>>
  <2>1. Context' \in Contract!Damaged
    BY <1>1, <1>4, MayDamage
  <2>2. next' # Idle
    <3>1. next \in Nat /\ next + 1 \in Nat
      BY <1>1 DEF TypeOK
    <3> QED
      BY <1>1, <1>4, <3>1
  <2> QED
    BY <1>1, <1>4, <2>1, <2>2 DEF Contract!ProceedPrefill, Contract!Next
<1>5. CASE /\ kv' = plane /\ ~(start + last + 1 < Len(history))
           /\ next' = Idle /\ position' = Len(history)
           /\ out' = Answer("prefill", Attended(plane, last, start), convolved)
  <2>1. start + last + 1 = Len(history) /\ Len(history) <= KvLen
    BY <1>1, <1>2, <1>5, LenProperties, CapacityCovers
  <2>2. /\ Attended(plane, last, start) = history
        /\ [i \in 1..Len(history) |-> plane[i - 1]] = history
    <3>1. \A k \in Positions : k < Len(history) => plane[k] = history[k + 1]
      BY <1>2, <2>1
    <3>2. history \in Seq(Tokens)
      BY <1>1
    <3> QED
      BY <2>1, <3>1, <3>2, AttendedIs
  <2>3. Context' = history
    BY <1>5, <2>2 DEF Context
  <2>4. out' = Answer("prefill", history, convolved)
    BY <1>5, <2>2
  <2>5. out'.call = "prefill" /\ out'.ok = TRUE /\ out'.seen = history
    BY <2>4 DEF Answer
  <2> QED
    BY <1>1, <1>5, <2>3, <2>5 DEF Contract!FinishPrefill, Contract!Success, Contract!Next
<1>6. CASE next' = Idle /\ out' = Failed("prefill") /\ position' = position
  BY <1>1, <1>6, FailPrefillStep DEF Contract!Next
<1> QED
  BY <1>3, <1>4, <1>5, <1>6

\* The row a decode stores is the one that extends the context.
LEMMA DecodeExtends ==
  ASSUME TypeOK, position < MaxSeq, NEW t \in Tokens,
         position' = position + 1, kv' = StoreChunk(kv, <<t>>, 0, position)
  PROVE  /\ Context' = Append(Context, t)
         /\ Attended(kv', 0, position) = Context'
<1> USE SessionAssumption
<1>1. /\ position \in Nat /\ MaxSeq \in Nat /\ position + 1 \in 0..MaxSeq
      /\ position + 1 <= KvLen /\ KvLen \in Nat
  BY CapacityCovers DEF TypeOK
<1>2. t \in Rows /\ Context \in Seq(Rows) /\ Len(Context) = position
  BY ContextType DEF TypeOK, Context, Rows
<1>3. /\ Append(Context, t) \in Seq(Rows) /\ Len(Append(Context, t)) = position + 1
      /\ \A i \in 1..position : Append(Context, t)[i] = Context[i]
      /\ Append(Context, t)[position + 1] = t
  BY <1>2, AppendProperties
<1>4. ASSUME NEW k \in Positions
      PROVE kv'[k] = IF k = position THEN t ELSE kv[k]
  <2>1. k \in Nat
    BY <1>1 DEF Positions
  <2>2. CASE k = position
    <3>1. k - position + 1 = 1 /\ <<t>>[1] = t
      BY <1>1, <2>1, <2>2
    <3> QED
      BY <1>1, <2>1, <2>2, <3>1, StoredAt DEF TypeOK
  <2>3. CASE k # position
    BY <1>1, <2>1, <2>3, StoredAt DEF TypeOK
  <2> QED
    BY <2>2, <2>3
<1>5. Context' = [i \in 1..(position + 1) |-> kv'[i - 1]]
  BY DEF Context
<1>6. ASSUME NEW i \in 1..(position + 1)
      PROVE kv'[i - 1] = Append(Context, t)[i]
  <2>1. i - 1 \in Positions
    BY <1>1 DEF Positions
  <2>2. CASE i = position + 1
    BY <1>1, <1>3, <1>4, <2>1, <2>2
  <2>3. CASE i # position + 1
    <3>1. i \in 1..position /\ i - 1 # position
      BY <1>1, <2>3
    <3>2. Context[i] = kv[i - 1]
      BY <3>1 DEF Context
    <3> QED
      BY <1>3, <1>4, <2>1, <3>1, <3>2
  <2> QED
    BY <2>2, <2>3
<1>7. Append(Context, t) = [i \in 1..(position + 1) |-> Append(Context, t)[i]]
  BY <1>1, <1>3, LenProperties
<1>8. Context' = Append(Context, t)
  BY <1>5, <1>6, <1>7
<1>9. position + 0 + 1 = position + 1
  BY <1>1
<1> QED
  BY <1>5, <1>8, <1>9 DEF Attended

\* A decode that succeeds extends the context by its token and answers from
\* it; a decode that fails leaves the context alone.
LEMMA DecodeRefines ==
  ASSUME SessionInv, SessionInv', NEW t \in Tokens, DecodePaged(t) \/ DecodeStatic(t)
  PROVE  Contract!Next
<1> USE SessionAssumption
<1> DEFINE plane == StoreChunk(kv, <<t>>, 0, position)
<1>1. /\ TypeOK /\ UnallocatedIsZero /\ next = Idle /\ next' = next /\ position < MaxSeq
      /\ position \in Nat
  BY CapacityCovers DEF SessionInv, DecodePaged, DecodeStatic, MayDecode, TypeOK
<1>2. \/ /\ kv' = plane /\ position' = position + 1 /\ history' = Append(history, t)
         /\ \E convolved : out' = Answer("decode", Attended(kv', 0, position), convolved)
      \/ /\ position' = position /\ history' = history /\ out' = Failed("decode")
         /\ \/ ChunkFails(kv, <<t>>, 0, position)
            \/ kv' \in {kv, plane}
            \/ pages < MaxPages /\ Paged /\ Release
  BY DEF DecodePaged, DecodeStatic
<1>3. CASE /\ kv' = plane /\ position' = position + 1 /\ history' = Append(history, t)
           /\ \E convolved : out' = Answer("decode", Attended(kv', 0, position), convolved)
  <2>1. Context' = Append(Context, t) /\ Attended(kv', 0, position) = Context'
    BY <1>1, <1>3, DecodeExtends
  <2>2. out'.call = "decode" /\ out'.ok = TRUE /\ out'.seen = Context'
    BY <1>3, <2>1 DEF Answer
  <2> QED
    BY <1>1, <1>3, <2>1, <2>2 DEF Contract!Decode, Contract!Success, Contract!Next
<1>4. CASE /\ position' = position /\ history' = history /\ out' = Failed("decode")
           /\ \/ ChunkFails(kv, <<t>>, 0, position)
              \/ kv' \in {kv, plane}
              \/ pages < MaxPages /\ Paged /\ Release
  <2>1. \A k \in Positions : k < position => kv'[k] = kv[k]
    <3>1. CASE ChunkFails(kv, <<t>>, 0, position)
      <4>1. /\ <<t>> \in Seq(Rows) /\ <<t>> # <<>>
            /\ \A k \in position..(position + 0) : <<t>>[k - position + 1] \in Rows
        BY <1>1 DEF Rows
      <4> QED
        BY <1>1, <3>1, <4>1, ChunkFailsType
    <3>2. CASE kv' \in {kv, plane}
      <4>1. \A k \in Positions : k \in Nat
        BY CapacityCovers DEF Positions
      <4> QED
        BY <1>1, <3>2, <4>1, StoredAt DEF TypeOK
    <3>3. CASE pages < MaxPages /\ Paged /\ Release
      <4>1. pages = 0
        BY <1>1, <3>3, CapacityCovers DEF TypeOK
      <4> QED
        BY <1>1, <3>3, <4>1 DEF UnallocatedIsZero, Release
    <3> QED
      BY <1>4, <3>1, <3>2, <3>3
  <2>2. Context' = Context
    BY <1>1, <1>4, <2>1, KeepsContext
  <2> QED
    BY <1>1, <1>4, <2>2, RefuseStep DEF Contract!Next
<1> QED
  BY <1>2, <1>3, <1>4

\* A refused decode is a refusal; a reset empties the context or fails.
LEMMA ResetRefines ==
  ASSUME SessionInv, SessionInv', DecodeRefused \/ Reset
  PROVE  Contract!Next
<1>1. TypeOK /\ next = Idle /\ next' = next /\ kv' \in [Positions -> Rows]
  BY DEF SessionInv, TypeOK, DecodeRefused, Reset
<1>2. CASE DecodeRefused
  <2>1. Context' = Context
    BY <1>2 DEF DecodeRefused, deviceVars, Context
  <2> QED
    BY <1>1, <1>2, <2>1, RefuseStep DEF DecodeRefused, Contract!Next
<1>3. CASE position' = 0 /\ history' = <<>> /\ out' = Answer("reset", <<>>, <<>>)
  <2>1. Context' = <<>>
    BY <1>3 DEF Context
  <2>2. out'.call = "reset" /\ out'.ok = TRUE /\ out'.seen = <<>>
    BY <1>3 DEF Answer
  <2> QED
    BY <1>1, <1>3, <2>1, <2>2 DEF Contract!Reset, Contract!Success, Contract!Next
<1>4. CASE position' = position /\ history' = history /\ out' = Failed("reset")
  <2>1. out'.call = "reset" /\ out'.ok = FALSE /\ out'.seen = <<>>
    BY <1>4, FailedShape
  <2>2. Context' \in Contract!Damaged
    BY <1>1, <1>4, MayDamage
  <2> QED
    BY <1>1, <1>4, <2>1, <2>2 DEF Contract!FailReset, Contract!Refusal, Contract!Next
<1> QED
  BY <1>2, <1>3, <1>4 DEF Reset

\* The session implements the contract, for every geometry, limit and failing
\* device: a prefill that succeeds leaves exactly the caller's prompt as the
\* context, a decode that succeeds extends the context by the caller's token,
\* both answer from all of it, a decode that fails leaves the context alone, and
\* only a prefill or a reset that fails may damage what it holds.
THEOREM SessionMeetsContract == Spec => MeetsContract
<1>1. Init => Contract!Init
  <2> SUFFICES ASSUME Init PROVE Contract!Init
    OBVIOUS
  <2>1. Context = <<>>
    BY DEF Init, Context
  <2>2. out.call = "none" /\ out.ok = FALSE /\ out.seen = <<>>
    BY FailedShape DEF Init
  <2> QED
    BY <2>1, <2>2 DEF Init, Contract!Init, Contract!Refusal
<1>2. SessionInv /\ SessionInv' /\ [Next]_vars => [Contract!Next]_(Contract!absVars)
  <2> SUFFICES ASSUME SessionInv, SessionInv', [Next]_vars
               PROVE Contract!Next \/ UNCHANGED Contract!absVars
    OBVIOUS
  <2>1. ASSUME NEW tokens \in Prompts,
               PrefillRefused(tokens) \/ PrefillBegin(tokens) \/ PrefillStatic(tokens)
        PROVE Contract!Next
    BY <2>1, PrefillRefines
  <2>2. CASE PrefillChunk
    BY <2>2, PrefillChunkRefines
  <2>3. ASSUME NEW t \in Tokens, DecodePaged(t) \/ DecodeStatic(t) PROVE Contract!Next
    BY <2>3, DecodeRefines
  <2>4. CASE DecodeRefused \/ Reset
    BY <2>4, ResetRefines
  <2>5. CASE UNCHANGED vars
    BY <2>5 DEF vars, Contract!absVars, Context
  <2> QED
    BY <2>1, <2>2, <2>3, <2>4, <2>5 DEF Next
<1> QED
  BY <1>1, <1>2, InitInv, NextInv, PTL DEF Spec, MeetsContract, Contract!Spec
=============================================================================
