-------------------------- MODULE PagedChunkProofs --------------------------
(* Theorems about PagedChunk, for every page size, chunk size and capacity     *)
(* configure_paged_kv accepts, every content of the rows and both forms of the *)
(* attention.                                                                  *)
EXTENDS PagedChunk, Sequences, TLAPS

----------------------------------------------------------------------------
(* Arithmetic of pages *)

\* A position is an offset in a page.
LEMMA DivMod ==
  ASSUME NEW a \in Nat
  PROVE  /\ a \div PageSize \in Nat /\ a % PageSize \in Offsets
         /\ a = (a \div PageSize) * PageSize + (a % PageSize)
<1> USE ChunkAssumption
<1> DEFINE q == a \div PageSize
           r == a % PageSize
<1>1. q \in Nat /\ r \in 0..(PageSize - 1) /\ a = PageSize * q + r
  OBVIOUS
<1> HIDE DEF q, r
<1>2. PageSize * q = q * PageSize
  BY <1>1
<1> QED
  BY <1>1, <1>2 DEF Offsets, q, r

\* Pages of a greater number lie behind.
LEMMA PageOrder ==
  ASSUME NEW p \in Nat, NEW q \in Nat, p < q
  PROVE  p * PageSize + PageSize <= q * PageSize
<1> USE ChunkAssumption
<1>1. PICK d \in Nat : q = p + 1 + d
  <2>1. q - p - 1 \in Nat /\ q = p + 1 + (q - p - 1)
    OBVIOUS
  <2> QED
    BY <2>1
<1>2. q * PageSize = p * PageSize + PageSize + d * PageSize
  BY <1>1
<1>3. d * PageSize \in Nat /\ p * PageSize \in Nat
  BY <1>1
<1> QED
  BY <1>2, <1>3

\* The page and the offset of a position are its only ones.
LEMMA PageOfPosition ==
  ASSUME NEW p \in Nat, NEW o \in Offsets
  PROVE  /\ p * PageSize + o \in Nat
         /\ (p * PageSize + o) \div PageSize = p
         /\ (p * PageSize + o) % PageSize = o
<1> USE ChunkAssumption
<1> DEFINE a == p * PageSize + o
           q == a \div PageSize
           r == a % PageSize
<1>1. a \in Nat /\ p * PageSize \in Nat /\ o \in Nat /\ o < PageSize
  BY DEF Offsets
<1>2. q \in Nat /\ r \in Nat /\ r < PageSize /\ a = q * PageSize + r
  BY <1>1, DivMod DEF Offsets
<1>3. a = p * PageSize + o
  OBVIOUS
<1> HIDE DEF a, q, r
<1>4. q * PageSize \in Nat
  BY <1>2
<1>5. ~(p < q)
  BY <1>1, <1>2, <1>3, <1>4, PageOrder
<1>6. ~(q < p)
  BY <1>1, <1>2, <1>3, <1>4, PageOrder
<1>7. p = q
  BY <1>2, <1>5, <1>6
<1>8. r = o
  BY <1>1, <1>2, <1>3, <1>4, <1>7
<1> QED
  BY <1>1, <1>3, <1>7, <1>8 DEF a, q, r

\* Rounding up to pages covers what is to be held.
LEMMA CeilDivCovers ==
  ASSUME NEW a \in Nat \ {0}
  PROVE  /\ CeilDiv(a, PageSize) \in Nat \ {0}
         /\ a <= CeilDiv(a, PageSize) * PageSize
<1> USE ChunkAssumption
<1> DEFINE x == a + PageSize - 1
           q == CeilDiv(a, PageSize)
           r == x % PageSize
<1>1. x \in Nat
  OBVIOUS
<1>2. q \in Nat /\ r \in Nat /\ r < PageSize /\ x = q * PageSize + r
  BY <1>1, DivMod DEF CeilDiv, Offsets
<1>3. x = a + PageSize - 1
  OBVIOUS
<1> HIDE DEF x, q, r
<1>4. a <= q * PageSize
  BY <1>2, <1>3
<1>5. q # 0
  BY <1>4
<1> QED
  BY <1>2, <1>4, <1>5 DEF q

\* The planes have a whole number of pages and a row for every position.
LEMMA Geometry ==
  /\ NumPages \in Nat \ {0} /\ KvLen \in Nat \ {0}
  /\ KvLen = NumPages * PageSize /\ MaxKv <= KvLen
<1> USE ChunkAssumption
<1>1. NumPages \in Nat \ {0} /\ MaxKv <= NumPages * PageSize
  BY CeilDivCovers DEF NumPages
<1>2. NumPages * PageSize \in Nat
  BY <1>1
<1> QED
  BY <1>1, <1>2 DEF KvLen

\* A page of the plane consists of positions, and every position is in one.
LEMMA PositionsArePages ==
  /\ \A p \in 0..(NumPages - 1), o \in Offsets : p * PageSize + o \in Positions
  /\ \A k \in Positions : k \div PageSize \in 0..(NumPages - 1)
<1> USE ChunkAssumption, Geometry
<1>1. ASSUME NEW p \in 0..(NumPages - 1), NEW o \in Offsets
      PROVE  p * PageSize + o \in Positions
  <2>1. p \in Nat /\ NumPages \in Nat /\ p < NumPages /\ o \in Nat /\ o < PageSize
    BY DEF Offsets
  <2>2. p * PageSize + PageSize <= KvLen
    BY <2>1, PageOrder
  <2>3. p * PageSize \in Nat
    BY <2>1
  <2> QED
    BY <2>1, <2>2, <2>3 DEF Positions
<1>2. ASSUME NEW k \in Positions
      PROVE  k \div PageSize \in 0..(NumPages - 1)
  <2> DEFINE p == k \div PageSize
  <2>1. k \in Nat /\ k < KvLen
    BY DEF Positions
  <2>2. p \in Nat /\ \E o \in Nat : k = p * PageSize + o
    BY <2>1, DivMod DEF Offsets
  <2> HIDE DEF p
  <2>3. p * PageSize \in Nat
    BY <2>2
  <2>4. ~(NumPages < p)
    BY <2>1, <2>2, <2>3, PageOrder
  <2>5. p # NumPages
    BY <2>1, <2>2
  <2>6. p \in 0..(NumPages - 1)
    BY <2>2, <2>4, <2>5
  <2> QED
    BY <2>6 DEF p
<1> QED
  BY <1>1, <1>2

----------------------------------------------------------------------------
(* The inductive invariant *)

\* A page as it has to be after the call.
NewPage(pi) == PackedExtract(Overlay(kvIn), pi)

\* What the queries of the call have to see, and as much of it as lies in the
\* first n pages.
AllSeen ==
  {x \in Queries \X Positions \X Rows :
     Visible(x[1], x[2]) /\ x[3] = Overlay(kvIn)[x[2]]}
SeenBelow(n) == {x \in AllSeen : x[2] \div PageSize < n}

\* Every write done so far left its page as it has to be, whether it took the
\* page from the plane or from an earlier write.
StoredPages(n) ==
  /\ stored \in [0..(n - 1) -> Page]
  /\ \A i \in 0..(n - 1) : stored[i] = NewPage(WritePage(i))

WhileStoring ==
  phase = "store" => /\ w \in Writes /\ StoredPages(w)
                     /\ kvOut = kvIn /\ seen = {}
AfterStoring == phase \in {"attend", "pack"} => StoredPages(MaxWrites)

\* The inserts done so far hold the new pages, the rest of the plane the old.
Packed(n) ==
  \A k \in Positions :
    kvOut[k] = IF \E i \in 0..(n - 1) : WritePage(i) = k \div PageSize
                 THEN Overlay(kvIn)[k] ELSE kvIn[k]

WhilePacking ==
  phase = "pack" => /\ w \in Writes /\ Packed(w)
                    /\ seen = IF flash THEN {} ELSE AllSeen
WhileWalking ==
  phase = "attend" /\ ~flash => /\ w \in 0..(HistPages - 1) /\ kvOut = kvIn
                                /\ seen = SeenBelow(w)
BeforeFlash ==
  phase = "attend" /\ flash => kvOut = Overlay(kvIn) /\ seen = {}
WhenDone ==
  phase = "idle" /\ seen # {} => kvOut = Overlay(kvIn) /\ seen = AllSeen

ChunkInv ==
  TypeOK /\ WhileStoring /\ AfterStoring /\ WhilePacking /\ WhileWalking
         /\ BeforeFlash /\ WhenDone

----------------------------------------------------------------------------
(* What the operators of the call compute *)

\* The numbers of a call.
LEMMA CallNumbers ==
  ASSUME TypeOK
  PROVE  /\ start \in Nat /\ valid \in Nat \ {0} /\ seq \in Nat \ {0}
         /\ valid <= seq /\ start + valid <= KvLen
         /\ CeilDiv(seq, PageSize) \in Nat \ {0}
         /\ seq <= CeilDiv(seq, PageSize) * PageSize
         /\ MaxWrites \in Nat \ {0} /\ MaxWrites = CeilDiv(seq, PageSize) + 1
         /\ \A i \in Nat : WritePage(i) \in 0..(NumPages - 1)
         /\ HistPages \in 1..NumPages
<1> USE ChunkAssumption, Geometry
<1>1. /\ start \in Nat /\ valid \in Nat \ {0} /\ seq \in Nat \ {0}
      /\ valid <= seq /\ start + valid <= MaxKv
  BY DEF TypeOK
<1>2. CeilDiv(seq, PageSize) \in Nat \ {0} /\ seq <= CeilDiv(seq, PageSize) * PageSize
  BY <1>1, CeilDivCovers
<1>3. ASSUME NEW i \in Nat PROVE WritePage(i) \in 0..(NumPages - 1)
  <2>1. start \div PageSize \in Nat
    BY <1>1, DivMod
  <2> QED
    BY <2>1 DEF WritePage, AtMost
<1>4. HistPages \in 1..NumPages
  <2>1. CeilDiv(start + valid, PageSize) \in Nat \ {0}
    BY <1>1, CeilDivCovers
  <2> QED
    BY <2>1 DEF HistPages, AtMost
<1> QED
  BY <1>1, <1>2, <1>3, <1>4 DEF MaxWrites

\* paged_max_writes suffices: the pages of the writes cover the chunk's real
\* rows, wherever in a page the chunk starts.
LEMMA WritesCover ==
  ASSUME TypeOK, NEW k \in Positions, start <= k, k < start + valid
  PROVE  \E i \in Writes : WritePage(i) = k \div PageSize
<1> USE ChunkAssumption, Geometry
<1> DEFINE s == start \div PageSize
           p == k \div PageSize
           c == CeilDiv(seq, PageSize)
<1>1. /\ start \in Nat /\ valid \in Nat /\ seq \in Nat /\ valid <= seq
      /\ c \in Nat \ {0} /\ seq <= c * PageSize /\ MaxWrites = c + 1
  BY CallNumbers
<1>2. k \in Nat
  BY DEF Positions
<1>3. /\ s \in Nat /\ s * PageSize \in Nat /\ s * PageSize <= start
      /\ start < s * PageSize + PageSize
  BY <1>1, DivMod DEF Offsets
<1>4. p \in Nat /\ p * PageSize \in Nat /\ p * PageSize <= k /\ k < p * PageSize + PageSize
  BY <1>2, DivMod DEF Offsets
<1>5. p \in 0..(NumPages - 1)
  BY PositionsArePages
<1>6. \A i \in Nat : WritePage(i) = AtMost(s + i, NumPages - 1)
  BY DEF WritePage
<1> HIDE DEF s, p, c
<1>7. s <= p
  BY <1>1, <1>2, <1>3, <1>4, PageOrder
<1>8. p <= s + c
  <2>1. SUFFICES ASSUME s + c < p PROVE FALSE
    BY <1>1, <1>3, <1>4
  <2>2. (s + c) * PageSize + PageSize <= p * PageSize
    BY <1>1, <1>3, <1>4, <2>1, PageOrder
  <2>3. (s + c) * PageSize = s * PageSize + c * PageSize /\ c * PageSize \in Nat
    BY <1>1, <1>3
  <2> QED
    BY <1>1, <1>2, <1>3, <1>4, <2>2, <2>3
<1>9. p - s \in Writes /\ p - s \in Nat
  BY <1>1, <1>3, <1>4, <1>7, <1>8 DEF Writes
<1>10. WritePage(p - s) = p
  BY <1>3, <1>4, <1>5, <1>6, <1>9 DEF AtMost
<1> QED
  BY <1>9, <1>10 DEF p

\* The plane after the call is a plane, and so are its pages.
LEMMA OverlayType ==
  ASSUME TypeOK
  PROVE  /\ Overlay(kvIn) \in Plane
         /\ \A pi \in 0..(NumPages - 1) : NewPage(pi) \in Page /\ PackedExtract(kvIn, pi) \in Page
<1>1. kvIn \in [Positions -> Rows] /\ chunk \in [Queries -> Rows]
  BY DEF TypeOK, Plane
<1>2. ASSUME NEW k \in Positions, start <= k, k < start + valid
      PROVE  chunk[k - start] \in Rows
  <2>1. k - start \in 0..(seq - 1)
    BY <1>2, CallNumbers DEF Positions
  <2> QED
    BY <1>1, <2>1 DEF Queries
<1>3. Overlay(kvIn) \in [Positions -> Rows]
  BY <1>1, <1>2 DEF Overlay
<1>4. ASSUME NEW pi \in 0..(NumPages - 1), NEW plane \in [Positions -> Rows]
      PROVE  PackedExtract(plane, pi) \in [Offsets -> Rows]
  BY PositionsArePages DEF PackedExtract
<1> QED
  BY <1>1, <1>3, <1>4 DEF NewPage, Plane, Page

\* layer_store makes a page what it has to be, from the page of the imported
\* plane and from one an earlier write has already made.
LEMMA LayerStoreMakesPage ==
  ASSUME TypeOK, NEW pi \in 0..(NumPages - 1), NEW page,
         page = PackedExtract(kvIn, pi) \/ page = NewPage(pi)
  PROVE  LayerStore(page, pi) = NewPage(pi)
<1>1. SUFFICES ASSUME NEW o \in Offsets
               PROVE  LayerStore(page, pi)[o] = NewPage(pi)[o]
  BY DEF LayerStore, NewPage, PackedExtract
<1> DEFINE abs == pi * PageSize + o
<1>2. abs \in Positions
  BY PositionsArePages
<1>3. abs \in Nat /\ start \in Nat /\ valid \in Nat /\ seq \in Nat /\ valid <= seq
  BY <1>2, CallNumbers DEF Positions
<1>4. NewPage(pi)[o] = IF start <= abs /\ abs < start + valid
                        THEN chunk[abs - start] ELSE kvIn[abs]
  BY <1>2 DEF NewPage, PackedExtract, Overlay
<1>5. LayerStore(page, pi)[o] = IF start <= abs /\ abs < start + valid
                                  THEN chunk[AtMost(abs - start, seq - 1)] ELSE page[o]
  BY DEF LayerStore
<1>6. page[o] = kvIn[abs] \/ page[o] = NewPage(pi)[o]
  BY DEF PackedExtract
<1> HIDE DEF abs
<1>7. CASE start <= abs /\ abs < start + valid
  <2>1. AtMost(abs - start, seq - 1) = abs - start
    BY <1>3, <1>7 DEF AtMost
  <2> QED
    BY <1>4, <1>5, <1>7, <2>1
<1>8. CASE ~(start <= abs /\ abs < start + valid)
  BY <1>4, <1>5, <1>6, <1>8
<1> QED
  BY <1>7, <1>8

\* Writes reach the pages in order, the last page last: the one before write i
\* has the page of write i if any earlier one has.
LEMMA EarlierWrite ==
  ASSUME TypeOK, NEW i \in Nat, NEW j \in 0..(i - 1), WritePage(j) = WritePage(i)
  PROVE  i - 1 \in 0..(i - 1) /\ WritePage(i - 1) = WritePage(i)
<1>1. start \div PageSize \in Nat /\ NumPages \in Nat
  BY CallNumbers, DivMod, Geometry
<1> QED
  BY <1>1 DEF WritePage, AtMost

\* The first write of a page is the one the clamped index meets first.
LEMMA FirstWrite ==
  ASSUME TypeOK, NEW p \in 0..(NumPages - 1), NEW j \in Writes, WritePage(j) = p
  PROVE  \E i \in Writes : WritePage(i) = p /\ \A l \in Writes : WritePage(l) = p => i <= l
<1> DEFINE s == start \div PageSize
<1>1. s \in Nat /\ NumPages \in Nat \ {0} /\ MaxWrites \in Nat /\ p \in Nat
  BY CallNumbers, DivMod, Geometry
<1>2. \A i \in Writes : i \in Nat /\ WritePage(i) = AtMost(s + i, NumPages - 1)
  BY <1>1 DEF WritePage, Writes
<1> HIDE DEF s
<1>3. CASE s <= p
  <2>1. p - s \in Writes /\ WritePage(p - s) = p
    BY <1>1, <1>2, <1>3 DEF Writes, AtMost
  <2>2. \A l \in Writes : WritePage(l) = p => p - s <= l
    BY <1>1, <1>2, <1>3 DEF AtMost
  <2> QED
    BY <2>1, <2>2
<1>4. CASE p < s
  <2>1. 0 \in Writes /\ WritePage(0) = p
    BY <1>1, <1>2, <1>4 DEF Writes, AtMost
  <2>2. \A l \in Writes : 0 <= l
    BY <1>2
  <2> QED
    BY <2>1, <2>2
<1> QED
  BY <1>1, <1>3, <1>4

----------------------------------------------------------------------------
(* The steps *)

\* Until the next call, what the call has to do stays the same.
LEMMA SameCall ==
  ASSUME UNCHANGED <<kvIn, callVars>>
  PROVE  /\ Overlay(kvIn)' = Overlay(kvIn)
         /\ \A p : NewPage(p)' = NewPage(p)
         /\ \A i : WritePage(i)' = WritePage(i)
         /\ MaxWrites' = MaxWrites /\ Writes' = Writes /\ Queries' = Queries
         /\ HistPages' = HistPages
         /\ AllSeen' = AllSeen /\ \A n : SeenBelow(n)' = SeenBelow(n)
<1>1. start' = start /\ valid' = valid /\ seq' = seq /\ chunk' = chunk /\ kvIn' = kvIn
  BY DEF callVars
<1>2. Overlay(kvIn)' = Overlay(kvIn)
  BY <1>1 DEF Overlay
<1>3. \A p : NewPage(p)' = NewPage(p)
  BY <1>2 DEF NewPage, PackedExtract
<1>4. \A i : WritePage(i)' = WritePage(i)
  BY <1>1 DEF WritePage
<1>5. MaxWrites' = MaxWrites /\ Writes' = Writes /\ Queries' = Queries /\ HistPages' = HistPages
  BY <1>1 DEF MaxWrites, Writes, Queries, HistPages
<1>6. AllSeen' = AllSeen
  BY <1>1, <1>2, <1>5 DEF AllSeen, Visible
<1>7. \A n : SeenBelow(n)' = SeenBelow(n)
  BY <1>6 DEF SeenBelow
<1> QED
  BY <1>2, <1>3, <1>4, <1>5, <1>6, <1>7

\* Nothing is under way at first.
LEMMA InitChunk == Init => ChunkInv
<1> SUFFICES ASSUME Init PROVE ChunkInv
  OBVIOUS
<1> USE ChunkAssumption DEF Init
<1>1. TypeOK
  <2>1. kvIn \in Plane /\ kvOut \in Plane
    BY DEF Plane
  <2>2. seq \in {1, ChunkSize} /\ start \in 0..(MaxKv - 1) /\ valid \in 1..seq
        /\ start + valid <= MaxKv
    OBVIOUS
  <2>3. Queries = {0}
    BY DEF Queries
  <2>4. chunk \in [Queries -> Rows]
    BY <2>3
  <2>5. MaxWrites \in Nat /\ NumPages \in Nat
    BY CeilDivCovers, Geometry DEF MaxWrites
  <2>6. w \in 0..(MaxWrites + NumPages)
    BY <2>5
  <2>7. 0 \in 0..MaxWrites /\ stored \in [0..(0 - 1) -> Page]
    BY <2>5
  <2>8. seen \subseteq (Queries \X Positions \X Rows)
    OBVIOUS
  <2> QED
    BY <2>1, <2>2, <2>4, <2>6, <2>7, <2>8 DEF TypeOK
<1> QED
  BY <1>1 DEF ChunkInv, WhileStoring, AfterStoring, WhilePacking, WhileWalking,
              BeforeFlash, WhenDone

\* A new call starts from the plane the last one left.
LEMMA InvokeStep == ChunkInv /\ Invoke => ChunkInv'
<1> SUFFICES ASSUME ChunkInv, Invoke PROVE ChunkInv'
  OBVIOUS
<1>1. /\ phase' = "store" /\ w' = 0 /\ stored' = <<>> /\ seen' = {}
      /\ kvIn' = kvOut /\ kvOut' = kvOut /\ flash' = flash
      /\ seq' \in {1, ChunkSize} /\ start' \in 0..(MaxKv - 1) /\ valid' \in 1..seq'
      /\ start' + valid' <= MaxKv /\ chunk' \in [0..(seq' - 1) -> Rows]
  BY DEF Invoke
<1>2. MaxWrites' \in Nat \ {0} /\ NumPages \in Nat /\ seq' \in Nat
  <2>1. seq' \in Nat \ {0}
    BY <1>1, ChunkAssumption
  <2>2. CeilDiv(seq', PageSize) \in Nat \ {0}
    BY <2>1, CeilDivCovers
  <2>3. MaxWrites' = CeilDiv(seq', PageSize) + 1
    BY DEF MaxWrites
  <2> QED
    BY <2>1, <2>2, <2>3, Geometry
<1> DEFINE m == MaxWrites'
<1>3. m \in Nat \ {0}
  BY <1>2
<1>4. TypeOK'
  <2>1. kvIn' \in Plane /\ kvOut' \in Plane /\ flash' \in BOOLEAN
    BY <1>1 DEF ChunkInv, TypeOK
  <2>2. w' \in 0..(m + NumPages)
    <3> HIDE DEF m
    <3> QED
      BY <1>1, <1>2, <1>3
  <2>3. \E n \in 0..m : stored' \in [0..(n - 1) -> Page]
    <3> HIDE DEF m
    <3>1. 0 \in 0..m /\ stored' \in [0..(0 - 1) -> Page]
      BY <1>1, <1>3
    <3> QED
      BY <3>1
  <2>4. chunk' \in [Queries' -> Rows]
    BY <1>1 DEF Queries
  <2>5. seen' \subseteq (Queries' \X Positions \X Rows)
    BY <1>1
  <2> QED
    BY <1>1, <2>1, <2>2, <2>3, <2>4, <2>5 DEF TypeOK
<1>5. WhileStoring'
  <2>1. w' \in Writes'
    <3>1. Writes' = 0..(m - 1)
      BY DEF Writes
    <3> HIDE DEF m
    <3> QED
      BY <1>1, <1>3, <3>1
  <2>2. 0..(w' - 1) = {}
    BY <1>1
  <2>3. StoredPages(w)'
    BY <1>1, <2>2 DEF StoredPages
  <2> QED
    BY <1>1, <2>1, <2>3 DEF WhileStoring
<1> QED
  BY <1>1, <1>4, <1>5 DEF ChunkInv, AfterStoring, WhilePacking, WhileWalking,
                          BeforeFlash, WhenDone

\* Types during a call.
LEMMA CallType ==
  ASSUME TypeOK, UNCHANGED <<kvIn, callVars>>,
         phase' \in {"idle", "store", "attend", "pack"}, kvOut' \in Plane,
         w' \in 0..(MaxWrites + NumPages),
         \E n \in 0..MaxWrites : stored' \in [0..(n - 1) -> Page],
         seen' \subseteq (Queries \X Positions \X Rows)
  PROVE  TypeOK'
<1>1. /\ flash' = flash /\ start' = start /\ valid' = valid /\ seq' = seq
      /\ chunk' = chunk /\ kvIn' = kvIn
  BY DEF callVars
<1>2. MaxWrites' = MaxWrites /\ Queries' = Queries
  BY SameCall
<1> QED
  BY <1>1, <1>2 DEF TypeOK

\* Write w leaves its page as it has to be, and the last one ends the stores.
LEMMA StorePageStep == ChunkInv /\ StorePage => ChunkInv'
<1> SUFFICES ASSUME ChunkInv, StorePage PROVE ChunkInv'
  OBVIOUS
<1> DEFINE pi == WritePage(w)
           same == {i \in 0..(w - 1) : WritePage(i) = pi}
           pick == CHOOSE i \in same : \A j \in same : j <= i
           page == IF same = {} THEN PackedExtract(kvIn, pi) ELSE stored[pick]
<1>1. /\ TypeOK /\ phase = "store" /\ w \in Writes /\ StoredPages(w)
      /\ kvOut = kvIn /\ seen = {}
  BY DEF ChunkInv, StorePage, WhileStoring
<1>2. /\ UNCHANGED <<kvIn, callVars>> /\ kvOut' = kvOut /\ seen' = seen /\ kvIn' = kvIn
      /\ flash' = flash /\ kvIn \in Plane /\ flash \in BOOLEAN
  BY <1>1 DEF StorePage, callVars, TypeOK
<1>3. stored' = [i \in 0..w |-> IF i = w THEN LayerStore(page, pi) ELSE stored[i]]
  BY DEF StorePage
<1>4. \/ w + 1 < MaxWrites /\ w' = w + 1 /\ phase' = "store"
      \/ w + 1 >= MaxWrites /\ w' = 0 /\ phase' = IF flash THEN "pack" ELSE "attend"
  <2>1. MaxWrites \in Nat /\ w \in Nat
    BY <1>1, CallNumbers DEF Writes
  <2> QED
    BY <1>1, <2>1 DEF StorePage
<1>5. /\ MaxWrites \in Nat \ {0} /\ w \in Nat /\ w < MaxWrites /\ NumPages \in Nat
      /\ pi \in 0..(NumPages - 1)
  BY <1>1, CallNumbers, Geometry DEF Writes
<1>6. page = PackedExtract(kvIn, pi) \/ page = NewPage(pi)
  <2>1. CASE same = {}
    BY <2>1
  <2>2. CASE same # {}
    <3>1. PICK j \in 0..(w - 1) : WritePage(j) = pi
      BY <2>2
    <3>2. w - 1 \in same
      BY <1>1, <1>5, <3>1, EarlierWrite
    <3>3. \A i \in same : i <= w - 1
      BY <1>5
    <3>4. pick \in same
      BY <3>2, <3>3
    <3> HIDE DEF pick
    <3>5. stored[pick] = NewPage(pi)
      BY <1>1, <3>4 DEF StoredPages
    <3> QED
      BY <2>2, <3>5
  <2> QED
    BY <2>1, <2>2
<1>7. LayerStore(page, pi) = NewPage(pi) /\ NewPage(pi) \in Page
  BY <1>1, <1>5, <1>6, LayerStoreMakesPage, OverlayType
<1> HIDE DEF page, same, pick
<1>8. /\ stored' \in [0..w -> Page]
      /\ \A i \in 0..w : stored'[i] = NewPage(WritePage(i))
  BY <1>1, <1>3, <1>5, <1>7 DEF StoredPages
<1>9. /\ MaxWrites' = MaxWrites /\ Writes' = Writes
      /\ \A i \in 0..w : stored'[i] = NewPage(WritePage(i))'
  BY <1>1, <1>2, <1>8, SameCall
<1>10. TypeOK'
  <2>1. w + 1 \in 0..MaxWrites /\ stored' \in [0..((w + 1) - 1) -> Page]
    BY <1>5, <1>8
  <2>2. w' \in 0..(MaxWrites + NumPages)
    BY <1>4, <1>5
  <2>3. phase' \in {"idle", "store", "attend", "pack"}
    BY <1>2, <1>4
  <2> QED
    BY <1>1, <1>2, <2>1, <2>2, <2>3, CallType
<1>11. CASE phase' = "store"
  <2>1. w' = w + 1 /\ w' \in Writes /\ w' - 1 = w
    BY <1>2, <1>4, <1>5, <1>11 DEF Writes
  <2>2. StoredPages(w)'
    BY <1>8, <1>9, <2>1 DEF StoredPages
  <2>3. WhileStoring'
    BY <1>1, <1>2, <1>9, <2>1, <2>2 DEF WhileStoring
  <2> QED
    BY <1>10, <1>11, <2>3 DEF ChunkInv, AfterStoring, WhilePacking, WhileWalking,
                              BeforeFlash, WhenDone
<1>12. CASE phase' # "store"
  <2>1. /\ w' = 0 /\ phase' = IF flash THEN "pack" ELSE "attend"
        /\ MaxWrites - 1 = w
    BY <1>4, <1>5, <1>12
  <2>2. StoredPages(MaxWrites)'
    BY <1>8, <1>9, <2>1 DEF StoredPages
  <2>3. CASE flash
    <3>1. phase' = "pack" /\ flash' /\ w' \in Writes'
      BY <1>2, <1>5, <1>9, <2>1, <2>3 DEF Writes
    <3>2. 0..(w' - 1) = {}
      BY <2>1
    <3>3. Packed(w)'
      BY <1>1, <1>2, <3>2 DEF Packed
    <3>4. WhilePacking'
      BY <1>1, <1>2, <3>1, <3>3 DEF WhilePacking
    <3> QED
      BY <1>10, <2>2, <3>1, <3>4 DEF ChunkInv, WhileStoring, AfterStoring, WhileWalking,
                                     BeforeFlash, WhenDone
  <2>4. CASE ~flash
    <3>1. phase' = "attend" /\ ~flash'
      BY <1>2, <2>1, <2>4
    <3>2. SeenBelow(w)' = {}
      <4>1. \A x \in AllSeen' : x[2] \div PageSize \in Nat
        <5>1. \A x \in AllSeen' : x[2] \in Positions
          BY DEF AllSeen
        <5> QED
          BY <5>1, PositionsArePages
      <4> QED
        BY <2>1, <4>1 DEF SeenBelow
    <3>3. w' \in 0..(HistPages' - 1)
      <4>1. HistPages' = HistPages /\ 0 \in 0..(HistPages - 1)
        BY <1>1, <1>2, SameCall, CallNumbers, Geometry
      <4> QED
        BY <2>1, <4>1
    <3>4. WhileWalking'
      BY <1>1, <1>2, <3>1, <3>2, <3>3 DEF WhileWalking
    <3> QED
      BY <1>10, <2>2, <3>1, <3>4 DEF ChunkInv, WhileStoring, AfterStoring, WhilePacking,
                                     BeforeFlash, WhenDone
  <2> QED
    BY <2>3, <2>4
<1> QED
  BY <1>11, <1>12

\* Insert w puts a new page into the plane; with the last one the plane is what
\* the call had to leave.
LEMMA PackPageStep == ChunkInv /\ PackPage => ChunkInv'
<1> SUFFICES ASSUME ChunkInv, PackPage PROVE ChunkInv'
  OBVIOUS
<1>1. /\ TypeOK /\ phase = "pack" /\ w \in Writes /\ StoredPages(MaxWrites) /\ Packed(w)
      /\ seen = IF flash THEN {} ELSE AllSeen
  BY DEF ChunkInv, PackPage, WhilePacking, AfterStoring
<1>2. /\ UNCHANGED <<kvIn, callVars>> /\ stored' = stored /\ seen' = seen /\ kvIn' = kvIn
      /\ flash' = flash /\ flash \in BOOLEAN
  BY <1>1 DEF PackPage, callVars, TypeOK
<1>3. kvOut' = [k \in Positions |->
                  IF k \div PageSize = WritePage(w) THEN stored[w][k % PageSize]
                  ELSE kvOut[k]]
  BY DEF PackPage
<1>4. MaxWrites \in Nat \ {0} /\ w \in Nat /\ w < MaxWrites /\ NumPages \in Nat
  BY <1>1, CallNumbers, Geometry DEF Writes
<1>5. \/ w + 1 < MaxWrites /\ w' = w + 1 /\ phase' = "pack"
      \/ MaxWrites = w + 1 /\ w' = 0 /\ phase' = IF flash THEN "attend" ELSE "idle"
  BY <1>1, <1>4 DEF PackPage
<1>6. ASSUME NEW k \in Positions
      PROVE  kvOut'[k] = IF \E i \in 0..w : WritePage(i) = k \div PageSize
                           THEN Overlay(kvIn)[k] ELSE kvIn[k]
  <2>1. CASE k \div PageSize = WritePage(w)
    <3>1. w \in 0..(MaxWrites - 1) /\ w \in 0..w
      BY <1>4
    <3>2. k % PageSize \in Offsets /\ k = (k \div PageSize) * PageSize + (k % PageSize)
      BY DivMod DEF Positions
    <3>3. stored[w][k % PageSize] = Overlay(kvIn)[k]
      BY <1>1, <2>1, <3>1, <3>2 DEF StoredPages, NewPage, PackedExtract
    <3> QED
      BY <1>3, <2>1, <3>1, <3>3
  <2>2. CASE k \div PageSize # WritePage(w)
    <3>1. kvOut'[k] = kvOut[k]
      BY <1>3, <2>2
    <3>2. (\E i \in 0..w : WritePage(i) = k \div PageSize)
            <=> (\E i \in 0..(w - 1) : WritePage(i) = k \div PageSize)
      BY <1>4, <2>2
    <3>3. kvOut[k] = IF \E i \in 0..(w - 1) : WritePage(i) = k \div PageSize
                       THEN Overlay(kvIn)[k] ELSE kvIn[k]
      BY <1>1 DEF Packed
    <3> QED
      BY <3>1, <3>2, <3>3
  <2> QED
    BY <2>1, <2>2
<1>7. kvOut' \in Plane
  <2>1. kvIn \in [Positions -> Rows] /\ Overlay(kvIn) \in [Positions -> Rows]
    BY <1>1, OverlayType DEF TypeOK, Plane
  <2>2. \A k \in Positions : kvOut'[k] \in Rows
    BY <1>6, <2>1
  <2>3. kvOut' = [k \in Positions |-> kvOut'[k]]
    BY <1>3
  <2> QED
    BY <2>2, <2>3 DEF Plane
<1>8. /\ MaxWrites' = MaxWrites /\ Writes' = Writes /\ Overlay(kvIn)' = Overlay(kvIn)
      /\ AllSeen' = AllSeen
      /\ \A i : WritePage(i)' = WritePage(i) /\ NewPage(WritePage(i))' = NewPage(WritePage(i))
  BY <1>2, SameCall
<1>9. StoredPages(MaxWrites)'
  BY <1>1, <1>2, <1>8 DEF StoredPages
<1>10. TypeOK'
  <2>1. w' \in 0..(MaxWrites + NumPages)
    BY <1>4, <1>5
  <2>2. phase' \in {"idle", "store", "attend", "pack"}
    BY <1>2, <1>5
  <2>3. \E n \in 0..MaxWrites : stored' \in [0..(n - 1) -> Page]
    BY <1>1, <1>2 DEF TypeOK
  <2>4. seen' \subseteq (Queries \X Positions \X Rows)
    BY <1>1, <1>2 DEF TypeOK
  <2> QED
    BY <1>1, <1>2, <1>7, <2>1, <2>2, <2>3, <2>4, CallType
<1>11. CASE w' = w + 1 /\ phase' = "pack" /\ w + 1 < MaxWrites
  <2>1. w' \in Writes /\ w' - 1 = w
    BY <1>4, <1>11 DEF Writes
  <2>2. Packed(w)'
    BY <1>2, <1>6, <1>8, <2>1 DEF Packed
  <2>3. WhilePacking'
    BY <1>1, <1>2, <1>8, <2>1, <2>2 DEF WhilePacking
  <2> QED
    BY <1>9, <1>10, <1>11, <2>3 DEF ChunkInv, WhileStoring, AfterStoring, WhileWalking,
                                    BeforeFlash, WhenDone
<1>12. CASE MaxWrites = w + 1 /\ phase' = IF flash THEN "attend" ELSE "idle"
  <2>1. ASSUME NEW k \in Positions PROVE kvOut'[k] = Overlay(kvIn)[k]
    <3>1. CASE \E i \in 0..w : WritePage(i) = k \div PageSize
      BY <1>6, <3>1
    <3>2. CASE ~ \E i \in 0..w : WritePage(i) = k \div PageSize
      <4>1. Writes = 0..w
        BY <1>4, <1>12 DEF Writes
      <4>2. ~(start <= k /\ k < start + valid)
        BY <1>1, <3>2, <4>1, WritesCover
      <4>3. Overlay(kvIn)[k] = kvIn[k]
        BY <4>2 DEF Overlay
      <4> QED
        BY <1>6, <3>2, <4>3
    <3> QED
      BY <3>1, <3>2
  <2>2. kvOut' = Overlay(kvIn)
    <3>1. kvOut' \in [Positions -> Rows] /\ Overlay(kvIn) \in [Positions -> Rows]
      BY <1>1, <1>7, OverlayType DEF Plane
    <3> QED
      BY <2>1, <3>1
  <2>3. BeforeFlash' /\ WhenDone'
    BY <1>1, <1>2, <1>8, <1>12, <2>2 DEF BeforeFlash, WhenDone
  <2> QED
    BY <1>2, <1>9, <1>10, <1>12, <2>3 DEF ChunkInv, WhileStoring, AfterStoring,
                                          WhilePacking, WhileWalking
<1> QED
  BY <1>5, <1>11, <1>12

\* The packed attention sees the plane the call leaves.
LEMMA AttendPackedStep == ChunkInv /\ AttendPacked => ChunkInv'
<1> SUFFICES ASSUME ChunkInv, AttendPacked PROVE ChunkInv'
  OBVIOUS
<1>1. TypeOK /\ kvOut = Overlay(kvIn)
  BY DEF ChunkInv, AttendPacked, BeforeFlash
<1>2. /\ UNCHANGED <<kvIn, callVars>> /\ kvIn' = kvIn /\ kvOut' = kvOut /\ stored' = stored
      /\ w' = w /\ phase' = "idle"
  BY DEF AttendPacked
<1>3. seen' = AllSeen
  BY <1>1 DEF AttendPacked, AllSeen
<1>4. AllSeen' = AllSeen /\ Overlay(kvIn)' = Overlay(kvIn)
  BY <1>2, SameCall
<1>5. TypeOK'
  <2>1. seen' \subseteq (Queries \X Positions \X Rows)
    BY <1>3 DEF AllSeen
  <2>2. /\ w' \in 0..(MaxWrites + NumPages) /\ kvOut' \in Plane
        /\ \E n \in 0..MaxWrites : stored' \in [0..(n - 1) -> Page]
    BY <1>1, <1>2 DEF TypeOK
  <2> QED
    BY <1>1, <1>2, <2>1, <2>2, CallType
<1>6. WhenDone'
  BY <1>1, <1>2, <1>3, <1>4 DEF WhenDone
<1> QED
  BY <1>2, <1>5, <1>6 DEF ChunkInv, WhileStoring, AfterStoring, WhilePacking,
                          WhileWalking, BeforeFlash

\* The page layer_page takes for page p of the walk.
Touched(p) == {i \in Writes : WritePage(i) = p}
WalkPage(p) ==
  IF Touched(p) = {} THEN PackedExtract(kvIn, p)
  ELSE stored[CHOOSE i \in Touched(p) : \A j \in Touched(p) : i <= j]

\* It holds the new rows, whether some write touched it or not.
LEMMA WalkedPage ==
  ASSUME TypeOK, StoredPages(MaxWrites), NEW p \in 0..(NumPages - 1),
         NEW k \in Positions, k \div PageSize = p
  PROVE  WalkPage(p)[k % PageSize] = Overlay(kvIn)[k]
<1> DEFINE touched == Touched(p)
           page == WalkPage(p)
<1> USE DEF Touched, WalkPage
<1>1. k % PageSize \in Offsets /\ k = p * PageSize + (k % PageSize)
  BY DivMod DEF Positions
<1>2. CASE touched = {}
  <2>1. ~(start <= k /\ k < start + valid)
    BY <1>2, WritesCover
  <2>2. Overlay(kvIn)[k] = kvIn[k]
    BY <2>1 DEF Overlay
  <2>3. page[k % PageSize] = kvIn[k]
    BY <1>1, <1>2 DEF PackedExtract
  <2> QED
    BY <2>2, <2>3
<1>3. CASE touched # {}
  <2> DEFINE pick == CHOOSE i \in touched : \A j \in touched : i <= j
  <2>1. PICK j \in Writes : WritePage(j) = p
    BY <1>3
  <2>2. PICK i \in Writes : WritePage(i) = p /\ \A l \in Writes : WritePage(l) = p => i <= l
    BY <2>1, FirstWrite
  <2>3. i \in touched /\ \A l \in touched : i <= l
    BY <2>2
  <2>4. pick \in touched
    BY <2>3
  <2>5. page = stored[pick]
    BY <1>3
  <2> HIDE DEF pick
  <2>6. page = NewPage(p)
    BY <2>4, <2>5 DEF StoredPages, Writes
  <2> QED
    BY <1>1, <2>6 DEF NewPage, PackedExtract
<1> QED
  BY <1>2, <1>3

\* The walk adds the keys of page w, and hist_pages reaches the last key.
LEMMA AttendPageStep == ChunkInv /\ AttendPage => ChunkInv'
<1> SUFFICES ASSUME ChunkInv, AttendPage PROVE ChunkInv'
  OBVIOUS
<1> DEFINE page == WalkPage(w)
<1>1. /\ TypeOK /\ phase = "attend" /\ ~flash /\ StoredPages(MaxWrites)
      /\ w \in 0..(HistPages - 1) /\ kvOut = kvIn /\ seen = SeenBelow(w)
  BY DEF ChunkInv, AttendPage, WhileWalking, AfterStoring
<1>2. /\ UNCHANGED <<kvIn, callVars>> /\ stored' = stored /\ kvIn' = kvIn /\ kvOut' = kvOut
      /\ flash' = flash
  BY DEF AttendPage, callVars
<1>3. seen' = seen \cup {x \in Queries \X Positions \X Rows :
                           /\ x[2] \div PageSize = w
                           /\ Visible(x[1], x[2]) /\ x[3] = page[x[2] % PageSize]}
  BY DEF AttendPage, WalkPage, Touched
<1>4. /\ HistPages \in 1..NumPages /\ NumPages \in Nat /\ w \in Nat /\ w < HistPages
      /\ MaxWrites \in Nat \ {0}
  BY <1>1, CallNumbers, Geometry
<1>5. \/ w + 1 < HistPages /\ w' = w + 1 /\ phase' = "attend"
      \/ HistPages = w + 1 /\ w' = 0 /\ phase' = "pack"
  BY <1>1, <1>4 DEF AttendPage
<1>6. \A k \in Positions : k \div PageSize = w => page[k % PageSize] = Overlay(kvIn)[k]
  <2>1. w \in 0..(NumPages - 1)
    BY <1>4
  <2> QED
    BY <1>1, <2>1, WalkedPage
<1> HIDE DEF page
<1>7. seen' = SeenBelow(w + 1)
  <2>1. \A x \in Queries \X Positions \X Rows :
          x[2] \in Positions /\ x[2] \div PageSize \in Nat
    BY PositionsArePages
  <2>2. ASSUME NEW x \in Queries \X Positions \X Rows
        PROVE  x \in seen' <=> x \in SeenBelow(w + 1)
    <3>1. x[2] \div PageSize < w + 1 <=> x[2] \div PageSize < w \/ x[2] \div PageSize = w
      BY <1>4, <2>1
    <3> QED
      BY <1>1, <1>3, <1>6, <2>1, <3>1 DEF SeenBelow, AllSeen
  <2>3. /\ SeenBelow(w) \subseteq Queries \X Positions \X Rows
        /\ SeenBelow(w + 1) \subseteq Queries \X Positions \X Rows
    BY DEF SeenBelow, AllSeen
  <2>4. seen' \subseteq Queries \X Positions \X Rows
    BY <1>1, <1>3, <2>3
  <2> QED
    BY <2>2, <2>3, <2>4
<1>8. /\ MaxWrites' = MaxWrites /\ Writes' = Writes /\ Overlay(kvIn)' = Overlay(kvIn)
      /\ AllSeen' = AllSeen /\ HistPages' = HistPages
      /\ \A n : SeenBelow(n)' = SeenBelow(n)
      /\ \A i : WritePage(i)' = WritePage(i) /\ NewPage(WritePage(i))' = NewPage(WritePage(i))
  BY <1>2, SameCall
<1>9. StoredPages(MaxWrites)'
  BY <1>1, <1>2, <1>8 DEF StoredPages
<1>10. TypeOK'
  <2>1. seen' \subseteq (Queries \X Positions \X Rows)
    BY <1>7 DEF SeenBelow, AllSeen
  <2>2. kvOut' \in Plane /\ \E n \in 0..MaxWrites : stored' \in [0..(n - 1) -> Page]
    BY <1>1, <1>2 DEF TypeOK
  <2>3. w' \in 0..(MaxWrites + NumPages) /\ phase' \in {"idle", "store", "attend", "pack"}
    BY <1>4, <1>5
  <2> QED
    BY <1>1, <1>2, <2>1, <2>2, <2>3, CallType
<1>11. CASE w + 1 < HistPages /\ w' = w + 1 /\ phase' = "attend"
  <2>1. SeenBelow(w)' = SeenBelow(w + 1)
    BY <1>8, <1>11 DEF SeenBelow
  <2>2. w' \in 0..(HistPages' - 1)
    BY <1>4, <1>8, <1>11
  <2>3. WhileWalking'
    BY <1>1, <1>2, <1>7, <2>1, <2>2 DEF WhileWalking
  <2> QED
    BY <1>1, <1>2, <1>9, <1>10, <1>11, <2>3
       DEF ChunkInv, WhileStoring, AfterStoring, WhilePacking, BeforeFlash, WhenDone
<1>12. CASE HistPages = w + 1 /\ w' = 0 /\ phase' = "pack"
  <2>1. ASSUME NEW x \in AllSeen PROVE x[2] \div PageSize < w + 1
    <3> DEFINE k == x[2]
               p == k \div PageSize
               c == CeilDiv(start + valid, PageSize)
    <3>1. k \in Positions /\ k < start + valid
      BY DEF AllSeen, Visible
    <3>2. p \in 0..(NumPages - 1)
      BY <3>1, PositionsArePages
    <3>3. k \in Nat /\ start \in Nat /\ valid \in Nat \ {0} /\ start + valid \in Nat \ {0}
      BY <1>1, <3>1, CallNumbers DEF Positions
    <3>4. p \in Nat /\ p * PageSize \in Nat /\ p * PageSize <= k
      <4> HIDE DEF k
      <4> QED
        BY <3>3, DivMod, ChunkAssumption DEF Offsets
    <3>5. c \in Nat /\ start + valid <= c * PageSize
      BY <3>3, CeilDivCovers
    <3>6. HistPages = AtMost(c, NumPages)
      BY DEF HistPages
    <3>7. p < c
      <4> HIDE DEF k, p, c
      <4>1. SUFFICES ASSUME c < p \/ c = p PROVE FALSE
        BY <3>4, <3>5
      <4>2. c * PageSize \in Nat
        BY <3>5, ChunkAssumption
      <4>3. CASE c < p
        BY <3>1, <3>3, <3>4, <3>5, <4>2, <4>3, PageOrder, ChunkAssumption
      <4>4. CASE c = p
        BY <3>1, <3>3, <3>4, <3>5, <4>4
      <4> QED
        BY <4>1, <4>3, <4>4
    <3> HIDE DEF p, c
    <3>8. p < w + 1
      BY <1>4, <1>12, <3>2, <3>5, <3>6, <3>7 DEF AtMost
    <3> QED
      BY <3>8 DEF p
  <2>2. SeenBelow(w + 1) = AllSeen
    BY <2>1 DEF SeenBelow
  <2>3. 0..(w' - 1) = {} /\ w' \in Writes
    BY <1>4, <1>12 DEF Writes
  <2>4. Packed(w)'
    BY <1>1, <1>2, <2>3 DEF Packed
  <2>5. WhilePacking'
    BY <1>1, <1>2, <1>7, <1>8, <2>2, <2>3, <2>4 DEF WhilePacking
  <2> QED
    BY <1>9, <1>10, <1>12, <2>5 DEF ChunkInv, WhileStoring, AfterStoring, WhileWalking,
                                    BeforeFlash, WhenDone
<1> QED
  BY <1>5, <1>11, <1>12

\* A stuttering step changes nothing of it.
LEMMA StutterStep == ChunkInv /\ UNCHANGED vars => ChunkInv'
<1> SUFFICES ASSUME ChunkInv, UNCHANGED vars PROVE ChunkInv'
  OBVIOUS
<1>1. /\ UNCHANGED <<kvIn, callVars>> /\ flash' = flash /\ phase' = phase /\ kvIn' = kvIn
      /\ kvOut' = kvOut /\ stored' = stored /\ w' = w /\ seen' = seen
  BY DEF vars, callVars
<1>2. /\ MaxWrites' = MaxWrites /\ Writes' = Writes /\ Overlay(kvIn)' = Overlay(kvIn)
      /\ AllSeen' = AllSeen /\ HistPages' = HistPages
      /\ \A n : SeenBelow(n)' = SeenBelow(n)
      /\ \A i : WritePage(i)' = WritePage(i) /\ NewPage(WritePage(i))' = NewPage(WritePage(i))
  BY <1>1, SameCall
<1>3. TypeOK'
  BY <1>1, CallType DEF ChunkInv, TypeOK
<1>4. WhileStoring' /\ AfterStoring'
  BY <1>1, <1>2 DEF ChunkInv, WhileStoring, AfterStoring, StoredPages
<1>5. SeenBelow(w)' = SeenBelow(w)
  BY <1>1, <1>2 DEF SeenBelow
<1>6. WhilePacking' /\ WhileWalking' /\ BeforeFlash' /\ WhenDone'
  BY <1>1, <1>2, <1>5 DEF ChunkInv, WhilePacking, Packed, WhileWalking, BeforeFlash, WhenDone
<1> QED
  BY <1>3, <1>4, <1>6 DEF ChunkInv

\* A call that is over has shown its queries what they have to see.
LEMMA SeesPrefix == ChunkInv => AttentionSeesPrefix
<1> SUFFICES ASSUME ChunkInv, phase = "idle", seen # {}, NEW q \in 0..(valid - 1)
             PROVE  {<<x[2], x[3]>> : x \in {y \in seen : y[1] = q}} =
                      {<<k, Overlay(kvIn)[k]>> : k \in 0..(start + q)}
  BY DEF AttentionSeesPrefix
<1>1. TypeOK /\ seen = AllSeen
  BY DEF ChunkInv, WhenDone
<1>2. /\ start \in Nat /\ valid \in Nat /\ seq \in Nat /\ valid <= seq
      /\ start + valid <= KvLen /\ KvLen \in Nat
  BY <1>1, CallNumbers, Geometry
<1>3. q \in Queries
  BY <1>2 DEF Queries
<1>4. Overlay(kvIn) \in [Positions -> Rows]
  BY <1>1, OverlayType DEF Plane
<1>5. ASSUME NEW y \in seen, y[1] = q
      PROVE  y[2] \in 0..(start + q) /\ y[3] = Overlay(kvIn)[y[2]]
  <2>1. y[2] \in Positions /\ Visible(y[1], y[2]) /\ y[3] = Overlay(kvIn)[y[2]]
    BY <1>1, <1>5 DEF AllSeen
  <2>2. y[2] \in Nat /\ y[2] <= start + q
    BY <1>5, <2>1 DEF Visible, Positions
  <2> QED
    BY <1>2, <2>1, <2>2
<1>6. ASSUME NEW k \in 0..(start + q)
      PROVE  <<q, k, Overlay(kvIn)[k]>> \in seen
  <2>1. k \in Positions /\ Visible(q, k)
    BY <1>2 DEF Visible, Positions
  <2>2. <<q, k, Overlay(kvIn)[k]>> \in Queries \X Positions \X Rows
    BY <1>3, <1>4, <2>1
  <2> QED
    BY <1>1, <2>1, <2>2 DEF AllSeen
<1>7. ASSUME NEW z \in {<<x[2], x[3]>> : x \in {y \in seen : y[1] = q}}
      PROVE  z \in {<<k, Overlay(kvIn)[k]>> : k \in 0..(start + q)}
  BY <1>5
<1>8. ASSUME NEW k \in 0..(start + q)
      PROVE  <<k, Overlay(kvIn)[k]>> \in {<<x[2], x[3]>> : x \in {y \in seen : y[1] = q}}
  <2> DEFINE x == <<q, k, Overlay(kvIn)[k]>>
  <2>1. x \in {y \in seen : y[1] = q} /\ x[2] = k /\ x[3] = Overlay(kvIn)[k]
    BY <1>6
  <2> HIDE DEF x
  <2> QED
    BY <2>1
<1> QED
  BY <1>7, <1>8

----------------------------------------------------------------------------
(* The theorems *)

\* The invariant is inductive.
THEOREM ChunkInvariant == Spec => []ChunkInv
<1>1. Init => ChunkInv
  BY InitChunk
<1>2. ChunkInv /\ [Next]_vars => ChunkInv'
  BY InvokeStep, StorePageStep, PackPageStep, AttendPackedStep, AttendPageStep, StutterStep
     DEF Next
<1> QED
  BY <1>1, <1>2, PTL DEF Spec

\* The page values, planes and weights of the emitted program keep their shapes,
\* for every geometry configure_paged_kv accepts.
THEOREM ChunkTypeCorrect == Spec => []TypeOK
<1>1. ChunkInv => TypeOK
  BY DEF ChunkInv
<1> QED
  BY <1>1, ChunkInvariant, PTL

\* The page writes of paged_fused_attn_ops store exactly the chunk's real rows:
\* paged_max_writes reaches the page a chunk spills into, writes clamped onto the
\* last page repeat each other, and padding is not stored.
THEOREM ChunkStoresItsRows == Spec => []StoreIsOverlay
<1>1. ChunkInv => StoreIsOverlay
  BY DEF ChunkInv, WhenDone, BeforeFlash, StoreIsOverlay
<1> QED
  BY <1>1, ChunkInvariant, PTL

\* Flash attention and the portable page walk give every real query the same
\* view: the keys up to its own position, with the rows after the store.
THEOREM ChunkAttendsToPrefix == Spec => []AttentionSeesPrefix
<1>1. ChunkInv => AttentionSeesPrefix
  BY SeesPrefix
<1> QED
  BY <1>1, ChunkInvariant, PTL

----------------------------------------------------------------------------
(* The program implements the call of ChunkCall *)

\* The caller's view of the state.
CallPlane == IF phase = "idle" THEN kvOut ELSE kvIn
CallRecord == [window |-> [i \in 1..seq |-> chunk[i - 1]], last |-> valid - 1, start |-> start]
CallAnswer ==
  IF phase = "idle" /\ seen # {}
    THEN [q \in 0..(valid - 1) |-> {<<x[2], x[3]>> : x \in {y \in seen : y[1] = q}}]
    ELSE <<>>

\* Every call the program is given is one its caller may make.
LEMMA CallIsAdmitted == TypeOK => Call!IsCall(CallRecord)
<1> SUFFICES ASSUME TypeOK PROVE Call!IsCall(CallRecord)
  OBVIOUS
<1> USE ChunkAssumption
<1> DEFINE window == [i \in 1..seq |-> chunk[i - 1]]
<1>1. /\ seq \in {1, ChunkSize} /\ seq \in Nat \ {0} /\ valid \in 1..seq
      /\ start \in 0..(MaxKv - 1) /\ start + valid <= MaxKv /\ chunk \in [0..(seq - 1) -> Rows]
  BY DEF TypeOK, Queries
<1>2. window \in [1..seq -> Rows]
  BY <1>1
<1>3. Len(window) = seq
  BY <1>1
<1>4. valid - 1 \in 0..(seq - 1) /\ start + (valid - 1) < MaxKv /\ start \in Nat
  BY <1>1
<1>5. CallRecord.window = window /\ CallRecord.last = valid - 1 /\ CallRecord.start = start
  BY DEF CallRecord
<1>6. CallRecord \in [window : [1..seq -> Rows], last : 0..(seq - 1), start : 0..(MaxKv - 1)]
  BY <1>1, <1>2, <1>4 DEF CallRecord
<1> HIDE DEF window
<1>7. Call!Admitted(CallRecord.window, CallRecord.last, CallRecord.start, ChunkSize, MaxKv)
  BY <1>1, <1>3, <1>4, <1>5 DEF Call!Admitted
<1> QED
  BY <1>1, <1>6, <1>7 DEF Call!IsCall

\* The store of the call in the terms of its caller.
LEMMA OverlayIsStore ==
  ASSUME TypeOK
  PROVE  Overlay(kvIn) = Call!StoreChunk(kvIn, CallRecord.window, CallRecord.last, CallRecord.start)
<1>1. /\ start \in Nat /\ valid \in Nat \ {0} /\ seq \in Nat /\ valid <= seq
      /\ KvLen \in Nat
  BY CallNumbers, Geometry
<1>2. DOMAIN kvIn = Positions
  BY DEF TypeOK, Plane
<1>3. /\ CallRecord.window = [i \in 1..seq |-> chunk[i - 1]]
      /\ CallRecord.last = valid - 1 /\ CallRecord.start = start
  BY DEF CallRecord
<1>4. ASSUME NEW k \in Positions
      PROVE  (IF start <= k /\ k < start + valid THEN chunk[k - start] ELSE kvIn[k])
               = IF start <= k /\ k <= start + (valid - 1)
                   THEN CallRecord.window[k - start + 1] ELSE kvIn[k]
  <2>1. k \in Nat
    BY <1>1 DEF Positions
  <2>2. CASE start <= k /\ k < start + valid
    <3>1. k - start + 1 \in 1..seq /\ (k - start + 1) - 1 = k - start
      BY <1>1, <2>1, <2>2
    <3>2. CallRecord.window[k - start + 1] = chunk[k - start]
      BY <1>3, <3>1
    <3>3. k <= start + (valid - 1)
      BY <1>1, <2>1, <2>2
    <3> QED
      BY <2>2, <3>2, <3>3
  <2>3. CASE ~(start <= k /\ k < start + valid)
    BY <1>1, <2>1, <2>3
  <2> QED
    BY <2>2, <2>3
<1> QED
  BY <1>2, <1>3, <1>4 DEF Overlay, Call!StoreChunk

\* Every call shows its first query at least its own row.
LEMMA SomethingIsSeen == TypeOK => AllSeen # {}
<1> SUFFICES ASSUME TypeOK PROVE AllSeen # {}
  OBVIOUS
<1>1. /\ start \in Nat /\ valid \in Nat \ {0} /\ seq \in Nat \ {0} /\ start + valid <= KvLen
      /\ KvLen \in Nat
  BY CallNumbers, Geometry
<1>2. start \in Positions /\ 0 \in Queries /\ Visible(0, start)
  BY <1>1 DEF Positions, Queries, Visible
<1>3. Overlay(kvIn)[start] \in Rows
  BY <1>2, OverlayType DEF Plane
<1>4. <<0, start, Overlay(kvIn)[start]>> \in AllSeen
  BY <1>2, <1>3 DEF AllSeen
<1> QED
  BY <1>4

\* Rows up to a query, with their keys.
LEMMA KeyedPrefix ==
  ASSUME NEW plane, NEW n \in Nat, NEW s \in Nat
  PROVE  Call!Keyed(Call!Attended(plane, n, s)) = {<<k, plane[k]>> : k \in 0..(s + n)}
<1> DEFINE rows == [i \in 1..(s + n + 1) |-> plane[i - 1]]
<1>1. Call!Attended(plane, n, s) = rows /\ DOMAIN rows = 1..(s + n + 1)
  BY DEF Call!Attended
<1>2. \A i \in 1..(s + n + 1) : i - 1 \in 0..(s + n) /\ rows[i] = plane[i - 1]
  OBVIOUS
<1>3. \A k \in 0..(s + n) : k + 1 \in 1..(s + n + 1) /\ (k + 1) - 1 = k
  OBVIOUS
<1>4. \A k \in 0..(s + n) : <<k, plane[k]>> = <<(k + 1) - 1, rows[k + 1]>>
  BY <1>2, <1>3
<1> HIDE DEF rows
<1>5. ASSUME NEW z \in {<<i - 1, rows[i]>> : i \in 1..(s + n + 1)}
      PROVE  z \in {<<k, plane[k]>> : k \in 0..(s + n)}
  BY <1>2
<1>6. ASSUME NEW z \in {<<k, plane[k]>> : k \in 0..(s + n)}
      PROVE  z \in {<<i - 1, rows[i]>> : i \in 1..(s + n + 1)}
  <2>1. PICK k \in 0..(s + n) : z = <<k, plane[k]>>
    OBVIOUS
  <2>2. k + 1 \in 1..(s + n + 1) /\ z = <<(k + 1) - 1, rows[k + 1]>>
    BY <1>3, <1>4, <2>1
  <2> QED
    BY <2>2
<1>7. {<<i - 1, rows[i]>> : i \in 1..(s + n + 1)} = {<<k, plane[k]>> : k \in 0..(s + n)}
  BY <1>5, <1>6
<1> QED
  BY <1>1, <1>7 DEF Call!Keyed

\* The step that ends a call is the step of the caller's view in which it
\* returns.
LEMMA ReturnRefines ==
  ASSUME ChunkInv, ChunkInv', UNCHANGED <<kvIn, callVars>>,
         phase # "idle", phase' = "idle", seen' # {}
  PROVE  Call!Return
<1>1. /\ start' = start /\ valid' = valid /\ seq' = seq /\ chunk' = chunk /\ kvIn' = kvIn
      /\ TypeOK /\ TypeOK'
  BY DEF callVars, ChunkInv
<1>2. Overlay(kvIn)' = Overlay(kvIn)
  BY SameCall
<1>3. CallRecord' = CallRecord
  BY <1>1 DEF CallRecord
<1>4. kvOut' = Overlay(kvIn)
  BY <1>2 DEF ChunkInv, WhenDone
<1>5. kvOut' = Call!StoreChunk(kvIn, CallRecord.window, CallRecord.last, CallRecord.start)
  BY <1>1, <1>4, OverlayIsStore
<1>6. start \in Nat /\ valid \in Nat
  BY <1>1, CallNumbers
<1>7. AttentionSeesPrefix'
  BY SeesPrefix, PTL
<1>8. ASSUME NEW q \in 0..(valid - 1)
      PROVE  {<<x[2], x[3]>> : x \in {y \in seen' : y[1] = q}}
               = Call!Keyed(Call!Attended(kvOut', q, start))
  <2>1. {<<x[2], x[3]>> : x \in {y \in seen' : y[1] = q}}
          = {<<k, Overlay(kvIn)[k]>> : k \in 0..(start + q)}
    BY <1>1, <1>2, <1>7 DEF AttentionSeesPrefix
  <2>2. q \in Nat
    BY <1>6
  <2>3. Call!Keyed(Call!Attended(kvOut', q, start)) = {<<k, kvOut'[k]>> : k \in 0..(start + q)}
    BY <1>6, <2>2, KeyedPrefix
  <2> QED
    BY <1>4, <2>1, <2>3
<1>9. CallAnswer' = [q \in 0..(valid - 1) |-> Call!Keyed(Call!Attended(kvOut', q, start))]
  BY <1>1, <1>8 DEF CallAnswer
<1>10. CallRecord.last = valid - 1 /\ CallRecord.start = start
  BY DEF CallRecord
<1>11. CallPlane = kvIn /\ CallPlane' = kvOut'
  BY DEF CallPlane
<1>12. CallPlane' = Call!StoreChunk(CallPlane, CallRecord.window, CallRecord.last, CallRecord.start)
  BY <1>5, <1>11
<1>13. CallAnswer' = [q \in 0..CallRecord.last |->
                       Call!Keyed(Call!Attended(CallPlane', q, CallRecord.start))]
  BY <1>9, <1>10, <1>11
<1> QED
  BY <1>3, <1>12, <1>13 DEF Call!Return, CallPlane, CallRecord, CallAnswer

\* While a call is under way its caller sees nothing move.
LEMMA UnderWayRefines ==
  ASSUME UNCHANGED <<kvIn, callVars>>, phase # "idle", phase' # "idle"
  PROVE  UNCHANGED Call!vars
BY DEF Call!vars, callVars

\* A chunk function of the emitted program does what ChunkCall says of it, for
\* every geometry: the page-wise store, the clamped writes, the order of store,
\* attention and pack and the choice of the attention are not visible outside.
THEOREM ChunkImplementsCall == Spec => ImplementsChunkCall
<1>1. Init => Call!Init
  <2> SUFFICES ASSUME Init PROVE Call!Init
    OBVIOUS
  <2>1. TypeOK
    BY InitChunk DEF ChunkInv
  <2>2. Call!IsCall(CallRecord)
    BY <2>1, CallIsAdmitted
  <2>3. phase = "idle" /\ seen = {} /\ kvOut \in [Positions -> Rows]
    BY <2>1 DEF Init, TypeOK, Plane
  <2> QED
    BY <2>2, <2>3 DEF Call!Init, CallRecord
<1>2. ChunkInv /\ ChunkInv' /\ [Next]_vars => [Call!Next]_(Call!vars)
  <2> SUFFICES ASSUME ChunkInv, ChunkInv', [Next]_vars PROVE [Call!Next]_(Call!vars)
    OBVIOUS
  <2>1. CASE Invoke
    <3>1. Call!IsCall(CallRecord)'
      BY CallIsAdmitted, PTL DEF ChunkInv
    <3>2. phase = "idle" /\ phase' = "store" /\ kvIn' = kvOut
      BY <2>1 DEF Invoke
    <3>3. Call!Begin
      BY <3>1, <3>2 DEF Call!Begin, CallRecord
    <3> QED
      BY <3>3 DEF Call!Next
  <2>2. CASE StorePage
    <3>1. phase = "store" /\ phase' \in {"store", "pack", "attend"} /\ UNCHANGED <<kvIn, callVars>>
      BY <2>2 DEF StorePage
    <3> QED
      BY <3>1, UnderWayRefines
  <2>3. CASE PackPage
    <3>1. phase = "pack" /\ UNCHANGED <<kvIn, callVars>> /\ flash' = flash /\ seen' = seen
      BY <2>3 DEF PackPage, callVars
    <3>2. phase' \in {"pack", "attend"} \/ (phase' = "idle" /\ ~flash)
      BY <2>3 DEF PackPage
    <3>3. CASE phase' = "idle" /\ ~flash
      <4>1. seen' # {}
        BY <3>1, <3>3, SomethingIsSeen DEF ChunkInv, WhilePacking
      <4> QED
        BY <3>1, <3>3, <4>1, ReturnRefines DEF Call!Next
    <3> QED
      BY <3>1, <3>2, <3>3, UnderWayRefines
  <2>4. CASE AttendPacked
    <3>1. /\ phase = "attend" /\ flash /\ phase' = "idle" /\ UNCHANGED <<kvIn, callVars>>
          /\ seen' = {x \in Queries \X Positions \X Rows :
                        Visible(x[1], x[2]) /\ x[3] = kvOut[x[2]]}
      BY <2>4 DEF AttendPacked
    <3>2. seen' = AllSeen
      BY <3>1 DEF ChunkInv, BeforeFlash, AllSeen
    <3>3. seen' # {}
      BY <3>2, SomethingIsSeen DEF ChunkInv
    <3> QED
      BY <3>1, <3>3, ReturnRefines DEF Call!Next
  <2>5. CASE AttendPage
    <3>1. phase = "attend" /\ phase' \in {"attend", "pack"} /\ UNCHANGED <<kvIn, callVars>>
      BY <2>5 DEF AttendPage
    <3> QED
      BY <3>1, UnderWayRefines
  <2>6. CASE UNCHANGED vars
    BY <2>6 DEF vars, Call!vars
  <2> QED
    BY <2>1, <2>2, <2>3, <2>4, <2>5, <2>6 DEF Next
<1> QED
  BY <1>1, <1>2, ChunkInvariant, PTL DEF Spec, ImplementsChunkCall, Call!Spec
=============================================================================
