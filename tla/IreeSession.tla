---------------------------- MODULE IreeSession ----------------------------
(***************************************************************************)
(* One IreeSession: prefill, decode and reset over the KV cache and the    *)
(* rolling short-convolution state of a compiled program, with the device  *)
(* failing where the code checks a status. prefill_argmax and              *)
(* decode_argmax run the same control and are the same actions.            *)
(*                                                                         *)
(* A row of the cache (and of the convolution state) stands for the token  *)
(* whose activations it holds: Pad for a padding token, Zero for a row     *)
(* nobody wrote. One attention layer and one short-convolution layer stand *)
(* for all of them. An answer is the rows it was computed from.            *)
(***************************************************************************)
EXTENDS ChunkOps

CONSTANTS
  Tokens,        \* token ids a caller passes
  Pad, Zero,     \* the padding token's row, and a row of zeros
  Idle,          \* no prefill under way
  Prompts,       \* the prompts callers pass to prefill
  Paged,         \* KvCacheStorage::Paged, else StaticGlobals
  PageSize,      \* rows of a page
  Window,        \* prefill_window, equal to the chunk size when paged
  MaxKv,         \* kv.max_sequence_length: the compiled capacity
  ConfigMax,     \* config.max_sequence_length of the session
  BatchSize,     \* config.batch_size
  ConvKernel,    \* width of the short convolution, 0 when there is none
  DeviceFaults   \* whether device operations may fail

ASSUME SessionAssumption ==
  /\ Prompts \subseteq Seq(Tokens)
  /\ {Pad, Zero} \cap Tokens = {} /\ Pad # Zero
  /\ Idle \notin Nat /\ Idle \notin Seq(Tokens)
  /\ Paged \in BOOLEAN /\ DeviceFaults \in BOOLEAN
  /\ PageSize \in Nat \ {0} /\ Window \in Nat \ {0}
  /\ MaxKv \in Nat \ {0} /\ MaxKv >= Window
  /\ ConfigMax \in Nat /\ BatchSize \in Nat /\ ConvKernel \in Nat

Rows == Tokens \cup {Pad, Zero}

AtMost(a, b) == IF a < b THEN a ELSE b
AtLeast(a, b) == IF a < b THEN b ELSE a
CeilDiv(a, b) == (a + b - 1) \div b

\* max_seq: the session's limit and the compiled capacity.
MaxSeq == AtMost(AtLeast(ConfigMax, 1), MaxKv)

\* The program's plane has NumPages pages; the session asks for MaxPages.
NumPages == CeilDiv(MaxKv, PageSize)
MaxPages == AtLeast(CeilDiv(MaxSeq, PageSize), 1)
KvLen == IF Paged THEN NumPages * PageSize ELSE MaxKv

Positions == 0..(KvLen - 1)
ZeroPlane == [k \in Positions |-> Zero]
ZeroConv == [i \in 1..ConvKernel |-> Zero]

VARIABLES
  position,  \* self.position, the row the next decode writes
  history,   \* self.history
  pages,     \* kv_page_count, 0 while no planes are allocated
  kv,        \* the packed planes (zero while unallocated), or the KV globals
  conv,      \* conv_state
  next,      \* chunk of the prefill under way, or Idle
  out        \* the last call and its answer: the rows attended to and convolved

deviceVars == <<pages, kv, conv>>
vars == <<position, history, pages, kv, conv, next, out>>

----------------------------------------------------------------------------
(* The compiled program *)

\* window_from_tokens on chunk i of the prompt: left-aligned, padded on the
\* right.
WindowOf(tokens, i) ==
  [j \in 1..Window |->
    IF i * Window + j <= Len(tokens) THEN tokens[i * Window + j] ELSE Pad]

\* Mutant: the whole window counts as real.
LastOfWindow(tokens, i) == Window - 1

\* The index of the last real token of chunk i.
LastOf(tokens, i) == AtMost(Window, Len(tokens) - i * Window) - 1

\* Mutant: the first chunk continues from whatever the last call left.
ConvEntryKept(start) == conv

\* chunk_begin: the state is cleared when start_pos is 0.
ConvEntry(start) == IF start = 0 THEN ZeroConv ELSE conv

\* Mutant: the oldest row of the state is not dropped.
ConvPaddedWhole(state, window) == state \o window

\* conv_op: the rows the last real query convolves, and the state it leaves,
\* the trailing rows of the whole window.
ConvPadded(state, window) == Tail(state) \o window
Convolved(state, window, last) ==
  IF ConvKernel = 0 THEN <<>>
  ELSE SubSeq(ConvPadded(state, window), last + 1, last + ConvKernel)
ConvLeft(state, window) ==
  IF ConvKernel = 0 THEN <<>>
  ELSE SubSeq(ConvPadded(state, window), Len(window), Len(window) + ConvKernel - 1)

\* The planes handed to the program must have the compiled shape.
ProgramAccepts(n) == n # 0 /\ n = NumPages

----------------------------------------------------------------------------
Failed(call) == [call |-> call, ok |-> FALSE, seen |-> <<>>, conv |-> <<>>]
Answer(call, rows, convolved) ==
  [call |-> call, ok |-> TRUE, seen |-> rows, conv |-> convolved]

Init ==
  /\ position = 0 /\ history = <<>>
  /\ pages = 0 /\ kv = ZeroPlane /\ conv = ZeroConv
  /\ next = Idle /\ out = Failed("none")

\* The planes are released: nothing is left of them.
Release == pages' = 0 /\ kv' = ZeroPlane

\* ensure_kv_pages allocates only when there are fewer pages than asked for.
EnsuredPages == AtLeast(pages, MaxPages)

\* A chunk invocation that fails may have stored some of its rows and have
\* moved the convolution state or not.
ChunkFails(plane, window, last, start) ==
  /\ \E done \in SUBSET (start..(start + last)) :
       kv' = [k \in Positions |->
                IF k \in done THEN window[k - start + 1] ELSE plane[k]]
  /\ conv' \in {conv, ConvEntry(start), ConvLeft(ConvEntry(start), window)}

----------------------------------------------------------------------------
(* prefill and prefill_argmax *)

Admissible(tokens) ==
  /\ BatchSize = 1
  /\ tokens # <<>>
  /\ ~Paged => Len(tokens) <= Window
  /\ Len(tokens) <= MaxSeq

PrefillRefused(tokens) ==
  /\ next = Idle /\ ~Admissible(tokens)
  /\ out' = Failed("prefill")
  /\ UNCHANGED <<position, history, deviceVars, next>>

\* The prompt is recorded, reset_paged_kv zeroes the planes, ensure_kv_pages
\* allocates them when they are missing. A failure of either releases them.
PrefillBegin(tokens) ==
  /\ Paged /\ next = Idle /\ Admissible(tokens)
  /\ history' = tokens
  /\ \/ /\ pages' = EnsuredPages /\ kv' = ZeroPlane
        /\ next' = 0 /\ UNCHANGED out
     \/ /\ DeviceFaults
        /\ Release /\ out' = Failed("prefill") /\ UNCHANGED next
  /\ UNCHANGED <<position, conv>>

\* One invoke_paged_chunk of the loop over the prompt; after the last one the
\* logits are checked and the position is set.
PrefillChunk ==
  /\ next # Idle
  /\ LET window == WindowOf(history, next)
         last == LastOf(history, next)
         start == next * Window
         entry == ConvEntry(start)
         plane == StoreChunk(kv, window, last, start)
     IN \/ /\ ProgramAccepts(pages)
           /\ kv' = plane /\ conv' = ConvLeft(entry, window)
           /\ IF start + last + 1 < Len(history)
                THEN next' = next + 1 /\ UNCHANGED <<position, out>>
                ELSE /\ next' = Idle /\ position' = Len(history)
                     /\ out' = Answer("prefill", Attended(plane, last, start),
                                      Convolved(entry, window, last))
        \/ /\ ProgramAccepts(pages) /\ DeviceFaults
           /\ ChunkFails(kv, window, last, start)
           /\ next' = Idle /\ out' = Failed("prefill") /\ UNCHANGED position
        \/ /\ ~ProgramAccepts(pages)
           /\ next' = Idle /\ out' = Failed("prefill")
           /\ UNCHANGED <<position, kv, conv>>
  /\ UNCHANGED <<history, pages>>

\* The KV globals a static prefill stores: the whole window, its padding
\* included, and zeros behind it.
PrefillGlobals(window) ==
  [k \in Positions |-> IF k < Window THEN window[k + 1] ELSE Zero]

\* StaticGlobals: one invocation rewrites the whole cache and starts the
\* convolution afresh.
PrefillStatic(tokens) ==
  /\ ~Paged /\ next = Idle /\ Admissible(tokens)
  /\ history' = tokens
  /\ LET window == WindowOf(tokens, 0)
         last == LastOf(tokens, 0)
         plane == PrefillGlobals(window)
     IN \/ /\ kv' = plane /\ conv' = ConvLeft(ZeroConv, window)
           /\ position' = Len(tokens)
           /\ out' = Answer("prefill", Attended(plane, last, 0),
                            Convolved(ZeroConv, window, last))
        \/ /\ DeviceFaults
           /\ kv' \in {kv, plane}
           /\ conv' \in {conv, ZeroConv, ConvLeft(ZeroConv, window)}
           /\ out' = Failed("prefill") /\ UNCHANGED position
  /\ UNCHANGED <<pages, next>>

----------------------------------------------------------------------------
(* decode and decode_argmax *)

\* Mutant: one row past the limit.
MayDecodeOnceMore == BatchSize = 1 /\ position <= MaxSeq

MayDecode == BatchSize = 1 /\ position < MaxSeq

DecodeRefused ==
  /\ next = Idle /\ ~MayDecode
  /\ out' = Failed("decode")
  /\ UNCHANGED <<position, history, deviceVars, next>>

\* Mutant: a step that fails releases the planes, as a prefill that fails does.
DecodePagedReleases(t) ==
  /\ Paged /\ next = Idle /\ MayDecode
  /\ \/ /\ pages' = EnsuredPages /\ ProgramAccepts(pages')
        /\ kv' = StoreChunk(kv, <<t>>, 0, position)
        /\ conv' = ConvLeft(ConvEntry(position), <<t>>)
        /\ out' = Answer("decode", Attended(kv', 0, position),
                         Convolved(ConvEntry(position), <<t>>, 0))
        /\ history' = Append(history, t) /\ position' = position + 1
     \/ /\ DeviceFaults
        /\ Release /\ out' = Failed("decode")
        /\ UNCHANGED <<position, history, conv>>
  /\ UNCHANGED next

\* ensure_kv_pages, then a chunk of one token at `position`.
DecodePaged(t) ==
  /\ Paged /\ next = Idle /\ MayDecode
  /\ \/ /\ pages' = EnsuredPages /\ ProgramAccepts(pages')
        /\ kv' = StoreChunk(kv, <<t>>, 0, position)
        /\ conv' = ConvLeft(ConvEntry(position), <<t>>)
        /\ out' = Answer("decode", Attended(kv', 0, position),
                         Convolved(ConvEntry(position), <<t>>, 0))
        /\ history' = Append(history, t) /\ position' = position + 1
     \/ /\ pages' = EnsuredPages /\ ProgramAccepts(pages')
        /\ DeviceFaults
        /\ ChunkFails(kv, <<t>>, 0, position) /\ out' = Failed("decode")
        /\ UNCHANGED <<position, history>>
     \/ /\ pages' = EnsuredPages /\ ~ProgramAccepts(pages')
        /\ out' = Failed("decode")
        /\ UNCHANGED <<position, history, kv, conv>>
     \/ /\ DeviceFaults /\ pages < MaxPages
        /\ Release /\ out' = Failed("decode")
        /\ UNCHANGED <<position, history, conv>>
  /\ UNCHANGED next

\* Mutant: the row written is the last one of the sequence, not the next.
DecodeStaticOverLast(t) ==
  /\ ~Paged /\ next = Idle /\ MayDecode
  /\ LET plane == StoreChunk(kv, <<t>>, 0, AtLeast(position, 1) - 1)
     IN \/ /\ kv' = plane /\ conv' = ConvLeft(conv, <<t>>)
           /\ out' = Answer("decode", Attended(plane, 0, position), Convolved(conv, <<t>>, 0))
           /\ history' = Append(history, t) /\ position' = position + 1
        \/ /\ DeviceFaults
           /\ kv' \in {kv, plane} /\ conv' \in {conv, ConvLeft(conv, <<t>>)}
           /\ out' = Failed("decode")
           /\ UNCHANGED <<position, history>>
  /\ UNCHANGED <<pages, next>>

\* StaticGlobals: the row at `position` is rewritten, the bias shows the rows
\* up to it, the convolution state rolls on.
DecodeStatic(t) ==
  /\ ~Paged /\ next = Idle /\ MayDecode
  /\ LET plane == StoreChunk(kv, <<t>>, 0, position)
     IN \/ /\ kv' = plane /\ conv' = ConvLeft(conv, <<t>>)
           /\ out' = Answer("decode", Attended(plane, 0, position), Convolved(conv, <<t>>, 0))
           /\ history' = Append(history, t) /\ position' = position + 1
        \/ /\ DeviceFaults
           /\ kv' \in {kv, plane} /\ conv' \in {conv, ConvLeft(conv, <<t>>)}
           /\ out' = Failed("decode")
           /\ UNCHANGED <<position, history>>
  /\ UNCHANGED <<pages, next>>

----------------------------------------------------------------------------
(* reset *)

\* The planes are zeroed in place; a failure releases them and returns before
\* the position is cleared. The KV globals and conv_state are not touched.
Reset ==
  /\ next = Idle
  /\ \/ /\ kv' = IF Paged THEN ZeroPlane ELSE kv
        /\ position' = 0 /\ history' = <<>>
        /\ out' = Answer("reset", <<>>, <<>>)
        /\ UNCHANGED pages
     \/ /\ Paged /\ DeviceFaults /\ pages # 0
        /\ Release /\ out' = Failed("reset")
        /\ UNCHANGED <<position, history>>
  /\ UNCHANGED <<conv, next>>

----------------------------------------------------------------------------
Next ==
  \/ \E tokens \in Prompts :
       PrefillRefused(tokens) \/ PrefillBegin(tokens) \/ PrefillStatic(tokens)
  \/ PrefillChunk
  \/ \E t \in Tokens : DecodePaged(t) \/ DecodeStatic(t)
  \/ DecodeRefused
  \/ Reset

Spec == Init /\ [][Next]_vars

----------------------------------------------------------------------------
(* Properties *)

\* The rows the next decode would continue.
Context == [i \in 1..position |-> kv[i - 1]]

\* The last ConvKernel rows of a sequence that zeros precede.
Trailing(rows) == SubSeq(ZeroConv \o rows, Len(rows) + 1, Len(rows) + ConvKernel)

\* Type invariant of the session; the position never passes the limit.
TypeOK ==
  /\ position \in 0..MaxSeq
  /\ history \in Seq(Tokens)
  /\ pages \in {0, MaxPages}
  /\ kv \in [Positions -> Rows]
  /\ conv \in Seq(Rows) /\ Len(conv) = ConvKernel
  /\ next = Idle \/ (next \in Nat /\ next * Window < Len(history))
  /\ out.ok \in BOOLEAN

\* A prefill that succeeds has attended to its whole prompt and to nothing
\* else, whatever sequence, failure or reset came before it.
PrefillSeesPrompt ==
  next = Idle /\ out.call = "prefill" /\ out.ok => out.seen = history

\* Once planes are allocated they have the capacity the program was compiled
\* for ("capacity is ceil(max_kv / page_size)").
PoolMatchesProgram == pages # 0 => pages = NumPages

\* Every chunk the session hands to the paged program, in the loop of a prefill
\* and as a decode, is one the wrapper takes and whose real rows lie inside the
\* compiled capacity, which nothing below the session checks, whatever failures,
\* resets and limits came before. Of such calls PagedChunk shows what StoreChunk
\* and Attended say.
CallsAreAdmitted ==
  /\ next # Idle =>
       Admitted(WindowOf(history, next), LastOf(history, next), next * Window, Window, MaxKv)
  /\ next = Idle /\ MayDecode =>
       \A t \in Tokens : Admitted(<<t>>, 0, position, Window, MaxKv)

\* The convolution of a successful prefill ran over the last rows of its
\* prompt, across chunk boundaries and without a row of an earlier sequence.
ConvSeesPrompt ==
  next = Idle /\ out.call = "prefill" /\ out.ok => out.conv = Trailing(history)

\* conv_state is "the trailing K activations" of the sequence an answer was
\* computed from, so that the next decode continues from them.
ConvIsTrailing ==
  next = Idle /\ out.call \in {"prefill", "decode"} /\ out.ok
    => conv = Trailing(out.seen)

\* What does hold of conv_state, with failing devices too: a prefill whose
\* prompt fills its last window leaves the trailing rows of the prompt, and a
\* decode that continues an answer with such a state leaves those of the longer
\* sequence. Chunks, decodes and the reset at start_pos 0 lose and repeat no row.
ConvContinues ==
  [][/\ next' = Idle /\ out'.ok
     /\ \/ out'.call = "prefill" /\ Len(history') % Window = 0
        \/ /\ out'.call = "decode" /\ out.call \in {"prefill", "decode"}
           /\ out.ok /\ conv = Trailing(out.seen)
     => conv' = Trailing(out'.seen)]_vars

\* The session implements the contract of InferenceSession.
Contract == INSTANCE InferenceSession WITH
  Contents <- Rows,
  said <- history,
  ctx <- Context,
  busy <- next # Idle,
  answer <- [call |-> out.call, ok |-> out.ok, seen |-> out.seen]

\* Every step of the session is one the contract allows. A prefill that succeeds
\* leaves exactly the caller's prompt as the context, a decode that succeeds
\* extends the context by the caller's token, and both answer from all of it; a
\* decode that fails, whatever the device stored of it, leaves the context as it
\* was; only a prefill or a reset that fails may damage what the context holds.
MeetsContract == Contract!Spec
=============================================================================
