------------------------------ MODULE ChunkOps ------------------------------
(* What one call of a compiled program's attention does to the KV planes and *)
(* what its queries see, as the session (IreeSession) counts on it and the   *)
(* paged program (PagedChunk) is shown to do it. A plane is a function from  *)
(* positions to rows, a window the sequence of the call's rows, last the     *)
(* index of its last real token, start its start_pos.                        *)
EXTENDS Integers, Sequences

\* The rows a chunk stores: those of its real tokens, from start_pos on.
StoreChunk(plane, window, last, start) ==
  [k \in DOMAIN plane |->
    IF start <= k /\ k <= start + last THEN window[k - start + 1] ELSE plane[k]]

\* Mutant: a query does not see its own row.
AttendedShort(plane, last, start) == [i \in 1..(start + last) |-> plane[i - 1]]

\* The rows the query of token `last` attends to.
Attended(plane, last, start) == [i \in 1..(start + last + 1) |-> plane[i - 1]]

\* The calls the wrapper takes: decode_chunk with one token, prefill_chunk with a
\* whole chunk. It does not check the last conjunct, that the real rows lie
\* inside the capacity: the program relies on the session for it.
Admitted(window, last, start, chunkSize, capacity) ==
  /\ Len(window) \in {1, chunkSize}
  /\ start \in Nat /\ last \in 0..(Len(window) - 1)
  /\ start + last < capacity
=============================================================================
