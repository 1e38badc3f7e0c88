------------------------------ MODULE ChunkCall ------------------------------
(***************************************************************************)
(* A chunk function of a paged program as its caller sees it: the call is  *)
(* accepted, and in one step it leaves the planes with its real rows and   *)
(* answers every real query. There are no pages, no clamped writes, no     *)
(* imported and tied planes and no two forms of the attention here.        *)
(***************************************************************************)
EXTENDS ChunkOps

CONSTANTS
  Rows,         \* contents of a row
  ChunkSize,    \* width of the chunk of prefill_chunk
  MaxKv,        \* compiled sequence capacity
  Positions     \* positions of the plane

VARIABLES
  plane,        \* the plane the caller holds
  busy,         \* a call is under way
  call,         \* [window, last, start] of the last call
  answer        \* per real query of the call that returned, what it saw

vars == <<plane, busy, call, answer>>

\* A call the program takes.
IsCall(c) ==
  \E n \in {1, ChunkSize} :
    /\ c \in [window : [1..n -> Rows], last : 0..(n - 1), start : 0..(MaxKv - 1)]
    /\ Admitted(c.window, c.last, c.start, ChunkSize, MaxKv)

\* Rows with the positions they were seen at.
Keyed(rows) == {<<i - 1, rows[i]>> : i \in DOMAIN rows}

Init ==
  /\ plane \in [Positions -> Rows]
  /\ ~busy /\ IsCall(call) /\ answer = <<>>

Begin ==
  /\ ~busy /\ busy'
  /\ IsCall(call')
  /\ answer' = <<>>
  /\ UNCHANGED plane

Return ==
  /\ busy /\ ~busy'
  /\ plane' = StoreChunk(plane, call.window, call.last, call.start)
  /\ answer' = [q \in 0..call.last |-> Keyed(Attended(plane', q, call.start))]
  /\ UNCHANGED call

Next == Begin \/ Return

Spec == Init /\ [][Next]_vars
=============================================================================
