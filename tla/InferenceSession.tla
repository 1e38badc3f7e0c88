-------------------------- MODULE InferenceSession --------------------------
(***************************************************************************)
(* What a ModelSession promises its caller, with no pages, chunks, windows *)
(* or device: the session holds a context; a prefill replaces it by the    *)
(* caller's prompt, a decode extends it by the caller's token, a reset     *)
(* empties it, and every successful answer is computed from the whole of   *)
(* it. Only a prefill or a reset that fails may damage the context, and    *)
(* then until the next of them that succeeds; a decode that fails may be   *)
(* repeated.                                                               *)
(***************************************************************************)
EXTENDS Naturals, Sequences

CONSTANTS
  Tokens,     \* the tokens a caller passes
  Prompts,    \* the prompts a caller passes
  Contents    \* what a position of the context may hold, damaged or not

VARIABLES
  said,     \* the sequence as the caller passed it: a prompt, then the tokens decoded
  ctx,      \* the context the next decode continues
  busy,     \* whether the prefill of `said` is under way
  answer    \* the last call, whether it succeeded, and the context it answered from

absVars == <<said, ctx, busy, answer>>

\* A failed prefill or reset may leave anything where the context was.
Damaged == [1..Len(ctx) -> Contents]

Refusal(call) == [call |-> call, ok |-> FALSE, seen |-> <<>>]
Success(call, rows) == [call |-> call, ok |-> TRUE, seen |-> rows]

Init ==
  /\ said = <<>> /\ ctx = <<>> /\ busy = FALSE
  /\ answer = Refusal("none")

\* A call refuses its arguments, or a decode fails: nothing changes and the call
\* may be repeated.
Refuse ==
  /\ ~busy
  /\ \E call \in {"prefill", "decode"} : answer' = Refusal(call)
  /\ UNCHANGED <<said, ctx, busy>>

\* A prefill of one step.
Prefill ==
  /\ ~busy
  /\ said' \in Prompts /\ ctx' = said'
  /\ answer' = Success("prefill", ctx')
  /\ UNCHANGED busy

\* A prefill of several steps, during which the context is nobody's.
BeginPrefill ==
  /\ ~busy /\ busy' = TRUE
  /\ said' \in Prompts /\ ctx' \in Damaged
  /\ UNCHANGED answer

ProceedPrefill ==
  /\ busy /\ ctx' \in Damaged
  /\ UNCHANGED <<said, busy, answer>>

FinishPrefill ==
  /\ busy /\ busy' = FALSE
  /\ ctx' = said
  /\ answer' = Success("prefill", ctx')
  /\ UNCHANGED said

FailPrefill ==
  /\ IF busy THEN UNCHANGED said ELSE said' \in Prompts
  /\ busy' = FALSE
  /\ ctx' \in Damaged
  /\ answer' = Refusal("prefill")

\* A decode that succeeds: the context and the caller's sequence grow by the
\* same token, and the answer continues the context.
Decode ==
  /\ ~busy
  /\ \E t \in Tokens : said' = Append(said, t) /\ ctx' = Append(ctx, t)
  /\ answer' = Success("decode", ctx')
  /\ UNCHANGED busy

Reset ==
  /\ ~busy
  /\ said' = <<>> /\ ctx' = <<>>
  /\ answer' = Success("reset", <<>>)
  /\ UNCHANGED busy

FailReset ==
  /\ ~busy
  /\ ctx' \in Damaged
  /\ answer' = Refusal("reset")
  /\ UNCHANGED <<said, busy>>

Next ==
  \/ Refuse \/ Decode
  \/ Prefill \/ BeginPrefill \/ ProceedPrefill \/ FinishPrefill \/ FailPrefill
  \/ Reset \/ FailReset

Spec == Init /\ [][Next]_absVars
=============================================================================
