----------------------- MODULE IreeSessionConvProofs -----------------------
(* Theorems about the short-convolution state of IreeSession, for every       *)
(* kernel width, window, storage and failing device.                          *)
EXTENDS IreeSessionProofs

----------------------------------------------------------------------------
(* What conv_op computes *)

\* The k rows after the first n of a sequence, one by one.
LEMMA RowsAfter ==
  ASSUME NEW s, NEW n \in Nat, NEW k \in Nat, \A j \in (n + 1)..(n + k) : s[j] \in Rows
  PROVE  /\ SubSeq(s, n + 1, n + k) \in Seq(Rows)
         /\ Len(SubSeq(s, n + 1, n + k)) = k
         /\ \A i \in 1..k : SubSeq(s, n + 1, n + k)[i] = s[n + i]
<1> DEFINE a == n + 1
           b == n + k
<1>1. a \in Int /\ b \in Int /\ \A j \in a..b : s[j] \in Rows
  OBVIOUS
<1>2. a <= b => b - a + 1 = k
  OBVIOUS
<1>3. ~(a <= b) => k = 0
  OBVIOUS
<1>4. \A i \in 1..k : i \in 1..(b - a + 1) /\ a + i - 1 = n + i
  OBVIOUS
<1> HIDE DEF a, b
<1>5. /\ SubSeq(s, a, b) \in Seq(Rows)
      /\ Len(SubSeq(s, a, b)) = IF a <= b THEN b - a + 1 ELSE 0
      /\ \A i \in 1..(b - a + 1) : SubSeq(s, a, b)[i] = s[a + i - 1]
  BY <1>1, SubSeqProperties
<1>6. /\ SubSeq(s, a, b) \in Seq(Rows) /\ Len(SubSeq(s, a, b)) = k
      /\ \A i \in 1..k : SubSeq(s, a, b)[i] = s[n + i]
  BY <1>2, <1>3, <1>4, <1>5
<1> QED
  BY <1>6 DEF a, b

\* The trailing rows of a sequence, one by one.
LEMMA TrailingRows ==
  ASSUME NEW rows \in Seq(Rows)
  PROVE  /\ Trailing(rows) \in Seq(Rows) /\ Len(Trailing(rows)) = ConvKernel
         /\ \A i \in 1..ConvKernel :
              Trailing(rows)[i] = IF Len(rows) + i <= ConvKernel THEN Zero
                                  ELSE rows[Len(rows) + i - ConvKernel]
<1> USE SessionAssumption
<1> DEFINE n == Len(rows)
           p == ZeroConv \o rows
<1>1. n \in Nat /\ ConvKernel \in Nat
  BY LenProperties
<1>2. ZeroConv \in Seq(Rows) /\ Len(ZeroConv) = ConvKernel
  BY ZeroConvType
<1>3. /\ p \in Seq(Rows) /\ Len(p) = ConvKernel + n
      /\ \A i \in 1..(ConvKernel + n) :
           p[i] = IF i <= ConvKernel THEN ZeroConv[i] ELSE rows[i - ConvKernel]
  BY <1>2, ConcatProperties
<1>4. Trailing(rows) = SubSeq(p, n + 1, n + ConvKernel)
  BY DEF Trailing
<1> HIDE DEF n, p
<1>5. \A j \in (n + 1)..(n + ConvKernel) : p[j] \in Rows
  BY <1>1, <1>3, ElementOfSeq
<1>6. /\ Trailing(rows) \in Seq(Rows) /\ Len(Trailing(rows)) = ConvKernel
      /\ \A i \in 1..ConvKernel : Trailing(rows)[i] = p[n + i]
  BY <1>1, <1>4, <1>5, RowsAfter
<1>7. ASSUME NEW i \in 1..ConvKernel
      PROVE  Trailing(rows)[i] = IF n + i <= ConvKernel THEN Zero ELSE rows[n + i - ConvKernel]
  <2>1. n + i \in 1..(ConvKernel + n)
    BY <1>1
  <2>2. Trailing(rows)[i] = p[n + i]
    BY <1>6
  <2>3. n + i <= ConvKernel => ZeroConv[n + i] = Zero
    BY <1>1 DEF ZeroConv
  <2>4. p[n + i] = IF n + i <= ConvKernel THEN ZeroConv[n + i] ELSE rows[n + i - ConvKernel]
    BY <1>1, <1>3, <2>1
  <2> QED
    BY <1>1, <2>2, <2>3, <2>4
<1> QED
  BY <1>6, <1>7 DEF n

\* What a query of a chunk convolves, one by one: the state without its oldest
\* row, then the rows of the chunk.
LEMMA ConvolvedRows ==
  ASSUME NEW state \in Seq(Rows), Len(state) = ConvKernel, ConvKernel # 0,
         NEW window \in Seq(Rows), NEW last \in 0..(Len(window) - 1)
  PROVE  /\ Convolved(state, window, last) \in Seq(Rows)
         /\ Len(Convolved(state, window, last)) = ConvKernel
         /\ \A i \in 1..ConvKernel :
              Convolved(state, window, last)[i] =
                IF last + i <= ConvKernel - 1 THEN state[last + i + 1]
                ELSE window[last + i - ConvKernel + 1]
<1> USE SessionAssumption
<1> DEFINE p == ConvPadded(state, window)
           n == Len(window)
<1>1. n \in Nat /\ ConvKernel \in Nat \ {0} /\ last \in Nat /\ last < n
  BY LenProperties
<1>2. state # <<>>
  BY EmptySeq
<1>3. /\ Tail(state) \in Seq(Rows) /\ Len(Tail(state)) = ConvKernel - 1
      /\ \A i \in 1..(ConvKernel - 1) : Tail(state)[i] = state[i + 1]
  BY <1>2, HeadTailProperties
<1>4. /\ p \in Seq(Rows) /\ Len(p) = ConvKernel - 1 + n
      /\ \A i \in 1..(ConvKernel - 1 + n) :
           p[i] = IF i <= ConvKernel - 1 THEN Tail(state)[i] ELSE window[i - (ConvKernel - 1)]
  <2> DEFINE q == Tail(state)
  <2>1. q \in Seq(Rows) /\ Len(q) = ConvKernel - 1
    BY <1>3
  <2> HIDE DEF q
  <2>2. /\ q \o window \in Seq(Rows) /\ Len(q \o window) = Len(q) + Len(window)
        /\ \A i \in 1..(Len(q) + Len(window)) :
             (q \o window)[i] = IF i <= Len(q) THEN q[i] ELSE window[i - Len(q)]
    BY <2>1, ConcatProperties
  <2>3. p = q \o window
    BY DEF ConvPadded, q
  <2> HIDE DEF p
  <2> QED
    BY <2>1, <2>2, <2>3 DEF q
<1>5. Convolved(state, window, last) = SubSeq(p, last + 1, last + ConvKernel)
  BY DEF Convolved
<1> HIDE DEF p, n
<1>6. \A j \in (last + 1)..(last + ConvKernel) : p[j] \in Rows
  BY <1>1, <1>4, ElementOfSeq
<1>7. /\ Convolved(state, window, last) \in Seq(Rows)
      /\ Len(Convolved(state, window, last)) = ConvKernel
      /\ \A i \in 1..ConvKernel : Convolved(state, window, last)[i] = p[last + i]
  BY <1>1, <1>5, <1>6, RowsAfter
<1>8. ASSUME NEW i \in 1..ConvKernel
      PROVE  Convolved(state, window, last)[i] =
               IF last + i <= ConvKernel - 1 THEN state[last + i + 1]
               ELSE window[last + i - ConvKernel + 1]
  <2>1. /\ last + i \in 1..(ConvKernel - 1 + n)
        /\ last + i - (ConvKernel - 1) = last + i - ConvKernel + 1
    BY <1>1
  <2>2. Convolved(state, window, last)[i] = p[last + i]
    BY <1>7
  <2>3. last + i <= ConvKernel - 1 => Tail(state)[last + i] = state[last + i + 1]
    BY <1>1, <1>3
  <2> QED
    BY <1>4, <2>1, <2>2, <2>3
<1> QED
  BY <1>7, <1>8

\* A longer sequence is rows, continued by the first last + 1 rows of a window.
Continues(longer, rows, window, last) ==
  /\ rows \in Seq(Rows) /\ window \in Seq(Rows) /\ longer \in Seq(Rows)
  /\ last \in 0..(Len(window) - 1) /\ Len(longer) = Len(rows) + last + 1
  /\ \A j \in 1..Len(rows) : longer[j] = rows[j]
  /\ \A j \in 1..(last + 1) : longer[Len(rows) + j] = window[j]

\* From the trailing rows of a sequence, a query convolves the trailing rows of
\* the sequence its chunk continues.
LEMMA ConvolutionContinues ==
  ASSUME NEW rows, NEW window, NEW last, NEW longer, Continues(longer, rows, window, last)
  PROVE  Convolved(Trailing(rows), window, last) = Trailing(longer)
<1> USE SessionAssumption DEF Continues
<1>1. CASE ConvKernel = 0
  <2>1. Len(longer) \in Int /\ Len(longer) + 1 \in Int /\ Len(longer) + ConvKernel \in Int
        /\ Len(longer) + ConvKernel < Len(longer) + 1
    BY <1>1, LenProperties
  <2>2. Trailing(longer) = <<>>
    BY <2>1, SubSeqEmpty DEF Trailing
  <2> QED
    BY <1>1, <2>2 DEF Convolved
<1>2. CASE ConvKernel # 0
  <2> DEFINE state == Trailing(rows)
             c == Convolved(state, window, last)
             t == Trailing(longer)
             m == Len(rows)
  <2>1. m \in Nat /\ Len(window) \in Nat /\ last \in Nat /\ ConvKernel \in Nat \ {0}
    BY <1>2, LenProperties
  <2>2. /\ state \in Seq(Rows) /\ Len(state) = ConvKernel
        /\ \A i \in 1..ConvKernel :
             state[i] = IF m + i <= ConvKernel THEN Zero ELSE rows[m + i - ConvKernel]
    BY TrailingRows
  <2>3. /\ t \in Seq(Rows) /\ Len(t) = ConvKernel
        /\ \A i \in 1..ConvKernel :
             t[i] = IF (m + last + 1) + i <= ConvKernel THEN Zero
                    ELSE longer[(m + last + 1) + i - ConvKernel]
    <3>1. longer \in Seq(Rows) /\ Len(longer) = m + last + 1
      OBVIOUS
    <3>2. /\ t \in Seq(Rows) /\ Len(t) = ConvKernel
          /\ \A i \in 1..ConvKernel :
               t[i] = IF Len(longer) + i <= ConvKernel THEN Zero
                      ELSE longer[Len(longer) + i - ConvKernel]
      BY <3>1, TrailingRows
    <3> HIDE DEF t, m
    <3> QED
      BY <3>1, <3>2
  <2> HIDE DEF state
  <2>4. /\ c \in Seq(Rows) /\ Len(c) = ConvKernel
        /\ \A i \in 1..ConvKernel :
             c[i] = IF last + i <= ConvKernel - 1 THEN state[last + i + 1]
                    ELSE window[last + i - ConvKernel + 1]
    <3>1. window \in Seq(Rows) /\ last \in 0..(Len(window) - 1)
      OBVIOUS
    <3> QED
      BY <1>2, <2>2, <3>1, ConvolvedRows
  <2> HIDE DEF c, t, m
  <2>5. ASSUME NEW i \in 1..ConvKernel PROVE c[i] = t[i]
    <3>1. CASE last + i <= ConvKernel - 1
      <4> DEFINE j == last + i + 1
      <4>1. j \in 1..ConvKernel /\ m + j = (m + last + 1) + i
        BY <2>1, <3>1
      <4>2. c[i] = state[j]
        BY <2>4, <3>1
      <4> HIDE DEF j
      <4>3. state[j] = IF m + j <= ConvKernel THEN Zero ELSE rows[m + j - ConvKernel]
        BY <2>2, <4>1
      <4>4. c[i] = IF (m + last + 1) + i <= ConvKernel THEN Zero
                   ELSE rows[(m + last + 1) + i - ConvKernel]
        BY <2>1, <4>1, <4>2, <4>3
      <4>5. CASE (m + last + 1) + i <= ConvKernel
        BY <2>3, <4>4, <4>5
      <4>6. CASE ~((m + last + 1) + i <= ConvKernel)
        <5>1. (m + last + 1) + i - ConvKernel \in 1..m
          BY <2>1, <3>1, <4>6
        <5>2. longer[(m + last + 1) + i - ConvKernel] = rows[(m + last + 1) + i - ConvKernel]
          BY <5>1 DEF m
        <5> QED
          BY <2>3, <4>4, <4>6, <5>2
      <4> QED
        BY <4>5, <4>6
    <3>2. CASE ~(last + i <= ConvKernel - 1)
      <4>1. /\ last + i - ConvKernel + 1 \in 1..(last + 1)
            /\ m + (last + i - ConvKernel + 1) = (m + last + 1) + i - ConvKernel
            /\ ~((m + last + 1) + i <= ConvKernel)
        BY <2>1, <3>2
      <4>2. longer[m + (last + i - ConvKernel + 1)] = window[last + i - ConvKernel + 1]
        BY <4>1 DEF m
      <4> QED
        BY <2>3, <2>4, <3>2, <4>1, <4>2
    <3> QED
      BY <3>1, <3>2
  <2>6. c = t
    BY <2>3, <2>4, <2>5, SeqEqual
  <2> QED
    BY <2>6 DEF c, t, state
<1> QED
  BY <1>1, <1>2

\* The state a chunk leaves is what its last position convolved.
LEMMA ConvLeftIsConvolved ==
  ASSUME NEW state, NEW window \in Seq(Rows)
  PROVE  ConvLeft(state, window) = Convolved(state, window, Len(window) - 1)
<1>1. Len(window) \in Nat /\ ConvKernel \in Nat
  BY SessionAssumption, LenProperties
<1>2. /\ Len(window) - 1 + 1 = Len(window)
      /\ Len(window) - 1 + ConvKernel = Len(window) + ConvKernel - 1
  BY <1>1
<1> QED
  BY <1>2 DEF ConvLeft, Convolved

\* Nothing but zeros precedes the first row.
LEMMA ZeroIsTrailing == Trailing(<<>>) = ZeroConv
<1> USE SessionAssumption
<1>1. <<>> \in Seq(Rows) /\ Len(<<>>) = 0
  BY EmptySeq
<1>2. ZeroConv \in Seq(Rows) /\ Len(ZeroConv) = ConvKernel
  BY ZeroConvType
<1> DEFINE none == <<>>
<1> HIDE DEF none
<1>3. none \in Seq(Rows) /\ Len(none) = 0
  BY <1>1 DEF none
<1>4. /\ Trailing(none) \in Seq(Rows) /\ Len(Trailing(none)) = ConvKernel
      /\ \A i \in 1..ConvKernel :
           Trailing(none)[i] = IF Len(none) + i <= ConvKernel THEN Zero
                               ELSE none[Len(none) + i - ConvKernel]
  BY <1>3, TrailingRows
<1>5. /\ Trailing(none) \in Seq(Rows) /\ Len(Trailing(none)) = ConvKernel
      /\ \A i \in 1..ConvKernel : Trailing(none)[i] = Zero
  BY <1>3, <1>4
<1>6. \A i \in 1..ConvKernel : Trailing(none)[i] = ZeroConv[i]
  BY <1>5 DEF ZeroConv
<1>7. Trailing(none) = ZeroConv
  BY <1>2, <1>5, <1>6, SeqEqual
<1> QED
  BY <1>7 DEF none

----------------------------------------------------------------------------
(* The inductive invariant *)

\* The first n tokens of the prompt.
PromptHead(n) == [i \in 1..n |-> history[i]]

\* The next chunk of a prefill enters with the trailing rows of the chunks before.
ConvProgress ==
  next # Idle => ConvEntry(next * Window) = Trailing(PromptHead(next * Window))

\* An answer was computed from the context a decode would continue.
AnswerIsContext ==
  next = Idle /\ out.call \in {"prefill", "decode"} /\ out.ok => out.seen = Context

ConvInv == ConvProgress /\ ConvSeesPrompt /\ AnswerIsContext

\* The head of a prompt is a sequence of rows; the whole of it is the prompt.
LEMMA HeadType ==
  ASSUME history \in Seq(Tokens)
  PROVE  /\ \A n \in 0..Len(history) :
              /\ PromptHead(n) \in Seq(Rows) /\ Len(PromptHead(n)) = n
              /\ \A i \in 1..n : PromptHead(n)[i] = history[i]
         /\ PromptHead(Len(history)) = history
<1>1. Len(history) \in Nat /\ history = [i \in 1..Len(history) |-> history[i]]
  BY LenProperties
<1>2. ASSUME NEW n \in 0..Len(history)
      PROVE  /\ PromptHead(n) \in Seq(Rows) /\ Len(PromptHead(n)) = n
             /\ \A i \in 1..n : PromptHead(n)[i] = history[i]
  <2>1. n \in Nat /\ \A i \in 1..n : i \in 1..Len(history)
    BY <1>1
  <2>2. \A i \in 1..n : history[i] \in Rows
    BY <2>1, ElementOfSeq DEF Rows
  <2>3. PromptHead(n) \in [1..n -> Rows]
    BY <2>2 DEF PromptHead
  <2> QED
    BY <2>1, <2>3 DEF PromptHead
<1> QED
  BY <1>1, <1>2 DEF PromptHead

\* The last real query of a chunk convolves the trailing rows of the prompt up
\* to it, and a full chunk leaves them behind.
LEMMA ChunkConv ==
  ASSUME SessionInv, ConvProgress, next # Idle,
         NEW window, window = WindowOf(history, next),
         NEW last, last = LastOf(history, next),
         NEW start, start = next * Window
  PROVE  /\ Convolved(ConvEntry(start), window, last) = Trailing(PromptHead(start + last + 1))
         /\ last + 1 = Window =>
              ConvLeft(ConvEntry(start), window) = Trailing(PromptHead(start + last + 1))
         /\ start + last + 1 < Len(history) => last + 1 = Window
         /\ last + 1 \in 1..Window
<1> USE SessionAssumption
<1>1. /\ next \in Nat /\ next * Window < Len(history) /\ history \in Seq(Tokens)
      /\ Len(history) \in Nat /\ Window \in Nat \ {0}
  BY LenProperties DEF SessionInv, TypeOK
<1>2. /\ window \in Seq(Rows) /\ Len(window) = Window
      /\ last \in 0..(Window - 1) /\ start + last < Len(history)
      /\ last + 1 < Window => start + last + 1 = Len(history)
      /\ \A j \in 1..(last + 1) : window[j] = history[start + j]
  BY <1>1, WindowFits
<1>3. start \in Nat /\ last \in Nat /\ start + last + 1 \in 0..Len(history)
      /\ start \in 0..Len(history)
  BY <1>1, <1>2
<1> DEFINE rows == PromptHead(start)
           longer == PromptHead(start + last + 1)
<1>4. /\ rows \in Seq(Rows) /\ Len(rows) = start
      /\ \A i \in 1..start : rows[i] = history[i]
      /\ longer \in Seq(Rows) /\ Len(longer) = start + last + 1
      /\ \A i \in 1..(start + last + 1) : longer[i] = history[i]
  BY <1>1, <1>3, HeadType
<1>5. ConvEntry(start) = Trailing(rows)
  BY DEF ConvProgress
<1> HIDE DEF rows, longer
<1>6. \A j \in 1..start : j \in 1..(start + last + 1)
  BY <1>3
<1>7. \A j \in 1..Len(rows) : longer[j] = rows[j]
  BY <1>4, <1>6
<1>8. ASSUME NEW j \in 1..(last + 1) PROVE longer[Len(rows) + j] = window[j]
  <2>1. start + j \in 1..(start + last + 1)
    BY <1>3
  <2> QED
    BY <1>2, <1>4, <2>1
<1>9. Continues(longer, rows, window, last)
  BY <1>2, <1>4, <1>8, <1>7 DEF Continues
<1>10. Convolved(ConvEntry(start), window, last) = Trailing(longer)
  BY <1>5, <1>9, ConvolutionContinues
<1>11. last + 1 = Window => ConvLeft(ConvEntry(start), window) = Trailing(longer)
  <2> SUFFICES ASSUME last + 1 = Window
               PROVE  ConvLeft(ConvEntry(start), window) = Trailing(longer)
    OBVIOUS
  <2>1. Len(window) - 1 = last
    BY <1>1, <1>2, <1>3
  <2> QED
    BY <1>2, <1>10, <2>1, ConvLeftIsConvolved
<1>12. /\ start + last + 1 < Len(history) => last + 1 = Window
       /\ last + 1 \in 1..Window
  BY <1>1, <1>2, <1>3
<1> QED
  BY <1>10, <1>11, <1>12 DEF longer

\* The same of the only invocation of a static prefill.
LEMMA StaticConv ==
  ASSUME NEW tokens \in Prompts, Admissible(tokens), ~Paged,
         NEW window, window = WindowOf(tokens, 0),
         NEW last, last = LastOf(tokens, 0)
  PROVE  /\ Convolved(ZeroConv, window, last) = Trailing(tokens)
         /\ Len(tokens) = Window => ConvLeft(ZeroConv, window) = Trailing(tokens)
         /\ Len(tokens) \in 1..Window
<1> USE SessionAssumption
<1>1. /\ tokens \in Seq(Tokens) /\ Len(tokens) \in Nat \ {0} /\ Len(tokens) <= Window
      /\ Window \in Nat \ {0} /\ 0 * Window = 0
  BY EmptySeq, LenProperties DEF Admissible
<1>2. /\ window \in Seq(Rows) /\ Len(window) = Window
      /\ last \in 0..(Window - 1) /\ 0 * Window + last < Len(tokens)
      /\ last + 1 < Window => 0 * Window + last + 1 = Len(tokens)
      /\ \A j \in 1..(last + 1) : window[j] = tokens[0 * Window + j]
  BY <1>1, WindowFits
<1>3. last + 1 = Len(tokens)
  BY <1>1, <1>2
<1> DEFINE none == <<>>
<1>4. none \in Seq(Rows) /\ Len(none) = 0 /\ Trailing(none) = ZeroConv
  BY EmptySeq, ZeroIsTrailing
<1> HIDE DEF none
<1>5. tokens \in Seq(Rows)
  BY <1>1, SeqMonotonic DEF Rows
<1>6. \A j \in 1..Len(none) : tokens[j] = none[j]
  BY <1>4
<1>7. \A j \in 1..(last + 1) : tokens[Len(none) + j] = window[j]
  BY <1>1, <1>2, <1>4
<1>8. Len(tokens) = Len(none) + last + 1
  BY <1>1, <1>2, <1>3, <1>4
<1>9. Continues(tokens, none, window, last)
  BY <1>2, <1>4, <1>5, <1>6, <1>7, <1>8 DEF Continues
<1>10. Convolved(Trailing(none), window, last) = Trailing(tokens)
  BY <1>9, ConvolutionContinues
<1>11. ASSUME Len(tokens) = Window PROVE ConvLeft(ZeroConv, window) = Trailing(tokens)
  <2>1. Len(window) - 1 = last
    BY <1>1, <1>2, <1>3, <1>11
  <2> QED
    BY <1>2, <1>4, <1>10, <2>1, ConvLeftIsConvolved
<1> QED
  BY <1>1, <1>4, <1>10, <1>11

\* A decode from the trailing rows of its context leaves those of the longer one.
LEMMA DecodeConv ==
  ASSUME TypeOK, NEW t \in Tokens, conv = Trailing(Context)
  PROVE  /\ ConvLeft(conv, <<t>>) = Trailing(Append(Context, t))
         /\ ConvEntry(position) = conv
<1> USE SessionAssumption
<1>1. Context \in Seq(Rows) /\ Len(Context) = position /\ t \in Rows /\ position \in Nat
  <2>1. position \in 0..KvLen /\ position \in Nat
    BY CapacityCovers DEF TypeOK
  <2> QED
    BY <2>1, ContextType DEF TypeOK, Context, Rows
<1> DEFINE window == <<t>>
           longer == Append(Context, t)
<1>2. window \in Seq(Rows) /\ Len(window) = 1 /\ window[1] = t
  BY <1>1
<1>3. /\ longer \in Seq(Rows) /\ Len(longer) = position + 1
      /\ \A i \in 1..position : longer[i] = Context[i]
      /\ longer[position + 1] = t
  BY <1>1, AppendProperties
<1> HIDE DEF window, longer
<1>4. 0 \in 0..(Len(window) - 1) /\ Len(longer) = Len(Context) + 0 + 1
  BY <1>1, <1>2, <1>3
<1>5. \A j \in 1..(0 + 1) : longer[Len(Context) + j] = window[j]
  BY <1>1, <1>2, <1>3
<1>6. Continues(longer, Context, window, 0)
  BY <1>1, <1>2, <1>3, <1>4, <1>5 DEF Continues
<1>7. Convolved(Trailing(Context), window, 0) = Trailing(longer)
  BY <1>6, ConvolutionContinues
<1>8. ConvLeft(conv, window) = Trailing(longer)
  <2>1. Len(window) - 1 = 0
    BY <1>2
  <2>2. ConvLeft(conv, window) = Convolved(conv, window, 0)
    BY <1>2, <2>1, ConvLeftIsConvolved
  <2> QED
    BY <1>7, <2>2
<1>9. ConvEntry(position) = conv
  <2>1. CASE position = 0
    <3>1. Context = <<>>
      BY <1>1, <2>1, EmptySeq
    <3> QED
      BY <2>1, <3>1, ZeroIsTrailing DEF ConvEntry
  <2> QED
    BY <2>1 DEF ConvEntry
<1> QED
  BY <1>8, <1>9 DEF window, longer

----------------------------------------------------------------------------
(* The steps *)

\* What ConvContinues says of one step.
KeepsTrailing ==
  /\ next' = Idle /\ out'.ok
  /\ \/ out'.call = "prefill" /\ Len(history') % Window = 0
     \/ /\ out'.call = "decode" /\ out.call \in {"prefill", "decode"}
        /\ out.ok /\ conv = Trailing(out.seen)
  => conv' = Trailing(out'.seen)

\* A call that failed, or is not over, leaves nothing to show.
LEMMA NoAnswer ==
  ASSUME next' = Idle, out'.ok = FALSE \/ out'.call \notin {"prefill", "decode"}
  PROVE  ConvInv' /\ KeepsTrailing
  BY DEF ConvInv, ConvProgress, ConvSeesPrompt, AnswerIsContext, KeepsTrailing

\* A multiple of the window that ends within a window of a chunk's start ends
\* with the window.
LEMMA LastChunkFull ==
  ASSUME NEW i \in Nat, NEW r \in 1..Window, (i * Window + r) % Window = 0
  PROVE  r = Window
<1> USE SessionAssumption
<1>1. SUFFICES ASSUME r < Window PROVE FALSE
  OBVIOUS
<1> DEFINE x == i * Window + r
           q == x \div Window
<1>2. i * Window \in Nat /\ r \in Nat \ {0} /\ x \in Nat /\ Window \in Nat \ {0}
  OBVIOUS
<1>3. q \in Nat /\ x = Window * q + (x % Window)
  BY <1>2
<1>4. x = Window * q /\ x % Window = 0
  BY <1>2, <1>3
<1>5. x = i * Window + r
  OBVIOUS
<1> HIDE DEF x, q
<1>6. r = Window * q - Window * i
  BY <1>2, <1>3, <1>4, <1>5
<1>7. r = Window * (q - i)
  BY <1>2, <1>3, <1>6
<1>8. q - i <= 0 \/ q - i >= 1
  BY <1>3
<1>9. CASE q - i <= 0
  <2>1. PICK d \in Nat : i = q + d
    <3>1. i - q \in Nat /\ i = q + (i - q)
      BY <1>3, <1>9
    <3> QED
      BY <3>1
  <2>2. Window * (q - i) = -(Window * d) /\ Window * d \in Nat
    BY <1>2, <1>3, <2>1
  <2> QED
    BY <1>2, <1>7, <2>2
<1>10. CASE q - i >= 1
  <2>1. PICK d \in Nat : q = i + 1 + d
    <3>1. q - i - 1 \in Nat /\ q = i + 1 + (q - i - 1)
      BY <1>3, <1>10
    <3> QED
      BY <3>1
  <2>2. Window * (q - i) = Window + Window * d /\ Window * d \in Nat
    BY <1>2, <1>3, <2>1
  <2> QED
    BY <1>1, <1>2, <1>7, <2>2
<1> QED
  BY <1>8, <1>9, <1>10

\* A chunk of a prefill: the next one enters with the trailing rows, and the last
\* one has convolved those of the whole prompt.
LEMMA PrefillChunkConv ==
  ASSUME SessionInv, ConvInv, PrefillChunk
  PROVE  ConvInv' /\ KeepsTrailing
<1> USE SessionAssumption
<1> DEFINE window == WindowOf(history, next)
           last == LastOf(history, next)
           start == next * Window
           entry == ConvEntry(start)
           plane == StoreChunk(kv, window, last, start)
<1>1. /\ next # Idle /\ history' = history /\ history \in Seq(Tokens) /\ Len(history) \in Nat
      /\ next \in Nat
  BY LenProperties DEF PrefillChunk, SessionInv, TypeOK
<1>2. /\ Convolved(entry, window, last) = Trailing(PromptHead(start + last + 1))
      /\ last + 1 = Window => ConvLeft(entry, window) = Trailing(PromptHead(start + last + 1))
      /\ start + last + 1 < Len(history) => last + 1 = Window
      /\ last + 1 \in 1..Window
  BY <1>1, ChunkConv DEF ConvInv
<1>3. /\ start \in Nat /\ last \in Nat /\ start + last + 1 <= KvLen
      /\ \A k \in Positions : k < start + last + 1 => plane[k] = history[k + 1]
      /\ start + last + 1 < Len(history) => (next + 1) * Window = start + last + 1
      /\ start + last + 1 <= Len(history)
  BY <1>1, ChunkStep
<1>4. \/ /\ kv' = plane /\ conv' = ConvLeft(entry, window)
         /\ start + last + 1 < Len(history) /\ next' = next + 1
      \/ /\ kv' = plane /\ conv' = ConvLeft(entry, window)
         /\ ~(start + last + 1 < Len(history))
         /\ next' = Idle /\ position' = Len(history)
         /\ out' = Answer("prefill", Attended(plane, last, start),
                           Convolved(entry, window, last))
      \/ next' = Idle /\ out' = Failed("prefill")
  BY DEF PrefillChunk
<1> HIDE DEF window, last, start, entry, plane
<1>5. CASE /\ conv' = ConvLeft(entry, window)
           /\ start + last + 1 < Len(history) /\ next' = next + 1
  <2>1. next' \in Nat /\ next' # Idle /\ next' * Window = start + last + 1
    BY <1>1, <1>3, <1>5
  <2>2. next' * Window # 0
    <3>1. start + last + 1 # 0
      BY <1>3
    <3> QED
      BY <2>1, <3>1
  <2>3. conv' = Trailing(PromptHead(start + last + 1))
    BY <1>2, <1>5
  <2>4. PromptHead(next * Window)' = PromptHead(start + last + 1)
    BY <1>1, <2>1 DEF PromptHead
  <2>5. ConvEntry(next * Window)' = conv'
    BY <2>2 DEF ConvEntry
  <2>6. ConvProgress'
    BY <2>3, <2>4, <2>5 DEF ConvProgress, Trailing
  <2> QED
    BY <2>1, <2>6 DEF ConvInv, ConvSeesPrompt, AnswerIsContext, KeepsTrailing
<1>6. CASE /\ kv' = plane /\ conv' = ConvLeft(entry, window)
           /\ ~(start + last + 1 < Len(history))
           /\ next' = Idle /\ position' = Len(history)
           /\ out' = Answer("prefill", Attended(plane, last, start),
                             Convolved(entry, window, last))
  <2>1. start + last + 1 = Len(history) /\ Len(history) <= KvLen
    BY <1>1, <1>3, <1>6
  <2>2. PromptHead(start + last + 1) = history
    BY <1>1, <2>1, HeadType
  <2>3. /\ Attended(plane, last, start) = history
        /\ [i \in 1..Len(history) |-> plane[i - 1]] = history
    <3>1. \A k \in Positions : k < Len(history) => plane[k] = history[k + 1]
      BY <1>3, <2>1
    <3>2. history \in Seq(Tokens) /\ Len(history) <= KvLen /\ start + last + 1 = Len(history)
      BY <1>1, <2>1
    <3> QED
      BY <3>1, <3>2, AttendedIs
  <2>4. /\ out'.ok = TRUE /\ out'.call = "prefill" /\ out'.seen = history
        /\ out'.conv = Trailing(history)
    BY <1>2, <1>6, <2>2, <2>3 DEF Answer
  <2>5. Context' = history
    BY <1>6, <2>3 DEF Context
  <2>6. Trailing(history)' = Trailing(history)
    BY <1>1 DEF Trailing
  <2>7. ConvInv'
    BY <1>1, <1>6, <2>4, <2>5, <2>6 DEF ConvInv, ConvProgress, ConvSeesPrompt, AnswerIsContext
  <2>8. ASSUME Len(history) % Window = 0 PROVE conv' = Trailing(history)
    <3>1. next * Window + (last + 1) = Len(history)
      BY <1>3, <2>1 DEF start
    <3>2. last + 1 = Window
      BY <1>1, <1>2, <2>8, <3>1, LastChunkFull
    <3> QED
      BY <1>2, <1>6, <2>2, <3>2
  <2> QED
    BY <1>1, <2>4, <2>7, <2>8 DEF KeepsTrailing
<1>7. CASE next' = Idle /\ out' = Failed("prefill")
  BY <1>7, FailedShape, NoAnswer
<1> QED
  BY <1>4, <1>5, <1>6, <1>7

\* The one invocation of a static prefill.
LEMMA PrefillStaticConv ==
  ASSUME SessionInv, NEW tokens \in Prompts, PrefillStatic(tokens)
  PROVE  ConvInv' /\ KeepsTrailing
<1> USE SessionAssumption
<1> DEFINE window == WindowOf(tokens, 0)
           last == LastOf(tokens, 0)
           plane == PrefillGlobals(window)
<1>1. /\ ~Paged /\ next' = Idle /\ Admissible(tokens) /\ history' = tokens
      /\ tokens \in Seq(Tokens) /\ Len(tokens) \in Nat
  BY LenProperties DEF PrefillStatic
<1>2. /\ Convolved(ZeroConv, window, last) = Trailing(tokens)
      /\ Len(tokens) = Window => ConvLeft(ZeroConv, window) = Trailing(tokens)
      /\ Len(tokens) \in 1..Window
  BY <1>1, StaticConv
<1>3. /\ Attended(plane, last, 0) = tokens /\ Len(tokens) <= KvLen
      /\ \A k \in Positions : k < Len(tokens) => plane[k] = tokens[k + 1]
  BY <1>1, StaticPlane
<1>4. \/ /\ kv' = plane /\ conv' = ConvLeft(ZeroConv, window) /\ position' = Len(tokens)
         /\ out' = Answer("prefill", Attended(plane, last, 0), Convolved(ZeroConv, window, last))
      \/ out' = Failed("prefill")
  BY DEF PrefillStatic
<1> HIDE DEF window, last, plane
<1>5. CASE /\ kv' = plane /\ conv' = ConvLeft(ZeroConv, window) /\ position' = Len(tokens)
           /\ out' = Answer("prefill", Attended(plane, last, 0),
                            Convolved(ZeroConv, window, last))
  <2>1. /\ out'.ok = TRUE /\ out'.call = "prefill" /\ out'.seen = tokens
        /\ out'.conv = Trailing(tokens)
    BY <1>2, <1>3, <1>5 DEF Answer
  <2>2. 0 + (Len(tokens) - 1) + 1 = Len(tokens)
    BY <1>1
  <2>3. [i \in 1..Len(tokens) |-> plane[i - 1]] = tokens
    <3> DEFINE l == Len(tokens) - 1
    <3>1. 0 + l + 1 = Len(tokens)
      BY <2>2
    <3> HIDE DEF l
    <3> QED
      BY <1>1, <1>3, <3>1, AttendedIs
  <2>4. Context' = tokens
    BY <1>5, <2>3 DEF Context
  <2>5. Trailing(history)' = Trailing(tokens)
    BY <1>1 DEF Trailing
  <2>6. ConvInv'
    BY <1>1, <2>1, <2>4, <2>5 DEF ConvInv, ConvProgress, ConvSeesPrompt, AnswerIsContext
  <2>7. ASSUME Len(tokens) % Window = 0 PROVE conv' = Trailing(tokens)
    <3>1. 0 * Window + Len(tokens) = Len(tokens)
      BY <1>1
    <3>2. Len(tokens) = Window
      BY <1>2, <2>7, <3>1, LastChunkFull
    <3> QED
      BY <1>2, <1>5, <3>2
  <2> QED
    BY <1>1, <2>1, <2>6, <2>7 DEF KeepsTrailing
<1>6. CASE out' = Failed("prefill")
  BY <1>1, <1>6, FailedShape, NoAnswer
<1> QED
  BY <1>4, <1>5, <1>6

\* A decode answers from the longer context, and rolls the state on.
LEMMA DecodeConvStep ==
  ASSUME SessionInv, ConvInv, NEW t \in Tokens, DecodePaged(t) \/ DecodeStatic(t)
  PROVE  ConvInv' /\ KeepsTrailing
<1> USE SessionAssumption
<1>1. TypeOK /\ next = Idle /\ next' = Idle /\ position < MaxSeq
  BY DEF SessionInv, DecodePaged, DecodeStatic, MayDecode
<1>2. \/ /\ kv' = StoreChunk(kv, <<t>>, 0, position) /\ position' = position + 1
         /\ conv' \in {ConvLeft(ConvEntry(position), <<t>>), ConvLeft(conv, <<t>>)}
         /\ \E convolved : out' = Answer("decode", Attended(kv', 0, position), convolved)
      \/ out' = Failed("decode")
  BY DEF DecodePaged, DecodeStatic
<1>3. CASE out' = Failed("decode")
  BY <1>1, <1>3, FailedShape, NoAnswer
<1>4. ASSUME NEW convolved,
             kv' = StoreChunk(kv, <<t>>, 0, position), position' = position + 1,
             conv' \in {ConvLeft(ConvEntry(position), <<t>>), ConvLeft(conv, <<t>>)},
             out' = Answer("decode", Attended(kv', 0, position), convolved)
      PROVE  ConvInv' /\ KeepsTrailing
  <2>1. Context' = Append(Context, t) /\ Attended(kv', 0, position) = Context'
    BY <1>1, <1>4, DecodeExtends
  <2>2. out'.ok = TRUE /\ out'.call = "decode" /\ out'.seen = Context'
    BY <1>4, <2>1 DEF Answer
  <2>3. ConvInv'
    BY <1>1, <2>2 DEF ConvInv, ConvProgress, ConvSeesPrompt, AnswerIsContext
  <2>4. ASSUME out.call \in {"prefill", "decode"}, out.ok, conv = Trailing(out.seen)
        PROVE  conv' = Trailing(out'.seen)
    <3>1. out.seen = Context
      BY <1>1, <2>4 DEF ConvInv, AnswerIsContext
    <3>2. /\ ConvLeft(conv, <<t>>) = Trailing(Append(Context, t))
          /\ ConvEntry(position) = conv
      BY <1>1, <2>4, <3>1, DecodeConv
    <3> QED
      BY <1>4, <2>1, <2>2, <3>2
  <2> QED
    BY <2>2, <2>3, <2>4 DEF KeepsTrailing
<1> QED
  BY <1>2, <1>3, <1>4

\* A prefill that is refused or begun: the first chunk clears the state.
LEMMA PrefillBeginConv ==
  ASSUME SessionInv, NEW tokens \in Prompts,
         PrefillRefused(tokens) \/ PrefillBegin(tokens)
  PROVE  ConvInv' /\ KeepsTrailing
<1> USE SessionAssumption
<1>1. \/ next' = Idle /\ out' = Failed("prefill")
      \/ next' = 0
  BY DEF PrefillRefused, PrefillBegin
<1>2. CASE next' = Idle /\ out' = Failed("prefill")
  BY <1>2, FailedShape, NoAnswer
<1>3. CASE next' = 0
  <2>1. next' # Idle /\ next' * Window = 0
    BY <1>3
  <2>2. ConvEntry(next * Window)' = ZeroConv
    BY <2>1 DEF ConvEntry, ZeroConv
  <2>3. PromptHead(next * Window)' = <<>>
    <3>1. PromptHead(next * Window)' = [i \in 1..0 |-> history'[i]]
      BY <2>1 DEF PromptHead
    <3> QED
      BY <3>1
  <2>4. Trailing(PromptHead(next * Window))' = Trailing(<<>>)
    BY <2>3 DEF Trailing, ZeroConv
  <2>5. ConvProgress'
    BY <2>2, <2>4, ZeroIsTrailing DEF ConvProgress
  <2> QED
    BY <2>1, <2>5 DEF ConvInv, ConvSeesPrompt, AnswerIsContext, KeepsTrailing
<1> QED
  BY <1>1, <1>2, <1>3

\* Every step keeps the invariant and loses no row of the convolution.
LEMMA NextConv ==
  ASSUME SessionInv, ConvInv, Next
  PROVE  ConvInv' /\ KeepsTrailing
<1>1. ASSUME NEW tokens \in Prompts,
             PrefillRefused(tokens) \/ PrefillBegin(tokens) \/ PrefillStatic(tokens)
      PROVE  ConvInv' /\ KeepsTrailing
  BY <1>1, PrefillBeginConv, PrefillStaticConv
<1>2. CASE PrefillChunk
  BY <1>2, PrefillChunkConv
<1>3. ASSUME NEW t \in Tokens, DecodePaged(t) \/ DecodeStatic(t)
      PROVE  ConvInv' /\ KeepsTrailing
  BY <1>3, DecodeConvStep
<1>4. CASE DecodeRefused \/ Reset
  <2>1. /\ next' = Idle
        /\ out' \in {Failed("decode"), Failed("reset"), Answer("reset", <<>>, <<>>)}
    BY <1>4 DEF DecodeRefused, Reset
  <2>2. out'.ok = FALSE \/ out'.call \notin {"prefill", "decode"}
    <3>1. CASE out' \in {Failed("decode"), Failed("reset")}
      BY <3>1 DEF Failed
    <3>2. CASE out' = Answer("reset", <<>>, <<>>)
      <4>1. out'.call = "reset"
        BY <3>2 DEF Answer
      <4> QED
        BY <4>1
    <3> QED
      BY <2>1, <3>1, <3>2
  <2> QED
    BY <2>1, <2>2, NoAnswer
<1> QED
  BY <1>1, <1>2, <1>3, <1>4 DEF Next

\* The session starts with an empty context and a cleared state.
LEMMA InitConv == Init => ConvInv
<1> SUFFICES ASSUME Init PROVE ConvInv
  OBVIOUS
<1>1. next = Idle /\ out.ok = FALSE
  BY FailedShape DEF Init
<1> QED
  BY <1>1 DEF ConvInv, ConvProgress, ConvSeesPrompt, AnswerIsContext

----------------------------------------------------------------------------
(* The theorems *)

\* The invariant is inductive, given that of IreeSessionProofs.
LEMMA ConvInvHolds == Spec => [](SessionInv /\ ConvInv)
<1>1. SessionInv /\ ConvInv /\ [Next]_vars => ConvInv'
  <2>1. SessionInv /\ ConvInv /\ Next => ConvInv'
    BY NextConv
  <2>2. ConvInv /\ UNCHANGED vars => ConvInv'
    BY DEF vars, ConvInv, ConvProgress, ConvSeesPrompt, AnswerIsContext, ConvEntry,
           Context, PromptHead, Trailing
  <2> QED
    BY <2>1, <2>2
<1> QED
  BY <1>1, InitConv, InitInv, NextInv, PTL DEF Spec

\* The convolution of a successful prefill ran over the last rows of its prompt:
\* chunks hand the state on without losing or repeating a row, and the state of
\* an earlier sequence, of a failed call or of a reset never reaches it.
THEOREM PrefillConvolvesPrompt == Spec => []ConvSeesPrompt
<1>1. ConvInv => ConvSeesPrompt
  BY DEF ConvInv
<1> QED
  BY <1>1, ConvInvHolds, PTL

\* The state stays the trailing rows of the sequence from answer to answer: over
\* a prompt that fills its windows, and over every decode that continues such a
\* state.
THEOREM ConvolutionContinuesAnswers == Spec => ConvContinues
<1>1. SessionInv /\ ConvInv /\ [Next]_vars => [KeepsTrailing]_vars
  BY NextConv
<1> QED
  BY <1>1, ConvInvHolds, PTL DEF Spec, ConvContinues, KeepsTrailing
=============================================================================
