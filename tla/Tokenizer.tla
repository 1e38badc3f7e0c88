------------------------------ MODULE Tokenizer ------------------------------
(***************************************************************************)
(* BpeTokenizer: the two kinds of a tokenizer.json, special pieces, merges *)
(* and both directions, and the chat wrap of a prompt.                     *)
(*                                                                         *)
(* A text is a sequence of symbols. Symbols stand for characters; "<|" and *)
(* "|>" are symbols too, so that a special piece is a short sequence. A    *)
(* tokenizer is [decoder, vocab, merges, added, fallback]: vocab maps      *)
(* pieces to ids, merges is the sequence of pairs, added the sequence of   *)
(* [content, id, special]. A byte piece is <<"0x", byte>>.                 *)
(***************************************************************************)
EXTENDS Integers, Sequences, SequencesExt, FiniteSets, Functions, TLC

CONSTANT Utf8  \* the bytes of every symbol that is not a byte itself

SpaceMark == "_"      \* U+2581, SentencePiece
Gpt2Space == "G"      \* U+0120, ByteLevel
Unk == <<"unk">>
ImStart == <<"<|", "im_start", "|>">>
ImEnd == <<"<|", "im_end", "|>">>
EndOfText == <<"<|", "endoftext", "|>">>

----------------------------------------------------------------------------
(* from_bytes *)

\* detect_kind.
IsByteLevel(t) ==
  LET starts(mark) == \E p \in DOMAIN t.vocab : Head(p) = mark
  IN t.decoder = "ByteLevel" \/ (starts(Gpt2Space) /\ ~starts(SpaceMark))

\* Added tokens replace vocabulary entries of the same content.
TokenToId(t) == FoldLeft(LAMBDA f, a : (a.content :> a.id) @@ f, t.vocab, t.added)
IdToToken(t) ==
  FoldLeft(LAMBDA f, a : (a.id :> a.content) @@ f,
           [i \in Range(t.vocab) |-> CHOOSE p \in DOMAIN t.vocab : t.vocab[p] = i], t.added)

\* Longest first, so that a piece wins over its own prefixes.
SpecialPieces(t) ==
  LET special == SelectSeq(t.added, LAMBDA a : a.special \/ Head(a.content) = "<|")
  IN SortSeq(special, LAMBDA a, b : Len(a.content) > Len(b.content))

AddedId(t, contents) ==
  LET found == SelectSeq(t.added, LAMBDA a : a.content \in contents)
  IN IF found = <<>> THEN {} ELSE {Head(found).id}
BosId(t) == AddedId(t, {<<"bos">>})
\* The end of a chat turn is preferred to the end of the text.
EosId(t) == IF AddedId(t, {ImEnd}) # {} THEN AddedId(t, {ImEnd})
            ELSE AddedId(t, {<<"eos">>, EndOfText})

\* The ids generate_greedy stops at. token_id looks in the vocabulary as well.
StopIds(t) == EosId(t) \cup {TokenToId(t)[p] : p \in {EndOfText} \cap DOMAIN TokenToId(t)}

----------------------------------------------------------------------------
(* encode *)

Find(text, piece) ==
  {i \in 0..(Len(text) - Len(piece)) : SubSeq(text, i + 1, i + Len(piece)) = piece}

\* apply_chat_template without a template of the model's own: ChatML when the
\* markers exist and the prompt is not wrapped already.
ApplyChatTemplate(t, text) ==
  IF Find(text, ImStart) = {} /\ {ImStart, ImEnd} \subseteq DOMAIN TokenToId(t)
  THEN ImStart \o <<"user">> \o text \o ImEnd \o ImStart \o <<"assistant">>
  ELSE text

NormalizeSp(text) ==
  <<SpaceMark>> \o [i \in DOMAIN text |-> IF text[i] = " " THEN SpaceMark ELSE text[i]]

SymbolBytes(symbol) == IF symbol \in DOMAIN Utf8 THEN Utf8[symbol] ELSE <<symbol>>
BytePieces(symbol) == [i \in DOMAIN SymbolBytes(symbol) |-> <<"0x", SymbolBytes(symbol)[i]>>]
InitialPiecesSp(t, text) ==
  FlattenSeq([i \in DOMAIN text |->
    IF <<text[i]>> \in DOMAIN TokenToId(t) THEN <<<<text[i]>>>>
    ELSE IF t.fallback THEN BytePieces(text[i]) ELSE <<Unk>>])

\* gpt2_bytes_to_unicode is a bijection of the bytes that moves the space.
InitialPiecesByteLevel(text) ==
  FlattenSeq([i \in DOMAIN text |->
    IF text[i] = " " THEN <<<<Gpt2Space>>>>
    ELSE [j \in DOMAIN SymbolBytes(text[i]) |-> <<SymbolBytes(text[i])[j]>>]])

\* The leftmost of the pairs of the lowest rank is merged, until there is none.
BpeMerge(t, initial) ==
  LET rank(pieces, i) == {r \in DOMAIN t.merges : t.merges[r] = <<pieces[i], pieces[i + 1]>>}
      merge(pieces, turn) ==
        LET known == {i \in 1..(Len(pieces) - 1) : rank(pieces, i) # {}}
            of(i) == CHOOSE r \in rank(pieces, i) : \A q \in rank(pieces, i) : q <= r
            best == CHOOSE i \in known : \A j \in known : of(i) < of(j) \/ (of(i) = of(j) /\ i <= j)
        IN IF known = {} THEN pieces
           ELSE SubSeq(pieces, 1, best - 1) \o <<pieces[best] \o pieces[best + 1]>>
                  \o SubSeq(pieces, best + 2, Len(pieces))
  IN FoldLeft(merge, initial, initial)

EncodeOrdinary(t, text) ==
  LET ids == TokenToId(t)
      pieces == BpeMerge(t, IF IsByteLevel(t) THEN InitialPiecesByteLevel(text)
                            ELSE InitialPiecesSp(t, NormalizeSp(text)))
      id(p) == IF p \in DOMAIN ids THEN ids[p] ELSE IF Unk \in DOMAIN ids THEN ids[Unk] ELSE 0
  IN IF text = <<>> THEN <<>> ELSE [i \in DOMAIN pieces |-> id(pieces[i])]

\* Mutant: the text before a special piece is dropped with it.
SplitDropsSpan(t, st) ==
  LET hits == SelectSeq(SpecialPieces(t), LAMBDA a : Find(st.rest, a.content) # {})
      a == Head(hits)
      at == CHOOSE i \in Find(st.rest, a.content) : TRUE
  IN IF hits = <<>> THEN [ids |-> st.ids \o EncodeOrdinary(t, st.rest), rest |-> <<>>]
     ELSE [ids |-> Append(st.ids, a.id),
           rest |-> SubSeq(st.rest, at + Len(a.content) + 1, Len(st.rest))]

\* One turn of encode: the special piece that starts first is taken out whole.
Split(t, st) ==
  LET pieces == SpecialPieces(t)
      first(a) == CHOOSE i \in Find(st.rest, a.content) :
                    \A j \in Find(st.rest, a.content) : i <= j
      hits == SelectSeq(pieces, LAMBDA a : Find(st.rest, a.content) # {})
      earliest == SelectSeq(hits, LAMBDA a : \A b \in ToSet(hits) : first(a) <= first(b))
      a == Head(earliest)
  IN IF hits = <<>> THEN [ids |-> st.ids \o EncodeOrdinary(t, st.rest), rest |-> <<>>]
     ELSE [ids |-> Append(st.ids \o EncodeOrdinary(t, SubSeq(st.rest, 1, first(a))), a.id),
           rest |-> SubSeq(st.rest, first(a) + Len(a.content) + 1, Len(st.rest))]

Encode(t, text, special) ==
  LET bos == IF special THEN SetToSeq(BosId(t)) ELSE <<>>
      turn(st, i) == IF st.rest = <<>> THEN st ELSE Split(t, st)
  IN FoldLeft(turn, [ids |-> bos, rest |-> text], text).ids

----------------------------------------------------------------------------
(* decode *)

IsSpecial(t, id) ==
  \/ id \in BosId(t) \cup EosId(t)
  \/ \E i \in DOMAIN t.added : t.added[i].id = id /\ t.added[i].special
Kept(t, ids, skip) ==
  LET names == IdToToken(t)
      kept == SelectSeq(ids, LAMBDA i : i \in DOMAIN names /\ ~(skip /\ IsSpecial(t, i)))
  IN [i \in DOMAIN kept |-> names[kept[i]]]

\* from_utf8_lossy: the bytes of a symbol become that symbol, what is left over
\* becomes one replacement mark.
Utf8Bytes == UNION {ToSet(Utf8[s]) : s \in DOMAIN Utf8}
FromUtf8Lossy(text) ==
  LET whole(bytes) == {s \in DOMAIN Utf8 : Utf8[s] = bytes}
      flush(st) == IF st.bytes = <<>> THEN st.text ELSE Append(st.text, "?")
      grow(st, bytes) == IF whole(bytes) = {} THEN [st EXCEPT !.bytes = bytes]
                         ELSE [bytes |-> <<>>, text |-> st.text \o SetToSeq(whole(bytes))]
      take(st, s) == IF s \in Utf8Bytes THEN grow(st, Append(st.bytes, s))
                     ELSE [bytes |-> <<>>, text |-> Append(flush(st), s)]
  IN flush(FoldLeft(take, [bytes |-> <<>>, text |-> <<>>], text))

TrimStart(text) ==
  LET content == {i \in DOMAIN text : text[i] # " "}
  IN IF content = {} THEN <<>>
     ELSE SubSeq(text, CHOOSE i \in content : \A j \in content : i <= j, Len(text))
Spaced(text, mark) == [i \in DOMAIN text |-> IF text[i] = mark THEN " " ELSE text[i]]

DecodeSp(t, ids, skip) ==
  LET kept == Kept(t, ids, skip)
      bytes == [i \in DOMAIN kept |-> IF Head(kept[i]) = "0x" THEN Tail(kept[i]) ELSE kept[i]]
  IN TrimStart(Spaced(FromUtf8Lossy(FlattenSeq(bytes)), SpaceMark))

DecodeByteLevel(t, ids, skip) ==
  LET literal(p) == Head(p) = "<|" /\ Last(p) = "|>"
      kept == SelectSeq(Kept(t, ids, skip), LAMBDA p : ~(skip /\ literal(p)))
  IN FromUtf8Lossy(Spaced(FlattenSeq(kept), Gpt2Space))

Decode(t, ids, skip) ==
  IF IsByteLevel(t) THEN DecodeByteLevel(t, ids, skip) ELSE DecodeSp(t, ids, skip)
=============================================================================
