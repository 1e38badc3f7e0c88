------------------------------ MODULE MCCommand ------------------------------
(***************************************************************************)
(* Small checkpoints of every format, laid out byte by byte, so that where *)
(* each weight really is (truth) does not come from the code under check.  *)
(***************************************************************************)
EXTENDS Command

Bytes(dtype, shape) ==
  LET n == Product(shape)
  IN CASE dtype = "gguf.q4_0" -> (n \div 32) * 18
       [] dtype = "gguf.q8_0" -> (n \div 32) * 34
       [] dtype \in {"f32", "u32"} -> 4 * n
       [] OTHER -> 2 * n

\* One stored tensor: its key in the file, the weight and component it is.
T(raw, part, canon, comp, dtype, shape) ==
  [key |-> <<raw, part>>, weight |-> <<canon, comp>>, dtype |-> dtype, shape |-> shape,
   bytes |-> Bytes(dtype, shape)]
Dense(dtype, raw, canon, shape) == <<T(raw, "weight", canon, "data", dtype, shape)>>

\* Where each tensor of a list starts, each a multiple of align.
Starts(list, align) ==
  FoldLeft(LAMBDA s, t : Append(s, ((Last(s) + t.bytes + align - 1) \div align) * align),
           <<0>>, list)
Place(list, align, base, file) ==
  LET starts == Starts(list, align)
  IN [w \in {t.weight : t \in ToSet(list)} |->
        LET i == CHOOSE j \in DOMAIN list : list[j].weight = w
        IN [file |-> file, offset |-> base + starts[i], length |-> list[i].bytes]]
Tied(truth) == truth @@ [w \in {<<<<"blk", -1, "output">>, x[2]>> :
                                 x \in {y \in DOMAIN truth : y[1] = <<"blk", -1, "token_embd">>}} |->
                           truth[<<<<"blk", -1, "token_embd">>, w[2]>>]]

Safetensors(list, header, meta) ==
  LET starts == Starts(list, 1)
  IN [format |-> "safetensors", header |-> header, size |-> header + Last(starts),
      meta |-> meta,
      tensors |-> [i \in DOMAIN list |->
        [key |-> list[i].key, dtype |-> list[i].dtype, shape |-> list[i].shape,
         from |-> starts[i], to |-> starts[i] + list[i].bytes]]]

----------------------------------------------------------------------------
(* A llama of one layer: hidden 128, 2 heads, 1 key head, vocabulary 48 *)

LlamaLayer ==
  << <<"input_layernorm", "attn_norm", <<128>>>>,
     <<"self_attn.q_proj", "attn_q", <<128, 128>>>>,
     <<"self_attn.k_proj", "attn_k", <<64, 128>>>>,
     <<"self_attn.v_proj", "attn_v", <<64, 128>>>>,
     <<"self_attn.o_proj", "attn_output", <<128, 128>>>>,
     <<"post_attention_layernorm", "ffn_norm", <<128>>>>,
     <<"mlp.gate_proj", "ffn_gate", <<192, 128>>>>, <<"mlp.up_proj", "ffn_up", <<192, 128>>>>,
     <<"mlp.down_proj", "ffn_down", <<128, 192>>>> >>
LlamaTensors(make(_, _, _)) ==
  make(<<"model", -1, "embed_tokens">>, <<"blk", -1, "token_embd">>, <<48, 128>>)
    \o FlattenSeq([i \in DOMAIN LlamaLayer |->
         make(<<"model", 0, LlamaLayer[i][1]>>, <<"blk", 0, LlamaLayer[i][2]>>, LlamaLayer[i][3])])
    \o make(<<"model", -1, "norm">>, <<"blk", -1, "output_norm">>, <<128>>)
LlamaConfig ==
  [model_type |-> "llama", hidden_size |-> 128, num_hidden_layers |-> 1,
   num_attention_heads |-> 2, num_key_value_heads |-> 1, intermediate_size |-> 192,
   vocab_size |-> 48, max_position_embeddings |-> 2048, rope_theta |-> 500000]

LlamaList == LlamaTensors(LAMBDA r, c, s : Dense("bf16", r, c, s))
Llama == [source |-> Safetensors(LlamaList, 1000, <<>>), config |-> LlamaConfig,
          truth |-> Tied(Place(LlamaList, 1, 1000, 0)), described |-> TRUE]

\* The same tensors in another order: the same schema at other offsets.
MovedList == Reverse(LlamaList)
LlamaMoved == [source |-> Safetensors(MovedList, 1200, <<>>), config |-> LlamaConfig,
               truth |-> Tied(Place(MovedList, 1, 1200, 0)), described |-> TRUE]

\* A config.json that disagrees with the tensors.
LlamaMisconfigured == [Llama EXCEPT !.config.num_key_value_heads = 2, !.described = FALSE]

\* The same model in MLX's 4 bit affine form, groups of 64.
Affine(r, c, s) ==
  IF Len(s) = 1 THEN Dense("bf16", r, c, s)
  ELSE << T(r, "weight", c, "packed", "u32", <<s[1], s[2] \div 8>>),
          T(r, "scales", c, "scales", "bf16", <<s[1], s[2] \div 64>>),
          T(r, "biases", c, "biases", "bf16", <<s[1], s[2] \div 64>>) >>
MlxList == LlamaTensors(Affine)
LlamaMlx == [source |-> Safetensors(MlxList, 1000, [format |-> "mlx"]),
             config |-> LlamaConfig @@ ("quantization.bits" :> 4 @@ "quantization.group_size" :> 64),
             truth |-> Tied(Place(MlxList, 1, 1000, 0)), described |-> TRUE]

----------------------------------------------------------------------------
(* A qwen3 in GGUF, its directory ending off the alignment *)

GgufType(s) == IF Len(s) = 1 THEN "f32" ELSE IF s[1] = 48 THEN "gguf.q8_0" ELSE "gguf.q4_0"
GgufTensor(c, s) == Dense(GgufType(s), c, c, s)
QwenList ==
  FlattenSeq([i \in DOMAIN LlamaLayer |-> GgufTensor(<<"blk", 0, LlamaLayer[i][2]>>, LlamaLayer[i][3])])
    \o GgufTensor(<<"blk", 0, "attn_q_norm">>, <<64>>) \o GgufTensor(<<"blk", 0, "attn_k_norm">>, <<64>>)
    \o GgufTensor(<<"blk", -1, "token_embd">>, <<48, 128>>)
    \o GgufTensor(<<"blk", -1, "output_norm">>, <<128>>) \o GgufTensor(<<"blk", -1, "output">>, <<48, 128>>)
Qwen ==
  [source |->
     [format |-> "gguf", version |-> 3, header |-> 1001, size |-> 1024 + Last(Starts(QwenList, 32)),
      meta |-> ("architecture" :> "qwen3" @@ "block_count" :> 1 @@ "embedding_length" :> 128
                  @@ "feed_forward_length" :> 192 @@ "attention.head_count" :> 2
                  @@ "attention.head_count_kv" :> 1 @@ "attention.key_length" :> 64
                  @@ "context_length" :> 4096 @@ "tokens" :> 48),
      tensors |-> [i \in DOMAIN QwenList |->
        [name |-> QwenList[i].key[1], dims |-> Reverse(QwenList[i].shape),
         type |-> QwenList[i].dtype, offset |-> Starts(QwenList, 32)[i]]]],
   config |-> <<>>, truth |-> Place(QwenList, 32, 1024, 0), described |-> TRUE]

----------------------------------------------------------------------------
(* A hybrid LFM2 in two shards: one convolution layer, one of attention *)

Lfm2Ffn == << <<"ffn_norm", "ffn_norm", <<128>>>>, <<"feed_forward.w1", "ffn_gate", <<192, 128>>>>,
              <<"feed_forward.w3", "ffn_up", <<192, 128>>>>,
              <<"feed_forward.w2", "ffn_down", <<128, 192>>>> >>
Lfm2Conv == << <<"operator_norm", "attn_norm", <<128>>>>,
               <<"conv.in_proj", "shortconv.in_proj", <<384, 128>>>>,
               <<"conv.conv", "shortconv.conv", <<128, 1, 3>>>>,
               <<"conv.out_proj", "shortconv.out_proj", <<128, 128>>>> >>
Lfm2Attention == << <<"operator_norm", "attn_norm", <<128>>>>,
                    <<"self_attn.q_proj", "attn_q", <<128, 128>>>>,
                    <<"self_attn.k_proj", "attn_k", <<64, 128>>>>,
                    <<"self_attn.v_proj", "attn_v", <<64, 128>>>>,
                    <<"self_attn.out_proj", "attn_output", <<128, 128>>>>,
                    <<"self_attn.q_layernorm", "attn_q_norm", <<64>>>>,
                    <<"self_attn.k_layernorm", "attn_k_norm", <<64>>>> >>
Lfm2Part(l, rows) ==
  FlattenSeq([i \in DOMAIN rows |->
    Dense("f16", <<"model", l, rows[i][1]>>, <<"blk", l, rows[i][2]>>, rows[i][3])])
FirstShard == Dense("f16", <<"model", -1, "embed_tokens">>, <<"blk", -1, "token_embd">>, <<48, 128>>)
                \o Lfm2Part(0, Lfm2Conv \o Lfm2Ffn)
SecondShard == Lfm2Part(1, Lfm2Attention \o Lfm2Ffn)
                 \o Dense("f16", <<"model", -1, "embedding_norm">>, <<"blk", -1, "output_norm">>, <<128>>)
Hybrid ==
  [source |-> [format |-> "sharded", meta |-> <<>>,
               shards |-> <<Safetensors(FirstShard, 700, <<>>), Safetensors(SecondShard, 800, <<>>)>>,
               weightMap |-> [k \in {t.key : t \in ToSet(FirstShard \o SecondShard)} |->
                                IF \E t \in ToSet(FirstShard) : t.key = k THEN 1 ELSE 2]],
   config |-> [model_type |-> "lfm2", hidden_size |-> 128, num_hidden_layers |-> 2,
               num_attention_heads |-> 2, num_key_value_heads |-> 1, intermediate_size |-> 192,
               vocab_size |-> 48, rope_theta |-> 1000000, conv_L_cache |-> 3,
               layer_types |-> <<"conv", "full_attention">>],
   truth |-> Tied(Place(FirstShard, 1, 700, 0) @@ Place(SecondShard, 1, 800, 1)),
   described |-> TRUE]

----------------------------------------------------------------------------

MCCheckpoints == [llama |-> Llama, moved |-> LlamaMoved, misconfigured |-> LlamaMisconfigured,
                  mlx |-> LlamaMlx, qwen |-> Qwen, hybrid |-> Hybrid]

\* A dump: what is printed, and which chip is really behind each device.
Line(says, value) == [says |-> says, value |-> value, scheme |-> Absent]
Lines(driver, uri, chip) ==
  <<Line("device", uri), Line("arch", chip), Line("subgroup", 32)>>
Local == <<Line("driver", "local-task"), Line("device", "local-task://")>>
Pair == [lines |-> <<Line("driver", "hip")>> \o Lines("hip", "hip://GPU-0", "gfx1100")
                     \o Lines("hip", "hip://GPU-1", "gfx942") \o Local,
         chips |-> "hip://GPU-0" :> "gfx1100" @@ "hip://GPU-1" :> "gfx942"
                     @@ "local-task://" :> Absent]
Single == [lines |-> <<Line("driver", "hip")>> \o Lines("hip", "hip://GPU-0", "gfx942") \o Local,
           chips |-> "hip://GPU-0" :> "gfx942" @@ "local-task://" :> Absent]
Cuda == [lines |-> Local \o <<Line("driver", "cuda")>> \o Lines("cuda", "cuda://GPU-0", "sm_80"),
         chips |-> "cuda://GPU-0" :> "sm_80" @@ "local-task://" :> Absent]
CpuOnly == [lines |-> Unavailable, chips |-> "local-task://" :> Absent]
MCDumps == [pair |-> Pair, single |-> Single, cuda |-> Cuda, cpu |-> CpuOnly]

----------------------------------------------------------------------------
(* Tokenizers and the commands *)

Added(content, id, special) == [content |-> content, id |-> id, special |-> special]
ByteLevel ==
  [decoder |-> "ByteLevel", fallback |-> FALSE,
   vocab |-> (<<"a">> :> 0 @@ <<"b">> :> 1 @@ <<"G">> :> 2 @@ <<"a", "b">> :> 3
               @@ <<"G", "a">> :> 4 @@ <<"user">> :> 5 @@ <<"assistant">> :> 6
               @@ <<"C3">> :> 11 @@ <<"A9">> :> 12),
   merges |-> << <<<<"G">>, <<"a">>>>, <<<<"a">>, <<"b">>>> >>,
   added |-> << Added(EndOfText, 7, TRUE), Added(ImStart, 8, TRUE), Added(ImEnd, 9, TRUE),
                Added(<<"<|", "im_end">>, 10, FALSE) >>]
SentencePiece ==
  [decoder |-> "none", fallback |-> TRUE,
   vocab |-> (Unk :> 0 @@ <<"_">> :> 3 @@ <<"a">> :> 4 @@ <<"b">> :> 5 @@ <<"_", "a">> :> 6
               @@ <<"0x", "C3">> :> 7 @@ <<"0x", "A9">> :> 8),
   merges |-> << <<<<"_">>, <<"a">>>> >>,
   added |-> << Added(<<"bos">>, 1, TRUE), Added(<<"eos">>, 2, TRUE) >>]
MCTokenizers == [byteLevel |-> ByteLevel, sentencePiece |-> SentencePiece]
MCUtf8 == "e'" :> <<"C3", "A9">>
MCTexts == {<<" ", "a", "b", "a">>, <<"b", " ", "a">>, <<"a", "b">> \o EndOfText \o <<"a">>,
            ImEnd \o <<"b">> \o ImStart, <<" ", " ", "b">>, <<"a", "e'", "b">>}

Cmd(tokenizer, text, chat, new, maxKv, window, spec) ==
  [tokenizer |-> tokenizer, text |-> text, chat |-> chat, new |-> new, maxKv |-> maxKv,
   window |-> window, override |-> "auto", portable |-> FALSE, spec |-> spec]
On(form, word, rest) == [form |-> form, word |-> word, rest |-> rest]
Auto == On("auto", "", "")
MCRequests ==
  [static |-> Cmd("sentencePiece", <<"a", " ", "b">>, FALSE, 2, 0, 0, Auto),
   paged |-> Cmd("byteLevel", <<"a", "b">>, TRUE, 2, 1024, 0, Auto),
   second |-> [Cmd("byteLevel", <<"b", " ", "a">>, FALSE, 1, 1024, 0,
                   On("uri", "hip", "hip://GPU-1")) EXCEPT !.portable = TRUE],
   chip |-> Cmd("byteLevel", <<"b">>, FALSE, 1, 1024, 0, On("arch", "gfx", "gfx942")),
   narrow |-> Cmd("sentencePiece", <<"b", "b", "b">>, FALSE, 1, 0, 2, On("cpu", "", "")),
   tight |-> Cmd("byteLevel", <<"b", "b">>, FALSE, 3, 4, 0, Auto),
   empty |-> Cmd("byteLevel", <<>>, FALSE, 1, 0, 0, Auto)]

MCSampled == {0, 2, 9}
MCLimits == [tensors |-> 1000, rank |-> 8, dim |-> 1000000, total |-> 100000000]
MCHostFeatures == {"avx2"}
MCU32 == 1073741824
=============================================================================
