------------------------------- MODULE Lznt1 -------------------------------
(***************************************************************************)
(* lznt1.c: blocks of up to 4096 bytes, stored or as values behind tags,   *)
(* one for each bit of them.  How the two bytes of a match are split into  *)
(* length and distance depends on what of the block is out.                *)
(***************************************************************************)
EXTENDS Inflate

CONSTANTS
  Texts,        \* block by block
  BYTE,         \* 256
  TAG_BITS,     \* 8
  SPLIT,        \* 12: bits of the length in a match at the start
  THRESHOLD,    \* 16: how far they reach
  BLOCK_MAX     \* 4096

VARIABLES
  offset, limit,               \* in data
  split, next_threshold,
  tag, tag_bit,
  block_out_len

lznt1 == <<offset, limit, split, next_threshold, tag, tag_bit, block_out_len>>
vars == <<inflateVars, lznt1>>

Word(p) == At(p) + BYTE * At(p + 1)
LZNT1_BLOCK_LEN(header) == (header % BLOCK_MAX) + 1
COMPRESSED == (BYTE * BYTE) \div 2
LZNT1_BLOCK_COMPRESSED(header) == header >= COMPRESSED
LZNT1_VALUE_LEN(tuple) == (tuple % 2^split) + 3
LZNT1_VALUE_OFFSET(tuple) == (tuple \div 2^split) + 1

Start ==
  /\ pc = "start" /\ pc' = "header"
  /\ offset' = 0 /\ limit' = 0 /\ split' = SPLIT /\ next_threshold' = THRESHOLD
  /\ tag' = 0 /\ tag_bit' = 0 /\ block_out_len' = 0
  /\ UNCHANGED <<inputs, buf, out_len, out, measured>>

AtEnd == offset = len \/ (offset + 1 = len /\ At(offset) = 0)

End == pc = "header" /\ AtEnd /\ Return(out) /\ UNCHANGED lznt1

StoredFits == offset + 2 <= len /\ (LZNT1_BLOCK_COMPRESSED(Word(offset))
                                    \/ offset + 2 + LZNT1_BLOCK_LEN(Word(offset)) <= len)

Overrun == pc = "header" /\ ~AtEnd /\ ~StoredFits /\ Fail /\ UNCHANGED lznt1

StoredBlock ==
  /\ pc = "header" /\ ~AtEnd /\ StoredFits /\ ~LZNT1_BLOCK_COMPRESSED(Word(offset))
  /\ offset' = offset + 2 + LZNT1_BLOCK_LEN(Word(offset))
  /\ Emit(SubSeq(data, offset + 3, offset'))
  /\ UNCHANGED <<inputs, buf, measured, pc, limit, split, next_threshold, tag, tag_bit,
                 block_out_len>>

CompressedBlock ==
  /\ pc = "header" /\ ~AtEnd /\ StoredFits /\ LZNT1_BLOCK_COMPRESSED(Word(offset))
  /\ offset' = offset + 2
  /\ limit' = offset' + LZNT1_BLOCK_LEN(Word(offset))
  /\ split' = SPLIT /\ next_threshold' = THRESHOLD
  /\ tag' = 0 /\ tag_bit' = 0 /\ block_out_len' = 0
  /\ pc' = "block"
  /\ UNCHANGED <<inputs, buf, out_len, out, measured>>
---------------------------------------------------------------------------
(* lznt1_block *)

Fresh == tag_bit = 0
Tag == IF Fresh THEN At(offset) ELSE tag
Here == IF Fresh THEN offset + 1 ELSE offset

\* The split of a block of which n bytes are out, from what it was before.
FirstOnly(n) == [split |-> IF n > THRESHOLD THEN SPLIT - 1 ELSE SPLIT,
                 threshold |-> next_threshold]

Resplit(n) ==
  LET steps == Min({k \in 0 .. SPLIT : n <= next_threshold * 2^k})
  IN  [split |-> split - steps, threshold |-> next_threshold * 2^steps]

Advance(n, offset1) ==
  /\ block_out_len' = block_out_len + n
  /\ offset' = offset1
  /\ split' = Resplit(block_out_len').split
  /\ next_threshold' = Resplit(block_out_len').threshold
  /\ tag' = Tag \div 2 /\ tag_bit' = (tag_bit + 1) % TAG_BITS
  /\ UNCHANGED <<inputs, buf, measured, pc, limit>>

LiteralValue ==
  /\ pc = "block" /\ offset # limit /\ Here # limit /\ Tag % 2 = 0
  /\ Emit(<<At(Here)>>)
  /\ Advance(1, Here + 1)

CopyValue ==
  /\ pc = "block" /\ offset # limit /\ Here # limit /\ Tag % 2 = 1
  /\ Here + 2 <= limit
  /\ Copy(LZNT1_VALUE_OFFSET(Word(Here)), LZNT1_VALUE_LEN(Word(Here)))
  /\ Advance(LZNT1_VALUE_LEN(Word(Here)), Here + 2)

ValueOverrun ==
  /\ pc = "block" /\ offset # limit /\ Here + 1 = limit /\ Tag % 2 = 1
  /\ Fail /\ UNCHANGED lznt1

\* A tag with nothing behind it counts as the end as well.
BlockEnd ==
  /\ pc = "block" /\ (offset = limit \/ Here = limit)
  /\ offset' = limit /\ pc' = "header"
  /\ UNCHANGED <<inputs, buf, out_len, out, measured, limit, split, next_threshold, tag, tag_bit,
                 block_out_len>>
---------------------------------------------------------------------------
(* The encoder.                                                            *)

\* A distance takes the bits for all of the block that is out, and at least
\* those for THRESHOLD; the length has the others.
LengthBits(n) == Max({k \in 0 .. SPLIT : n * 2^k <= THRESHOLD * 2^SPLIT})

Bytes(word) == <<word % BYTE, word \div BYTE>>

Value(token) ==
  IF token.distance = 0 THEN <<token.byte>>
  ELSE Bytes((token.distance - 1) * 2^LengthBits(token.at) + token.length - 3)

Flag(token, bit) == IF token.distance = 0 THEN 0 ELSE 2^bit

Group(tokens, first) ==
  LET last == Min({first + TAG_BITS - 1, Len(tokens)})
  IN  <<MapThenSumSet(LAMBDA k : Flag(tokens[k], k - first), first .. last)>>
      \o FlattenSeq([k \in 1 .. last - first + 1 |-> Value(tokens[first + k - 1])])

\* The header may say less than there is.
Compressed(tokens, short) ==
  LET groups == ((Len(tokens) - 1) \div TAG_BITS) + 1
      body == FlattenSeq([g \in 1 .. groups |-> Group(tokens, (g - 1) * TAG_BITS + 1)])
  IN  Bytes(COMPRESSED + Len(body) - short - 1) \o body

Fitting(t) == {tokens \in Parses(t, 3) :
                 \A k \in DOMAIN tokens : tokens[k].length - 3 < 2^LengthBits(tokens[k].at)}

Encodings(t) == {Bytes(Len(t) - 1) \o t} \cup {Compressed(tokens, 0) : tokens \in Fitting(t)}

Whole(blocks, end) ==
  /\ text = FlattenSeq(blocks)
  /\ \E e \in [DOMAIN blocks -> UNION {Encodings(b) : b \in ToSet(blocks)}] :
       /\ \A k \in DOMAIN blocks : e[k] \in Encodings(blocks[k])
       /\ data = FlattenSeq(e) \o end
  /\ len \in Told

\* A block that its header ends early, maybe within a match.
EndsEarly(blocks) ==
  /\ Len(blocks) = 1 /\ text = blocks[1]
  /\ \E tokens \in Fitting(text) : data = Compressed(tokens, 1)
  /\ len = Len(data) - 1

Init ==
  /\ \E blocks \in Texts : EndsEarly(blocks) \/ \E end \in {<<>>, <<0>>} : Whole(blocks, end)
  /\ InflateInit
  /\ offset = 0 /\ limit = 0 /\ split = SPLIT /\ next_threshold = THRESHOLD
  /\ tag = 0 /\ tag_bit = 0 /\ block_out_len = 0

Next == \/ Start \/ End \/ Overrun \/ StoredBlock \/ CompressedBlock
        \/ LiteralValue \/ CopyValue \/ ValueOverrun \/ BlockEnd

Spec == Init /\ [][Next]_vars
============================================================================
