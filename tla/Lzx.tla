-------------------------------- MODULE Lzx --------------------------------
(***************************************************************************)
(* lzx.c: blocks of three types in a stream of bits, the lengths of whose  *)
(* codes are themselves coded, as differences to those of the last block;  *)
(* matches name one of the last three distances or a new one; and the      *)
(* targets of jumps are made relative again in the end.                    *)
(***************************************************************************)
EXTENDS Inflate

CONSTANTS
  Plans,                     \* what is encoded, and how: see below
  HUFFMAN_BITS,              \* 16: bits of a word, which is two bytes
  HUFFMAN_QL_BITS,
  LZX_PRETREE_BITS,          \* 4
  LZX_POSITION_SLOTS,        \* 30
  LZX_LENGTH_CODES,          \* 249
  LZX_DEFAULT_BLOCK_LEN,     \* 32768, which is WIM_CHUNK_LEN
  LZX_WIM_MAGIC_FILESIZE,    \* 12000000
  JUMP                       \* 0xe8

VARIABLE lzx                 \* struct lzx

LOCAL INSTANCE Huffman

vars == <<inflateVars, lzx>>

BYTE_BITS == HUFFMAN_BITS \div 2
BYTE == 2^BYTE_BITS
LZX_MAIN_LIT_CODES == BYTE
LZX_PRETREE_CODES == HUFFMAN_BITS + 4
LZX_MAIN_CODES == LZX_MAIN_LIT_CODES + 8 * LZX_POSITION_SLOTS

LZX_BLOCK_VERBATIM == 1
LZX_BLOCK_ALIGNOFFSET == 2
LZX_BLOCK_UNCOMPRESSED == 3

lzx_footer_bits(slot) == IF slot < 2 THEN 0 ELSE (slot \div 2) - 1

lzx_position_base[slot \in 0 .. LZX_POSITION_SLOTS - 1] ==
  IF slot = 0 THEN 0 ELSE lzx_position_base[slot - 1] + 2^lzx_footer_bits(slot - 1)

NumberOf(bits) == FoldLeft(LAMBDA n, bit : 2 * n + bit, 0, bits)
Number4(bytes) == bytes[1] + BYTE * bytes[2] + BYTE^2 * bytes[3] + BYTE^3 * bytes[4]
Bytes4(n) == [i \in 1 .. 4 |-> (n \div BYTE^(i - 1)) % BYTE]
Numbers(first, last) == [i \in 1 .. last - first + 1 |-> first + i - 1]
---------------------------------------------------------------------------
(* The stream of struct lzx z: bits accumulated from the words before      *)
(* z.offset.  A call leaves what it got in z.value; when there is not      *)
(* enough z.ok is FALSE, and no further call does anything.                *)

lzx_accumulate(z, n) ==
  IF Len(z.bits) < n /\ z.offset < len
  THEN [z EXCEPT !.offset = @ + 2,
                 !.bits = @ \o BitsOf(At(z.offset) + BYTE * At(z.offset + 1), HUFFMAN_BITS)]
  ELSE z

lzx_consume(z, n) ==
  IF Len(z.bits) < n THEN [z EXCEPT !.ok = FALSE]
  ELSE [z EXCEPT !.bits = SubSeq(@, n + 1, Len(@))]

\* The accumulator has zeros behind its bits.
Ahead(z, n) == NumberOf(SubSeq(z.bits \o BitsOf(0, n), 1, n))

lzx_getbits(z, n) ==
  LET full == lzx_accumulate(z, n)
  IN  IF ~z.ok THEN z
      ELSE [lzx_consume(full, n) EXCEPT !.value = Ahead(full, n)]

lzx_decode(z, alphabet) ==
  LET full == lzx_accumulate(z, HUFFMAN_BITS)
      huf == Ahead(full, HUFFMAN_BITS)
      bits == huffman_sym(alphabet, huf)
  IN  IF ~z.ok THEN z
      ELSE [lzx_consume(full, bits) EXCEPT !.value = huffman_raw(alphabet, bits, huf)]

lzx_align(z, n) == [lzx_getbits(z, n) EXCEPT !.bits = <<>>]

lzx_getbytes(z, n) ==
  IF z.ok /\ z.offset + n <= len
  THEN [z EXCEPT !.offset = @ + n, !.raw = SubSeq(data, z.offset + 1, z.offset + n)]
  ELSE [z EXCEPT !.ok = FALSE]

\* count numbers of n bits each, in z.raw.
Raw(z, count, n) ==
  FoldLeft(LAMBDA acc, k : LET got == lzx_getbits(acc, n) IN [got EXCEPT !.raw = Append(@, got.value)],
           [z EXCEPT !.raw = <<>>], Numbers(1, count))

AlphabetOf(raw) == huffman_alphabet([k \in 0 .. Len(raw) - 1 |-> raw[k + 1]])
---------------------------------------------------------------------------
(* Matches.                                                                *)

\* As Recents, but with the others moved up.
MovedUp(recent, slot, distance) ==
  CASE slot = 0 -> recent
    [] slot = 1 -> <<recent[2], recent[1], recent[3]>>
    [] slot = 2 -> <<recent[3], recent[1], recent[2]>>
    [] slot > 2 -> <<distance, recent[1], recent[2]>>

\* The repeated distances after a match, whose own is the first of them: it
\* changes places with the first one, or all of them are moved up.
Recents(recent, slot, distance) ==
  IF slot < 3 THEN [recent EXCEPT ![slot + 1] = recent[1], ![1] = recent[slot + 1]]
  ELSE <<distance, recent[1], recent[2]>>

\* The offset within a slot.
FooterValue(z, slot) ==
  LET n == lzx_footer_bits(slot)
      verbatim_bits == lzx_getbits(z, n - 3)
      aligned_bits == lzx_decode(verbatim_bits, z.alignoffset)
  IN  IF z.block_type = LZX_BLOCK_ALIGNOFFSET /\ n >= 3
      THEN [aligned_bits EXCEPT !.value = 8 * verbatim_bits.value + @]
      ELSE lzx_getbits(z, n)

\* The rest of a match, from its symbol; leaves its length in z.value.
MatchOf(z, main) ==
  LET length_header == main % 8
      slot == main \div 8
      length == IF length_header = 7 THEN lzx_decode(z, z.length) ELSE [z EXCEPT !.value = 0]
      footer == IF slot < 3 THEN length ELSE FooterValue(length, slot)
      offset == lzx_position_base[slot] + footer.value - 2
  IN  [footer EXCEPT !.value = length_header + 2 + length.value,
                     !.repeated_offset = Recents(@, slot, offset)]

\* Each jump but those in the last ten bytes and in the target of another.
Jumps(bytes) ==
  LET isJump[offset \in 0 .. Len(bytes) - 11] ==
        /\ bytes[offset + 1] = JUMP
        /\ \A k \in 1 .. 4 : k <= offset => ~isJump[offset - k]
  IN  {offset \in 0 .. Len(bytes) - 11 : isJump[offset]}

WithTargets(bytes, Target(_, _)) ==
  LET jumps == Jumps(bytes)
      at(p) == CHOOSE offset \in jumps : p - offset \in 2 .. 5
      target(offset) == Number4(SubSeq(bytes, offset + 2, offset + 5))
      signed(n) == IF n < BYTE^4 \div 2 THEN n ELSE n - BYTE^4
  IN  [p \in DOMAIN bytes |->
         IF \A offset \in jumps : p - offset \notin 2 .. 5 THEN bytes[p]
         ELSE Bytes4(Target(signed(target(at(p))), at(p)))[p - at(p) - 1]]

Relative(target, offset) ==
  CASE target \in 0 .. LZX_WIM_MAGIC_FILESIZE - 1 -> target - offset
    [] target \in -offset .. -1                   -> target + LZX_WIM_MAGIC_FILESIZE
    [] OTHER                                      -> target

lzx_translate_jumps(bytes) == WithTargets(bytes, Relative)
---------------------------------------------------------------------------
(* A call, and the next one if it is not the last, is a step: \E x \in {e} *)
(* names what it leaves.                                                   *)

\* The lengths of codes are one function: those of literals, other symbols and
\* lengths of matches.
TableEnds == <<LZX_MAIN_LIT_CODES - 1, LZX_MAIN_CODES - 1, LZX_MAIN_CODES + LZX_LENGTH_CODES - 1>>

TableStart(table) == IF table = 1 THEN 0 ELSE TableEnds[table - 1] + 1

MainLengths(lengths) == [raw \in 0 .. LZX_MAIN_CODES - 1 |-> lengths[raw]]
LengthLengths(lengths) == [raw \in 0 .. LZX_LENGTH_CODES - 1 |-> lengths[LZX_MAIN_CODES + raw]]

Cleared ==
  [offset |-> 0, bits |-> <<>>, ok |-> TRUE, value |-> 0, raw |-> <<>>,
   threshold |-> 0, block_type |-> 0, repeated_offset |-> <<1, 1, 1>>,
   table |-> 0, i |-> 0, lengths |-> [raw \in 0 .. TableEnds[3] |-> 0],
   pretree |-> AlphabetOf(<<>>), alignoffset |-> AlphabetOf(<<>>),
   main |-> AlphabetOf(<<>>), length |-> AlphabetOf(<<>>)]

Start ==
  /\ pc = "start"
  /\ IF len % 2 = 1 THEN Fail /\ UNCHANGED lzx
     ELSE /\ pc' = "blocks"
          /\ lzx' = Cleared
          /\ UNCHANGED <<inputs, buf, out_len, out, measured>>

\* z is what is left of lzx, pc where to go on.
Then(z, next) == z.ok /\ lzx' = z /\ pc' = next /\ UNCHANGED <<inputs, buf, measured>>
Silent == UNCHANGED <<out_len, out>>
FailUnless(ok) == ~ok /\ Fail /\ UNCHANGED lzx

Proceed(z, next) == \/ Then(z, next) /\ Silent
                    \/ FailUnless(z.ok)

Types == {LZX_BLOCK_VERBATIM, LZX_BLOCK_ALIGNOFFSET, LZX_BLOCK_UNCOMPRESSED}

BlockDone == pc = "blocks" /\ out_len >= lzx.threshold

Header(z, block_len) ==
  Proceed([z EXCEPT !.threshold = out_len + block_len, !.ok = @ /\ z.block_type \in Types], "header")

BlockHeader ==
  /\ BlockDone /\ lzx.offset < len
  /\ \E type \in {lzx_getbits(lzx, 3)} :
       \E default \in {lzx_getbits([type EXCEPT !.block_type = type.value], 1)} :
         IF default.ok /\ default.value = 1
         THEN Header(default, LZX_DEFAULT_BLOCK_LEN)
         ELSE \E high \in {lzx_getbits(default, BYTE_BITS)} :
                \E low \in {lzx_getbits(high, BYTE_BITS)} :
                  Header(low, BYTE * high.value + low.value)

Uncompressed ==
  /\ pc = "header" /\ lzx.block_type = LZX_BLOCK_UNCOMPRESSED
  /\ \E z \in {lzx_getbytes(lzx_align(lzx, 1), 12)} :
       Proceed(IF ~z.ok THEN z
               ELSE [z EXCEPT !.repeated_offset =
                       [k \in 1 .. 3 |-> Number4(SubSeq(z.raw, 4 * k - 3, 4 * k))]], "blocks")

lzx_alignoffset_alphabet ==
  /\ pc = "header" /\ lzx.block_type = LZX_BLOCK_ALIGNOFFSET
  /\ \E z \in {Raw(lzx, 8, 3)} : \E alphabet \in {AlphabetOf(z.raw)} :
       Proceed([z EXCEPT !.alignoffset = alphabet, !.ok = @ /\ alphabet.ok, !.table = 1], "pretree")

Verbatim ==
  /\ pc = "header" /\ lzx.block_type = LZX_BLOCK_VERBATIM
  /\ Then([lzx EXCEPT !.table = 1], "pretree") /\ Silent

lzx_pretree ==
  /\ pc = "pretree"
  /\ \E z \in {Raw(lzx, LZX_PRETREE_CODES, LZX_PRETREE_BITS)} : \E alphabet \in {AlphabetOf(z.raw)} :
       Proceed([z EXCEPT !.pretree = alphabet, !.ok = @ /\ alphabet.ok,
                         !.i = TableStart(lzx.table)], "codes")

\* A remainder as of C, in a uint8_t: negative for a greater code than there is,
\* which only damaged data have.
Changed(length, code) == LET sum == length - code + HUFFMAN_BITS + 1
                         IN  IF sum >= 0 THEN sum % (HUFFMAN_BITS + 1) ELSE sum + 256

\* n times the same length, not beyond the table.
Fill(z, length, n) ==
  Proceed([z EXCEPT !.ok = @ /\ z.i + n - 1 <= TableEnds[z.table],
                    !.lengths = [raw \in DOMAIN @ |-> IF raw \in z.i .. z.i + n - 1
                                                      THEN length ELSE @[raw]],
                    !.i = @ + n], "codes")

PretreeCode ==
  /\ pc = "codes" /\ lzx.i <= TableEnds[lzx.table]
  /\ \E code \in {lzx_decode(lzx, lzx.pretree)} :
       \/ FailUnless(code.ok)
       \/ code.ok /\ code.value <= HUFFMAN_BITS /\ Fill(code, Changed(lzx.lengths[lzx.i], code.value), 1)
       \/ /\ code.ok /\ code.value = HUFFMAN_BITS + 1
          /\ \E dup \in {lzx_getbits(code, 4)} : Fill(dup, 0, dup.value + 4)
       \/ /\ code.ok /\ code.value = HUFFMAN_BITS + 2
          /\ \E dup \in {lzx_getbits(code, 5)} : Fill(dup, 0, dup.value + 20)
       \/ /\ code.ok /\ code.value = HUFFMAN_BITS + 3
          /\ \E dup \in {lzx_getbits(code, 1)} : \E next \in {lzx_decode(dup, lzx.pretree)} :
               Fill(next, Changed(lzx.lengths[lzx.i], next.value), dup.value + 4)

\* After the second table and the third one an alphabet is made.
TableDone ==
  /\ pc = "codes" /\ lzx.i > TableEnds[lzx.table]
  /\ CASE lzx.table = 1 -> Then([lzx EXCEPT !.table = 2], "pretree") /\ Silent
       [] lzx.table = 2 -> \E alphabet \in {huffman_alphabet(MainLengths(lzx.lengths))} :
            Proceed([lzx EXCEPT !.table = 3, !.main = alphabet, !.ok = alphabet.ok], "pretree")
       [] lzx.table = 3 -> \E alphabet \in {huffman_alphabet(LengthLengths(lzx.lengths))} :
            Proceed([lzx EXCEPT !.length = alphabet, !.ok = alphabet.ok], "blocks")

InBlock(types) == pc = "blocks" /\ out_len < lzx.threshold /\ lzx.block_type \in types

lzx_uncompressed ==
  /\ InBlock({LZX_BLOCK_UNCOMPRESSED})
  /\ LET n == lzx.threshold - out_len
     IN  \E z \in {lzx_getbytes(lzx, n)} :
           \/ Then([z EXCEPT !.offset = @ + (n % 2)], "blocks") /\ Emit(z.raw)
           \/ FailUnless(z.ok)

lzx_token ==
  /\ InBlock({LZX_BLOCK_VERBATIM, LZX_BLOCK_ALIGNOFFSET})
  /\ \E main \in {lzx_decode(lzx, lzx.main)} :
       \/ FailUnless(main.ok)
       \/ main.ok /\ main.value < LZX_MAIN_LIT_CODES /\ Then(main, "blocks") /\ Emit(<<main.value>>)
       \/ /\ main.ok /\ main.value >= LZX_MAIN_LIT_CODES
          /\ \E match \in {MatchOf(main, main.value - LZX_MAIN_LIT_CODES)} :
               LET distance == match.repeated_offset[1]
               IN  \/ /\ distance <= out_len /\ Then(match, "blocks")
                      /\ Copy(distance, match.value)
                   \/ FailUnless(match.ok /\ distance <= out_len)

Finish ==
  /\ BlockDone /\ lzx.offset >= len
  /\ Return(lzx_translate_jumps(out))
  /\ UNCHANGED lzx
---------------------------------------------------------------------------
(* The encoder.  A plan has a text, its blocks, [len, type, skewed], and    *)
(* the shortest match and most tokens to be used for it.                   *)

Absolute(target, offset) ==
  CASE target \in -offset .. LZX_WIM_MAGIC_FILESIZE - offset - 1 -> target + offset
    [] target \in LZX_WIM_MAGIC_FILESIZE - offset .. LZX_WIM_MAGIC_FILESIZE - 1 ->
         target - LZX_WIM_MAGIC_FILESIZE
    [] OTHER -> target

\* Lengths of codes for the symbols used, of which there must not be one alone:
\* about the same, or each longer than the one before if there are codes so long.
LengthsFor(used, skewed, count) ==
  LET all == IF Cardinality(used) = 1 THEN used \cup {Min(0 .. 1 \ used)} ELSE used
      n == Cardinality(all)
      most == Min({k \in 0 .. n : 2^k >= n})
      grow == skewed /\ n <= HUFFMAN_BITS + 1
      rank(raw) == Cardinality({r \in all : r < raw})
  IN  [raw \in 0 .. count - 1 |->
         CASE raw \notin all         -> 0
           [] raw \in all /\ grow  -> Min({rank(raw) + 1, n - 1})
           [] raw \in all /\ ~grow -> IF rank(raw) < 2^most - n THEN most - 1 ELSE most]

\* first .. last of new as items: codes with bits behind the first one.
Items(new, old, first, last) ==
  LET run(i) == Max({n \in 1 .. last - i + 1 : \A k \in 0 .. n - 1 : new[i + k] = new[i]})
      code(i) == (old[i] - new[i] + HUFFMAN_BITS + 1) % (HUFFMAN_BITS + 1)
      from[i \in first .. last + 1] ==
        IF i > last THEN <<>>
        ELSE LET n == run(i)
                 item(codes, bits, taken) == <<[codes |-> codes, bits |-> bits]>> \o from[i + taken]
             IN  CASE new[i] = 0 /\ n >= 20 ->
                        LET k == Min({n, 51}) IN item(<<HUFFMAN_BITS + 2>>, BitsOf(k - 20, 5), k)
                   [] new[i] = 0 /\ n \in 4 .. 19 ->
                        item(<<HUFFMAN_BITS + 1>>, BitsOf(n - 4, 4), n)
                   [] new[i] # 0 /\ n >= 4 ->
                        LET k == Min({n, 5}) IN item(<<HUFFMAN_BITS + 3, code(i)>>, BitsOf(k - 4, 1), k)
                   [] OTHER -> item(<<code(i)>>, <<>>, 1)
  IN  from[first]

PretreeBits(new, old, first, last, skewed) ==
  LET items == Items(new, old, first, last)
      used == UNION {Range(items[k].codes) : k \in DOMAIN items}
      lengths == LengthsFor(used, skewed, LZX_PRETREE_CODES)
      coded(item) == Code(lengths, item.codes[1]) \o item.bits
                     \o (IF Len(item.codes) = 2 THEN Code(lengths, item.codes[2]) ELSE <<>>)
  IN  FlattenSeq([k \in 1 .. LZX_PRETREE_CODES |-> BitsOf(lengths[k - 1], LZX_PRETREE_BITS)])
      \o FlattenSeq([k \in DOMAIN items |-> coded(items[k])])

\* A match by one of the last distances, if it has one of them.
SlotOf(token, recent) ==
  LET again == {slot \in 0 .. 2 : recent[slot + 1] = token.distance}
  IN  IF again # {} THEN Min(again)
      ELSE Max({slot \in 3 .. LZX_POSITION_SLOTS - 1 :
                  lzx_position_base[slot] <= token.distance + 2})

IsLiteral(token) == token.distance = 0

SymbolOf(token, slot) ==
  IF IsLiteral(token) THEN token.byte
  ELSE LZX_MAIN_LIT_CODES + 8 * slot + Min({token.length - 2, 7})

Footer(token, slot) == token.distance + 2 - lzx_position_base[slot]

\* The last three different distances, the last one first, but that the one of
\* them that is used again leaves its place to the one before it.
Used(recent, distance) ==
  CASE distance = recent[1]                        -> recent
    [] distance # recent[1] /\ distance = recent[2] -> <<recent[2], recent[1], recent[3]>>
    [] distance \notin {recent[1], recent[2]} /\ distance = recent[3] ->
         <<recent[3], recent[2], recent[1]>>
    [] distance \notin Range(recent)               -> <<distance, recent[1], recent[2]>>

\* The last distances before each token, and after all of them.
RecentsBefore(tokens, recent) ==
  LET before[k \in 1 .. Len(tokens) + 1] ==
        IF k = 1 THEN recent
        ELSE LET token == tokens[k - 1]
             IN  IF IsLiteral(token) THEN before[k - 1]
                 ELSE Used(before[k - 1], token.distance)
  IN  before

HeaderBits(type, length, whole) ==
  BitsOf(type, 3) \o (IF whole /\ length = LZX_DEFAULT_BLOCK_LEN THEN <<1>>
                      ELSE <<0>> \o BitsOf(length, 2 * BYTE_BITS))

\* Padding to a word, of a bit at least.
Padding(bits, least) == BitsOf(0, least + ((-Len(bits) - least) % HUFFMAN_BITS))

\* A block of type 3 has its bytes in words with the bits.
WordsOf(bytes) ==
  LET even == IF Len(bytes) % 2 = 1 THEN Append(bytes, 0) ELSE bytes
  IN  FlattenSeq([k \in 1 .. Len(even) \div 2 |->
                    BitsOf(even[2 * k - 1] + BYTE * even[2 * k], HUFFMAN_BITS)])

PutStored(e, bytes, whole) ==
  LET header == e.bits \o HeaderBits(LZX_BLOCK_UNCOMPRESSED, Len(bytes), whole)
      repeated == FlattenSeq([k \in 1 .. 3 |-> Bytes4(e.recent[k])])
  IN  [e EXCEPT !.bits = header \o Padding(header, 1) \o WordsOf(repeated \o bytes)]

PutTokens(e, tokens, length, block, whole) ==
  LET before == RecentsBefore(tokens, e.recent)
      indexes == DOMAIN tokens
      matches == {k \in indexes : ~IsLiteral(tokens[k])}
      slot == [k \in matches |-> SlotOf(tokens[k], before[k])]
      symbol == [k \in indexes |-> SymbolOf(tokens[k], IF k \in matches THEN slot[k] ELSE 0)]
      long == {k \in matches : tokens[k].length >= 9}
      aligned == {k \in matches : /\ block.type = LZX_BLOCK_ALIGNOFFSET
                                  /\ slot[k] >= 3 /\ lzx_footer_bits(slot[k]) >= 3}
      mains == LengthsFor({symbol[k] : k \in indexes}, block.skewed, LZX_MAIN_CODES)
      lens == LengthsFor({tokens[k].length - 9 : k \in long}, block.skewed, LZX_LENGTH_CODES)
      aligns == LengthsFor({Footer(tokens[k], slot[k]) % 8 : k \in aligned}, block.skewed, 8)
      footer(k) == LET n == lzx_footer_bits(slot[k])
                   IN  CASE slot[k] < 3   -> <<>>
                         [] k \in aligned -> BitsOf(Footer(tokens[k], slot[k]) \div 8, n - 3)
                                             \o Code(aligns, Footer(tokens[k], slot[k]) % 8)
                         [] OTHER         -> BitsOf(Footer(tokens[k], slot[k]), n)
      put(k) == Code(mains, symbol[k])
                \o (IF k \in long THEN Code(lens, tokens[k].length - 9) ELSE <<>>)
                \o (IF k \in matches THEN footer(k) ELSE <<>>)
  IN  [bits |-> e.bits \o HeaderBits(block.type, length, whole)
                \o (IF block.type = LZX_BLOCK_ALIGNOFFSET
                    THEN FlattenSeq([k \in 1 .. 8 |-> BitsOf(aligns[k - 1], 3)]) ELSE <<>>)
                \o PretreeBits(mains, e.mains, 0, LZX_MAIN_LIT_CODES - 1, block.skewed)
                \o PretreeBits(mains, e.mains, LZX_MAIN_LIT_CODES, LZX_MAIN_CODES - 1, block.skewed)
                \o PretreeBits(lens, e.lens, 0, LZX_LENGTH_CODES - 1, block.skewed)
                \o FlattenSeq([k \in indexes |-> put(k)]),
       recent |-> before[Len(tokens) + 1], mains |-> mains, lens |-> lens]

BlockStart(blocks, b) == FoldLeft(LAMBDA n, block : n + block.len, 0, SubSeq(blocks, 1, b - 1))

Within(blocks, b, token) ==
  /\ token.at >= BlockStart(blocks, b)
  /\ token.at + token.length <= BlockStart(blocks, b + 1)

Encodable(blocks, tokens) ==
  \A k \in DOMAIN tokens : /\ tokens[k].length <= LZX_LENGTH_CODES + 8
                           /\ \E b \in DOMAIN blocks : Within(blocks, b, tokens[k])

Encoded(bytes, blocks, tokens) ==
  LET put(e, b) ==
        LET block == blocks[b]
            start == BlockStart(blocks, b)
            whole == Len(blocks) = 1
        IN  IF block.type = LZX_BLOCK_UNCOMPRESSED
            THEN PutStored(e, SubSeq(bytes, start + 1, start + block.len), whole)
            ELSE PutTokens(e, SelectSeq(tokens, LAMBDA token : Within(blocks, b, token)),
                           block.len, block, whole)
      e == FoldLeft(put, [bits |-> <<>>, recent |-> <<1, 1, 1>>,
                          mains |-> [raw \in 0 .. LZX_MAIN_CODES - 1 |-> 0],
                          lens |-> [raw \in 0 .. LZX_LENGTH_CODES - 1 |-> 0]],
                    Numbers(1, Len(blocks)))
      bits == e.bits \o Padding(e.bits, 0)
      word(k) == NumberOf(SubSeq(bits, (k - 1) * HUFFMAN_BITS + 1, k * HUFFMAN_BITS))
  IN  FlattenSeq([k \in 1 .. Len(bits) \div HUFFMAN_BITS |->
                    <<word(k) % BYTE, word(k) \div BYTE>>])

\* In a stored block there is nothing to parse.
Init ==
  /\ \E plan \in Plans :
       LET bytes == WithTargets(plan.text, Absolute)
           blocks == plan.blocks
       IN  \E tokens \in Parses(bytes, plan.shortest) :
             /\ Len(tokens) <= plan.most
             /\ Encodable(blocks, tokens)
             /\ \A k \in DOMAIN tokens, b \in DOMAIN blocks :
                  blocks[b].type = LZX_BLOCK_UNCOMPRESSED /\ Within(blocks, b, tokens[k]) =>
                    IsLiteral(tokens[k])
             /\ text = plan.text /\ data = Encoded(bytes, blocks, tokens)
  /\ len \in Told
  /\ InflateInit
  /\ lzx = Cleared

Next == \/ Start \/ BlockHeader \/ Uncompressed \/ lzx_alignoffset_alphabet \/ Verbatim
        \/ lzx_pretree \/ PretreeCode \/ TableDone
        \/ lzx_uncompressed \/ lzx_token \/ Finish

Spec == Init /\ [][Next]_vars
============================================================================
