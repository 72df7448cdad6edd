-------------------------------- MODULE Xca --------------------------------
(***************************************************************************)
(* xca.c: bits in words and, between these, whole bytes for long matches;  *)
(* an alphabet for each 64 kB of output.  The symbol of a match of three   *)
(* bytes at distance 1 is also the one that ends the data.                 *)
(***************************************************************************)
EXTENDS Inflate

CONSTANTS
  Texts, Tables,            \* texts; lengths of the codes
  BYTE,                     \* 256
  HUFFMAN_BITS, HUFFMAN_QL_BITS,
  XCA_CODES,                \* 512
  XCA_END_MARKER,           \* 256: the symbols below are bytes
  LEN_BITS,                 \* 4: bits of a symbol that say how long a match is
  XCA_BLOCK_SIZE            \* 64 kB

VARIABLES
  tokens, tables,           \* what the encoder makes of the text, and by which codes
  src,                      \* the place in data
  accum,                    \* HUFFMAN_BITS + extra_bits bits taken from there
  alphabet,
  out_len_threshold

xca == <<src, accum, alphabet, out_len_threshold>>
encoding == <<tokens, tables>>
vars == <<inflateVars, encoding, xca>>

LOCAL INSTANCE Huffman

LenMask == 2^LEN_BITS - 1

NumberOf(bits) == FoldLeft(LAMBDA n, bit : 2 * n + bit, 0, bits)

\* A word; the low byte comes first.
WordBits(p) == BitsOf(At(p) + BYTE * At(p + 1), HUFFMAN_BITS)

\* What is left of the accumulator, and where to read on, once so many bits are
\* used: a word is taken when there are not as many as a symbol may have.
Used(bits, p, n) ==
  LET rest == SubSeq(bits, n + 1, Len(bits))
  IN  IF Len(rest) < HUFFMAN_BITS THEN [bits |-> rest \o WordBits(p), src |-> p + 2]
      ELSE [bits |-> rest, src |-> p]

Start ==
  /\ pc = "start" /\ pc' = "loop"
  /\ src' = 0 /\ accum' = <<>> /\ out_len_threshold' = 0
  /\ UNCHANGED <<inputs, buf, out_len, out, measured, encoding, alphabet>>

Initialise ==
  /\ pc = "loop" /\ src < len /\ out_len >= out_len_threshold
  /\ LET table == SubSeq(data, src + 1, src + XCA_CODES)
         after == src + XCA_CODES
         built == huffman_alphabet([raw \in 0 .. XCA_CODES - 1 |-> table[raw + 1]])
     IN  IF after > len \/ ~built.ok THEN Fail /\ UNCHANGED xca
         ELSE /\ alphabet' = built
              /\ accum' = WordBits(after) \o WordBits(after + 2)
              /\ src' = after + 4
              /\ out_len_threshold' = out_len + XCA_BLOCK_SIZE
              /\ UNCHANGED <<inputs, buf, out_len, out, measured, pc>>
  /\ UNCHANGED encoding

Huf == NumberOf(SubSeq(accum, 1, HUFFMAN_BITS))
Bits == huffman_sym(alphabet, Huf)
Raw == huffman_raw(alphabet, Bits, Huf)

\* The loop's condition, and no alphabet due.
Decoding == pc = "loop" /\ src < len /\ out_len < out_len_threshold

LiteralSymbol ==
  /\ Decoding /\ Raw < XCA_END_MARKER
  /\ Emit(<<Raw>>)
  /\ accum' = Used(accum, src, Bits).bits /\ src' = Used(accum, src, Bits).src
  /\ UNCHANGED <<inputs, buf, measured, pc, encoding, alphabet, out_len_threshold>>

IsEnd == Raw = XCA_END_MARKER /\ Used(accum, src, Bits).src >= len - 1

EndSymbol == Decoding /\ IsEnd /\ Return(out) /\ UNCHANGED <<encoding, xca>>

\* With what a symbol can say added to the word, too.
MaskAdded(low, p) ==
  CASE low < LenMask        -> [len |-> low, src |-> p]
    [] At(p) < BYTE - 1     -> [len |-> At(p) + LenMask, src |-> p + 1]
    [] OTHER                -> [len |-> At(p + 1) + BYTE * At(p + 2) + LenMask, src |-> p + 3]

\* The length of a match as the symbol has it, or the bytes behind.
MatchLen(low, p) ==
  CASE low < LenMask        -> [len |-> low, src |-> p]
    [] At(p) < BYTE - 1     -> [len |-> At(p) + LenMask, src |-> p + 1]
    [] OTHER                -> [len |-> At(p + 1) + BYTE * At(p + 2), src |-> p + 3]

MatchSymbol ==
  /\ Decoding /\ Raw >= XCA_END_MARKER /\ ~IsEnd
  /\ LET symbol == Used(accum, src, Bits)
         match_offset_bits == (Raw - XCA_END_MARKER) \div 2^LEN_BITS
         match == MatchLen((Raw - XCA_END_MARKER) % 2^LEN_BITS, symbol.src)
         after == Used(symbol.bits, match.src, match_offset_bits)
     IN  /\ Copy(NumberOf(SubSeq(symbol.bits, 1, match_offset_bits)) + 2^match_offset_bits,
                 match.len + 3)
         /\ accum' = after.bits /\ src' = after.src
  /\ UNCHANGED <<inputs, buf, measured, pc, encoding, alphabet, out_len_threshold>>

\* With no end marker.
End == pc = "loop" /\ src = len /\ Return(out) /\ UNCHANGED <<encoding, xca>>

Overrun == pc = "loop" /\ src > len /\ Fail /\ UNCHANGED <<encoding, xca>>
---------------------------------------------------------------------------
(* The encoder.  It keeps two words open: one is put down, for the bits to *)
(* come, when those written no longer fit into the words before it.        *)

OffsetBits(distance) == Max({k \in 0 .. distance : 2^k <= distance})

\* Of all matches, the one with the symbol of the end marker.
IsMarker(token) == token.length = 3 /\ token.distance = 1

\* Its symbol, the bytes behind it and the bits behind those.
Symbol(token) ==
  IF token.distance = 0 THEN token.byte
  ELSE XCA_END_MARKER + 2^LEN_BITS * OffsetBits(token.distance) + Min({token.length - 3, LenMask})

Behind(token) ==
  LET n == token.length - 3
  IN  CASE token.distance = 0 \/ n < LenMask -> <<>>
        [] n - LenMask < BYTE - 1 -> <<n - LenMask>>
        [] OTHER -> <<BYTE - 1, n % BYTE, n \div BYTE>>

DistanceBits(token) ==
  IF token.distance = 0 THEN <<>>
  ELSE BitsOf(token.distance - 2^OffsetBits(token.distance), OffsetBits(token.distance))

\* Words put down when so many bits are written.
Open(n) == IF n = 0 THEN 2 ELSE ((n - 1) \div HUFFMAN_BITS) + 2

\* e.layout is bytes, and for those of the words numbers from -1 down.
Words(n) == [i \in 1 .. 2 * n |-> -i]

Put(e, bits) ==
  LET before == 2 * Open(Len(e.bits))
      after == Words(Open(Len(e.bits) + Len(bits)))
  IN  [bits |-> e.bits \o bits, layout |-> e.layout \o SubSeq(after, before + 1, Len(after))]

CodeOf == [table \in Tables |-> [raw \in {r \in DOMAIN table : table[r] > 0} |-> Code(table, raw)]]

PutToken(e, token, table) ==
  LET coded == Put(e, CodeOf[table][Symbol(token)])
  IN  Put([coded EXCEPT !.layout = @ \o Behind(token)], DistanceBits(token))

Block(part, table) ==
  LET e == FoldLeft(LAMBDA acc, token : PutToken(acc, token, table),
                    [bits |-> <<>>, layout |-> Words(2)], part)
      padded == e.bits \o [i \in 1 .. HUFFMAN_BITS |-> 0]
      word(k) == IF (k - 1) * HUFFMAN_BITS >= Len(e.bits) THEN 0
                 ELSE NumberOf(SubSeq(padded, (k - 1) * HUFFMAN_BITS + 1, k * HUFFMAN_BITS))
      byte(cell) == CASE cell >= 0    -> cell
                      [] cell % 2 = 1 -> word((1 - cell) \div 2) % BYTE
                      [] OTHER        -> word((-cell) \div 2) \div BYTE
  IN  [raw \in 1 .. XCA_CODES |-> table[raw - 1]] \o [p \in DOMAIN e.layout |-> byte(e.layout[p])]

Blocks == ((Len(text) - 1) \div XCA_BLOCK_SIZE) + 1

\* The tokens of a block; the last one, which is never full, has the end marker.
Part(b) ==
  LET begin == {k \in DOMAIN tokens : tokens[k].at \div XCA_BLOCK_SIZE = b - 1}
  IN  SubSeq(tokens, Min(begin), Max(begin))
      \o (IF b = Blocks THEN <<Match(Len(text), 3, 1)>> ELSE <<>>)

Codes(part, table) ==
  \A k \in DOMAIN part : Symbol(part[k]) < XCA_CODES /\ table[Symbol(part[k])] > 0

Init ==
  /\ text \in Texts /\ tokens \in Parses(text, 3)
  /\ \A k \in DOMAIN tokens :   \* none reaches into the next block
       (tokens[k].at % XCA_BLOCK_SIZE) + tokens[k].length <= XCA_BLOCK_SIZE
  /\ tables \in [1 .. Blocks -> Tables]
  /\ \A b \in 1 .. Blocks : Codes(Part(b), tables[b])
  /\ data = FlattenSeq([b \in 1 .. Blocks |-> Block(Part(b), tables[b])])
  /\ len \in Told
  /\ InflateInit
  /\ src = 0 /\ accum = <<>> /\ alphabet = huffman_alphabet(<<>>) /\ out_len_threshold = 0

Next == \/ Start \/ Initialise \/ LiteralSymbol \/ MatchSymbol \/ EndSymbol \/ End \/ Overrun

Spec == Init /\ [][Next]_vars
---------------------------------------------------------------------------
\* Before the last token there is more to be read than the words read ahead, and
\* more than a byte behind every match that looks like the end marker.
EndsClear ==
  LET part == Part(Blocks)
      size(k) == Len(Block(SubSeq(part, 1, k), tables[Blocks]))
      all == Len(part)
  IN  /\ size(all - 2) < size(all)
      /\ \A k \in 1 .. all - 1 : IsMarker(part[k]) => size(k) < size(all) - 1

(* As Inflated says, where the end of the data is recognised.              *)
XcaInflated == Inflated \/ ~EndsClear

(* The length returned is that of the decompressed data (xca.c:41),        *)
(* whatever they end in.                                                   *)
LengthReturned == buf /\ len = Len(data) => measured = Len(text)
============================================================================
