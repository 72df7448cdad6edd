------------------------------ MODULE Huffman ------------------------------
(***************************************************************************)
(* The Huffman alphabets of wimldr's decompressors (huffman.c, huffman.h): *)
(* built from the lengths of the codes alone, they find the symbol at the  *)
(* front of HUFFMAN_BITS bits by a table for the first few of them and a   *)
(* search downwards.                                                       *)
(***************************************************************************)
EXTENDS Integers, Sequences, SequencesExt, FiniteSetsExt

CONSTANTS
  HUFFMAN_BITS,      \* the longest code
  HUFFMAN_QL_BITS    \* how many bits the quick lookup takes

CodeLens == 1 .. HUFFMAN_BITS
HUFFMAN_QL_SHIFT == HUFFMAN_BITS - HUFFMAN_QL_BITS

\* The table alone.
QuickOnly(alphabet, huf) == alphabet.lookup[huf \div 2^HUFFMAN_QL_SHIFT]

\* The first set to begin at huf or before is the last one here: the table
\* takes it by the first bits, the search goes on from there.
huffman_sym(alphabet, huf) ==
  Max({bits \in 1 .. alphabet.lookup[huf \div 2^HUFFMAN_QL_SHIFT] : alphabet.start[bits] <= huf})

\* The symbols of one length lie in `raw` by value; the pointer to them is
\* moved so that codes, and not positions, index it.  With no symbols at all
\* there are two codes, and the pointer was never moved on: it leads to in
\* front of `raw`, where the lookup table, here as [bits - 1], ends.
huffman_raw(alphabet, bits, huf) ==
  LET i == alphabet.first[bits] + (huf \div 2^(HUFFMAN_BITS - bits))
      byte(j) == alphabet.lookup[2^HUFFMAN_QL_BITS + j] - 1
  IN  IF i >= 0 THEN alphabet.raw[i + 1] ELSE byte(2 * i) + 256 * byte(2 * i + 1)

huffman_alphabet(lengths) ==
  LET with(bits) == {raw \in DOMAIN lengths : lengths[raw] = bits}
      empty == \A raw \in DOMAIN lengths : lengths[raw] = 0
      freq == [bits \in CodeLens |-> IF empty /\ bits = 1 THEN 2 ELSE Cardinality(with(bits))]
      huf[bits \in 1 .. HUFFMAN_BITS + 1] ==
        IF bits = 1 THEN 0 ELSE 2 * (huf[bits - 1] + freq[bits - 1])
      cum_freq[bits \in CodeLens] ==
        IF bits = 1 THEN 0 ELSE cum_freq[bits - 1] + freq[bits - 1]
      start == [bits \in CodeLens |-> huf[bits] * 2^(HUFFMAN_BITS - bits)]
  IN  [start  |-> start,
       first  |-> [bits \in CodeLens |->
                     cum_freq[bits] + Cardinality(with(bits)) - freq[bits] - huf[bits]],
       raw    |-> FlattenSeq([bits \in CodeLens |->
                     SelectSeq([k \in 1 .. Cardinality(DOMAIN lengths) |-> k - 1],
                               LAMBDA raw : lengths[raw] = bits)]),
       lookup |-> [prefix \in 0 .. 2^HUFFMAN_QL_BITS - 1 |->
                     Max({bits \in CodeLens : start[bits] \div 2^HUFFMAN_QL_SHIFT <= prefix})],
       ok     |-> /\ \A bits \in CodeLens : huf[bits] + freq[bits] <= 2^bits
                  /\ huf[HUFFMAN_BITS + 1] = 2^(HUFFMAN_BITS + 1)]
---------------------------------------------------------------------------
(* The codes as the formats define them: ascending with their lengths, and *)
(* with the symbols of one length; each takes its share of all the words.  *)

Coded(lengths) == {raw \in DOMAIN lengths : lengths[raw] > 0}

Share(lengths, raw) == 2^(HUFFMAN_BITS - lengths[raw])

TotalShare(lengths, raws) == MapThenSumSet(LAMBDA raw : Share(lengths, raw), raws)

FirstWord(lengths, raw) ==
  TotalShare(lengths, {r \in Coded(lengths) :
                         \/ lengths[r] < lengths[raw]
                         \/ lengths[r] = lengths[raw] /\ r < raw})

\* A number in so many bits, the most significant one first.
BitsOf(n, bits) == [j \in 1 .. bits |-> (n \div 2^(bits - j)) % 2]

Code(lengths, raw) == BitsOf(FirstWord(lengths, raw) \div Share(lengths, raw), lengths[raw])

(* An alphabet is accepted just if its codes use all the words, or there   *)
(* are none, and whatever follows a code, its symbol and its length are    *)
(* found (huffman.c:99-209).                                               *)
AlphabetExact(lengths) ==
  LET alphabet == huffman_alphabet(lengths)
      finds(huf, bits, raw) == /\ huffman_sym(alphabet, huf) = bits
                               /\ huffman_raw(alphabet, bits, huf) = raw
  IN  /\ alphabet.ok <=> TotalShare(lengths, Coded(lengths)) \in {0, 2^HUFFMAN_BITS}
      /\ alphabet.ok =>
           \A raw \in Coded(lengths), n \in 0 .. 2^HUFFMAN_BITS - 1 :
             n < Share(lengths, raw) =>
               finds(FirstWord(lengths, raw) + n, lengths[raw], raw)
      /\ Coded(lengths) = {} =>
           \A huf \in 0 .. 2^HUFFMAN_BITS - 1 : finds(huf, 1, 0)
============================================================================
