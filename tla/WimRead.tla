------------------------------ MODULE WimRead ------------------------------
(***************************************************************************)
(* wim_read of wimldr (wim.c): reads of a resource of a WIM image, chunk   *)
(* by chunk, through a buffer that keeps the last chunk read.              *)
(*                                                                         *)
(* A byte is known by where it comes from: a place in a file, or a place   *)
(* in what a piece of a file decompresses to.                              *)
(***************************************************************************)
EXTENDS Integers

CONSTANTS
  ChunkLen,    \* WIM_CHUNK_LEN
  Len32,       \* 0xffffffff, the longest resource with 32-bit chunk offsets
  Size32,      \* sizeof ( u.offset_32 )
  Size64,      \* sizeof ( u.offset_64 )
  FileLen,     \* the length of each file
  Resources,   \* the resources read
  Offsets,     \* bound: offsets asked for
  Lens,        \* bound: lengths asked for
  NULL

\* How many chunks a resource has, and the length of its table of offsets.
\* There is no offset for chunk 0.
Chunks(r) == (r.len + ChunkLen - 1) \div ChunkLen
ChunksLen(r) == (Chunks(r) - 1) * (IF r.len > Len32 THEN Size64 ELSE Size32)

\* Of a resource: its header, whether it is in chunks (WIM_RESHDR_COMPRESSED
\* or WIM_RESHDR_PACKED_STREAMS), the table of offsets its data begins with, and
\* what the decompressor makes of each chunk: a length, or -1 if it fails or the
\* compression is not known.
ASSUME WimReadAssumption ==
  /\ ChunkLen \in Nat \ {0}
  /\ Len32 \in Nat /\ Size32 \in Nat /\ Size64 \in Nat
  /\ NULL \notin DOMAIN FileLen
  /\ Offsets \subseteq Nat /\ Lens \subseteq Nat
  /\ \A r \in Resources :
       /\ r.file \in DOMAIN FileLen
       /\ r.offset \in Nat /\ r.len \in Nat /\ r.zlen \in Nat
       /\ r.compressed \in BOOLEAN
       /\ r.compressed =>
            /\ \A c \in 1 .. Chunks(r) - 1 : r.table[c] \in Nat
            /\ \A c \in 0 .. Chunks(r) - 1 : r.out[c] \in Nat \cup {-1}
            \* The tools that make images write the chunks in order.
            /\ \A c, d \in 1 .. Chunks(r) - 1 : c < d => r.table[c] <= r.table[d]
  \* No two resources of a file begin at the same place.
  /\ \A r, s \in Resources : r.file = s.file /\ r.offset = s.offset => r = s

VARIABLES
  cached_file, cached_resource_offset, cached_chunk,
  wim_chunk_buffer,
  resource, from, count,   \* the arguments of the call
  offset, len, data,       \* how far it has come, and what it has copied
  rc                       \* "reading", or what the last call returned

cache == <<cached_file, cached_resource_offset, cached_chunk, wim_chunk_buffer>>
args == <<resource, from, count>>
vars == <<cache, args, offset, len, data, rc>>

Raw(f, place) == <<f, place>>
Unpacked(f, place, zlen, i) == <<f, place, zlen, i>>
---------------------------------------------------------------------------
(* What can fail is the set of what it gives, empty if it fails.           *)

wim_chunk_offset(r, chunk) ==
  IF r.len = 0 THEN {0}
  ELSE IF ChunksLen(r) > r.zlen THEN {}
  ELSE IF chunk = 0 THEN {ChunksLen(r)}
  ELSE IF chunk >= Chunks(r) THEN {r.zlen}
  ELSE {o \in {ChunksLen(r) + r.table[chunk]} : o <= r.zlen}

\* The last chunk is taken for a whole one.
WholeChunks(r, chunk) == ChunkLen

expected_out_len(r, chunk) ==
  IF chunk >= Chunks(r) - 1 THEN ChunkLen - ((-r.len) % ChunkLen) ELSE ChunkLen

\* A chunk as long as what it holds is not compressed.  The first pass of
\* the decompressor only finds the length: nothing is written if it is wrong.
wim_chunk(r, chunk) ==
  LET Bytes(first, zlen) ==
        IF zlen = expected_out_len(r, chunk)
        THEN {[i \in 0 .. zlen - 1 |-> Raw(r.file, r.offset + first + i)]}
        ELSE {[i \in 0 .. n - 1 |-> Unpacked(r.file, r.offset + first, zlen, i)] :
                n \in {r.out[chunk]} \cap {expected_out_len(r, chunk)}}
  IN  UNION {UNION {Bytes(a, b - a) : b \in wim_chunk_offset(r, chunk + 1)} :
               a \in wim_chunk_offset(r, chunk)}

TooShort(r, o, n) == o + n > r.len \/ r.offset + r.zlen > FileLen[r.file]

\* memcpy of n bytes from place i of b.
Appended(d, b, i, n) ==
  LET done == offset - from
  IN  [k \in 0 .. done + n - 1 |-> IF k < done THEN d[k] ELSE b[i + k - done]]

Overwritten(b) == [i \in 0 .. ChunkLen - 1 |->
                     IF i \in DOMAIN b THEN b[i] ELSE wim_chunk_buffer[i]]

NoBytes == [k \in 0 .. -1 |-> Raw(NULL, 0)]

wim_read ==
  /\ rc # "reading"
  /\ \E r \in Resources, o \in Offsets, n \in Lens :
       /\ resource' = r /\ from' = o /\ count' = n
       /\ offset' = o /\ len' = n
       /\ \/ /\ TooShort(r, o, n)
             /\ rc' = "error" /\ data' = NoBytes
          \/ /\ ~TooShort(r, o, n) /\ ~r.compressed
             /\ rc' = "ok"
             /\ data' = [k \in 0 .. n - 1 |-> Raw(r.file, r.offset + o + k)]
          \/ /\ ~TooShort(r, o, n) /\ r.compressed
             /\ rc' = "reading" /\ data' = NoBytes
  /\ UNCHANGED cache

chunk_ == offset \div ChunkLen
skip_len == offset % ChunkLen
frag_len == IF ChunkLen - skip_len > len THEN len ELSE ChunkLen - skip_len

\* The key without the resource.
AnyResource == cached_file = resource.file /\ cached_chunk = chunk_

IsCached == /\ cached_file = resource.file
            /\ cached_resource_offset = resource.offset
            /\ cached_chunk = chunk_

Copy(buffer) == /\ data' = Appended(data, buffer, skip_len, frag_len)
                /\ offset' = offset + frag_len
                /\ len' = len - frag_len
                /\ UNCHANGED <<args, rc>>

Hit == /\ rc = "reading" /\ len # 0 /\ IsCached
       /\ Copy(wim_chunk_buffer)
       /\ UNCHANGED cache

Miss == /\ rc = "reading" /\ len # 0 /\ ~IsCached
        /\ \E b \in wim_chunk(resource, chunk_) : wim_chunk_buffer' = Overwritten(b)
        /\ cached_file' = resource.file
        /\ cached_resource_offset' = resource.offset
        /\ cached_chunk' = chunk_
        /\ Copy(wim_chunk_buffer')

Fail == /\ rc = "reading" /\ len # 0 /\ ~IsCached
        /\ wim_chunk(resource, chunk_) = {}
        /\ rc' = "error"
        /\ UNCHANGED <<cache, args, offset, len, data>>

Return == /\ rc = "reading" /\ len = 0
          /\ rc' = "ok"
          /\ UNCHANGED <<cache, args, offset, len, data>>

Init ==
  /\ cached_file = NULL /\ cached_resource_offset = 0 /\ cached_chunk = 0
  /\ wim_chunk_buffer = [i \in 0 .. ChunkLen - 1 |-> Raw(NULL, 0)]
  /\ resource \in Resources /\ from = 0 /\ count = 0
  /\ offset = 0 /\ len = 0 /\ data = NoBytes /\ rc = "ok"

Next == wim_read \/ Hit \/ Miss \/ Fail \/ Return

Spec == Init /\ [][Next]_vars
---------------------------------------------------------------------------
Fields == /\ cached_file \in DOMAIN FileLen \cup {NULL}
          /\ cached_resource_offset \in Nat /\ cached_chunk \in Nat
          /\ resource \in Resources /\ from \in Nat /\ count \in Nat
          /\ offset \in Nat /\ len \in Nat
          /\ rc \in {"reading", "ok", "error"}

(* The bytes of a resource by its format alone: chunk c holds ChunkLen     *)
(* bytes, or what is left of them, and takes the place from its start to   *)
(* that of the next one, or to the end of the resource.                    *)

StartOf(r, c) == IF c = 0 THEN ChunksLen(r)
                 ELSE IF c * ChunkLen >= r.len THEN r.zlen
                 ELSE ChunksLen(r) + r.table[c]

Holds(r, c) == IF (c + 1) * ChunkLen <= r.len THEN ChunkLen ELSE r.len - c * ChunkLen

InChunk(r, c, i) ==
  LET z == StartOf(r, c + 1) - StartOf(r, c)
  IN  IF ChunksLen(r) > r.zlen \/ StartOf(r, c) > r.zlen \/ StartOf(r, c + 1) > r.zlen THEN {}
      ELSE IF z = Holds(r, c) THEN {Raw(r.file, r.offset + StartOf(r, c) + i)}
      ELSE IF r.out[c] = Holds(r, c) THEN {Unpacked(r.file, r.offset + StartOf(r, c), z, i)}
      ELSE {}

ByteOf(r, i) == IF r.compressed THEN InChunk(r, i \div ChunkLen, i % ChunkLen)
                ELSE {Raw(r.file, r.offset + i)}

(* Whatever was read before, and whether it succeeded or not, the buffer   *)
(* holds the chunk of the resource its key names (wim.c:255-270): reads of *)
(* other resources, other files and broken chunks do not leave it stale.   *)
CacheCoherent ==
  \A r \in Resources :
    cached_file = r.file /\ cached_resource_offset = r.offset =>
      /\ r.compressed /\ cached_chunk * ChunkLen < r.len
      /\ \A i \in 0 .. Holds(r, cached_chunk) - 1 :
           wim_chunk_buffer[i] \in InChunk(r, cached_chunk, i)

Copied(n) == /\ DOMAIN data = 0 .. n - 1
             /\ \A k \in 0 .. n - 1 : data[k] \in ByteOf(resource, from + k)

(* A read that succeeds gives exactly the bytes asked for, across chunks,  *)
(* from the cache or not, in the short last chunk too (wim.c:248-285).     *)
ReadExact == rc = "ok" => Copied(count)

(* A read fails only for its own arguments: it asks for more than there    *)
(* is, or for a chunk that cannot be read.  No earlier failure sticks.     *)
FailsForCause ==
  rc = "error" => \/ from + count > resource.len
                  \/ resource.offset + resource.zlen > FileLen[resource.file]
                  \/ \E k \in 0 .. count - 1 : ByteOf(resource, from + k) = {}

\* What holds between two turns of the loop.
Progress ==
  rc = "reading" => /\ resource.compressed
                    /\ from + count <= resource.len
                    /\ offset + len = from + count
                    /\ from <= offset
                    /\ Copied(offset - from)

IInv == Fields /\ CacheCoherent /\ Progress /\ ReadExact /\ FailsForCause

=============================================================================
