-------------------------------- MODULE Wim --------------------------------
(***************************************************************************)
(* The structure of a WIM image as wim.c reads it: header, lookup table,   *)
(* metadata, directories.  An image is a function from places to cells, a  *)
(* cell holds a field, as a number; 0 is what is left blank.  What is read *)
(* here has been decompressed: that is WimRead's.                          *)
(*                                                                         *)
(* What may fail is a set: of what it gives, or empty.                     *)
(***************************************************************************)
EXTENDS Integers, Sequences, FiniteSets

CONSTANT AlignTo   \* fields are laid out by qwords

HeaderLen == 8     \* lookup (3), images, boot (3), boot_index
EntryLen == 4      \* sizeof ( struct wim_lookup_entry ): resource (3), hash
DirentLen == 4     \* sizeof ( struct wim_directory_entry ): len, subdir, hash, name_len
SubdirAt == 1      \* offsetof ( struct wim_directory_entry, subdir )
SecurityLen == 2   \* sizeof ( struct wim_security_header )
Metadata == 1      \* WIM_RESHDR_METADATA, in the cell of flags
NoName == 0        \* the empty name; others are numbers, in a cell of their own

wim_align(n) == ((n + AlignTo - 1) \div AlignTo) * AlignTo

Length(img) == Cardinality(DOMAIN img)

\* What follows when x is there.
Then(x, f(_)) == UNION {f(y) : y \in x}
---------------------------------------------------------------------------
Resource(img, p) == [flags |-> img[p], offset |-> img[p + 1], len |-> img[p + 2]]

wim_header(img) ==
  IF HeaderLen > Length(img) THEN {}
  ELSE {[lookup |-> Resource(img, 0), images |-> img[3],
         boot |-> Resource(img, 4), boot_index |-> img[7]]}

\* The cells [offset, offset + n) of a resource.
ReadCells(img, res, offset, n) ==
  IF offset + n > res.len \/ res.offset + res.len > Length(img) THEN {}
  ELSE {[i \in 0 .. n - 1 |-> img[res.offset + offset + i]]}

\* The entries of the lookup table, and the failure to read any of them.
Entries(header) == {k \in 0 .. header.lookup.len : (k + 1) * EntryLen <= header.lookup.len}

\* An entry that can be read.
LookupEntry(img, header, k) ==
  LET at == header.lookup.offset + k * EntryLen
  IN  [flags |-> img[at], offset |-> img[at + 1], len |-> img[at + 2], hash |-> img[at + 3]]

Unreadable(img, header) ==
  \E k \in Entries(header) : ReadCells(img, header.lookup, k * EntryLen, EntryLen) = {}

IsMetadata(e) == e.flags = Metadata

Found(img, header, k) ==
  Cardinality({j \in Entries(header) : j <= k /\ IsMetadata(LookupEntry(img, header, j))})

wim_count(img, header) ==
  IF Unreadable(img, header) THEN {}
  ELSE {Cardinality({k \in Entries(header) : IsMetadata(LookupEntry(img, header, k))})}

AsResource(e) == [flags |-> e.flags, offset |-> e.offset, len |-> e.len]

wim_metadata(img, header, index) ==
  IF index = 0 THEN {header.boot}
  ELSE IF Unreadable(img, header) THEN {}
  ELSE {AsResource(LookupEntry(img, header, k)) :
          k \in {j \in Entries(header) : /\ IsMetadata(LookupEntry(img, header, j))
                                         /\ Found(img, header, j) = index}}
---------------------------------------------------------------------------
(* Directories are lists of entries that end with a length of 0.           *)

Dirent(c) == [len |-> c[0], subdir |-> c[1], hash |-> c[2], name_len |-> c[3]]

NameLen(name) == IF name = NoName THEN 0 ELSE 1

\* The name in a buffer of the length of the one looked for, with its
\* terminator, which is compared too.
SameName(name, cells) ==
  IF name = NoName THEN cells[0] = 0 ELSE cells[0] = name /\ cells[1] = 0

\* The entry at a place, unless the directory ends there.
DirentAt(img, meta, at) ==
  IF \A l \in ReadCells(img, meta, at, 1) : l[0] = 0 THEN {}
  ELSE {Dirent(c) : c \in ReadCells(img, meta, at, DirentLen)}

\* Whether an entry has the name; one that is longer is not read.
Compare(img, meta, name, at, d) ==
  LET buffer == NameLen(name) + 1
  IN  IF d.name_len > buffer THEN {FALSE}
      ELSE {SameName(name, cells) : cells \in ReadCells(img, meta, at + DirentLen, buffer)}

\* The places a search comes to that begins at first and goes on, over the
\* entry there, where GoesOn says so.
Reached(img, meta, first, GoesOn(_)) ==
  LET next(at) == at + img[meta.offset + at]
      walk[at \in 0 .. meta.len] ==
        {at} \cup (IF GoesOn(at) /\ next(at) <= meta.len THEN walk[next(at)] ELSE {})
  IN  IF first > meta.len THEN {} ELSE walk[first] \cap (first .. meta.len)

wim_direntry(img, meta, name, first) ==
  LET compared(at) == UNION {Compare(img, meta, name, at, d) : d \in DirentAt(img, meta, at)}
      places == Reached(img, meta, first, LAMBDA at : FALSE \in compared(at))
      found == {at \in places : TRUE \in compared(at)}
  IN  Then(found, LAMBDA at : {[offset |-> at, entry |-> d] : d \in DirentAt(img, meta, at)})

\* The root directory follows the security data.
wim_path(img, meta, path) ==
  LET descend(first) ==
        LET level[k \in 1 .. Len(path)] ==
              IF k = 1 THEN wim_direntry(img, meta, path[1], first)
              ELSE Then(level[k - 1], LAMBDA d : wim_direntry(img, meta, path[k], d.entry.subdir))
        IN  level[Len(path)]
  IN  Then(ReadCells(img, meta, 0, SecurityLen), LAMBDA s : descend(wim_align(s[0])))

\* The first entry of the lookup table with the hash of the file.
wim_file(img, header, meta, path) ==
  LET same(d) == {k \in Entries(header) : LookupEntry(img, header, k).hash = d.entry.hash}
      first(d) == {k \in same(d) : \A j \in same(d) : k <= j}
  IN  IF Unreadable(img, header) THEN {}
      ELSE Then(wim_path(img, meta, path),
                LAMBDA d : {AsResource(LookupEntry(img, header, k)) : k \in first(d)})

\* Without the entry that ends it.
wim_dir_len(img, meta, first) ==
  LET lenAt(at) == ReadCells(img, meta, at, 1)
      places == Reached(img, meta, first, LAMBDA at : \E l \in lenAt(at) : l[0] # 0)
  IN  {at - first : at \in {p \in places : \E l \in lenAt(p) : l[0] = 0}}
=============================================================================
