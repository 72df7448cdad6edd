----------------------------- MODULE MCWimldr -----------------------------
(***************************************************************************)
(* The parts of wimldr that share no state, each on small instances of its *)
(* own.  A behaviour runs one of them; the variables of the others keep a  *)
(* value of no meaning.                                                    *)
(***************************************************************************)
EXTENDS WimRead, WimPatch, Boot, Relocate, Bcd, VDiskProps

CONSTANT Parts   \* those to check

VARIABLES
  part,                                                    \* the one that runs
  pc_,                                                     \* Inflate
  text, packed_, told, buf, out_len, unpacked, measured,   \* Inflate
  lengths,                                                 \* Huffman
  offset_, limit, split, next_threshold, tag, tag_bit, block_out_len,  \* Lznt1
  tokens, tables, src, accum, alphabet, out_len_threshold,    \* Xca
  lzx                                                      \* Lzx
---------------------------------------------------------------------------
(* WimRead.                                                                *)

Outs == [c \in 0 .. 5 |-> 4]

MCFileLen == [a |-> 40, b |-> 20]

\* Chunks of 4 bytes, offsets of 1 byte, or of 2 in resources of more than 12.
\* In file a, a resource of three chunks, the last one short and one of them not
\* compressed; one of four and long offsets; one not compressed; one with a
\* broken chunk; one whose last offset lies outside it; an empty one; one that
\* exceeds its file.  In file b, one at the place of the first.
MCResources ==
  {[file |-> "a", offset |-> 0, len |-> 10, zlen |-> 9, compressed |-> TRUE,
    table |-> <<2, 6>>, out |-> [c \in 0 .. 2 |-> IF c = 2 THEN 2 ELSE 4]],
   [file |-> "b", offset |-> 0, len |-> 8, zlen |-> 6, compressed |-> TRUE,
    table |-> <<3>>, out |-> Outs],
   [file |-> "a", offset |-> 9, len |-> 16, zlen |-> 14, compressed |-> TRUE,
    table |-> <<2, 4, 6>>, out |-> Outs],
   [file |-> "a", offset |-> 23, len |-> 6, zlen |-> 6, compressed |-> FALSE,
    table |-> <<>>, out |-> Outs],
   [file |-> "a", offset |-> 29, len |-> 12, zlen |-> 9, compressed |-> TRUE,
    table |-> <<2, 4>>, out |-> [c \in 0 .. 2 |-> IF c = 1 THEN -1 ELSE 4]],
   [file |-> "b", offset |-> 6, len |-> 8, zlen |-> 3, compressed |-> TRUE,
    table |-> <<7>>, out |-> Outs],
   [file |-> "b", offset |-> 9, len |-> 0, zlen |-> 0, compressed |-> TRUE,
    table |-> <<>>, out |-> Outs],
   [file |-> "b", offset |-> 16, len |-> 8, zlen |-> 6, compressed |-> TRUE,
    table |-> <<3>>, out |-> Outs]}
---------------------------------------------------------------------------
(* WimPatch: WIM images of up to two metadata resources, laid out by hand. *)

Pad(s) == s \o [k \in 1 .. 3 - ((Len(s) + 3) % 4) |-> 0]

MCDirent(name, subdir, hash) ==
  LET s == IF name = 0 THEN <<subdir, hash, 0, 0>> ELSE <<subdir, hash, 1, name, 0>>
  IN  Pad(<<Len(Pad(Append(s, 0)))>> \o s)

LastDirent == Pad(<<0>>)

\* Security data, root, a directory with an entry of a long name and another
\* before Windows' children, System32 with the files.
Meta(windows, files) ==
  LET root == Pad(<<3, 0, 99>>)
      long == Pad(<<12, 0, 0, 4, 61, 62, 63, 64, 0>>)
      rootDir == MCDirent(0, 16, 0) \o LastDirent
      windowsDir == long \o MCDirent(windows, 40, 0) \o LastDirent
      s32Dir == MCDirent(5, 0, 21) \o MCDirent(3, 60, 0) \o LastDirent
  IN  root \o rootDir \o windowsDir \o s32Dir
      \o FlattenSeq([k \in 1 .. Len(files) |-> MCDirent(files[k][1], 0, files[k][2])]) \o <<0>>

Stored == <<[hash |-> 21, contents |-> <<41, 42, 43>>], [hash |-> 22, contents |-> <<51>>]>>

\* Where each of several pieces begins.
Starts(first, lens) ==
  [k \in 1 .. Len(lens) |-> first + FoldLeft(+, 0, SubSeq(lens, 1, k - 1))]

\* Header of 8 cells, contents, metadata, lookup table.
ImageOf(metas, boot) ==
  LET contents == [k \in 1 .. 2 |-> Stored[k].contents]
      dataAt == Starts(8, [k \in 1 .. 2 |-> Len(contents[k])])
      metaAt == Starts(12, [k \in 1 .. Len(metas) |-> Len(metas[k])])
      metaRes(k) == <<1, metaAt[k], Len(metas[k])>>
      entries == FlattenSeq([k \in 1 .. 2 |-> <<0, dataAt[k], Len(contents[k]), Stored[k].hash>>])
                 \o FlattenSeq([k \in 1 .. Len(metas) |-> metaRes(k) \o <<70 + k>>])
      body == FlattenSeq(contents) \o FlattenSeq(metas)
  IN  <<0, 8 + Len(body), Len(entries), Len(metas)>>
      \o (IF boot = 0 THEN <<0, 0, 0, 0>> ELSE metaRes(boot) \o <<boot>>)
      \o body \o entries

MCImages ==
  {[k \in 0 .. Len(s) - 1 |-> s[k + 1]] :
     s \in {ImageOf(<<Meta(2, <<<<11, 21>>, <<12, 22>>>>), Meta(2, <<<<12, 21>>>>)>>, 2),
            ImageOf(<<Meta(6, <<<<11, 21>>>>)>>, 1),
            ImageOf(<<Meta(2, <<>>)>>, 0),
            <<1, 2>>}}

\* One of the name of a file in the image, one of the contents of another, an
\* empty one, and one that is not injected.
MCFiles == {[name |-> 11, hash |-> 31, contents |-> <<7, 8>>, inject |-> TRUE],
            [name |-> 13, hash |-> 22, contents |-> <<51>>, inject |-> TRUE],
            [name |-> 14, hash |-> 33, contents |-> <<>>, inject |-> TRUE],
            [name |-> 15, hash |-> 34, contents |-> <<9>>, inject |-> FALSE]}
---------------------------------------------------------------------------
(* Boot: archives and directories of up to three files, images that hold   *)
(* any of the files looked for; the four fonts stand for one another.      *)

MCArchives == SeqOf({"bootmgr", "bootmgr.exe", "BCD", "startnet.cmd"}, 3)

MCVolumes ==
  LET unsigned == [signed |-> FALSE, files |-> <<"other.cmd">>]
      signed == [signed : {TRUE},
                 files : SeqOf({"bootx64.efi", "bootia32.efi", "bootmgfw.efi", "startnet.cmd"}, 2)]
  IN  {<<>>, <<unsigned>>} \cup {<<v>> : v \in signed}
      \cup {<<unsigned, v, unsigned>> : v \in signed}

MCImagePaths == {p \cup q : p \in SUBSET {"PXE\\bootmgr.exe", "PCAT\\boot.sdi", "sms\\boot.sdi"},
                            q \in {{}, {"EFI\\bootmgfw.efi", "PCAT\\BCD", "Fonts\\wgl4_boot.ttf"},
                                  {"EFI\\bootmgfw.efi", "DVD\\EFI\\boot.sdi"}}}

MCInjectable(name) == name \in {"startnet.cmd", "other.cmd"}
---------------------------------------------------------------------------
(* Relocate: large pages of 4 cells, pages of 2; 1MB at 2, the copy window *)
(* at 4, 2GB at 20, 4GB at 24.                                             *)

Ram(first, last, usable) == [start |-> first, len |-> last - first, usable |-> usable]

MCMaps ==
  {<<Ram(0, 2, TRUE), Ram(2, low, TRUE), hole>> \o high :
     low \in {9, 15, 18, 20, 22},
     hole \in {Ram(22, 24, FALSE), Ram(24, 26, TRUE)},
     high \in {<<>>, <<Ram(24, 32, TRUE)>>, <<Ram(26, 35, TRUE)>>,
               <<Ram(24, 36, FALSE), Ram(36, 43, TRUE)>>,
               <<Ram(25, 31, TRUE), Ram(31, 44, TRUE)>>}}
---------------------------------------------------------------------------
(* Bcd: suffixes of a dot, a letter and a terminator, of both kinds, broken *)
(* ones, next to one another and at the ends, in sectors of 4 cells.       *)

Exe == <<1, 2, 0>>
Efi == <<1, 3, 0>>

MCBcds == {FlattenSeq(s) : s \in SeqOf({Exe, Efi, <<1, 2>>, <<0>>}, 5)} \ {<<>>}
---------------------------------------------------------------------------
(* VDisk: a disk for 3 files at most, with 9 bytes and 9 entries of the FAT *)
(* to a sector where there are 512 and 128.  Disks are read when they have *)
(* all three and these are of one length, which is neither empty nor full  *)
(* and ends within a sector.                                               *)

MCLbas == 0 .. 207

ReadAt == 37

DiskNext == /\ VDiskNext
            /\ disk_pc = "idle" /\ disk_pc' = "loop" =>
                 /\ file_index = MaxFiles
                 /\ \A f \in Range(disk_files) : f.read => f.len = ReadAt /\ f.xlen = ReadAt
---------------------------------------------------------------------------
(* Huffman: every table of lengths up to 4 of 5 symbols.                   *)

H == INSTANCE Huffman WITH HUFFMAN_BITS <- 4, HUFFMAN_QL_BITS <- 2

MCLengths == [0 .. 4 -> 0 .. 4]
---------------------------------------------------------------------------
(* Lznt1: bytes of 4 bits and as many bits in a tag; blocks of up to 64    *)
(* bytes, in which matches give one bit more to the distance after 4, 8    *)
(* and so on.                                                              *)

MCBlocks == [1 .. 7 -> {0, 1}] \cup [1 .. 4 -> {0, 1, 2}]
            \cup {<<0, 1, 2, 0, 1, 2, 2, 1, 1, 1, 2, 0, 1, 2>>,
                  <<0, 1, 2, 0, 3, 1, 2, 0, 3, 1, 2, 0, 3>>}

MCBlockTexts ==
  {<<b>> : b \in MCBlocks}
  \cup {<<a, b>> : a \in {<<0, 0, 0, 0, 0, 0>>, <<1, 2>>},
                  b \in {<<1>>, <<1, 2, 1, 2, 1>>, <<0, 0, 0, 0>>}}

L == INSTANCE Lznt1 WITH
       BYTE <- 16, TAG_BITS <- 4, SPLIT <- 6, THRESHOLD <- 4, BLOCK_MAX <- 64,
       Texts <- MCBlockTexts, Cuts <- 0 .. 3, Expected <- FALSE,
       data <- packed_, len <- told, out <- unpacked, pc <- pc_, offset <- offset_
---------------------------------------------------------------------------
(* Xca: bytes of 2 bits, words of 4, 8 symbols; alphabets after 8 bytes.   *)

Table(s) == [raw \in 0 .. 7 |-> s[raw + 1]]

K == INSTANCE Xca WITH
       BYTE <- 4, HUFFMAN_BITS <- 4, HUFFMAN_QL_BITS <- 2, XCA_CODES <- 8, XCA_END_MARKER <- 2,
       LEN_BITS <- 1, XCA_BLOCK_SIZE <- 8, Cuts <- 0 .. 3, Expected <- FALSE,
       Texts <- [1 .. 6 -> {0, 1}]
                \cup {<<0, 0, 0, 0, 0, 0, 0, 0, 0>>, <<1, 0, 0, 0, 0, 0, 0, 0, 1, 1, 0, 1>>,
                      <<0, 1, 0, 0, 1, 0, 0, 1, 0, 1>>, <<0, 0, 0, 0, 0, 0, 0, 0, 1, 0, 1>>},
       Tables <- {Table(<<3, 3, 3, 3, 3, 3, 3, 3>>), Table(<<2, 3, 1, 0, 3, 0, 0, 0>>),
                  Table(<<1, 3, 3, 0, 0, 3, 3, 0>>)},
       data <- packed_, len <- told, out <- unpacked, pc <- pc_
---------------------------------------------------------------------------
(* Lzx: bytes of 4 bits, words of 8, ten slots, so that some have aligned  *)
(* offsets.                                                                *)

Block(len_of, type, skewed) == [len |-> len_of, type |-> type, skewed |-> skewed]
Plan(t, blocks, shortest, most) ==
  [text |-> t, blocks |-> blocks, shortest |-> shortest, most |-> most]

\* Matches at the distances 14 and 15; one of length 9; distances used again;
\* jumps, one of them in the target of another; the default length.
Far == <<0, 1, 2, 3, 4, 5, 6, 7, 8, 9, 10, 11, 12, 13, 0, 1, 2, 15, 3, 4, 5>>
Long == <<0, 1, 2, 3, 4, 5, 6, 7, 8, 0, 1, 2, 3, 4, 5, 6, 7, 8, 9>>
Again == <<0, 1, 2, 3, 4, 5, 0, 1, 3, 4, 0, 1, 0, 1, 4, 0>>
Jumping == <<1, 14, 5, 0, 0, 0, 14, 15, 15, 15, 15, 14, 3, 6, 0, 0, 14, 14, 0, 0, 0,
             14, 4, 6, 0, 0, 14, 1, 0, 0, 0, 1, 1, 1, 1, 1>>
Eight == <<1, 1, 1, 2, 0, 0, 0, 2>>
Short == <<0, 1, 0, 1, 0>>

MCPlans ==
  LET one(t, types, shortest, most) ==
        {Plan(t, <<Block(Len(t), type, skewed)>>, shortest, most) :
           type \in types, skewed \in BOOLEAN}
  IN  one(<<3>>, 1 .. 3, 2, 9) \cup one(Short, 1 .. 3, 2, 9) \cup one(Far, 1 .. 3, 3, 99)
      \cup one(Long, 1 .. 2, 9, 99) \cup one(Again, 1 .. 2, 2, 11)
      \cup one(Jumping, 1 .. 3, 99, 99) \cup one(Eight, 1 .. 3, 3, 8)
      \cup {Plan(Again, <<Block(10, a, FALSE), Block(6, b, TRUE)>>, 2, 12) :
              a \in 1 .. 3, b \in 1 .. 3}
      \cup {Plan(Short, <<Block(2, a, FALSE), Block(1, b, TRUE), Block(2, a, TRUE)>>, 2, 9) :
              a \in 1 .. 3, b \in 1 .. 3}

Z == INSTANCE Lzx WITH
       HUFFMAN_BITS <- 8, HUFFMAN_QL_BITS <- 3, LZX_PRETREE_BITS <- 4, LZX_POSITION_SLOTS <- 10,
       LZX_LENGTH_CODES <- 6, LZX_DEFAULT_BLOCK_LEN <- 8, LZX_WIM_MAGIC_FILESIZE <- 100, JUMP <- 14,
       Plans <- MCPlans, Cuts <- {0, 1, 2, 6, 14, 24, 30, 36, 46}, Expected <- TRUE,
       data <- packed_, len <- told, out <- unpacked, pc <- pc_
---------------------------------------------------------------------------
ASSUME PartsAssumption == /\ WimPatchAssumption /\ ImagesAssumption /\ BootAssumption /\ RelocateAssumption
                          /\ GeometryAssumption /\ BcdAssumption

\* The variables of each part, and what they are when it does not run.
readVars == vars
inflateVars == <<text, packed_, told, buf, out_len, unpacked, measured>>
lznt1Vars == <<limit, split, next_threshold, tag, tag_bit, block_out_len>>
xcaVars == <<tokens, tables, src, accum, alphabet, out_len_threshold>>

IdleRead == /\ cached_file = NULL /\ cached_resource_offset = 0 /\ cached_chunk = 0
            /\ wim_chunk_buffer = NoBytes
            /\ resource = CHOOSE r \in Resources : TRUE
            /\ from = 0 /\ count = 0 /\ offset = 0 /\ len = 0 /\ data = NoBytes /\ rc = "ok"
IdlePatch == /\ base = 0 /\ index = 0 /\ rawwim = FALSE /\ wim_files = <<>> /\ patch = NoPatch
             /\ xlen = 0 /\ read = NoRead /\ wim_pc = "none"
NoBoot == /\ platform = 0 /\ volumes = 0 /\ source = 0 /\ damaged = 0 /\ packed = 0 /\ image = 0
          /\ initrd = 0 /\ vdisk_files = <<>> /\ bootmgr = 0 /\ bootwim = 0 /\ patched = {}
          /\ todo = 0 /\ wim_file_idx = 0 /\ pc = "none"
NoRelocate == /\ e820 = 0 /\ next = 0 /\ paging = 0 /\ loaded = 0 /\ place = 0 /\ initrd_len = 0
              /\ mem = 0 /\ pd = 0 /\ done = 0 /\ dest = 0 /\ stage = "none"
NoBcd == bcd = 0 /\ piece_at = 0 /\ piece = <<>> /\ tried = 0 /\ patching = "none"
NoDisk == /\ disk_files = 0 /\ file_index = 0 /\ disk_pc = "none"
          /\ start = 0 /\ end = 0 /\ frag_start = 0 /\ sectors = 0
NoInflate == /\ text = 0 /\ packed_ = 0 /\ told = 0 /\ buf = 0 /\ out_len = 0 /\ unpacked = 0
             /\ measured = 0
NoLznt1 == /\ limit = 0 /\ split = 0 /\ next_threshold = 0 /\ tag = 0 /\ tag_bit = 0
           /\ block_out_len = 0
NoXca == tokens = 0 /\ tables = 0 /\ src = 0 /\ accum = 0 /\ alphabet = 0 /\ out_len_threshold = 0

PartInit ==
  \/ /\ part = "wim_read" /\ Init
     /\ NoBoot /\ pc_ = "none" /\ offset_ = 0 /\ IdlePatch /\ NoRelocate /\ NoBcd
     /\ NoDisk /\ NoInflate /\ lengths = 0 /\ NoLznt1 /\ NoXca /\ lzx = 0
  \/ /\ part = "wim_patch" /\ WimPatchInit
     /\ IdleRead /\ NoBoot /\ pc_ = "none" /\ offset_ = 0 /\ NoRelocate /\ NoBcd /\ NoDisk /\ NoInflate
     /\ lengths = 0 /\ NoLznt1 /\ NoXca /\ lzx = 0
  \/ /\ part = "boot" /\ BootInit
     /\ IdleRead /\ pc_ = "none" /\ offset_ = 0 /\ IdlePatch /\ NoRelocate /\ NoBcd
     /\ NoDisk /\ NoInflate /\ lengths = 0 /\ NoLznt1 /\ NoXca /\ lzx = 0
  \/ /\ part = "relocate" /\ RelocateInit
     /\ IdleRead /\ NoBoot /\ pc_ = "none" /\ offset_ = 0 /\ IdlePatch /\ NoBcd /\ NoDisk
     /\ NoInflate /\ lengths = 0 /\ NoLznt1 /\ NoXca /\ lzx = 0
  \/ /\ part = "bcd" /\ BcdInit
     /\ IdleRead /\ NoBoot /\ pc_ = "none" /\ offset_ = 0 /\ IdlePatch /\ NoRelocate /\ NoDisk /\ NoInflate
     /\ lengths = 0 /\ NoLznt1 /\ NoXca /\ lzx = 0
  \/ /\ part = "disk" /\ VDiskInit
     /\ IdleRead /\ NoBoot /\ pc_ = "none" /\ offset_ = 0 /\ IdlePatch /\ NoRelocate /\ NoBcd /\ NoInflate
     /\ lengths = 0 /\ NoLznt1 /\ NoXca /\ lzx = 0
  \/ /\ part = "huffman" /\ lengths \in MCLengths
     /\ IdleRead /\ NoBoot /\ pc_ = "none" /\ offset_ = 0 /\ IdlePatch /\ NoRelocate
     /\ NoBcd /\ NoDisk /\ NoInflate /\ NoLznt1 /\ NoXca /\ lzx = 0
  \/ /\ part = "lznt1" /\ L!Init
     /\ IdleRead /\ NoBoot /\ IdlePatch /\ NoRelocate /\ NoBcd /\ NoDisk
     /\ lengths = 0 /\ NoXca /\ lzx = 0
  \/ /\ part = "xca" /\ K!Init
     /\ IdleRead /\ NoBoot /\ offset_ = 0 /\ IdlePatch /\ NoRelocate /\ NoBcd
     /\ NoDisk /\ lengths = 0 /\ NoLznt1 /\ lzx = 0
  \/ /\ part = "lzx" /\ Z!Init
     /\ IdleRead /\ NoBoot /\ offset_ = 0 /\ IdlePatch /\ NoRelocate /\ NoBcd
     /\ NoDisk /\ lengths = 0 /\ NoLznt1 /\ NoXca

PartsInit == part \in Parts /\ PartInit

Step_wim_read ==
  /\ part = "wim_read" /\ Next
  /\ UNCHANGED <<part, bootVars, pc_, offset_, wimPatchVars, relocateVars, bcdVars,
                 vdiskVars, inflateVars, lengths, lznt1Vars, xcaVars, lzx>>
Step_wim_patch ==
  /\ part = "wim_patch" /\ WimPatchNext
  /\ UNCHANGED <<part, readVars, bootVars, pc_, offset_, relocateVars, bcdVars, vdiskVars,
                 inflateVars, lengths, lznt1Vars, xcaVars, lzx>>
Step_boot ==
  /\ part = "boot" /\ BootNext
  /\ UNCHANGED <<part, readVars, pc_, offset_, wimPatchVars, relocateVars, bcdVars,
                 vdiskVars, inflateVars, lengths, lznt1Vars, xcaVars, lzx>>
Step_relocate ==
  /\ part = "relocate" /\ RelocateNext
  /\ UNCHANGED <<part, readVars, bootVars, pc_, offset_, wimPatchVars, bcdVars,
                 vdiskVars, inflateVars, lengths, lznt1Vars, xcaVars, lzx>>
Step_bcd ==
  /\ part = "bcd" /\ BcdNext
  /\ UNCHANGED <<part, readVars, bootVars, pc_, offset_, wimPatchVars, relocateVars,
                 vdiskVars, inflateVars, lengths, lznt1Vars, xcaVars, lzx>>
Step_disk ==
  /\ part = "disk" /\ DiskNext
  /\ UNCHANGED <<part, readVars, bootVars, pc_, offset_, wimPatchVars, relocateVars, bcdVars,
                 inflateVars, lengths, lznt1Vars, xcaVars, lzx>>
Step_lznt1 ==
  /\ part = "lznt1" /\ L!Next
  /\ UNCHANGED <<part, readVars, bootVars, wimPatchVars, relocateVars, bcdVars,
                 vdiskVars, lengths, xcaVars, lzx>>
Step_xca ==
  /\ part = "xca" /\ K!Next
  /\ UNCHANGED <<part, readVars, bootVars, offset_, wimPatchVars, relocateVars,
                 bcdVars, vdiskVars, lengths, lznt1Vars, lzx>>
Step_lzx ==
  /\ part = "lzx" /\ Z!Next
  /\ UNCHANGED <<part, readVars, bootVars, offset_, wimPatchVars, relocateVars,
                 bcdVars, vdiskVars, lengths, lznt1Vars, xcaVars>>

PartsNext == \/ Step_wim_read
             \/ Step_wim_patch
             \/ Step_boot
             \/ Step_relocate
             \/ Step_bcd
             \/ Step_disk
             \/ Step_lznt1
             \/ Step_xca
             \/ Step_lzx

partsVars == <<part, readVars, bootVars, pc_, offset_, wimPatchVars, relocateVars,
               bcdVars, vdiskVars, inflateVars, lengths, lznt1Vars, xcaVars, lzx>>

\* A read that was begun goes on.
Reading ==
  /\ part = "disk" /\ (Fragment \/ ReturnRead)
  /\ UNCHANGED <<part, readVars, bootVars, pc_, offset_, wimPatchVars, relocateVars, bcdVars,
                 inflateVars, lengths, lznt1Vars, xcaVars, lzx>>

PartsSpec == PartsInit /\ [][PartsNext]_partsVars /\ WF_partsVars(Reading)
---------------------------------------------------------------------------
(* The properties of the parts, as their modules state and explain them;   *)
(* those of the modules this one extends have no other name here.          *)

(* Injected files, and what is in the image already (patch.c:192-235,      *)
(* 589-770).                                                               *)
PatchExact == FilesInjected /\ OriginalsKept

(* Alphabets, and what is decompressed (huffman.c:99-209, lznt1.c, xca.c,  *)
(* lzx.c; wim.c:140-208).                                                  *)
Inflated ==
  CASE part = "huffman" -> H!AlphabetExact(lengths)
    [] part = "lznt1"   -> L!Inflated
    [] part = "xca"     -> K!XcaInflated
    [] part = "lzx"     -> Z!Inflated
    [] OTHER            -> TRUE

(* The length returned is that of the decompressed data (xca.c:41).        *)
LengthReturned == part = "xca" => K!LengthReturned
=============================================================================
