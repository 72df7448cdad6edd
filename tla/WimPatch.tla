------------------------------ MODULE WimPatch ------------------------------
(***************************************************************************)
(* The boot image wimldr presents to Windows (patch.c): regions laid over  *)
(* the image and behind it, that inject the files of the virtual disk into *)
(* \Windows\System32 of the image chosen, and make it the one to boot.     *)
(*                                                                         *)
(* Files are added, then the image is patched (vdisk_patch_file calls      *)
(* patch_wim for no bytes, which constructs the patch); then it is read,   *)
(* in any pieces (vdisk.c).                                                *)
(***************************************************************************)
EXTENDS Wim, SequencesExt

CONSTANTS
  Images,     \* the images boot.wim may be
  Files,      \* the files that may be on the virtual disk before it
  Indexes,    \* nt_cmdline->index
  ReadLens,   \* bound: lengths of reads
  WimNames,   \* names of files, in the images or on the disk
  Windows, System32   \* the names of the directories on the way

WimPatchAssumption ==
  /\ AlignTo \in Nat \ {0}
  /\ Indexes \subseteq Nat /\ ReadLens \subseteq Nat
  /\ \A img \in Images : /\ Length(img) \in Nat
                         /\ img \in [0 .. Length(img) - 1 -> Nat]
  /\ \A f \in Files : /\ f.name \in Nat /\ f.hash \in Nat /\ f.contents \in Seq(Nat)
                      /\ f.inject \in BOOLEAN
  \* A hash is the contents'; only one file has a name.
  /\ \A f, g \in Files : f.hash = g.hash => f.contents = g.contents
  /\ \A f, g \in Files : f.name = g.name => f = g

(* The images are as the tools that make them leave them: the lookup table *)
(* is of whole entries, the header names the metadata to boot, at its      *)
(* number or at none, and how many there are.                              *)
ImagesAssumption ==
  \A img \in Images : \A h \in wim_header(img) :
    /\ h.lookup.offset >= HeaderLen /\ h.lookup.len % EntryLen = 0
    /\ wim_metadata(img, h, h.boot_index) = {h.boot}
    /\ wim_count(img, h) = {h.images} /\ h.boot_index <= h.images
    /\ \A k \in 0 .. h.images : \A m \in wim_metadata(img, h, k) :
         m.offset + m.len <= Length(img)

VARIABLES
  base,         \* boot.wim as it is
  index,        \* nt_cmdline->index
  rawwim,       \* nt_cmdline->rawwim
  wim_files,    \* the files added, in the slots of the disk
  patch,        \* the patch, once constructed: header and regions
  xlen,         \* the length of the patched file
  read,         \* the last read of it
  wim_pc        \* "adding", "patched", "read" or "dead"

wimConfig == <<base, index, rawwim>>
wimPatchVars == <<wimConfig, wim_files, patch, xlen, read, wim_pc>>

InjectDir == <<NoName, Windows, System32>>   \* WIM_INJECT_DIR
---------------------------------------------------------------------------
(* Regions, in the order of union wim_patch_regions.                       *)

Cells(seq) == [i \in 0 .. Len(seq) - 1 |-> seq[i + 1]]

HeaderCells(h) ==
  Cells(<<h.lookup.flags, h.lookup.offset, h.lookup.len, h.images,
          h.boot.flags, h.boot.offset, h.boot.len, h.boot_index>>)

EntryCells(res, hash) == Cells(<<res.flags, res.offset, res.len, hash>>)

\* Every file at the end of the image, where the first one is.
FirstEntry(at, f) == [flags |-> 0, offset |-> Length(base), len |-> Len(f.contents)]

FileEntry(at, f) == [flags |-> 0, offset |-> at, len |-> Len(f.contents)]

PatchEntryLen == DirentLen + 2   \* sizeof ( struct wim_patch_dir_entry )

DirentCells(f) == Cells(<<wim_align(PatchEntryLen), 0, f.hash, 1, f.name, 0>>)

wim_construct_region(at, cells) == [offset |-> at, len |-> Length(cells), cells |-> cells]

\* The new image is counted but not booted.
OldIndex(lookup, boot, count) ==
  [lookup |-> lookup, images |-> count + 1, boot |-> boot, boot_index |-> count]

NewHeader(lookup, boot, count) ==
  [lookup |-> lookup, images |-> count + 1, boot |-> boot, boot_index |-> count + 1]

\* What wim_read copies for a region, of the metadata or the lookup table; it
\* cannot fail, all of that has been read before.
CopyFromStart(res, offset, n) == [i \in 0 .. n - 1 |-> base[res.offset + i]]

CopyOf(res, offset, n) == [i \in 0 .. n - 1 |-> base[res.offset + offset + i]]

\* Where the contents of the first files end, one behind the other.
EndOf(files) ==
  LET end[i \in 0 .. Len(files)] ==
        IF i = 0 THEN Length(base) ELSE end[i - 1] + Len(files[i].contents)
  IN  end

\* The files that are injected, in the order of their slots.
injected ==
  LET upTo[i \in 0 .. Len(wim_files)] ==
        IF i = 0 THEN <<>>
        ELSE IF wim_files[i].inject THEN Append(upTo[i - 1], wim_files[i]) ELSE upTo[i - 1]
  IN  upTo[Len(wim_files)]

\* The regions that inject files into the metadata boot, behind the image.
InjectRegions(header, boot, count, dir, dirLen) ==
  LET files == injected
      n == Len(files)
      fileAt(i) == EndOf(files)[i - 1]
      \* lookup table
      lookupAt == wim_align(EndOf(files)[n])
      bootEntryAt == lookupAt + header.lookup.len
      entryAt(i) == bootEntryAt + i * EntryLen
      lookupEnd == entryAt(n + 1)
      \* metadata
      bootAt == wim_align(lookupEnd)
      subdir == wim_align(bootAt + boot.len)
      direntAt(i) == subdir + (i - 1) * wim_align(PatchEntryLen)
      copyAt == direntAt(n + 1)
      end == copyAt + dirLen + 1
      newLookup == [flags |-> 0, offset |-> lookupAt, len |-> lookupEnd - lookupAt]
      newBoot == [flags |-> Metadata, offset |-> bootAt, len |-> end - bootAt]
      newHeader == NewHeader(newLookup, newBoot, count)
  IN  [header |-> newHeader,
       end |-> end,
       regions |->
         <<wim_construct_region(0, HeaderCells(newHeader))>>
         \o [i \in 1 .. n |-> wim_construct_region(fileAt(i), Cells(files[i].contents))]
         \o <<wim_construct_region(lookupAt, CopyOf(header.lookup, 0, header.lookup.len)),
              wim_construct_region(bootEntryAt, EntryCells(newBoot, 0))>>
         \o [i \in 1 .. n |-> wim_construct_region(entryAt(i), EntryCells(FileEntry(fileAt(i), files[i]),
                                                                          files[i].hash))]
         \o <<wim_construct_region(bootAt, CopyOf(boot, 0, boot.len)),
              wim_construct_region(bootAt + dir.offset + SubdirAt, Cells(<<subdir - bootAt>>)),
              wim_construct_region(copyAt, CopyOf(boot, dir.entry.subdir, dirLen))>>
         \o [i \in 1 .. n |-> wim_construct_region(direntAt(i), DirentCells(files[i]))]]

HeaderOnly(header) ==
  [header |-> header, end |-> Length(base),
   regions |-> <<wim_construct_region(0, HeaderCells(header))>>]

wim_construct_patch ==
  LET patched(h, boot) ==
        IF index = 0 THEN h ELSE [h EXCEPT !.boot = boot, !.boot_index = index]
      inject(header, boot) ==
        Then(wim_count(base, header), LAMBDA count :
          Then(wim_path(base, boot, InjectDir), LAMBDA dir :
            Then(wim_dir_len(base, boot, dir.entry.subdir), LAMBDA dirLen :
              {InjectRegions(header, boot, count, dir, dirLen)})))
      construct(h, boot) ==
        IF rawwim \/ injected = <<>> THEN {HeaderOnly(patched(h, boot))}
        ELSE inject(patched(h, boot), boot)
  IN  Then(wim_header(base), LAMBDA h :
        Then(wim_metadata(base, h, index), LAMBDA boot : construct(h, boot)))
---------------------------------------------------------------------------
\* The data is not advanced to the region.
PatchAtStart(data, region, offset) ==
  LET n == Length(data)
      skip == IF region.offset > offset THEN region.offset - offset ELSE 0
      rel == offset + skip - region.offset
      len == IF n - skip > region.len - rel THEN region.len - rel ELSE n - skip
  IN  IF skip >= n \/ rel >= region.len THEN data
      ELSE [i \in 0 .. n - 1 |-> IF i < len THEN region.cells[rel + i] ELSE data[i]]

\* data, read at offset, with the region laid over it.
wim_patch_region(data, region, offset) ==
  LET n == Length(data)
      skip == IF region.offset > offset THEN region.offset - offset ELSE 0
      rel == offset + skip - region.offset
      len == IF n - skip > region.len - rel THEN region.len - rel ELSE n - skip
  IN  IF skip >= n \/ rel >= region.len THEN data
      ELSE [i \in 0 .. n - 1 |->
              IF i \in skip .. skip + len - 1 THEN region.cells[rel + i - skip] ELSE data[i]]

\* The file itself, and blanks behind it.
Underneath(offset, n) ==
  [i \in 0 .. n - 1 |-> IF offset + i < Length(base) THEN base[offset + i] ELSE 0]

Nothing == index = 0 /\ rawwim

patch_wim(data, offset) ==
  IF Nothing THEN data
  ELSE LET over[k \in 0 .. Len(patch.regions)] ==
             IF k = 0 THEN data ELSE wim_patch_region(over[k - 1], patch.regions[k], offset)
       IN  over[Len(patch.regions)]

NoRead == [offset |-> 0, data |-> [i \in 0 .. -1 |-> 0]]
NoPatch == [header |-> 0, end |-> 0, regions |-> <<>>]

AddWimFile == /\ wim_pc = "adding"
              /\ \E f \in Files \ ToSet(wim_files) : wim_files' = Append(wim_files, f)
              /\ UNCHANGED <<wimConfig, patch, xlen, read, wim_pc>>

PatchWimFile == /\ wim_pc = "adding"
                /\ IF Nothing THEN xlen' = Length(base) /\ UNCHANGED patch
                   ELSE \E p \in wim_construct_patch : xlen' = p.end /\ patch' = p
                /\ wim_pc' = "patched"
                /\ UNCHANGED <<wimConfig, wim_files, read>>

\* die ( "Could not patch WIM" )
PatchFails == /\ wim_pc = "adding"
              /\ ~Nothing /\ wim_construct_patch = {}
              /\ wim_pc' = "dead"
              /\ UNCHANGED <<wimConfig, wim_files, patch, xlen, read>>

\* A read leaves nothing behind: one is as good as many.
ReadPatched == /\ wim_pc = "patched"
               /\ \E n \in ReadLens : \E offset \in 0 .. xlen - n :
                    read' = [offset |-> offset, data |-> patch_wim(Underneath(offset, n), offset)]
               /\ wim_pc' = "read"
               /\ UNCHANGED <<wimConfig, wim_files, patch, xlen>>

WimPatchInit == /\ base \in Images /\ index \in Indexes /\ rawwim \in BOOLEAN
                /\ wim_files = <<>> /\ patch = NoPatch /\ xlen = 0
                /\ read = NoRead /\ wim_pc = "adding"

WimPatchNext == AddWimFile \/ PatchWimFile \/ PatchFails \/ ReadPatched

WimPatchSpec == WimPatchInit /\ [][WimPatchNext]_wimPatchVars
---------------------------------------------------------------------------
(* The patched image, in one piece, and what a reader of WIM images makes  *)
(* of it.                                                                  *)

LastRegion(p) ==
  LET over == {k \in 1 .. Len(patch.regions) :
                 LET r == patch.regions[k] IN p \in r.offset .. r.offset + r.len - 1}
  IN  {k \in over : \A j \in over : j <= k}

Whole == [p \in 0 .. xlen - 1 |->
            IF LastRegion(p) = {} THEN Underneath(p, 1)[0]
            ELSE LET r == patch.regions[CHOOSE k \in LastRegion(p) : TRUE]
                 IN  r.cells[p - r.offset]]

Headers(img) == CHOOSE h \in wim_header(img) : TRUE

Contents(img, res) == [i \in 1 .. res.len |-> img[res.offset + i - 1]]

InSystem32(img, meta, name) ==
  {Contents(img, r) : r \in wim_file(img, Headers(img), meta, Append(InjectDir, name))}

(* A read of a piece, wherever it begins and ends, gives the cells the     *)
(* image has there (patch.c:514-549): no region is shifted, cut or written *)
(* beyond the read.                                                        *)
PiecesFit == \A i \in DOMAIN read.data : read.data[i] = Whole[read.offset + i]

(* Every file of the virtual disk, the boot files and images excepted, is  *)
(* found in System32 of the image that boots, with its own contents,       *)
(* instead of one of the same name (patch.c:686-764).                      *)
FilesInjected ==
  wim_pc = "patched" /\ ~rawwim =>
    \A f \in ToSet(injected) :
      InSystem32(Whole, Headers(Whole).boot, f.name) = {f.contents}

(* The header names as the image to boot one that the lookup table has,    *)
(* at the number it says (patch.c:670-683, 708-709): a patch never leaves  *)
(* the header and the table in disagreement.                               *)
BootConsistent ==
  wim_pc = "patched" /\ ~Nothing =>
    LET h == Headers(Whole)
    IN  /\ wim_metadata(Whole, h, h.boot_index) = {h.boot}
        /\ h.boot_index <= h.images
        /\ wim_count(Whole, h) = {h.images}
        /\ h.boot.offset + h.boot.len <= xlen

(* What the chosen image had in System32 it still has, unless a file of    *)
(* that name is injected; the images not chosen are as they were.          *)
OriginalsKept ==
  wim_pc = "patched" /\ ~Nothing =>
    LET old == Headers(base)
        new == Headers(Whole)
        chosen == CHOOSE m \in wim_metadata(base, old, index) : TRUE
    IN  /\ \A x \in WimNames \ (IF rawwim THEN {} ELSE {f.name : f \in ToSet(injected)}) :
             InSystem32(base, chosen, x) = InSystem32(Whole, new.boot, x)
        /\ \A k \in 1 .. old.images, x \in WimNames : \A m \in wim_metadata(base, old, k) :
             InSystem32(base, m, x) =
               UNION {InSystem32(Whole, n, x) : n \in wim_metadata(Whole, new, k)}
=============================================================================
