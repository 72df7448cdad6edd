---------------------------- MODULE VDiskProps ----------------------------
(***************************************************************************)
(* Properties of VDisk: what a driver for FAT32 finds on the disk, and     *)
(* that it does not matter in how many reads.                              *)
(***************************************************************************)
EXTENDS VDisk, SequencesExt

---------------------------------------------------------------------------
(* The sector a read of it alone gives.                                    *)
SectorAt(lba) == BuildSectors(lba, 1)[1]

(* A read that ends at to does not reach the last room for a file on the   *)
(* disk, the end of which a 32-bit unsigned long may not hold.             *)
NoWrap(to) == Wide \/ to <= WordSize - FileCount

(* A read of any sectors gives, sector by sector, what reading each of     *)
(* them alone gives (vdisk.c:527-611).  It takes that there is a sector to *)
(* read, and that the read does not run from what is before the first file *)
(* into that file, nor in a 32-bit build into the last room for a file.    *)
SectorsExact ==
  start < end /\ NoWrap(end) /\ (end <= FileLba(0) \/ FileLba(0) <= start) =>
    sectors = [k \in 1 .. frag_start - start |-> SectorAt(start + k - 1)]

(* vdisk_read returns: every fragment makes progress and the last one ends *)
(* where the read does.                                                    *)
ReadReturns == disk_pc = "loop" ~> disk_pc = "idle"
---------------------------------------------------------------------------
(* A driver for FAT32 that knows only what the boot record tells it.       *)

Vbr == SectorAt(SectorAt(0).start)

FsLba(vbr, cluster) ==
  vbr.hidden_sectors + vbr.reserved_sectors + vbr.fats * vbr.sectors_per_fat
    + (cluster - 2) * vbr.sectors_per_cluster

FsNext(vbr, cluster) ==
  SectorAt(vbr.hidden_sectors + vbr.reserved_sectors + cluster \div FatPerSector)
    .next[cluster % FatPerSector]

FsSectors(vbr, cluster) ==
  [k \in 1 .. vbr.sectors_per_cluster |-> SectorAt(FsLba(vbr, cluster) + k - 1)]

(* The first n clusters of the chain that begins at cluster.               *)
FsChain(vbr, cluster, n) ==
  LET chain[k \in 1 .. n] == IF k = 1 THEN cluster ELSE FsNext(vbr, chain[k - 1])
  IN  chain

FsEntries(vbr, cluster) ==
  UNION {s.entries : s \in Range(FsSectors(vbr, cluster))}

FsLookup(vbr, cluster, name) == (CHOOSE e \in FsEntries(vbr, cluster) : e.name = name).cluster

FsDir(vbr, path) ==
  LET dir[k \in 0 .. Len(path)] ==
        IF k = 0 THEN vbr.root ELSE FsLookup(vbr, dir[k - 1], DirName(path[k]))
  IN  dir[Len(path)]

(* The directories the boot managers look for their files in.              *)
Paths ==
  {<< >>, <<"BOOT">>, <<"SOURCES">>, <<"BOOT", "FONTS">>, <<"BOOT", "RESOURCES">>,
   <<"EFI", "BOOT">>, <<"EFI", "MICROSOFT", "BOOT">>}

FileByte(idx, offset) ==
  IF disk_files[idx].patch THEN PatchedByte(idx, offset)
  ELSE IF offset < disk_files[idx].len THEN RawByte(idx, offset)
  ELSE ZeroByte

(* What the entry leads to: a chain of as many clusters as the length takes *)
(* that then ends, and in the clusters the bytes of the file.              *)
FsContents(vbr, entry, idx) ==
  LET n == (entry.size + ClusterSize - 1) \div ClusterSize
      chain == FsChain(vbr, entry.cluster, n)
  IN  /\ n > 0 => FsNext(vbr, chain[n]) = EndMarker
      /\ \A k \in 0 .. n * ClusterCount - 1 :
           LET sector == SectorAt(FsLba(vbr, chain[k \div ClusterCount + 1]) + (k % ClusterCount))
           IN  \A j \in 0 .. SectorSize - 1 :
                 k * SectorSize + j < entry.size =>
                   sector.bytes[j] = FileByte(idx, k * SectorSize + j)

FsFiles(vbr, dir) == {e \in FsEntries(vbr, dir) : e.name[1] = "file"}

(* Through every directory a driver for FAT32 finds exactly the files      *)
(* added, with their lengths, and reads each one's bytes, patched ones     *)
(* patched and each byte once (vdisk.c:120-157, 391-456).                  *)
FilesReadable ==
  disk_pc = "idle" =>
    \A vbr \in {Vbr} : \A rootFiles \in {FsFiles(vbr, vbr.root)} :
      /\ \A path \in Paths : \A dir \in {FsDir(vbr, path)} :
           FsNext(vbr, dir) = EndMarker /\ FsFiles(vbr, dir) = rootFiles
      /\ {<<e.name, e.size>> : e \in rootFiles}
           = {<<FileName(idx), disk_files[idx].xlen>> : idx \in 0 .. file_index - 1}
      /\ \A e \in rootFiles : FsContents(vbr, e, e.name[2])
===========================================================================
