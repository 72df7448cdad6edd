------------------------------- MODULE VDisk -------------------------------
(***************************************************************************)
(* The disk wimldr presents to the boot manager (wimldr/vdisk.c, vdisk.h): *)
(* a FAT32 partition that exists nowhere, whose sectors are made up when   *)
(* they are read.  A read is cut into fragments, each of which lies in one *)
(* region of the disk and is built by that region's function.              *)
(*                                                                         *)
(* The data of a sector is a record: the fields of the structure in it, or *)
(* its bytes.  Directory entries are kept as a set, as their layout in the *)
(* sector (long names, deleted entries) is of no consequence here.         *)
(***************************************************************************)
EXTENDS Integers, Sequences, FiniteSetsExt

CONSTANTS
  SectorSize,        \* VDISK_SECTOR_SIZE, in bytes
  EntrySize,         \* sizeof ( uint32_t ), size of an entry of the FAT
  PartitionLba,      \* VDISK_PARTITION_LBA
  ClusterCount,      \* VDISK_CLUSTER_COUNT, in sectors
  Clusters,          \* VDISK_CLUSTERS
  FileCount,         \* VDISK_FILE_COUNT, room for a file, in sectors
  FsInfoSector,      \* VDISK_FSINFO_SECTOR
  BackupVbrSector,   \* VDISK_BACKUP_VBR_SECTOR
  WordSize,          \* 2^32, one more than the greatest unsigned int
  SizeWord,          \* 2^32 too, for the length in a directory entry, which is in bytes
  Wide,              \* have size_t and unsigned long 64 bits, not 32
  FileLens,          \* lengths of files, in bytes
  Lbas,              \* sectors at which reads begin
  Counts             \* lengths of reads, in sectors

VARIABLES
  disk_files,    \* vdisk_files, by number
  file_index,    \* how many of them are in use
  disk_pc,       \* vdisk_read: "idle", "loop" or "done"; "died" for good
  start, end,    \* its request
  frag_start,    \* its progress
  sectors        \* the sectors it has filled

request == <<start, end, frag_start, sectors>>
vdiskVars == <<disk_files, file_index, disk_pc, request>>
---------------------------------------------------------------------------
(* vdisk.h: the geometry.  A sector at which a file begins is computed in  *)
(* unsigned long.                                                          *)

ClusterSize     == ClusterCount * SectorSize
MaxFiles        == ClusterCount - 1
FileIds         == 0 .. MaxFiles - 1
FileClusters    == FileCount \div ClusterCount
FileLba(idx)    == IF Wide THEN (idx + 1) * FileCount ELSE ((idx + 1) * FileCount) % WordSize
FileIdx(lba)    == (lba \div FileCount) - 1
FileOffset(lba) == (lba % FileCount) * SectorSize
FileDirentIdx(lba) == (lba - 1) % ClusterCount

SectorsPerFat   == ((Clusters * EntrySize + ClusterSize - 1) \div ClusterSize) * ClusterCount
ReservedCount   == ClusterCount
FileCluster(idx) ==
  ((FileCount - PartitionLba - ReservedCount - SectorsPerFat) \div ClusterCount) + 2
    + idx * FileClusters
PartitionCount  == ReservedCount + SectorsPerFat + Clusters * ClusterCount
DiskSize        == PartitionLba + PartitionCount
ClusterLba(c)   == PartitionLba + (c - 2) * ClusterCount + ReservedCount + SectorsPerFat
FatLba          == PartitionLba + ReservedCount
FatPerSector    == SectorSize \div EntrySize

RootCluster == 2
BootCluster == 3
SourcesCluster == 4
FontsCluster == 5
ResourcesCluster == 6
EfiCluster == 7
MicrosoftCluster == 8
DirClusters     == RootCluster .. MicrosoftCluster

(* Everything begins at a multiple of the cluster size; the directories'   *)
(* entries are in the first sector of the FAT, and no file's; the          *)
(* directories end before the first file, the files before the last two    *)
(* clusters of the disk, for which the FAT may lack room, and the disk     *)
(* within 32 bits.  A file's length fits into its directory entry.         *)
GeometryAssumption ==
  /\ {SectorSize, EntrySize, PartitionLba, ClusterCount, Clusters, FileCount, FsInfoSector,
      BackupVbrSector, WordSize, SizeWord} \subseteq Nat \ {0}
  /\ SectorSize % EntrySize = 0
  /\ PartitionLba % ClusterCount = 0 /\ FileCount % ClusterCount = 0
  /\ FsInfoSector < BackupVbrSector /\ BackupVbrSector < ClusterCount
  /\ MicrosoftCluster < FatPerSector /\ FatPerSector <= FileCluster(0)
  /\ ClusterLba(MicrosoftCluster + 1) <= FileCount
  /\ (MaxFiles + 1) * FileCount + 2 * ClusterCount <= DiskSize /\ DiskSize <= WordSize
  /\ Wide \in BOOLEAN
  /\ FileLens \subseteq 0 .. FileCount * SectorSize /\ FileLens \subseteq 0 .. SizeWord - 1
  /\ Lbas \subseteq Nat /\ Counts \subseteq Nat

(* VDISK_FAT_END_MARKER, the same for the media marker in entry 0.         *)
EndMarker == 268435448
---------------------------------------------------------------------------
(* What is in the sectors.  A byte is one of a file, as read or after the  *)
(* file's patch method has been over it, or zero.                          *)

RawByte(idx, offset)     == <<"raw", idx, offset>>
PatchedByte(idx, offset) == <<"patched", idx, offset>>
ZeroByte                 == <<"zero">>

Empty   == [bytes |-> [k \in 0 .. SectorSize - 1 |-> ZeroByte]]
Zeros(count) == [k \in 1 .. count |-> Empty]

DirName(name)  == <<"dir", name>>
FileName(idx)  == <<"file", idx>>
Entry(name, len, cluster) == [name |-> name, size |-> len % SizeWord, cluster |-> cluster]

vdisk_mbr == [start |-> PartitionLba, length |-> PartitionCount]

vdisk_vbr ==
  [sectors_per_cluster |-> ClusterCount, reserved_sectors |-> ReservedCount, fats |-> 1,
   hidden_sectors |-> PartitionLba, sectors |-> PartitionCount,
   sectors_per_fat |-> SectorsPerFat, root |-> RootCluster]

vdisk_fsinfo == [next_free |-> -1]

(* The first sectors of the directories.                                   *)
Subdirs ==
  [c \in DirClusters |->
     CASE c = RootCluster      -> {<<"BOOT", BootCluster>>, <<"SOURCES", SourcesCluster>>,
                                   <<"EFI", EfiCluster>>}
       [] c = BootCluster      -> {<<"FONTS", FontsCluster>>, <<"RESOURCES", ResourcesCluster>>}
       [] c = EfiCluster       -> {<<"BOOT", BootCluster>>, <<"MICROSOFT", MicrosoftCluster>>}
       [] c = MicrosoftCluster -> {<<"BOOT", BootCluster>>}
       [] OTHER         -> {}]

vdisk_subdirs(c) == [entries |-> {Entry(DirName(d[1]), 0, d[2]) : d \in Subdirs[c]}]

(* Their other sectors: one for each file, whether or not there is one.    *)
vdisk_dir_files(lba, count) ==
  [k \in 1 .. count |->
     LET idx == FileDirentIdx(lba + k - 1)
     IN  [entries |-> IF disk_files[idx].read
                        THEN {Entry(FileName(idx), disk_files[idx].xlen, FileCluster(idx))}
                        ELSE {}]]

(* Mutant: a file that fills its last cluster is given one more.           *)
FileEndMarkerRoundUp(idx) == FileCluster(idx) + disk_files[idx].xlen \div ClusterSize

(* The entry of the FAT that ends a file's chain.  The length of an empty  *)
(* file minus one wraps around.                                            *)
FileEndMarker(idx) ==
  LET xlen == disk_files[idx].xlen
  IN  IF xlen > 0 THEN FileCluster(idx) + (xlen - 1) \div ClusterSize
      ELSE IF Wide THEN FileCluster(idx) - 1
      ELSE FileCluster(idx) + (FileCount * SectorSize - 1) \div ClusterSize

(* Each cluster chains to the next, except the special ones in the first   *)
(* sector and the last ones of files.                                      *)
vdisk_fat(lba, count) ==
  LET first == (lba - FatLba) * FatPerSector
      ends == {FileEndMarker(idx) : idx \in {i \in FileIds : disk_files[i].read}}
  IN  [k \in 1 .. count |->
         [next |-> [j \in 0 .. FatPerSector - 1 |->
            LET i == first + (k - 1) * FatPerSector + j
            IN  IF i < FatPerSector \/ i \in ends THEN EndMarker ELSE i + 1]]]

(* The bytes of a file: those it has, zeros, and the patch over all of it  *)
(* that is within its extended length.                                     *)
vdisk_file(lba, count) ==
  LET idx    == FileIdx(lba)
      file   == disk_files[idx]
      offset == FileOffset(lba)
      copy_len  == Min({Max({file.len - offset, 0}), count * SectorSize})
      patch_len == Min({Max({file.xlen - offset, 0}), count * SectorSize})
      byte(n) == IF file.patch /\ n < patch_len THEN PatchedByte(idx, offset + n)
                 ELSE IF n < copy_len THEN RawByte(idx, offset + n)
                 ELSE ZeroByte
  IN  [k \in 1 .. count |->
         [bytes |-> [j \in 0 .. SectorSize - 1 |-> byte((k - 1) * SectorSize + j)]]]
---------------------------------------------------------------------------
(* Regions of the disk before the first file.                              *)
DiskRegion(build, dir, lba, count) == [build |-> build, dir |-> dir, lba |-> lba, count |-> count]

vdisk_regions ==
  {DiskRegion("mbr", 0, 0, 1),
   DiskRegion("vbr", 0, PartitionLba, 1),
   DiskRegion("fsinfo", 0, PartitionLba + FsInfoSector, 1),
   DiskRegion("vbr", 0, PartitionLba + BackupVbrSector, 1),
   DiskRegion("fat", 0, FatLba, SectorsPerFat)}
  \cup {DiskRegion("subdirs", c, ClusterLba(c), 1) : c \in DirClusters}
  \cup {DiskRegion("files", c, ClusterLba(c) + 1, ClusterCount - 1) : c \in DirClusters}

DiskRegionEnd(r) == r.lba + r.count
RegionsAt(lba) == {r \in vdisk_regions : r.lba <= lba /\ lba < DiskRegionEnd(r)}

(* The structures that are a sector long are built whatever the count.     *)
BuildRegion(r, lba, count) ==
  CASE r.build = "mbr"     -> <<vdisk_mbr>>
    [] r.build = "vbr"     -> <<vdisk_vbr>>
    [] r.build = "fsinfo"  -> <<vdisk_fsinfo>>
    [] r.build = "fat"     -> vdisk_fat(lba, count)
    [] r.build = "subdirs" -> <<vdisk_subdirs(r.dir)>>
    [] r.build = "files"   -> vdisk_dir_files(lba, count)

BuildSectors(lba, count) ==
  IF FileIdx(lba) >= 0
    THEN IF FileIdx(lba) < MaxFiles THEN vdisk_file(lba, count) ELSE Zeros(count)
    ELSE IF RegionsAt(lba) # {} THEN BuildRegion(CHOOSE r \in RegionsAt(lba) : TRUE, lba, count)
    ELSE Zeros(count)

(* Mutant: fragments are not cut where the next region starts.             *)
FragEndLong(from, to) ==
  IF FileIdx(from) >= 0
    THEN Min({to, FileLba(FileIdx(from) + 1)})
    ELSE Min({to} \cup {DiskRegionEnd(r) : r \in RegionsAt(from)})

(* Mutant: "start" of a region taken for "before or at its start".         *)
FragEndEmpty(from, to) ==
  IF FileIdx(from) >= 0
    THEN Min({to, FileLba(FileIdx(from) + 1)})
    ELSE Min({to} \cup {r.lba : r \in {s \in vdisk_regions : from <= s.lba}}
                  \cup {DiskRegionEnd(r) : r \in RegionsAt(from)})

(* The end of the fragment that begins at sector from of a read that ends  *)
(* at sector to: the regions are tested in the order of the disk.          *)
FragEnd(from, to) ==
  IF FileIdx(from) >= 0
    THEN Min({to, FileLba(FileIdx(from) + 1)})
    ELSE Min({to} \cup {r.lba : r \in {s \in vdisk_regions : from < s.lba}}
                  \cup {DiskRegionEnd(r) : r \in RegionsAt(from)})
---------------------------------------------------------------------------
NoFile == [read |-> FALSE, len |-> 0, xlen |-> 0, patch |-> FALSE]

VDiskInit ==
  /\ disk_files = [idx \in FileIds |-> NoFile]
  /\ file_index = 0
  /\ disk_pc = "idle"
  /\ start = 0 /\ end = 0 /\ frag_start = 0
  /\ sectors = << >>

AddFile(len) ==
  /\ disk_pc = "idle"
  /\ file_index < MaxFiles
  /\ disk_files' = [disk_files EXCEPT ![file_index] =
                       [read |-> TRUE, len |-> len, xlen |-> len, patch |-> FALSE]]
  /\ file_index' = file_index + 1
  /\ UNCHANGED <<disk_pc, request>>

(* "Too many files": wimldr dies.                                          *)
AddFileDies ==
  /\ disk_pc = "idle"
  /\ file_index >= MaxFiles
  /\ disk_pc' = "died"
  /\ UNCHANGED <<disk_files, file_index, request>>

(* vdisk_patch_file; the method may extend the file.                       *)
PatchFile(idx, xlen) ==
  /\ disk_pc = "idle"
  /\ idx < file_index /\ ~disk_files[idx].patch
  /\ xlen >= disk_files[idx].len
  /\ disk_files' = [disk_files EXCEPT ![idx].patch = TRUE, ![idx].xlen = xlen]
  /\ UNCHANGED <<file_index, disk_pc, request>>

(* vdisk_read is called.                                                   *)
ReadSectors(lba, count) ==
  /\ disk_pc = "idle"
  /\ lba + count <= DiskSize
  /\ disk_pc' = "loop"
  /\ start' = lba /\ end' = lba + count /\ frag_start' = lba
  /\ UNCHANGED <<disk_files, file_index, sectors>>

(* One turn of its loop, of which there is at least one; frag_count is     *)
(* unsigned int.                                                           *)
Fragment ==
  /\ disk_pc = "loop"
  /\ LET frag_count == (FragEnd(frag_start, end) - frag_start) % WordSize
     IN  /\ sectors' = sectors \o BuildSectors(frag_start, frag_count)
         /\ frag_start' = frag_start + frag_count
         /\ disk_pc' = IF frag_start' # end THEN "loop" ELSE "done"
  /\ UNCHANGED <<disk_files, file_index, start, end>>

ReturnRead ==
  /\ disk_pc = "done"
  /\ disk_pc' = "idle"
  /\ start' = 0 /\ end' = 0 /\ frag_start' = 0
  /\ sectors' = << >>
  /\ UNCHANGED <<disk_files, file_index>>

VDiskNext ==
  \/ \E len \in FileLens : AddFile(len)
  \/ AddFileDies
  \/ \E idx \in FileIds, xlen \in FileLens : PatchFile(idx, xlen)
  \/ \E lba \in Lbas, count \in Counts : ReadSectors(lba, count)
  \/ Fragment \/ ReturnRead

VDiskSpec == VDiskInit /\ [][VDiskNext]_vdiskVars

(* A read, once begun, is executed.                                        *)
VDiskFairSpec == VDiskSpec /\ WF_vdiskVars(Fragment \/ ReturnRead)
=============================================================================
