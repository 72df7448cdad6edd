---------------------------- MODULE VDiskProofs ----------------------------
(***************************************************************************)
(* Proofs about VDisk, for any geometry of the disk and any files: a read  *)
(* gives, sector by sector, what its sectors give alone, however it is cut *)
(* into fragments, and a driver for FAT32 finds the files on the disk.     *)
(***************************************************************************)
EXTENDS VDiskProps, SequenceTheorems, WellFoundedInduction, TLAPS

LEMMA NatLess == IsWellFoundedOn({ss \in Nat \X Nat : ss[1] < ss[2]}, Nat)
BY NatLessThanWellFounded DEF OpToRel

LEMMA LeastElement ==
  ASSUME NEW T, T \subseteq Nat, T # {}
  PROVE  \E x \in T : \A y \in T : x <= y
<1> DEFINE R == {ss \in Nat \X Nat : ss[1] < ss[2]}
<1>1. IsWellFoundedOn(R, Nat)
  BY NatLess
<1>2. PICK x \in T : \A y \in T : ~ (<<y, x>> \in R)
  <2> HIDE DEF R
  <2> QED
    BY <1>1, WFMin
<1>3. ASSUME NEW y \in T PROVE x <= y
  <2>1. ~(y < x)
    BY <1>2
  <2> QED
    BY <2>1
<1> QED
  BY <1>3

LEMMA MinNat ==
  ASSUME NEW T, T \subseteq Nat, T # {}
  PROVE  Min(T) \in T /\ \A y \in T : Min(T) <= y
BY LeastElement DEF Min

LEMMA DivModNat ==
  ASSUME NEW n \in Nat \ {0}, NEW i \in Nat
  PROVE  /\ i \div n \in Nat /\ i % n \in 0 .. n - 1
         /\ i = n * (i \div n) + (i % n)
OBVIOUS

LEMMA TimesNat == ASSUME NEW a \in Nat, NEW b \in Nat PROVE a * b \in Nat /\ b * a = a * b
OBVIOUS

LEMMA TimesMonotone ==
  ASSUME NEW a \in Nat, NEW x \in Nat, NEW y \in Nat, x <= y
  PROVE  a * x <= a * y
OBVIOUS

LEMMA TimesSum ==
  ASSUME NEW a \in Nat, NEW x \in Nat, NEW y \in Nat
  PROVE  a * (x + y) = a * x + a * y /\ a * (x + 1) = a * x + a
OBVIOUS

\* In which multiple of n a number lies.

LEMMA DivUnique ==
  ASSUME NEW n \in Nat \ {0}, NEW i \in Nat, NEW q \in Nat, n * q <= i, i < n * (q + 1)
  PROVE  i \div n = q /\ i % n = i - n * q
<1> DEFINE d == i \div n
<1>1. d \in Nat /\ i % n \in 0 .. n - 1 /\ i = n * d + (i % n)
  BY DivModNat
<1>2. n * q \in Nat /\ n * d \in Nat /\ n * (q + 1) = n * q + n /\ n * (d + 1) = n * d + n
  BY <1>1, TimesNat, TimesSum
<1> HIDE DEF d
<1>3. ~(d >= q + 1)
  <2>1. SUFFICES ASSUME q + 1 <= d PROVE FALSE
    BY <1>1
  <2>2. n * (q + 1) <= n * d
    BY <1>1, <2>1, TimesMonotone
  <2> QED
    BY <1>1, <1>2, <2>2
<1>4. ~(q >= d + 1)
  <2>1. SUFFICES ASSUME d + 1 <= q PROVE FALSE
    BY <1>1
  <2>2. n * (d + 1) <= n * q
    BY <1>1, <2>1, TimesMonotone
  <2> QED
    BY <1>1, <1>2, <2>2
<1>5. d = q
  BY <1>1, <1>3, <1>4
<1> QED
  BY <1>1, <1>2, <1>5 DEF d
---------------------------------------------------------------------------
LEMMA Numbers ==
  ASSUME GeometryAssumption
  PROVE  /\ SectorSize \in Nat \ {0} /\ EntrySize \in Nat \ {0} /\ PartitionLba \in Nat \ {0}
         /\ ClusterCount \in Nat \ {0} /\ Clusters \in Nat \ {0} /\ FileCount \in Nat \ {0}
         /\ WordSize \in Nat \ {0} /\ FsInfoSector \in Nat /\ BackupVbrSector \in Nat
         /\ MaxFiles \in Nat /\ MaxFiles >= 2 /\ ClusterSize \in Nat \ {0}
         /\ SectorsPerFat \in Nat /\ FatPerSector \in Nat /\ ReservedCount \in Nat \ {0}
         /\ FatLba \in Nat /\ DiskSize \in Nat
<1>1. /\ SectorSize \in Nat \ {0} /\ EntrySize \in Nat \ {0} /\ PartitionLba \in Nat \ {0}
      /\ ClusterCount \in Nat \ {0} /\ Clusters \in Nat \ {0} /\ FileCount \in Nat \ {0}
      /\ WordSize \in Nat \ {0} /\ FsInfoSector \in Nat \ {0} /\ BackupVbrSector \in Nat \ {0}
      /\ FsInfoSector < BackupVbrSector /\ BackupVbrSector < ClusterCount
  BY DEF GeometryAssumption
<1>2. MaxFiles \in Nat /\ MaxFiles >= 2 /\ ReservedCount \in Nat \ {0}
  BY <1>1 DEF MaxFiles, ReservedCount
<1>3. ClusterSize \in Nat \ {0}
  BY <1>1 DEF ClusterSize
<1>4. FatPerSector \in Nat
  BY <1>1, DivModNat DEF FatPerSector
<1>5. SectorsPerFat \in Nat
  <2> DEFINE bytes == Clusters * EntrySize
             rounded == bytes + ClusterSize - 1
             quotient == rounded \div ClusterSize
  <2>1. bytes \in Nat
    BY <1>1
  <2>2. rounded \in Nat
    BY <1>3, <2>1
  <2> HIDE DEF rounded
  <2>3. quotient \in Nat
    BY <1>3, <2>2, DivModNat
  <2>4. SectorsPerFat = quotient * ClusterCount
    BY DEF SectorsPerFat, rounded
  <2> HIDE DEF quotient
  <2> QED
    BY <1>1, <2>3, <2>4
<1>6. FatLba \in Nat
  BY <1>1, <1>2 DEF FatLba
<1>7. DiskSize \in Nat
  <2>1. Clusters * ClusterCount \in Nat
    BY <1>1
  <2> QED
    BY <1>1, <1>2, <1>5, <2>1 DEF DiskSize, PartitionCount
<1> QED
  BY <1>1, <1>2, <1>3, <1>4, <1>5, <1>6, <1>7

LEMMA DirClusterNat ==
  ASSUME GeometryAssumption, NEW c \in DirClusters
  PROVE  c \in 2 .. 8 /\ ClusterLba(c) \in Nat
<1>1. c \in 2 .. 8
  BY DEF DirClusters, RootCluster, MicrosoftCluster
<1>2. c - 2 \in Nat /\ ClusterCount \in Nat
  BY <1>1, Numbers
<1>3. (c - 2) * ClusterCount \in Nat
  BY <1>2, TimesNat
<1> QED
  BY <1>1, <1>3, Numbers DEF ClusterLba

LEMMA RegionsNat ==
  ASSUME GeometryAssumption, NEW r \in vdisk_regions
  PROVE  /\ r.lba \in Nat /\ r.count \in Nat /\ DiskRegionEnd(r) \in Nat
         /\ r.build \in {"mbr", "vbr", "fsinfo", "fat", "subdirs", "files"}
         /\ r.build \in {"mbr", "vbr", "fsinfo", "subdirs"} => r.count = 1
<1>1. CASE r \in {DiskRegion("mbr", 0, 0, 1),
                  DiskRegion("vbr", 0, PartitionLba, 1),
                  DiskRegion("fsinfo", 0, PartitionLba + FsInfoSector, 1),
                  DiskRegion("vbr", 0, PartitionLba + BackupVbrSector, 1),
                  DiskRegion("fat", 0, FatLba, SectorsPerFat)}
  BY <1>1, Numbers DEF DiskRegion, DiskRegionEnd
<1>2. ASSUME NEW c \in DirClusters, r = DiskRegion("subdirs", c, ClusterLba(c), 1)
      PROVE  r.lba \in Nat /\ r.count = 1 /\ DiskRegionEnd(r) \in Nat /\ r.build = "subdirs"
  BY <1>2, DirClusterNat DEF DiskRegion, DiskRegionEnd
<1>3. ASSUME NEW c \in DirClusters, r = DiskRegion("files", c, ClusterLba(c) + 1, ClusterCount - 1)
      PROVE  r.lba \in Nat /\ r.count \in Nat /\ DiskRegionEnd(r) \in Nat /\ r.build = "files"
  BY <1>3, DirClusterNat, Numbers DEF DiskRegion, DiskRegionEnd
<1> QED
  BY <1>1, <1>2, <1>3 DEF vdisk_regions

LEMMA FileIdxInt ==
  ASSUME GeometryAssumption, NEW lba \in Nat
  PROVE  /\ FileIdx(lba) \in Int /\ FileIdx(lba) >= -1 /\ FileIdx(lba) + 1 = lba \div FileCount
         /\ FileCount \in Nat \ {0}
<1>1. FileCount \in Nat \ {0}
  BY Numbers
<1>2. lba \div FileCount \in Nat
  BY <1>1, DivModNat
<1> QED
  BY <1>1, <1>2 DEF FileIdx

\* The end of a fragment that begins before the first file.

LEMMA FragEndBefore ==
  ASSUME GeometryAssumption, NEW from \in Nat, NEW to \in Nat, from < to, FileIdx(from) < 0
  PROVE  /\ FragEnd(from, to) \in from + 1 .. to
         /\ \A r \in vdisk_regions : from < r.lba => FragEnd(from, to) <= r.lba
         /\ \A r \in RegionsAt(from) : FragEnd(from, to) <= DiskRegionEnd(r)
<1> DEFINE Later == {r.lba : r \in {s \in vdisk_regions : from < s.lba}}
           Ends == {DiskRegionEnd(r) : r \in RegionsAt(from)}
           T == {to} \cup Later \cup Ends
<1>0. FileIdx(from) \in Int
  BY FileIdxInt
<1>1. FragEnd(from, to) = Min(T)
  <2>1. ~(FileIdx(from) >= 0)
    BY <1>0
  <2> QED
    BY <2>1, Zenon DEF FragEnd
<1>2. T \subseteq Nat /\ T # {} /\ to \in T
  BY RegionsNat DEF RegionsAt
<1>3. \A y \in T : y > from
  BY RegionsNat DEF RegionsAt
<1>4. Min(T) \in T /\ \A y \in T : Min(T) <= y
  <2> HIDE DEF T
  <2> QED
    BY <1>2, MinNat
<1>5. Min(T) \in from + 1 .. to
  <2> HIDE DEF T
  <2>1. Min(T) \in Nat /\ Min(T) > from /\ Min(T) <= to
    BY <1>2, <1>3, <1>4
  <2> QED
    BY <2>1
<1> DEFINE e == Min(T)
<1>6. \A y \in Later \cup Ends : e <= y
  <2> HIDE DEF Later, Ends, e
  <2> QED
    BY <1>4 DEF e
<1> HIDE DEF e
<1>7. /\ \A r \in vdisk_regions : from < r.lba => e <= r.lba
      /\ \A r \in RegionsAt(from) : e <= DiskRegionEnd(r)
  BY <1>6
<1>8. e = FragEnd(from, to) /\ e \in from + 1 .. to
  BY <1>1, <1>5, Zenon DEF e
<1> QED
  BY <1>7, <1>8

\* In a fragment before the first file, all sectors are in one region, or in none.

LEMMA OneRegion ==
  ASSUME GeometryAssumption, NEW from \in Nat, NEW to \in Nat, from < to, FileIdx(from) < 0,
         NEW lba \in from .. FragEnd(from, to) - 1
  PROVE  RegionsAt(lba) = RegionsAt(from)
<1> DEFINE e == FragEnd(from, to)
<1>1. /\ e \in from + 1 .. to
      /\ \A r \in vdisk_regions : from < r.lba => e <= r.lba
      /\ \A r \in RegionsAt(from) : e <= DiskRegionEnd(r)
  BY FragEndBefore
<1> HIDE DEF e
<1>2. ASSUME NEW r \in vdisk_regions
      PROVE  r.lba <= lba /\ lba < DiskRegionEnd(r) <=> r.lba <= from /\ from < DiskRegionEnd(r)
  <2>1. r.lba \in Nat /\ DiskRegionEnd(r) \in Nat /\ lba \in Nat /\ from <= lba /\ lba < e
    BY <1>1, RegionsNat DEF e
  <2>2. ASSUME r.lba <= from, from < DiskRegionEnd(r) PROVE lba < DiskRegionEnd(r)
    <3>1. r \in RegionsAt(from)
      BY <2>2 DEF RegionsAt
    <3> QED
      BY <1>1, <2>1, <3>1
  <2>3. ASSUME r.lba <= lba PROVE r.lba <= from
    BY <1>1, <2>1, <2>3
  <2> QED
    BY <2>1, <2>2, <2>3
<1> QED
  BY <1>2 DEF RegionsAt

---------------------------------------------------------------------------
LEMMA MinOfTwo ==
  ASSUME NEW a \in Int, NEW b \in Int
  PROVE  /\ Min({a, b}) \in {a, b} /\ Min({a, b}) \in Int
         /\ \A n \in Int : n < Min({a, b}) <=> n < a /\ n < b
<1>1. \E x \in {a, b} : \A y \in {a, b} : x <= y
  <2>1. CASE a <= b
    BY <2>1
  <2>2. CASE b <= a
    BY <2>2
  <2> QED
    BY <2>1, <2>2
<1>2. Min({a, b}) \in {a, b} /\ \A y \in {a, b} : Min({a, b}) <= y
  BY <1>1 DEF Min
<1> DEFINE m == Min({a, b})
<1>3. (m = a \/ m = b) /\ m <= a /\ m <= b
  BY <1>2
<1> HIDE DEF m
<1>4. m \in Int /\ \A n \in Int : n < m <=> n < a /\ n < b
  BY <1>3
<1> QED
  BY <1>2, <1>4 DEF m

LEMMA MaxWithZero ==
  ASSUME NEW a \in Int
  PROVE  /\ Max({a, 0}) \in Nat
         /\ \A n \in Nat : n < Max({a, 0}) <=> n < a
<1>1. \E x \in {a, 0} : \A y \in {a, 0} : x >= y
  <2>1. CASE a <= 0
    BY <2>1
  <2>2. CASE 0 <= a
    BY <2>2
  <2> QED
    BY <2>1, <2>2
<1>2. Max({a, 0}) \in {a, 0} /\ \A y \in {a, 0} : Max({a, 0}) >= y
  BY <1>1 DEF Max
<1> DEFINE m == Max({a, 0})
<1>3. (m = a \/ m = 0) /\ m >= a /\ m >= 0
  BY <1>2
<1> HIDE DEF m
<1>4. m \in Nat /\ \A n \in Nat : n < m <=> n < a
  BY <1>3
<1> QED
  BY <1>4 DEF m

\* The part of a file of length len that a fragment of it has.

LEMMA WithinPart ==
  ASSUME NEW len \in Nat, NEW offset \in Nat, NEW size \in Nat, NEW n \in Nat, n < size
  PROVE  n < Min({Max({len - offset, 0}), size}) <=> offset + n < len
<1> DEFINE room == Max({len - offset, 0})
<1>1. room \in Nat /\ (n < room <=> n < len - offset)
  BY MaxWithZero, len - offset \in Int
<1> HIDE DEF room
<1>2. n < Min({room, size}) <=> n < room /\ n < size
  BY <1>1, MinOfTwo
<1> QED
  BY <1>1, <1>2 DEF room
---------------------------------------------------------------------------
LEMMA TimesBelow ==
  ASSUME NEW s \in Nat \ {0}, NEW count \in Nat, NEW k \in 1 .. count, NEW j \in 0 .. s - 1
  PROVE  /\ (k - 1) * s \in Nat /\ (k - 1) * s + j \in Nat /\ (k - 1) * s + j < count * s
         /\ count * s \in Nat
<1>1. k - 1 \in Nat /\ (k - 1) + 1 = k /\ k <= count /\ k \in Nat
  OBVIOUS
<1>2. (k - 1) * s \in Nat /\ count * s \in Nat
  BY <1>1, TimesNat
<1>3. s * ((k - 1) + 1) = s * (k - 1) + s
  BY <1>1, TimesSum
<1>4. s * k <= s * count
  BY <1>1, TimesMonotone
<1> DEFINE a == s * (k - 1)  b == s * k  d == s * count
<1>5. a = (k - 1) * s /\ d = count * s /\ b = a + s /\ b <= d /\ a \in Nat /\ d \in Nat
  BY <1>1, <1>2, <1>3, <1>4, TimesNat
<1> HIDE DEF a, b, d
<1> QED
  BY <1>5

\* A sector of the FAT, of a directory or of a file is the same in whatever fragment.
FatEntry(i) ==
  IF i < FatPerSector \/ i \in {FileEndMarker(idx) : idx \in {n \in FileIds : disk_files[n].read}}
    THEN EndMarker ELSE i + 1

LEMMA FatSectors ==
  ASSUME NEW lba, NEW count
  PROVE  vdisk_fat(lba, count)
           = [m \in 1 .. count |->
                [next |-> [j \in 0 .. FatPerSector - 1 |->
                             FatEntry((lba - FatLba) * FatPerSector + (m - 1) * FatPerSector + j)]]]
BY DEF vdisk_fat, FatEntry

LEMMA FatShift ==
  ASSUME GeometryAssumption, NEW lba \in Nat, NEW count \in Nat, NEW k \in 1 .. count
  PROVE  vdisk_fat(lba, count)[k] = vdisk_fat(lba + k - 1, 1)[1]
<1> DEFINE first == (lba - FatLba) * FatPerSector
           step == (k - 1) * FatPerSector
           next == lba + k - 1
           first2 == (next - FatLba) * FatPerSector
<1>1. vdisk_fat(lba, count)[k]
        = [next |-> [j \in 0 .. FatPerSector - 1 |-> FatEntry(first + step + j)]]
  BY FatSectors, Zenon
<1>2. vdisk_fat(next, 1)[1]
        = [next |-> [j \in 0 .. FatPerSector - 1 |-> FatEntry(first2 + (1 - 1) * FatPerSector + j)]]
  <2> DEFINE one == 1
  <2>1. one \in 1 .. one
    OBVIOUS
  <2> HIDE DEF next, one
  <2>2. vdisk_fat(next, one)[one]
          = [next |-> [j \in 0 .. FatPerSector - 1 |->
                         FatEntry(first2 + (one - 1) * FatPerSector + j)]]
    BY <2>1, FatSectors, Zenon
  <2> QED
    BY <2>2 DEF one
<1>3. /\ FatPerSector \in Nat /\ first \in Int /\ step \in Int /\ first2 \in Int
      /\ first2 = first + step /\ (1 - 1) * FatPerSector = 0
  <2>1. FatPerSector \in Nat /\ FatLba \in Nat /\ lba - FatLba \in Int /\ k - 1 \in Int
    BY Numbers
  <2>2. \A x \in Int, y \in Int : (x + y) * FatPerSector = x * FatPerSector + y * FatPerSector
    BY <2>1
  <2>3. next - FatLba = (lba - FatLba) + (k - 1)
    BY <2>1
  <2> QED
    BY <2>1, <2>2, <2>3
<1> HIDE DEF first, step, first2
<1>4. ASSUME NEW j \in 0 .. FatPerSector - 1
      PROVE  first + step + j = first2 + (1 - 1) * FatPerSector + j
  BY <1>3
<1> QED
  BY <1>1, <1>2, <1>4

LEMMA DirShift ==
  ASSUME GeometryAssumption, NEW lba \in Nat, NEW count \in Nat, NEW k \in 1 .. count
  PROVE  vdisk_dir_files(lba, count)[k] = vdisk_dir_files(lba + k - 1, 1)[1]
<1> DEFINE S(idx) == [entries |-> IF disk_files[idx].read
                        THEN {Entry(FileName(idx), disk_files[idx].xlen, FileCluster(idx))}
                        ELSE {}]
<1>1. /\ vdisk_dir_files(lba, count)[k] = S(FileDirentIdx(lba + k - 1))
      /\ vdisk_dir_files(lba + k - 1, 1)[1] = S(FileDirentIdx(lba + k - 1 + 1 - 1))
  BY DEF vdisk_dir_files
<1>2. lba + k - 1 + 1 - 1 = lba + k - 1
  OBVIOUS
<1> QED
  BY <1>1, <1>2

\* The bytes of a file, which its patch has been over.
ByteAt(idx, n) ==
  IF disk_files[idx].patch /\ n < disk_files[idx].xlen THEN PatchedByte(idx, n)
  ELSE IF n < disk_files[idx].len THEN RawByte(idx, n)
  ELSE ZeroByte

LEMMA FileSectors ==
  ASSUME GeometryAssumption, NEW lba, NEW count \in Nat, NEW k \in 1 .. count,
         disk_files[FileIdx(lba)].len \in Nat, disk_files[FileIdx(lba)].xlen \in Nat,
         FileOffset(lba) \in Nat
  PROVE  vdisk_file(lba, count)[k]
           = [bytes |-> [j \in 0 .. SectorSize - 1 |->
                           ByteAt(FileIdx(lba), FileOffset(lba) + (k - 1) * SectorSize + j)]]
<1> DEFINE idx    == FileIdx(lba)
           file   == disk_files[idx]
           offset == FileOffset(lba)
           Byte(n) ==
             IF file.patch /\ n < Min({Max({file.xlen - offset, 0}), count * SectorSize})
               THEN PatchedByte(idx, offset + n)
             ELSE IF n < Min({Max({file.len - offset, 0}), count * SectorSize})
               THEN RawByte(idx, offset + n)
             ELSE ZeroByte
           shift == (k - 1) * SectorSize
<1>1. vdisk_file(lba, count)[k] = [bytes |-> [j \in 0 .. SectorSize - 1 |-> Byte(shift + j)]]
  <2>1. vdisk_file(lba, count)
          = [m \in 1 .. count |->
              [bytes |-> [j \in 0 .. SectorSize - 1 |-> Byte((m - 1) * SectorSize + j)]]]
    BY DEF vdisk_file
  <2> HIDE DEF Byte
  <2> QED
    BY <2>1, Zenon
<1>2. SectorSize \in Nat \ {0} /\ offset \in Nat /\ k - 1 \in Nat
  BY Numbers
<1>3. ASSUME NEW j \in 0 .. SectorSize - 1
      PROVE  Byte(shift + j) = ByteAt(idx, offset + shift + j)
  <2>1. /\ shift \in Nat /\ shift + j \in Nat /\ shift + j < count * SectorSize
        /\ count * SectorSize \in Nat
    BY <1>2, TimesBelow
  <2> DEFINE n == shift + j   size == count * SectorSize
  <2>2. offset + n = offset + shift + j
    BY <1>2, <2>1
  <2> HIDE DEF n, size, idx, offset, shift
  <2>3. /\ n < Min({Max({file.xlen - offset, 0}), size}) <=> offset + n < file.xlen
        /\ n < Min({Max({file.len - offset, 0}), size}) <=> offset + n < file.len
    BY <1>2, <2>1, WithinPart DEF n, size, idx
  <2> QED
    BY <2>2, <2>3 DEF n, size, ByteAt
<1> HIDE DEF Byte, shift, offset
<1>4. vdisk_file(lba, count)[k]
        = [bytes |-> [j \in 0 .. SectorSize - 1 |-> ByteAt(idx, offset + shift + j)]]
  BY <1>1, <1>3
<1> QED
  BY <1>4 DEF shift, offset

LEMMA FileShift ==
  ASSUME GeometryAssumption, NEW lba \in Nat, NEW count \in Nat, NEW k \in 1 .. count,
         disk_files[FileIdx(lba)].len \in Nat, disk_files[FileIdx(lba)].xlen \in Nat,
         FileIdx(lba + k - 1) = FileIdx(lba),
         FileOffset(lba) \in Nat, FileOffset(lba + k - 1) = FileOffset(lba) + (k - 1) * SectorSize
  PROVE  vdisk_file(lba, count)[k] = vdisk_file(lba + k - 1, 1)[1]
<1> DEFINE idx == FileIdx(lba)
           offset == FileOffset(lba)
           next == lba + k - 1
           offset2 == FileOffset(next)
           shift == (k - 1) * SectorSize
           one == 1
<1>1. SectorSize \in Nat /\ shift \in Nat /\ offset2 = offset + shift /\ offset2 \in Nat
      /\ (one - 1) * SectorSize = 0 /\ FileIdx(next) = idx /\ one \in 1 .. one /\ one \in Nat
  BY Numbers, TimesNat
<1>2. vdisk_file(lba, count)[k]
        = [bytes |-> [j \in 0 .. SectorSize - 1 |-> ByteAt(idx, offset + shift + j)]]
  BY FileSectors
<1> HIDE DEF next, one
<1>3. vdisk_file(next, one)[one]
        = [bytes |-> [j \in 0 .. SectorSize - 1 |->
                        ByteAt(idx, offset2 + (one - 1) * SectorSize + j)]]
  <2>1. vdisk_file(next, one)[one]
          = [bytes |-> [j \in 0 .. SectorSize - 1 |->
                          ByteAt(FileIdx(next), FileOffset(next) + (one - 1) * SectorSize + j)]]
    BY <1>1, FileSectors
  <2> QED
    BY <1>1, <2>1
<1>4. offset \in Nat
  OBVIOUS
<1> HIDE DEF offset, offset2, shift
<1>5. ASSUME NEW j \in 0 .. SectorSize - 1
      PROVE  offset2 + (one - 1) * SectorSize + j = offset + shift + j
  BY <1>1, <1>4
<1> QED
  BY <1>2, <1>3, <1>5 DEF next, one
---------------------------------------------------------------------------
\* Where the sectors of a fragment that is within the room for a file are.

LEMMA FileSlot ==
  ASSUME GeometryAssumption, NEW from \in Nat, NEW to \in Nat, from < to, NoWrap(to),
         FileIdx(from) >= 0
  PROVE  /\ FragEnd(from, to) \in from + 1 .. to
         /\ FileOffset(from) \in Nat
         /\ \A lba \in from .. FragEnd(from, to) - 1 :
              /\ FileIdx(lba) = FileIdx(from)
              /\ FileOffset(lba) = FileOffset(from) + (lba - from) * SectorSize
<1> DEFINE q == from \div FileCount
           next == FileLba(FileIdx(from) + 1)
           e == FragEnd(from, to)
<1>1. FileCount \in Nat \ {0} /\ q \in Nat /\ FileIdx(from) + 1 = q /\ FileIdx(from) \in Int
  BY FileIdxInt, DivModNat
<1>2. from % FileCount \in 0 .. FileCount - 1 /\ from = FileCount * q + (from % FileCount)
  BY <1>1, DivModNat
<1> HIDE DEF q
<1>3. next = (q + 1) * FileCount
  <2>1. CASE Wide
    BY <1>1, <2>1 DEF FileLba
  <2>2. CASE ~Wide
    <3> DEFINE low == FileCount * q
    <3>1. low \in Nat /\ low <= from
      <4> HIDE DEF low
      <4> QED
        BY <1>1, <1>2, TimesNat DEF low
    <3>2. (q + 1) * FileCount = low + FileCount
      BY <1>1, TimesNat, TimesSum
    <3>3. (q + 1) * FileCount \in Nat /\ (q + 1) * FileCount < WordSize /\ WordSize \in Nat \ {0}
      <4> HIDE DEF low
      <4> QED
        BY <1>1, <2>2, <3>1, <3>2, Numbers DEF NoWrap
    <3>4. \A n \in Nat : n < WordSize => n % WordSize = n
      BY <3>3
    <3>5. next = ((q + 1) * FileCount) % WordSize
      BY <1>1, <2>2 DEF FileLba
    <3> QED
      BY <3>3, <3>4, <3>5
  <2> QED
    BY <2>1, <2>2
<1>4. next = FileCount * (q + 1) /\ FileCount * q \in Nat /\ next = FileCount * q + FileCount
      /\ next \in Nat
  BY <1>1, <1>3, TimesNat, TimesSum
<1>5. e = Min({to, next})
  BY DEF FragEnd
<1> HIDE DEF e, next
<1>6. e \in Int /\ (e = to \/ e = next) /\ \A n \in Int : n < e <=> n < to /\ n < next
  BY <1>4, <1>5, MinOfTwo
<1> DEFINE base == FileCount * q   rest == from % FileCount
<1>6a. base \in Nat /\ rest \in Nat /\ from = base + rest /\ rest < FileCount
       /\ next = base + FileCount /\ FileCount \in Nat
  BY <1>1, <1>2, <1>4
<1> HIDE DEF base, rest
<1>7. e \in from + 1 .. to
  <2>1. from < next
    BY <1>6a
  <2>2. from < e
    BY <1>6, <2>1
  <2> QED
    BY <1>6, <2>2
<1>8. ASSUME NEW lba \in from .. e - 1
      PROVE  lba \in Nat /\ lba \div FileCount = q /\ lba % FileCount = rest + (lba - from)
  <2>1. lba \in Nat /\ lba < e /\ from <= lba /\ lba \in Int
    BY <1>7
  <2>2. lba < next
    BY <1>6, <2>1
  <2>3. base <= lba /\ lba < FileCount * (q + 1)
    BY <1>4, <1>6a, <2>1, <2>2 DEF base
  <2>4. lba \div FileCount = q /\ lba % FileCount = lba - base
    BY <1>1, <2>1, <2>3, DivUnique DEF base
  <2> QED
    BY <1>6a, <2>1, <2>4
<1>9. ASSUME NEW lba \in from .. e - 1
      PROVE  /\ FileIdx(lba) = FileIdx(from)
             /\ FileOffset(lba) = FileOffset(from) + (lba - from) * SectorSize
  <2>1. FileIdx(lba) = FileIdx(from)
    BY <1>1, <1>8, FileIdxInt
  <2>2. FileOffset(lba) = (rest + (lba - from)) * SectorSize /\ FileOffset(from) = rest * SectorSize
    BY <1>8 DEF FileOffset, rest
  <2>3. SectorSize \in Nat /\ lba - from \in Nat
    BY <1>8, Numbers
  <2>4. (rest + (lba - from)) * SectorSize = rest * SectorSize + (lba - from) * SectorSize
    BY <1>6a, <2>3
  <2> QED
    BY <2>1, <2>2, <2>4
<1>10. FileOffset(from) \in Nat
  BY <1>6a, Numbers, TimesNat DEF FileOffset, rest
<1> QED
  BY <1>7, <1>9, <1>10 DEF e

\* What is known of each file.
FilesKept ==
  /\ disk_files \in [FileIds -> [read : BOOLEAN, len : Nat, xlen : Nat, patch : BOOLEAN]]
  /\ file_index \in Nat

\* Where the first file is.

LEMMA FirstFile ==
  ASSUME GeometryAssumption
  PROVE  FileLba(0) = FileCount
<1>1. FileCount \in Nat \ {0} /\ MaxFiles \in Nat /\ MaxFiles >= 2
      /\ WordSize \in Nat \ {0} /\ DiskSize \in Nat
  BY Numbers
<1>2. FileCount * (1 + 1) <= FileCount * (MaxFiles + 1)
  BY <1>1, TimesMonotone
<1>3. FileCount * (1 + 1) = FileCount * 1 + FileCount
  BY <1>1
<1>4. (MaxFiles + 1) * FileCount = FileCount * (MaxFiles + 1)
  BY <1>1, TimesNat
<1> DEFINE n == FileCount * (MaxFiles + 1)  two == FileCount * (1 + 1)
<1>5. n \in Nat /\ n <= DiskSize /\ DiskSize <= WordSize /\ two <= n /\ two = FileCount + FileCount
  BY <1>1, <1>2, <1>3, <1>4, TimesNat DEF GeometryAssumption
<1> HIDE DEF n, two
<1>6. FileCount < WordSize
  BY <1>1, <1>5
<1>7. FileCount % WordSize = FileCount
  BY <1>1, <1>6
<1> QED
  BY <1>1, <1>7 DEF FileLba

LEMMA ZerosAt ==
  ASSUME NEW count \in Nat, NEW k \in 1 .. count
  PROVE  Zeros(count)[k] = Empty /\ Zeros(1)[1] = Empty
BY DEF Zeros

\* A fragment is built as its sectors would be one by one.

LEMMA FragmentData ==
  ASSUME GeometryAssumption, FilesKept, NEW from \in Nat, NEW to \in Nat, from < to, NoWrap(to),
         to <= FileLba(0) \/ FileLba(0) <= from
  PROVE  /\ FragEnd(from, to) \in from + 1 .. to
         /\ BuildSectors(from, FragEnd(from, to) - from)
              = [k \in 1 .. FragEnd(from, to) - from |-> SectorAt(from + k - 1)]
<1> DEFINE e == FragEnd(from, to)
           count == e - from
<1>1. FileIdx(from) \in Int /\ FileIdx(from) >= -1 /\ FileCount \in Nat \ {0}
  BY FileIdxInt
<1>2. CASE FileIdx(from) >= 0
  <2>1. /\ e \in from + 1 .. to /\ FileOffset(from) \in Nat
        /\ \A lba \in from .. e - 1 :
             /\ FileIdx(lba) = FileIdx(from)
             /\ FileOffset(lba) = FileOffset(from) + (lba - from) * SectorSize
    BY <1>2, FileSlot
  <2> HIDE DEF e
  <2>2. count \in Nat
    BY <2>1
  <2> HIDE DEF count
  <2>3. ASSUME NEW k \in 1 .. count
        PROVE  /\ from + k - 1 \in from .. e - 1
               /\ from + k - 1 - from = k - 1
    BY <2>1, <2>3 DEF count
  <2>4. ASSUME NEW k \in 1 .. count
        PROVE  /\ FileIdx(from + k - 1) = FileIdx(from)
               /\ FileOffset(from + k - 1) = FileOffset(from) + (k - 1) * SectorSize
    BY <2>1, <2>3
  <2>5. CASE FileIdx(from) < MaxFiles
    <3>1. FileIdx(from) \in FileIds /\ MaxFiles \in Nat
      BY <1>1, <1>2, <2>5, Numbers DEF FileIds
    <3>2. ASSUME NEW k \in 1 .. count
          PROVE  vdisk_file(from, count)[k] = SectorAt(from + k - 1)
      <4>1. vdisk_file(from, count)[k] = vdisk_file(from + k - 1, 1)[1]
        BY <2>1, <2>2, <2>4, <3>1, FileShift DEF FilesKept
      <4>2. BuildSectors(from + k - 1, 1) = vdisk_file(from + k - 1, 1)
        BY <1>2, <2>4, <2>5 DEF BuildSectors
      <4> QED
        BY <4>1, <4>2 DEF SectorAt
    <3>3. vdisk_file(from, count) = [k \in 1 .. count |-> vdisk_file(from, count)[k]]
      BY DEF vdisk_file
    <3>4. BuildSectors(from, count) = vdisk_file(from, count)
      BY <1>2, <2>5 DEF BuildSectors
    <3> QED
      BY <2>1, <3>2, <3>3, <3>4 DEF e, count
  <2>6. CASE ~(FileIdx(from) < MaxFiles)
    <3>1. ASSUME NEW k \in 1 .. count
          PROVE  Zeros(count)[k] = SectorAt(from + k - 1)
      <4>1. BuildSectors(from + k - 1, 1) = Zeros(1)
        BY <1>2, <2>4, <2>6 DEF BuildSectors
      <4> QED
        BY <2>2, <4>1, ZerosAt DEF SectorAt
    <3>2. Zeros(count) = [k \in 1 .. count |-> Zeros(count)[k]]
      BY DEF Zeros
    <3>3. BuildSectors(from, count) = Zeros(count)
      BY <1>2, <2>6 DEF BuildSectors
    <3> QED
      BY <2>1, <3>1, <3>2, <3>3 DEF e, count
  <2> QED
    BY <2>5, <2>6
<1>3. CASE FileIdx(from) < 0
  <2>1. e \in from + 1 .. to
    BY <1>3, FragEndBefore
  <2>1a. \A lba \in from .. e - 1 : RegionsAt(lba) = RegionsAt(from)
    BY <1>3, OneRegion
  <2>1b. \A r \in RegionsAt(from) : e <= DiskRegionEnd(r)
    BY <1>3, FragEndBefore
  <2> HIDE DEF e
  <2>2. count \in Nat /\ e \in Nat
    BY <2>1
  <2>3. to <= FileCount
    <3>1. FileLba(0) = FileCount
      BY FirstFile
    <3>2. ASSUME FileCount <= from PROVE FALSE
      <4>1. from = FileCount * (from \div FileCount) + (from % FileCount)
            /\ from % FileCount \in 0 .. FileCount - 1
        BY <1>1, DivModNat
      <4>2. from \div FileCount = 0
        BY <1>1, <1>3, FileIdxInt
      <4>3. FileCount * (from \div FileCount) = 0
        BY <1>1, <4>2
      <4> QED
        BY <1>1, <3>2, <4>1, <4>3
    <3> QED
      BY <3>1, <3>2
  <2>4. ASSUME NEW lba \in from .. e - 1
        PROVE  lba \in Nat /\ ~(FileIdx(lba) >= 0)
    <3>1. lba \in Nat /\ lba < FileCount
      BY <1>1, <2>1, <2>3
    <3>2. FileCount * 0 <= lba /\ lba < FileCount * (0 + 1)
      BY <1>1, <3>1
    <3>3. lba \div FileCount = 0
      BY <1>1, <3>1, <3>2, DivUnique
    <3> QED
      BY <1>1, <3>1, <3>3, FileIdxInt
  <2>5. ASSUME NEW k \in 1 .. count
        PROVE  from + k - 1 \in from .. e - 1
    BY <2>1 DEF count
  <2>6. from \in from .. e - 1
    BY <2>1
  <2>7. CASE RegionsAt(from) = {}
    <3>1. ASSUME NEW k \in 1 .. count
          PROVE  Zeros(count)[k] = SectorAt(from + k - 1)
      <4>1. BuildSectors(from + k - 1, 1) = Zeros(1)
        BY <2>1a, <2>4, <2>5, <2>7 DEF BuildSectors
      <4> HIDE DEF count
      <4> QED
        BY <2>2, <4>1, ZerosAt DEF SectorAt
    <3>2. Zeros(count) = [k \in 1 .. count |-> Zeros(count)[k]]
      BY DEF Zeros
    <3>3. BuildSectors(from, count) = Zeros(count)
      BY <2>4, <2>6, <2>7 DEF BuildSectors
    <3> HIDE DEF count
    <3> QED
      BY <2>1, <3>1, <3>2, <3>3 DEF e, count
  <2>8. CASE RegionsAt(from) # {}
    <3> DEFINE r == CHOOSE s \in RegionsAt(from) : TRUE
    <3>1. r \in RegionsAt(from)
      BY <2>8
    <3>2. /\ r \in vdisk_regions /\ r.lba <= from /\ from < DiskRegionEnd(r)
      BY <3>1 DEF RegionsAt
    <3>3. BuildSectors(from, count) = BuildRegion(r, from, count)
      BY <2>4, <2>6, <2>8 DEF BuildSectors
    <3>4. ASSUME NEW k \in 1 .. count
          PROVE  SectorAt(from + k - 1) = BuildRegion(r, from + k - 1, 1)[1]
      <4>1. BuildSectors(from + k - 1, 1) = BuildRegion(r, from + k - 1, 1)
        BY <2>1a, <2>4, <2>5, <2>8 DEF BuildSectors
      <4> QED
        BY <4>1 DEF SectorAt
    <3> HIDE DEF r
    <3>5. ASSUME NEW k \in 1 .. count
          PROVE  from + k - 1 \in Nat
      BY <2>2, <2>5
    <3>6. /\ r.lba \in Nat /\ r.count \in Nat
          /\ r.build \in {"mbr", "vbr", "fsinfo", "fat", "subdirs", "files"}
          /\ r.build \in {"mbr", "vbr", "fsinfo", "subdirs"} => r.count = 1
      BY <3>2, RegionsNat
    <3>7. CASE r.build = "fat"
      <4>1. \A lba, c : BuildRegion(r, lba, c) = vdisk_fat(lba, c)
        BY <3>7 DEF BuildRegion
      <4>2. vdisk_fat(from, count) = [k \in 1 .. count |-> vdisk_fat(from, count)[k]]
        BY DEF vdisk_fat
      <4> HIDE DEF count
      <4>3. ASSUME NEW k \in 1 .. count
            PROVE  vdisk_fat(from, count)[k] = SectorAt(from + k - 1)
        <5>1. vdisk_fat(from, count)[k] = vdisk_fat(from + k - 1, 1)[1]
          BY <2>2, FatShift
        <5> QED
          BY <3>4, <4>1, <5>1
      <4> QED
        BY <2>1, <3>3, <4>1, <4>2, <4>3 DEF e, count
    <3>8. CASE r.build = "files"
      <4>1. \A lba, c : BuildRegion(r, lba, c) = vdisk_dir_files(lba, c)
        BY <3>8 DEF BuildRegion
      <4>2. vdisk_dir_files(from, count) = [k \in 1 .. count |-> vdisk_dir_files(from, count)[k]]
        BY DEF vdisk_dir_files
      <4> HIDE DEF count
      <4>3. ASSUME NEW k \in 1 .. count
            PROVE  vdisk_dir_files(from, count)[k] = SectorAt(from + k - 1)
        <5>1. vdisk_dir_files(from, count)[k] = vdisk_dir_files(from + k - 1, 1)[1]
          BY <2>2, DirShift
        <5> QED
          BY <3>4, <4>1, <5>1
      <4> QED
        BY <2>1, <3>3, <4>1, <4>2, <4>3 DEF e, count
    <3>9. CASE r.build \in {"mbr", "vbr", "fsinfo", "subdirs"}
      <4>1. DiskRegionEnd(r) = r.lba + 1
        BY <3>6, <3>9 DEF DiskRegionEnd
      <4>2. e <= r.lba + 1
        BY <2>1b, <3>1, <4>1
      <4>3. count = 1
        BY <2>1, <3>2, <3>6, <4>2
      <4>4. PICK s : BuildRegion(r, from, 1) = <<s>>
        BY <3>9 DEF BuildRegion
      <4>5. SectorAt(from + 1 - 1) = s
        BY <3>4, <4>3, <4>4
      <4>6. <<s>> = [k \in 1 .. 1 |-> SectorAt(from + k - 1)]
        BY <4>5
      <4> QED
        BY <2>1, <3>3, <4>3, <4>4, <4>6 DEF e, count
    <3> QED
      BY <3>6, <3>7, <3>8, <3>9
  <2> QED
    BY <2>7, <2>8
<1> QED
  BY <1>1, <1>2, <1>3
---------------------------------------------------------------------------
\* Sectors one after the other, as many as count, from the one at lba.
SectorsFrom(lba, count) == [k \in 1 .. count |-> SectorAt(lba + k - 1)]

LEMMA SectorsAppended ==
  ASSUME NEW lba \in Nat, NEW n \in Nat, NEW m \in Nat
  PROVE  SectorsFrom(lba, n) \o SectorsFrom(lba + n, m) = SectorsFrom(lba, n + m)
<1> DEFINE S == {SectorAt(x) : x \in Nat}
           s1 == SectorsFrom(lba, n)
           s2 == SectorsFrom(lba + n, m)
           s == SectorsFrom(lba, n + m)
<1>1. ASSUME NEW x \in Nat, NEW c \in Nat
      PROVE  /\ SectorsFrom(x, c) \in Seq(S) /\ Len(SectorsFrom(x, c)) = c
             /\ \A k \in 1 .. c : SectorsFrom(x, c)[k] = SectorAt(x + k - 1)
  <2>1. \A k \in 1 .. c : SectorAt(x + k - 1) \in S
    OBVIOUS
  <2>2. SectorsFrom(x, c) \in Seq(S)
    <3> HIDE DEF S
    <3> QED
      BY <2>1, IsASeq DEF SectorsFrom
  <2>3. DOMAIN SectorsFrom(x, c) = 1 .. c
    BY DEF SectorsFrom
  <2> HIDE DEF S
  <2>4. Len(SectorsFrom(x, c)) = c
    BY <2>2, <2>3, LenProperties
  <2> QED
    BY <2>2, <2>4 DEF SectorsFrom
<1> HIDE DEF S, s1, s2, s
<1>2. /\ s1 \in Seq(S) /\ s2 \in Seq(S) /\ s \in Seq(S)
      /\ Len(s1) = n /\ Len(s2) = m /\ Len(s) = n + m
      /\ \A k \in 1 .. n : s1[k] = SectorAt(lba + k - 1)
      /\ \A k \in 1 .. m : s2[k] = SectorAt(lba + n + k - 1)
      /\ \A k \in 1 .. n + m : s[k] = SectorAt(lba + k - 1)
  BY <1>1 DEF s1, s2, s
<1>3. /\ s1 \o s2 \in Seq(S) /\ Len(s1 \o s2) = n + m
      /\ \A k \in 1 .. n + m : (s1 \o s2)[k] = IF k <= n THEN s1[k] ELSE s2[k - n]
  BY <1>2, ConcatProperties
<1>4. ASSUME NEW k \in 1 .. n + m
      PROVE  (s1 \o s2)[k] = s[k]
  <2>1. CASE k <= n
    BY <1>2, <1>3, <2>1
  <2>2. CASE ~(k <= n)
    <3>1. k - n \in 1 .. m /\ lba + n + (k - n) - 1 = lba + k - 1
      BY <2>2
    <3> QED
      BY <1>2, <1>3, <2>2, <3>1
  <2> QED
    BY <2>1, <2>2
<1>5. s1 \o s2 = s
  BY <1>2, <1>3, <1>4, SeqEqual
<1> QED
  BY <1>5 DEF s1, s2, s

\* What is in a sector depends on the files alone.

LEMMA SectorStays ==
  ASSUME disk_files' = disk_files, NEW lba
  PROVE  SectorAt(lba)' = SectorAt(lba)
<1>1. vdisk_fat(lba, 1)' = vdisk_fat(lba, 1)
  BY DEF vdisk_fat, FileEndMarker
<1>2. vdisk_dir_files(lba, 1)' = vdisk_dir_files(lba, 1)
  BY DEF vdisk_dir_files
<1>3. vdisk_file(lba, 1)' = vdisk_file(lba, 1)
  BY DEF vdisk_file
<1>4. ASSUME NEW r
      PROVE  BuildRegion(r, lba, 1)' = BuildRegion(r, lba, 1)
  BY <1>1, <1>2, Zenon DEF BuildRegion
<1>5. BuildSectors(lba, 1)' = BuildSectors(lba, 1)
  BY <1>3, <1>4, Zenon DEF BuildSectors
<1> QED
  BY <1>5 DEF SectorAt
---------------------------------------------------------------------------
\* A read has given what its sectors give one by one, up to where it has come.
ReadKept ==
  /\ frag_start \in start .. end
  /\ disk_pc = "loop" => frag_start < end
  /\ end <= FileLba(0) \/ FileLba(0) <= start =>
       sectors = SectorsFrom(start, frag_start - start)

VDiskInv ==
  /\ FilesKept
  /\ disk_pc \in {"idle", "loop", "done", "died"}
  /\ start \in Nat /\ end \in Nat /\ end <= DiskSize
  /\ disk_pc \in {"idle", "died"} => start = 0 /\ end = 0 /\ sectors = << >>
  /\ start < end /\ NoWrap(end) => ReadKept

LEMMA FragEndWithin ==
  ASSUME GeometryAssumption, NEW from \in Nat, NEW to \in Nat, from < to, NoWrap(to),
         to <= DiskSize
  PROVE  /\ FragEnd(from, to) \in from + 1 .. to
         /\ (FragEnd(from, to) - from) % WordSize = FragEnd(from, to) - from
<1> DEFINE e == FragEnd(from, to)
<1>1. e \in from + 1 .. to
  BY FileIdxInt, FragEndBefore, FileSlot
<1>2. WordSize \in Nat /\ DiskSize \in Nat /\ DiskSize <= WordSize /\ DiskSize > 1
  <2>1. Clusters * ClusterCount \in Nat
    BY Numbers, TimesNat
  <2> QED
    BY <2>1, Numbers DEF GeometryAssumption, DiskSize, PartitionCount
<1>3. e - from < WordSize
  <2>1. CASE from > 0
    <3> HIDE DEF e
    <3> QED
      BY <1>1, <1>2, <2>1
  <2>2. CASE from = 0
    <3>1. FileIdx(from) < 0
      <4>1. FileCount * 0 <= 0 /\ 0 < FileCount * (0 + 1)
        BY FileIdxInt
      <4>2. 0 \div FileCount = 0
        BY <4>1, FileIdxInt, DivUnique
      <4> QED
        BY <2>2, <4>2, FileIdxInt
    <3> DEFINE mbr == DiskRegion("mbr", 0, 0, 1)
    <3>2. mbr \in RegionsAt(from) /\ DiskRegionEnd(mbr) = 1
      BY <2>2 DEF RegionsAt, DiskRegionEnd, DiskRegion, vdisk_regions
    <3>3. e <= DiskRegionEnd(mbr)
      BY <3>1, <3>2, FragEndBefore
    <3> HIDE DEF e
    <3> QED
      BY <1>1, <1>2, <2>2, <3>2, <3>3
  <2> QED
    BY <2>1, <2>2
<1>4. \A n \in Nat : n < WordSize => n % WordSize = n
  BY <1>2
<1> HIDE DEF e
<1>5. (e - from) % WordSize = e - from
  BY <1>1, <1>3, <1>4
<1> QED
  BY <1>1, <1>5 DEF e

LEMMA ReadStep ==
  ASSUME GeometryAssumption, VDiskInv, Fragment
  PROVE  VDiskInv'
<1> DEFINE e == FragEnd(frag_start, end)
           count == (e - frag_start) % WordSize
<1>1. /\ disk_pc = "loop" /\ disk_files' = disk_files /\ start' = start /\ end' = end
      /\ sectors' = sectors \o BuildSectors(frag_start, count)
      /\ frag_start' = frag_start + count
      /\ disk_pc' = IF frag_start' # end THEN "loop" ELSE "done"
  BY DEF Fragment
<1>2. FilesKept' /\ start' \in Nat /\ end' \in Nat /\ (end <= DiskSize)' /\ disk_pc' \in {"loop", "done"}
  BY <1>1 DEF VDiskInv, FilesKept, Fragment
<1>3. ASSUME start < end, NoWrap(end) PROVE ReadKept'
  <2>1. ReadKept /\ start \in Nat /\ end \in Nat /\ frag_start \in start .. end /\ frag_start < end
        /\ end <= DiskSize /\ FilesKept
    BY <1>1, <1>3 DEF VDiskInv, ReadKept
  <2>2. e \in frag_start + 1 .. end /\ count = e - frag_start
    BY <1>3, <2>1, FragEndWithin
  <2>3. frag_start' = e
    <3> HIDE DEF e, count
    <3> QED
      BY <1>1, <2>1, <2>2
  <2>4. frag_start' \in start' .. end' /\ (disk_pc' = "loop" => frag_start' < end')
    <3> HIDE DEF e, count
    <3> QED
      BY <1>1, <2>1, <2>2, <2>3
  <2>5. ASSUME end <= FileLba(0) \/ FileLba(0) <= start
        PROVE  (sectors = SectorsFrom(start, frag_start - start))'
    <3>1. BuildSectors(frag_start, e - frag_start) = SectorsFrom(frag_start, e - frag_start)
      <4>1. FileLba(0) \in Nat
        BY FirstFile, Numbers
      <4>2. end <= FileLba(0) \/ FileLba(0) <= frag_start
        BY <2>1, <2>5, <4>1
      <4> QED
        BY <1>3, <2>1, <4>2, FragmentData DEF SectorsFrom
    <3>2. sectors = SectorsFrom(start, frag_start - start)
      BY <2>1, <2>5 DEF ReadKept
    <3> DEFINE n == frag_start - start   m == e - frag_start
    <3>3. n \in Nat /\ m \in Nat /\ start + n = frag_start /\ n + m = e - start
      <4> HIDE DEF e
      <4> QED
        BY <2>1, <2>2
    <3>4. SectorsFrom(start, n) \o SectorsFrom(start + n, m) = SectorsFrom(start, n + m)
      <4> HIDE DEF n, m
      <4> QED
        BY <2>1, <3>3, SectorsAppended
    <3>5. sectors' = SectorsFrom(start, e - start)
      <4> HIDE DEF e, count
      <4> QED
        BY <1>1, <2>2, <3>1, <3>2, <3>3, <3>4
    <3>6. \A lba : SectorAt(lba)' = SectorAt(lba)
      BY <1>1, SectorStays
    <3>7. SectorsFrom(start, frag_start - start)' = SectorsFrom(start, e - start)
      <4> HIDE DEF e
      <4> QED
        BY <1>1, <2>3, <3>6 DEF SectorsFrom
    <3> QED
      BY <3>5, <3>7
  <2> QED
    BY <1>1, <2>4, <2>5 DEF ReadKept, FileLba
<1> QED
  BY <1>1, <1>2, <1>3 DEF VDiskInv, NoWrap

LEMMA FilesStep ==
  ASSUME GeometryAssumption, FilesKept, [VDiskNext]_vdiskVars
  PROVE  FilesKept'
<1>1. ASSUME NEW len \in FileLens, AddFile(len) PROVE FilesKept'
  <2>1. len \in Nat
    BY <1>1 DEF GeometryAssumption
  <2> DEFINE Kept == [read : BOOLEAN, len : Nat, xlen : Nat, patch : BOOLEAN]
             file == [read |-> TRUE, len |-> len, xlen |-> len, patch |-> FALSE]
  <2>2. file \in Kept
    BY <2>1
  <2>3. /\ disk_files \in [FileIds -> Kept] /\ file_index \in Nat
        /\ disk_files' = [disk_files EXCEPT ![file_index] = file]
        /\ file_index' = file_index + 1
    BY <1>1 DEF AddFile, FilesKept
  <2> HIDE DEF Kept, file
  <2>4. disk_files' \in [FileIds -> Kept]
    <3>1. \A n \in FileIds : disk_files'[n] = IF n = file_index THEN file ELSE disk_files[n]
      BY <2>3
    <3>2. \A n \in FileIds : disk_files'[n] \in Kept
      BY <2>2, <2>3, <3>1
    <3> QED
      BY <2>3, <3>2
  <2>5. file_index' \in Nat
    BY <2>3
  <2> QED
    BY <2>4, <2>5 DEF FilesKept, Kept
<1>2. ASSUME NEW idx \in FileIds, NEW xlen \in FileLens, PatchFile(idx, xlen) PROVE FilesKept'
  <2>1. xlen \in Nat
    BY <1>2 DEF GeometryAssumption
  <2> QED
    BY <1>2, <2>1 DEF PatchFile, FilesKept
<1>3. ASSUME AddFileDies \/ Fragment \/ ReturnRead \/ UNCHANGED vdiskVars
             \/ \E lba \in Lbas, count \in Counts : ReadSectors(lba, count)
      PROVE  FilesKept'
  BY <1>3 DEF AddFileDies, Fragment, ReturnRead, ReadSectors, vdiskVars, FilesKept
<1> QED
  BY <1>1, <1>2, <1>3 DEF VDiskNext

\* The read of sectors gives what its sectors give one by one.

THEOREM SectorsBuilt == ASSUME GeometryAssumption PROVE VDiskSpec => []SectorsExact
<1>1. VDiskInit => VDiskInv
  <2> SUFFICES ASSUME VDiskInit PROVE VDiskInv
    OBVIOUS
  <2>1. FilesKept
    BY DEF VDiskInit, FilesKept, NoFile
  <2> QED
    BY <2>1, Numbers DEF VDiskInit, VDiskInv
<1>2. VDiskInv /\ [VDiskNext]_vdiskVars => VDiskInv'
  <2> SUFFICES ASSUME VDiskInv, [VDiskNext]_vdiskVars PROVE VDiskInv'
    OBVIOUS
  <2>1. FilesKept'
    BY FilesStep DEF VDiskInv
  <2>2. ASSUME UNCHANGED request, disk_pc = "idle", disk_pc' \in {"idle", "died"} PROVE VDiskInv'
    BY <2>1, <2>2 DEF VDiskInv, request
  <2>3. ASSUME NEW lba \in Lbas, NEW count \in Counts, ReadSectors(lba, count) PROVE VDiskInv'
    <3>1. /\ lba \in Nat /\ count \in Nat /\ lba + count <= DiskSize
          /\ disk_pc' = "loop" /\ start' = lba /\ end' = lba + count /\ frag_start' = lba
          /\ sectors' = << >>
      BY <2>3 DEF ReadSectors, GeometryAssumption, VDiskInv
    <3>2. (start < end => ReadKept)'
      <4>1. SectorsFrom(lba, 0) = << >>
        BY DEF SectorsFrom
      <4>2. (SectorsFrom(start, frag_start - start) = << >>)'
        BY <3>1 DEF SectorsFrom
      <4> QED
        BY <3>1, <4>2 DEF ReadKept
    <3> QED
      BY <2>1, <3>1, <3>2 DEF VDiskInv
  <2>4. CASE Fragment
    BY <2>4, ReadStep
  <2>5. CASE ReturnRead
    BY <2>1, <2>5, Numbers DEF ReturnRead, VDiskInv
  <2>6. CASE UNCHANGED vdiskVars
    <3>1. (SectorsFrom(start, frag_start - start))' = SectorsFrom(start, frag_start - start)
      BY <2>6, SectorStays DEF SectorsFrom, vdiskVars, request
    <3> QED
      BY <2>1, <2>6, <3>1 DEF vdiskVars, request, VDiskInv, ReadKept
  <2> QED
    BY <2>2, <2>3, <2>4, <2>5, <2>6 DEF VDiskNext, AddFile, AddFileDies, PatchFile
<1>3. VDiskInv => SectorsExact
  BY DEF VDiskInv, ReadKept, SectorsExact, SectorsFrom
<1> QED
  BY <1>1, <1>2, <1>3, PTL DEF VDiskSpec
---------------------------------------------------------------------------
\* Where the first file begins, in clusters from the first one.
FileBase == (FileCount - PartitionLba - ReservedCount - SectorsPerFat) \div ClusterCount

LEMMA ExactDiv ==
  ASSUME NEW n \in Nat \ {0}, NEW q \in Nat
  PROVE  (n * q) \div n = q /\ (n * q) % n = 0
<1> DEFINE i == n * q
<1>1. i \in Nat /\ n * (q + 1) = i + n
  BY TimesNat, TimesSum
<1>2. i \div n = q /\ i % n = i - n * q
  <2> HIDE DEF i
  <2>1. n * q <= i /\ i < n * (q + 1)
    BY <1>1 DEF i
  <2> QED
    BY <1>1, <2>1, DivUnique
<1> QED
  BY <1>1, <1>2

LEMMA IsMultiple ==
  ASSUME NEW n \in Nat \ {0}, NEW i \in Nat, i % n = 0
  PROVE  i \div n \in Nat /\ i = n * (i \div n)
<1> DEFINE q == i \div n
<1>1. q \in Nat /\ i = n * q + (i % n)
  BY DivModNat
<1>2. n * q \in Nat
  BY <1>1, TimesNat
<1> QED
  BY <1>1, <1>2

\* Regions in clusters, the directories and the files.

LEMMA Geometry ==
  ASSUME GeometryAssumption
  PROVE  /\ FileBase \in Nat /\ FileBase >= 7 /\ FileClusters \in Nat \ {0}
         /\ FileCount = ClusterCount * FileClusters
         /\ FileCount = PartitionLba + ReservedCount + SectorsPerFat + ClusterCount * FileBase
         /\ \A idx : FileCluster(idx) = FileBase + 2 + idx * FileClusters
<1>1. /\ ClusterCount \in Nat \ {0} /\ PartitionLba \in Nat /\ FileCount \in Nat \ {0}
      /\ ReservedCount = ClusterCount /\ ClusterSize \in Nat \ {0}
      /\ PartitionLba % ClusterCount = 0 /\ FileCount % ClusterCount = 0
      /\ SectorsPerFat \in Nat
  BY Numbers DEF GeometryAssumption, ReservedCount
<1>2. PICK p \in Nat : PartitionLba = ClusterCount * p
  BY <1>1, IsMultiple
<1>3. PICK b \in Nat : FileCount = ClusterCount * b /\ FileClusters = b
  BY <1>1, IsMultiple DEF FileClusters
<1>4. PICK q \in Nat : SectorsPerFat = ClusterCount * q
  <2> DEFINE bytes == Clusters * EntrySize
             rounded == bytes + ClusterSize - 1
  <2>1. bytes \in Nat
    BY Numbers, TimesNat
  <2>2. rounded \in Nat
    BY <1>1, <2>1
  <2>3. SectorsPerFat = (rounded \div ClusterSize) * ClusterCount
    BY DEF SectorsPerFat
  <2> HIDE DEF rounded
  <2>4. PICK x \in Nat : x = rounded \div ClusterSize
    BY <1>1, <2>2, DivModNat
  <2> QED
    BY <1>1, <2>3, <2>4, TimesNat
<1>5. ClusterLba(9) = PartitionLba + 7 * ClusterCount + ReservedCount + SectorsPerFat
  BY DEF ClusterLba
<1>6. PartitionLba + 7 * ClusterCount + ReservedCount + SectorsPerFat <= FileCount
  BY <1>5 DEF GeometryAssumption, MicrosoftCluster
<1> DEFINE P == ClusterCount * p   B == ClusterCount * b   Q == ClusterCount * q
<1>7. P \in Nat /\ B \in Nat /\ Q \in Nat /\ P + 8 * ClusterCount + Q <= B
  BY <1>1, <1>2, <1>3, <1>4, <1>6, TimesNat
<1>8. p + 8 + q <= b
  <2>1. SUFFICES ASSUME b + 1 <= p + 8 + q PROVE FALSE
    OBVIOUS
  <2>2. ClusterCount * (b + 1) <= ClusterCount * (p + 8 + q)
    BY <1>1, <2>1, TimesMonotone
  <2>3. ClusterCount * (b + 1) = B + ClusterCount
    BY <1>1, TimesSum
  <2>4. ClusterCount * (p + 8 + q) = P + ClusterCount * (8 + q)
        /\ ClusterCount * (8 + q) = ClusterCount * 8 + Q
    BY <1>1, TimesSum
  <2> HIDE DEF P, B, Q
  <2> QED
    BY <1>1, <1>7, <2>2, <2>3, <2>4
<1> DEFINE a == b - (p + 1 + q)
<1>9. a \in Nat /\ a >= 7 /\ b = p + (1 + (q + a))
  BY <1>8
<1>10. B = P + (ClusterCount + (Q + ClusterCount * a)) /\ ClusterCount * a \in Nat
  <2> HIDE DEF a
  <2>1. ClusterCount * (p + (1 + (q + a))) = P + ClusterCount * (1 + (q + a))
    BY <1>1, <1>9, TimesSum
  <2>2. ClusterCount * (1 + (q + a)) = ClusterCount * 1 + ClusterCount * (q + a)
    BY <1>1, <1>9, TimesSum
  <2>3. ClusterCount * (q + a) = Q + ClusterCount * a
    BY <1>1, <1>9, TimesSum
  <2> QED
    BY <1>1, <1>9, <2>1, <2>2, <2>3, TimesNat
<1>11. FileCount - PartitionLba - ReservedCount - SectorsPerFat = ClusterCount * a
  <2> HIDE DEF P, B, Q, a
  <2>1. FileCount = B /\ PartitionLba = P /\ SectorsPerFat = Q
    BY <1>2, <1>3, <1>4 DEF P, B, Q
  <2> QED
    BY <1>1, <1>7, <1>10, <2>1
<1>12. FileBase = a
  <2> HIDE DEF a
  <2> QED
    BY <1>1, <1>9, <1>11, ExactDiv DEF FileBase
<1>13. FileCount = PartitionLba + ReservedCount + SectorsPerFat + ClusterCount * FileBase
  <2> HIDE DEF P, B, Q, a
  <2>1. FileCount = B /\ PartitionLba = P /\ SectorsPerFat = Q
    BY <1>2, <1>3, <1>4 DEF P, B, Q
  <2> QED
    BY <1>1, <1>7, <1>10, <1>12, <2>1
<1>14. b > 0
  BY <1>9
<1>15. \A idx : FileCluster(idx) = FileBase + 2 + idx * FileClusters
  BY DEF FileCluster, FileBase
<1> HIDE DEF a
<1> QED
  BY <1>3, <1>9, <1>12, <1>13, <1>14, <1>15

LEMMA BeforeFiles ==
  ASSUME GeometryAssumption, NEW lba \in Nat, lba < FileCount
  PROVE  ~(FileIdx(lba) >= 0)
<1>1. FileCount * 0 <= lba /\ lba < FileCount * (0 + 1)
  BY FileIdxInt
<1>2. lba \div FileCount = 0
  BY <1>1, FileIdxInt, DivUnique
<1> QED
  BY <1>2, FileIdxInt

\* The clusters of the directories are one after the other.

LEMMA DirSpacing ==
  ASSUME GeometryAssumption
  PROVE  /\ \A c \in DirClusters : /\ ClusterLba(c) \in Nat /\ ClusterLba(c) >= FatLba + SectorsPerFat
                                   /\ ClusterLba(c) + ClusterCount <= FileCount
         /\ \A c, d \in DirClusters : c < d => ClusterLba(c) + ClusterCount <= ClusterLba(d)
         /\ FatLba + SectorsPerFat \in Nat /\ FatLba \in Nat /\ FatLba = PartitionLba + ClusterCount
         /\ FatLba + SectorsPerFat <= FileCount
<1> DEFINE D == FatLba + SectorsPerFat
<1>1. /\ ClusterCount \in Nat \ {0} /\ D \in Nat /\ FatLba = PartitionLba + ClusterCount
      /\ PartitionLba \in Nat /\ SectorsPerFat \in Nat /\ FileCount \in Nat
  BY Numbers DEF FatLba, ReservedCount
<1>2. ASSUME NEW c \in 2 .. 9
      PROVE  ClusterLba(c) = D + ClusterCount * (c - 2) /\ ClusterCount * (c - 2) \in Nat
  <2>1. c - 2 \in Nat
    OBVIOUS
  <2>2. PICK x \in Nat : x = (c - 2) * ClusterCount /\ x = ClusterCount * (c - 2)
    BY <1>1, <2>1, TimesNat
  <2> QED
    BY <1>1, <2>2 DEF ClusterLba, FatLba, ReservedCount
<1>3. ASSUME NEW c \in 2 .. 9, NEW d \in 2 .. 9, c < d
      PROVE  ClusterLba(c) + ClusterCount <= ClusterLba(d)
  <2>1. (c - 2) + 1 <= d - 2 /\ c - 2 \in Nat /\ d - 2 \in Nat
    BY <1>3
  <2>2. ClusterCount * ((c - 2) + 1) <= ClusterCount * (d - 2)
    BY <1>1, <2>1, TimesMonotone
  <2>3. ClusterCount * ((c - 2) + 1) = ClusterCount * (c - 2) + ClusterCount
    BY <1>1, <2>1, TimesSum
  <2> HIDE DEF D
  <2> QED
    BY <1>1, <1>2, <2>2, <2>3
<1>4. DirClusters = 2 .. 8
  BY DEF DirClusters, RootCluster, MicrosoftCluster
<1>5. ClusterLba(9) <= FileCount
  BY DEF GeometryAssumption, MicrosoftCluster
<1> HIDE DEF D
<1>6. D <= FileCount
  BY <1>1, <1>2, <1>5
<1>7. ASSUME NEW c \in DirClusters
      PROVE  /\ ClusterLba(c) \in Nat /\ ClusterLba(c) >= D
             /\ ClusterLba(c) + ClusterCount <= FileCount
  <2>1. c \in 2 .. 9 /\ c < 9 /\ 9 \in 2 .. 9
    BY <1>4
  <2>2. ClusterLba(c) + ClusterCount <= ClusterLba(9)
    BY <1>3, <2>1
  <2>3. ClusterLba(c) = D + ClusterCount * (c - 2) /\ ClusterCount * (c - 2) \in Nat
    BY <1>2, <2>1
  <2>4. ClusterLba(9) = D + ClusterCount * (9 - 2) /\ ClusterCount * (9 - 2) \in Nat
    BY <1>2, <2>1
  <2> QED
    BY <1>1, <1>5, <2>2, <2>3, <2>4
<1>8. \A c, d \in DirClusters : c < d => ClusterLba(c) + ClusterCount <= ClusterLba(d)
  BY <1>3, <1>4
<1> QED
  BY <1>1, <1>6, <1>7, <1>8 DEF D
---------------------------------------------------------------------------
\* Regions before the directories, and those of the directories.
FixedRegions ==
  {DiskRegion("mbr", 0, 0, 1),
   DiskRegion("vbr", 0, PartitionLba, 1),
   DiskRegion("fsinfo", 0, PartitionLba + FsInfoSector, 1),
   DiskRegion("vbr", 0, PartitionLba + BackupVbrSector, 1),
   DiskRegion("fat", 0, FatLba, SectorsPerFat)}

LEMMA RegionKinds ==
  ASSUME NEW r \in vdisk_regions
  PROVE  \/ r \in FixedRegions
         \/ \E c \in DirClusters : \/ r = DiskRegion("subdirs", c, ClusterLba(c), 1)
                                   \/ r = DiskRegion("files", c, ClusterLba(c) + 1, ClusterCount - 1)
BY DEF vdisk_regions, FixedRegions

LEMMA FixedBounds ==
  ASSUME GeometryAssumption, NEW r \in FixedRegions
  PROVE  r.lba \in Nat /\ DiskRegionEnd(r) \in Nat /\ DiskRegionEnd(r) <= FatLba + SectorsPerFat
<1>1. /\ PartitionLba \in Nat \ {0} /\ FsInfoSector \in Nat \ {0} /\ BackupVbrSector \in Nat
      /\ FsInfoSector < BackupVbrSector /\ BackupVbrSector < ClusterCount
      /\ ClusterCount \in Nat /\ SectorsPerFat \in Nat /\ FatLba = PartitionLba + ClusterCount
  BY Numbers, DirSpacing DEF GeometryAssumption
<1> QED
  BY <1>1 DEF FixedRegions, DiskRegion, DiskRegionEnd

LEMMA FixedApart ==
  ASSUME GeometryAssumption, NEW r \in FixedRegions, NEW s \in FixedRegions, NEW lba \in Nat,
         r.lba <= lba, lba < DiskRegionEnd(r), s.lba <= lba, lba < DiskRegionEnd(s)
  PROVE  r = s
<1>1. /\ PartitionLba \in Nat \ {0} /\ FsInfoSector \in Nat \ {0} /\ BackupVbrSector \in Nat
      /\ FsInfoSector < BackupVbrSector /\ BackupVbrSector < ClusterCount
      /\ ClusterCount \in Nat /\ SectorsPerFat \in Nat /\ FatLba = PartitionLba + ClusterCount
  BY Numbers, DirSpacing DEF GeometryAssumption
<1> QED
  BY <1>1 DEF FixedRegions, DiskRegion, DiskRegionEnd

LEMMA DirRegionBounds ==
  ASSUME GeometryAssumption, NEW c \in DirClusters, NEW r,
         \/ r = DiskRegion("subdirs", c, ClusterLba(c), 1)
         \/ r = DiskRegion("files", c, ClusterLba(c) + 1, ClusterCount - 1)
  PROVE  /\ r.lba \in Nat /\ DiskRegionEnd(r) \in Nat
         /\ ClusterLba(c) <= r.lba /\ DiskRegionEnd(r) <= ClusterLba(c) + ClusterCount
<1>1. ClusterLba(c) \in Nat /\ ClusterCount \in Nat \ {0}
  BY Numbers, DirSpacing
<1> QED
  BY <1>1 DEF DiskRegion, DiskRegionEnd

LEMMA RegionAt ==
  ASSUME GeometryAssumption, NEW r \in vdisk_regions, NEW lba \in Nat,
         r.lba <= lba, lba < DiskRegionEnd(r)
  PROVE  RegionsAt(lba) = {r} /\ lba < FileCount
<1> DEFINE D == FatLba + SectorsPerFat
<1>1. D \in Nat /\ D <= FileCount /\ FileCount \in Nat /\ ClusterCount \in Nat
  BY DirSpacing, Numbers
<1>2. \A c \in DirClusters : /\ ClusterLba(c) \in Nat /\ ClusterLba(c) >= D
                             /\ ClusterLba(c) + ClusterCount <= FileCount
  BY DirSpacing
<1> HIDE DEF D
<1>3. ASSUME NEW s \in vdisk_regions, s.lba <= lba, lba < DiskRegionEnd(s)
      PROVE  \/ s \in FixedRegions /\ lba < D
             \/ \E c \in DirClusters :
                  /\ \/ s = DiskRegion("subdirs", c, ClusterLba(c), 1)
                     \/ s = DiskRegion("files", c, ClusterLba(c) + 1, ClusterCount - 1)
                  /\ ClusterLba(c) <= lba /\ lba < ClusterLba(c) + ClusterCount
  <2>1. CASE s \in FixedRegions
    <3>1. DiskRegionEnd(s) \in Nat /\ DiskRegionEnd(s) <= D
      BY <2>1, FixedBounds DEF D
    <3> QED
      BY <1>1, <1>3, <2>1, <3>1
  <2>2. ASSUME NEW c \in DirClusters,
               \/ s = DiskRegion("subdirs", c, ClusterLba(c), 1)
               \/ s = DiskRegion("files", c, ClusterLba(c) + 1, ClusterCount - 1)
        PROVE  ClusterLba(c) <= lba /\ lba < ClusterLba(c) + ClusterCount
    <3>1. /\ s.lba \in Nat /\ DiskRegionEnd(s) \in Nat
          /\ ClusterLba(c) <= s.lba /\ DiskRegionEnd(s) <= ClusterLba(c) + ClusterCount
      BY <2>2, DirRegionBounds
    <3>2. ClusterLba(c) \in Nat
      BY <1>2
    <3> QED
      BY <1>1, <1>3, <3>1, <3>2
  <2> QED
    BY <2>1, <2>2, RegionKinds
<1>4. lba < FileCount
  BY <1>1, <1>2, <1>3
<1>5. ASSUME NEW s \in vdisk_regions, s.lba <= lba, lba < DiskRegionEnd(s)
      PROVE  s = r
  <2>1. CASE r \in FixedRegions /\ s \in FixedRegions
    BY <1>5, <2>1, FixedApart
  <2>2. CASE lba < D
    <3>1. r \in FixedRegions /\ s \in FixedRegions
      BY <1>1, <1>2, <1>3, <1>5, <2>2
    <3> QED
      BY <2>1, <3>1
  <2>3. CASE ~(lba < D)
    <3>1. PICK c \in DirClusters :
                  /\ \/ r = DiskRegion("subdirs", c, ClusterLba(c), 1)
                     \/ r = DiskRegion("files", c, ClusterLba(c) + 1, ClusterCount - 1)
                  /\ ClusterLba(c) <= lba /\ lba < ClusterLba(c) + ClusterCount
      BY <1>3, <2>3
    <3>2. PICK d \in DirClusters :
                  /\ \/ s = DiskRegion("subdirs", d, ClusterLba(d), 1)
                     \/ s = DiskRegion("files", d, ClusterLba(d) + 1, ClusterCount - 1)
                  /\ ClusterLba(d) <= lba /\ lba < ClusterLba(d) + ClusterCount
      BY <1>3, <1>5, <2>3
    <3>3. c = d
      <4>1. c \in Nat /\ d \in Nat
        BY DEF DirClusters, RootCluster, MicrosoftCluster
      <4>2. ~(c < d)
        <5>1. SUFFICES ASSUME c < d PROVE FALSE
          OBVIOUS
        <5>2. ClusterLba(c) + ClusterCount <= ClusterLba(d)
          BY <5>1, DirSpacing
        <5> QED
          BY <1>1, <1>2, <3>1, <3>2, <5>2
      <4>3. ~(d < c)
        <5>1. SUFFICES ASSUME d < c PROVE FALSE
          OBVIOUS
        <5>2. ClusterLba(d) + ClusterCount <= ClusterLba(c)
          BY <5>1, DirSpacing
        <5> QED
          BY <1>1, <1>2, <3>1, <3>2, <5>2
      <4> QED
        BY <4>1, <4>2, <4>3
    <3>4. ClusterLba(c) \in Nat
      BY <1>2
    <3> QED
      BY <1>1, <1>5, <3>1, <3>2, <3>3, <3>4 DEF DiskRegion, DiskRegionEnd
  <2> QED
    BY <2>2, <2>3
<1>6. RegionsAt(lba) = {r}
  BY <1>5 DEF RegionsAt
<1> QED
  BY <1>4, <1>6

\* A sector of a region is built by that region's function.

LEMMA SectorOf ==
  ASSUME GeometryAssumption, NEW r \in vdisk_regions, NEW lba \in Nat,
         r.lba <= lba, lba < DiskRegionEnd(r)
  PROVE  SectorAt(lba) = BuildRegion(r, lba, 1)[1]
<1>1. RegionsAt(lba) = {r} /\ ~(FileIdx(lba) >= 0)
  BY RegionAt, BeforeFiles
<1>2. BuildSectors(lba, 1) = BuildRegion(r, lba, 1)
  <2>1. (CHOOSE s \in {r} : TRUE) = r
    OBVIOUS
  <2> QED
    BY <1>1, <2>1 DEF BuildSectors
<1> QED
  BY <1>2 DEF SectorAt

LEMMA VbrIs ==
  ASSUME GeometryAssumption
  PROVE  Vbr = vdisk_vbr
<1> DEFINE mbr == DiskRegion("mbr", 0, 0, 1)
           vbr == DiskRegion("vbr", 0, PartitionLba, 1)
<1>1. PartitionLba \in Nat
  BY Numbers
<1>2. mbr \in vdisk_regions /\ vbr \in vdisk_regions
  BY DEF vdisk_regions
<1>3. /\ mbr.lba = 0 /\ DiskRegionEnd(mbr) = 1 /\ mbr.build = "mbr"
      /\ vbr.lba = PartitionLba /\ DiskRegionEnd(vbr) = PartitionLba + 1 /\ vbr.build = "vbr"
  BY DEF DiskRegion, DiskRegionEnd
<1> HIDE DEF mbr, vbr
<1>4. SectorAt(0) = BuildRegion(mbr, 0, 1)[1]
  BY <1>2, <1>3, SectorOf
<1>5. SectorAt(PartitionLba) = BuildRegion(vbr, PartitionLba, 1)[1]
  BY <1>1, <1>2, <1>3, SectorOf
<1>6. BuildRegion(mbr, 0, 1) = <<vdisk_mbr>> /\ BuildRegion(vbr, PartitionLba, 1) = <<vdisk_vbr>>
  BY <1>3 DEF BuildRegion
<1>7. vdisk_mbr.start = PartitionLba
  BY DEF vdisk_mbr
<1> QED
  BY <1>4, <1>5, <1>6, <1>7 DEF Vbr
---------------------------------------------------------------------------
\* The sectors of the FAT, and the entries in them.

LEMMA FatSector ==
  ASSUME GeometryAssumption, NEW i \in Nat, i < SectorsPerFat
  PROVE  SectorAt(FatLba + i).next = [j \in 0 .. FatPerSector - 1 |-> FatEntry(i * FatPerSector + j)]
<1> DEFINE fat == DiskRegion("fat", 0, FatLba, SectorsPerFat)
           lba == FatLba + i
<1>1. /\ FatLba \in Nat /\ lba \in Nat /\ SectorsPerFat \in Nat /\ FatPerSector \in Nat
      /\ lba - FatLba = i
  BY Numbers
<1>2. fat \in vdisk_regions /\ fat.lba = FatLba /\ DiskRegionEnd(fat) = FatLba + SectorsPerFat
      /\ fat.build = "fat"
  BY DEF vdisk_regions, DiskRegion, DiskRegionEnd
<1> HIDE DEF fat
<1>3. SectorAt(lba) = BuildRegion(fat, lba, 1)[1]
  BY <1>1, <1>2, SectorOf
<1>4. BuildRegion(fat, lba, 1) = vdisk_fat(lba, 1)
  BY <1>2 DEF BuildRegion
<1> HIDE DEF lba
<1> DEFINE one == 1   first == (lba - FatLba) * FatPerSector
<1>5. vdisk_fat(lba, one)[one]
        = [next |-> [j \in 0 .. FatPerSector - 1 |->
                       FatEntry((lba - FatLba) * FatPerSector + (one - 1) * FatPerSector + j)]]
  <2>1. one \in 1 .. one
    OBVIOUS
  <2> HIDE DEF one
  <2> QED
    BY <2>1, FatSectors, Zenon
<1>6. /\ first \in Nat /\ first = i * FatPerSector /\ (one - 1) * FatPerSector = 0
      /\ \A j \in 0 .. FatPerSector - 1 : first + 0 + j = first + j
  BY <1>1, TimesNat
<1> HIDE DEF first
<1>7. ASSUME NEW j \in 0 .. FatPerSector - 1
      PROVE  first + (one - 1) * FatPerSector + j = i * FatPerSector + j
  BY <1>6
<1>8. SectorAt(lba).next
        = [j \in 0 .. FatPerSector - 1 |-> FatEntry(first + (one - 1) * FatPerSector + j)]
  <2>1. SectorAt(lba) = vdisk_fat(lba, one)[one]
    BY <1>3, <1>4
  <2>2. vdisk_fat(lba, one)[one]
          = [next |-> [j \in 0 .. FatPerSector - 1 |-> FatEntry(first + (one - 1) * FatPerSector + j)]]
    BY <1>5 DEF first
  <2> HIDE DEF one
  <2> QED
    BY <2>1, <2>2
<1>9. SectorAt(lba).next = [j \in 0 .. FatPerSector - 1 |-> FatEntry(i * FatPerSector + j)]
  BY <1>7, <1>8
<1> QED
  BY <1>9 DEF lba

\* The FAT has an entry for the clusters of the directories and the files.

LEMMA FatRoom ==
  ASSUME GeometryAssumption
  PROVE  /\ FatPerSector \in Nat \ {0} /\ FatPerSector * SectorsPerFat >= Clusters
         /\ SectorsPerFat \in Nat
<1>1. /\ SectorSize \in Nat \ {0} /\ EntrySize \in Nat \ {0} /\ ClusterCount \in Nat \ {0}
      /\ Clusters \in Nat \ {0} /\ ClusterSize \in Nat \ {0} /\ SectorsPerFat \in Nat
      /\ FatPerSector \in Nat /\ 8 < FatPerSector /\ SectorSize % EntrySize = 0
  BY Numbers DEF GeometryAssumption, MicrosoftCluster
<1>2. SectorSize = EntrySize * FatPerSector
  BY <1>1, IsMultiple DEF FatPerSector
<1> DEFINE bytes == Clusters * EntrySize
           rounded == bytes + ClusterSize - 1
           q == rounded \div ClusterSize
<1>3. bytes \in Nat /\ rounded \in Nat /\ rounded = bytes + ClusterSize - 1
      /\ bytes = EntrySize * Clusters
  BY <1>1, TimesNat
<1>4. SectorsPerFat = q * ClusterCount
  BY DEF SectorsPerFat
<1> HIDE DEF rounded
<1>5. q \in Nat /\ rounded = ClusterSize * q + (rounded % ClusterSize)
      /\ rounded % ClusterSize \in 0 .. ClusterSize - 1
  BY <1>1, <1>3, DivModNat
<1> HIDE DEF q, bytes
<1> DEFINE covered == ClusterSize * q
<1>6. covered >= bytes
  <2>1. covered \in Nat
    BY <1>1, <1>5, TimesNat
  <2> HIDE DEF covered
  <2> QED
    BY <1>1, <1>3, <1>5, <2>1 DEF covered
<1>7. covered = EntrySize * (FatPerSector * SectorsPerFat)
  <2>1. ClusterSize = ClusterCount * (EntrySize * FatPerSector)
    BY <1>2 DEF ClusterSize
  <2>2. covered = (ClusterCount * (EntrySize * FatPerSector)) * q
    BY <2>1
  <2>3. \A x, y, z, u \in Nat : (x * (y * z)) * u = y * (z * (u * x))
    OBVIOUS
  <2> QED
    BY <1>1, <1>4, <1>5, <2>2, <2>3
<1> DEFINE entries == FatPerSector * SectorsPerFat
<1>8. entries \in Nat
  BY <1>1, TimesNat
<1> HIDE DEF entries, covered
<1>9. entries >= Clusters
  <2>1. SUFFICES ASSUME entries + 1 <= Clusters PROVE FALSE
    BY <1>1, <1>8
  <2>2. EntrySize * (entries + 1) <= EntrySize * Clusters
    BY <1>1, <1>8, <2>1, TimesMonotone
  <2>3. EntrySize * (entries + 1) = EntrySize * entries + EntrySize
    BY <1>1, <1>8, TimesSum
  <2>4. EntrySize * entries = covered /\ covered \in Nat
    BY <1>1, <1>7, <1>8, TimesNat DEF entries
  <2> QED
    BY <1>1, <1>3, <1>6, <2>2, <2>3, <2>4
<1> QED
  BY <1>1, <1>9 DEF entries

LEMMA NextIs ==
  ASSUME GeometryAssumption, NEW cluster \in Nat, cluster < Clusters
  PROVE  FsNext(vdisk_vbr, cluster) = FatEntry(cluster)
<1> DEFINE i == cluster \div FatPerSector
           j == cluster % FatPerSector
<1>1. /\ FatPerSector \in Nat \ {0} /\ FatPerSector * SectorsPerFat >= Clusters
      /\ SectorsPerFat \in Nat /\ Clusters \in Nat
  BY FatRoom, Numbers
<1>2. i \in Nat /\ j \in 0 .. FatPerSector - 1 /\ cluster = FatPerSector * i + j
  BY <1>1, DivModNat
<1> HIDE DEF i, j
<1>3. FatPerSector * i \in Nat /\ FatPerSector * i = i * FatPerSector
      /\ FatPerSector * SectorsPerFat \in Nat
  BY <1>1, <1>2, TimesNat
<1>4. i < SectorsPerFat
  <2>1. SUFFICES ASSUME SectorsPerFat <= i PROVE FALSE
    BY <1>1, <1>2
  <2>2. FatPerSector * SectorsPerFat <= FatPerSector * i
    BY <1>1, <1>2, <2>1, TimesMonotone
  <2> QED
    BY <1>1, <1>2, <1>3, <2>2
<1>5. vdisk_vbr.hidden_sectors + vdisk_vbr.reserved_sectors = FatLba
  BY DEF vdisk_vbr, FatLba
<1>6. FsNext(vdisk_vbr, cluster) = SectorAt(FatLba + i).next[j]
  BY <1>5 DEF FsNext, i, j
<1>7. SectorAt(FatLba + i).next = [k \in 0 .. FatPerSector - 1 |-> FatEntry(i * FatPerSector + k)]
  BY <1>2, <1>4, FatSector
<1>8. SectorAt(FatLba + i).next[j] = FatEntry(i * FatPerSector + j)
  BY <1>2, <1>7
<1> QED
  BY <1>2, <1>3, <1>6, <1>8

LEMMA FilesWithin ==
  ASSUME GeometryAssumption
  PROVE  FileBase + MaxFiles * FileClusters + 2 <= Clusters
<1>1. /\ FileBase \in Nat /\ FileClusters \in Nat \ {0} /\ MaxFiles \in Nat /\ Clusters \in Nat
      /\ ClusterCount \in Nat \ {0} /\ ReservedCount \in Nat /\ SectorsPerFat \in Nat
      /\ PartitionLba \in Nat
  BY Numbers, Geometry
<1> DEFINE A == ClusterCount * FileBase
           B == ClusterCount * FileClusters
           M == ClusterCount * (MaxFiles * FileClusters)
           C == ClusterCount * Clusters
           L == ClusterCount * 2
<1>2. A \in Nat /\ B \in Nat /\ C \in Nat /\ M \in Nat /\ L \in Nat /\ MaxFiles * FileClusters \in Nat
      /\ L = 2 * ClusterCount
  BY <1>1, TimesNat
<1>3. FileCount = B /\ FileCount = PartitionLba + ReservedCount + SectorsPerFat + A
  BY Geometry
<1>4. DiskSize = PartitionLba + (ReservedCount + SectorsPerFat + C)
  BY <1>1, TimesNat DEF DiskSize, PartitionCount
<1>5. (MaxFiles + 1) * FileCount = M + B
  <2>1. \A x, y, z \in Nat : (x + 1) * (y * z) = y * (x * z) + y * z
    OBVIOUS
  <2> QED
    BY <1>1, <1>3, <2>1
<1>6. (MaxFiles + 1) * FileCount + 2 * ClusterCount <= DiskSize
  BY DEF GeometryAssumption
<1>7. A + M + L <= C
  <2> HIDE DEF A, B, C, M, L
  <2> QED
    BY <1>1, <1>2, <1>3, <1>4, <1>5, <1>6
<1> DEFINE x == MaxFiles * FileClusters
<1>8. ClusterCount * (FileBase + (x + 2)) = A + M + L
  <2>1. ClusterCount * (FileBase + (x + 2)) = A + ClusterCount * (x + 2)
    BY <1>1, <1>2, TimesSum
  <2>2. ClusterCount * (x + 2) = M + L
    BY <1>1, <1>2, TimesSum
  <2> HIDE DEF A, M, L
  <2> QED
    BY <1>2, <2>1, <2>2
<1> HIDE DEF A, B, C, M, L, x
<1>9. FileBase + (x + 2) <= Clusters
  <2>0. FileBase + (x + 2) \in Nat
    BY <1>1, <1>2 DEF x
  <2> DEFINE y == FileBase + (x + 2)
  <2>1. SUFFICES ASSUME Clusters + 1 <= y PROVE FALSE
    BY <1>1, <2>0
  <2> HIDE DEF y
  <2>2. ClusterCount * (Clusters + 1) <= ClusterCount * y
    BY <1>1, <2>0, <2>1, TimesMonotone DEF y
  <2>3. ClusterCount * (Clusters + 1) = C + ClusterCount
    BY <1>1, TimesSum DEF C
  <2>4. ClusterCount * y = A + M + L
    BY <1>8 DEF y
  <2> QED
    BY <1>1, <1>2, <1>7, <2>2, <2>3, <2>4
<1> QED
  BY <1>1, <1>2, <1>9 DEF x
---------------------------------------------------------------------------
\* Entries of the files that have been added.
AddedEntries ==
  {Entry(FileName(idx), disk_files[idx].xlen, FileCluster(idx)) :
     idx \in {i \in FileIds : disk_files[i].read}}

LEMMA DirSectors ==
  ASSUME GeometryAssumption, NEW c \in DirClusters
  PROVE  /\ SectorAt(ClusterLba(c)) = vdisk_subdirs(c)
         /\ \A k \in 1 .. ClusterCount - 1 :
              SectorAt(ClusterLba(c) + k).entries
                = IF disk_files[k - 1].read
                    THEN {Entry(FileName(k - 1), disk_files[k - 1].xlen, FileCluster(k - 1))}
                    ELSE {}
<1>1. ClusterLba(c) \in Nat /\ ClusterCount \in Nat \ {0}
  BY Numbers, DirSpacing
<1> DEFINE sub == DiskRegion("subdirs", c, ClusterLba(c), 1)
           files == DiskRegion("files", c, ClusterLba(c) + 1, ClusterCount - 1)
<1>2. /\ sub \in vdisk_regions /\ sub.lba = ClusterLba(c) /\ sub.build = "subdirs" /\ sub.dir = c
      /\ DiskRegionEnd(sub) = ClusterLba(c) + 1
  BY DEF vdisk_regions, DiskRegion, DiskRegionEnd
<1>3. /\ files \in vdisk_regions /\ files.lba = ClusterLba(c) + 1 /\ files.build = "files"
      /\ DiskRegionEnd(files) = ClusterLba(c) + ClusterCount
  BY <1>1 DEF vdisk_regions, DiskRegion, DiskRegionEnd
<1> HIDE DEF sub, files
<1>4. SectorAt(ClusterLba(c)) = vdisk_subdirs(c)
  <2>1. SectorAt(ClusterLba(c)) = BuildRegion(sub, ClusterLba(c), 1)[1]
    BY <1>1, <1>2, SectorOf
  <2>2. BuildRegion(sub, ClusterLba(c), 1) = <<vdisk_subdirs(c)>>
    BY <1>2 DEF BuildRegion
  <2> QED
    BY <2>1, <2>2
<1>5. PICK x \in Nat : ClusterLba(c) = ClusterCount * x
  <2>1. c \in 2 .. 8
    BY DirClusterNat
  <2>2. ClusterCount * FileClusters
          = PartitionLba + ReservedCount + SectorsPerFat + ClusterCount * FileBase
        /\ FileBase \in Nat /\ FileClusters \in Nat /\ PartitionLba \in Nat
        /\ ReservedCount \in Nat /\ SectorsPerFat \in Nat
    BY Geometry, Numbers
  <2>3. ClusterLba(c) = PartitionLba + ReservedCount + SectorsPerFat + ClusterCount * (c - 2)
    <3>1. (c - 2) * ClusterCount = ClusterCount * (c - 2) /\ (c - 2) * ClusterCount \in Nat
      BY <1>1, <2>1, TimesNat
    <3> QED
      BY <2>2, <3>1 DEF ClusterLba
  <2> DEFINE A == ClusterCount * FileClusters   B == ClusterCount * FileBase
             C == ClusterCount * (c - 2)
             d == FileClusters - FileBase
  <2>4. A \in Nat /\ B \in Nat /\ C \in Nat
    BY <1>1, <2>1, <2>2, TimesNat
  <2>5. d \in Nat
    <3>1. SUFFICES ASSUME FileClusters + 1 <= FileBase PROVE FALSE
      BY <2>2
    <3>2. ClusterCount * (FileClusters + 1) <= B /\ ClusterCount * (FileClusters + 1) = A + ClusterCount
      BY <1>1, <2>2, <3>1, TimesMonotone, TimesSum
    <3> HIDE DEF A, B
    <3> QED
      BY <1>1, <2>2, <2>4, <3>2 DEF A, B
  <2>6. A = B + ClusterCount * d
    <3>1. FileClusters = FileBase + d
      BY <2>2, <2>5
    <3> HIDE DEF d
    <3> QED
      BY <1>1, <2>2, <2>5, <3>1, TimesSum
  <2>7. ClusterCount * (d + (c - 2)) = ClusterCount * d + C /\ d + (c - 2) \in Nat
        /\ ClusterCount * d \in Nat
    <3> HIDE DEF d
    <3> QED
      BY <1>1, <2>1, <2>5, TimesSum, TimesNat
  <2> HIDE DEF d
  <2>8. ClusterLba(c) = ClusterCount * (d + (c - 2))
    <3> DEFINE E == ClusterCount * d
    <3>1. E \in Nat /\ A = B + E /\ ClusterCount * (d + (c - 2)) = E + C
      BY <2>6, <2>7
    <3> HIDE DEF E
    <3>2. ClusterLba(c) = PartitionLba + ReservedCount + SectorsPerFat + C
      BY <2>3
    <3>3. A = PartitionLba + ReservedCount + SectorsPerFat + B
      BY <2>2
    <3> HIDE DEF A, B, C
    <3> QED
      BY <2>2, <2>4, <3>1, <3>2, <3>3
  <2> QED
    BY <2>7, <2>8
<1>6. ASSUME NEW k \in 1 .. ClusterCount - 1
      PROVE  SectorAt(ClusterLba(c) + k).entries
                = IF disk_files[k - 1].read
                    THEN {Entry(FileName(k - 1), disk_files[k - 1].xlen, FileCluster(k - 1))}
                    ELSE {}
  <2> DEFINE lba == ClusterLba(c) + k
             one == 1
             S(idx) == [entries |-> IF disk_files[idx].read
                          THEN {Entry(FileName(idx), disk_files[idx].xlen, FileCluster(idx))}
                          ELSE {}]
  <2>1. lba \in Nat /\ files.lba <= lba /\ lba < DiskRegionEnd(files)
    BY <1>1, <1>3
  <2>2. SectorAt(lba) = BuildRegion(files, lba, 1)[1]
    BY <1>3, <2>1, SectorOf
  <2>3. BuildRegion(files, lba, 1) = vdisk_dir_files(lba, 1)
    BY <1>3 DEF BuildRegion
  <2>4. vdisk_dir_files(lba, 1)[1] = S(FileDirentIdx(lba + 1 - 1))
    BY DEF vdisk_dir_files
  <2>5. lba + 1 - 1 = lba /\ lba - 1 = ClusterCount * x + (k - 1) /\ k - 1 \in Nat
        /\ k - 1 < ClusterCount /\ lba - 1 \in Nat /\ ClusterCount * x \in Nat
    BY <1>1, <1>5, <2>1, TimesNat
  <2> HIDE DEF lba
  <2>6. (lba - 1) % ClusterCount = k - 1
    <3> DEFINE low == ClusterCount * x
    <3>1. low <= lba - 1 /\ lba - 1 < low + ClusterCount /\ low \in Nat
          /\ ClusterCount * (x + 1) = low + ClusterCount
      BY <1>1, <2>5, TimesSum
    <3>2. (lba - 1) % ClusterCount = lba - 1 - ClusterCount * x
      <4>1. ClusterCount * x <= lba - 1 /\ lba - 1 < ClusterCount * (x + 1)
        BY <3>1
      <4> HIDE DEF low
      <4> QED
        BY <1>1, <2>5, <4>1, DivUnique
    <3> HIDE DEF low
    <3> QED
      BY <2>5, <3>1, <3>2 DEF low
  <2>7. SectorAt(lba) = S(k - 1)
    BY <2>2, <2>3, <2>4, <2>5, <2>6 DEF FileDirentIdx
  <2> QED
    BY <2>7 DEF lba
<1> QED
  BY <1>4, <1>6

LEMMA DirEntries ==
  ASSUME GeometryAssumption, NEW c \in DirClusters
  PROVE  FsEntries(vdisk_vbr, c) = vdisk_subdirs(c).entries \cup AddedEntries
<1> DEFINE f == FsSectors(vdisk_vbr, c)
           At(k) == SectorAt(ClusterLba(c) + k - 1)
           Own(idx) == IF disk_files[idx].read
                         THEN {Entry(FileName(idx), disk_files[idx].xlen, FileCluster(idx))}
                         ELSE {}
<1>1. ClusterLba(c) \in Nat /\ ClusterCount \in Nat \ {0} /\ SectorsPerFat \in Nat
      /\ PartitionLba \in Nat /\ ReservedCount \in Nat /\ c \in 2 .. 8
  BY Numbers, DirSpacing, DirClusterNat
<1>2. FsLba(vdisk_vbr, c) = ClusterLba(c)
  <2>1. (c - 2) * ClusterCount \in Nat
    BY <1>1, TimesNat
  <2>2. FsLba(vdisk_vbr, c)
          = PartitionLba + ReservedCount + 1 * SectorsPerFat + (c - 2) * ClusterCount
    BY DEF FsLba, vdisk_vbr
  <2> QED
    BY <1>1, <2>1, <2>2 DEF ClusterLba
<1>3. f = [k \in 1 .. ClusterCount |-> At(k)]
  <2>1. vdisk_vbr.sectors_per_cluster = ClusterCount
    BY DEF vdisk_vbr
  <2> QED
    BY <1>2, <2>1 DEF FsSectors
<1>4. FsEntries(vdisk_vbr, c) = UNION {At(k).entries : k \in 1 .. ClusterCount}
  <2> HIDE DEF f, At
  <2>1. Range(f) = {At(k) : k \in 1 .. ClusterCount}
    BY <1>3 DEF Range
  <2> QED
    BY <2>1 DEF FsEntries, f
<1>5. At(1).entries = vdisk_subdirs(c).entries
  <2>1. ClusterLba(c) + 1 - 1 = ClusterLba(c)
    BY <1>1
  <2> QED
    BY <2>1, DirSectors
<1>6. ASSUME NEW k \in 2 .. ClusterCount
      PROVE  At(k).entries = Own(k - 2)
  <2>1. k - 1 \in 1 .. ClusterCount - 1 /\ ClusterLba(c) + k - 1 = ClusterLba(c) + (k - 1)
        /\ k - 1 - 1 = k - 2
    BY <1>1
  <2> QED
    BY <2>1, DirSectors
<1>7. /\ FileIds = 0 .. ClusterCount - 2
      /\ \A idx \in FileIds : idx + 2 \in 2 .. ClusterCount /\ idx + 2 - 2 = idx
      /\ \A k \in 2 .. ClusterCount : k - 2 \in FileIds
      /\ \A k \in 1 .. ClusterCount : k = 1 \/ k \in 2 .. ClusterCount
      /\ 1 \in 1 .. ClusterCount /\ \A k \in 2 .. ClusterCount : k \in 1 .. ClusterCount
  BY <1>1 DEF FileIds, MaxFiles
<1> HIDE DEF At, Own
<1>8. ASSUME NEW e
      PROVE  (\E k \in 1 .. ClusterCount : e \in At(k).entries)
               <=> e \in vdisk_subdirs(c).entries \/ e \in AddedEntries
  <2>1. ASSUME NEW k \in 1 .. ClusterCount, e \in At(k).entries
        PROVE  e \in vdisk_subdirs(c).entries \/ e \in AddedEntries
    <3>1. CASE k = 1
      BY <1>5, <2>1, <3>1
    <3>2. CASE k \in 2 .. ClusterCount
      <4>1. PICK idx \in FileIds : idx = k - 2
        BY <1>7, <3>2
      <4>2. e \in Own(idx)
        BY <1>6, <2>1, <3>2, <4>1
      <4>3. disk_files[idx].read /\ e = Entry(FileName(idx), disk_files[idx].xlen, FileCluster(idx))
        BY <4>2, Zenon DEF Own
      <4> QED
        BY <4>3, Zenon DEF AddedEntries
    <3> QED
      BY <1>7, <3>1, <3>2
  <2>2. ASSUME e \in AddedEntries
        PROVE  \E k \in 1 .. ClusterCount : e \in At(k).entries
    <3>1. PICK idx \in FileIds :
            disk_files[idx].read /\ e = Entry(FileName(idx), disk_files[idx].xlen, FileCluster(idx))
      BY <2>2 DEF AddedEntries
    <3>2. PICK k \in 2 .. ClusterCount : k - 2 = idx /\ k \in 1 .. ClusterCount
      BY <1>7
    <3>3. At(k).entries = Own(idx)
      BY <1>6, <3>2
    <3>4. e \in At(k).entries
      BY <3>1, <3>3, Zenon DEF Own
    <3> QED
      BY <3>2, <3>4
  <2> QED
    BY <1>5, <1>7, <2>1, <2>2
<1> QED
  BY <1>4, <1>8

\* Names of directories are not those of files, nor one another's.

LEMMA Names ==
  ASSUME NEW x, NEW y
  PROVE  DirName(x)[1] = "dir" /\ FileName(x)[1] = "file" /\ FileName(x)[2] = x
         /\ DirName(x) # FileName(y) /\ (DirName(x) = DirName(y) => x = y)
BY DEF DirName, FileName

LEMMA DirFiles ==
  ASSUME GeometryAssumption, NEW c \in DirClusters
  PROVE  FsFiles(vdisk_vbr, c) = AddedEntries
<1>1. ASSUME NEW e \in vdisk_subdirs(c).entries PROVE e.name[1] # "file"
  <2>1. PICK d \in Subdirs[c] : e = Entry(DirName(d[1]), 0, d[2])
    BY DEF vdisk_subdirs
  <2> QED
    BY <2>1, Names DEF Entry
<1>2. ASSUME NEW e \in AddedEntries PROVE e.name[1] = "file"
  BY Names DEF AddedEntries, Entry
<1> QED
  BY <1>1, <1>2, DirEntries DEF FsFiles

\* The one entry of that name.
Listed(c, name, cluster) ==
  /\ <<name, cluster>> \in Subdirs[c]
  /\ \A d \in Subdirs[c] : d[1] = name => d[2] = cluster

LEMMA LookupIs ==
  ASSUME GeometryAssumption, NEW c \in DirClusters, NEW name, NEW cluster, Listed(c, name, cluster)
  PROVE  FsLookup(vdisk_vbr, c, DirName(name)) = cluster
<1> DEFINE S == FsEntries(vdisk_vbr, c)
<1>1. \E e \in S : e.name = DirName(name)
  <2>1. Entry(DirName(name), 0, cluster) \in vdisk_subdirs(c).entries
    BY DEF vdisk_subdirs, Listed
  <2> QED
    BY <2>1, DirEntries DEF Entry
<1>2. ASSUME NEW e \in S, e.name = DirName(name) PROVE e.cluster = cluster
  <2>1. CASE e \in vdisk_subdirs(c).entries
    <3>1. PICK d \in Subdirs[c] : e = Entry(DirName(d[1]), 0, d[2])
      BY <2>1 DEF vdisk_subdirs
    <3>2. e.name = DirName(d[1]) /\ e.cluster = d[2]
      BY <3>1 DEF Entry
    <3>3. d[1] = name
      BY <1>2, <3>2, Names
    <3> QED
      BY <3>2, <3>3 DEF Listed
  <2>2. CASE e \in AddedEntries
    <3>1. PICK idx \in FileIds : e = Entry(FileName(idx), disk_files[idx].xlen, FileCluster(idx))
      BY <2>2 DEF AddedEntries
    <3>2. e.name = FileName(idx)
      BY <3>1 DEF Entry
    <3> QED
      BY <1>2, <3>2, Names
  <2> QED
    BY <2>1, <2>2, DirEntries
<1> QED
  BY <1>1, <1>2 DEF FsLookup

LEMMA LeadsTo ==
  ASSUME GeometryAssumption
  PROVE  /\ FsLookup(vdisk_vbr, 2, DirName("BOOT")) = 3 /\ FsLookup(vdisk_vbr, 2, DirName("SOURCES")) = 4
         /\ FsLookup(vdisk_vbr, 2, DirName("EFI")) = 7
         /\ FsLookup(vdisk_vbr, 3, DirName("FONTS")) = 5
         /\ FsLookup(vdisk_vbr, 3, DirName("RESOURCES")) = 6
         /\ FsLookup(vdisk_vbr, 7, DirName("BOOT")) = 3
         /\ FsLookup(vdisk_vbr, 7, DirName("MICROSOFT")) = 8
         /\ FsLookup(vdisk_vbr, 8, DirName("BOOT")) = 3
<1>1. /\ RootCluster = 2 /\ BootCluster = 3 /\ SourcesCluster = 4 /\ FontsCluster = 5
      /\ ResourcesCluster = 6 /\ EfiCluster = 7 /\ MicrosoftCluster = 8
      /\ DirClusters = 2 .. 8
  BY DEF RootCluster, BootCluster, SourcesCluster, FontsCluster, ResourcesCluster, EfiCluster,
         MicrosoftCluster, DirClusters
<1>2. /\ Subdirs[2] = {<<"BOOT", 3>>, <<"SOURCES", 4>>, <<"EFI", 7>>}
      /\ Subdirs[3] = {<<"FONTS", 5>>, <<"RESOURCES", 6>>}
      /\ Subdirs[7] = {<<"BOOT", 3>>, <<"MICROSOFT", 8>>}
      /\ Subdirs[8] = {<<"BOOT", 3>>}
  BY <1>1 DEF Subdirs
<1>3. 2 \in DirClusters /\ 3 \in DirClusters /\ 7 \in DirClusters /\ 8 \in DirClusters
  BY <1>1
<1>4. /\ Listed(2, "BOOT", 3) /\ Listed(2, "SOURCES", 4) /\ Listed(2, "EFI", 7)
      /\ Listed(3, "FONTS", 5) /\ Listed(3, "RESOURCES", 6)
      /\ Listed(7, "BOOT", 3) /\ Listed(7, "MICROSOFT", 8) /\ Listed(8, "BOOT", 3)
  BY <1>2 DEF Listed
<1> QED
  BY <1>3, <1>4, LookupIs

\* What holds of 0, and of the next number if of a number, holds of all.

LEMMA SetInduction ==
  ASSUME NEW T, 0 \in T, \A n \in Nat : n \in T => n + 1 \in T
  PROVE  Nat \subseteq T
<1> DEFINE F == Nat \ T
<1>1. SUFFICES ASSUME F # {} PROVE FALSE
  OBVIOUS
<1>2. PICK x \in F : \A y \in F : x <= y
  BY <1>1, LeastElement
<1>3. x - 1 \in Nat /\ x - 1 \notin F
  BY <1>2
<1> QED
  BY <1>2, <1>3

\* The directories a path goes through, d of them one after the other.
Route(vbr, path, m, d) ==
  /\ Len(path) = m /\ d = [k \in 0 .. m |-> d[k]] /\ d[0] = vbr.root
  /\ \A k \in 1 .. m : d[k] = FsLookup(vbr, d[k - 1], DirName(path[k]))

LEMMA PathLeads ==
  ASSUME NEW vbr, NEW path, NEW m \in Nat, NEW d, Route(vbr, path, m, d)
  PROVE  FsDir(vbr, path) = d[m]
<1> DEFINE Is(f) == f = [k \in 0 .. m |-> IF k = 0 THEN vbr.root
                                          ELSE FsLookup(vbr, f[k - 1], DirName(path[k]))]
           dir == CHOOSE f : Is(f)
<1>0. /\ Len(path) = m /\ d = [k \in 0 .. m |-> d[k]] /\ d[0] = vbr.root
      /\ \A k \in 1 .. m : d[k] = FsLookup(vbr, d[k - 1], DirName(path[k]))
  BY DEF Route
<1>1. \A k \in 0 .. m : d[k] = IF k = 0 THEN vbr.root ELSE FsLookup(vbr, d[k - 1], DirName(path[k]))
  <2>1. \A k \in 0 .. m : k = 0 \/ k \in 1 .. m
    OBVIOUS
  <2> QED
    BY <1>0, <2>1
<1>2. Is(d)
  BY <1>0, <1>1
<1>3. Is(dir)
  BY <1>2
<1>4. FsDir(vbr, path) = dir[m]
  BY <1>0 DEF FsDir
<1>5. /\ dir[0] = vbr.root
      /\ \A k \in 1 .. m : dir[k] = FsLookup(vbr, dir[k - 1], DirName(path[k]))
  <2> HIDE DEF dir
  <2>1. 0 \in 0 .. m /\ \A k \in 1 .. m : k \in 0 .. m /\ k # 0
    OBVIOUS
  <2> QED
    BY <1>3, <2>1
<1> HIDE DEF dir
<1> DEFINE T == {n \in Nat : n <= m => dir[n] = d[n]}
<1>6. 0 \in T
  BY <1>0, <1>5
<1>7. ASSUME NEW n \in Nat, n \in T PROVE n + 1 \in T
  <2>1. SUFFICES ASSUME n + 1 <= m PROVE dir[n + 1] = d[n + 1]
    OBVIOUS
  <2>2. PICK k \in 1 .. m : k = n + 1 /\ k - 1 = n
    BY <2>1
  <2>3. dir[n] = d[n]
    BY <1>7, <2>1
  <2> QED
    BY <1>0, <1>5, <2>2, <2>3
<1>8. m \in T
  <2> HIDE DEF T
  <2> QED
    BY <1>6, <1>7, SetInduction
<1> QED
  BY <1>4, <1>8

LEMMA PathsLead ==
  ASSUME GeometryAssumption, NEW path \in Paths
  PROVE  FsDir(vdisk_vbr, path) \in DirClusters
<1>0. vdisk_vbr.root = 2 /\ DirClusters = 2 .. 8
  BY DEF vdisk_vbr, RootCluster, DirClusters, MicrosoftCluster
<1>1. CASE path = << >>
  <2> DEFINE d == [k \in 0 .. 0 |-> 2]
  <2>1. Len(path) = 0 /\ d = [k \in 0 .. 0 |-> d[k]] /\ d[0] = vdisk_vbr.root
    BY <1>0, <1>1
  <2>2. d[0] = 2
    OBVIOUS
  <2> HIDE DEF d
  <2>3. FsDir(vdisk_vbr, path) = d[0]
    <3>1. Route(vdisk_vbr, path, 0, d)
      BY <2>1 DEF Route
    <3> QED
      BY <3>1, PathLeads
  <2> QED
    BY <1>0, <2>2, <2>3
<1>2. ASSUME NEW name, NEW cluster \in DirClusters, path = <<name>>,
             FsLookup(vdisk_vbr, 2, DirName(name)) = cluster
      PROVE  FsDir(vdisk_vbr, path) \in DirClusters
  <2> DEFINE d == [k \in 0 .. 1 |-> IF k = 0 THEN 2 ELSE cluster]
  <2>1. Len(path) = 1 /\ path[1] = name /\ d = [k \in 0 .. 1 |-> d[k]] /\ d[0] = 2 /\ d[1] = cluster
    BY <1>2
  <2> HIDE DEF d
  <2>2. \A k \in 1 .. 1 : d[k] = FsLookup(vdisk_vbr, d[k - 1], DirName(path[k]))
    BY <1>2, <2>1
  <2>3. FsDir(vdisk_vbr, path) = d[1]
    <3>1. Route(vdisk_vbr, path, 1, d)
      BY <1>0, <2>1, <2>2 DEF Route
    <3> QED
      BY <3>1, PathLeads
  <2> QED
    BY <2>1, <2>3
<1>3. ASSUME NEW name1, NEW name2, NEW c1, NEW c2 \in DirClusters, path = <<name1, name2>>,
             FsLookup(vdisk_vbr, 2, DirName(name1)) = c1,
             FsLookup(vdisk_vbr, c1, DirName(name2)) = c2
      PROVE  FsDir(vdisk_vbr, path) \in DirClusters
  <2> DEFINE d == [k \in 0 .. 2 |-> IF k = 0 THEN 2 ELSE IF k = 1 THEN c1 ELSE c2]
  <2>1. /\ Len(path) = 2 /\ path[1] = name1 /\ path[2] = name2
        /\ d = [k \in 0 .. 2 |-> d[k]] /\ d[0] = 2 /\ d[1] = c1 /\ d[2] = c2
    BY <1>3
  <2> HIDE DEF d
  <2>2. ASSUME NEW k \in 1 .. 2
        PROVE  d[k] = FsLookup(vdisk_vbr, d[k - 1], DirName(path[k]))
    <3>1. CASE k = 1
      BY <1>3, <2>1, <3>1
    <3>2. CASE k = 2
      BY <1>3, <2>1, <3>2
    <3> QED
      BY <3>1, <3>2
  <2>3. FsDir(vdisk_vbr, path) = d[2]
    <3>1. Route(vdisk_vbr, path, 2, d)
      BY <1>0, <2>1, <2>2 DEF Route
    <3> QED
      BY <3>1, PathLeads
  <2> QED
    BY <2>1, <2>3
<1>4. CASE path = <<"EFI", "MICROSOFT", "BOOT">>
  <2> DEFINE d == [k \in 0 .. 3 |-> IF k = 0 THEN 2 ELSE IF k = 1 THEN 7 ELSE IF k = 2 THEN 8 ELSE 3]
  <2>1. /\ Len(path) = 3 /\ path[1] = "EFI" /\ path[2] = "MICROSOFT" /\ path[3] = "BOOT"
        /\ d = [k \in 0 .. 3 |-> d[k]] /\ d[0] = 2 /\ d[1] = 7 /\ d[2] = 8 /\ d[3] = 3
    BY <1>4
  <2> HIDE DEF d
  <2>2. ASSUME NEW k \in 1 .. 3
        PROVE  d[k] = FsLookup(vdisk_vbr, d[k - 1], DirName(path[k]))
    <3>1. CASE k = 1
      BY <2>1, <3>1, LeadsTo
    <3>2. CASE k = 2
      BY <2>1, <3>2, LeadsTo
    <3>3. CASE k = 3
      BY <2>1, <3>3, LeadsTo
    <3> QED
      BY <3>1, <3>2, <3>3
  <2>3. FsDir(vdisk_vbr, path) = d[3]
    <3>1. Route(vdisk_vbr, path, 3, d)
      BY <1>0, <2>1, <2>2 DEF Route
    <3> QED
      BY <3>1, PathLeads
  <2> QED
    BY <1>0, <2>1, <2>3
<1>5. 3 \in DirClusters /\ 4 \in DirClusters /\ 5 \in DirClusters /\ 6 \in DirClusters
  BY <1>0
<1>6. path = <<"BOOT">> \/ path = <<"SOURCES">> => FsDir(vdisk_vbr, path) \in DirClusters
  BY <1>2, <1>5, LeadsTo
<1>7. path = <<"BOOT", "FONTS">> \/ path = <<"BOOT", "RESOURCES">> \/ path = <<"EFI", "BOOT">>
        => FsDir(vdisk_vbr, path) \in DirClusters
  BY <1>3, <1>5, LeadsTo
<1> QED
  BY <1>1, <1>4, <1>6, <1>7 DEF Paths
---------------------------------------------------------------------------
\* The files are those before file_index, and each is within the room for it.
DiskInv ==
  /\ FilesKept
  /\ file_index <= MaxFiles
  /\ \A idx \in FileIds : /\ disk_files[idx].read <=> idx < file_index
                          /\ disk_files[idx].xlen <= FileCount * SectorSize
                          /\ disk_files[idx].xlen < SizeWord

LEMMA DiskStep ==
  ASSUME GeometryAssumption, DiskInv, [VDiskNext]_vdiskVars
  PROVE  DiskInv'
<1> DEFINE Room == FileCount * SectorSize
<1>0. /\ FilesKept' /\ MaxFiles \in Nat /\ FileIds = 0 .. MaxFiles - 1 /\ file_index \in Nat
      /\ Room \in Nat /\ FileLens \subseteq 0 .. Room
      /\ SizeWord \in Nat \ {0} /\ FileLens \subseteq 0 .. SizeWord - 1
      /\ disk_files \in [FileIds -> [read : BOOLEAN, len : Nat, xlen : Nat, patch : BOOLEAN]]
  BY FilesStep, Numbers, TimesNat DEF DiskInv, GeometryAssumption, FileIds, FilesKept
<1> HIDE DEF Room
<1>1. ASSUME NEW len \in FileLens, AddFile(len) PROVE DiskInv'
  <2> DEFINE file == [read |-> TRUE, len |-> len, xlen |-> len, patch |-> FALSE]
  <2>1. /\ file_index < MaxFiles /\ file_index' = file_index + 1
        /\ disk_files' = [disk_files EXCEPT ![file_index] = file]
    BY <1>1 DEF AddFile
  <2>2. file.read = TRUE /\ file.xlen = len /\ len \in Nat /\ len <= Room /\ len < SizeWord
    BY <1>0
  <2> HIDE DEF file
  <2>3. ASSUME NEW idx \in FileIds
        PROVE  /\ disk_files'[idx].read <=> idx < file_index'
               /\ disk_files'[idx].xlen <= Room /\ disk_files'[idx].xlen < SizeWord
    <3>1. CASE idx = file_index
      <4>1. disk_files'[idx] = file
        BY <1>0, <2>1, <3>1
      <4> QED
        BY <1>0, <2>1, <2>2, <3>1, <4>1
    <3>2. CASE idx # file_index
      <4>1. disk_files'[idx] = disk_files[idx]
        BY <1>0, <2>1, <3>2
      <4>2. idx \in Nat /\ (idx < file_index <=> idx < file_index')
        BY <1>0, <2>1, <3>2
      <4>3. (disk_files[idx].read <=> idx < file_index) /\ disk_files[idx].xlen <= Room
            /\ disk_files[idx].xlen < SizeWord
        BY DEF DiskInv, Room
      <4> QED
        BY <4>1, <4>2, <4>3
    <3> QED
      BY <3>1, <3>2
  <2>4. file_index' <= MaxFiles
    BY <1>0, <2>1
  <2> QED
    BY <1>0, <2>3, <2>4 DEF DiskInv, Room
<1>2. ASSUME NEW n \in FileIds, NEW xlen \in FileLens, PatchFile(n, xlen) PROVE DiskInv'
  <2>1. /\ file_index' = file_index
        /\ disk_files' = [disk_files EXCEPT ![n].patch = TRUE, ![n].xlen = xlen]
    BY <1>2 DEF PatchFile
  <2>2. xlen \in Nat /\ xlen <= Room /\ xlen < SizeWord
    BY <1>0
  <2>3. ASSUME NEW idx \in FileIds
        PROVE  /\ disk_files'[idx].read <=> idx < file_index'
               /\ disk_files'[idx].xlen <= Room /\ disk_files'[idx].xlen < SizeWord
    <3>1. (disk_files[idx].read <=> idx < file_index) /\ disk_files[idx].xlen <= Room
            /\ disk_files[idx].xlen < SizeWord
      BY DEF DiskInv, Room
    <3>2. disk_files'[idx].read = disk_files[idx].read
      BY <1>0, <2>1
    <3>3. disk_files'[idx].xlen = xlen \/ disk_files'[idx].xlen = disk_files[idx].xlen
      BY <1>0, <2>1
    <3> QED
      BY <2>1, <2>2, <3>1, <3>2, <3>3
  <2> QED
    BY <1>0, <2>1, <2>3 DEF DiskInv, Room
<1>3. ASSUME AddFileDies \/ Fragment \/ ReturnRead \/ UNCHANGED vdiskVars
             \/ \E lba \in Lbas, count \in Counts : ReadSectors(lba, count)
      PROVE  DiskInv'
  <2>1. disk_files' = disk_files /\ file_index' = file_index
    BY <1>3 DEF AddFileDies, Fragment, ReturnRead, ReadSectors, vdiskVars
  <2> QED
    BY <1>0, <2>1 DEF DiskInv
<1> QED
  BY <1>1, <1>2, <1>3 DEF VDiskNext
---------------------------------------------------------------------------
\* Clusters of a file of length len, and how many there are before its last one.

LEMMA RoundUp ==
  ASSUME NEW s \in Nat \ {0}, NEW len \in Nat \ {0}
  PROVE  /\ (len - 1) \div s \in Nat
         /\ (len + s - 1) \div s = ((len - 1) \div s) + 1
<1> DEFINE q == (len - 1) \div s
<1>1. len - 1 \in Nat
  OBVIOUS
<1>2. q \in Nat /\ (len - 1) % s \in 0 .. s - 1 /\ len - 1 = s * q + ((len - 1) % s)
  BY <1>1, DivModNat
<1> HIDE DEF q
<1>3. s * q \in Nat /\ s * (q + 1) = s * q + s /\ s * ((q + 1) + 1) = s * (q + 1) + s
  BY <1>2, TimesNat, TimesSum
<1>4. len + s - 1 \in Nat /\ q + 1 \in Nat
  BY <1>1, <1>2
<1>5. s * (q + 1) <= len + s - 1 /\ len + s - 1 < s * ((q + 1) + 1)
  <2> DEFINE a == s * q   r == (len - 1) % s
  <2>1. a \in Nat /\ r \in 0 .. s - 1 /\ len - 1 = a + r /\ s * (q + 1) = a + s
        /\ s * ((q + 1) + 1) = (a + s) + s
    BY <1>2, <1>3
  <2> HIDE DEF a, r
  <2> QED
    BY <2>1
<1>6. (len + s - 1) \div s = q + 1
  BY <1>4, <1>5, DivUnique
<1> QED
  BY <1>2, <1>6 DEF q

LEMMA RoundUpZero ==
  ASSUME NEW s \in Nat \ {0}
  PROVE  (0 + s - 1) \div s = 0
<1>1. s * 0 <= s - 1 /\ s - 1 < s * (0 + 1) /\ s - 1 \in Nat /\ 0 + s - 1 = s - 1
  OBVIOUS
<1> QED
  BY <1>1, DivUnique

LEMMA BelowRoom ==
  ASSUME NEW s \in Nat \ {0}, NEW n \in Nat, NEW i \in Nat, i < s * n
  PROVE  i \div s \in Nat /\ i \div s < n
<1> DEFINE q == i \div s
<1>1. q \in Nat /\ i % s \in 0 .. s - 1 /\ i = s * q + (i % s)
  BY DivModNat
<1> HIDE DEF q
<1>2. ~(q >= n)
  <2>1. SUFFICES ASSUME n <= q PROVE FALSE
    BY <1>1
  <2>2. s * n <= s * q /\ s * n \in Nat /\ s * q \in Nat
    BY <1>1, <2>1, TimesMonotone, TimesNat
  <2> QED
    BY <1>1, <2>2
<1> QED
  BY <1>1, <1>2 DEF q
---------------------------------------------------------------------------
\* How many clusters a file of that length takes.
Taken(len) == (len + ClusterSize - 1) \div ClusterSize

LEMMA TakenIs ==
  ASSUME GeometryAssumption, NEW len \in Nat, len <= FileCount * SectorSize
  PROVE  /\ Taken(len) \in 0 .. FileClusters
         /\ len = 0 => Taken(len) = 0
         /\ len > 0 => Taken(len) >= 1 /\ (len - 1) \div ClusterSize = Taken(len) - 1
<1>1. /\ ClusterSize \in Nat \ {0} /\ FileClusters \in Nat \ {0} /\ ClusterCount \in Nat
      /\ SectorSize \in Nat /\ FileCount = ClusterCount * FileClusters
  BY Numbers, Geometry
<1>2. FileCount * SectorSize = ClusterSize * FileClusters
  <2>1. \A x, y, z \in Nat : (x * y) * z = (x * z) * y
    OBVIOUS
  <2> QED
    BY <1>1, <2>1 DEF ClusterSize
<1>3. CASE len = 0
  BY <1>1, <1>3, RoundUpZero DEF Taken
<1>4. CASE len > 0
  <2> DEFINE q == (len - 1) \div ClusterSize
  <2>1. q \in Nat /\ Taken(len) = q + 1
    BY <1>1, <1>4, RoundUp DEF Taken
  <2>2. len - 1 \in Nat /\ len - 1 < ClusterSize * FileClusters
    <3>1. PICK room \in Nat : room = ClusterSize * FileClusters
      BY <1>1, TimesNat
    <3> QED
      BY <1>2, <1>4, <3>1
  <2>3. q < FileClusters
    BY <1>1, <2>2, BelowRoom
  <2>4. q = (len - 1) \div ClusterSize
    OBVIOUS
  <2> HIDE DEF q
  <2> QED
    BY <1>1, <1>4, <2>1, <2>3, <2>4
<1> QED
  BY <1>3, <1>4

\* The clusters of the files are one after the other, and the FAT has entries for them.

LEMMA FileSpacing ==
  ASSUME GeometryAssumption, NEW i \in FileIds
  PROVE  /\ FileCluster(i) \in Nat /\ FatPerSector <= FileCluster(i)
         /\ FileCluster(i) + FileClusters <= Clusters
         /\ \A j \in FileIds : i < j => FileCluster(i) + FileClusters <= FileCluster(j)
<1>1. /\ FileBase \in Nat /\ FileClusters \in Nat \ {0} /\ MaxFiles \in Nat /\ Clusters \in Nat
      /\ FatPerSector \in Nat /\ FileIds = 0 .. MaxFiles - 1
      /\ \A idx : FileCluster(idx) = FileBase + 2 + idx * FileClusters
      /\ FileBase + MaxFiles * FileClusters + 2 <= Clusters
      /\ FatPerSector <= FileCluster(0)
  BY Numbers, Geometry, FilesWithin DEF FileIds, GeometryAssumption
<1>2. ASSUME NEW a \in Nat, NEW b \in Nat, a < b
      PROVE  /\ a * FileClusters \in Nat /\ b * FileClusters \in Nat
             /\ a * FileClusters + FileClusters <= b * FileClusters
  <2>1. FileClusters * (a + 1) <= FileClusters * b /\ FileClusters * (a + 1) = FileClusters * a + FileClusters
    BY <1>1, <1>2, TimesMonotone, TimesSum
  <2> QED
    BY <1>1, <2>1, TimesNat
<1> DEFINE F == i * FileClusters   M == MaxFiles * FileClusters
<1>3. i \in Nat /\ i < MaxFiles /\ F \in Nat /\ M \in Nat /\ F + FileClusters <= M
  BY <1>1, <1>2
<1>4. ASSUME NEW j \in FileIds, i < j PROVE FileCluster(i) + FileClusters <= FileCluster(j)
  <2>1. PICK J \in Nat : J = j * FileClusters /\ F + FileClusters <= J
    BY <1>1, <1>2, <1>3, <1>4
  <2>2. FileCluster(i) = FileBase + 2 + F /\ FileCluster(j) = FileBase + 2 + J
    BY <1>1, <2>1
  <2> HIDE DEF F
  <2> QED
    BY <1>1, <1>3, <2>1, <2>2
<1>5. FileCluster(i) = FileBase + 2 + F
  BY <1>1
<1>6. FileCluster(0) = FileBase + 2 + 0
  <2>1. 0 * FileClusters = 0
    BY <1>1
  <2> QED
    BY <1>1, <2>1
<1>7. FileBase + M + 2 <= Clusters
  BY <1>1
<1> HIDE DEF F, M
<1> QED
  BY <1>1, <1>3, <1>4, <1>5, <1>6, <1>7

\* The entry that ends a file's chain.

LEMMA MarkerIs ==
  ASSUME GeometryAssumption, DiskInv, NEW i \in FileIds
  PROVE  /\ FileEndMarker(i) \in FileCluster(i) - 1 .. FileCluster(i) + FileClusters - 1
         /\ disk_files[i].xlen > 0 =>
              FileEndMarker(i) = FileCluster(i) + Taken(disk_files[i].xlen) - 1
<1> DEFINE len == disk_files[i].xlen   F == FileCluster(i)
           Room == FileCount * SectorSize
<1>1. len \in Nat /\ len <= Room /\ F \in Nat /\ FileClusters \in Nat \ {0} /\ Room \in Nat \ {0}
  <2>1. F \in Nat /\ FileClusters \in Nat \ {0}
    BY FileSpacing, Geometry
  <2>2. len \in Nat /\ len <= Room
    BY DEF DiskInv, FilesKept
  <2>3. FileCount \in Nat \ {0} /\ SectorSize \in Nat \ {0}
    BY Numbers
  <2>4. \A x, y \in Nat \ {0} : x * y \in Nat \ {0}
    OBVIOUS
  <2> QED
    BY <2>1, <2>2, <2>3, <2>4
<1>2. CASE len > 0
  <2>1. FileEndMarker(i) = F + (len - 1) \div ClusterSize
    BY <1>2 DEF FileEndMarker
  <2>2. Taken(len) \in 1 .. FileClusters /\ (len - 1) \div ClusterSize = Taken(len) - 1
    BY <1>1, <1>2, TakenIs
  <2> HIDE DEF len, F
  <2>3. FileEndMarker(i) = F + (Taken(len) - 1)
    BY <2>1, <2>2
  <2> QED
    BY <1>1, <2>2, <2>3 DEF len, F
<1>3. CASE ~(len > 0)
  <2>1. \/ FileEndMarker(i) = F - 1
        \/ FileEndMarker(i) = F + (Room - 1) \div ClusterSize
    BY <1>3 DEF FileEndMarker
  <2>2. Taken(Room) \in 1 .. FileClusters /\ (Room - 1) \div ClusterSize = Taken(Room) - 1
    BY <1>1, TakenIs
  <2> HIDE DEF len, F, Room
  <2>3. \/ FileEndMarker(i) = F - 1
        \/ FileEndMarker(i) = F + (Taken(Room) - 1)
    BY <2>1, <2>2
  <2> QED
    BY <1>1, <1>3, <2>2, <2>3 DEF len, F
<1> QED
  BY <1>2, <1>3

\* What the FAT has for the clusters of a file: the next one, and the end.

LEMMA FileEntries ==
  ASSUME GeometryAssumption, DiskInv, NEW i \in FileIds, disk_files[i].read,
         NEW k \in 1 .. Taken(disk_files[i].xlen)
  PROVE  FsNext(vdisk_vbr, FileCluster(i) + k - 1)
           = IF k < Taken(disk_files[i].xlen) THEN FileCluster(i) + k ELSE EndMarker
<1> DEFINE len == disk_files[i].xlen   F == FileCluster(i)   n == Taken(len)   c == F + k - 1
           Ends == {FileEndMarker(idx) : idx \in {m \in FileIds : disk_files[m].read}}
<1>1. len \in Nat /\ len <= FileCount * SectorSize
  BY DEF DiskInv, FilesKept
<1>2. n \in 0 .. FileClusters /\ (len = 0 => n = 0)
  BY <1>1, TakenIs
<1>3. /\ F \in Nat /\ FatPerSector <= F /\ F + FileClusters <= Clusters
      /\ \A j \in FileIds : i < j => F + FileClusters <= FileCluster(j)
      /\ FileClusters \in Nat /\ FatPerSector \in Nat /\ Clusters \in Nat
  BY FileSpacing, Numbers, Geometry
<1>4. FileEndMarker(i) = F + n - 1
  <2>1. len > 0
    BY <1>1, <1>2
  <2> QED
    BY <2>1, MarkerIs
<1>5. k \in 1 .. n
  OBVIOUS
<1> HIDE DEF len, F, n
<1>6. c \in Nat /\ c < Clusters /\ ~(c < FatPerSector)
  BY <1>2, <1>3, <1>5
<1>7. FsNext(vdisk_vbr, c) = FatEntry(c)
  BY <1>6, NextIs
<1>8. FatEntry(c) = IF c \in Ends THEN EndMarker ELSE c + 1
  BY <1>6 DEF FatEntry
<1>9. CASE k = n
  <2>1. c = FileEndMarker(i)
    BY <1>4, <1>9
  <2>2. c \in Ends
    BY <2>1
  <2> QED
    BY <1>5, <1>7, <1>8, <1>9, <2>2 DEF F, n, len
<1>10. CASE k < n
  <2>1. ASSUME NEW j \in FileIds, c = FileEndMarker(j) PROVE FALSE
    <3>1. c \in FileCluster(j) - 1 .. FileCluster(j) + FileClusters - 1
      BY <2>1, MarkerIs
    <3>2. i \in Nat /\ j \in Nat
      BY DEF FileIds
    <3>3. CASE i < j
      <4>1. F + FileClusters <= FileCluster(j) /\ FileCluster(j) \in Nat
        BY <1>3, <3>3, FileSpacing
      <4> QED
        BY <1>2, <1>3, <1>5, <1>10, <3>1, <4>1
    <3>4. CASE j < i
      <4>1. FileCluster(j) + FileClusters <= F /\ FileCluster(j) \in Nat
        BY <3>4, FileSpacing DEF F
      <4> QED
        BY <1>2, <1>3, <1>5, <1>10, <3>1, <4>1
    <3>5. CASE j = i
      <4>1. c = F + n - 1
        BY <1>4, <2>1, <3>5
      <4> QED
        BY <1>2, <1>3, <1>5, <1>10, <4>1
    <3> QED
      BY <3>2, <3>3, <3>4, <3>5
  <2>2. c \notin Ends
    BY <2>1
  <2>3. c + 1 = F + k
    BY <1>3, <1>5
  <2> QED
    BY <1>7, <1>8, <1>10, <2>2, <2>3 DEF F, n, len
<1> QED
  BY <1>2, <1>5, <1>9, <1>10 DEF F, n, len
\* The chain of a file: its clusters one after the other.
Consecutive(vbr, cluster, n) ==
  \A k \in 1 .. n - 1 : FsNext(vbr, cluster + k - 1) = cluster + k

LEMMA ChainIs ==
  ASSUME NEW vbr, NEW cluster \in Nat, NEW n \in Nat, Consecutive(vbr, cluster, n)
  PROVE  \A k \in 1 .. n : FsChain(vbr, cluster, n)[k] = cluster + k - 1
<1> DEFINE Is(f) == f = [k \in 1 .. n |-> IF k = 1 THEN cluster ELSE FsNext(vbr, f[k - 1])]
           chain == CHOOSE f : Is(f)
           d == [k \in 1 .. n |-> cluster + k - 1]
<1>1. \A k \in 1 .. n : d[k] = IF k = 1 THEN cluster ELSE FsNext(vbr, d[k - 1])
  <2>1. ASSUME NEW k \in 1 .. n, k # 1
        PROVE  d[k] = FsNext(vbr, d[k - 1])
    <3>1. k - 1 \in 1 .. n - 1 /\ k - 1 \in 1 .. n /\ cluster + (k - 1) = cluster + k - 1
      BY <2>1
    <3>2. FsNext(vbr, cluster + (k - 1) - 1) = cluster + (k - 1)
      BY <3>1 DEF Consecutive
    <3>3. d[k - 1] = cluster + (k - 1) - 1 /\ d[k] = cluster + k - 1
      BY <3>1
    <3> HIDE DEF d
    <3> QED
      BY <3>1, <3>2, <3>3
  <2>2. ASSUME NEW k \in 1 .. n, k = 1
        PROVE  d[k] = cluster
    BY <2>2
  <2> HIDE DEF d
  <2> QED
    BY <2>1, <2>2
<1>2. Is(d)
  <2>1. d = [k \in 1 .. n |-> d[k]]
    OBVIOUS
  <2> HIDE DEF d
  <2> QED
    BY <1>1, <2>1
<1>3. Is(chain)
  <2> HIDE DEF Is, d
  <2> QED
    BY <1>2
<1>4. FsChain(vbr, cluster, n) = chain
  BY DEF FsChain
<1>5. \A k \in 1 .. n : chain[k] = IF k = 1 THEN cluster ELSE FsNext(vbr, chain[k - 1])
  <2> HIDE DEF chain
  <2> QED
    BY <1>3
<1> HIDE DEF chain, d
<1> DEFINE T == {m \in Nat : m + 1 <= n => chain[m + 1] = cluster + (m + 1) - 1}
<1>6. 0 \in T
  <2>1. SUFFICES ASSUME 0 + 1 <= n PROVE chain[0 + 1] = cluster + (0 + 1) - 1
    OBVIOUS
  <2>2. 0 + 1 = 1 /\ 1 \in 1 .. n /\ cluster + (0 + 1) - 1 = cluster
    BY <2>1
  <2> QED
    BY <1>5, <2>2
<1>7. ASSUME NEW m \in Nat, m \in T PROVE m + 1 \in T
  <2>1. SUFFICES ASSUME (m + 1) + 1 <= n PROVE chain[(m + 1) + 1] = cluster + ((m + 1) + 1) - 1
    OBVIOUS
  <2>2. PICK k \in 1 .. n : k = (m + 1) + 1 /\ k - 1 = m + 1 /\ k # 1 /\ k - 1 \in 1 .. n - 1
    BY <2>1
  <2>3. chain[k - 1] = cluster + (k - 1) - 1
    BY <1>7, <2>1, <2>2
  <2>4. FsNext(vbr, cluster + (k - 1) - 1) = cluster + (k - 1)
    BY <2>2 DEF Consecutive
  <2>5. chain[k] = cluster + (k - 1)
    BY <1>5, <2>2, <2>3, <2>4
  <2>6. cluster + (k - 1) = cluster + ((m + 1) + 1) - 1
    BY <2>2
  <2> QED
    BY <2>2, <2>5, <2>6
<1>8. Nat \subseteq T
  <2> HIDE DEF T
  <2> QED
    BY <1>6, <1>7, SetInduction
<1>9. ASSUME NEW k \in 1 .. n PROVE chain[k] = cluster + k - 1
  <2>1. PICK m \in Nat : m + 1 = k
    <3>1. k - 1 \in Nat /\ k - 1 + 1 = k
      OBVIOUS
    <3> QED
      BY <3>1
  <2>2. m \in T
    BY <1>8
  <2> QED
    BY <2>1, <2>2
<1> QED
  BY <1>4, <1>9
---------------------------------------------------------------------------
LEMMA ClusterAt ==
  ASSUME NEW c
  PROVE  FsLba(vdisk_vbr, c)
           = PartitionLba + ReservedCount + 1 * SectorsPerFat + (c - 2) * ClusterCount
BY DEF FsLba, vdisk_vbr

\* Where the sector k of a file is, counted along its chain.

LEMMA FileSectorAt ==
  ASSUME GeometryAssumption, NEW i \in FileIds, NEW k \in Nat
  PROVE  /\ k \div ClusterCount \in Nat /\ k % ClusterCount \in Nat
         /\ FsLba(vdisk_vbr, FileCluster(i) + (k \div ClusterCount)) + (k % ClusterCount)
              = FileCount * (i + 1) + k
<1> DEFINE q == k \div ClusterCount   r == k % ClusterCount
           B == ClusterCount * FileBase   I == ClusterCount * (i * FileClusters)
           Q == ClusterCount * q
<1>1. /\ ClusterCount \in Nat \ {0} /\ PartitionLba \in Nat /\ ReservedCount \in Nat
      /\ SectorsPerFat \in Nat /\ FileBase \in Nat /\ FileClusters \in Nat /\ i \in Nat
      /\ FileCount = ClusterCount * FileClusters /\ FileCount \in Nat
      /\ FileCount = PartitionLba + ReservedCount + SectorsPerFat + B
      /\ FileCluster(i) = FileBase + 2 + i * FileClusters
  BY Numbers, Geometry DEF FileIds
<1>2. q \in Nat /\ r \in Nat /\ k = Q + r
  <2>1. ClusterCount \in Nat \ {0}
    BY <1>1
  <2>2. q \in Nat /\ r \in 0 .. ClusterCount - 1 /\ k = ClusterCount * q + r
    BY <2>1, DivModNat
  <2> HIDE DEF q, r
  <2> QED
    BY <2>1, <2>2
<1> HIDE DEF q, r
<1>3. i * FileClusters \in Nat /\ B \in Nat /\ I \in Nat /\ Q \in Nat
  BY <1>1, <1>2, TimesNat
<1> DEFINE C == ((FileCluster(i) + q) - 2) * ClusterCount
<1>4. FsLba(vdisk_vbr, FileCluster(i) + q) = PartitionLba + ReservedCount + SectorsPerFat + C
  <2>0. PICK c \in Nat : c = FileCluster(i) + q
    BY <1>1, <1>2, <1>3
  <2>1. FsLba(vdisk_vbr, c) = PartitionLba + ReservedCount + 1 * SectorsPerFat + C
    <3>1. FsLba(vdisk_vbr, c)
            = PartitionLba + ReservedCount + 1 * SectorsPerFat + (c - 2) * ClusterCount
      BY ClusterAt, Zenon
    <3> QED
      BY <2>0, <3>1, Zenon
  <2>2. 1 * SectorsPerFat = SectorsPerFat
    BY <1>1
  <2> HIDE DEF C
  <2> QED
    BY <2>0, <2>1, <2>2
<1>5. C = B + I + Q
  <2> DEFINE x == i * FileClusters
  <2>1. x \in Nat
    BY <1>3
  <2>2. (FileCluster(i) + q) - 2 = FileBase + (x + q)
    <3> HIDE DEF x
    <3> QED
      BY <1>1, <1>2, <2>1 DEF x
  <2>3. ClusterCount * (FileBase + (x + q)) = B + ClusterCount * (x + q)
        /\ ClusterCount * (x + q) = I + Q
    <3> HIDE DEF x
    <3> QED
      BY <1>1, <1>2, <2>1, TimesSum DEF x
  <2>4. (FileBase + (x + q)) * ClusterCount = ClusterCount * (FileBase + (x + q))
    <3> HIDE DEF x
    <3> QED
      BY <1>1, <1>2, <2>1, TimesNat
  <2> HIDE DEF B, I, Q, x
  <2> QED
    BY <1>3, <2>2, <2>3, <2>4
<1>6. FileCount * (i + 1) = I + FileCount
  <2>1. \A x, y, z \in Nat : (x * y) * (z + 1) = x * (z * y) + x * y
    OBVIOUS
  <2> QED
    BY <1>1, <2>1
<1> HIDE DEF B, I, Q, C
<1>7. FsLba(vdisk_vbr, FileCluster(i) + q) + r = FileCount * (i + 1) + k
  BY <1>1, <1>2, <1>3, <1>4, <1>5, <1>6
<1> QED
  BY <1>2, <1>7 DEF q, r

\* The sector k of a file has its bytes.

LEMMA FileBytes ==
  ASSUME GeometryAssumption, DiskInv, NEW i \in FileIds, NEW k \in Nat, k < FileCount,
         NEW j \in 0 .. SectorSize - 1, k * SectorSize + j < disk_files[i].xlen
  PROVE  SectorAt(FileCount * (i + 1) + k).bytes[j] = FileByte(i, k * SectorSize + j)
<1> DEFINE lba == FileCount * (i + 1) + k
<1>1. /\ FileCount \in Nat \ {0} /\ SectorSize \in Nat \ {0} /\ MaxFiles \in Nat
      /\ i \in Nat /\ i < MaxFiles
  BY Numbers DEF FileIds
<1>2. PICK low \in Nat : low = FileCount * (i + 1) /\ FileCount * ((i + 1) + 1) = low + FileCount
  BY <1>1, TimesNat, TimesSum
<1>3. lba = low + k /\ lba \in Nat /\ low <= lba /\ lba < low + FileCount
  BY <1>1, <1>2
<1> HIDE DEF lba
<1>4. lba \div FileCount = i + 1 /\ lba % FileCount = k
  <2>1. PICK n \in Nat : n = i + 1 /\ FileCount * n = low /\ FileCount * (n + 1) = low + FileCount
    BY <1>1, <1>2
  <2>2. FileCount * n <= lba /\ lba < FileCount * (n + 1)
    BY <1>3, <2>1
  <2>3. lba \div FileCount = n /\ lba % FileCount = lba - FileCount * n
    BY <1>1, <1>3, <2>2, DivUnique
  <2> QED
    BY <1>2, <1>3, <2>1, <2>3
<1>5. FileIdx(lba) = i /\ FileOffset(lba) = k * SectorSize /\ k * SectorSize \in Nat
  BY <1>1, <1>4, TimesNat DEF FileIdx, FileOffset
<1>6. SectorAt(lba) = vdisk_file(lba, 1)[1]
  BY <1>1, <1>5 DEF SectorAt, BuildSectors
<1> DEFINE one == 1   base == k * SectorSize
<1>7. vdisk_file(lba, one)[one]
        = [bytes |-> [m \in 0 .. SectorSize - 1 |-> ByteAt(i, base + (one - 1) * SectorSize + m)]]
  <2>1. one \in Nat /\ one \in 1 .. one
    OBVIOUS
  <2>2. disk_files[i].len \in Nat /\ disk_files[i].xlen \in Nat
    BY DEF DiskInv, FilesKept
  <2> HIDE DEF one
  <2>3. vdisk_file(lba, one)[one]
          = [bytes |-> [m \in 0 .. SectorSize - 1 |->
                          ByteAt(FileIdx(lba), FileOffset(lba) + (one - 1) * SectorSize + m)]]
    BY <1>5, <2>1, <2>2, FileSectors
  <2> QED
    BY <1>5, <2>3, Zenon
<1>8. base \in Nat /\ base + (one - 1) * SectorSize + j = base + j /\ base + j < disk_files[i].xlen
  <2>1. (one - 1) * SectorSize = 0
    BY <1>1
  <2>2. base \in Nat /\ base + j < disk_files[i].xlen
    BY <1>5
  <2> HIDE DEF base, one
  <2> QED
    BY <2>1, <2>2
<1> HIDE DEF base, one
<1>9. SectorAt(lba).bytes[j] = ByteAt(i, base + j)
  <2>1. vdisk_file(lba, one)[one].bytes[j] = ByteAt(i, base + (one - 1) * SectorSize + j)
    BY <1>7
  <2>2. SectorAt(lba) = vdisk_file(lba, one)[one]
    BY <1>6 DEF one
  <2> QED
    BY <1>8, <2>1, <2>2
<1>10. ByteAt(i, base + j) = FileByte(i, base + j)
  BY <1>8, Zenon DEF ByteAt, FileByte
<1> QED
  BY <1>9, <1>10 DEF lba, base
\* A length that fits into an entry is not changed by it.
LEMMA BelowModulus ==
  ASSUME NEW len \in Nat, NEW word \in Nat, len < word
  PROVE  len % word = len
OBVIOUS

\* What an entry leads to, with the chain and the sectors named.
LEMMA ContentsAre ==
  ASSUME NEW vbr, NEW cluster \in Nat, NEW len \in Nat, len < SizeWord, SizeWord \in Nat, NEW i, NEW n \in Nat, n = Taken(len),
         NEW chain, chain = FsChain(vbr, cluster, n),
         n > 0 => FsNext(vbr, chain[n]) = EndMarker,
         \A k \in 0 .. (n * ClusterCount) - 1 : \A j \in 0 .. SectorSize - 1 :
           (k * SectorSize) + j < len =>
             SectorAt(FsLba(vbr, chain[(k \div ClusterCount) + 1]) + (k % ClusterCount)).bytes[j]
               = FileByte(i, (k * SectorSize) + j)
  PROVE  FsContents(vbr, Entry(FileName(i), len, cluster), i)
<1>1. Entry(FileName(i), len, cluster).size = len /\ Entry(FileName(i), len, cluster).cluster = cluster
  BY BelowModulus DEF Entry
<1> QED
  BY <1>1, Zenon DEF FsContents, Taken

LEMMA FileContents ==
  ASSUME GeometryAssumption, DiskInv, NEW i \in FileIds, disk_files[i].read
  PROVE  FsContents(vdisk_vbr, Entry(FileName(i), disk_files[i].xlen, FileCluster(i)), i)
<1> DEFINE len == disk_files[i].xlen   n == Taken(len)   F == FileCluster(i)
           chain == FsChain(vdisk_vbr, F, n)
<1>1. /\ len \in Nat /\ len < SizeWord /\ SizeWord \in Nat /\ n \in 0 .. FileClusters
      /\ F \in Nat /\ ClusterCount \in Nat \ {0}
      /\ FileClusters \in Nat /\ FileCount = ClusterCount * FileClusters /\ SectorSize \in Nat
  <2>1. len \in Nat /\ len <= FileCount * SectorSize /\ len < SizeWord /\ SizeWord \in Nat
    BY DEF DiskInv, FilesKept, GeometryAssumption
  <2>2. n \in 0 .. FileClusters
    BY <2>1, TakenIs
  <2>3. F \in Nat
    BY FileSpacing
  <2> QED
    BY <2>1, <2>2, <2>3, Numbers, Geometry
<1>2. \A k \in 1 .. n : FsNext(vdisk_vbr, F + k - 1) = IF k < n THEN F + k ELSE EndMarker
  BY FileEntries
<1> HIDE DEF len, n, F
<1>3. Consecutive(vdisk_vbr, F, n)
  <2>1. \A k \in 1 .. n - 1 : k \in 1 .. n /\ k < n
    BY <1>1
  <2> QED
    BY <1>2, <2>1 DEF Consecutive
<1>4. \A k \in 1 .. n : chain[k] = F + k - 1
  <2>1. n \in Nat
    BY <1>1
  <2> QED
    BY <1>1, <1>3, <2>1, ChainIs
<1> HIDE DEF chain
<1>5. n > 0 => FsNext(vdisk_vbr, chain[n]) = EndMarker
  <2>1. SUFFICES ASSUME n > 0 PROVE FsNext(vdisk_vbr, chain[n]) = EndMarker
    OBVIOUS
  <2>2. n \in 1 .. n /\ ~(n < n)
    BY <1>1, <2>1
  <2> QED
    BY <1>2, <1>4, <2>2
<1>6. ASSUME NEW k \in 0 .. (n * ClusterCount) - 1, NEW j \in 0 .. SectorSize - 1,
             (k * SectorSize) + j < len
      PROVE  SectorAt(FsLba(vdisk_vbr, chain[(k \div ClusterCount) + 1]) + (k % ClusterCount)).bytes[j]
               = FileByte(i, (k * SectorSize) + j)
  <2> DEFINE q == k \div ClusterCount   r == k % ClusterCount
  <2>1. PICK room \in Nat : room = n * ClusterCount /\ room = ClusterCount * n /\ room <= FileCount
    BY <1>1, TimesMonotone, TimesNat
  <2>2. k \in Nat /\ k < ClusterCount * n /\ k < FileCount /\ n \in Nat
    <3>1. FileCount \in Nat
      BY Numbers
    <3> QED
      BY <1>1, <2>1, <3>1
  <2>3. q \in Nat /\ q < n
    BY <1>1, <2>2, BelowRoom
  <2>4. FsLba(vdisk_vbr, F + q) + r = FileCount * (i + 1) + k
    BY <2>2, FileSectorAt DEF F
  <2>5. SectorAt(FileCount * (i + 1) + k).bytes[j] = FileByte(i, (k * SectorSize) + j)
    BY <1>6, <2>2, FileBytes DEF len
  <2> HIDE DEF q, r
  <2>6. chain[q + 1] = F + q
    <3>1. PICK m \in 1 .. n : m = q + 1 /\ F + m - 1 = F + q
      BY <1>1, <2>3
    <3> QED
      BY <1>4, <3>1
  <2>7. SectorAt(FsLba(vdisk_vbr, chain[q + 1]) + r).bytes[j] = FileByte(i, (k * SectorSize) + j)
    BY <2>4, <2>5, <2>6, Zenon
  <2> QED
    BY <2>7 DEF q, r
<1>7. FsContents(vdisk_vbr, Entry(FileName(i), len, F), i)
  <2>1. n \in Nat
    BY <1>1
  <2> QED
    BY <1>1, <1>5, <1>6, <2>1, ContentsAre, Zenon DEF n, chain
<1> QED
  BY <1>7 DEF len, F

\* The chain of a directory ends with its one cluster.

LEMMA DirEnds ==
  ASSUME GeometryAssumption, NEW c \in DirClusters
  PROVE  FsNext(vdisk_vbr, c) = EndMarker
<1>1. c \in Nat /\ c < FatPerSector
  BY Numbers DEF DirClusters, RootCluster, MicrosoftCluster, GeometryAssumption
<1>2. c < Clusters
  <2>1. FatPerSector <= FileCluster(0) /\ FileCluster(0) + FileClusters <= Clusters /\ FileCluster(0) \in Nat
    <3>1. 0 \in FileIds
      BY Numbers DEF FileIds
    <3> QED
      BY <3>1, FileSpacing
  <2> QED
    BY <1>1, <2>1, Numbers, Geometry
<1> QED
  BY <1>1, <1>2, NextIs DEF FatEntry

\* The files the directories list are those that have been added.

LEMMA AddedAre ==
  ASSUME GeometryAssumption, DiskInv
  PROVE  {<<e.name, e.size>> : e \in AddedEntries}
           = {<<FileName(idx), disk_files[idx].xlen>> : idx \in 0 .. file_index - 1}
<1> DEFINE E(idx) == Entry(FileName(idx), disk_files[idx].xlen, FileCluster(idx))
<1>1. AddedEntries = {E(idx) : idx \in {m \in FileIds : disk_files[m].read}}
  BY DEF AddedEntries
<1>2. {m \in FileIds : disk_files[m].read} = 0 .. file_index - 1
  <2>1. file_index \in Nat /\ file_index <= MaxFiles /\ MaxFiles \in Nat /\ FileIds = 0 .. MaxFiles - 1
        /\ \A idx \in FileIds : disk_files[idx].read <=> idx < file_index
    BY Numbers DEF DiskInv, FilesKept, FileIds
  <2> QED
    BY <2>1
<1>3. \A idx : E(idx).name = FileName(idx)
  BY DEF Entry
<1>4. \A idx \in 0 .. file_index - 1 : E(idx).size = disk_files[idx].xlen
  <2>1. SUFFICES ASSUME NEW idx \in 0 .. file_index - 1
                 PROVE  E(idx).size = disk_files[idx].xlen
    OBVIOUS
  <2>2. idx \in FileIds
    BY <1>2
  <2>3. PICK len \in Nat : len = disk_files[idx].xlen /\ len < SizeWord
    BY <2>2 DEF DiskInv, FilesKept
  <2>4. SizeWord \in Nat
    BY DEF GeometryAssumption
  <2>5. E(idx).size = len % SizeWord
    BY <2>3 DEF Entry
  <2> QED
    BY <2>3, <2>4, <2>5, BelowModulus
<1> HIDE DEF E
<1> QED
  BY <1>1, <1>2, <1>3, <1>4

\* The files a driver for FAT32 finds on the disk are the ones added, with their bytes.

THEOREM FilesFound == ASSUME GeometryAssumption PROVE VDiskSpec => []FilesReadable
<1>1. VDiskInit => DiskInv
  <2> SUFFICES ASSUME VDiskInit PROVE DiskInv
    OBVIOUS
  <2>1. FilesKept
    BY DEF VDiskInit, FilesKept, NoFile
  <2>2. MaxFiles \in Nat /\ FileIds = 0 .. MaxFiles - 1 /\ FileCount * SectorSize \in Nat
    BY Numbers, TimesNat DEF FileIds
  <2>3. file_index = 0 /\ \A idx \in FileIds : disk_files[idx] = NoFile
    BY DEF VDiskInit
  <2>4. NoFile.read = FALSE /\ NoFile.xlen = 0 /\ 0 < SizeWord
    BY DEF NoFile, GeometryAssumption
  <2> QED
    BY <2>1, <2>2, <2>3, <2>4 DEF DiskInv
<1>2. DiskInv /\ [VDiskNext]_vdiskVars => DiskInv'
  BY DiskStep
<1>3. DiskInv => FilesReadable
  <2> SUFFICES ASSUME DiskInv PROVE FilesReadable
    OBVIOUS
  <2>1. Vbr = vdisk_vbr /\ vdisk_vbr.root \in DirClusters
    <3>1. vdisk_vbr.root = RootCluster /\ RootCluster \in DirClusters
      BY DEF vdisk_vbr, DirClusters, RootCluster, MicrosoftCluster
    <3> QED
      BY <3>1, VbrIs
  <2>2. FsFiles(vdisk_vbr, vdisk_vbr.root) = AddedEntries
    BY <2>1, DirFiles
  <2>3. ASSUME NEW path \in Paths
        PROVE  /\ FsNext(vdisk_vbr, FsDir(vdisk_vbr, path)) = EndMarker
               /\ FsFiles(vdisk_vbr, FsDir(vdisk_vbr, path)) = AddedEntries
    <3>1. PICK c \in DirClusters : c = FsDir(vdisk_vbr, path)
      BY PathsLead
    <3> QED
      BY <3>1, DirEnds, DirFiles
  <2>4. ASSUME NEW e \in AddedEntries
        PROVE  FsContents(vdisk_vbr, e, e.name[2])
    <3>1. PICK idx \in FileIds :
            disk_files[idx].read /\ e = Entry(FileName(idx), disk_files[idx].xlen, FileCluster(idx))
      BY DEF AddedEntries
    <3>2. e.name[2] = idx
      BY <3>1, Names DEF Entry
    <3> QED
      BY <3>1, <3>2, FileContents
  <2> QED
    BY <2>1, <2>2, <2>3, <2>4, AddedAre DEF FilesReadable
<1> QED
  BY <1>1, <1>2, <1>3, PTL DEF VDiskSpec
============================================================================
