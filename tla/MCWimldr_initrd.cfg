CONSTANTS
  ChunkLen = 4
  Len32 = 12
  Size32 = 1
  Size64 = 2
  FileLen <- MCFileLen
  Resources <- MCResources
  Offsets = {0, 3, 4, 6, 8, 13}
  Lens = {0, 1, 2, 5, 9}
  NULL = NULL
  Archives <- MCArchives
  Volumes <- MCVolumes
  ImagePaths <- MCImagePaths
  Injectable <- MCInjectable
  VDISK_MAX_FILES = 8
  WIM_MAX_FILES = 8
  PAGE_SIZE = 2
  PAGE_SIZE_2MB = 4
  ADDR_1MB = 2
  ADDR_2GB = 20
  ADDR_4GB = 24
  Top = 44
  Maps <- MCMaps
  InitrdPlaces = {8, 9, 11, 13}
  InitrdLens = {1, 2, 3, 5, 7}
  Search <- Exe
  Replace <- Efi
  VDISK_SECTOR_SIZE = 4
  Bcds <- MCBcds
  SectorSize = 9
  EntrySize = 1
  PartitionLba = 4
  ClusterCount = 4
  Clusters = 48
  FileCount = 48
  FsInfoSector = 1
  BackupVbrSector = 2
  WordSize = 240
  SizeWord = 433
  Wide = TRUE
  FileLens = {0, 36, 37, 432}
  Lbas <- MCLbas
  Counts = {2, 5, 50}
  AlignTo = 4
  Images <- MCImages
  Files <- MCFiles
  Indexes = {0, 1, 2, 3}
  ReadLens = {2, 7}
  WimNames = {5, 11, 12, 13, 14, 15}
  Windows = 2
  System32 = 3
  Parts = {"boot"}
SPECIFICATION PartsSpec
INVARIANTS BootWimIsInitrd
CHECK_DEADLOCK FALSE
