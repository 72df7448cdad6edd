CONSTANTS
  Types = {"HD", "CD"}
  CD = "CD"
  DriveNums = {1, 2}
  MaxDrives = 2
  MaxAddDev = 1
  Dpis <- MCDpis
  Widths = {1, 5, 12, 25}
  MaxWidth = 30
  Inis <- MCInis
  Numbers <- MCNumbers
  Models = {"", "m2"}
  Macs = {"", "52-55"}
  MaxEdits = 2
  Driveless = "none"
  Typed <- MCTyped
  Dirs <- MCDirs
  pwd <- MCPwd
  Requests <- MCRequests
  MethodMax = 1
  PathMax = 6
  VersionMax = 1
  REQUEST_MAX_HEADERS = 2
  REQUEST_HEADERS_MAX_MEMORY = 13
  REQUEST_MAX_BODY_LENGTH = 3
  SEND_RECV_BUFFER_SIZE = 2
  Directory <- MCDirectory
  Tree <- MCTree
  Index = 99
  Parts = {"devices"}
SPECIFICATION PartsSpec
INVARIANTS AdditionalListed
