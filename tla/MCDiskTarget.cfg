SPECIFICATION MCSpec
CONSTANTS
  NumPrim = 3
  NumPart = 4
  Mb = 2
  Cyl = 3
  Pad = 1
  DiskSec = 24
  Width = 1024
  Found <- MCFound
  MaxEdits = 3
  SlIds = {0, 1, 3}
  SlFound <- MCSlFound
  SwapNeeded = 3
  LowMemory = TRUE
  Automated = TRUE
  TiCyl = 3
  TiNCyl = 3
  TiMb = 2
  TiDiskSec = 24
  SwapTable <- MCSwapTable
  Begins <- MCBegins
  TiAttrs <- MCTiAttrs
  TiStarts <- MCTiStarts
  TiFaults = {"fdisk", "vtoc", "swap", "umount", "destroy", "create", "zfs", "dump", "mount", "newfs", "lofiadm", "be_mount"}
  Creations <- MCCreations
  Sizes = {0, 8}
  Disk = "c1d1"
  Cases <- MCCases
  FD_NUMPART = 3
  OM_NUMPART = 9
  Gb = 32
  SizeMb = 96
  MinMb = 16
  DsWidth = 1024
  MaxChanges = 3
  Machines <- MCMachines
INVARIANTS
  ScreenIsRight
  UntouchedPartitionsSurvive
  SlicesAreApart
  DevicesAreAccounted
  VolumesFit
  RequestsAreGranted
PROPERTIES
  PreservedSlicesStay
CHECK_DEADLOCK FALSE
