SPECIFICATION MCSpec
CONSTANTS
  Users <- MCUsers
  keyboard_layout_us <- MCLayout
  QueueLength = 2
  Calls = {"read_sector", "identify", "identify_satapi", "identify_satapi_properly", "read_sector_satapi"}
  SectorCounts = {0, 1}
  Blocks <- MCBlocks
  SATA_WAIT_TIMEOUT = 2
  SATA_WAIT_TIMEOUT_PER_SECTOR = 1
  UINT_MAX = 7
INVARIANTS TransfersExact DevicesListed PortMemReturned CommandsOrderly KeysTracked
  InstalledExactly UndoneExactly
PROPERTIES NoPhantomChar WaitsEnd
