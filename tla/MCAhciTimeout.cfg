SPECIFICATION AhciSpec
CONSTANTS
  Calls = {"read_sector"}
  SectorCounts = {0, 1}
  Blocks <- MCBlocks
  SATA_WAIT_TIMEOUT = 2
  SATA_WAIT_TIMEOUT_PER_SECTOR = 1
  UINT_MAX = 7
INVARIANT ReadResultHonest
