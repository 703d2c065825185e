SPECIFICATION Spec
CONSTANTS
  Machines <- MCMachines
  Capacity = 8
  Max8 = 2
  Max16 = 7
  Limit28 = 6
  Polls = 2
  MAX_STORAGE_DEVICES = 1028
INVARIANT AtapiFound
