SPECIFICATION Spec
CONSTANTS
  Users <- MCShiftUsers
  keyboard_layout_us <- MCLayout
  QueueLength = 2
INVARIANT RevertedWhenUp
