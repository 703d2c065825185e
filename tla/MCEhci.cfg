CONSTANTS
  p1 = p1
  p2 = p2
  p3 = p3
  p4 = p4
  NULL = NULL
  Pages = {p1, p2, p3, p4}
  MaxReads = 2
  MaxFinds = 1
SPECIFICATION Spec
SYMMETRY Frames
INVARIANT UsbPagesReturned
PROPERTY ReadHonest
CHECK_DEADLOCK FALSE
