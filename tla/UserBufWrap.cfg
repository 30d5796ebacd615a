\* A length near the top of usize makes start + len overflow: the check loop is skipped (release build) or the kernel panics (overflow checks).
CONSTANTS
  AddrBits = 6
  PgSize = 8
  KernBase = 32
  Mapped = {1, 2, 3}
  Writable = {2, 3}
  Starts = {0, 4, 9, 15, 30}
  Lens = {0, 1, 7, 16, 60}
SPECIFICATION Spec
INVARIANT AcceptedBufferIsUser
