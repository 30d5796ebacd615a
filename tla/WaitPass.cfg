\* Every branch of wait, exit and clean_up, and an execute with any boundary-case header and argv: wait returns the right status once, no record outlives the processes, and every load lays out its segment and argv correctly.
CONSTANTS
  r = r
  c1 = c1
  c2 = c2
  g = g
  NoProc = NoProc
  NoCode = NoCode
  Root = r
  Codes = {0, 1, 2}
  Procs <- MCProcs
  Script <- MCScript
  PgSize = 64
  InitSp = 1024
  StackVa = 256
  Headers <- MCHeaders
  Argvs <- MCArgvs
SPECIFICATION Spec
INVARIANT TypeOK WaitSemantics NoRecordLeak SegmentLoadsFile ArgvLayout
