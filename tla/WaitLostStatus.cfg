\* A child that exits before execute registers it: the parent waits forever.
CONSTANTS
  r = r
  c1 = c1
  c2 = c2
  g = g
  NoProc = NoProc
  NoCode = NoCode
  Root = r
  Codes = {0, 1, 2}
  Procs <- MCProcs
  Script <- MCScriptFixedLoad
  PgSize = 64
  InitSp = 1024
  StackVa = 256
  Headers <- MCHeaders
  Argvs <- MCArgvs
SPECIFICATION Spec
PROPERTY WaitCompletes
