\* open, close, mmap, fault, store, eviction and munmap in any order keep every page either resident or described by its SPT entry, never both.
CONSTANTS
  fA = fA
  fB = fB
  NoFile = NoFile
  NoMap = NoMap
  Files <- MCFiles
  FileLen = 1
  MaxFd = 4
  MaxMapid = 1
  MaxPage = 2
  Vals = {0, 1}
SYMMETRY MCSymmetry
SPECIFICATION Spec
INVARIANT TypeOK ValidXorSpt
