------------------------------- MODULE FileMap -------------------------------
(***************************************************************************)
(* One user process's file descriptors and memory mappings:               *)
(*   - the fd table and the mmap table (src/userproc/fileop/fdtable.rs,  *)
(*     mmaptable.rs)                                                      *)
(*   - the open, close, mmap and munmap system calls (src/userproc/       *)
(*     fileop.rs)                                                         *)
(*   - demand paging of its InFileMapped and InSwap pages                  *)
(*     (src/trap/demandpaging.rs) and eviction of its frames by the frame *)
(*     table (src/mem/frametable.rs:130-148), which other processes'     *)
(*     allocations cause at any time.                                     *)
(* The process has one thread and its tables are its own, so its calls   *)
(* are sequential; eviction is the environment.  A page is a number, a   *)
(* file is a sequence of page-sized values, and a value is what the user *)
(* last stored in a page.                                                 *)
(***************************************************************************)
EXTENDS Integers, FiniteSets

CONSTANTS
  Files,      \* the files of the file system
  FileLen,    \* the length of every file in pages
  MaxFd,      \* fds 3..MaxFd can be open at once
  MaxMapid,   \* mapids 0..MaxMapid can be allocated
  MaxPage,    \* user pages 1..MaxPage; address 0 is page 0
  Vals,       \* page contents; 0 is what every file holds at first
  NoFile,     \* a free fd
  NoMap       \* a free mapid

ASSUME /\ FileLen \in Nat \ {0} /\ 0 \in Vals
       /\ MaxFd >= 3 /\ MaxMapid \in Nat /\ MaxPage >= FileLen

Fds == 0..MaxFd
UserFds == 3..MaxFd
Mapids == 0..MaxMapid
Pages == 1..MaxPage
Offsets == 0..(FileLen - 1)

(* SupPageEntry (suppagetable.rs:9-13), restricted to what this process  *)
(* uses: InFileMapped(file, offset) and InSwap, or no entry.             *)
NoSpte == [kind |-> "none", file |-> NoFile, off |-> 0]
Mapped(f, i) == [kind |-> "mapped", file |-> f, off |-> i]
SwapSpte == [kind |-> "swap", file |-> NoFile, off |-> 0]

VARIABLES
  stdfd,      \* FDTable.stdfd: stdin, stdout, stderr open
  userfd,     \* FDTable.userfd: fd -> file
  mmaps,      \* MmapTable: mapid -> [fd, start, len]
  valid,      \* PTE V bit of each page
  dirty,      \* PTE D bit of each page
  rwu,        \* PTE R|W|U bits of each page: user access allowed
  spte,       \* SPT entry of each page
  fte,        \* the frame table holds an entry for the page
  mem,        \* the page's content: in its frame, or in its swap slot
  disk,       \* disk[f][i]: page i of file f
  fault,      \* the page demand_page is handling, the step it is at and
              \* the SPT entry it queried at its start
  unmap       \* munmap's loop: the file, the range and the next page

vars == <<stdfd, userfd, mmaps, valid, dirty, rwu, spte, fte, mem, disk, fault, unmap>>

NoFault == [page |-> 0, at |-> "none", spte |-> NoSpte]
NoUnmap == [file |-> NoFile, start |-> 0, pos |-> 0, end |-> 0]

(* The thread is in user mode: neither a fault nor munmap is under way. *)
Idle == fault = NoFault /\ unmap = NoUnmap

TypeOK ==
  /\ stdfd \in [0..2 -> BOOLEAN]
  /\ userfd \in [UserFds -> Files \cup {NoFile}]
  /\ mmaps \in [Mapids -> [fd : Fds, start : Pages, len : 1..MaxPage] \cup {NoMap}]
  /\ valid \in [Pages -> BOOLEAN] /\ dirty \in [Pages -> BOOLEAN]
  /\ rwu \in [Pages -> BOOLEAN]
  /\ spte \in [Pages -> {NoSpte, SwapSpte} \cup {Mapped(f, i) : f \in Files, i \in Offsets}]
  /\ fte \in [Pages -> BOOLEAN]
  /\ mem \in [Pages -> Vals]
  /\ disk \in [Files -> [Offsets -> Vals]]
  /\ fault \in {NoFault} \cup [page : Pages, at : {"read", "ft_map", "remove"},
                                spte : {SwapSpte} \cup {Mapped(f, i) : f \in Files, i \in Offsets}]
  /\ unmap \in {NoUnmap} \cup [file : Files, start : Pages, pos : Pages, end : 2..MaxPage + 1]

(* A new process: FDTable::new (fdtable.rs:19-24), MmapTable::new, and   *)
(* no page of the region mapped.                                          *)
Init ==
  /\ stdfd = [i \in 0..2 |-> TRUE]
  /\ userfd = [fd \in UserFds |-> NoFile]
  /\ mmaps = [m \in Mapids |-> NoMap]
  /\ valid = [p \in Pages |-> FALSE]
  /\ dirty = [p \in Pages |-> FALSE]
  /\ rwu = [p \in Pages |-> FALSE]
  /\ spte = [p \in Pages |-> NoSpte]
  /\ fte = [p \in Pages |-> FALSE]
  /\ mem = [p \in Pages |-> 0]
  /\ disk = [f \in Files |-> [i \in Offsets |-> 0]]
  /\ fault = NoFault
  /\ unmap = NoUnmap

(* FDTable::alloc_fd (fdtable.rs:27-35): the smallest key from the first *)
(* one up that the table does not contain.                                *)
SmallestFree(keys, used) == CHOOSE k \in keys \ used : \A j \in keys : j < k => j \in used

(* fileop::open (fileop.rs:41-66): every file exists and the flags are   *)
(* valid, so the file is installed at the smallest free fd.              *)
Open(f) ==
  LET used == {fd \in UserFds : userfd[fd] # NoFile} IN
  /\ Idle /\ used # UserFds
  /\ userfd' = [userfd EXCEPT ![SmallestFree(UserFds, used)] = f]
  /\ UNCHANGED <<stdfd, mmaps, valid, dirty, rwu, spte, fte, mem, disk, fault, unmap>>

(* fileop::close (fileop.rs:125-137) and FDTable::close_fd (fdtable.rs:  *)
(* 43-52): a user fd that is not open is an error; a standard fd is      *)
(* marked closed; a user fd is removed.                                  *)
Close(fd) ==
  /\ Idle
  /\ fd >= 3 => userfd[fd] # NoFile
  /\ IF fd < 3 THEN /\ stdfd' = [stdfd EXCEPT ![fd] = FALSE]
                    /\ UNCHANGED userfd
               ELSE /\ userfd' = [userfd EXCEPT ![fd] = NoFile]
                    /\ UNCHANGED stdfd
  /\ UNCHANGED <<mmaps, valid, dirty, rwu, spte, fte, mem, disk, fault, unmap>>

(* mmap's check (fileop.rs:181-197): no page of the range is valid or    *)
(* has an SPT entry.                                                      *)
CheckFree(a, len) == \A p \in a..(a + len - 1) : ~valid[p] /\ spte[p] = NoSpte

(* MmapTable::alloc_mapid (mmaptable.rs:16-24): the smallest mapid the  *)
(* table does not hold.                                                   *)
NewMapid == SmallestFree(Mapids, {k \in Mapids : mmaps[k] # NoMap})

(* map (fileop.rs:213): the file offset of page p of a range at a.      *)
FileOffsetFromOne(p, a) == p - a + 1
FileOffset(p, a) == p - a

(* fileop::mmap (fileop.rs:219-245): a standard fd, address 0, a fd that *)
(* is not open, an empty file or an occupied range is rejected and       *)
(* changes nothing; otherwise map                                         *)
(* every page R|W|U without V to an InFileMapped entry (map, 199-217)   *)
(* and allocate a mapid.  The range must fit in 1..MaxPage and a mapid  *)
(* in 0..MaxMapid must be free: these are the model's bounds.            *)
MmapOk(fd, a) ==
  /\ Idle /\ fd >= 3 /\ a # 0 /\ userfd[fd] # NoFile
  /\ LET f == userfd[fd]
         len == FileLen
         m == NewMapid
     IN /\ len # 0 /\ a + len - 1 <= MaxPage
        /\ CheckFree(a, len)
        /\ \E k \in Mapids : mmaps[k] = NoMap
        /\ valid' = [p \in Pages |-> IF p \in a..(a + len - 1) THEN FALSE ELSE valid[p]]
        /\ dirty' = [p \in Pages |-> IF p \in a..(a + len - 1) THEN FALSE ELSE dirty[p]]
        /\ rwu' = [p \in Pages |-> IF p \in a..(a + len - 1) THEN TRUE ELSE rwu[p]]
        /\ spte' = [p \in Pages |-> IF p \in a..(a + len - 1) THEN Mapped(f, FileOffset(p, a)) ELSE spte[p]]
        /\ mmaps' = [mmaps EXCEPT ![m] = [fd |-> fd, start |-> a, len |-> len]]
  /\ UNCHANGED <<stdfd, userfd, fte, mem, disk, fault, unmap>>

(* demand_page (demandpaging.rs:13-86) on a fault at a page with an SPT  *)
(* entry, one action per step that another process's eviction can come   *)
(* between.  alloc_frame and the PTE update with the previous flags plus  *)
(* V come first (20-32, 60-67); an InFileMapped page is then pinned in    *)
(* the frame table (69), which no eviction selects, and filled from the   *)
(* file the entry queried at 17 names (71-76); the frame-table entry eviction does see is pushed at 35  *)
(* or 78; only then is the SPT entry removed (81).                        *)
FaultMap(p) ==
  /\ Idle /\ ~valid[p] /\ spte[p] # NoSpte
  /\ valid' = [valid EXCEPT ![p] = TRUE]
  /\ fault' = [page |-> p, at |-> IF spte[p].kind = "mapped" THEN "read" ELSE "ft_map",
                spte |-> spte[p]]
  /\ UNCHANGED <<stdfd, userfd, mmaps, dirty, rwu, spte, fte, mem, disk, unmap>>

FaultRead ==
  /\ fault.at = "read"
  /\ mem' = [mem EXCEPT ![fault.page] = disk[fault.spte.file][fault.spte.off]]
  /\ fault' = [fault EXCEPT !.at = "ft_map"]
  /\ UNCHANGED <<stdfd, userfd, mmaps, valid, dirty, rwu, spte, fte, disk, unmap>>

FaultFtMap ==
  /\ fault.at = "ft_map"
  /\ fte' = [fte EXCEPT ![fault.page] = TRUE]
  /\ fault' = [fault EXCEPT !.at = "remove"]
  /\ UNCHANGED <<stdfd, userfd, mmaps, valid, dirty, rwu, spte, mem, disk, unmap>>

DropSpteKept(p) == spte
DropSpte(p) == [spte EXCEPT ![p] = NoSpte]

FaultDone ==
  /\ fault.at = "remove"
  /\ spte' = DropSpte(fault.page)
  /\ fault' = NoFault
  /\ UNCHANGED <<stdfd, userfd, mmaps, valid, dirty, rwu, fte, mem, disk, unmap>>

(* A user store to a resident page whose PTE allows it: the MMU sets D.  *)
UserWrite(p, v) ==
  /\ Idle /\ valid[p] /\ rwu[p]
  /\ mem' = [mem EXCEPT ![p] = v]
  /\ dirty' = [dirty EXCEPT ![p] = TRUE]
  /\ UNCHANGED <<stdfd, userfd, mmaps, valid, rwu, spte, fte, disk, fault, unmap>>

(* select_and_evict choosing an entry of this process (frametable.rs:     *)
(* 130-147): the PTE keeps its flags without V, the frame goes to swap,  *)
(* the page's SPT entry becomes InSwap and the entry leaves the table.   *)
(* Another process's allocation can cause it between any two steps.     *)
Evict(p) ==
  /\ fte[p]
  /\ valid' = [valid EXCEPT ![p] = FALSE]
  /\ spte' = [spte EXCEPT ![p] = SwapSpte]
  /\ fte' = [fte EXCEPT ![p] = FALSE]
  /\ UNCHANGED <<stdfd, userfd, mmaps, dirty, rwu, mem, disk, fault, unmap>>

(* fileop::munmap (fileop.rs:248-286): an unknown mapid fails with       *)
(* BadMapid and a mapping whose fd is not open with FileNotOpened, both  *)
(* before any change; the file the fd names now is the one written.     *)
MunmapStart(m) ==
  /\ Idle /\ mmaps[m] # NoMap
  /\ mmaps[m].fd >= 3 /\ userfd[mmaps[m].fd] # NoFile
  /\ unmap' = [file |-> userfd[mmaps[m].fd], start |-> mmaps[m].start,
               pos |-> mmaps[m].start, end |-> mmaps[m].start + mmaps[m].len]
  /\ UNCHANGED <<stdfd, userfd, mmaps, valid, dirty, rwu, spte, fte, mem, disk, fault>>

(* One iteration of munmap's loop (269-283): a valid dirty page is       *)
(* written to the file at its offset in the range; the PTE is cleared    *)
(* and the SPT entry removed.  The loop ends with Ok(0); the mapid stays  *)
(* in the mmap table and the frame-table entry stays.                   *)
MunmapPage ==
  /\ unmap # NoUnmap
  /\ LET p == unmap.pos IN
     /\ disk' = IF valid[p] /\ dirty[p]
                  THEN [disk EXCEPT ![unmap.file][p - unmap.start] = mem[p]] ELSE disk
     /\ valid' = [valid EXCEPT ![p] = FALSE]
     /\ dirty' = [dirty EXCEPT ![p] = FALSE]
     /\ rwu' = [rwu EXCEPT ![p] = FALSE]
     /\ spte' = [spte EXCEPT ![p] = NoSpte]
     /\ unmap' = IF p + 1 = unmap.end THEN NoUnmap ELSE [unmap EXCEPT !.pos = p + 1]
  /\ UNCHANGED <<stdfd, userfd, mmaps, fte, mem, fault>>

Next ==
  \/ \E f \in Files : Open(f)
  \/ \E fd \in Fds : Close(fd)
  \/ \E fd \in Fds, a \in 0..MaxPage : MmapOk(fd, a)
  \/ \E p \in Pages : FaultMap(p) \/ Evict(p)
  \/ FaultRead \/ FaultFtMap \/ FaultDone
  \/ \E p \in Pages, v \in Vals : UserWrite(p, v)
  \/ \E m \in Mapids : MunmapStart(m)
  \/ MunmapPage

Spec == Init /\ [][Next]_vars

-----------------------------------------------------------------------------
(* Spec 8, invariant 1: a page is never both valid in the page table and *)
(* described by an SPT entry, except for the page demand_page is in the  *)
(* middle of (valid from demandpaging.rs:32 or 66, entry removed at 81). *)
(* It must survive eviction between any two steps of a fault or of      *)
(* munmap's loop, eviction of pages munmap has already cleared, and      *)
(* faults on pages re-mapped at a freed address.                         *)
ValidXorSpt == \A p \in Pages : p # fault.page => ~(valid[p] /\ spte[p] # NoSpte)
====
