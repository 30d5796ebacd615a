------------------------------- MODULE Paging -------------------------------
(***************************************************************************)
(* User virtual memory of Tacos on one preemptive CPU:                     *)
(*   - the frame table and its clock eviction  (src/mem/frametable.rs)     *)
(*   - the swap table                          (src/mem/swaptable.rs)      *)
(*   - the supplementary page table            (src/mem/suppagetable.rs)   *)
(*   - the user branch of the page-fault handler (src/trap/pagefault.rs),  *)
(*     demand paging (src/trap/demandpaging.rs) and stack growth           *)
(*     (src/trap/stackgrowth.rs)                                           *)
(*   - the frame-table part of process exit    (src/userproc.rs)           *)
(* Each process has one thread.  The fault handler re-enables interrupts   *)
(* (pagefault.rs:27) and blocks on swap and file I/O, so another thread    *)
(* may run between any two of its steps.  A step is one critical section  *)
(* of the code (under the frame-table lock, a page-table or SPT mutex, or  *)
(* with interrupts off) or one blocking I/O call.                          *)
(***************************************************************************)
EXTENDS Integers, Sequences, SequencesExt, FiniteSets, Functions

CONSTANTS
  Procs,      \* user processes, one thread each
  Frames,     \* the frames of the user pool
  NSlots,     \* swap slots: slot i is the page at offset i * PG_SIZE
  CodePages,  \* pages of ELF LOAD segments, installed as InFileLazyLoad
  StackTop,   \* the stack page init_user_stack maps at execute
  GrowPages,  \* stack pages between sp and the stack top, not yet mapped
  WildPages,  \* pages no mapping and no stack growth covers
  Vals,       \* the contents a page can have
  FileVal,    \* the content of a code page in the executable
  ArgVal,     \* what init_user_stack leaves in the top stack page
  NoThread,
  NoFrame

ASSUME NSlots \in Nat /\ Frames # {} /\ Procs # {}
ASSUME FileVal \in Vals /\ ArgVal \in Vals

VA    == CodePages \cup {StackTop} \cup GrowPages \cup WildPages
Slots == 0 .. NSlots - 1

(* SupPageEntry (suppagetable.rs:9); "none" is the absence of an entry and *)
(* "grow" the job of a fault that stack growth serves.                     *)
InSwap(s)      == [kind |-> "swap", slot |-> s]
InFileLazyLoad == [kind |-> "lazy", slot |-> -1]
NoSpte         == [kind |-> "none", slot |-> -1]
GrowJob        == [kind |-> "grow", slot |-> -1]

(* A leaf page-table entry: the frame it names and its V and A bits.  An  *)
(* entry never mapped reads as not valid.                                  *)
Pte(f, v, a) == [frame |-> f, v |-> v, a |-> a]
NoPte == Pte(NoFrame, FALSE, FALSE)

(* FrameTableEntry (frametable.rs:25): frame, owning thread, va, P flag.  *)
FteFlagSwapped(f, p, x, pinned) == [frame |-> f, owner |-> p, va |-> x, pinned |-> ~pinned]
Fte(f, p, x, pinned) == [frame |-> f, owner |-> p, va |-> x, pinned |-> pinned]

NoVictim == [idx |-> -1, owner |-> NoThread, va |-> NoFrame, frame |-> NoFrame, slot |-> -1]

VARIABLES
  pte,        \* pte[p][x]: p's leaf entry for page x
  spt,        \* spt[p][x]: p's supplementary page table entry for x
  ft,         \* the frame table vector
  head,       \* the clock hand HEAD (0-based, as in the code)
  ftLock,     \* holder of the frame-table mutex
  pool,       \* free frames of the user pool
  swapFree,   \* the swap table's free list (VecDeque of offsets)
  frameData,  \* content of each frame
  swapData,   \* content of each swap slot
  pc,         \* where each thread is
  fva,        \* the page a thread faulted on
  job,        \* the SPT entry demand_page acts on, or GrowJob
  hand,       \* the frame alloc_frame returned to a fault
  victim,     \* select_and_evict's victim while it is swapped out
  kpanic,     \* the message of a kernel panic, "" while none
  mem,        \* ghost: the content the process last stored in each page
  mapped      \* ghost: the pages of each process that hold data

vars == <<pte, spt, ft, head, ftLock, pool, swapFree, frameData, swapData,
          pc, fva, job, hand, victim, kpanic, mem, mapped>>

PCs == {"user", "fault", "alloc", "evict_swap", "evict_spt", "spin",
        "swap_read", "swap_map", "swap_ft", "swap_dealloc",
        "lazy_map", "lazy_pin", "lazy_read", "lazy_unpin",
        "grow_map", "grow_ft", "spt_remove", "kill", "dead", "panic"}

TypeOK ==
  /\ pte \in [Procs -> [VA -> [frame: Frames \cup {NoFrame}, v: BOOLEAN, a: BOOLEAN]]]
  /\ spt \in [Procs -> [VA -> {NoSpte, InFileLazyLoad} \cup {InSwap(s) : s \in Slots}]]
  /\ ft \in Seq([frame: Frames, owner: Procs, va: VA, pinned: BOOLEAN])
  /\ head \in Nat
  /\ ftLock \in Procs \cup {NoThread}
  /\ pool \subseteq Frames
  /\ swapFree \in Seq(Slots)
  /\ frameData \in [Frames -> Vals]
  /\ swapData \in [Slots -> Vals]
  /\ pc \in [Procs -> PCs]
  /\ fva \in [Procs -> VA \cup {NoFrame}]
  /\ job \in [Procs -> {NoSpte, InFileLazyLoad, GrowJob} \cup {InSwap(s) : s \in Slots}]
  /\ hand \in [Procs -> Frames \cup {NoFrame}]
  /\ victim \in [Procs -> [idx: -1 .. 64, owner: Procs \cup {NoThread},
                           va: VA \cup {NoFrame}, frame: Frames \cup {NoFrame},
                           slot: Slots \cup {-1}]]
  /\ kpanic \in STRING
  /\ mem \in [Procs -> [VA -> Vals]]
  /\ mapped \in [Procs -> SUBSET VA]

(* State after boot and one execute per process (userproc.rs:53-57, the  *)
(* page tables load_executable fills, and 83, the stack's entry): the     *)
(* code pages are InFileLazyLoad with an invalid PTE, the top stack page  *)
(* is resident in a frame of its own, recorded in the frame table in the  *)
(* order the processes were executed.                                     *)
Init ==
  \E stackFrame \in Injection(Procs, Frames), order \in SetToSeqs(Procs) :
    /\ pte = [p \in Procs |-> [x \in VA |->
                IF x = StackTop THEN Pte(stackFrame[p], TRUE, FALSE) ELSE NoPte]]
    /\ spt = [p \in Procs |-> [x \in VA |->
                IF x \in CodePages THEN InFileLazyLoad ELSE NoSpte]]
    /\ ft = [i \in 1 .. Len(order) |-> Fte(stackFrame[order[i]], order[i], StackTop, FALSE)]
    /\ head = 0
    /\ ftLock = NoThread
    /\ pool = Frames \ Range(stackFrame)
    /\ swapFree = [i \in 1 .. NSlots |-> i - 1]
    /\ frameData = [f \in Frames |-> ArgVal]
    /\ swapData = [s \in Slots |-> ArgVal]
    /\ pc = [p \in Procs |-> "user"]
    /\ fva = [p \in Procs |-> NoFrame]
    /\ job = [p \in Procs |-> NoSpte]
    /\ hand = [p \in Procs |-> NoFrame]
    /\ victim = [p \in Procs |-> NoVictim]
    /\ kpanic = ""
    /\ mem = [p \in Procs |-> [x \in VA |-> IF x \in CodePages THEN FileVal ELSE ArgVal]]
    /\ mapped = [p \in Procs |-> CodePages \cup {StackTop}]

-----------------------------------------------------------------------------
(* A thread that has not exited (nor stopped the kernel).                 *)
Live(p) == pc[p] \notin {"dead", "panic"}
LiveProcs == {p \in Procs : Live(p)}

(* The fault handler of p is between allocating a frame for x and         *)
(* removing x's SPT entry.                                                 *)
InFault(p, x) ==
  /\ fva[p] = x
  /\ pc[p] \in {"swap_read", "swap_map", "swap_ft", "swap_dealloc",
                "lazy_map", "lazy_pin", "lazy_read", "lazy_unpin",
                "grow_map", "grow_ft", "spt_remove"}

(* alloc_frame's caller continues by the kind of entry it serves.          *)
AfterAlloc(j) ==
  CASE j.kind = "swap" -> "swap_read"
    [] j.kind = "lazy" -> "lazy_map"
    [] j.kind = "grow" -> "grow_map"

-----------------------------------------------------------------------------
(* User code.  A load or store to a resident page sets its A bit (and a   *)
(* store changes the frame); to a non-resident page it traps.             *)

Load(p, x) ==
  /\ pc[p] = "user"
  /\ pte[p][x].v
  /\ pte' = [pte EXCEPT ![p][x].a = TRUE]
  /\ UNCHANGED <<spt, ft, head, ftLock, pool, swapFree, frameData, swapData,
                 pc, fva, job, hand, victim, kpanic, mem, mapped>>

Store(p, x, val) ==
  /\ pc[p] = "user"
  /\ pte[p][x].v
  /\ pte' = [pte EXCEPT ![p][x].a = TRUE]
  /\ frameData' = [frameData EXCEPT ![pte[p][x].frame] = val]
  /\ mem' = [mem EXCEPT ![p][x] = val]
  /\ UNCHANGED <<spt, ft, head, ftLock, pool, swapFree, swapData,
                 pc, fva, job, hand, victim, kpanic, mapped>>

Trap(p, x) ==
  /\ pc[p] = "user"
  /\ ~pte[p][x].v
  /\ pc' = [pc EXCEPT ![p] = "fault"]
  /\ fva' = [fva EXCEPT ![p] = x]
  /\ UNCHANGED <<pte, spt, ft, head, ftLock, pool, swapFree, frameData, swapData,
                 job, hand, victim, kpanic, mem, mapped>>

(* demand_page serves a fault when the SPT has an entry for the page     *)
(* (demandpaging.rs:17); every kind of entry is matched.                  *)
Demandable(e) == e.kind # "none"

(* pagefault::handler, user branch, and demand_page's SPT query: an entry *)
(* is served by demand paging; without one, user_stack_growth either      *)
(* grows the stack (the address is at or above sp, within the limit) or  *)
(* fails and the process exits with -1.                                   *)
HandleFault(p) ==
  /\ pc[p] = "fault"
  /\ LET e == spt[p][fva[p]] IN
       \/ /\ Demandable(e)
          /\ job' = [job EXCEPT ![p] = e]
          /\ pc' = [pc EXCEPT ![p] = "alloc"]
       \/ /\ ~Demandable(e)
          /\ fva[p] \in {StackTop} \cup GrowPages
          /\ job' = [job EXCEPT ![p] = GrowJob]
          /\ pc' = [pc EXCEPT ![p] = "alloc"]
       \/ /\ ~Demandable(e)
          /\ fva[p] \notin {StackTop} \cup GrowPages
          /\ pc' = [pc EXCEPT ![p] = "kill"]
          /\ UNCHANGED job
  /\ UNCHANGED <<pte, spt, ft, head, ftLock, pool, swapFree, frameData, swapData,
                 fva, hand, victim, kpanic, mem, mapped>>

-----------------------------------------------------------------------------
(* FrameTable::alloc_frame: a free frame of the user pool if there is one *)
AllocFromPool(p) ==
  /\ pc[p] = "alloc"
  /\ pool # {}
  /\ \E f \in pool :
       /\ pool' = pool \ {f}
       /\ hand' = [hand EXCEPT ![p] = f]
  /\ pc' = [pc EXCEPT ![p] = AfterAlloc(job[p])]
  /\ UNCHANGED <<pte, spt, ft, head, ftLock, swapFree, frameData, swapData,
                 fva, job, victim, kpanic, mem, mapped>>

(* The clock loop of select_and_evict from hand h over the vector s: skip *)
(* pinned entries, clear the A bit of used ones, stop at the first entry  *)
(* whose page is not accessed.  The result is the victim's index and the  *)
(* indices whose A bit the loop cleared (unset_used).  Only called when   *)
(* some entry is not pinned, which makes the loop stop.                   *)
(* FrameTableEntry::is_pinned (frametable.rs:40-42).                     *)
IsPinned(e) == e.pinned

(* FrameTableEntry::is_used (frametable.rs:44-48): the A bit of the       *)
(* entry's PTE, which an earlier unset_used of the same sweep on an entry *)
(* for the same page has cleared.                                          *)
IsUsed(s, cleared, e) ==
  /\ pte[e.owner][e.va].a
  /\ ~\E i \in cleared : s[i + 1].owner = e.owner /\ s[i + 1].va = e.va

RECURSIVE ClockSweep(_, _, _)
ClockSweep(s, h, cleared) ==
  LET e == s[h + 1]
  IN  IF IsPinned(e) THEN ClockSweep(s, (h + 1) % Len(s), cleared)
      ELSE IF IsUsed(s, cleared, e) THEN ClockSweep(s, (h + 1) % Len(s), cleared \cup {h})
      ELSE [victim |-> h, cleared |-> cleared]

(* FrameTableEntry::unset_used (frametable.rs:50-59): the PTE of page x  *)
(* of q remapped to the entry's frame f with its flags less A.            *)
UnsetUsed(f, q, x) == Pte(f, pte[q][x].v, FALSE)

(* The victim's PTE after frametable.rs:136-139: same frame, V cleared   *)
(* (A is already clear, or the loop would not have stopped at it).       *)
VictimPteClearA(e) == Pte(e.frame, TRUE, FALSE)
VictimPte(e) == Pte(e.frame, FALSE, FALSE)

(* select_and_evict from taking the frame-table lock to clearing V on    *)
(* the victim's PTE (frametable.rs:118-140), one step: no other frame-    *)
(* table operation can run while the lock is held.  A user access of     *)
(* another process during the sweep could still set an A bit the sweep   *)
(* has read; the model does not take that interleaving, which only      *)
(* changes which unpinned entry becomes the victim.  unset_used and the  *)
(* victim's remap both rewrite the PTE with the entry's frame and the    *)
(* PTE's current flags.                                                  *)
EvictSelect(p) ==
  /\ pc[p] = "alloc"
  /\ pool = {}
  /\ ftLock = NoThread
  /\ LET h0 == IF head > Len(ft) THEN 0 ELSE head IN
       IF h0 >= Len(ft) THEN
         \* ft[HEAD] with HEAD = ft.len()
         /\ kpanic' = "index out of bounds"
         /\ pc' = [pc EXCEPT ![p] = "panic"]
         /\ UNCHANGED <<pte, head, ftLock, victim>>
       ELSE IF \A i \in 1 .. Len(ft) : ft[i].pinned THEN
         \* the loop skips pinned entries forever, holding the lock
         /\ ftLock' = p
         /\ head' = h0
         /\ pc' = [pc EXCEPT ![p] = "spin"]
         /\ UNCHANGED <<pte, victim, kpanic>>
       ELSE
         LET r == ClockSweep(ft, h0, {})
             e == ft[r.victim + 1]
             Cleared(q, x) == {i \in r.cleared : ft[i + 1].owner = q /\ ft[i + 1].va = x}
         IN /\ pte' = [q \in Procs |-> [x \in VA |->
                         IF q = e.owner /\ x = e.va
                         THEN VictimPte(e)
                         ELSE IF Cleared(q, x) # {}
                         THEN UnsetUsed(ft[(CHOOSE i \in Cleared(q, x) : TRUE) + 1].frame, q, x)
                         ELSE pte[q][x]]]
            /\ head' = r.victim
            /\ ftLock' = p
            /\ victim' = [victim EXCEPT ![p] =
                            [idx |-> r.victim, owner |-> e.owner, va |-> e.va,
                             frame |-> e.frame, slot |-> -1]]
            /\ pc' = [pc EXCEPT ![p] = "evict_swap"]
            /\ UNCHANGED kpanic
  /\ UNCHANGED <<spt, ft, pool, swapFree, frameData, swapData,
                 fva, job, hand, mem, mapped>>

(* SwapTable::alloc (swaptable.rs:29-35): the free list after pop_front. *)
PopFrontPeek(q) == q
PopFront(q) == Tail(q)

(* write_to_swap: SwapTable::alloc pops the front slot, or panics when    *)
(* the free list is empty; the frame is then written to the slot.         *)
EvictSwap(p) ==
  /\ pc[p] = "evict_swap"
  /\ IF swapFree = <<>> THEN
       /\ kpanic' = "run out of swap"
       /\ pc' = [pc EXCEPT ![p] = "panic"]
       /\ UNCHANGED <<swapFree, swapData, victim>>
     ELSE
       LET s == Head(swapFree) IN
       /\ swapFree' = PopFront(swapFree)
       /\ swapData' = [swapData EXCEPT ![s] = frameData[victim[p].frame]]
       /\ victim' = [victim EXCEPT ![p].slot = s]
       /\ pc' = [pc EXCEPT ![p] = "evict_spt"]
       /\ UNCHANGED kpanic
  /\ UNCHANGED <<pte, spt, ft, head, ftLock, pool, frameData,
                 fva, job, hand, mem, mapped>>

(* SupPageTable::map_in_swap on the victim's owner (frametable.rs:142,    *)
(* suppagetable.rs:22-24).                                               *)
MapInSwapDropped(e) == spt
MapInSwap(e) == [spt EXCEPT ![e.owner][e.va] = InSwap(e.slot)]

(* The hand after removing entry idx from a vector of length len          *)
(* (frametable.rs:144-145).                                               *)
NextHead(idx, len) == idx % (len - 1)

(* map_in_swap into the owner's SPT, then remove the entry and move the   *)
(* hand with HEAD % (ft.len() - 1), which divides by zero when the victim *)
(* is the only entry.  The lock is released and the frame returned.      *)
EvictFinish(p) ==
  /\ pc[p] = "evict_spt"
  /\ LET e == victim[p] IN
     /\ spt' = MapInSwap(e)
     /\ IF Len(ft) = 1 THEN
          /\ kpanic' = "attempt to calculate the remainder with a divisor of zero"
          /\ pc' = [pc EXCEPT ![p] = "panic"]
          /\ UNCHANGED <<ft, head, ftLock, hand, victim>>
        ELSE
          /\ ft' = RemoveAt(ft, e.idx + 1)
          /\ head' = NextHead(e.idx, Len(ft))
          /\ ftLock' = NoThread
          /\ hand' = [hand EXCEPT ![p] = e.frame]
          /\ victim' = [victim EXCEPT ![p] = NoVictim]
          /\ pc' = [pc EXCEPT ![p] = AfterAlloc(job[p])]
          /\ UNCHANGED kpanic
  /\ UNCHANGED <<pte, pool, swapFree, frameData, swapData, fva, job, mem, mapped>>

-----------------------------------------------------------------------------
(* demand_page, InSwap(offset) (demandpaging.rs:19-37): read the slot into *)
(* the frame, install the PTE with V and its previous flags, record an    *)
(* unpinned frame-table entry, free the slot; the SPT entry goes last      *)
(* (demandpaging.rs:81).                                                   *)
(* The page read back from swap offset s (demandpaging.rs:23-27).        *)
SwapPageNoSeek(s) == swapData[0]
SwapPage(s) == swapData[s]

SwapRead(p) ==
  /\ pc[p] = "swap_read"
  /\ frameData' = [frameData EXCEPT ![hand[p]] = SwapPage(job[p].slot)]
  /\ pc' = [pc EXCEPT ![p] = "swap_map"]
  /\ UNCHANGED <<pte, spt, ft, head, ftLock, pool, swapFree, swapData,
                 fva, job, hand, victim, kpanic, mem, mapped>>

SwapMap(p) ==
  /\ pc[p] = "swap_map"
  /\ pte' = [pte EXCEPT ![p][fva[p]] = Pte(hand[p], TRUE, @.a)]
  /\ pc' = [pc EXCEPT ![p] = "swap_ft"]
  /\ UNCHANGED <<spt, ft, head, ftLock, pool, swapFree, frameData, swapData,
                 fva, job, hand, victim, kpanic, mem, mapped>>

(* FrameTable::map (frametable.rs:70-80): push an entry under the lock.   *)
FtPush(p, pinned, next) ==
  /\ ftLock = NoThread
  /\ ft' = Append(ft, Fte(hand[p], p, fva[p], pinned))
  /\ pc' = [pc EXCEPT ![p] = next]
  /\ UNCHANGED <<pte, spt, head, ftLock, pool, swapFree, frameData, swapData,
                 fva, job, hand, victim, kpanic, mem, mapped>>

SwapFt(p) == pc[p] = "swap_ft" /\ FtPush(p, FALSE, "swap_dealloc")

SwapDealloc(p) ==
  /\ pc[p] = "swap_dealloc"
  /\ swapFree' = Append(swapFree, job[p].slot)
  /\ pc' = [pc EXCEPT ![p] = "spt_remove"]
  /\ UNCHANGED <<pte, spt, ft, head, ftLock, pool, frameData, swapData,
                 fva, job, hand, victim, kpanic, mem, mapped>>

(* demand_page, InFileLazyLoad (demandpaging.rs:38-58): install the PTE   *)
(* valid, push a pinned entry, read the file into the frame, then push a  *)
(* second, unpinned entry for the same frame; the pinned one stays.       *)
LazyMap(p) ==
  /\ pc[p] = "lazy_map"
  /\ pte' = [pte EXCEPT ![p][fva[p]] = Pte(hand[p], TRUE, @.a)]
  /\ pc' = [pc EXCEPT ![p] = "lazy_pin"]
  /\ UNCHANGED <<spt, ft, head, ftLock, pool, swapFree, frameData, swapData,
                 fva, job, hand, victim, kpanic, mem, mapped>>

LazyPin(p) == pc[p] = "lazy_pin" /\ FtPush(p, TRUE, "lazy_read")

LazyRead(p) ==
  /\ pc[p] = "lazy_read"
  /\ frameData' = [frameData EXCEPT ![hand[p]] = FileVal]
  /\ pc' = [pc EXCEPT ![p] = "lazy_unpin"]
  /\ UNCHANGED <<pte, spt, ft, head, ftLock, pool, swapFree, swapData,
                 fva, job, hand, victim, kpanic, mem, mapped>>

LazyUnpin(p) == pc[p] = "lazy_unpin" /\ FtPush(p, FALSE, "spt_remove")

(* demandpaging.rs:81: suppt.remove(va); the handler returns to the user. *)
SptRemove(p) ==
  /\ pc[p] = "spt_remove"
  /\ spt' = [spt EXCEPT ![p][fva[p]] = NoSpte]
  /\ pc' = [pc EXCEPT ![p] = "user"]
  /\ hand' = [hand EXCEPT ![p] = NoFrame]
  /\ job' = [job EXCEPT ![p] = NoSpte]
  /\ UNCHANGED <<pte, ft, head, ftLock, pool, swapFree, frameData, swapData,
                 fva, victim, kpanic, mem, mapped>>

(* user_stack_growth after alloc_frame (stackgrowth.rs:26-32): map the   *)
(* frame V|R|W|U as it is (it is not cleared); GrowFt then records an    *)
(* unpinned entry (33-38).  The address checks at 16-23 are HandleFault's *)
(* choice between growable and wild pages.  A page that never held data  *)
(* takes the frame's content as its own.                                  *)
GrowMap(p) ==
  /\ pc[p] = "grow_map"
  /\ pte' = [pte EXCEPT ![p][fva[p]] = Pte(hand[p], TRUE, FALSE)]
  /\ IF fva[p] \in mapped[p] THEN UNCHANGED <<mem, mapped>>
     ELSE /\ mem' = [mem EXCEPT ![p][fva[p]] = frameData[hand[p]]]
          /\ mapped' = [mapped EXCEPT ![p] = @ \cup {fva[p]}]
  /\ pc' = [pc EXCEPT ![p] = "grow_ft"]
  /\ UNCHANGED <<spt, ft, head, ftLock, pool, swapFree, frameData, swapData,
                 fva, job, hand, victim, kpanic>>

GrowFt(p) ==
  /\ pc[p] = "grow_ft"
  /\ FtPush(p, FALSE, "user")

(* userproc::exit (userproc.rs:93-99), by the exit syscall or after a     *)
(* failed fault: with interrupts off, FrameTable::cleanup drops every     *)
(* entry of the thread, and dropping the thread destroys its page table,  *)
(* which frees the frames it maps (Drop for Thread, imp.rs:170-183).  The SPT is dropped  *)
(* with the thread: its swap slots are not returned to the swap table.    *)
(* The frames PageTable::destroy returns to the user pool: those of the  *)
(* valid leaf entries.                                                    *)
FreedFramesAllLeaves(p) == {pte[p][x].frame : x \in VA}
FreedFrames(p) == {pte[p][x].frame : x \in {y \in VA : pte[p][y].v}}

(* FrameTable::cleanup (frametable.rs:82-88): drop the entries of p.     *)
Cleanup(p) == SelectSeq(ft, LAMBDA e : e.owner # p)

Exit(p) ==
  /\ pc[p] \in {"user", "kill"}
  /\ ftLock = NoThread
  /\ ft' = Cleanup(p)
  /\ pool' = pool \cup FreedFrames(p)
  /\ pc' = [pc EXCEPT ![p] = "dead"]
  /\ UNCHANGED <<pte, spt, head, ftLock, swapFree, frameData, swapData,
                 fva, job, hand, victim, kpanic, mem, mapped>>

(* Once every process has exited the kernel idles.  A panic halts it.    *)
(* Running out of swap is the one panic the design allows (spec 4.A), so *)
(* it stutters; after any other panic no step is possible.               *)
Idle ==
  /\ \A p \in Procs : pc[p] = "dead"
  /\ UNCHANGED vars

OutOfSwap ==
  /\ kpanic = "run out of swap"
  /\ UNCHANGED vars

Next ==
  \/ /\ kpanic = ""
     /\ \/ \E p \in Procs :
          \/ \E x \in VA : Load(p, x) \/ Trap(p, x) \/ \E val \in Vals : Store(p, x, val)
          \/ HandleFault(p)
          \/ AllocFromPool(p) \/ EvictSelect(p) \/ EvictSwap(p) \/ EvictFinish(p)
          \/ SwapRead(p) \/ SwapMap(p) \/ SwapFt(p) \/ SwapDealloc(p)
          \/ LazyMap(p) \/ LazyPin(p) \/ LazyRead(p) \/ LazyUnpin(p)
          \/ GrowMap(p) \/ GrowFt(p) \/ SptRemove(p)
          \/ Exit(p)
        \/ Idle
  \/ OutOfSwap

(* The kernel side of p's fault: every step of the handler, and the exit *)
(* of a process the handler has killed.                                  *)
Handler(p) ==
  \/ HandleFault(p)
  \/ AllocFromPool(p) \/ EvictSelect(p) \/ EvictSwap(p) \/ EvictFinish(p)
  \/ SwapRead(p) \/ SwapMap(p) \/ SwapFt(p) \/ SwapDealloc(p)
  \/ LazyMap(p) \/ LazyPin(p) \/ LazyRead(p) \/ LazyUnpin(p)
  \/ GrowMap(p) \/ GrowFt(p) \/ SptRemove(p)
  \/ pc[p] = "kill" /\ Exit(p)

(* The timer keeps switching among the threads, so a thread in its fault *)
(* handler keeps running until it returns.  User code, and when it calls *)
(* exit, are not assumed to make progress.                               *)
Fairness == \A p \in Procs : WF_vars(Handler(p))

Spec == Init /\ [][Next]_vars /\ Fairness

-----------------------------------------------------------------------------
(* Frames a fault handler holds: allocated and not yet installed, or the  *)
(* victim select_and_evict has unmapped and not yet returned.             *)
HeldBy(f) ==
  {p \in Procs : \/ pc[p] \in {"swap_read", "lazy_map", "grow_map"} /\ hand[p] = f
                 \/ pc[p] \in {"evict_swap", "evict_spt"} /\ victim[p].frame = f}

ResidentAt(f) == {pr \in LiveProcs \X VA : pte[pr[1]][pr[2]].v /\ pte[pr[1]][pr[2]].frame = f}

(* Frame ownership (spec 9, "each resident user frame is uniquely owned"):*)
(* no frame is at once free, held by a fault handler, or mapped valid by  *)
(* a live process, and no two valid PTEs share a frame.  Eviction must    *)
(* clear V before the frame is reused; exit must free only what it maps. *)
FrameExclusive ==
  \A f \in Frames :
    Cardinality(ResidentAt(f)) + Cardinality(HeldBy(f)) + (IF f \in pool THEN 1 ELSE 0) <= 1

(* The number of places that hold swap slot s: the free list, the         *)
(* InSwap entries of live processes (an entry whose slot the fault has   *)
(* already freed and is about to remove is not counted), and an eviction *)
(* that has written s but not yet recorded it.                           *)
SwapRefs(s) ==
  Len(SelectSeq(swapFree, LAMBDA t : t = s))
  + Cardinality({pr \in LiveProcs \X VA :
                   /\ spt[pr[1]][pr[2]] = InSwap(s)
                   /\ ~(pc[pr[1]] = "spt_remove" /\ fva[pr[1]] = pr[2])})
  + Cardinality({q \in Procs : pc[q] = "evict_spt" /\ victim[q].slot = s})

(* No swap slot is handed out twice: it is free, backs one page, or is   *)
(* being written by one eviction, never two of these at once.            *)
SwapNoAlias == \A s \in Slots : SwapRefs(s) <= 1

(* Swap slots are partitioned (spec 8, invariant 3): every slot is in    *)
(* exactly one of the places above; none is lost.                        *)
SwapConservation == \A s \in Slots : SwapRefs(s) = 1

(* Round trip (spec 8, "Evict -> Fault restores the contents"): whenever *)
(* a page of a live process that holds data is resident, its frame holds *)
(* what the process last stored there, and whenever it is in swap, its   *)
(* slot does.  Pages in the middle of their own fault are exempt.        *)
ContentIntegrity ==
  \A p \in LiveProcs, x \in VA :
    (x \in mapped[p] /\ ~InFault(p, x)) =>
      /\ pte[p][x].v => frameData[pte[p][x].frame] = mem[p][x]
      /\ spt[p][x].kind = "swap" => swapData[spt[p][x].slot] = mem[p][x]

(* A page that holds data is always somewhere: resident, described by an *)
(* SPT entry, being faulted in, or being evicted.                        *)
PageAccounted ==
  \A p \in LiveProcs, x \in VA :
    x \in mapped[p] =>
      \/ pte[p][x].v
      \/ spt[p][x].kind # "none"
      \/ InFault(p, x)
      \/ \E q \in Procs : /\ pc[q] \in {"evict_swap", "evict_spt"}
                          /\ victim[q].owner = p /\ victim[q].va = x

(* A fault kills the process (pagefault.rs:79-97) only at a page that    *)
(* never held data: a mapped page is never reported as a bad pointer.    *)
NoSpuriousKill == \A p \in Procs : pc[p] = "kill" => fva[p] \notin mapped[p]

(* Spec 8, invariant 2: every frame-table entry names a live thread whose *)
(* PTE maps the entry's frame valid, unless the entry is pinned while its *)
(* page is read in, or is the victim of an eviction in progress.         *)
FteConsistent ==
  \A i \in 1 .. Len(ft) :
    LET e == ft[i] IN
      \/ Live(e.owner) /\ pte[e.owner][e.va].v /\ pte[e.owner][e.va].frame = e.frame
      \/ e.pinned /\ InFault(e.owner, e.va)
      \/ \E q \in Procs : pc[q] \in {"evict_swap", "evict_spt"} /\ victim[q].idx = i - 1

(* The frame table never panics on its own account (an index out of     *)
(* bounds or a remainder by zero in select_and_evict) and the clock loop *)
(* never spins: alloc_frame only fails when swap is full (spec 4.A).     *)
KernelAlive == kpanic \in {"", "run out of swap"} /\ \A p \in Procs : pc[p] # "spin"

(* Every page fault is resolved: the handler returns to user code, or    *)
(* the process is killed and exits, unless the kernel panics.  The clock *)
(* of select_and_evict, the frame-table lock and the steps of demand     *)
(* paging never leave a faulting thread stuck.                           *)
FaultsResolve ==
  \A p \in Procs : pc[p] = "fault" ~> (pc[p] \in {"user", "dead"} \/ kpanic # "")
=============================================================================
