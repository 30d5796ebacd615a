# TLA+ models of Tacos

These are TLA+ models of the Tacos teaching kernel (Rust, RISC-V, one CPU),
checked with TLC. Each module is translated from the code under `src/`.
`PROJECT.json` gives, for every definition, the source lines it models
(`map`). It also lists the runs, the mutants that show each checked property
can fail, the findings, and the hazards the code is exposed to.

## The system and how its parts interact

Tacos runs kernel threads and user processes (one thread each) on a single
preemptive CPU. The timer interrupt may switch threads wherever interrupts are
on. The page-fault handler turns interrupts back on (`pagefault.rs:27`) and
blocks on swap and file I/O.

- **Scheduling and synchronisation.** The scheduler is a priority ready queue
  (`thread/scheduler/priority*`). The primitives are semaphores (`sync/sema.rs`),
  sleep locks with priority donation (`sync/sleep.rs`, `donate.rs`) and a
  condition variable (`sync/condvar.rs`). The alarm clock (`thread/alarm.rs`)
  implements `thread::sleep`.
- **User memory.** Each process has a page table and a supplementary page table
  (SPT, `mem/suppagetable.rs`). A global frame table (`mem/frametable.rs`)
  evicts frames to a swap table (`mem/swaptable.rs`) with a clock algorithm.
  Page faults are served by `trap/demandpaging.rs` and `trap/stackgrowth.rs`.
- **System calls.** `trap/syscall.rs` dispatches them. Before `read` and
  `write` touch a user buffer, `check_buf_writable` and `check_buf_readable`
  (`mem/userbuf.rs`) probe one byte per page through helpers whose faults
  the kernel branch of the page-fault handler turns into errors.
- **Processes.** `userproc.rs` handles execute and exit; execute loads the
  executable through `userproc/load.rs`, which installs each ELF LOAD segment
  as lazy pages and copies argv onto the first stack page. The WaitManager
  (`userproc/wait.rs`) handles wait. Files are accessed through the fd and mmap
  tables (`userproc/fileop*`).

These parts interact in four places:
- Eviction by one process rewrites another process's PTE and SPT entry.
- munmap tears down pages the frame table still tracks.
- The timer's alarm tick races the thread that is going to sleep.
- The WaitManager is a mutex-protected map read by parent and child threads.

`Manager::schedule`, the timer handler and the page table are not under
`src/`. Where a model needs them, they follow the spec (section 4.G and 5):
- A running thread that is not Blocked or Dying goes back to the queue.
- Then the first thread in the queue runs, or the idle thread if the queue is
  empty.

The definitions that model them are marked `spec_modelled` in the map.

## Modules

| Module | Models | State | Actions |
|---|---|---|---|
| `Paging` | frame table, clock eviction, swap table, SPT, user page-fault path, stack growth, exit's frame release | PTEs and SPT entries per process and page, the frame-table vector, `HEAD`, the frame-table lock, free frames, the swap free list, frame and slot contents, each thread's pc | one action per critical section: `Trap`, `HandleFault`, `AllocFromPool`, `EvictSelect`, `EvictSwap`, `EvictFinish`, the `Swap*`, `Lazy*` and `Grow*` steps of demand paging, `SptRemove`, `Exit`, user `Load`/`Store` |
| `PrioritySync` | semaphores, sleep locks, donation chains, priority ready queue, `set_priority`, `wake_up`, spawn | base and effective priorities, donation edges, lock holders, semaphore waiters, the ready queue, each thread's script position | `AcquireBegin`, `DownBlock`, `Take`, `Resume`, `Release`, `SetPriority`, `Spawn`, `Exit`, `Preempt`, `Idle` |
| `Condvar` | `Condvar::wait`, `notify_one`, `notify_all` over a sleep lock and per-wait slot semaphores, in both builds (FIFO and `thread-scheduler-priority`) | lock holder, value and waiters, the flag, the condvar queue, each slot's value and waiter, the pc | waiter steps `WAcquire`, `WCheck`, `WPush`, `WRelease`, `WDown`, `WUnlock`; notifier steps `NAcquire`, `NSet`, `NNotify`, `NUnlock` |
| `Alarm` | `thread::sleep`, `Alarm::register`, `Alarm::tick`, the timer preemption | thread status, current thread, ready queue, alarm entries, pc, and a ghost count of the ticks since each thread registered | `SleepBlock`, `SleepRegister`, `SleepSchedule`, `Exit`, `Tick` |
| `WaitManager` | execute's failure, spawn and register, `wait`, exit's `clean_up` and `WaitManager::exit`; `EXTENDS ExecLoad`. An exec call chooses its executable's LOAD header and its argv from sets the script gives, and fails exactly when `init_user_stack` rejects the argv | process status, parent map, exit records with their semaphores, wait results, the segment header and argv each exec loaded | `ExecFail`, `ExecSpawn`, `ExecRegister`, `WaitCheck`, `WaitDown`, `WaitCollect`, `Exit` |
| `ExecLoad` | `load_segment` and `init_user_stack` (`userproc/load.rs`) as pure operators following their loops (`SegmentLoop`, `PushStrings`, `PushWords`), with `PG_SIZE` a constant | none (constants only) | none. The reference definitions `SegmentLaidOut` and `ArgvLaidOut` state what a correct load is; `WaitManager`'s `SegmentLoadsFile` and `ArgvLayout` apply them to every load that happened |
| `UserBuf` | `SYS_READ` and `SYS_WRITE` up to the buffer handed to `fileop`, `check_buf_readable`, `check_buf_writable`, `read_user_byte`, `write_user_byte`, the kernel branch of the fault handler | the build (overflow checks or not), the call's kind, start and length, the loop variable `va`, the result | `Syscall`, `CheckByte`, `BoundPanics`, `CheckDone`, `Return` |
| `SleepLock` | what a sleep lock promises, with no semaphore, scheduler or donation: the abstract specification `PrioritySync` refines | the owner of each lock, the lock each thread waits for | `TakeFree`, `StartWait`, `TakeWaited`, `Give` |
| `CondvarMonitor` | what a Condvar with its Sleep lock promises, as the header of `condvar.rs` describes it: the abstract specification `Condvar` refines | the lock's owner, the queue of waiters not yet signalled, the signalled waiters, the condition | `MonAcquire`, `MonSet`, `MonWait`, `MonNotifyOne`, `MonNotifyAll`, `MonReacquire`, `MonRelease` |
| `FileMap` | fd table, mmap table, `open`, `close`, `mmap`, `munmap`, the faults and evictions of mapped pages | fds, mmaps, PTE V/D/RWU bits, SPT entries, frame-table membership, page and file contents, the step `demand_page` is at and the SPT entry it queried, the position of munmap's loop | `Open`, `Close`, `MmapOk`, the fault steps `FaultMap`, `FaultRead`, `FaultFtMap`, `FaultDone`, `UserWrite`, `Evict`, `MunmapStart`, one `MunmapPage` per iteration of munmap's loop |

Each module has an `MC<Module>.tla` that declares model values and small
definitions (scripts, symmetry sets) for TLC.

### How actions are cut

One action is one stretch of code that no other thread can interleave with. Such
a stretch is one of:
- an interrupts-off section;
- a section under the frame-table lock, a page-table or SPT mutex, or a
  `RefCell` borrow;
- one blocking I/O call.

A whole handler is split only where the code lets another thread run. Helpers
that return a result are separate operators (for example `ClockSweep`,
`NextHead`, the frame-table entry helpers `IsPinned`, `IsUsed`, `UnsetUsed` and `Cleanup`, `PopFront`, `SlotUp`, `NotifyAllUp`, `AlarmTick`, `CleanUp`,
`RecordExit`). Mutants replace them with a plausible wrong
version.

### Abstractions

- **Data.** Page contents are drawn from a small set `Vals`. Addresses are page
  numbers. A file is a function from page offsets to values. Threads, frames,
  locks and files are model values.
- **Paging addresses.** Stack-growth address arithmetic (the limit
  `0x80500000` and the comparison with sp) is abstracted to a set `GrowPages`
  of pages it accepts and a set `WildPages` of pages it rejects.
- **usize.** `UserBuf` computes addresses as `AddrBits`-bit unsigned
  integers (6 bits, pages of 8 bytes, kernel space from 32). An addition
  that overflows wraps in a release build and panics in a build with
  overflow checks. The build is not in the repository, so `Init` chooses it.
  The user pages the fault handler can bring in are fixed sets, `Mapped`
  and `Writable`.
- **Processes.** The ELF load is abstracted into `Paging`'s `Init`: code pages
  start as InFileLazyLoad, and the top stack page starts resident.
- **Equal priorities.** `Condvar` and `WaitManager` run all threads at one
  priority. Then the code itself never changes an effective priority through
  donation, every semaphore wakes its oldest waiter, and any ready thread may
  run next. The model includes every such schedule.
- **Frame-table entries in `FileMap`.** `FileMap` records only whether a page
  has an unpinned frame-table entry, the only kind the clock evicts. The
  clock's choice of victim is left to the environment, which may evict such
  a page between any two steps of the process. The pinned duplicate that
  `demand_page` pushes at `demandpaging.rs:69` is never evicted and is left
  to `Paging`, which models it. The process has one thread, so while a
  fault or munmap is under way (`Idle` is false) it takes no other step.
- **munmap's loop in `FileMap`.** One `MunmapPage` is one iteration
  (`fileop.rs:268-283`): the dirty check, the write, the PTE clear and the
  SPT remove. An eviction inside an iteration is not modelled: between the
  check and the write it would make the kernel fault on the user address it
  copies from, and kernel-mode faults on user pages are modelled only in
  `UserBuf`.

## Runs

| Run | Expect | Checks | What it shows |
|---|---|---|---|
| `PagingSeq` | pass | `TypeOK`, `ContentIntegrity`, `PageAccounted`, `FaultsResolve` | One process, two frames, three swap slots, a code page, a growable and a wild page, values {0,1}. Eviction to swap and back preserves content. A page is never lost. Every fault ends: the handler returns to user code or the process exits. |
| `PagingConc` | pass | `FrameExclusive`, `SwapNoAlias` | Two processes share three frames and two swap slots. A frame backs at most one valid page and is never both free and in use. No slot is handed out twice. |
| `PagingRaceLost` | violation | `PageAccounted` | Eviction between demand_page's `FrameTable::map` and its `suppt.remove` (`demandpaging.rs:81`): the remove deletes the InSwap entry the eviction just wrote, and the page is gone. |
| `PrioRace` | pass | `TypeOK`, `EffIsDonorMax`, `HighestRuns`, `MutualExclusion`, `AcquireCompletes`, `ImplementsSleepLock` | Four threads, two locks, priorities 1..3, donation chains of two hops. Every effective priority is the maximum of the thread's own and its donors'. The lock is exclusive, and the running thread has the highest ready effective priority. Every acquire eventually completes. The sleep locks implement `SleepLock` (see Refinement). |
| `CvPass` | pass | `TypeOK`, `SlotReachable`, `AllWaitersReturn` | FIFO build, two waiters, one notifier calling `notify_one` and one calling `notify_all`. A waiter at `down` can always still be woken, and every waiter returns. |
| `CvPrioPanic` | violation | `NoPanic` | Priority build: `notify_one` while a waiter has pushed its slot but not reached `down` unwraps `front_waiter()` on an empty semaphore and panics (`condvar.rs:79-81`). |
| `AlarmPass` | pass | `TypeOK`, `AlarmEntriesBlocked`, `NoEarlyWake`, `RegisteredWakes` | Three threads sleep for 0, 1 or 2 ticks, so a tick can expire one entry while it decrements others. Every alarm entry belongs to a Blocked, unqueued thread, appears once, and holds a count between 1 and the requested ticks. No sleeper is woken before as many ticks as it asked for have fired since it registered (a ghost counter, `elapsed`, counts them). Every registered sleeper is woken. |
| `AlarmLostWake` | violation | `SleepersFinish` | A tick after `set_status(Blocked)` and before `register` (`thread.rs:116-117`) switches away from a thread nobody will wake. |
| `WaitPass` | pass | `TypeOK`, `WaitSemantics`, `NoRecordLeak`, `SegmentLoadsFile`, `ArgvLayout` | Scripts that take every branch of wait, exit and clean_up, and an execute that fails because its argv overflows the stack page. wait returns a direct child's exit status exactly once and None otherwise, also for the tid of the failed execute. No record outlives the processes. `load_segment` maps exactly the pages of each well-formed segment, and every byte comes from the right file offset or is zero. `init_user_stack` fails exactly when the strings overflow the page, and where the pointer block fits, argv points at intact copies. |
| `WaitLostStatus` | violation | `WaitCompletes` | The child runs between `spawn` and `WaitManager::register` (`userproc.rs:81-85`) and exits unrecorded. The parent's later wait blocks forever. |
| `UserBufWrap` | violation | `AcceptedBufferIsUser` | `read` with start 4 and length 60 in a 6-bit address space: `start + len` overflows. In a release build the sum wraps to 0, the loop at `userbuf.rs:126` never runs, and the buffer is accepted although it covers page 0, which is not mapped, and all of kernel space. With overflow checks the same call panics the kernel. The comment at `userbuf.rs:114-116` says every address from start to start + len is checked. |
| `FileMapPass` | pass | `TypeOK`, `ValidXorSpt` | Two files of one page, two user fds, two mapids, a two-page region, values {0,1}. No page other than the one `demand_page` is in the middle of is both valid and in the SPT (spec section 8, invariant 1). The run takes eviction between any two steps of a fault or of munmap's loop, eviction of a page munmap has cleared (its frame-table entry survives munmap), a fault on a range mapped again at a freed address, and close and re-open of a fd before munmap. |

Each violation run's trace is the finding recorded in `PROJECT.json`. The
findings are all reachable with the code as written.

### Bounds

- **Paging.** Two processes and three frames are the fewest that let one
  process evict another's frame while that process faults. Two frames with one
  process is the fewest that forces eviction of its own pages.
- **PrioritySync.** Three priority levels are enough for a strict ordering
  among three competing threads and for ties. Two locks are enough for a
  donation chain.
- **Condvar.** Two waiters and two notifiers let a notifier run inside a
  waiter's push, release and down window, and let each waiter be woken by
  either kind of notification. Two waiters queued at once are enough to tell
  FIFO from LIFO wake order for the monitor refinement.
- **Alarm.** Naps 0, 1 and 2 cover the early return, expiry on the first tick,
  and survival of one tick. `AlarmPass` runs three threads, so the alarm list
  holds up to three entries and one tick both removes some and decrements
  others. `AlarmLostWake` needs only two threads.
- **WaitManager.** Four processes include a grandchild, a non-child wait, a
  double wait, an exit before registration, and a failed execute followed by a
  successful one of the same child.
- **ExecLoad.** `PG_SIZE` is 64, the smallest page that holds three argv
  pointers with their strings. `InitSp` is 1024 instead of `0x80500000`,
  which TLC's 32-bit integers cannot hold; only differences of addresses
  matter. In `WaitPass`, r's second execute of c2 may take any of the 21
  headers and 11 argument vectors of `MCWaitManager`:
  - the headers have a page offset of 0, 1 or 63, with file and memory sizes
    that end just before, at or just after a page boundary;
  - the argument vectors include two that need 65 bytes and are rejected,
    three that fill the page exactly, and one whose pointer block ends
    exactly at the bottom of the page.
  `WaitLostStatus` gives that execute one fixed input: its liveness check
  does not need the others, and it would slow that check down a
  hundredfold.
- **UserBuf.** The starts are 0, an unmapped page, a mapped page, the last
  user page and the last bytes below kernel space. The lengths are 0, one
  byte, less than a page, two pages and one that overflows. Together they
  reach every exit of the loop.
- **FileMap.** Two mapids and two fds are the fewest for re-mapping an address
  and for re-opening a fd on another file.

### Fairness

| Module | Fairness | Why the code justifies it |
|---|---|---|
| `PrioritySync` | weak fairness on the running thread's step | The highest-priority thread runs until it blocks. |
| `Condvar`, `WaitManager` | weak fairness per thread | The timer preempts at every tick and all threads share one priority, so every ready thread keeps getting the CPU. |
| `Alarm` | weak fairness on `Tick`, strong fairness per thread | The timer is periodic. Its period is far longer than one step, so a thread the timer keeps scheduling makes progress. |

| `Paging` | weak fairness on each process's fault-handler steps, including the exit of a killed process | The handler runs in the kernel. The timer keeps switching threads, so a thread in the handler keeps getting the CPU until it returns. User code is not assumed to progress. |

`FileMap` and `UserBuf` check only safety. `FaultsResolve` is checked with one process only. The two-process configuration uses a symmetry set, and TLC's symmetry reduction is unsound for liveness. Without symmetry that configuration grows past 3 million states.

### Refinement

`SleepLock` states what a caller of `Sleep::acquire` and `release` may rely
on:
- a lock has at most one owner;
- a thread takes a free lock at once, or waits for a held one;
- only the owner releases a lock;
- a waiting thread that finds its lock free infinitely often gets it (strong
  fairness on `TakeWaited`).

`PrioritySync` instantiates it as `AbsLock == INSTANCE SleepLock WITH owner <-
holder, waitFor <- inDown`. `PrioRace` checks `ImplementsSleepLock ==
AbsLock!AbsSpec` as a property. Under this mapping:
- `Take` from `AcquireBegin` is `TakeFree`;
- `DownBlock` is `StartWait`, or a stutter when a woken waiter blocks again;
- `Take` from `Resume` is `TakeWaited`;
- `Release` is `Give`;
- scheduling steps are stutters.

The starvation-freedom half shows the race at `sema.rs:75`, where a woken
waiter may lose the lock to a newcomer, never starves a waiter in these
scripts. That follows from the fairness of the running thread alone.

`CondvarMonitor` states what a user of `Condvar` relies on:
- `wait` gives up the lock and joins the wait queue in one step;
- `notify_one` by the lock's holder signals the longest-waiting thread;
- `notify_all` signals every waiter;
- a signalled waiter takes the lock back before `wait` returns (strong
  fairness on `MonReacquire`).

`Condvar` instantiates it as `Monitor == INSTANCE CondvarMonitor WITH owner <-
MonOwner, wq <- Reverse(cv), signalled <- MonSignalled, cond <- flag`, and
`CvPass` checks `ImplementsMonitor == Monitor!MonSpec`. In the code a waiter
pushes its slot while it still holds the lock, and releases the lock one step
later. The mapping therefore counts the lock as free once the holder is at
`release`, and `WPush` is the abstract `MonWait`. The code pushes at the
front of `cv` and the FIFO build pops at the back, so the abstract queue,
oldest first, is `Reverse(cv)`. A waiter whose slot has left `cv` is
signalled until `WAcquire` gives it the lock again. The mutant
`PopWaiterIndexFront` pops at the front and wakes the newest waiter first.
Every waiter still returns, so `AllWaitersReturn` holds. The refinement
fails at the first `notify_one` with two waiters queued. The priority build
is not checked against the monitor, because it panics first (`CvPrioPanic`).

### Mutants

Each property of a pass run has a mutant in `PROJECT.json`: a mapped helper
replaced by a plausible wrong version that TLC shows breaks the property.
Examples:
- the clock victim keeping V (`VictimPteClearA`);
- a donation chain raised by one hop only (`ChainRaiseOneHop`);
- a woken waiter taking the lock without re-testing the value
  (`ResumeTakes`), which breaks the refinement;
- `notify_all` without the wake-up (`NotifyAllUpNoWake`);
- an alarm tick that keeps expired entries (`AlarmTickRetainZero`);
- an alarm tick that expires entries one tick early (`AlarmTickExpireEarly`),
  which only `NoEarlyWake` notices;
- clean_up that forgets the exit records (`CleanUpParentOnly`);
- `load_segment` reading from the unrounded file offset
  (`LoadSegmentUnalignedRead`);
- the argv string loop rejecting strings that fill the page exactly
  (`PushStringsEndAtPage`);
- a fault that leaves the SPT entry (`DropSpteKept`);
- `pop_waiter` popping the front of the queue (`PopWaiterIndexFront`), which
  breaks the refinement of `CondvarMonitor`;
- `FrameTable::map` with the pin flag inverted (`FteFlagSwapped`): every entry
  ends up pinned, the clock spins, and a fault never resolves.

## Not modelled

- **`thread/imp.rs`.** Thread construction and the builder are straight-line
  setup.
- **`mem.rs`.** `get_pte`, `init` and the `Translate` trait. They are
  address translation helpers with no state of their own, and nothing under
  `src/` calls `Translate`.
- **`read_user_string` and the doubleword helpers in `mem/userbuf.rs`.** They
  read the paths and arguments of exec, open and remove. Their panic on
  non-UTF-8 input, which also hits a console write (`fileop.rs:104`), is
  listed as a hazard without a property. The `+1..7` of the doubleword
  helpers cannot wrap: `read_user_byte` rejects the kernel addresses near
  `usize::MAX` at the first byte.
- **The rest of `trap/syscall.rs`.** It decodes arguments for the modelled
  operations or for file-system code outside `src/`.
- **`load_elf` in `userproc/load.rs`.** Its file read and the ELF parsing
  (`elf_rs`) are outside `src/`. `ExecLoad` models `load_segment` and
  `init_user_stack`, but `Paging`'s Init still stands for the pages they
  leave, with code pages and addresses as model values. Two hazards are
  listed without a property:
  - `init_user_stack` checks only the argument strings against the stack page
    (`load.rs:168`). The NULL, the pointers and the return address pushed
    after them (`load.rs:179-186`) can fall below the page. `WaitPass`
    reaches this case (for example with argv `<<63>>`), but `ArgvLayout`
    excludes it: a property that fails there needs a violation run, and all
    twelve run slots are taken.
  - `load_segment`'s asserts panic on a malformed segment. Whether such a
    header reaches it depends on `elf_rs`.
- **`read`, `write`, `seek`, `tell` and `fstat` in `fileop.rs`.** They only move
  bytes through the file system, which is not under `src/`.
- **File-system and disk I/O errors.** The `?` returns in `demand_page` and in
  munmap's write-back loop are not modelled. The hazards list them. A failed
  swap read in `demand_page` (`demandpaging.rs:25`) is one of them: the
  `Err` falls through to `user_stack_growth` (`pagefault.rs:76-83`). That maps
  a fresh frame over a page whose InSwap entry remains.

## Plan for the next sittings

1. **Add the violation runs already written as properties.** Their
   configurations are small variants of the pass configurations. Each needs a
   run in `PROJECT.json` and a finding:
   - `PagingRaceKill` (`NoSpuriousKill`): two processes. A fault between
     eviction clearing V (`frametable.rs:138`) and `map_in_swap` (142) finds
     no SPT entry and kills the process.
   - `PagingStalePin` (`FteConsistent`): one process, GrowPages {grow}. The
     pinned entry of a lazy load (`demandpaging.rs:48`) is never removed.
   - `PagingSwapLeak` (`SwapConservation`): exit never frees swap slots
     (`userproc.rs:93-99`).
   - `PagingModZero` (`KernelAlive`): two processes, two frames, so the
     table shrinks to one entry. `HEAD % (len - 1)` then divides by zero
     (`frametable.rs:145`). `PagingConc`'s three frames never get there.
   - `PrioStealDonation` (`EffectiveIsDonated`, on the `PrioRace` setup): a
     woken waiter loses the lock and blocks again without donating
     (`sema.rs:75-81`, `sleep.rs:37-44`).
   - The scenario of spec section 8, scenario 1 (a chain A <- B <- C over two
     locks), as a pass run of `EffectiveIsDonated`. It holds there, because
     no waiter is robbed. `PrioRace` checks the chain walk with
     `EffIsDonorMax`.
   - `AlarmTickCurrent` (`CurrentNotQueued`): a tick between register and
     schedule queues the running thread (`alarm.rs:41-42`).
   - The `FileMap` defects, each needing a ghost variable and a property:
     munmap never frees its mapid (`fileop.rs:248`); it leaves the
     frame-table entry, so a later eviction gives an unmapped page an
     InSwap entry (`fileop.rs:280`); a dirty page evicted to swap is never
     written back (`fileop.rs:269`); after close and re-open of the fd,
     munmap writes into the other file (`fileop.rs:256`).
2. **Compose `FileMap` with `Paging`.** Eviction in `FileMap` would then be the
   real clock over a shared frame table, and process exit without munmap could
   be checked.
3. **Model stack-growth boundary arithmetic** on page numbers with the real
   limit and sp offsets. The hazard at `stackgrowth.rs:16` says where code
   and spec disagree.
4. **Model `init_user_stack`'s layout** as a pure operator over argument
   lengths. Check it against a reference that requires every byte written
   to lie in the stack page.
