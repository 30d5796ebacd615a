------------------------------- MODULE UserBuf -------------------------------
(***************************************************************************)
(* The buffer checks of the read and write system calls of Tacos:        *)
(*   - syscall_handler's SYS_READ and SYS_WRITE (src/trap/syscall.rs)     *)
(*   - check_buf_readable, check_buf_writable, read_user_byte and        *)
(*     write_user_byte (src/mem/userbuf.rs)                               *)
(*   - the kernel-mode branch of the page-fault handler that makes the    *)
(*     byte helpers fail (src/trap/pagefault.rs)                          *)
(* Addresses are usize values of AddrBits bits.  Whether an addition      *)
(* that overflows wraps (a release build) or panics (a build with         *)
(* overflow checks) is chosen once, at boot.  Which user pages the fault *)
(* handler can bring in is fixed: Mapped pages are resident or have an   *)
(* SPT entry, Writable ones are mapped with W.                            *)
(***************************************************************************)
EXTENDS Integers

CONSTANTS
  AddrBits,   \* width of usize
  PgSize,     \* PG_SIZE, in bytes
  KernBase,   \* the lowest kernel-space address
  Mapped,     \* page numbers demand_page succeeds on
  Writable,   \* page numbers that also take a store
  Starts,     \* buffer addresses a user passes in a1
  Lens        \* buffer lengths a user passes in a2

Word == 2 ^ AddrBits
PageOf(a) == a \div PgSize

ASSUME /\ KernBase < Word /\ Writable \subseteq Mapped
       /\ Starts \subseteq 0 .. (Word - 1) /\ Lens \subseteq 0 .. (Word - 1)

VARIABLES
  checks,     \* TRUE in a build with overflow checks
  phase,      \* "idle", "check" (in the loop of check_buf_*) or "done"
  call,       \* the system call: kind, start and len
  va,         \* the loop variable of check_buf_*
  ret         \* "ok", "err", "panic", or "none" while checking

vars == <<checks, phase, call, va, ret>>

TypeOK ==
  /\ checks \in BOOLEAN
  /\ phase \in {"idle", "check", "done"}
  /\ call \in [kind : {"read", "write"}, start : Starts, len : Lens]
  /\ va \in 0 .. (Word - 1)
  /\ ret \in {"none", "ok", "err", "panic"}

(* in_kernel_space (mem/layout.rs, after spec 5: a fixed split).          *)
InKernelSpace(a) == a >= KernBase

(* The kernel branch of pagefault::handler (pagefault.rs:48-67): a fault *)
(* at the pc of a byte helper is resolved by demand_page or makes the    *)
(* helper return 1.                                                      *)
DemandPageOk(a) == PageOf(a) \in Mapped

(* read_user_byte (userbuf.rs:19-32) and write_user_byte (39-51) succeed.*)
ReadUserByte(a) == ~InKernelSpace(a) /\ DemandPageOk(a)
WriteUserByte(a) == ~InKernelSpace(a) /\ DemandPageOk(a) /\ PageOf(a) \in Writable

(* A usize addition that overflows panics with overflow checks on.       *)
Panics(x) == checks /\ x >= Word

(* PageAlign::ceil (mem/utils.rs, after spec 5): round up to a page.     *)
Ceil(x) == LET up == (x + PgSize - 1) % Word IN up - (up % PgSize)

(* The bound of the loop, start + len, as usize.                         *)
BufEnd == (call.start + call.len) % Word

Init ==
  /\ checks \in BOOLEAN
  /\ phase = "idle"
  /\ call \in [kind : {"read"}, start : {CHOOSE s \in Starts : TRUE}, len : {0}]
  /\ va = 0
  /\ ret = "none"

(* syscall_handler, SYS_READ and SYS_WRITE (syscall.rs:58-75): check the *)
(* buffer with check_buf_writable or check_buf_readable, whose first test *)
(* rejects a null start (userbuf.rs:122-124, 134-136).                   *)
Syscall ==
  /\ phase = "idle"
  /\ \E k \in {"read", "write"}, s \in Starts, l \in Lens :
       /\ call' = [kind |-> k, start |-> s, len |-> l]
       /\ IF s = 0 THEN phase' = "done" /\ ret' = "err" /\ va' = va
          ELSE phase' = "check" /\ ret' = "none" /\ va' = s
  /\ UNCHANGED checks

(* The loop test va < start + len panics if the sum overflows.            *)
BoundPanics ==
  /\ phase = "check"
  /\ Panics(call.start + call.len)
  /\ phase' = "done" /\ ret' = "panic"
  /\ UNCHANGED <<checks, call, va>>

(* One turn of the loop of check_buf_readable (userbuf.rs:126-129) or   *)
(* check_buf_writable (138-142): the byte at va is read (and written     *)
(* back for a read call), and va moves to the start of the next page.    *)
CheckByte ==
  /\ phase = "check"
  /\ ~Panics(call.start + call.len)
  /\ va < BufEnd
  /\ IF ~ReadUserByte(va) \/ (call.kind = "read" /\ ~WriteUserByte(va))
     THEN phase' = "done" /\ ret' = "err" /\ va' = va
     ELSE IF Panics(va + 1 + PgSize - 1)
     THEN phase' = "done" /\ ret' = "panic" /\ va' = va
     ELSE va' = Ceil(va + 1) /\ UNCHANGED <<phase, ret>>
  /\ UNCHANGED <<checks, call>>

(* The loop ends: the buffer is accepted and the system call builds a   *)
(* slice of len bytes at start (syscall.rs:63, 73).                      *)
CheckDone ==
  /\ phase = "check"
  /\ ~Panics(call.start + call.len)
  /\ ~(va < BufEnd)
  /\ phase' = "done" /\ ret' = "ok"
  /\ UNCHANGED <<checks, call, va>>

(* The system call returns to user mode; the next one may follow.        *)
Return ==
  /\ phase = "done"
  /\ phase' = "idle"
  /\ UNCHANGED <<checks, call, va, ret>>

Next == Syscall \/ BoundPanics \/ CheckByte \/ CheckDone \/ Return

Spec == Init /\ [][Next]_vars

-----------------------------------------------------------------------------
(* The promise of check_buf_readable's comment (userbuf.rs:114-120):     *)
(* every address from start to start + len is checked to be in user     *)
(* space, one byte per page.  So whatever a user passes, a system call   *)
(* never panics the kernel, and a buffer it accepts lies wholly in the   *)
(* caller's user pages (writable ones for read), below the end of the   *)
(* address space: the kernel then reads or writes all of it.             *)
AcceptedBufferIsUser ==
  /\ ret # "panic"
  /\ ret = "ok" =>
       \A i \in 0 .. (call.len - 1) :
         LET a == call.start + i IN
           /\ a < Word
           /\ ReadUserByte(a)
           /\ call.kind = "read" => WriteUserByte(a)
=============================================================================
