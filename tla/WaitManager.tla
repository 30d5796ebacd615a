----------------------------- MODULE WaitManager -----------------------------
(***************************************************************************)
(* Process creation, exit and wait (src/userproc.rs:42-110) over the      *)
(* WaitManager (src/userproc/wait.rs).  Each process is one thread that   *)
(* runs a script of execute, wait and exit calls.  All threads share one  *)
(* priority, so the timer may switch between any two ready threads, also *)
(* between execute's spawn and its register.  Each step is one critical  *)
(* section of the WaitManager's mutexes, or exit, which runs with        *)
(* interrupts off; the wait semaphore is a Semaphore(0) (src/sync/sema.rs)*)
(***************************************************************************)
EXTENDS Integers, Sequences, FiniteSets, ExecLoad

CONSTANTS
  Procs,     \* user processes, each with one thread
  Root,      \* the process that runs first
  Codes,     \* exit statuses
  Script,    \* Script[p]: the calls process p makes, ending with exit
  NoProc,    \* no parent
  NoCode,    \* None as a wait result or a recorded status
  Headers,   \* the LOAD segment headers an executable may have
  Argvs      \* the argument vectors exec may pass (string lengths)

(* An exec call names the child and the executables and argv it may     *)
(* pass: the file's segment and the user's strings are inputs.            *)
Op == [op : {"exec"}, proc : Procs, hdrs : SUBSET Headers, argvs : SUBSET Argvs] \cup [op : {"wait"}, proc : Procs]
        \cup [op : {"exit"}, code : Codes]

ASSUME /\ Root \in Procs
       /\ NoProc \notin Procs /\ NoCode \notin Codes
       /\ \A p \in Procs : Script[p] \in Seq(Op) /\ Script[p] # <<>>
                          /\ Script[p][Len(Script[p])].op = "exit"

VARIABLES
  status,     \* "unborn", "ready", "blocked" or "dead"
  pc,         \* index of the call each process is in
  stage,      \* the step of that call
  parentOf,   \* WaitManager.parent: child -> parent, NoProc if absent
  record,     \* WaitManager.exit_status: child -> its semaphore and status
  ret,        \* ret[p][i]: <<v>> once the wait at index i of p's script returns v
  loaded      \* loaded[p][i]: <<[hdr, argv]>> once the exec at index i has loaded

vars == <<status, pc, stage, parentOf, record, ret, loaded>>

NoRecord == [has |-> FALSE, sema |-> 0, code |-> NoCode]
Stages == {"call", "register", "down", "collect"}

TypeOK ==
  /\ status \in [Procs -> {"unborn", "ready", "blocked", "dead"}]
  /\ pc \in [Procs -> Nat]
  /\ stage \in [Procs -> Stages]
  /\ parentOf \in [Procs -> Procs \cup {NoProc}]
  /\ record \in [Procs -> [has : BOOLEAN, sema : Nat, code : Codes \cup {NoCode}]]
  /\ \A p \in Procs : ret[p] \in [1..Len(Script[p]) -> {<<>>} \cup {<<v>> : v \in Codes \cup {NoCode}}]
  /\ \A p \in Procs : loaded[p] \in [1..Len(Script[p]) -> {<<>>} \cup {<<l>> : l \in [hdr : Headers, argv : Argvs]}]

Init ==
  /\ status = [p \in Procs |-> IF p = Root THEN "ready" ELSE "unborn"]
  /\ pc = [p \in Procs |-> 1]
  /\ stage = [p \in Procs |-> "call"]
  /\ parentOf = [p \in Procs |-> NoProc]
  /\ record = [p \in Procs |-> NoRecord]
  /\ ret = [p \in Procs |-> [i \in 1..Len(Script[p]) |-> <<>>]]
  /\ loaded = [p \in Procs |-> [i \in 1..Len(Script[p]) |-> <<>>]]

Call(p) == Script[p][pc[p]]
At(p, kind, stg) ==
  /\ status[p] = "ready"
  /\ pc[p] <= Len(Script[p])
  /\ Call(p).op = kind
  /\ stage[p] = stg
Done(p) ==
  /\ pc' = [pc EXCEPT ![p] = @ + 1]
  /\ stage' = [stage EXCEPT ![p] = "call"]

(* load_executable (load.rs:29-45): load_elf installs the segment with   *)
(* load_segment, then init_user_stack copies argv, which may fail; the   *)
(* file read and ELF parsing are not modelled.                            *)
LoadOk(argv) == InitUserStack(argv).ok
Load(p, h, argv) == loaded' = [loaded EXCEPT ![p][pc[p]] = <<[hdr |-> h, argv |-> argv]>>]

(* execute, userproc.rs:56-62: when load_executable fails, destroy the   *)
(* page table and return -1; no child exists.                            *)
ExecFail(p) ==
  /\ At(p, "exec", "call")
  /\ \E h \in Call(p).hdrs, argv \in Call(p).argvs :
    /\ ~LoadOk(argv)
    /\ Load(p, h, argv)
    /\ Done(p)
    /\ UNCHANGED <<status, parentOf, record, ret>>

(* execute, userproc.rs:75-81: the child thread is spawned ready to run. *)
ExecSpawn(p) ==
  LET c == Call(p).proc IN
  /\ At(p, "exec", "call")
  /\ \E h \in Call(p).hdrs, argv \in Call(p).argvs :
    /\ LoadOk(argv)
    /\ status[c] = "unborn"
    /\ Load(p, h, argv)
    /\ status' = [status EXCEPT ![c] = "ready"]
    /\ stage' = [stage EXCEPT ![p] = "register"]
    /\ UNCHANGED <<pc, parentOf, record, ret>>

(* WaitManager::register (wait.rs:22-27), called at userproc.rs:85 after *)
(* the spawn: both maps get an entry for the child, overwriting any.     *)
Register(c, p, par, rec) ==
  [par |-> [par EXCEPT ![c] = p],
   rec |-> [rec EXCEPT ![c] = [has |-> TRUE, sema |-> 0, code |-> NoCode]]]

ExecRegister(p) ==
  LET r == Register(Call(p).proc, p, parentOf, record) IN
  /\ At(p, "exec", "register")
  /\ parentOf' = r.par
  /\ record' = r.rec
  /\ Done(p)
  /\ UNCHANGED <<status, ret, loaded>>

Return(p, v) == ret' = [ret EXCEPT ![p][pc[p]] = <<v>>]

(* WaitManager::wait, wait.rs:30-37: None unless the caller is the       *)
(* recorded parent and the child has a status entry.                     *)
IsWaitableAnyParent(p, c) == record[c].has
IsWaitable(p, c) == parentOf[c] = p /\ record[c].has

WaitCheck(p) ==
  LET c == Call(p).proc IN
  /\ At(p, "wait", "call")
  /\ IF IsWaitable(p, c)
       THEN /\ stage' = [stage EXCEPT ![p] = "down"]
            /\ UNCHANGED <<pc, ret>>
       ELSE Return(p, NoCode) /\ Done(p)
  /\ UNCHANGED <<status, parentOf, record, loaded>>

(* wait.rs:38, sema.down(): take the value or block until up; a woken   *)
(* thread tests again (sema.rs:71-86).                                   *)
SemaAvailableAlways(v) == TRUE
SemaAvailable(v) == v > 0

WaitDown(p) ==
  LET c == Call(p).proc IN
  /\ At(p, "wait", "down")
  /\ IF SemaAvailable(record[c].sema)
       THEN /\ record' = [record EXCEPT ![c].sema = @ - 1]
            /\ stage' = [stage EXCEPT ![p] = "collect"]
            /\ UNCHANGED status
       ELSE /\ status' = [status EXCEPT ![p] = "blocked"]
            /\ UNCHANGED <<record, stage>>
  /\ UNCHANGED <<pc, parentOf, ret, loaded>>

(* wait.rs:39-40: remove both entries, return the recorded status.       *)
Collect(c, par, rec) ==
  [par |-> [par EXCEPT ![c] = NoProc],
   rec |-> [rec EXCEPT ![c] = NoRecord],
   v   |-> IF rec[c].has THEN rec[c].code ELSE NoCode]

WaitCollect(p) ==
  LET r == Collect(Call(p).proc, parentOf, record) IN
  /\ At(p, "wait", "collect")
  /\ parentOf' = r.par
  /\ record' = r.rec
  /\ Return(p, r.v)
  /\ Done(p)
  /\ UNCHANGED <<status, loaded>>

(* WaitManager::clean_up (wait.rs:54-62): drop the entries of every      *)
(* child of p from both maps, orphaning them.                            *)
CleanUpParentOnly(p, par, rec) ==
  [par |-> [c \in Procs |-> IF par[c] = p THEN NoProc ELSE par[c]],
   rec |-> rec]

CleanUp(p, par, rec) ==
  [par |-> [c \in Procs |-> IF par[c] = p THEN NoProc ELSE par[c]],
   rec |-> [c \in Procs |-> IF par[c] = p THEN NoRecord ELSE rec[c]]]

(* WaitManager::exit (wait.rs:43-52): without an entry for p, return;    *)
(* otherwise record the status and up the semaphore, which wakes the    *)
(* parent if it sleeps in down on p.                                     *)
RecordExit(p, v, rec) ==
  IF ~rec[p].has THEN rec
  ELSE [rec EXCEPT ![p].code = v, ![p].sema = @ + 1]

Sleeper(c) ==
  {w \in Procs : status[w] = "blocked" /\ Call(w).proc = c}

(* userproc::exit (userproc.rs:93-99), with interrupts off: clean_up,    *)
(* WaitManager::exit, then the thread dies.                              *)
Exit(p) ==
  LET cu == CleanUp(p, parentOf, record)
      rec == RecordExit(p, Call(p).code, cu.rec)
      woken == IF rec[p].has THEN Sleeper(p) ELSE {}
  IN /\ At(p, "exit", "call")
     /\ parentOf' = cu.par
     /\ record' = rec
     /\ status' = [w \in Procs |-> IF w = p THEN "dead"
                                   ELSE IF w \in woken THEN "ready" ELSE status[w]]
     /\ Done(p)
     /\ UNCHANGED <<ret, loaded>>

Step(p) ==
  ExecFail(p) \/ ExecSpawn(p) \/ ExecRegister(p) \/ WaitCheck(p) \/ WaitDown(p)
    \/ WaitCollect(p) \/ Exit(p)

(* The idle thread runs when no process is ready.                        *)
Idle ==
  /\ \A p \in Procs : status[p] # "ready"
  /\ UNCHANGED vars

Next == (\E p \in Procs : Step(p)) \/ Idle

(* Timer preemption among threads of one priority: a ready thread keeps  *)
(* getting the CPU.                                                      *)
Fairness == \A p \in Procs : WF_vars(Step(p))

Spec == Init /\ [][Next]_vars /\ Fairness

-----------------------------------------------------------------------------
ExitCode(c) == Script[c][Len(Script[c])].code

(* What the wait at index i of p's script should return (spec 4.H): the  *)
(* child's exit status if p executed it earlier, with an argv whose      *)
(* strings fit in the stack page, and has not waited for it since, None  *)
(* otherwise.                                                            *)
Expected(p, i) ==
  LET c == Script[p][i].proc
      execs == {j \in 1..(i - 1) : /\ Script[p][j].op = "exec"
                                   /\ Script[p][j].proc = c
                                   /\ loaded[p][j] # <<>>
                                   /\ StringBytes(loaded[p][j][1].argv) <= PgSize}
  IN IF \E j \in execs :
          \A k \in (j + 1)..(i - 1) : Script[p][k] # [op |-> "wait", proc |-> c]
       THEN ExitCode(c) ELSE NoCode

(* wait returns the status a direct child passed to exit, exactly once,  *)
(* and None for a process that is not a child of the caller or was       *)
(* already waited for; interleavings of exit, clean_up and wait never    *)
(* deliver a wrong or missing status.                                    *)
WaitSemantics ==
  \A p \in Procs : \A i \in DOMAIN ret[p] :
    ret[p][i] # <<>> => ret[p][i] = <<Expected(p, i)>>

(* Once every process has exited, the WaitManager holds no entry: every  *)
(* record is removed by a wait or by the parent's clean_up.               *)
NoRecordLeak ==
  (\A p \in Procs : status[p] \in {"dead", "unborn"})
    => \A c \in Procs : parentOf[c] = NoProc /\ ~record[c].has

Loads(p) == {loaded[p][i][1] : i \in {j \in DOMAIN loaded[p] : loaded[p][j] # <<>>}}

(* Every executable an execute has loaded has its LOAD segment installed  *)
(* by load_segment (load.rs:77-129) so that each lazy page reads the right *)
(* file bytes and zero-fills the rest, at every page-boundary alignment   *)
(* of the header, and no assert of load_segment fires.                    *)
SegmentLoadsFile == \A p \in Procs : \A l \in Loads(p) : SegmentLaidOut(l.hdr)

(* Every execute's init_user_stack (load.rs:132-200) fails exactly when   *)
(* argv's strings overflow the stack page, so exec returns -1 then, and   *)
(* otherwise the child starts with sp and a1 = sp + 8 naming an argv      *)
(* array of intact, NUL-terminated copies, wherever that block fits.      *)
ArgvLayout == \A p \in Procs : \A l \in Loads(p) : ArgvLaidOut(l.argv)

(* A process that waits for its child returns from the wait once the    *)
(* child has exited.                                                     *)
WaitCompletes ==
  \A p \in Procs : stage[p] = "down" ~> stage[p] # "down"
=============================================================================
