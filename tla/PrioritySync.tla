---------------------------- MODULE PrioritySync ----------------------------
(***************************************************************************)
(* Sleep locks of Tacos under the priority scheduler, on one CPU:          *)
(*   - Semaphore down/up with the max-priority waiter (src/sync/sema.rs)  *)
(*   - Sleep::acquire/release with priority donation (src/sync/sleep.rs)  *)
(*   - Donate: donation edges and effective priorities                    *)
(*     (src/thread/scheduler/priority/donate.rs)                          *)
(*   - the ready queue and its first-max pop                               *)
(*     (src/thread/scheduler/priority/queue.rs, priority.rs)               *)
(*   - block, wake_up, set_priority and exit (src/thread.rs)               *)
(* Each thread runs a script of lock operations.  All of acquire and of   *)
(* release run with interrupts off; a thread blocks only inside down.     *)
(* With interrupts on, between two operations, the timer may preempt it. *)
(***************************************************************************)
EXTENDS Integers, Sequences, SequencesExt, FiniteSets

CONSTANTS
  Threads,    \* kernel threads running scripts
  Main,       \* the thread running at boot; it spawns the others
  Locks,      \* Sleep locks
  Priorities, \* the assignments of priorities to threads at spawn
  Script,     \* Script[t]: t's operations, in order
  NoThread

Op == [op: {"acquire", "release"}, lock: Locks] \cup [op: {"set_priority"}, prio: Nat]
      \cup [op: {"spawn"}, thread: Threads]

ASSUME /\ Main \in Threads
       /\ Priorities \subseteq [Threads -> Nat]
       /\ \A t \in Threads : Script[t] \in Seq(Op)

VARIABLES
  status,     \* Status of each thread (imp.rs:298), "new" before spawn
  current,    \* the running thread, NoThread while the idle thread runs
  ready,      \* the Queue vector of ready threads (queue.rs:208)
  base,       \* priority
  eff,        \* effective_priority
  donee,      \* the thread t donates to, NoThread if none
  donors,     \* donors vector of each thread
  holder,     \* Sleep::holder
  value,      \* the value of the Sleep lock's semaphore
  waiters,    \* the waiter queue of the Sleep lock's semaphore
  pc,         \* index of the next script operation
  inDown      \* the lock whose down a blocked thread is in, or NoThread

vars == <<status, current, ready, base, eff, donee, donors, holder, value,
          waiters, pc, inDown>>

Prios == {p[t] : p \in Priorities, t \in Threads} \cup
         UNION {{Script[t][i].prio : i \in {j \in DOMAIN Script[t] : Script[t][j].op = "set_priority"}}
                : t \in Threads}

TypeOK ==
  /\ status \in [Threads -> {"new", "ready", "running", "blocked", "dying"}]
  /\ current \in Threads \cup {NoThread}
  /\ ready \in Seq(Threads)
  /\ base \in [Threads -> Prios]
  /\ eff \in [Threads -> Prios]
  /\ donee \in [Threads -> Threads \cup {NoThread}]
  /\ donors \in [Threads -> Seq(Threads)]
  /\ holder \in [Locks -> Threads \cup {NoThread}]
  /\ value \in [Locks -> {0, 1}]
  /\ waiters \in [Locks -> Seq(Threads)]
  /\ pc \in [Threads -> Nat]
  /\ inDown \in [Threads -> Locks \cup {NoThread}]

(* Main runs; no other thread has been spawned yet.                      *)
Init ==
  \E priority \in Priorities :
    /\ status = [t \in Threads |-> IF t = Main THEN "running" ELSE "new"]
    /\ current = Main
    /\ ready = <<>>
    /\ base = priority
    /\ eff = priority
    /\ donee = [t \in Threads |-> NoThread]
    /\ donors = [t \in Threads |-> <<>>]
    /\ holder = [l \in Locks |-> NoThread]
    /\ value = [l \in Locks |-> 1]
    /\ waiters = [l \in Locks |-> <<>>]
    /\ pc = [t \in Threads |-> 1]
    /\ inDown = [t \in Threads |-> NoThread]

-----------------------------------------------------------------------------
(* Donate::update_thread_priority (donate.rs:22-31): the maximum of the   *)
(* donors' effective priorities and the thread's own priority.           *)
UpdateThreadPriority(t, e, ds, b) ==
  [e EXCEPT ![t] = Max({b[t]} \cup {e[x] : x \in ToSet(ds[t])})]

(* Donate::update_donation_chain_priority (donate.rs:35-50): follow the   *)
(* donee links from u, raising each node below p to p, and stop at the    *)
(* first node already at p or above.                                     *)
ChainRaiseOneHop(u, p, e, d) ==
  IF d[u] # NoThread /\ e[d[u]] < p THEN [e EXCEPT ![d[u]] = p] ELSE e
RECURSIVE ChainRaise(_, _, _, _)
ChainRaise(u, p, e, d) ==
  IF d[u] = NoThread THEN e
  ELSE IF e[d[u]] < p THEN ChainRaise(d[u], p, [e EXCEPT ![d[u]] = p], d)
  ELSE e

UpdateDonationChain(t, e, d) == ChainRaise(t, e[t], e, d)

(* Queue::pop_first_max (queue.rs:26-37): the position of the first      *)
(* thread of q with the largest effective priority.                       *)
FirstMaxFifo(q, e) == 1
FirstMax(q, e) == SelectInSeq(q, LAMBDA x : e[x] = Max({e[y] : y \in ToSet(q)}))

(* Semaphore::pop_max_priority_waiter (sema.rs:36-59): the position of   *)
(* the first waiter whose effective priority is the maximum.             *)
PopMaxPriorityWaiter(q, e) == FirstMax(q, e)

(* Manager::schedule (thread/manager.rs, after spec 4.G): the outgoing    *)
(* thread t takes status st and, if still runnable, re-enters the ready   *)
(* queue; the first thread of highest effective priority runs next, or   *)
(* the idle thread if none is ready.                                      *)
Schedule(s, t, st, q, e) ==
  LET s1 == [s EXCEPT ![t] = st]
      q1 == IF st = "ready" THEN Append(q, t) ELSE q
  IN  IF q1 = <<>>
      THEN /\ current' = NoThread
           /\ ready' = q1
           /\ status' = s1
      ELSE /\ current' = q1[FirstMax(q1, e)]
           /\ ready' = RemoveAt(q1, FirstMax(q1, e))
           /\ status' = [s1 EXCEPT ![q1[FirstMax(q1, e)]] = "running"]

-----------------------------------------------------------------------------
(* The running thread t about to perform its next script operation with  *)
(* interrupts on.                                                        *)
Runs(t) == current = t /\ inDown[t] = NoThread
NextOp(t) == Script[t][pc[t]]
HasOp(t, kind) == pc[t] <= Len(Script[t]) /\ NextOp(t).op = kind

(* The end of Sleep::acquire once down has decremented the semaphore      *)
(* (sleep.rs:59-72): t becomes the holder, every waiter left on the lock  *)
(* donates to t, and t's priority and its chain are recomputed.  d, ds    *)
(* and e are donee, donors and eff as the acquire found them.             *)
TakeNoEdges(t, l, d, ds, e) ==
  /\ value' = [value EXCEPT ![l] = @ - 1]
  /\ holder' = [holder EXCEPT ![l] = t]
  /\ donee' = d
  /\ donors' = ds
  /\ eff' = UpdateDonationChain(t, UpdateThreadPriority(t, e, ds, base), d)
  /\ inDown' = [inDown EXCEPT ![t] = NoThread]
  /\ pc' = [pc EXCEPT ![t] = @ + 1]
  /\ UNCHANGED <<status, current, ready, waiters>>
Take(t, l, d, ds, e) ==
  LET d2  == [w \in Threads |-> IF w \in ToSet(waiters[l]) THEN t ELSE d[w]]
      ds2 == [ds EXCEPT ![t] = @ \o waiters[l]]
  IN  /\ value' = [value EXCEPT ![l] = @ - 1]
      /\ holder' = [holder EXCEPT ![l] = t]
      /\ donee' = d2
      /\ donors' = ds2
      /\ eff' = UpdateDonationChain(t, UpdateThreadPriority(t, e, ds2, base), d2)
      /\ inDown' = [inDown EXCEPT ![t] = NoThread]
      /\ pc' = [pc EXCEPT ![t] = @ + 1]
      /\ UNCHANGED <<status, current, ready, waiters>>

(* Semaphore::down finding the value 0 (sema.rs:75-81): push_back on the *)
(* waiters and block.                                                    *)
DownBlock(t, l, d, ds, e) ==
  /\ waiters' = [waiters EXCEPT ![l] = Append(@, t)]
  /\ inDown' = [inDown EXCEPT ![t] = l]
  /\ donee' = d
  /\ donors' = ds
  /\ eff' = e
  /\ Schedule(status, t, "blocked", ready, e)
  /\ UNCHANGED <<base, holder, value, pc>>

(* Sleep::acquire (sleep.rs:33-72): if the lock is held, add the edge t ->*)
(* holder and raise the chain; then down.                                *)
AcquireBegin(t) ==
  /\ Runs(t)
  /\ HasOp(t, "acquire")
  /\ LET l  == NextOp(t).lock
         h  == holder[l]
         d1 == IF h # NoThread THEN [donee EXCEPT ![t] = h] ELSE donee
         ds1 == IF h # NoThread THEN [donors EXCEPT ![h] = Append(@, t)] ELSE donors
         e1 == IF h # NoThread THEN UpdateDonationChain(t, eff, d1) ELSE eff
     IN  IF value[l] = 0 THEN DownBlock(t, l, d1, ds1, e1)
         ELSE Take(t, l, d1, ds1, e1) /\ UNCHANGED base

ResumeTakes(t) ==
  /\ current = t
  /\ inDown[t] # NoThread
  /\ Take(t, inDown[t], donee, donors, eff) /\ UNCHANGED base

(* A thread woken in down runs again and re-tests the value (the while of *)
(* sema.rs:75): it blocks again if another thread took the lock first.   *)
Resume(t) ==
  /\ current = t
  /\ inDown[t] # NoThread
  /\ LET l == inDown[t] IN
       IF value[l] = 0 THEN DownBlock(t, l, donee, donors, eff)
       ELSE Take(t, l, donee, donors, eff) /\ UNCHANGED base

(* thread::wake_up (thread.rs:69-82) of w by the running thread t: w     *)
(* becomes ready and is registered; t yields if w's effective priority    *)
(* is above its own.  s, q and e are status, ready and eff before it.     *)
WakeUpNoRegister(w, t, s, q, e) ==
  /\ status' = [s EXCEPT ![w] = "ready"]
  /\ ready' = q
  /\ UNCHANGED current
WakeUp(w, t, s, q, e) ==
  LET s1 == [s EXCEPT ![w] = "ready"]
      q1 == Append(q, w)
  IN  IF e[w] > e[t] THEN Schedule(s1, t, "ready", q1, e)
      ELSE /\ status' = s1
           /\ ready' = q1
           /\ UNCHANGED current

(* Sleep::release (sleep.rs:74-95): drop the edges of the lock's waiters, *)
(* recompute t's priority, clear the holder and up the semaphore, which   *)
(* wakes the waiter of highest effective priority (sema.rs:89-101).       *)
Release(t) ==
  /\ Runs(t)
  /\ HasOp(t, "release")
  /\ LET l  == NextOp(t).lock
         ws == ToSet(waiters[l])
         ds1 == [donors EXCEPT ![t] = SelectSeq(@, LAMBDA x : x \notin ws)]
         e1 == UpdateThreadPriority(t, eff, ds1, base)
     IN  /\ holder[l] = t
         /\ donee' = [w \in Threads |-> IF w \in ws THEN NoThread ELSE donee[w]]
         /\ donors' = ds1
         /\ eff' = e1
         /\ holder' = [holder EXCEPT ![l] = NoThread]
         /\ value' = [value EXCEPT ![l] = @ + 1]
         /\ IF waiters[l] = <<>>
            THEN UNCHANGED <<waiters, status, current, ready>>
            ELSE LET i == PopMaxPriorityWaiter(waiters[l], e1) IN
                 /\ waiters' = [waiters EXCEPT ![l] = RemoveAt(@, i)]
                 /\ WakeUp(waiters[l][i], t, status, ready, e1)
  /\ pc' = [pc EXCEPT ![t] = @ + 1]
  /\ UNCHANGED <<base, inDown>>

(* thread::set_priority (thread.rs:85-99): set the base priority,         *)
(* recompute the effective one and its chain, then schedule.              *)
SetPriority(t) ==
  /\ Runs(t)
  /\ HasOp(t, "set_priority")
  /\ LET b1 == [base EXCEPT ![t] = NextOp(t).prio]
         e1 == UpdateDonationChain(t, UpdateThreadPriority(t, eff, donors, b1), donee)
     IN  /\ base' = b1
         /\ eff' = e1
         /\ Schedule(status, t, "ready", ready, e1)
  /\ pc' = [pc EXCEPT ![t] = @ + 1]
  /\ UNCHANGED <<donee, donors, holder, value, waiters, inDown>>

(* The script is over: the thread function returns into thread::exit     *)
(* (thread.rs:40-53), which marks it Dying and schedules.                *)
Exit(t) ==
  /\ Runs(t)
  /\ pc[t] > Len(Script[t])
  /\ Schedule(status, t, "dying", ready, eff)
  /\ UNCHANGED <<base, eff, donee, donors, holder, value, waiters, pc, inDown>>

(* A timer interrupt while interrupts are on: the running thread yields. *)
Preempt(t) ==
  /\ Runs(t)
  /\ Schedule(status, t, "ready", ready, eff)
  /\ UNCHANGED <<base, eff, donee, donors, holder, value, waiters, pc, inDown>>

(* Builder::spawn (imp.rs:277-293): register the new thread u with the  *)
(* scheduler and yield to it if it has a higher effective priority.      *)
Spawn(t) ==
  /\ Runs(t)
  /\ HasOp(t, "spawn")
  /\ LET u  == NextOp(t).thread
         s1 == [status EXCEPT ![u] = "ready"]
         q1 == Append(ready, u)
     IN  /\ status[u] = "new"
         /\ IF eff[t] < eff[u] THEN Schedule(s1, t, "ready", q1, eff)
            ELSE /\ status' = s1
                 /\ ready' = q1
                 /\ UNCHANGED current
  /\ pc' = [pc EXCEPT ![t] = @ + 1]
  /\ UNCHANGED <<base, eff, donee, donors, holder, value, waiters, inDown>>

(* No thread is ready: the idle thread runs (after every thread has     *)
(* exited, or while all that remain are blocked).                        *)
Idle ==
  /\ current = NoThread
  /\ UNCHANGED vars

(* A step of the running thread's own code.                              *)
Step(t) == AcquireBegin(t) \/ Resume(t) \/ Release(t) \/ SetPriority(t) \/ Spawn(t) \/ Exit(t)

Next ==
  \/ \E t \in Threads : Step(t) \/ Preempt(t)
  \/ Idle

(* The CPU keeps running whatever thread is current: the running thread  *)
(* makes progress unless it is preempted.  Timer interrupts are not      *)
(* assumed to be fair.                                                   *)
Fairness == WF_vars(\E t \in Threads : Step(t))

Spec == Init /\ [][Next]_vars /\ Fairness

-----------------------------------------------------------------------------
(* The threads blocked in down on a lock t holds.                         *)
BlockedOn(t) == {w \in Threads : /\ status[w] = "blocked"
                                 /\ inDown[w] # NoThread
                                 /\ holder[inDown[w]] = t}

(* Spec 4.F: a thread's effective priority is the maximum of its own     *)
(* priority and the effective priorities of the threads blocked on the  *)
(* locks it holds; acquire, the chain walk and release keep it so.       *)
EffectiveIsDonated ==
  \A t \in Threads : eff[t] = Max({base[t]} \cup {eff[w] : w \in BlockedOn(t)})

(* Donate's own bookkeeping (donate.rs:22-50): every thread's effective  *)
(* priority is the maximum of its priority and its donors' effective     *)
(* priorities, after add_edge with the chain walk in acquire, the edges  *)
(* added for the remaining waiters, remove_edge on release and           *)
(* set_priority, along donation chains across several locks.             *)
EffIsDonorMax ==
  \A t \in Threads : eff[t] = Max({base[t]} \cup {eff[d] : d \in ToSet(donors[t])})

(* The priority scheduler runs a thread of the highest effective         *)
(* priority: no ready thread outranks the running one after any step of  *)
(* acquire, release (wake_up's yield) or set_priority.                   *)
HighestRuns ==
  current # NoThread => \A r \in ToSet(ready) : eff[r] <= eff[current]

(* The locks t's script has acquired and not yet released.               *)
HeldByScript(t) ==
  LET done == SubSeq(Script[t], 1, pc[t] - 1)
      Count(kind, l) == Len(SelectSeq(done, LAMBDA o : o.op = kind /\ o.lock = l))
  IN  {l \in Locks : Count("acquire", l) > Count("release", l)}

(* Mutual exclusion of Sleep locks: no two threads are past the acquire  *)
(* of the same lock, even when a woken waiter and a newcomer race for it *)
(* after a release.                                                      *)
MutualExclusion ==
  \A t, u \in Threads : t # u => HeldByScript(t) \cap HeldByScript(u) = {}

(* A thread blocked in Sleep::acquire eventually gets the lock: no wake  *)
(* up is lost and no waiter is left behind by a release.                 *)
AcquireCompletes == \A t \in Threads : inDown[t] # NoThread ~> inDown[t] = NoThread

-----------------------------------------------------------------------------
(* Refinement: the sleep locks, with their semaphores, donation and the  *)
(* priority scheduler, implement the abstract lock of SleepLock.  The    *)
(* owner of a lock is Sleep::holder; a thread waits for the lock whose    *)
(* down it is blocked in or was woken in and has not yet re-tested.       *)
AbsLock == INSTANCE SleepLock WITH owner <- holder, waitFor <- inDown

(* Every step of acquire, release, wake_up and the scheduler is a step   *)
(* of the abstract lock or leaves it unchanged, and a thread woken in    *)
(* down that keeps losing the lock to newcomers still gets it: the sleep *)
(* locks are starvation-free under the fairness of the running thread.   *)
ImplementsSleepLock == AbsLock!AbsSpec
=============================================================================
