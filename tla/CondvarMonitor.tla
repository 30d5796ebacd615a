---------------------------- MODULE CondvarMonitor ----------------------------
(***************************************************************************)
(* What a Tacos Condvar used with a Sleep lock promises, as its header    *)
(* describes it (src/sync/condvar.rs:1-40), with no slot semaphores:      *)
(*   - wait gives up the lock and joins the wait queue in one step;      *)
(*   - notify_one, by the lock's holder, signals the waiter that has      *)
(*     waited longest, notify_all every waiter;                          *)
(*   - a signalled waiter takes the lock again before wait returns;      *)
(*   - only the holder changes the condition the lock protects.           *)
(***************************************************************************)
EXTENDS Sequences, SequencesExt

CONSTANTS Threads, NoOwner

VARIABLES
  owner,      \* the lock's holder, NoOwner if free
  wq,         \* the waiters not yet signalled, longest waiting first
  signalled,  \* waiters signalled that have not yet taken the lock back
  cond        \* the condition the lock protects

mvars == <<owner, wq, signalled, cond>>

MonTypeOK ==
  /\ owner \in Threads \cup {NoOwner}
  /\ wq \in Seq(Threads)
  /\ signalled \subseteq Threads
  /\ cond \in BOOLEAN

MonInit ==
  /\ owner = NoOwner
  /\ wq = <<>>
  /\ signalled = {}
  /\ cond = FALSE

(* A thread that is neither waiting nor signalled takes the free lock.   *)
MonAcquire(t) ==
  /\ owner = NoOwner
  /\ t \notin ToSet(wq) \cup signalled
  /\ owner' = t
  /\ UNCHANGED <<wq, signalled, cond>>

(* The holder sets the condition.                                         *)
MonSet(t) ==
  /\ owner = t
  /\ cond' = TRUE
  /\ UNCHANGED <<owner, wq, signalled>>

(* The holder waits: it releases the lock and joins the back of the queue.*)
MonWait(t) ==
  /\ owner = t
  /\ owner' = NoOwner
  /\ wq' = Append(wq, t)
  /\ UNCHANGED <<signalled, cond>>

(* The holder signals the longest waiting thread.                        *)
MonNotifyOne(t) ==
  /\ owner = t
  /\ wq # <<>>
  /\ signalled' = signalled \cup {Head(wq)}
  /\ wq' = Tail(wq)
  /\ UNCHANGED <<owner, cond>>

(* The holder signals every waiting thread.                              *)
MonNotifyAll(t) ==
  /\ owner = t
  /\ signalled' = signalled \cup ToSet(wq)
  /\ wq' = <<>>
  /\ UNCHANGED <<owner, cond>>

(* A signalled thread takes the free lock back and returns from wait.    *)
MonReacquire(t) ==
  /\ t \in signalled
  /\ owner = NoOwner
  /\ owner' = t
  /\ signalled' = signalled \ {t}
  /\ UNCHANGED <<wq, cond>>

(* The holder releases the lock.                                          *)
MonRelease(t) ==
  /\ owner = t
  /\ owner' = NoOwner
  /\ UNCHANGED <<wq, signalled, cond>>

MonNext ==
  \E t \in Threads :
    \/ MonAcquire(t) \/ MonSet(t) \/ MonWait(t) \/ MonNotifyOne(t)
    \/ MonNotifyAll(t) \/ MonReacquire(t) \/ MonRelease(t)

(* A signalled waiter that finds the lock free infinitely often takes    *)
(* it: no wake-up is lost after the signal.                               *)
MonSpec == MonInit /\ [][MonNext]_mvars /\ \A t \in Threads : SF_mvars(MonReacquire(t))
=============================================================================
