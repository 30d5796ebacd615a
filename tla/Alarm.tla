-------------------------------- MODULE Alarm --------------------------------
(***************************************************************************)
(* thread::sleep (src/thread.rs:111-119) and the alarm clock              *)
(* (src/thread/alarm.rs) on one preemptive CPU.  Each thread sleeps once  *)
(* and exits.  sleep runs with interrupts on: between marking itself      *)
(* Blocked, registering with the alarm and calling schedule, the timer    *)
(* may fire.  The timer handler ticks the alarm and then preempts the     *)
(* running thread; it and Manager::schedule are not in src/ and follow    *)
(* the scheduler section of the spec (FIFO ready queue, a running thread  *)
(* that is not Blocked or Dying goes back to the queue, the idle thread   *)
(* runs when the queue is empty).                                         *)
(***************************************************************************)
EXTENDS Integers, Sequences, SequencesExt, FiniteSets

CONSTANTS
  Threads,    \* kernel threads
  Naps,       \* set of functions: the ticks argument each thread passes
  NoThread    \* the idle thread is running

ASSUME NoThread \notin Threads /\ Naps \subseteq [Threads -> Int]

VARIABLES
  status,    \* Status of each thread (imp.rs:298)
  current,   \* the running thread, NoThread while idle
  ready,     \* the scheduler's ready queue
  alarm,     \* the Alarm's Vec<(Arc<Thread>, i64)>
  nap,       \* the ticks each thread passes to sleep
  pc,        \* where each thread is in its body
  elapsed    \* ghost: timer ticks since the thread registered

vars == <<status, current, ready, alarm, nap, pc, elapsed>>

Statuses == {"ready", "running", "blocked", "dying"}
NapValues == UNION {{f[t] : t \in Threads} : f \in Naps}
Entry == [thread : Threads, ticks : NapValues]
NapMax == Max(NapValues \cup {0})

TypeOK ==
  /\ status \in [Threads -> Statuses]
  /\ current \in Threads \cup {NoThread}
  /\ ready \in Seq(Threads)
  /\ alarm \in Seq(Entry)
  /\ nap \in Naps
  /\ pc \in [Threads -> {"sleep", "register", "schedule", "exit", "done"}]
  /\ elapsed \in [Threads -> 0..NapMax]

(* All threads ready, the first of some order running.                   *)
Init ==
  /\ nap \in Naps
  /\ \E order \in SetToSeqs(Threads) :
       /\ current = Head(order)
       /\ ready = Tail(order)
       /\ status = [t \in Threads |-> IF t = Head(order) THEN "running" ELSE "ready"]
  /\ alarm = <<>>
  /\ pc = [t \in Threads |-> "sleep"]
  /\ elapsed = [t \in Threads |-> 0]

(* Manager::schedule (spec 4.G): a running thread that is neither        *)
(* Blocked nor Dying goes to the back of the queue, then the front runs, *)
(* or the idle thread if the queue is empty.  Returns [s, c, q].         *)
Schedule(st, q) ==
  LET q1 == IF current # NoThread /\ st[current] \notin {"blocked", "dying"}
              THEN Append(q, current) ELSE q
      st1 == IF current # NoThread /\ st[current] \notin {"blocked", "dying"}
               THEN [st EXCEPT ![current] = "ready"] ELSE st
  IN IF q1 = <<>>
       THEN [s |-> st1, c |-> NoThread, q |-> q1]
       ELSE [s |-> [st1 EXCEPT ![Head(q1)] = "running"], c |-> Head(q1), q |-> Tail(q1)]

SwitchTo(r) ==
  /\ status' = r.s
  /\ current' = r.c
  /\ ready' = r.q

(* sleep, thread.rs:112-116: ticks <= 0 returns at once; otherwise the    *)
(* thread marks itself Blocked, interrupts still on.                     *)
SleepBlock(t) ==
  /\ current = t /\ pc[t] = "sleep"
  /\ IF nap[t] <= 0
       THEN /\ pc' = [pc EXCEPT ![t] = "exit"]
            /\ UNCHANGED status
       ELSE /\ status' = [status EXCEPT ![t] = "blocked"]
            /\ pc' = [pc EXCEPT ![t] = "register"]
  /\ UNCHANGED <<current, ready, alarm, nap, elapsed>>

(* Alarm::register, alarm.rs:24-30, called at thread.rs:117.             *)
SleepRegister(t) ==
  /\ current = t /\ pc[t] = "register"
  /\ alarm' = Append(alarm, [thread |-> t, ticks |-> nap[t]])
  /\ pc' = [pc EXCEPT ![t] = "schedule"]
  /\ elapsed' = [elapsed EXCEPT ![t] = 0]
  /\ UNCHANGED <<status, current, ready, nap>>

(* thread.rs:118: schedule().                                             *)
SleepSchedule(t) ==
  /\ current = t /\ pc[t] = "schedule"
  /\ SwitchTo(Schedule(status, ready))
  /\ pc' = [pc EXCEPT ![t] = "exit"]
  /\ UNCHANGED <<alarm, nap, elapsed>>

(* thread::exit, thread.rs:40-53: mark Dying, then schedule.            *)
Exit(t) ==
  /\ current = t /\ pc[t] = "exit"
  /\ SwitchTo(Schedule([status EXCEPT ![t] = "dying"], ready))
  /\ pc' = [pc EXCEPT ![t] = "done"]
  /\ UNCHANGED <<alarm, nap, elapsed>>

(* Alarm::tick, alarm.rs:33-47: decrement every entry, make the expired  *)
(* ones Ready and register them, keep the rest.  Returns [s, q, a].      *)
DecrementNone(a) == a

Decrement(a) == [i \in 1..Len(a) |-> [a[i] EXCEPT !.ticks = @ - 1]]

AlarmTickNoRetain(st, q, a) ==
  LET d == Decrement(a)
      expired == SelectSeq(d, LAMBDA e : e.ticks <= 0)
      woken == {expired[i].thread : i \in 1..Len(expired)}
  IN [s |-> [t \in Threads |-> IF t \in woken THEN "ready" ELSE st[t]],
      q |-> q \o [i \in 1..Len(expired) |-> expired[i].thread],
      a |-> d]

AlarmTickRetainZero(st, q, a) ==
  LET d == Decrement(a)
      expired == SelectSeq(d, LAMBDA e : e.ticks <= 0)
      woken == {expired[i].thread : i \in 1..Len(expired)}
  IN [s |-> [t \in Threads |-> IF t \in woken THEN "ready" ELSE st[t]],
      q |-> q \o [i \in 1..Len(expired) |-> expired[i].thread],
      a |-> SelectSeq(d, LAMBDA e : e.ticks >= 0)]

AlarmTickExpireEarly(st, q, a) ==
  LET d == Decrement(a)
      expired == SelectSeq(d, LAMBDA e : e.ticks <= 1)
      woken == {expired[i].thread : i \in 1..Len(expired)}
  IN [s |-> [t \in Threads |-> IF t \in woken THEN "ready" ELSE st[t]],
      q |-> q \o [i \in 1..Len(expired) |-> expired[i].thread],
      a |-> SelectSeq(d, LAMBDA e : e.ticks > 1)]

AlarmTick(st, q, a) ==
  LET d == Decrement(a)
      expired == SelectSeq(d, LAMBDA e : e.ticks <= 0)
      woken == {expired[i].thread : i \in 1..Len(expired)}
  IN [s |-> [t \in Threads |-> IF t \in woken THEN "ready" ELSE st[t]],
      q |-> q \o [i \in 1..Len(expired) |-> expired[i].thread],
      a |-> SelectSeq(d, LAMBDA e : e.ticks > 0)]

Sleepers == {alarm[i].thread : i \in 1..Len(alarm)}

(* The timer interrupt: tick the alarm, then preempt (spec 4.G, 5).      *)
Tick ==
  LET t == AlarmTick(status, ready, alarm)
  IN /\ alarm' = t.a
     /\ SwitchTo(Schedule(t.s, t.q))
     /\ elapsed' = [u \in Threads |->
                     IF u \in Sleepers /\ elapsed[u] < NapMax THEN elapsed[u] + 1 ELSE elapsed[u]]
     /\ UNCHANGED <<nap, pc>>

Step(t) == SleepBlock(t) \/ SleepRegister(t) \/ SleepSchedule(t) \/ Exit(t)

Next == (\E t \in Threads : Step(t)) \/ Tick

(* The timer is periodic, so it fires infinitely often; its period is    *)
(* far longer than one step, so a thread the timer keeps giving the CPU  *)
(* makes progress.                                                       *)
Fairness == WF_vars(Tick) /\ \A t \in Threads : SF_vars(Step(t))

Spec == Init /\ [][Next]_vars /\ Fairness

-----------------------------------------------------------------------------

(* Alarm::register asserts that only Blocked threads are registered       *)
(* (alarm.rs:25, spec 4.G): every alarm entry belongs to a Blocked       *)
(* thread that is not in the ready queue, has one entry only, and counts  *)
(* between 1 and the ticks it passed to sleep; tick removes an entry in  *)
(* the step that readies its thread.                                     *)
AlarmEntriesBlocked ==
  \A i \in 1..Len(alarm) :
    LET e == alarm[i] IN
    /\ status[e.thread] = "blocked"
    /\ e.thread \notin ToSet(ready)
    /\ 0 < e.ticks /\ e.ticks <= nap[e.thread]
    /\ \A j \in 1..Len(alarm) : alarm[j].thread = e.thread => j = i

(* The ready queue holds each thread at most once, and never the running *)
(* one: a thread is Running or Ready, not both (spec 4.G states).         *)
CurrentNotQueued ==
  /\ current \notin ToSet(ready)
  /\ Len(ready) = Cardinality(ToSet(ready))

(* sleep(ticks) blocks for at least ticks timer interrupts: a thread     *)
(* that has registered with the alarm and left it again has seen at      *)
(* least as many ticks since register as it asked for.  Alarm::tick      *)
(* decrements before it tests, and tests <= 0.                           *)
NoEarlyWake ==
  \A t \in Threads :
    /\ nap[t] > 0 /\ t \notin Sleepers
    /\ pc[t] \in {"schedule", "exit", "done"}
    => elapsed[t] >= nap[t]

(* A thread registered with the alarm is eventually woken by its ticks.  *)
RegisteredWakes ==
  \A t \in Threads : t \in Sleepers ~> status[t] # "blocked"

(* Every thread that calls sleep eventually returns from it and exits.    *)
SleepersFinish == \A t \in Threads : <>(pc[t] = "done")
=============================================================================
