------------------------------- MODULE Synch --------------------------------
(***************************************************************************)
(* Semaphores, locks and condition variables over wait channels            *)
(* (kern/thread/synch.c), with the deadlock detector the locks report to   *)
(* (kern/thread/hangman.c).                                                *)
(*                                                                         *)
(* What is done under the spinlock of a semaphore or a lock, up to its     *)
(* release or to wchan_sleep, is one step.  cv_wait holds the spinlock of  *)
(* the condition variable across lock_release, so that spinlock is a       *)
(* variable.  The scheduler is that of Threads: a thread taken off a       *)
(* channel runs at some later time.                                        *)
(***************************************************************************)
EXTENDS Integers, Sequences, FiniteSets

CONSTANTS
  Thread, Sem, Lock, CV, Nobody,
  Initial,      \* the count semaphores are created with
  MaxCount      \* bound: the count beyond which no thread calls V

ASSUME SynchAssumption ==
  /\ Initial \in Nat /\ MaxCount \in Nat /\ Initial <= MaxCount
  /\ IsFiniteSet(Thread) /\ Nobody \notin Thread
  /\ Sem \cap Lock = {} /\ Sem \cap CV = {} /\ Lock \cap CV = {}

VARIABLES
  sem_count,
  lk_holder,
  cv_wchanlock,             \* per condition variable: who holds its spinlock
  wchan,                    \* per semaphore, lock and condition variable
  pc,                       \* per thread: what it is doing
  on,                       \* per thread: to which semaphore, lock or cv
  relock,                   \* per thread in cv_wait: the lock it gave up
  l_holding, a_waiting,     \* what the detector knows
  deadlock,                 \* the thread and the lock it has panicked over, if any
  signals                   \* history: signals sent to each cv, modulo two

hangman == <<l_holding, a_waiting, deadlock>>
vars == <<sem_count, lk_holder, cv_wchanlock, wchan, pc, on, relock, hangman, signals>>

Object == Sem \cup Lock \cup CV

(* P and lock: to look at the count or the holder (again); sleep: on the   *)
(* channel; release: in cv_wait, the lock given up and not yet asleep;     *)
(* relock: out of the channel of a condition variable.                     *)
Doing == {"run", "P", "lock", "sleep", "release", "relock"}

TypeOK ==
  /\ sem_count \in [Sem -> 0 .. MaxCount]
  /\ lk_holder \in [Lock -> Thread \cup {Nobody}]
  /\ cv_wchanlock \in [CV -> Thread \cup {Nobody}]
  /\ wchan \in [Object -> Seq(Thread)]
  /\ pc \in [Thread -> Doing]
  /\ on \in [Thread -> Object \cup {Nobody}]
  /\ relock \in [Thread -> Lock \cup {Nobody}]
  /\ l_holding \in [Lock -> Thread \cup {Nobody}]
  /\ a_waiting \in [Thread -> Lock \cup {Nobody}]
  /\ deadlock \in SUBSET (Thread \X Lock) /\ signals \in [CV -> 0 .. 1]

Init ==
  /\ sem_count = [s \in Sem |-> Initial]
  /\ lk_holder = [l \in Lock |-> Nobody]
  /\ cv_wchanlock = [c \in CV |-> Nobody]
  /\ wchan = [o \in Object |-> <<>>]
  /\ pc = [t \in Thread |-> "run"]
  /\ on = [t \in Thread |-> Nobody] /\ relock = [t \in Thread |-> Nobody]
  /\ l_holding = [l \in Lock |-> Nobody] /\ a_waiting = [t \in Thread |-> Nobody]
  /\ deadlock = {} /\ signals = [c \in CV |-> 0]

Goes(t, what, where) ==
  /\ pc' = [pc EXCEPT ![t] = what]
  /\ on' = [on EXCEPT ![t] = where]

wchan_sleep(t, o) ==
  /\ wchan' = [wchan EXCEPT ![o] = Append(@, t)]
  /\ Goes(t, "sleep", o)

(* What a thread does when it comes back from the channel of o.            *)
Resumes(o) == IF o \in Sem THEN "P" ELSE IF o \in Lock THEN "lock" ELSE "relock"

(* The threads in a set are taken off the channel of o; t is then at what. *)
Woken(ts, o, t, what) ==
  pc' = [u \in Thread |-> IF u = t THEN what ELSE IF u \in ts THEN Resumes(o) ELSE pc[u]]

(* The first n threads on the channel of o.                                *)
FirstOf(o, n) == {wchan[o][k] : k \in 1 .. n}

TakeOff(o, n) == wchan' = [wchan EXCEPT ![o] = SubSeq(@, n + 1, Len(@))]

(* How many wchan_wakeone takes off.                                       *)
OneOf(o) == IF wchan[o] = <<>> THEN 0 ELSE 1

-----------------------------------------------------------------------------
(* Mutants: the woken thread does not look again.                          *)
P_once(t, s) == sem_count[s] = 0 /\ pc[t] = "run"
MustSleep(t, s) == sem_count[s] = 0

P(t, s) ==
  /\ pc[t] = "run" \/ (pc[t] = "P" /\ on[t] = s)
  /\ \/ /\ MustSleep(t, s)
        /\ wchan_sleep(t, s)
        /\ UNCHANGED sem_count
     \/ /\ ~MustSleep(t, s)
        /\ sem_count' = [sem_count EXCEPT ![s] = @ - 1]
        /\ Goes(t, "run", Nobody)
        /\ UNCHANGED wchan
  /\ UNCHANGED <<lk_holder, cv_wchanlock, relock, hangman, signals>>

(* Mutant: a thread is woken only when the count was zero.                 *)
WakesOnZero(s) == IF sem_count[s] = 0 THEN OneOf(s) ELSE 0
WakesOne(s) == OneOf(s)

V(t, s) ==
  /\ pc[t] = "run" /\ sem_count[s] < MaxCount
  /\ sem_count' = [sem_count EXCEPT ![s] = @ + 1]
  /\ TakeOff(s, WakesOne(s))
  /\ Woken(FirstOf(s, WakesOne(s)), s, t, "run")
  /\ UNCHANGED <<lk_holder, cv_wchanlock, on, relock, hangman, signals>>

-----------------------------------------------------------------------------
(* The actors one finds from lock l, going from a lock to its holder and   *)
(* on to the lock that one waits for, in at most n steps.                  *)
Chain[n \in Nat, l \in Lock] ==
  IF n = 0 \/ l_holding[l] = Nobody THEN {}
  ELSE {l_holding[l]} \cup IF a_waiting[l_holding[l]] = Nobody THEN {}
                           ELSE Chain[n - 1, a_waiting[l_holding[l]]]

(* Mutant: only the holder itself is looked at.                            *)
ShortCheck(t, l) == l_holding[l] = t
hangman_check(t, l) == t \in Chain[Cardinality(Thread), l]

hangman_acquire(t, l) == l_holding' = [l_holding EXCEPT ![l] = t]

(* Mutant: the detector is not told of a release.                          *)
StaysHeld(l) == UNCHANGED l_holding
hangman_release(l) == l_holding' = [l_holding EXCEPT ![l] = Nobody]

(* Take the lock, or sleep until it is released.                           *)
TakeOrSleep(t, l) ==
  \/ /\ lk_holder[l] # Nobody
     /\ wchan_sleep(t, l)
     /\ UNCHANGED <<lk_holder, l_holding>>
  \/ /\ lk_holder[l] = Nobody
     /\ lk_holder' = [lk_holder EXCEPT ![l] = t]
     /\ hangman_acquire(t, l)
     /\ Goes(t, "run", Nobody)
     /\ UNCHANGED wchan

(* A thread calls lock_acquire, by itself or at the end of cv_wait, which  *)
(* takes the spinlock of the condition variable once more.                 *)
Asks(t, l) ==
  \/ pc[t] = "run"
  \/ pc[t] = "relock" /\ relock[t] = l /\ cv_wchanlock[on[t]] = Nobody

lock_acquire(t, l) ==
  /\ Asks(t, l)
  /\ ~hangman_check(t, l)
  /\ TakeOrSleep(t, l)
  /\ a_waiting' = [a_waiting EXCEPT ![t] = IF lk_holder[l] = Nobody THEN Nobody ELSE l]
  /\ relock' = [relock EXCEPT ![t] = Nobody]
  /\ UNCHANGED <<sem_count, cv_wchanlock, deadlock, signals>>

lock_acquire_deadlocks(t, l) ==
  /\ Asks(t, l)
  /\ hangman_check(t, l)
  /\ deadlock' = {<<t, l>>}
  /\ UNCHANGED <<sem_count, lk_holder, cv_wchanlock, wchan, pc, on, relock, l_holding, a_waiting, signals>>

(* The thread has been taken off the channel and looks again.              *)
lock_acquire_again(t, l) ==
  /\ pc[t] = "lock" /\ on[t] = l
  /\ TakeOrSleep(t, l)
  /\ a_waiting' = [a_waiting EXCEPT ![t] = IF lk_holder[l] = Nobody THEN Nobody ELSE l]
  /\ UNCHANGED <<sem_count, cv_wchanlock, relock, deadlock, signals>>

(* lock_release, by a thread that is then at what.                         *)
ReleaseLock(t, l, what) ==
  /\ lk_holder' = [lk_holder EXCEPT ![l] = Nobody]
  /\ hangman_release(l)
  /\ TakeOff(l, OneOf(l))
  /\ Woken(FirstOf(l, OneOf(l)), l, t, what)
  /\ UNCHANGED <<a_waiting, deadlock>>

lock_release(t, l) ==
  /\ pc[t] = "run" /\ lk_holder[l] = t
  /\ ReleaseLock(t, l, "run")
  /\ UNCHANGED <<sem_count, cv_wchanlock, on, relock, signals>>

-----------------------------------------------------------------------------
(* cv_wait takes the spinlock of the condition variable, releases the      *)
(* lock, and sleeps.  Mutant: it takes the spinlock only to sleep.         *)
TakesLate(t, c) == UNCHANGED cv_wchanlock
TakesFirst(t, c) == cv_wchanlock' = [cv_wchanlock EXCEPT ![c] = t]

cv_wait(t, c, l) ==
  /\ pc[t] = "run" /\ lk_holder[l] = t /\ cv_wchanlock[c] = Nobody
  /\ TakesFirst(t, c)
  /\ ReleaseLock(t, l, "release")
  /\ on' = [on EXCEPT ![t] = c]
  /\ relock' = [relock EXCEPT ![t] = l]
  /\ UNCHANGED <<sem_count, signals>>

cv_wait_sleeps(t) ==
  /\ pc[t] = "release"
  /\ wchan_sleep(t, on[t])
  /\ cv_wchanlock' = [cv_wchanlock EXCEPT ![on[t]] = Nobody]
  /\ UNCHANGED <<sem_count, lk_holder, relock, hangman, signals>>

(* cv_signal and cv_broadcast take n threads off; the lock is not looked   *)
(* at.                                                                     *)
Wakeup(t, c, n) ==
  /\ pc[t] = "run" /\ cv_wchanlock[c] = Nobody
  /\ TakeOff(c, n)
  /\ Woken(FirstOf(c, n), c, t, "run")
  /\ signals' = [signals EXCEPT ![c] = 1 - @]
  /\ UNCHANGED <<sem_count, lk_holder, cv_wchanlock, on, relock, hangman>>

cv_signal(t, c) == Wakeup(t, c, OneOf(c))
cv_broadcast(t, c) == Wakeup(t, c, Len(wchan[c]))

-----------------------------------------------------------------------------
Steps(t) ==
  \/ \E s \in Sem : P(t, s) \/ V(t, s)
  \/ \E l \in Lock : \/ lock_acquire(t, l) \/ lock_acquire_deadlocks(t, l)
                     \/ lock_acquire_again(t, l) \/ lock_release(t, l)
                     \/ \E c \in CV : cv_wait(t, c, l)
  \/ \E c \in CV : cv_signal(t, c) \/ cv_broadcast(t, c)
  \/ cv_wait_sleeps(t)

(* The detector panics the kernel.                                         *)
Next == deadlock = {} /\ \E t \in Thread : Steps(t)

Spec == Init /\ [][Next]_vars

-----------------------------------------------------------------------------
Sleepers(o) == {t \in Thread : pc[t] = "sleep" /\ on[t] = o}
Retrying(o) == {t \in Thread : pc[t] \in {"P", "lock"} /\ on[t] = o}

(* A count that sleepers could use is matched by threads already woken for *)
(* it, and a free lock with sleepers has one of them on its way, though    *)
(* others may take either first: no V and no lock_release is lost.         *)
NoLostWakeup ==
  /\ \A s \in Sem : Sleepers(s) # {} => sem_count[s] <= Cardinality(Retrying(s))
  /\ \A l \in Lock : Sleepers(l) # {} /\ lk_holder[l] = Nobody => Retrying(l) # {}

(* A thread waits for a lock when it is going to look at its holder or     *)
(* sleeps until it can.                                                    *)
WaitsFor(t, l) == pc[t] \in {"lock", "sleep"} /\ on[t] = l
Blocks(t, u) == \E l \in Lock : WaitsFor(t, l) /\ lk_holder[l] = u

(* Going round from t by who blocks whom.                                  *)
BlockedBy[n \in Nat, ts \in SUBSET Thread] ==
  IF n = 0 THEN ts
  ELSE BlockedBy[n - 1, ts \cup {u \in Thread : \E t \in ts : Blocks(t, u)}]
InCycle(t) == t \in BlockedBy[Cardinality(Thread), {u \in Thread : Blocks(t, u)}]

(* The detector is exact: threads never wait for each other in a cycle     *)
(* without its having said so (hangman_check), and it does not panic over  *)
(* less than a cycle: the thread it stopped holds the lock it asked for,   *)
(* or the holder of that lock waits, through others, for that thread.      *)
DeadlocksExact ==
  /\ \A t \in Thread : ~InCycle(t)
  /\ \A t \in Thread, l \in Lock : <<t, l>> \in deadlock =>
       lk_holder[l] # Nobody /\ t \in BlockedBy[Cardinality(Thread), {lk_holder[l]}]

(* Locks and condition variables implement a monitor.                      *)
M == INSTANCE Monitor WITH holder <- lk_holder,
       waiters <- [c \in CV |-> {t \in Thread : pc[t] \in {"release", "sleep"} /\ on[t] = c}]
ImplementsMonitor == M!Spec
=============================================================================
