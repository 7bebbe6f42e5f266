------------------------------ MODULE Threads -------------------------------
(***************************************************************************)
(* The thread system (kern/thread/thread.c, threadlist.c, clock.c): run    *)
(* queues, wait channels, zombies, the idle loop and the interprocessor    *)
(* interrupts that end it, and thread migration.                           *)
(*                                                                         *)
(* A step is what a processor does under one hold of a run queue lock or a *)
(* wait channel lock.  thread_switch holds the run queue lock of its       *)
(* processor until it has chosen a thread or goes idle, so the placing of  *)
(* the old thread and the choice of the new one are one step; waking a     *)
(* thread takes two locks in turn and migration takes many.                *)
(***************************************************************************)
EXTENDS Integers, Sequences

CONSTANTS
  Thread,     \* thread structures (and their stacks)
  WChan,      \* wait channels
  NCPU,       \* number of processors, in allcpus order
  Null

CPU == 0 .. NCPU - 1

OneEach == {f \in [CPU -> Thread] : \A c, d \in CPU : f[c] = f[d] => c = d}
Boot == CHOOSE f \in OneEach : TRUE   \* the thread each processor starts with

ASSUME ThreadsAssumption ==
  NCPU \in Nat \ {0} /\ OneEach # {} /\ Null \notin Thread

VARIABLES
  curthread,  \* per processor; an idle one is still on this thread's stack
  c_isidle,
  irq,        \* per processor: an interprocessor interrupt is asserted
  woken,      \* per processor: cpu_idle has taken an interrupt
  runqueue,   \* per processor: c_runqueue
  zombies,    \* per processor: c_zombies
  waking,     \* per processor: threads taken off a channel, not yet queued
  mig,        \* per processor: where its clock interrupt is
  wc_threads, \* per wait channel
  t_cpu, t_state,
  newthread   \* per thread: the thread it is forking

vars == <<curthread, c_isidle, irq, woken, runqueue, zombies, waking, mig,
          wc_threads, t_cpu, t_state, newthread>>

Phase == {"none", "count", "pull", "send", "yield"}
NoMig == [phase |-> "none", i |-> 0, total |-> 0, mine |-> 0,
          share |-> 0, to_send |-> 0, victims |-> <<>>]

TypeOK ==
  /\ curthread \in [CPU -> Thread]
  /\ c_isidle \in [CPU -> BOOLEAN] /\ irq \in [CPU -> BOOLEAN] /\ woken \in [CPU -> BOOLEAN]
  /\ runqueue \in [CPU -> Seq(Thread)] /\ waking \in [CPU -> Seq(Thread)]
  /\ zombies \in [CPU -> SUBSET Thread]
  /\ wc_threads \in [WChan -> Seq(Thread)]
  /\ t_cpu \in [Thread -> CPU]
  /\ t_state \in [Thread -> {"none", "S_READY", "S_RUN", "S_SLEEP", "S_ZOMBIE"}]
  /\ newthread \in [Thread -> Thread \cup {Null}]
  /\ mig \in [CPU -> [phase : Phase, i : 0 .. NCPU, total : Nat, mine : Nat,
                      share : Nat, to_send : Nat, victims : Seq(Thread)]]

(* Every processor has hatched and runs its first thread.                  *)
Init ==
  /\ curthread = Boot
  /\ c_isidle = [c \in CPU |-> FALSE] /\ irq = [c \in CPU |-> FALSE]
  /\ woken = [c \in CPU |-> FALSE]
  /\ runqueue = [c \in CPU |-> <<>>] /\ waking = [c \in CPU |-> <<>>]
  /\ zombies = [c \in CPU |-> {}] /\ wc_threads = [w \in WChan |-> <<>>]
  /\ mig = [c \in CPU |-> NoMig]
  /\ t_cpu = [t \in Thread |-> IF \E c \in CPU : Boot[c] = t
                               THEN CHOOSE c \in CPU : Boot[c] = t ELSE 0]
  /\ t_state = [t \in Thread |-> IF \E c \in CPU : Boot[c] = t THEN "S_RUN" ELSE "none"]
  /\ newthread = [t \in Thread |-> Null]

(* Processor c is in no interrupt handler; and it runs its thread.         *)
Free(c) == mig[c].phase = "none" /\ waking[c] = <<>>
Running(c) == Free(c) /\ ~c_isidle[c]

-----------------------------------------------------------------------------
(* thread_switch, from the choice of the next thread.  q, z and state are  *)
(* the run queue, zombies and thread states once the old thread is placed. *)

(* The next thread runs, and first destroys the zombies (exorcise).        *)
Dispatch(c, q, z, state) ==
  /\ curthread' = [curthread EXCEPT ![c] = Head(q)]
  /\ runqueue' = [runqueue EXCEPT ![c] = Tail(q)]
  /\ c_isidle' = [c_isidle EXCEPT ![c] = FALSE]
  /\ zombies' = [zombies EXCEPT ![c] = {}]
  /\ t_state' = [t \in Thread |-> IF t = Head(q) THEN "S_RUN"
                                  ELSE IF t \in z THEN "none" ELSE state[t]]

(* No thread to run: idle on the stack of the old one.                     *)
GoIdle(c, z, state) ==
  /\ runqueue' = [runqueue EXCEPT ![c] = <<>>]
  /\ c_isidle' = [c_isidle EXCEPT ![c] = TRUE]
  /\ zombies' = [zombies EXCEPT ![c] = z]
  /\ t_state' = state
  /\ UNCHANGED curthread

Switch(c, q, z, state) ==
  IF q = <<>> THEN GoIdle(c, z, state) ELSE Dispatch(c, q, z, state)

Become(c, s) == [t_state EXCEPT ![curthread[c]] = s]

(* The current thread goes to the end of its run queue, if there is        *)
(* another.  An idle processor has none.                                   *)
Yield(c) ==
  IF c_isidle[c] \/ runqueue[c] = <<>>
  THEN UNCHANGED <<curthread, runqueue, c_isidle, zombies, t_state>>
  ELSE Switch(c, Append(runqueue[c], curthread[c]), zombies[c], Become(c, "S_READY"))

thread_yield(c) ==
  /\ Running(c) /\ runqueue[c] # <<>>
  /\ Yield(c)
  /\ UNCHANGED <<irq, woken, waking, mig, wc_threads, t_cpu, newthread>>

wchan_sleep(c, w) ==
  /\ Running(c) /\ newthread[curthread[c]] = Null
  /\ wc_threads' = [wc_threads EXCEPT ![w] = Append(@, curthread[c])]
  /\ Switch(c, runqueue[c], zombies[c], Become(c, "S_SLEEP"))
  /\ UNCHANGED <<irq, woken, waking, mig, t_cpu, newthread>>

thread_exit(c) ==
  /\ Running(c) /\ newthread[curthread[c]] = Null
  /\ Switch(c, runqueue[c], zombies[c] \cup {curthread[c]}, Become(c, "S_ZOMBIE"))
  /\ UNCHANGED <<irq, woken, waking, mig, wc_threads, t_cpu, newthread>>

-----------------------------------------------------------------------------
(* Mutants: a wakeup that does not interrupt an idle processor; one that   *)
(* leaves the state alone.                                                 *)
MakeRunnableQuietly(c, t) ==
  /\ t_state' = [t_state EXCEPT ![t] = "S_READY"]
  /\ runqueue' = [runqueue EXCEPT ![t_cpu[t]] = Append(@, t)]
  /\ UNCHANGED irq

(* Processor c queues thread t on the processor it belongs to.             *)
thread_make_runnable(c, t) ==
  LET target == t_cpu[t] IN
  /\ t_state' = [t_state EXCEPT ![t] = "S_READY"]
  /\ runqueue' = [runqueue EXCEPT ![target] = Append(@, t)]
  /\ irq' = [irq EXCEPT ![target] = @ \/ (c_isidle[target] /\ target # c)]

(* thread_fork: the new thread is given the processor of its parent, and   *)
(* queued later, when the parent may be on another.                        *)
thread_create(c, t) ==
  /\ Running(c) /\ newthread[curthread[c]] = Null /\ t_state[t] = "none"
  /\ newthread' = [newthread EXCEPT ![curthread[c]] = t]
  /\ t_cpu' = [t_cpu EXCEPT ![t] = c]
  /\ t_state' = [t_state EXCEPT ![t] = "S_READY"]
  /\ UNCHANGED <<curthread, c_isidle, irq, woken, runqueue, zombies, waking, mig, wc_threads>>

thread_fork(c) ==
  /\ Running(c) /\ newthread[curthread[c]] # Null
  /\ thread_make_runnable(c, newthread[curthread[c]])
  /\ newthread' = [newthread EXCEPT ![curthread[c]] = Null]
  /\ UNCHANGED <<curthread, c_isidle, woken, zombies, waking, mig, wc_threads, t_cpu>>

(* ... or there is no memory for it after all.                             *)
thread_fork_fails(c) ==
  LET t == newthread[curthread[c]] IN
  /\ Running(c) /\ t # Null
  /\ t_state' = [t_state EXCEPT ![t] = "none"]
  /\ newthread' = [newthread EXCEPT ![curthread[c]] = Null]
  /\ UNCHANGED <<curthread, c_isidle, irq, woken, runqueue, zombies, waking, mig, wc_threads, t_cpu>>

(* A thread, or an interrupt handler, takes sleepers off a channel.  An    *)
(* idle processor has taken an interrupt to be here.                       *)
Wake(c, w, n) ==
  /\ Free(c)
  /\ waking' = [waking EXCEPT ![c] = SubSeq(wc_threads[w], 1, n)]
  /\ wc_threads' = [wc_threads EXCEPT ![w] = SubSeq(@, n + 1, Len(@))]
  /\ woken' = [woken EXCEPT ![c] = @ \/ c_isidle[c]]
  /\ UNCHANGED <<curthread, c_isidle, irq, runqueue, zombies, mig, t_cpu, t_state, newthread>>

wchan_wakeone(c, w) == wc_threads[w] # <<>> /\ Wake(c, w, 1)
wchan_wakeall(c, w) == wc_threads[w] # <<>> /\ Wake(c, w, Len(wc_threads[w]))

(* ... and queues them, one run queue lock at a time.                      *)
wchan_wake_next(c) ==
  /\ waking[c] # <<>>
  /\ thread_make_runnable(c, Head(waking[c]))
  /\ waking' = [waking EXCEPT ![c] = Tail(@)]
  /\ UNCHANGED <<curthread, c_isidle, woken, zombies, mig, wc_threads, t_cpu, newthread>>

-----------------------------------------------------------------------------
(* The idle loop.                                                          *)

(* Mutant: the idle loop does not look at the queue after an interrupt.    *)
DropInterrupt(c) ==
  /\ Free(c) /\ irq[c]
  /\ irq' = [irq EXCEPT ![c] = FALSE]
  /\ UNCHANGED <<curthread, c_isidle, woken, runqueue, zombies, waking, mig,
                 wc_threads, t_cpu, t_state, newthread>>

(* The interrupt is taken, and its line is cleared after the handler.      *)
interprocessor_interrupt(c) ==
  /\ Free(c) /\ irq[c]
  /\ irq' = [irq EXCEPT ![c] = FALSE]
  /\ woken' = [woken EXCEPT ![c] = c_isidle[c]]
  /\ UNCHANGED <<curthread, c_isidle, runqueue, zombies, waking, mig,
                 wc_threads, t_cpu, t_state, newthread>>

(* After cpu_idle thread_switch looks at the run queue again.              *)
cpu_idle(c) ==
  /\ Free(c) /\ c_isidle[c] /\ woken[c]
  /\ woken' = [woken EXCEPT ![c] = FALSE]
  /\ Switch(c, runqueue[c], zombies[c], t_state)
  /\ UNCHANGED <<irq, waking, mig, wc_threads, t_cpu, newthread>>

-----------------------------------------------------------------------------
(* The clock interrupt: every sixteenth considers migration, every one     *)
(* yields.                                                                 *)
others == <<curthread, c_isidle, irq, woken, waking, zombies, wc_threads, newthread>>

hardclock(c) ==
  /\ Free(c)
  /\ \E phase \in {"count", "yield"} : mig' = [mig EXCEPT ![c].phase = phase]
  /\ UNCHANGED <<others, runqueue, t_cpu, t_state>>

hardclock_ends(c) ==
  /\ mig[c].phase = "yield"
  /\ mig' = [mig EXCEPT ![c] = NoMig]
  /\ woken' = [woken EXCEPT ![c] = @ \/ c_isidle[c]]
  /\ Yield(c)
  /\ UNCHANGED <<irq, waking, wc_threads, t_cpu, newthread>>

DivRoundUp(n, k) == (n + k - 1) \div k

(* The threads processor c counts as its own.  Mutant: those of all.       *)
MineSummed(c, m) == m.mine + Len(runqueue[m.i])
Mine(c, m) == IF m.i = c THEN Len(runqueue[c]) ELSE m.mine

(* Mutant: a processor below its share goes on.                            *)
AlwaysSends(mine, share) == FALSE
HasNoneToSend(mine, share) == mine < share

(* thread_consider_migration adds up the run queues, one lock at a time,   *)
(* and goes on if its own is longer than its share.                        *)
count_runqueue(c) ==
  LET m == mig[c]
      total == m.total + Len(runqueue[m.i])
      mine  == Mine(c, m)
      share == DivRoundUp(total, NCPU)
  IN  /\ m.phase = "count"
      /\ mig' = [mig EXCEPT ![c] =
           IF m.i < NCPU - 1 THEN [m EXCEPT !.i = @ + 1, !.total = total, !.mine = mine]
           ELSE IF HasNoneToSend(mine, share) THEN [NoMig EXCEPT !.phase = "yield"]
           ELSE [NoMig EXCEPT !.phase = "pull", !.share = share, !.to_send = mine - share]]
      /\ UNCHANGED <<others, runqueue, t_cpu, t_state>>

LeastOf(a, b) == IF a <= b THEN a ELSE b

(* The last to_send threads leave the run queue.                           *)
pull_victims(c) ==
  LET m == mig[c]
      keep == Len(runqueue[c]) - m.to_send
  IN  /\ m.phase = "pull"
      /\ runqueue' = [runqueue EXCEPT ![c] = SubSeq(@, 1, keep)]
      /\ mig' = [mig EXCEPT ![c].phase = "send",
                            ![c].victims = SubSeq(runqueue[c], keep + 1, Len(runqueue[c]))]
      /\ UNCHANGED <<others, t_cpu, t_state>>

(* How far processor c gets with its victims on a run queue with room for  *)
(* some: its own current thread, if it comes up, is put back at the end.   *)
(* Mutant: it is sent like any other.                                      *)
MeetsSelfNever(c, room) == FALSE
MeetsSelf(c, room) ==
  \E k \in 1 .. LeastOf(room, mig[c].to_send) : mig[c].victims[k] = curthread[c]

(* Element k of a list is taken out and put at the end.                    *)
PutLast(s, k) == SubSeq(s, 1, k - 1) \o SubSeq(s, k + 1, Len(s)) \o <<s[k]>>

Offered(c, room) ==
  LET v == mig[c].victims IN
  IF MeetsSelf(c, room) THEN PutLast(v, CHOOSE k \in 1 .. Len(v) : v[k] = curthread[c]) ELSE v

(* The threads sent to i belong to it.                                     *)
SetCPU(ts, i) == [t \in Thread |-> IF t \in ts THEN i ELSE t_cpu[t]]

send_victims(c) ==
  LET m == mig[c]
      i == m.i
      room == IF i = c \/ m.share <= Len(runqueue[i]) THEN 0 ELSE m.share - Len(runqueue[i])
      left == IF MeetsSelf(c, room) THEN m.to_send - 1 ELSE m.to_send
      n == LeastOf(room, left)
      offered == Offered(c, room)
      sent == SubSeq(offered, 1, n)
  IN  /\ m.phase = "send" /\ i < NCPU /\ m.to_send > 0
      /\ runqueue' = [runqueue EXCEPT ![i] = @ \o sent]
      /\ t_cpu' = SetCPU({offered[k] : k \in 1 .. n}, i)
      /\ irq' = [irq EXCEPT ![i] = @ \/ (n > 0 /\ c_isidle[i])]
      /\ mig' = [mig EXCEPT ![c].i = @ + 1, ![c].to_send = left - n,
                            ![c].victims = SubSeq(offered, n + 1, Len(offered))]
      /\ UNCHANGED <<curthread, c_isidle, woken, waking, zombies, wc_threads, newthread, t_state>>

(* Those nobody had room for go back.  Mutant: they are forgotten.         *)
forget_victims(c) ==
  /\ mig[c].phase = "send" /\ (mig[c].i = NCPU \/ mig[c].to_send = 0)
  /\ mig' = [mig EXCEPT ![c] = [NoMig EXCEPT !.phase = "yield"]]
  /\ UNCHANGED <<others, runqueue, t_cpu, t_state>>
return_victims(c) ==
  /\ mig[c].phase = "send" /\ (mig[c].i = NCPU \/ mig[c].to_send = 0)
  /\ runqueue' = [runqueue EXCEPT ![c] = @ \o mig[c].victims]
  /\ mig' = [mig EXCEPT ![c] = [NoMig EXCEPT !.phase = "yield"]]
  /\ UNCHANGED <<others, t_cpu, t_state>>

-----------------------------------------------------------------------------
Next ==
  \E c \in CPU :
    \/ \E t \in Thread : thread_create(c, t)
    \/ \E w \in WChan : wchan_sleep(c, w) \/ wchan_wakeone(c, w) \/ wchan_wakeall(c, w)
    \/ thread_fork(c) \/ thread_fork_fails(c) \/ thread_yield(c) \/ thread_exit(c) \/ wchan_wake_next(c)
    \/ interprocessor_interrupt(c) \/ cpu_idle(c)
    \/ hardclock(c) \/ hardclock_ends(c) \/ count_runqueue(c)
    \/ pull_victims(c) \/ send_victims(c) \/ return_victims(c)

Spec == Init /\ [][Next]_vars

(* A processor finishes what it does in a handler and takes a pending      *)
(* interrupt.  cpu_idle enables interrupts for an instant only, so it      *)
(* returns however many arrive.  Nothing else is promised: not even that   *)
(* the clock ticks.                                                        *)
Handlers(c) ==
  \/ wchan_wake_next(c) \/ interprocessor_interrupt(c) \/ hardclock_ends(c)
  \/ count_runqueue(c) \/ pull_victims(c) \/ send_victims(c) \/ return_victims(c)

FairSpec == Spec /\ \A c \in CPU : WF_vars(Handlers(c)) /\ SF_vars(cpu_idle(c))

-----------------------------------------------------------------------------
At(s, t) == {k \in 1 .. Len(s) : s[k] = t}

(* Where a thread is.                                                      *)
Runs(t) == {<<"running", c>> : c \in {d \in CPU : ~c_isidle[d] /\ curthread[d] = t}}
Queues(t) == UNION {{<<"runqueue", c, k>> : k \in At(runqueue[c], t)} : c \in CPU}
Wakes(t) == UNION {{<<"waking", c, k>> : k \in At(waking[c], t)} : c \in CPU}
Victims(t) == UNION {{<<"victim", c, k>> : k \in At(mig[c].victims, t)} : c \in CPU}
Sleeps(t) == UNION {{<<"wchan", w, k>> : k \in At(wc_threads[w], t)} : w \in WChan}
Dies(t) == {<<"zombie", c>> : c \in {d \in CPU : t \in zombies[d]}}
Starts(t) == {<<"new", p>> : p \in {q \in Thread : newthread[q] = t}}
Places(t) ==
  Runs(t) \cup Queues(t) \cup Wakes(t) \cup Victims(t) \cup Sleeps(t) \cup Dies(t) \cup Starts(t)

(* Sleeping, waking, forking, exiting and migrating neither lose a thread  *)
(* nor put it in two places, and no thread structure is freed while it is  *)
(* in one.                                                                 *)
ThreadInOnePlace ==
  \A t \in Thread : IF t_state[t] = "none" THEN Places(t) = {}
                    ELSE \E x \in Places(t) : Places(t) = {x}

(* No two processors are ever on the same stack, also when one of them     *)
(* idles on the stack of a thread that sleeps, has been woken or is dead,  *)
(* and no processor is on a stack that has been freed.                     *)
StacksExclusive ==
  /\ \A c, d \in CPU : curthread[c] = curthread[d] => c = d
  /\ \A c \in CPU : t_state[curthread[c]] # "none"

(* An idle processor with a thread in its queue is about to look at it:    *)
(* the comment in thread_switch says the queue need not be unlocked        *)
(* atomically with idling.                                                 *)
NoLostWakeup ==
  \A c \in CPU : c_isidle[c] /\ runqueue[c] # <<>> =>
    irq[c] \/ woken[c] \/ mig[c].phase # "none" \/ waking[c] # <<>>

(* Migration never takes a thread from an empty list: the counts it read   *)
(* before it took the lock again are still good enough.                    *)
MigrationFindsThreads ==
  \A c \in CPU :
    /\ mig[c].phase = "pull" => mig[c].to_send <= Len(runqueue[c])
    /\ mig[c].phase = "send" => mig[c].to_send <= Len(mig[c].victims)

(* No thread is lost, doubled, freed in use or left in the queue of a      *)
(* processor that sleeps, and migration finds the threads it counted.      *)
ThreadsKept == TypeOK /\ ThreadInOnePlace /\ NoLostWakeup /\ MigrationFindsThreads

(* A thread queued on an idle processor gets it started without waiting    *)
(* for the clock.                                                          *)
IdleEnds ==
  \A c \in CPU : (c_isidle[c] /\ runqueue[c] # <<>>) ~> (~c_isidle[c] \/ runqueue[c] = <<>>)

=============================================================================
