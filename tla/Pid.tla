-------------------------------- MODULE Pid ---------------------------------
(***************************************************************************)
(* Processes and their ids: the process table of kern/proc/pid.c and its   *)
(* users, fork, _exit and waitpid (kern/proc/proc.c, kern/syscall/         *)
(* proc_syscalls.c) and the menu's way of running a program (kern/main/    *)
(* menu.c).  A process has one thread.  What a function does under pidlock *)
(* is one step; waiting gives the lock up and takes it again.              *)
(***************************************************************************)
EXTENDS Integers, FiniteSets

CONSTANTS
  Proc,            \* process structures
  kproc,
  Status,          \* exit statuses
  PROCS_MAX, PID_MAX

INVALID_PID == 0
KERNEL_PID == 1
PID_MIN == 2
PIDS == PID_MAX - PID_MIN + 1

ASSUME PidAssumption ==
  /\ PROCS_MAX \in Nat /\ PROCS_MAX > KERNEL_PID
  /\ PID_MAX \in Nat /\ PIDS >= PROCS_MAX
  /\ kproc \in Proc /\ "alive" \notin Status

VARIABLES
  pidinfo, nextpid, nprocs,   \* the process table
  p_pid,                      \* per process structure
  pc,                         \* per process: what its thread is doing
  newproc,                    \* per process: the child it is creating (or kproc)
  theirpid,                   \* per process: the pid it waits for, if any
  panicked                    \* the assertion that failed, if any

vars == <<pidinfo, nextpid, nprocs, p_pid, pc, newproc, theirpid, panicked>>
table == <<pidinfo, nextpid, nprocs>>

Slot == 0 .. PROCS_MAX - 1
pidinfo_create(pid, ppid) ==
  [pi_pid |-> pid, pi_ppid |-> ppid, pi_exited |-> FALSE, pi_exitstatus |-> "alive"]
NoInfo == pidinfo_create(INVALID_PID, INVALID_PID)

(* none: there is no such process; new: it has no thread yet; fork: it is  *)
(* giving its child one; prog: the menu is about to wait for a program;    *)
(* wait: in cv_wait; woken: on its way out of it; exit: has set its status *)
Doing == {"none", "new", "run", "fork", "prog", "wait", "woken", "exit"}

TypeOK ==
  /\ pidinfo \in [Slot -> [pi_pid : 0 .. PID_MAX, pi_ppid : 0 .. PID_MAX,
                           pi_exited : BOOLEAN, pi_exitstatus : Status \cup {"alive"}]]
  /\ nextpid \in PID_MIN .. PID_MAX /\ nprocs \in 0 .. PROCS_MAX
  /\ p_pid \in [Proc -> 0 .. PID_MAX] /\ pc \in [Proc -> Doing]
  /\ newproc \in [Proc -> Proc] /\ theirpid \in [Proc -> 0 .. PID_MAX]
  /\ panicked \in {"no", "proc_destroy", "thread_exit"}

Init ==
  /\ pidinfo = [i \in Slot |-> IF i = KERNEL_PID THEN pidinfo_create(KERNEL_PID, INVALID_PID)
                               ELSE NoInfo]
  /\ nextpid = PID_MIN /\ nprocs = 1
  /\ p_pid = [p \in Proc |-> IF p = kproc THEN KERNEL_PID ELSE INVALID_PID]
  /\ pc = [p \in Proc |-> IF p = kproc THEN "run" ELSE "none"]
  /\ newproc = [p \in Proc |-> kproc] /\ theirpid = [p \in Proc |-> INVALID_PID]
  /\ panicked = "no"

Used(i) == pidinfo[i] # NoInfo
SlotOf(pid) == pid % PROCS_MAX

(* pi_get finds an entry.                                                  *)
Known(pid) == Used(SlotOf(pid)) /\ pidinfo[SlotOf(pid)].pi_pid = pid
pi_get(pid) == pidinfo[SlotOf(pid)]

pi_drop(pid) ==
  /\ pidinfo' = [pidinfo EXCEPT ![SlotOf(pid)] = NoInfo]
  /\ nprocs' = nprocs - 1

-----------------------------------------------------------------------------
(* The pid k steps of inc_nextpid further on.  Mutant: no wrap to PID_MIN. *)
NoWrap(k) == nextpid + k
After(k) == PID_MIN + ((nextpid - PID_MIN + k) % PIDS)

Turns == 0 .. 2 * PROCS_MAX + 4
FreeAfter(k) == ~Used(SlotOf(After(k)))

(* Where the search of pid_alloc stops.                                    *)
Search == CHOOSE k \in Turns : FreeAfter(k) /\ \A j \in 0 .. k - 1 : ~FreeAfter(j)

(* p gets a pid for its new process q, and goes on to give it a thread.    *)
pid_alloc(p, q) ==
  LET pid == After(Search) IN
  /\ pc[p] = "run" /\ pc[q] = "none" /\ nprocs # PROCS_MAX
  /\ pidinfo' = [pidinfo EXCEPT ![SlotOf(pid)] = pidinfo_create(pid, p_pid[p])]
  /\ nprocs' = nprocs + 1
  /\ nextpid' = After(Search + 1)
  /\ p_pid' = [p_pid EXCEPT ![q] = pid]
  /\ pc' = [pc EXCEPT ![p] = "fork", ![q] = "new"]
  /\ newproc' = [newproc EXCEPT ![p] = q]
  /\ UNCHANGED <<theirpid, panicked>>

(* There is no memory for the entry: the search has moved on all the same. *)
pid_alloc_fails(p) ==
  /\ pc[p] = "run" /\ nprocs # PROCS_MAX
  /\ nextpid' = After(Search)
  /\ UNCHANGED <<pidinfo, nprocs, p_pid, pc, newproc, theirpid, panicked>>

(* thread_fork succeeds.  A user process goes on (sys_fork); the menu      *)
(* is to wait for the program (common_prog), which may be gone by then.    *)
thread_fork(p) ==
  LET q == newproc[p] IN
  /\ pc[p] = "fork"
  /\ pc' = [pc EXCEPT ![p] = IF p = kproc THEN "prog" ELSE "run", ![q] = "run"]
  /\ theirpid' = [theirpid EXCEPT ![p] = IF p = kproc THEN p_pid[q] ELSE @]
  /\ newproc' = [newproc EXCEPT ![p] = kproc]
  /\ UNCHANGED <<table, p_pid, panicked>>

(* proc_unfork, also when as_copy or filetable_copy fails.                 *)
proc_unfork(p) ==
  LET q == newproc[p] IN
  /\ pc[p] = "fork" /\ p # kproc
  /\ pi_drop(p_pid[q])
  /\ p_pid' = [p_pid EXCEPT ![q] = INVALID_PID]
  /\ pc' = [pc EXCEPT ![p] = "run", ![q] = "none"]
  /\ newproc' = [newproc EXCEPT ![p] = kproc]
  /\ UNCHANGED <<nextpid, theirpid, panicked>>

(* common_prog cleans up with proc_destroy, which asserts that the process *)
(* has no pid any more.                                                    *)
proc_destroy_fails ==
  /\ pc[kproc] = "fork"
  /\ panicked' = "proc_destroy"
  /\ UNCHANGED <<table, p_pid, pc, newproc, theirpid>>

-----------------------------------------------------------------------------
(* The entries once p has disowned its children.  Mutants: the children    *)
(* keep their parent; those that are dead are kept.                        *)
KeepChildren(p) == pidinfo
KeepDeadChildren(p) ==
  [i \in Slot |-> IF pidinfo[i].pi_ppid = p_pid[p]
                  THEN [pidinfo[i] EXCEPT !.pi_ppid = INVALID_PID] ELSE pidinfo[i]]
Disowned(p) ==
  [i \in Slot |-> IF pidinfo[i].pi_ppid # p_pid[p] THEN pidinfo[i]
                  ELSE IF pidinfo[i].pi_exited THEN NoInfo
                  ELSE [pidinfo[i] EXCEPT !.pi_ppid = INVALID_PID]]

(* The entry of p itself: kept for its parent if it has one.               *)
LastEntry(p, status) ==
  LET us == Disowned(p)[SlotOf(p_pid[p])] IN
  IF us.pi_ppid = INVALID_PID THEN NoInfo
  ELSE [us EXCEPT !.pi_exited = TRUE, !.pi_exitstatus = status]

(* Mutant: nobody is woken.                                                *)
NoBroadcast(p) == pc
cv_broadcast(p) ==
  [q \in Proc |-> IF pc[q] = "wait" /\ theirpid[q] = p_pid[p] THEN "woken" ELSE pc[q]]

(* How many entries are dropped.  Mutant: the children are not counted.    *)
DroppedSelf(p, status) == IF LastEntry(p, status) = NoInfo THEN 1 ELSE 0
Dropped(p, status) ==
  Cardinality({i \in Slot : Used(i) /\ Disowned(p)[i] = NoInfo})
    + (IF LastEntry(p, status) = NoInfo THEN 1 ELSE 0)

pid_setexitstatus(p, status) ==
  /\ pc[p] = "run" /\ p # kproc
  /\ pidinfo' = [Disowned(p) EXCEPT ![SlotOf(p_pid[p])] = LastEntry(p, status)]
  /\ nprocs' = nprocs - Dropped(p, status)
  /\ pc' = [cv_broadcast(p) EXCEPT ![p] = "exit"]
  /\ p_pid' = [p_pid EXCEPT ![p] = INVALID_PID]
  /\ UNCHANGED <<nextpid, newproc, theirpid, panicked>>

(* The rest of proc_exit: the process structure goes.                      *)
proc_exit(p) ==
  /\ pc[p] = "exit"
  /\ pc' = [pc EXCEPT ![p] = "none"]
  /\ UNCHANGED <<table, p_pid, newproc, theirpid, panicked>>

(* The thread could not join the kernel process, which nobody noticed      *)
(* until thread_exit.                                                      *)
proc_exit_nomem(p) ==
  /\ pc[p] = "exit"
  /\ panicked' = "thread_exit"
  /\ UNCHANGED <<table, p_pid, pc, newproc, theirpid>>

-----------------------------------------------------------------------------
(* pid_wait.  The parent takes the status and drops the entry ...          *)
Reap(p, pid) ==
  /\ pi_drop(pid)
  /\ pc' = [pc EXCEPT ![p] = "run"]
  /\ theirpid' = [theirpid EXCEPT ![p] = INVALID_PID]
  /\ UNCHANGED <<nextpid, p_pid, newproc, panicked>>

(* ... after waiting if need be.                                           *)
Sleep(p, pid) ==
  /\ pc' = [pc EXCEPT ![p] = "wait"]
  /\ theirpid' = [theirpid EXCEPT ![p] = pid]
  /\ UNCHANGED <<table, p_pid, newproc, panicked>>

(* A process waits for its own children only.  Mutant: for anyone.         *)
AnyChild(p, pid) == Known(pid)
OwnChild(p, pid) == Known(pid) /\ pi_get(pid).pi_ppid = p_pid[p]

CallsWait(p, pid) ==
  \/ pc[p] = "run" /\ p # kproc
  \/ pc[p] = "prog" /\ theirpid[p] = pid

pid_wait(p, pid) ==
  /\ CallsWait(p, pid) /\ pid # p_pid[p] /\ OwnChild(p, pid)
  /\ IF pi_get(pid).pi_exited THEN Reap(p, pid) ELSE Sleep(p, pid)

(* With WNOHANG it does not sleep.                                         *)
pid_wait_nohang(p, pid) ==
  /\ pc[p] = "run" /\ p # kproc /\ pid # p_pid[p] /\ OwnChild(p, pid)
  /\ pi_get(pid).pi_exited /\ Reap(p, pid)

(* After cv_wait, with pidlock again.                                      *)
pid_wait_returns(p) == pc[p] = "woken" /\ Reap(p, theirpid[p])

-----------------------------------------------------------------------------
(* A panic stops the kernel.                                               *)
Next ==
  /\ panicked = "no"
  /\ \E p \in Proc :
       \/ \E q \in Proc : pid_alloc(p, q)
       \/ \E s \in Status : pid_setexitstatus(p, s)
       \/ \E pid \in KERNEL_PID .. PID_MAX : pid_wait(p, pid) \/ pid_wait_nohang(p, pid)
       \/ pid_alloc_fails(p) \/ thread_fork(p) \/ proc_unfork(p) \/ proc_destroy_fails
       \/ proc_exit(p) \/ proc_exit_nomem(p) \/ pid_wait_returns(p)

Spec == Init /\ [][Next]_vars

(* Every thread is scheduled, and every program exits if it gets to run    *)
(* again and again.                                                        *)
Exits(p) == \E s \in Status : pid_setexitstatus(p, s)
Waits(p) == \E pid \in KERNEL_PID .. PID_MAX : pid_wait(p, pid)
FairSpec ==
  Spec /\ \A p \in Proc : /\ WF_vars(thread_fork(p)) /\ WF_vars(proc_exit(p))
                          /\ WF_vars(pid_wait_returns(p)) /\ WF_vars(Waits(p) /\ pc[p] = "prog")
                          /\ SF_vars(Exits(p))

-----------------------------------------------------------------------------
(* Processes with a pid.                                                   *)
HasPid(p) == pc[p] \notin {"none", "exit"}

(* Every process that has not exited has an entry of its own, so that the  *)
(* assertions of pid_unalloc and pid_setexitstatus hold, and nprocs counts *)
(* the entries, which is what makes the search of pid_alloc end.           *)
PidsSound ==
  /\ \A p \in Proc : HasPid(p) => Known(p_pid[p]) /\ ~pi_get(p_pid[p]).pi_exited
  /\ \A p, q \in Proc : HasPid(p) /\ HasPid(q) /\ p_pid[p] = p_pid[q] => p = q
  /\ nprocs = Cardinality({i \in Slot : Used(i)})

(* No entry is forgotten: one whose process has exited has a parent that   *)
(* can still wait for it.                                                  *)
NothingForgotten ==
  \A i \in Slot : Used(i) =>
    \/ \E p \in Proc : HasPid(p) /\ p_pid[p] = pidinfo[i].pi_pid
    \/ /\ pidinfo[i].pi_exited
       /\ \E p \in Proc : HasPid(p) /\ p_pid[p] = pidinfo[i].pi_ppid

(* A process in cv_wait waits for a child that has not exited, and once    *)
(* woken finds it exited: the code does not look again ("don't need to     *)
(* loop on this").                                                         *)
WaitersSound ==
  \A p \in Proc : pc[p] \in {"wait", "woken"} =>
    /\ OwnChild(p, theirpid[p])
    /\ pi_get(theirpid[p]).pi_exited <=> pc[p] = "woken"

(* The menu always finds the program it started: the error that would      *)
(* leave its status uninitialized does not occur.                          *)
MenuFindsProgram == pc[kproc] = "prog" => OwnChild(kproc, theirpid[kproc])

(* The table is right: entries and processes match, none is forgotten, and *)
(* those who wait, the menu included, wait for a child they have.          *)
PidTableSound ==
  TypeOK /\ PidsSound /\ NothingForgotten /\ WaitersSound /\ MenuFindsProgram

(* The tree that the table holds.                                          *)
tree ==
  [pid \in {pidinfo[i].pi_pid : i \in {j \in Slot : Used(j)}} |->
     [parent |-> pi_get(pid).pi_ppid, status |-> pi_get(pid).pi_exitstatus]]
Tree == INSTANCE ProcTree WITH
  Pid <- KERNEL_PID .. PID_MAX, Kernel <- KERNEL_PID, procs <- tree

(* The process table does what fork, _exit and waitpid promise.            *)
Refines == Tree!Spec

(* If programs exit, no process waits for ever (but for a panic).          *)
WaitEnds == \A p \in Proc : pc[p] \in {"prog", "wait"} ~> (pc[p] = "run" \/ panicked # "no")
=============================================================================
