--------------------------- MODULE PidTreeProofs ----------------------------
(***************************************************************************)
(* Proofs about Pid, concluded: the steps that take one entry out of the   *)
(* table, what follows for every behaviour, and that the table implements  *)
(* ProcTree, all for any number of processes, pids and slots.              *)
(***************************************************************************)
EXTENDS PidProofs

(* What dropping the entry of a pid does, once no process has that pid and *)
(* no entry names it as its parent.                                        *)
LEMMA EntryDropped ==
  ASSUME PidInv, TypeOK', KernelStays', NEW x \in 1 .. PID_MAX, Known(x), pi_drop(x),
         \A r \in Proc : HasPid(r)' <=> HasPid(r) /\ p_pid[r] # x,
         \A r \in Proc : HasPid(r)' => p_pid'[r] = p_pid[r],
         \A i \in Slot : Used(i) => pidinfo[i].pi_ppid # x,
         \A r \in Proc : pc'[r] = "new" => pc[r] = "new",
         \A r \in Proc : pc'[r] = "fork" =>
           /\ pc[r] = "fork" /\ newproc'[r] = newproc[r]
           /\ pc'[newproc[r]] = "new",
         \A r \in Proc : pc'[r] \in {"prog", "wait", "woken"} =>
           pc'[r] = pc[r] /\ theirpid'[r] = theirpid[r] /\ theirpid[r] # x
  PROVE  PidInv'
<1> USE DEF PidInv, PidTableSound
<1> DEFINE d == SlotOf(x)
           U == {i \in Slot : Used(i)}
<1>1. /\ d \in Slot /\ Used(d) /\ pidinfo[d].pi_pid = x
      /\ pidinfo' = [pidinfo EXCEPT ![d] = NoInfo] /\ nprocs' = nprocs - 1
  BY Slots DEF Known, pi_drop
<1> HIDE DEF d
<1>2. pidinfo'[d] = NoInfo /\ \A i \in Slot : i # d => pidinfo'[i] = pidinfo[i]
  BY <1>1 DEF TypeOK
<1>3. \A i \in Slot : Used(i)' <=> (Used(i) /\ i # d)
  BY <1>2 DEF Used
<1>4. \A i \in Slot : Used(i)' => pidinfo[i].pi_pid # x
  BY <1>3 DEF EntriesPlaced, d
<1>5. \A r \in Proc : HasPid(r)' => SlotOf(p_pid[r]) \in Slot /\ SlotOf(p_pid[r]) # d
  BY <1>1, OwnEntry
<1>6. PidsSound'
  <2>1. ASSUME NEW r \in Proc, HasPid(r)'
        PROVE  Known(p_pid[r])' /\ ~pi_get(p_pid[r])'.pi_exited
    BY <2>1, <1>2, <1>3, <1>5, OwnEntry DEF Known, pi_get
  <2>2. ASSUME NEW r \in Proc, NEW t \in Proc, HasPid(r)', HasPid(t)', p_pid'[r] = p_pid'[t]
        PROVE  r = t
    BY <2>2 DEF PidsSound
  <2>3. nprocs' = Cardinality({i \in Slot : Used(i)}')
    <3>1. {i \in Slot : Used(i)}' = U \ {d}
      BY <1>1, <1>3
    <3>2. IsFiniteSet(U) /\ d \in U
      BY <1>1, Slots, FS_Subset
    <3>3. Cardinality(U \ {d}) = Cardinality(U) - 1
      BY Zenon, <3>2, FS_RemoveElement
    <3> QED BY Zenon, <1>1, <3>1, <3>3 DEF PidsSound
  <2> QED BY <2>1, <2>2, <2>3 DEF PidsSound
<1>7. ASSUME NEW i \in Slot, Used(i)'
      PROVE  /\ Used(i) /\ pidinfo'[i] = pidinfo[i]
             /\ \A r \in Proc : HasPid(r) /\ p_pid[r] \in {pidinfo[i].pi_pid, pidinfo[i].pi_ppid}
                  => HasPid(r)' /\ p_pid'[r] = p_pid[r]
  BY <1>2, <1>3, <1>4, <1>7
<1>8. NothingForgotten'
  BY <1>7 DEF NothingForgotten
<1>9. EntriesPlaced'
  BY <1>7 DEF EntriesPlaced
<1>10. ForksOwnChild'
  <2> SUFFICES ASSUME NEW r \in Proc, pc'[r] = "fork"
               PROVE  pc'[newproc'[r]] = "new" /\ pi_get(p_pid[newproc[r]])'.pi_ppid = p_pid'[r]
    BY DEF ForksOwnChild
  <2> DEFINE w == newproc[r]
  <2>1. w \in Proc /\ newproc'[r] = w /\ pc'[w] = "new" /\ pc[r] = "fork"
    BY DEF TypeOK
  <2>2. HasPid(w)' /\ HasPid(r)'
    BY <2>1 DEF HasPid
  <2>3. pidinfo'[SlotOf(p_pid[w])] = pidinfo[SlotOf(p_pid[w])]
    BY <1>2, <1>5, <2>1, <2>2
  <2>4. p_pid'[w] = p_pid[w] /\ p_pid'[r] = p_pid[r] /\ pi_get(p_pid[w]).pi_ppid = p_pid[r]
    BY <2>1, <2>2 DEF ForksOwnChild
  <2> QED BY <2>1, <2>3, <2>4 DEF pi_get
<1>11. NewChildless'
  <2> SUFFICES ASSUME NEW r \in Proc, NEW i \in Slot, pc'[r] = "new", Used(i)'
               PROVE  pidinfo'[i].pi_ppid # p_pid'[r]
    BY DEF NewChildless
  <2>1. HasPid(r)'
    BY DEF HasPid
  <2> QED BY <1>7, <2>1 DEF NewChildless
<1>12. ASSUME NEW r \in Proc, NEW y \in 0 .. PID_MAX, OwnChild(r, y), HasPid(r)', y # x
       PROVE  OwnChild(r, y)' /\ pi_get(y)' = pi_get(y)
  <2>1. SlotOf(y) \in Slot /\ SlotOf(y) # d
    BY <1>1, <1>12, Slots DEF OwnChild, Known
  <2>2. pidinfo'[SlotOf(y)] = pidinfo[SlotOf(y)] /\ (Used(SlotOf(y))' <=> Used(SlotOf(y)))
    BY <2>1, <1>2, <1>3
  <2> QED BY <2>2, <1>12 DEF OwnChild, Known, pi_get
<1>13. ASSUME NEW r \in Proc, pc'[r] \in {"wait", "woken", "prog"}
       PROVE  HasPid(r)' /\ theirpid[r] \in 0 .. PID_MAX
  BY <1>13 DEF HasPid, TypeOK
<1>14. WaitersSound'
  BY <1>12, <1>13 DEF WaitersSound
<1>15. MenuFindsProgram'
  BY <1>12, <1>13, PidAssumption DEF MenuFindsProgram
<1> QED BY <1>6, <1>8, <1>9, <1>10, <1>11, <1>14, <1>15

(* nprocs does not fall below zero.                                        *)
LEMMA SomeEntry ==
  ASSUME PidInv, NEW x \in 0 .. PID_MAX, Known(x)
  PROVE  nprocs - 1 \in 0 .. PROCS_MAX
<1>1. SlotOf(x) \in {i \in Slot : Used(i)} /\ IsFiniteSet({i \in Slot : Used(i)})
  BY Slots, FS_Subset DEF Known
<1>2. nprocs # 0
  BY <1>1, FS_EmptySet DEF PidInv, PidTableSound, PidsSound
<1> QED BY <1>2, PidAssumption DEF PidInv, PidTableSound, TypeOK

(* The fork is undone.                                                     *)
LEMMA StepUnfork ==
  ASSUME PidInv, NEW p \in Proc, proc_unfork(p)
  PROVE  PidInv'
<1> USE DEF PidInv, PidTableSound
<1> DEFINE q == newproc[p]
           x == p_pid[q]
<1>1. /\ q \in Proc /\ pc[q] = "new" /\ pc[p] = "fork" /\ q # p /\ q # kproc
      /\ p # kproc /\ kproc \in Proc
  BY PidAssumption DEF TypeOK, ForksOwnChild, proc_unfork, KernelStays
<1>2. HasPid(q) /\ HasPid(p)
  BY <1>1 DEF HasPid
<1>3. x \in 1 .. PID_MAX /\ Known(x) /\ pi_drop(x) /\ x \in 0 .. PID_MAX
  BY <1>1, <1>2, OwnEntry DEF Known, proc_unfork
<1>4. /\ p_pid' = [p_pid EXCEPT ![q] = INVALID_PID]
      /\ pc' = [pc EXCEPT ![p] = "run", ![q] = "none"]
      /\ newproc' = [newproc EXCEPT ![p] = kproc]
      /\ UNCHANGED <<nextpid, theirpid, panicked>>
      /\ pidinfo' = [pidinfo EXCEPT ![SlotOf(x)] = NoInfo] /\ nprocs' = nprocs - 1
  BY DEF proc_unfork, pi_drop
<1>5. \A r \in Proc : pc[r] = "fork" /\ newproc[r] = q => r = p
  BY <1>1, <1>2 DEF ForksOwnChild, PidsSound, HasPid
<1>6. /\ \A r \in Proc : HasPid(r) /\ p_pid[r] = x => r = q
      /\ \A i \in Slot : Used(i) => pidinfo[i].pi_ppid # x
  BY <1>1, <1>2 DEF PidsSound, NewChildless
<1> HIDE DEF x, q
<1>7. TypeOK'
  <2>1. pc' \in [Proc -> Doing]
    BY <1>1, <1>4 DEF TypeOK, Doing
  <2>2. newproc' \in [Proc -> Proc] /\ p_pid' \in [Proc -> 0 .. PID_MAX]
    BY <1>1, <1>4, PidAssumption DEF TypeOK, INVALID_PID
  <2>3. nprocs' \in 0 .. PROCS_MAX
    BY <1>3, <1>4, SomeEntry
  <2>4. pidinfo' \in [Slot -> Entry]
    BY Zenon, <1>4, EntriesTyped DEF TypeOK, Entry
  <2> QED BY <1>4, <2>1, <2>2, <2>3, <2>4 DEF TypeOK, Entry
<1>8. /\ pc'[p] = "run" /\ pc'[q] = "none" /\ p_pid[q] = x
      /\ \A r \in Proc : r # p /\ r # q => pc'[r] = pc[r] /\ newproc'[r] = newproc[r]
      /\ \A r \in Proc : r # q => p_pid'[r] = p_pid[r]
  BY <1>1, <1>4 DEF TypeOK, x
<1>9. \A r \in Proc : HasPid(r)' <=> HasPid(r) /\ p_pid[r] # x
  BY <1>1, <1>2, <1>6, <1>8 DEF HasPid
<1>10. \A r \in Proc : HasPid(r)' => p_pid'[r] = p_pid[r]
  BY <1>8, <1>9
<1>11. KernelStays'
  BY <1>1, <1>6, <1>8, <1>9 DEF KernelStays
<1>12. ASSUME NEW r \in Proc, pc'[r] = "fork"
       PROVE  pc[r] = "fork" /\ newproc'[r] = newproc[r] /\ pc'[newproc[r]] = "new"
  <2>1. r # p /\ r # q /\ pc[r] = "fork" /\ newproc'[r] = newproc[r]
    BY <1>8, <1>12
  <2>2. newproc[r] \in Proc /\ newproc[r] # q /\ pc[newproc[r]] = "new" /\ newproc[r] # p
    BY <1>1, <1>5, <2>1 DEF TypeOK, ForksOwnChild
  <2> QED BY <1>8, <2>1, <2>2
<1>13. ASSUME NEW r \in Proc, pc'[r] \in {"prog", "wait", "woken"}
       PROVE  pc'[r] = pc[r] /\ theirpid'[r] = theirpid[r] /\ theirpid[r] # x
  <2>1. r # p /\ r # q /\ pc'[r] = pc[r] /\ theirpid'[r] = theirpid[r]
    BY Zenon, <1>4, <1>8, <1>13
  <2>2. OwnChild(r, theirpid[r])
    BY <1>13, <2>1 DEF WaitersSound, MenuFindsProgram, KernelStays
  <2>3. pi_get(x).pi_ppid = p_pid[p]
    BY <1>1 DEF ForksOwnChild, x, q
  <2>4. HasPid(r)
    BY <1>13, <2>1 DEF HasPid
  <2> QED BY <1>2, <2>1, <2>2, <2>3, <2>4 DEF OwnChild, PidsSound
<1>14. \A r \in Proc : pc'[r] = "new" => pc[r] = "new"
  BY <1>8
<1> QED BY <1>3, <1>6, <1>7, <1>9, <1>10, <1>11, <1>12, <1>13, <1>14, EntryDropped

(* A parent takes the status of its child.                                 *)
LEMMA StepReap ==
  ASSUME PidInv, NEW p \in Proc, NEW x \in 0 .. PID_MAX, pc[p] \in {"run", "prog", "woken"},
         OwnChild(p, x), pi_get(x).pi_exited, Reap(p, x)
  PROVE  PidInv'
<1> USE DEF PidInv, PidTableSound
<1>1. /\ pi_drop(x) /\ pc' = [pc EXCEPT ![p] = "run"]
      /\ theirpid' = [theirpid EXCEPT ![p] = INVALID_PID]
      /\ UNCHANGED <<nextpid, p_pid, newproc, panicked>> /\ kproc \in Proc
      /\ pidinfo' = [pidinfo EXCEPT ![SlotOf(x)] = NoInfo] /\ nprocs' = nprocs - 1
  BY PidAssumption DEF Reap, pi_drop
<1>2. Known(x) /\ pi_get(x).pi_ppid = p_pid[p] /\ HasPid(p)
  BY DEF OwnChild, HasPid
<1>3. x \in 1 .. PID_MAX
  BY <1>2, Slots DEF Known, EntriesPlaced
<1>4. \A r \in Proc : HasPid(r) => p_pid[r] # x
  BY DEF PidsSound
<1>5. \A i \in Slot : Used(i) => pidinfo[i].pi_ppid # x
  BY <1>3, <1>4 DEF EntriesPlaced, INVALID_PID
<1>6. TypeOK'
  <2>1. pc' \in [Proc -> Doing]
    BY <1>1 DEF TypeOK, Doing
  <2>2. theirpid' \in [Proc -> 0 .. PID_MAX]
    BY <1>1, PidAssumption DEF TypeOK, INVALID_PID
  <2>3. nprocs' \in 0 .. PROCS_MAX
    BY <1>1, <1>2, SomeEntry
  <2>4. pidinfo' \in [Slot -> Entry]
    BY Zenon, <1>1, EntriesTyped DEF TypeOK, Entry
  <2> QED BY <1>1, <2>1, <2>2, <2>3, <2>4 DEF TypeOK, Entry
<1>7. /\ pc'[p] = "run"
      /\ \A r \in Proc : r # p => pc'[r] = pc[r] /\ theirpid'[r] = theirpid[r]
  BY <1>1 DEF TypeOK
<1>8. \A r \in Proc : HasPid(r)' <=> HasPid(r) /\ p_pid[r] # x
  BY <1>2, <1>4, <1>7 DEF HasPid
<1>9. KernelStays'
  BY <1>1, <1>4, <1>7, <1>8 DEF KernelStays
<1>10. ASSUME NEW r \in Proc, pc'[r] = "fork"
       PROVE  pc[r] = "fork" /\ newproc'[r] = newproc[r] /\ pc'[newproc[r]] = "new"
  BY <1>1, <1>7, <1>10 DEF ForksOwnChild, TypeOK
<1>11. ASSUME NEW r \in Proc, pc'[r] \in {"prog", "wait", "woken"}
       PROVE  pc'[r] = pc[r] /\ theirpid'[r] = theirpid[r] /\ theirpid[r] # x
  <2>1. r # p /\ pc'[r] = pc[r] /\ theirpid'[r] = theirpid[r]
    BY <1>7, <1>11
  <2>2. OwnChild(r, theirpid[r]) /\ HasPid(r)
    BY <1>11, <2>1 DEF WaitersSound, MenuFindsProgram, KernelStays, HasPid
  <2> QED BY <1>2, <2>1, <2>2 DEF OwnChild, PidsSound
<1>12. \A r \in Proc : pc'[r] = "new" => pc[r] = "new"
  BY <1>7
<1>13. \A r \in Proc : HasPid(r)' => p_pid'[r] = p_pid[r]
  BY <1>1
<1> QED BY <1>1, <1>2, <1>3, <1>5, <1>6, <1>8, <1>9, <1>10, <1>11, <1>12, <1>13, EntryDropped

(* Every step preserves the invariant.                                     *)
LEMMA PidNext == PidInv /\ [Next]_vars => PidInv'
<1> SUFFICES ASSUME PidInv, [Next]_vars PROVE PidInv'
  OBVIOUS
<1>1. CASE UNCHANGED vars
  BY <1>1, StepFails, PidAssumption
<1>2. CASE Next
  <2>1. PICK p \in Proc :
          \/ \E q \in Proc : pid_alloc(p, q)
          \/ \E s \in Status : pid_setexitstatus(p, s)
          \/ \E pid \in KERNEL_PID .. PID_MAX : pid_wait(p, pid) \/ pid_wait_nohang(p, pid)
          \/ pid_alloc_fails(p) \/ thread_fork(p) \/ proc_unfork(p) \/ proc_destroy_fails
          \/ proc_exit(p) \/ proc_exit_nomem(p) \/ pid_wait_returns(p)
    BY <1>2, Zenon DEF Next
  <2>2. ASSUME NEW pid \in KERNEL_PID .. PID_MAX, pid_wait(p, pid) \/ pid_wait_nohang(p, pid)
        PROVE  PidInv'
    <3>1. pid \in 0 .. PID_MAX
      BY DEF KERNEL_PID
    <3>2. CASE pi_get(pid).pi_exited
      <4>1. pc[p] \in {"run", "prog"} /\ OwnChild(p, pid) /\ Reap(p, pid)
        BY <2>2, <3>2, Zenon DEF pid_wait, pid_wait_nohang, CallsWait
      <4> QED BY <3>1, <3>2, <4>1, StepReap
    <3>3. CASE ~pi_get(pid).pi_exited
      <4>1. CallsWait(p, pid) /\ OwnChild(p, pid) /\ Sleep(p, pid)
        BY <2>2, <3>3, ZenonT(60) DEF pid_wait, pid_wait_nohang
      <4> QED BY <3>3, <4>1, StepSleep
    <3> QED BY <3>2, <3>3
  <2>3. ASSUME pid_wait_returns(p)
        PROVE  PidInv'
    <3>1. pc[p] = "woken" /\ Reap(p, theirpid[p]) /\ theirpid[p] \in 0 .. PID_MAX
      BY <2>3 DEF pid_wait_returns, PidInv, PidTableSound, TypeOK
    <3>2. OwnChild(p, theirpid[p]) /\ pi_get(theirpid[p]).pi_exited
      BY <3>1 DEF PidInv, PidTableSound, WaitersSound
    <3> QED BY <3>1, <3>2, StepReap
  <2> QED BY <2>1, <2>2, <2>3, StepAlloc, StepExit, StepFails, StepFork, StepUnfork, StepGone, ZenonT(60)
<1> QED BY <1>1, <1>2

(* The invariant holds in every state of every behaviour.                  *)
LEMMA PidAlways == Spec => []PidInv
  BY PidInit, PidNext, PTL DEF Spec

(* Whatever the number of processes, pids and slots: every process that    *)
(* has not exited has an entry of its own in the table of pid.c, nprocs    *)
(* counts the entries, none is forgotten, and those who wait, the menu     *)
(* included, wait for a child they have.                                   *)
THEOREM PidTableSafe == Spec => []PidTableSound
<1>1. PidInv => PidTableSound
  BY DEF PidInv
<1> QED BY <1>1, PidAlways, PTL

(* Whatever the history of forks and exits, the loop of pid_alloc that     *)
(* looks for a free slot ends at one before its assertion on count can     *)
(* fail ("the above test guarantees that this loop terminates, unless our  *)
(* nprocs count is off").                                                  *)
THEOREM SearchAlwaysEnds ==
  Spec => [](nprocs # PROCS_MAX => \E k \in 0 .. 2 * PROCS_MAX + 4 : FreeAfter(k))
<1>1. PidInv => (nprocs # PROCS_MAX => \E k \in 0 .. 2 * PROCS_MAX + 4 : FreeAfter(k))
  <2> SUFFICES ASSUME PidInv, nprocs # PROCS_MAX
               PROVE  \E k \in 0 .. 2 * PROCS_MAX + 4 : FreeAfter(k)
    OBVIOUS
  <2>1. nextpid \in PID_MIN .. PID_MAX /\ nprocs = Cardinality({i \in Slot : Used(i)})
    BY DEF PidInv, PidTableSound, TypeOK, PidsSound
  <2>2. Search \in Turns /\ FreeAfter(Search)
    BY <2>1, SearchEnds
  <2> QED BY <2>2 DEF Turns
<1> QED BY <1>1, PidAlways, PTL

-----------------------------------------------------------------------------
(* The table implements the tree of ProcTree: the names are the pids that  *)
(* have an entry, and an entry says who the parent is and what the status. *)
NamesIn(t) == {t[i].pi_pid : i \in {j \in Slot : t[j] # NoInfo}}
TreeIn(t) == [x \in NamesIn(t) |-> [parent |-> t[SlotOf(x)].pi_ppid,
                                    status |-> t[SlotOf(x)].pi_exitstatus]]
Found(t, x) == x \in 1 .. PID_MAX /\ t[SlotOf(x)] # NoInfo /\ t[SlotOf(x)].pi_pid = x
InPlace(t) ==
  \A i \in Slot : t[i] # NoInfo => t[i].pi_pid \in 1 .. PID_MAX /\ SlotOf(t[i].pi_pid) = i

(* A table whose entries are in place has the tree one reads from it: a    *)
(* pid names a process exactly if its slot has its entry.                  *)
LEMMA NamesFound ==
  ASSUME NEW t, InPlace(t)
  PROVE  /\ DOMAIN TreeIn(t) = NamesIn(t)
         /\ \A x : x \in NamesIn(t) <=> Found(t, x)
         /\ \A x \in NamesIn(t) : TreeIn(t)[x] = [parent |-> t[SlotOf(x)].pi_ppid,
                                                   status |-> t[SlotOf(x)].pi_exitstatus]
<1>1. \A x \in 1 .. PID_MAX : SlotOf(x) \in Slot
  BY Slots
<1>2. \A x : x \in NamesIn(t) => Found(t, x)
  BY Zenon DEF NamesIn, InPlace, Found
<1>3. \A x : Found(t, x) => x \in NamesIn(t)
  BY <1>1, Zenon DEF NamesIn, Found
<1> QED BY <1>2, <1>3, Zenon DEF TreeIn

(* The invariant puts every entry in the slot of its pid, before and after *)
(* a step.                                                                 *)
LEMMA TablesInPlace ==
  ASSUME PidInv, PidInv'
  PROVE  InPlace(pidinfo) /\ InPlace(pidinfo')
<1>1. InPlace(pidinfo)
  BY Zenon DEF PidInv, EntriesPlaced, InPlace, Used
<1>2. InPlace(pidinfo')
  BY Zenon DEF PidInv, EntriesPlaced, InPlace, Used
<1> QED BY <1>1, <1>2

(* The steps of the tree, on the trees of two tables.                      *)
TreeFork(a, b, p, q) ==
  /\ p \in DOMAIN a /\ a[p].status = "alive" /\ q \notin DOMAIN a
  /\ b = [r \in DOMAIN a \cup {q} |->
            IF r = q THEN [parent |-> p, status |-> "alive"] ELSE a[r]]
TreeUnfork(a, b, p, q) ==
  /\ q \in DOMAIN a /\ a[q].status = "alive" /\ a[q].parent = p
  /\ b = [r \in DOMAIN a \ {q} |-> a[r]]
TreeWait(a, b, p, q, s) ==
  /\ p \in DOMAIN a /\ a[p].status = "alive" /\ q \in DOMAIN a
  /\ a[q] = [parent |-> p, status |-> s] /\ s # "alive"
  /\ b = [r \in DOMAIN a \ {q} |-> a[r]]
TreeLeft(a, p, s) ==
  [r \in DOMAIN a |->
     IF a[r].parent = p THEN [a[r] EXCEPT !.parent = 0]
     ELSE IF r = p THEN [a[r] EXCEPT !.status = s] ELSE a[r]]
TreeExit(a, b, p, s) ==
  /\ p \in DOMAIN a /\ a[p].status = "alive" /\ p # KERNEL_PID
  /\ b = [r \in {t \in DOMAIN a : \/ TreeLeft(a, p, s)[t].status = "alive"
                                   \/ TreeLeft(a, p, s)[t].parent # 0} |-> TreeLeft(a, p, s)[r]]

(* A step of one of the four kinds between the trees of two tables is a    *)
(* step of ProcTree.                                                       *)
LEMMA TreeSteps ==
  ASSUME NEW p \in KERNEL_PID .. PID_MAX, NEW q \in KERNEL_PID .. PID_MAX,
         \/ TreeFork(TreeIn(pidinfo), TreeIn(pidinfo'), p, q)
         \/ TreeUnfork(TreeIn(pidinfo), TreeIn(pidinfo'), p, q)
         \/ \E s \in Status : \/ TreeWait(TreeIn(pidinfo), TreeIn(pidinfo'), p, q, s)
                              \/ TreeExit(TreeIn(pidinfo), TreeIn(pidinfo'), p, s)
  PROVE  Tree!Next
<1>1. CASE TreeFork(TreeIn(pidinfo), TreeIn(pidinfo'), p, q)
  <2>1. Tree!Fork(p, q)
    BY <1>1, Zenon DEF TreeFork, TreeIn, NamesIn, Tree!Fork, Tree!IsAlive, Tree!Names,
       Tree!Alive, Tree!Child, tree, Used, pi_get
  <2> QED BY <2>1, Zenon DEF Tree!Next
<1>2. CASE TreeUnfork(TreeIn(pidinfo), TreeIn(pidinfo'), p, q)
  <2>1. Tree!Unfork(p, q)
    BY <1>2, Zenon DEF TreeUnfork, TreeIn, NamesIn, Tree!Unfork, Tree!IsAlive, Tree!Names,
       Tree!Alive, Tree!Keeping, tree, Used, pi_get
  <2> QED BY <2>1, Zenon DEF Tree!Next
<1>3. ASSUME NEW s \in Status, TreeWait(TreeIn(pidinfo), TreeIn(pidinfo'), p, q, s)
      PROVE  Tree!Next
  <2>1. Tree!Wait(p, q, s)
    BY <1>3, Zenon DEF TreeWait, TreeIn, NamesIn, Tree!Wait, Tree!IsAlive, Tree!Names,
       Tree!Alive, Tree!Keeping, tree, Used, pi_get
  <2> QED BY <2>1, Zenon DEF Tree!Next
<1>4. ASSUME NEW s \in Status, TreeExit(TreeIn(pidinfo), TreeIn(pidinfo'), p, s)
      PROVE  Tree!Next
  <2>1. Tree!Exit(p, s)
    BY <1>4, Zenon DEF TreeExit, TreeLeft, TreeIn, NamesIn, Tree!Exit, Tree!IsAlive, Tree!Names,
       Tree!Alive, Tree!Nobody, tree, Used, pi_get
  <2> QED BY <2>1, Zenon DEF Tree!Next
<1> QED BY <1>1, <1>2, <1>3, <1>4, Zenon

(* A function with the names of a table and its entries is its tree.       *)
LEMMA TreeIs ==
  ASSUME NEW t, InPlace(t), NEW D, NEW g, g = [r \in D |-> g[r]],
         \A r : r \in D <=> Found(t, r),
         \A r \in D : g[r] = [parent |-> t[SlotOf(r)].pi_ppid, status |-> t[SlotOf(r)].pi_exitstatus]
  PROVE  TreeIn(t) = g
<1>1. D = NamesIn(t)
  BY NamesFound, ZenonT(60)
<1> QED BY <1>1, Zenon DEF TreeIn

(* A process with a pid is a live name of the tree.                        *)
LEMMA AliveNamed ==
  ASSUME PidInv, NEW p \in Proc, HasPid(p)
  PROVE  /\ p_pid[p] \in KERNEL_PID .. PID_MAX /\ p_pid[p] \in DOMAIN TreeIn(pidinfo)
         /\ TreeIn(pidinfo)[p_pid[p]].status = "alive"
<1>1. InPlace(pidinfo)
  BY Zenon DEF PidInv, EntriesPlaced, InPlace, Used
<1>2. /\ p_pid[p] \in 1 .. PID_MAX /\ SlotOf(p_pid[p]) \in Slot /\ Used(SlotOf(p_pid[p]))
      /\ pidinfo[SlotOf(p_pid[p])].pi_pid = p_pid[p] /\ ~pidinfo[SlotOf(p_pid[p])].pi_exited
  BY OwnEntry
<1>3. Found(pidinfo, p_pid[p])
  BY <1>2, Zenon DEF Found, Used
<1>4. pidinfo[SlotOf(p_pid[p])].pi_exitstatus = "alive"
  BY <1>2, Zenon DEF PidInv, EntriesPlaced
<1>5. p_pid[p] \in NamesIn(pidinfo) /\ DOMAIN TreeIn(pidinfo) = NamesIn(pidinfo)
  BY <1>1, <1>3, NamesFound, Zenon
<1>6. TreeIn(pidinfo)[p_pid[p]] = [parent |-> pidinfo[SlotOf(p_pid[p])].pi_ppid,
                                   status |-> pidinfo[SlotOf(p_pid[p])].pi_exitstatus]
  BY <1>1, <1>5, NamesFound, ZenonT(60)
<1> QED BY <1>2, <1>4, <1>5, <1>6 DEF KERNEL_PID

(* fork adds a name ...                                                    *)
LEMMA RefineAlloc ==
  ASSUME PidInv, PidInv', NEW p \in Proc, NEW q \in Proc, pid_alloc(p, q)
  PROVE  Tree!Next
<1>1. PICK n, d, x : /\ n = After(Search) /\ d = SlotOf(n) /\ x = p_pid[p]
                     /\ AllocatedTable(n, d, x)
  BY AllocTable, Zenon
<1>2. /\ n \in 1 .. PID_MAX /\ d \in Slot /\ ~Used(d)
      /\ \A i \in Slot : i # d => pidinfo'[i] = pidinfo[i]
      /\ pidinfo'[d].pi_pid = n /\ pidinfo'[d].pi_ppid = x
      /\ pidinfo'[d].pi_exitstatus = "alive" /\ pidinfo'[d] # NoInfo
  BY <1>1, Zenon DEF AllocatedTable
<1> DEFINE a == TreeIn(pidinfo)
           g == [r \in DOMAIN a \cup {n} |->
                   IF r = n THEN [parent |-> x, status |-> "alive"] ELSE a[r]]
<1>3. InPlace(pidinfo) /\ InPlace(pidinfo')
  BY TablesInPlace
<1>4. HasPid(p)
  BY DEF pid_alloc, HasPid
<1>5. x \in KERNEL_PID .. PID_MAX /\ x \in DOMAIN a /\ a[x].status = "alive"
  BY <1>1, <1>4, AliveNamed, Zenon
<1>6. \A r : r \in DOMAIN a <=> Found(pidinfo, r)
  BY <1>3, NamesFound, Zenon
<1>7. \A r : r \in DOMAIN a => a[r] = [parent |-> pidinfo[SlotOf(r)].pi_ppid,
                                       status |-> pidinfo[SlotOf(r)].pi_exitstatus]
  BY <1>3, NamesFound, Zenon
<1>8. \A r \in 1 .. PID_MAX : SlotOf(r) \in Slot
  BY Slots
<1>9. n \notin DOMAIN a
  BY <1>1, <1>2, <1>6, Zenon DEF Found, Used
<1>10. \A r : Found(pidinfo', r) <=> Found(pidinfo, r) \/ r = n
  <2>1. \A r : Found(pidinfo', r) => Found(pidinfo, r) \/ r = n
    BY <1>2, <1>8, Zenon DEF Found
  <2>2. \A r : Found(pidinfo, r) => SlotOf(r) # d
    BY <1>2, Zenon DEF Found, Used
  <2>3. \A r : Found(pidinfo, r) => Found(pidinfo', r)
    <3>1. \A r : Found(pidinfo, r) => pidinfo'[SlotOf(r)] = pidinfo[SlotOf(r)]
      BY <1>2, <1>8, <2>2, Zenon DEF Found
    <3> QED BY <3>1, Zenon DEF Found
  <2>4. Found(pidinfo', n)
    BY <1>1, <1>2, Zenon DEF Found
  <2> QED BY <2>1, <2>3, <2>4, Zenon
<1>11. \A r \in DOMAIN a : /\ r # n /\ SlotOf(r) \in Slot /\ SlotOf(r) # d
                           /\ pidinfo'[SlotOf(r)] = pidinfo[SlotOf(r)]
  BY <1>2, <1>6, <1>8, <1>9, ZenonT(60) DEF Found, Used
<1>12. g = TreeIn(pidinfo')
  <2>1. \A r : r \in DOMAIN a \cup {n} <=> Found(pidinfo', r)
    BY <1>6, <1>10, Zenon
  <2>2. \A r \in DOMAIN a \cup {n} :
          g[r] = [parent |-> pidinfo'[SlotOf(r)].pi_ppid, status |-> pidinfo'[SlotOf(r)].pi_exitstatus]
    <3>1. g[n] = [parent |-> pidinfo'[SlotOf(n)].pi_ppid, status |-> pidinfo'[SlotOf(n)].pi_exitstatus]
      BY <1>1, <1>2
    <3>2. \A r \in DOMAIN a :
            g[r] = [parent |-> pidinfo'[SlotOf(r)].pi_ppid, status |-> pidinfo'[SlotOf(r)].pi_exitstatus]
      BY <1>7, <1>11, Zenon
    <3> QED BY <3>1, <3>2, ZenonT(60)
  <2>3. g = [r \in DOMAIN a \cup {n} |-> g[r]]
    BY Zenon
  <2> DEFINE D == DOMAIN a \cup {n}
  <2>4. /\ \A r : r \in D <=> Found(pidinfo', r)
        /\ \A r \in D : g[r] = [parent |-> pidinfo'[SlotOf(r)].pi_ppid,
                                status |-> pidinfo'[SlotOf(r)].pi_exitstatus]
        /\ g = [r \in D |-> g[r]]
    BY <2>1, <2>2, <2>3, Zenon
  <2> HIDE DEF g, D
  <2> QED BY <1>3, <2>4, TreeIs
<1>13. TreeFork(a, TreeIn(pidinfo'), x, n)
  BY <1>5, <1>9, <1>12, Zenon DEF TreeFork
<1> QED BY <1>2, <1>5, <1>13, TreeSteps DEF KERNEL_PID

(* ... and dropping an entry takes it away.                                *)
LEMMA TreeDropped ==
  ASSUME PidInv, PidInv', NEW x \in 1 .. PID_MAX, Known(x), pi_drop(x)
  PROVE  /\ x \in DOMAIN TreeIn(pidinfo)
         /\ TreeIn(pidinfo)[x] = [parent |-> pi_get(x).pi_ppid, status |-> pi_get(x).pi_exitstatus]
         /\ TreeIn(pidinfo)[x].parent = pi_get(x).pi_ppid
         /\ TreeIn(pidinfo') = [r \in DOMAIN TreeIn(pidinfo) \ {x} |-> TreeIn(pidinfo)[r]]
<1> DEFINE d == SlotOf(x)
           a == TreeIn(pidinfo)
           g == [r \in DOMAIN a \ {x} |-> a[r]]
<1>1. /\ d \in Slot /\ pidinfo[d] # NoInfo /\ pidinfo[d].pi_pid = x
      /\ pidinfo' = [pidinfo EXCEPT ![d] = NoInfo]
  BY Slots DEF Known, Used, pi_drop
<1>2. pidinfo'[d] = NoInfo /\ \A i \in Slot : i # d => pidinfo'[i] = pidinfo[i]
  BY <1>1 DEF PidInv, PidTableSound, TypeOK
<1>3. InPlace(pidinfo) /\ InPlace(pidinfo')
  BY TablesInPlace
<1>4. \A r : r \in DOMAIN a <=> Found(pidinfo, r)
  BY <1>3, NamesFound, Zenon
<1>5. \A r : r \in DOMAIN a => a[r] = [parent |-> pidinfo[SlotOf(r)].pi_ppid,
                                       status |-> pidinfo[SlotOf(r)].pi_exitstatus]
  BY <1>3, NamesFound, Zenon
<1>6. \A r \in 1 .. PID_MAX : SlotOf(r) \in Slot
  BY Slots
<1>7. x \in DOMAIN a
  BY <1>1, <1>4, Zenon DEF Found
<1>8. \A r : Found(pidinfo, r) /\ r # x => SlotOf(r) # d
  BY <1>1, Zenon DEF Found
<1>9. \A r : r \in DOMAIN a \ {x} <=> Found(pidinfo', r)
  BY <1>2, <1>4, <1>6, <1>8, Zenon DEF Found
<1>10. \A r \in DOMAIN a \ {x} :
         g[r] = [parent |-> pidinfo'[SlotOf(r)].pi_ppid, status |-> pidinfo'[SlotOf(r)].pi_exitstatus]
  <2>1. \A r \in DOMAIN a \ {x} : pidinfo'[SlotOf(r)] = pidinfo[SlotOf(r)]
    BY <1>2, <1>4, <1>6, <1>8, Zenon DEF Found
  <2> QED BY <1>5, <2>1, Zenon
<1>11. g = [r \in DOMAIN a \ {x} |-> g[r]]
  BY Zenon
<1>12. TreeIn(pidinfo') = g
  <2> HIDE DEF g, a
  <2> QED BY <1>3, <1>9, <1>10, <1>11, TreeIs
<1>13. a[x] = [parent |-> pi_get(x).pi_ppid, status |-> pi_get(x).pi_exitstatus]
  BY <1>5, <1>7, Zenon DEF pi_get
<1>14. a[x].parent = pi_get(x).pi_ppid
  BY <1>13
<1> QED BY <1>7, <1>12, <1>13, <1>14, Zenon

(* proc_unfork, which takes back the pid of a child without a thread, is   *)
(* ProcTree's Unfork.                                                      *)
LEMMA RefineUnfork ==
  ASSUME PidInv, PidInv', NEW p \in Proc, proc_unfork(p)
  PROVE  Tree!Next
<1>1. PICK q, x : q = newproc[p] /\ x = p_pid[q]
  BY SMTT(40)
<1>2. /\ q \in Proc /\ pc[q] = "new" /\ pc[p] = "fork" /\ pi_drop(x)
      /\ pi_get(x).pi_ppid = p_pid[p]
  BY SMTT(40), <1>1 DEF PidInv, PidTableSound, TypeOK, ForksOwnChild, proc_unfork
<1>3. HasPid(q) /\ HasPid(p)
  BY SMTT(40), <1>2 DEF HasPid
<1>4. x \in 1 .. PID_MAX /\ Known(x)
  BY Zenon, <1>1, <1>2, <1>3, OwnEntry DEF Known
<1>5. /\ x \in DOMAIN TreeIn(pidinfo) /\ TreeIn(pidinfo)[x].parent = p_pid[p]
      /\ TreeIn(pidinfo') = [r \in DOMAIN TreeIn(pidinfo) \ {x} |-> TreeIn(pidinfo)[r]]
  BY <1>2, <1>4, TreeDropped, Zenon
<1>6. TreeIn(pidinfo)[x].status = "alive"
  BY <1>1, <1>2, <1>3, AliveNamed, Zenon
<1>7. TreeUnfork(TreeIn(pidinfo), TreeIn(pidinfo'), p_pid[p], x)
  BY <1>5, <1>6, ZenonT(60) DEF TreeUnfork
<1>8. p_pid[p] \in KERNEL_PID .. PID_MAX /\ x \in KERNEL_PID .. PID_MAX
  BY SMTT(40), <1>3, <1>4, AliveNamed DEF KERNEL_PID
<1> QED BY <1>7, <1>8, TreeSteps

(* Taking the status of an exited child and its entry away is ProcTree's   *)
(* Wait.                                                                   *)
LEMMA RefineReap ==
  ASSUME PidInv, PidInv', NEW p \in Proc, NEW x \in 0 .. PID_MAX,
         pc[p] \in {"run", "prog", "woken"}, OwnChild(p, x), pi_get(x).pi_exited, Reap(p, x)
  PROVE  Tree!Next
<1>1. Known(x) /\ pi_get(x).pi_ppid = p_pid[p] /\ HasPid(p) /\ pi_drop(x)
  BY DEF OwnChild, HasPid, Reap
<1>2. SlotOf(x) \in Slot
  BY Slots
<1>3. x \in 1 .. PID_MAX
  BY <1>1, <1>2 DEF Known, PidInv, EntriesPlaced
<1>4. PICK s : s = pi_get(x).pi_exitstatus
  OBVIOUS
<1>5. s \in Status /\ s # "alive"
  <2>1. s # "alive"
    BY <1>1, <1>2, <1>4, ZenonT(60) DEF PidInv, EntriesPlaced, Known, pi_get
  <2>2. s \in Status \cup {"alive"}
    BY <1>2, <1>4 DEF PidInv, PidTableSound, TypeOK, pi_get
  <2> QED BY <2>1, <2>2
<1>6. /\ x \in DOMAIN TreeIn(pidinfo) /\ TreeIn(pidinfo)[x] = [parent |-> p_pid[p], status |-> s]
      /\ TreeIn(pidinfo') = [r \in DOMAIN TreeIn(pidinfo) \ {x} |-> TreeIn(pidinfo)[r]]
  BY <1>1, <1>3, <1>4, TreeDropped, Zenon
<1>7. p_pid[p] \in DOMAIN TreeIn(pidinfo) /\ TreeIn(pidinfo)[p_pid[p]].status = "alive"
      /\ p_pid[p] \in KERNEL_PID .. PID_MAX /\ x \in KERNEL_PID .. PID_MAX
  BY <1>1, <1>3, AliveNamed, Zenon DEF KERNEL_PID
<1>8. TreeWait(TreeIn(pidinfo), TreeIn(pidinfo'), p_pid[p], x, s)
  BY <1>5, <1>6, <1>7, Zenon DEF TreeWait
<1> QED BY ZenonT(60), <1>5, <1>7, <1>8, TreeSteps

(* An entry whose process has exited names a parent.                       *)
LEMMA ExitedHasParent ==
  ASSUME PidInv, NEW i \in Slot, Used(i), pidinfo[i].pi_exited
  PROVE  pidinfo[i].pi_ppid # INVALID_PID
<1>1. \A p \in Proc : HasPid(p) => p_pid[p] # pidinfo[i].pi_pid
  <2> SUFFICES ASSUME NEW p \in Proc, HasPid(p), p_pid[p] = pidinfo[i].pi_pid PROVE FALSE
    OBVIOUS
  <2>1. SlotOf(p_pid[p]) = i
    BY DEF PidInv, EntriesPlaced
  <2> QED BY <2>1, OwnEntry
<1>2. PICK p \in Proc : HasPid(p) /\ p_pid[p] = pidinfo[i].pi_ppid
  BY <1>1 DEF PidInv, PidTableSound, NothingForgotten
<1>3. p_pid[p] \in 1 .. PID_MAX
  BY <1>2, OwnEntry
<1> QED BY <1>2, <1>3 DEF INVALID_PID

(* pid_setexitstatus is ProcTree's Exit, whether or not the process has a  *)
(* parent.                                                                 *)
LEMMA RefineExit ==
  ASSUME PidInv, PidInv', NEW p \in Proc, NEW s \in Status, pid_setexitstatus(p, s)
  PROVE  Tree!Next
<1> DEFINE a == TreeIn(pidinfo)
<1>1. PICK x, d : x = p_pid[p] /\ d = SlotOf(x)
  OBVIOUS
<1>2. pc[p] = "run" /\ p # kproc /\ HasPid(p) /\ s # "alive"
  BY PidAssumption DEF pid_setexitstatus, HasPid
<1>3. /\ x \in 1 .. PID_MAX /\ d \in Slot /\ Used(d) /\ pidinfo[d].pi_pid = x
      /\ ~pidinfo[d].pi_exited
  BY <1>1, <1>2, OwnEntry
<1>4. ExitedTable(x, d, s)
  BY SMTT(40), <1>1, ExitTable
<1>5. x # KERNEL_PID
  BY <1>1, <1>2, PidAssumption DEF PidInv, PidTableSound, PidsSound, KernelStays
<1>6. x \in KERNEL_PID .. PID_MAX /\ x \in DOMAIN a /\ a[x].status = "alive"
  BY <1>1, <1>2, AliveNamed, Zenon
<1>7. InPlace(pidinfo) /\ InPlace(pidinfo')
  BY TablesInPlace
<1>8. \A r : r \in DOMAIN a <=> Found(pidinfo, r)
  BY <1>7, NamesFound, Zenon
<1>9. \A r : r \in DOMAIN a => a[r] = [parent |-> pidinfo[SlotOf(r)].pi_ppid,
                                       status |-> pidinfo[SlotOf(r)].pi_exitstatus]
  BY <1>7, NamesFound, ZenonT(60)
<1>10. ASSUME NEW r \in DOMAIN a
       PROVE  /\ SlotOf(r) \in Slot /\ Used(SlotOf(r)) /\ pidinfo[SlotOf(r)].pi_pid = r
              /\ r \in 1 .. PID_MAX /\ (SlotOf(r) = d <=> r = x)
  BY <1>1, <1>3, <1>8, <1>10, Slots DEF Found, Used
<1> HIDE DEF a
<1>11. PICK f : f = TreeLeft(a, x, s)
  OBVIOUS
(* What is left of a process r.                                            *)
<1>12. ASSUME NEW r \in DOMAIN a, NEW i, i = SlotOf(r)
       PROVE  /\ r = x => f[r] = [parent |-> pidinfo[d].pi_ppid, status |-> s]
              /\ r # x /\ pidinfo[i].pi_ppid = x =>
                   f[r] = [parent |-> 0, status |-> pidinfo[i].pi_exitstatus]
              /\ r # x /\ pidinfo[i].pi_ppid # x =>
                   f[r] = [parent |-> pidinfo[i].pi_ppid, status |-> pidinfo[i].pi_exitstatus]
  <2>1. a[r] = [parent |-> pidinfo[i].pi_ppid, status |-> pidinfo[i].pi_exitstatus]
    BY <1>9, <1>12, Zenon
  <2>2. f[r] = IF a[r].parent = x THEN [a[r] EXCEPT !.parent = 0]
               ELSE IF r = x THEN [a[r] EXCEPT !.status = s] ELSE a[r]
    BY <1>11, Zenon DEF TreeLeft
  <2>3. r = x => i = d /\ pidinfo[i].pi_ppid # x
    BY <1>1, <1>4, <1>12, Zenon DEF ExitedTable
  <2>4. [a[r] EXCEPT !.parent = 0] = [parent |-> 0, status |-> pidinfo[i].pi_exitstatus]
    BY <2>1
  <2>5. [a[r] EXCEPT !.status = s] = [parent |-> pidinfo[i].pi_ppid, status |-> s]
    BY <2>1
  <2>6. a[r].parent = pidinfo[i].pi_ppid
    BY <2>1
  <2>7. CASE r = x
    <3>1. f[r] = [a[r] EXCEPT !.status = s]
      BY <2>2, <2>3, <2>6, <2>7, Zenon
    <3> QED BY <2>3, <2>5, <2>7, <3>1, Zenon
  <2>8. CASE r # x /\ pidinfo[i].pi_ppid = x
    BY <2>2, <2>4, <2>6, <2>8, Zenon
  <2>9. CASE r # x /\ pidinfo[i].pi_ppid # x
    BY <2>1, <2>2, <2>6, <2>9, ZenonT(60)
  <2> QED BY <2>7, <2>8, <2>9, Zenon
<1> DEFINE D == {t \in DOMAIN a : f[t].status = "alive" \/ f[t].parent # 0}
           g == [r \in D |-> f[r]]
(* It is what the table says of it, if the table still has it.             *)
<1>13. ASSUME NEW r \in DOMAIN a
       PROVE  /\ r \in D <=> Found(pidinfo', r)
              /\ r \in D => f[r] = [parent |-> pidinfo'[SlotOf(r)].pi_ppid,
                                     status |-> pidinfo'[SlotOf(r)].pi_exitstatus]
  <2>1. PICK i : i = SlotOf(r)
    OBVIOUS
  <2>2. /\ i \in Slot /\ Used(i) /\ pidinfo[i].pi_pid = r /\ r \in 1 .. PID_MAX
        /\ i = d <=> r = x
    BY <1>10, <2>1
  <2>3. NoInfo.pi_pid = 0
    BY DEF NoInfo, pidinfo_create, INVALID_PID
  <2>4. Found(pidinfo', r) <=> pidinfo'[i] # NoInfo /\ pidinfo'[i].pi_pid = r
    BY <2>1, <2>2, Zenon DEF Found
  <2>5. r \in D <=> f[r].status = "alive" \/ f[r].parent # 0
    OBVIOUS
  <2>6. pidinfo[i].pi_exited <=> pidinfo[i].pi_exitstatus # "alive"
    BY <2>2, ZenonT(60) DEF PidInv, EntriesPlaced
  <2>7. CASE r = x
    <3>1. i = d /\ f[r] = [parent |-> pidinfo[d].pi_ppid, status |-> s]
      BY <1>12, <2>1, <2>2, <2>7, ZenonT(60)
    <3>2. f[r].parent = pidinfo[d].pi_ppid /\ f[r].status = s
      BY <3>1
    <3>3. CASE pidinfo[d].pi_ppid = INVALID_PID
      <4>1. pidinfo'[d] = NoInfo
        BY <1>4, <3>3, Zenon DEF ExitedTable
      <4> QED BY <1>2, <2>4, <2>5, <3>1, <3>2, <3>3, <4>1, ZenonT(60) DEF INVALID_PID
    <3>4. CASE pidinfo[d].pi_ppid # INVALID_PID
      <4>1. /\ pidinfo'[d].pi_pid = x /\ pidinfo'[d].pi_ppid = pidinfo[d].pi_ppid
            /\ pidinfo'[d].pi_exitstatus = s
        BY <1>4, <3>4, ZenonT(60) DEF ExitedTable
      <4>2. pidinfo'[d] # NoInfo
        BY <1>3, <2>3, <4>1
      <4> QED BY <2>1, <2>4, <2>5, <2>7, <3>1, <3>2, <3>4, <4>1, <4>2, ZenonT(60) DEF INVALID_PID
    <3> QED BY <3>3, <3>4
  <2>8. CASE r # x /\ pidinfo[i].pi_ppid = x
    <3>1. i # d /\ f[r] = [parent |-> 0, status |-> pidinfo[i].pi_exitstatus]
      BY <1>12, <2>1, <2>2, <2>8, ZenonT(60)
    <3>2. f[r].parent = 0 /\ f[r].status = pidinfo[i].pi_exitstatus
      BY <3>1
    <3>3. CASE pidinfo[i].pi_exited
      <4>1. pidinfo'[i] = NoInfo
        BY <1>4, <2>2, <2>8, <3>1, <3>3, Zenon DEF ExitedTable
      <4> QED BY <2>4, <2>5, <2>6, <3>2, <3>3, <4>1, Zenon
    <3>4. CASE ~pidinfo[i].pi_exited
      <4>1. /\ pidinfo'[i].pi_pid = r /\ pidinfo'[i].pi_ppid = 0
            /\ pidinfo'[i].pi_exitstatus = pidinfo[i].pi_exitstatus
        BY <1>4, <2>2, <2>8, <3>1, <3>4, ZenonT(60) DEF ExitedTable, INVALID_PID
      <4>2. pidinfo'[i] # NoInfo
        BY <2>2, <2>3, <4>1
      <4> QED BY <2>1, <2>4, <2>5, <2>6, <3>1, <3>2, <3>4, <4>1, <4>2, ZenonT(60)
    <3> QED BY <3>3, <3>4
  <2>9. CASE r # x /\ pidinfo[i].pi_ppid # x
    <3>1. i # d /\ f[r] = [parent |-> pidinfo[i].pi_ppid, status |-> pidinfo[i].pi_exitstatus]
      BY <1>12, <2>1, <2>2, <2>9, ZenonT(60)
    <3>2. f[r].parent = pidinfo[i].pi_ppid /\ f[r].status = pidinfo[i].pi_exitstatus
      BY <3>1
    <3>3. pidinfo'[i] = pidinfo[i]
      BY <1>4, <2>2, <2>9, <3>1, Zenon DEF ExitedTable
    <3>4. pidinfo[i].pi_exitstatus = "alive" \/ pidinfo[i].pi_ppid # 0
      BY <2>2, <2>6, ExitedHasParent, Zenon DEF INVALID_PID
    <3> QED BY <2>1, <2>2, <2>4, <2>5, <3>1, <3>2, <3>3, <3>4, ZenonT(60) DEF Used
  <2> QED BY <2>7, <2>8, <2>9
<1>14. \A r : Found(pidinfo', r) => r \in DOMAIN a
  <2> SUFFICES ASSUME NEW r, Found(pidinfo', r) PROVE Found(pidinfo, r)
    BY <1>8, Zenon
  <2>1. PICK i : i = SlotOf(r)
    OBVIOUS
  <2>2. r \in 1 .. PID_MAX /\ i \in Slot /\ pidinfo'[i] # NoInfo /\ pidinfo'[i].pi_pid = r
    BY <2>1, Slots DEF Found
  <2>3. Used(i)
    BY <1>4, <2>2, Zenon DEF ExitedTable
  <2>4. pidinfo[i].pi_pid = r
    BY <1>3, <1>4, <2>2, <2>3, ZenonT(60) DEF ExitedTable
  <2> QED BY <2>1, <2>2, <2>3, <2>4, Zenon DEF Found, Used
<1>15. TreeIn(pidinfo') = g
  <2>1. \A r : r \in D <=> Found(pidinfo', r)
    BY <1>13, <1>14, Zenon
  <2>2. \A r \in D : g[r] = [parent |-> pidinfo'[SlotOf(r)].pi_ppid,
                             status |-> pidinfo'[SlotOf(r)].pi_exitstatus]
    BY <1>13, Zenon
  <2>3. g = [r \in D |-> g[r]]
    BY Zenon
  <2> HIDE DEF g, D
  <2> QED BY <1>7, <2>1, <2>2, <2>3, TreeIs
<1>16. TreeExit(a, TreeIn(pidinfo'), x, s)
  BY <1>5, <1>6, <1>11, <1>15, Zenon DEF TreeExit
<1> QED BY <1>6, <1>16, TreeSteps, Zenon DEF a

(* Every step of the code is a step of ProcTree or leaves the table alone. *)
LEMMA TreeNext ==
  ASSUME PidInv, PidInv', [Next]_vars
  PROVE  Tree!Next \/ pidinfo' = pidinfo
<1>1. CASE UNCHANGED vars
  BY <1>1 DEF vars
<1>2. CASE Next
  <2>1. PICK p \in Proc :
          \/ \E q \in Proc : pid_alloc(p, q)
          \/ \E s \in Status : pid_setexitstatus(p, s)
          \/ \E pid \in KERNEL_PID .. PID_MAX : pid_wait(p, pid) \/ pid_wait_nohang(p, pid)
          \/ pid_alloc_fails(p) \/ thread_fork(p) \/ proc_unfork(p) \/ proc_destroy_fails
          \/ proc_exit(p) \/ proc_exit_nomem(p) \/ pid_wait_returns(p)
    BY <1>2, Zenon DEF Next
  <2>2. ASSUME NEW pid \in KERNEL_PID .. PID_MAX, pid_wait(p, pid) \/ pid_wait_nohang(p, pid)
        PROVE  Tree!Next \/ pidinfo' = pidinfo
    <3>1. pid \in 0 .. PID_MAX
      BY DEF KERNEL_PID
    <3>2. CASE pi_get(pid).pi_exited
      <4>1. pc[p] \in {"run", "prog", "woken"} /\ OwnChild(p, pid) /\ Reap(p, pid)
        BY <2>2, <3>2, Zenon DEF pid_wait, pid_wait_nohang, CallsWait
      <4> QED BY <3>1, <3>2, <4>1, RefineReap, Zenon
    <3>3. CASE ~pi_get(pid).pi_exited
      <4>1. Sleep(p, pid)
        BY <2>2, <3>3, Zenon DEF pid_wait, pid_wait_nohang
      <4> QED BY <4>1, Zenon DEF Sleep, table
    <3> QED BY <3>2, <3>3
  <2>3. ASSUME pid_wait_returns(p)
        PROVE  Tree!Next
    <3>1. pc[p] = "woken" /\ Reap(p, theirpid[p]) /\ theirpid[p] \in 0 .. PID_MAX
      BY <2>3 DEF pid_wait_returns, PidInv, PidTableSound, TypeOK
    <3>2. OwnChild(p, theirpid[p]) /\ pi_get(theirpid[p]).pi_exited
      BY <3>1 DEF PidInv, PidTableSound, WaitersSound
    <3>3. pc[p] \in {"run", "prog", "woken"}
      BY <3>1
    <3> QED BY <3>1, <3>2, <3>3, RefineReap, ZenonT(60)
  <2>4. ASSUME \/ pid_alloc_fails(p)
               \/ thread_fork(p)
               \/ proc_destroy_fails
               \/ proc_exit(p)
               \/ proc_exit_nomem(p)
        PROVE  pidinfo' = pidinfo
    BY <2>4, Zenon DEF pid_alloc_fails, thread_fork, proc_destroy_fails, proc_exit, proc_exit_nomem, table
  <2> QED BY <2>1, <2>2, <2>3, <2>4, RefineAlloc, RefineExit, RefineUnfork, ZenonT(60)
<1> QED BY <1>1, <1>2

(* The process table does what fork, _exit and waitpid promise, whatever   *)
(* the number of processes, pids and slots: pid.c implements the tree of   *)
(* ProcTree.                                                               *)
THEOREM TreeImplemented == Spec => Refines
<1>1. Init => Tree!Init
  <2> SUFFICES ASSUME Init PROVE Tree!Init
    OBVIOUS
  <2>1. PidInv
    BY PidInit
  <2>2. InPlace(pidinfo)
    BY <2>1, Zenon DEF PidInv, EntriesPlaced, InPlace, Used
  <2>3. /\ 1 \in Slot /\ SlotOf(1) = 1 /\ 1 \in 1 .. PID_MAX
        /\ \A r \in 1 .. PID_MAX : SlotOf(r) \in Slot
    BY Slots, PidAssumption DEF KERNEL_PID, PIDS, PID_MIN
  <2>4. /\ pidinfo[1] = [pi_pid |-> 1, pi_ppid |-> 0, pi_exited |-> FALSE, pi_exitstatus |-> "alive"]
        /\ \A i \in Slot : i # 1 => pidinfo[i] = NoInfo
    BY <2>3, ZenonT(60) DEF Init, pidinfo_create, KERNEL_PID, INVALID_PID
  <2>5. pidinfo[1] # NoInfo /\ pidinfo[1].pi_pid = 1 /\ pidinfo[1].pi_ppid = 0
        /\ pidinfo[1].pi_exitstatus = "alive"
    BY <2>4 DEF NoInfo, pidinfo_create, INVALID_PID
  <2> DEFINE g == [r \in {1} |-> [parent |-> 0, status |-> "alive"]]
  <2>6. \A r : r \in {1} <=> Found(pidinfo, r)
    BY <2>3, <2>4, <2>5 DEF Found
  <2>7. \A r \in {1} : g[r] = [parent |-> pidinfo[SlotOf(r)].pi_ppid,
                               status |-> pidinfo[SlotOf(r)].pi_exitstatus]
    BY <2>3, <2>5, Zenon
  <2>8. g = [r \in {1} |-> g[r]]
    BY Zenon
  <2>9. TreeIn(pidinfo) = g
    <3> HIDE DEF g
    <3> QED BY <2>2, <2>6, <2>7, <2>8, TreeIs
  <2> QED BY <2>9, Zenon DEF TreeIn, NamesIn, tree, Used, pi_get,
     Tree!Init, Tree!Child, Tree!Nobody, Tree!Alive, KERNEL_PID
<1>2. PidInv /\ PidInv' /\ [Next]_vars => [Tree!Next]_tree
  <2> SUFFICES ASSUME PidInv, PidInv', [Next]_vars PROVE Tree!Next \/ tree' = tree
    OBVIOUS
  <2>1. CASE pidinfo' = pidinfo
    BY <2>1, Zenon DEF tree, Used, pi_get
  <2> QED BY <2>1, TreeNext
<1> QED BY <1>1, <1>2, PidAlways, PTL DEF Spec, Refines, Tree!Spec
=============================================================================
