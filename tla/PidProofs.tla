----------------------------- MODULE PidProofs ------------------------------
(***************************************************************************)
(* Proofs about Pid, for any number of process structures, slots of the    *)
(* process table and pids.                                                 *)
(***************************************************************************)
EXTENDS Pid, TLAPS, FiniteSetTheorems, WellFoundedInduction, NaturalsInduction

(* Division with remainder is unique.                                      *)
LEMMA ModUnique ==
  ASSUME NEW n \in Nat \ {0}, NEW a \in Int, NEW q \in Int, NEW r \in 0 .. n - 1,
         a = n * q + r
  PROVE  a % n = r
<1> DEFINE p == a \div n
           s == a % n
<1>1. p \in Int /\ s \in 0 .. n - 1 /\ a = n * p + s
  OBVIOUS
<1> SUFFICES s = r
  OBVIOUS
<1> HIDE DEF p, s
<1>2. n * (q - p) = s - r
  BY <1>1
<1>3. CASE q - p >= 1
  <2>1. n * (q - p) >= n
    BY <1>1, <1>3
  <2> QED BY <2>1, <1>1, <1>2
<1>4. CASE q - p <= 0 - 1
  <2>1. n * (p - q) >= n
    BY <1>1, <1>4
  <2>2. n * (q - p) = 0 - n * (p - q)
    BY <1>1
  <2> QED BY <2>1, <2>2, <1>1, <1>2
<1>5. CASE q = p
  <2> DEFINE z == n * p
  <2>1. z \in Int /\ a = z + s /\ a = z + r
    BY <1>1, <1>5
  <2> HIDE DEF z
  <2> QED BY <2>1, <1>1
<1> QED BY <1>1, <1>3, <1>4, <1>5

(* The least element of a non-empty set of natural numbers.                *)
LEMMA Least ==
  ASSUME NEW T \in SUBSET Nat, T # {}
  PROVE  \E k \in T : \A j \in T : k <= j
<1> DEFINE R == {ss \in Nat \X Nat : ss[1] < ss[2]}
<1>1. IsWellFoundedOn(R, Nat)
  BY NatLessThanWellFounded, Zenon DEF OpToRel
<1>2. PICK k \in T : \A j \in T : ~(<<j, k>> \in R)
  <2> HIDE DEF R
  <2> QED BY <1>1, WFMin, Zenon
<1>3. \A j \in T : j < k => <<j, k>> \in R
  OBVIOUS
<1> HIDE DEF R
<1>4. \A j \in T : ~(j < k)
  BY <1>2, <1>3, Zenon
<1>5. \A j \in T : k <= j
  BY <1>4
<1> QED BY <1>5

(* n numbers in a row have every remainder.                                *)
LEMMA InARow ==
  ASSUME NEW n \in Nat \ {0}, NEW a \in Nat, NEW i \in 0 .. n - 1
  PROVE  \E k \in 0 .. n - 1 : (a + k) % n = i
<1> DEFINE q == a \div n
           r == a % n
<1>1. q \in Int /\ r \in 0 .. n - 1 /\ a = n * q + r
  OBVIOUS
<1> HIDE DEF q, r
<1>2. CASE r <= i
  <2>1. i - r \in 0 .. n - 1 /\ a + (i - r) \in Int /\ a + (i - r) = n * q + i
    BY <1>1, <1>2
  <2>2. (a + (i - r)) % n = i
    BY <2>1, <1>1, ModUnique
  <2> QED BY Zenon, <2>1, <2>2
<1>3. CASE r > i
  <2>1. n * (q + 1) = n * q + n /\ q + 1 \in Int
    BY <1>1
  <2>2. i - r + n \in 0 .. n - 1 /\ a + (i - r + n) \in Int
    BY <1>1, <1>3
  <2>3. a + (i - r + n) = n * (q + 1) + i
    BY <1>1, <2>1
  <2>4. (a + (i - r + n)) % n = i
    BY Zenon, <2>1, <2>2, <2>3, ModUnique
  <2> QED BY <2>2, <2>4
<1> QED BY <1>1, <1>2, <1>3

(* The slot of a pid is a slot, the pids reached are pids of processes.    *)
LEMMA Slots ==
  /\ \A pid \in Nat : SlotOf(pid) \in Slot
  /\ IsFiniteSet(Slot) /\ KERNEL_PID \in Slot /\ SlotOf(KERNEL_PID) = KERNEL_PID
<1>1. PROCS_MAX \in Nat \ {0} /\ 1 \in 0 .. PROCS_MAX - 1
  BY PidAssumption DEF KERNEL_PID
<1>2. \A pid \in Nat : pid % PROCS_MAX \in 0 .. PROCS_MAX - 1
  BY <1>1
<1>3. 1 = PROCS_MAX * 0 + 1
  BY <1>1
<1>4. 1 % PROCS_MAX = 1
  BY <1>1, <1>3, ModUnique
<1>5. IsFiniteSet(0 .. PROCS_MAX - 1)
  BY <1>1, FS_Interval
<1> QED BY <1>1, <1>2, <1>4, <1>5 DEF Slot, SlotOf, KERNEL_PID

(* The numbers below n are their own remainders; the next n start again.   *)
LEMMA Wraps ==
  ASSUME NEW n \in Nat \ {0}, NEW j \in 0 .. n - 1
  PROVE  j % n = j /\ (n + j) % n = j
<1>1. j = n * 0 + j /\ n + j = n * 1 + j
  OBVIOUS
<1> QED BY <1>1, ModUnique

(* inc_nextpid stays among the pids of processes.                          *)
LEMMA AfterIn ==
  ASSUME nextpid \in PID_MIN .. PID_MAX, NEW k \in Nat
  PROVE  After(k) \in PID_MIN .. PID_MAX
<1>1. PIDS \in Nat \ {0} /\ PIDS = PID_MAX - PID_MIN + 1 /\ PID_MIN \in Nat /\ PID_MAX \in Nat
  BY PidAssumption DEF PIDS, PID_MIN, KERNEL_PID
<1>2. nextpid - PID_MIN + k \in Nat
  BY <1>1
<1>3. (nextpid - PID_MIN + k) % PIDS \in 0 .. PIDS - 1
  BY <1>1, <1>2
<1> QED BY <1>1, <1>3 DEF After

(* Every slot is that of one of the pids the search looks at.              *)
LEMMA AllSlotsSeen ==
  ASSUME nextpid \in PID_MIN .. PID_MAX, NEW i \in Slot
  PROVE  \E k \in Turns : SlotOf(After(k)) = i
<1> DEFINE x == nextpid - PID_MIN
           N == PROCS_MAX
           M == PIDS
<1>1. /\ N \in Nat \ {0} /\ M \in Nat \ {0} /\ N <= M /\ x \in 0 .. M - 1
      /\ i \in 0 .. N - 1 /\ PID_MIN = 2
  BY PidAssumption DEF PIDS, PID_MIN, KERNEL_PID, Slot
<1>2. \A k \in Nat : After(k) = PID_MIN + ((x + k) % M)
  BY DEF After
<1> HIDE DEF x, N, M
<1>3. CASE x + N <= M
  <2>1. PICK k \in 0 .. N - 1 : (2 + x + k) % N = i
    <3>1. 2 + x \in Nat
      BY <1>1
    <3> QED BY Zenon, <3>1, <1>1, InARow
  <2>2. x + k \in 0 .. M - 1 /\ k \in Nat
    BY <1>1, <1>3, <2>1
  <2>3. (x + k) % M = x + k
    BY <2>2, <1>1, Wraps
  <2>4. After(k) = 2 + x + k
    <3>1. After(k) = 2 + (x + k)
      BY <1>1, <1>2, <2>2, <2>3, Zenon
    <3> QED BY <3>1, <1>1, <2>2
  <2>5. SlotOf(After(k)) = i
    BY <2>1, <2>4 DEF SlotOf, N
  <2>6. k \in Turns
    BY <1>1, <2>1 DEF Turns, N
  <2> QED BY <2>5, <2>6
<1>4. CASE x + N > M
  <2>1. PICK j \in 0 .. N - 1 : (2 + j) % N = i
    BY Zenon, <1>1, InARow
  <2> DEFINE k == M - x + j
  <2>2. k \in Nat /\ x + k = M + j /\ j \in 0 .. M - 1 /\ k <= 2 * N
    BY <1>1, <1>4, <2>1
  <2>3. (x + k) % M = j
    BY <2>2, <1>1, Wraps
  <2> HIDE DEF k
  <2>4. After(k) = 2 + j
    BY <1>1, <1>2, <2>2, <2>3
  <2>5. SlotOf(After(k)) = i
    BY <2>1, <2>4 DEF SlotOf, N
  <2>6. k \in Turns
    BY <1>1, <2>2 DEF Turns, N
  <2> QED BY <2>5, <2>6
<1> QED BY <1>1, <1>3, <1>4

(* While nprocs counts the entries and has not reached PROCS_MAX, the      *)
(* search of pid_alloc ends at the first pid whose slot is free.           *)
LEMMA SearchEnds ==
  ASSUME nextpid \in PID_MIN .. PID_MAX, nprocs # PROCS_MAX,
         nprocs = Cardinality({i \in Slot : Used(i)})
  PROVE  Search \in Nat /\ Search \in Turns /\ FreeAfter(Search)
<1>1. PICK i \in Slot : ~Used(i)
  <2>1. SUFFICES ASSUME \A i \in Slot : Used(i) PROVE FALSE
    BY <2>1
  <2>2. {i \in Slot : Used(i)} = Slot
    BY <2>1
  <2>3. Cardinality(Slot) = PROCS_MAX
    BY PidAssumption, FS_Interval DEF Slot, KERNEL_PID
  <2> QED BY <2>2, <2>3
<1>2. PICK k \in Turns : SlotOf(After(k)) = i
  BY AllSlotsSeen
<1> DEFINE T == {j \in Turns : FreeAfter(j)}
<1>3. k \in T /\ T \in SUBSET Nat /\ Turns \subseteq Nat
  BY <1>1, <1>2, PidAssumption DEF Turns, FreeAfter
<1>4. PICK m \in T : \A j \in T : m <= j
  BY Zenon, <1>3, Least
<1>5. \A j \in 0 .. m - 1 : j \in Turns /\ ~(m <= j)
  BY <1>3, <1>4, PidAssumption DEF Turns
<1>6. m \in Turns /\ FreeAfter(m) /\ \A j \in 0 .. m - 1 : ~FreeAfter(j)
  BY <1>4, <1>5
<1>7. Search \in Turns /\ FreeAfter(Search)
  BY <1>6, Zenon DEF Search
<1> QED BY <1>3, <1>7

-----------------------------------------------------------------------------
(* The inductive invariant.  An entry is in the slot of its pid, and the   *)
(* parent it names is a process that has that pid, and another; ...        *)
EntriesPlaced ==
  \A i \in Slot : Used(i) =>
    /\ pidinfo[i].pi_pid \in 1 .. PID_MAX /\ SlotOf(pidinfo[i].pi_pid) = i
    /\ pidinfo[i].pi_ppid # pidinfo[i].pi_pid
    /\ pidinfo[i].pi_exited <=> pidinfo[i].pi_exitstatus # "alive"
    /\ pidinfo[i].pi_ppid # INVALID_PID =>
         \E p \in Proc : HasPid(p) /\ p_pid[p] = pidinfo[i].pi_ppid

(* ... a process that forks has a child of its own without a thread ...    *)
ForksOwnChild ==
  \A p \in Proc : pc[p] = "fork" =>
    pc[newproc[p]] = "new" /\ pi_get(p_pid[newproc[p]]).pi_ppid = p_pid[p]

(* ... a process without a thread has no children ...                      *)
NewChildless ==
  \A p \in Proc, i \in Slot : pc[p] = "new" /\ Used(i) => pidinfo[i].pi_ppid # p_pid[p]

(* ... and the kernel's process, which alone runs programs from the menu,  *)
(* keeps its pid.                                                          *)
KernelStays ==
  /\ HasPid(kproc) /\ pc[kproc] # "new" /\ p_pid[kproc] = KERNEL_PID
  /\ \A p \in Proc : pc[p] = "prog" => p = kproc

PidInv ==
  PidTableSound /\ EntriesPlaced /\ ForksOwnChild /\ NewChildless /\ KernelStays

(* A process with a pid has the entry in the slot of its pid, and no other *)
(* process has that slot.                                                  *)
LEMMA OwnEntry ==
  ASSUME PidInv, NEW p \in Proc, HasPid(p)
  PROVE  /\ p_pid[p] \in 1 .. PID_MAX /\ SlotOf(p_pid[p]) \in Slot
         /\ Used(SlotOf(p_pid[p])) /\ pidinfo[SlotOf(p_pid[p])].pi_pid = p_pid[p]
         /\ ~pidinfo[SlotOf(p_pid[p])].pi_exited
         /\ \A q \in Proc : HasPid(q) /\ SlotOf(p_pid[q]) = SlotOf(p_pid[p]) => q = p
<1>1. p_pid[p] \in 0 .. PID_MAX /\ PID_MAX \in Nat /\ SlotOf(p_pid[p]) \in Slot
  BY Slots, PidAssumption DEF PidInv, PidTableSound, TypeOK
<1>2. \A q \in Proc : HasPid(q) =>
        /\ Used(SlotOf(p_pid[q])) /\ pidinfo[SlotOf(p_pid[q])].pi_pid = p_pid[q]
        /\ ~pidinfo[SlotOf(p_pid[q])].pi_exited
  BY Zenon DEF PidInv, PidTableSound, PidsSound, Known, pi_get
<1>3. p_pid[p] \in 1 .. PID_MAX
  BY <1>1, <1>2, Zenon DEF PidInv, EntriesPlaced
<1>4. \A q \in Proc : HasPid(q) /\ p_pid[p] = p_pid[q] => p = q
  BY Zenon DEF PidInv, PidTableSound, PidsSound
<1> QED BY <1>1, <1>2, <1>3, <1>4, Zenon

(* The entries the code makes are entries.                                 *)
Entry == [pi_pid : 0 .. PID_MAX, pi_ppid : 0 .. PID_MAX,
          pi_exited : BOOLEAN, pi_exitstatus : Status \cup {"alive"}]

Orphan(e) == [e EXCEPT !.pi_ppid = INVALID_PID]
Dead(e, s) == [e EXCEPT !.pi_exited = TRUE, !.pi_exitstatus = s]

(* Entries that are made, orphaned or marked exited are entries, and which *)
(* fields each of these changes.                                           *)
LEMMA EntriesTyped ==
  /\ NoInfo \in Entry
  /\ \A pid, ppid \in 0 .. PID_MAX :
       pidinfo_create(pid, ppid) \in Entry
  /\ \A e \in Entry :
       /\ Orphan(e) \in Entry
       /\ Orphan(e).pi_pid = e.pi_pid
       /\ Orphan(e).pi_ppid = INVALID_PID
       /\ Orphan(e).pi_exited = e.pi_exited
       /\ Orphan(e).pi_exitstatus = e.pi_exitstatus
  /\ \A e \in Entry, s \in Status :
       /\ Dead(e, s) \in Entry
       /\ Dead(e, s).pi_pid = e.pi_pid
       /\ Dead(e, s).pi_ppid = e.pi_ppid
       /\ Dead(e, s).pi_exited = TRUE
       /\ Dead(e, s).pi_exitstatus = s
<1>1. 0 \in 0 .. PID_MAX
  BY PidAssumption
<1>2. \A pid, ppid \in 0 .. PID_MAX, b \in BOOLEAN, s \in Status \cup {"alive"} :
        [pi_pid |-> pid, pi_ppid |-> ppid, pi_exited |-> b, pi_exitstatus |-> s] \in Entry
  BY Zenon DEF Entry
<1>3. \A pid, ppid \in 0 .. PID_MAX : pidinfo_create(pid, ppid) \in Entry
  BY <1>2, Zenon DEF pidinfo_create
<1>4. NoInfo \in Entry
  BY <1>1, <1>3, Zenon DEF NoInfo, INVALID_PID
<1>5. \A e \in Entry : Orphan(e) \in Entry
  BY <1>1 DEF Entry, Orphan, INVALID_PID
<1>6. \A e \in Entry, s \in Status :
        Dead(e, s) \in Entry
  BY Zenon DEF Entry, Orphan, Dead
<1>7. \A e \in Entry :
        /\ Orphan(e).pi_pid = e.pi_pid
        /\ Orphan(e).pi_ppid = INVALID_PID
        /\ Orphan(e).pi_exited = e.pi_exited
        /\ Orphan(e).pi_exitstatus = e.pi_exitstatus
  BY DEF Entry, Orphan, Dead
<1>8. \A e \in Entry, s \in Status :
        /\ Dead(e, s).pi_pid = e.pi_pid
        /\ Dead(e, s).pi_ppid = e.pi_ppid
        /\ Dead(e, s).pi_exited = TRUE
        /\ Dead(e, s).pi_exitstatus = s
  BY DEF Entry, Orphan, Dead
<1> QED BY <1>3, <1>4, <1>5, <1>6, <1>7, <1>8, Zenon

(* The table pid_bootstrap leaves, with the kernel's process in it,        *)
(* satisfies the invariant.                                                *)
LEMMA PidInit == Init => PidInv
<1> SUFFICES ASSUME Init PROVE PidInv
  OBVIOUS
<1> USE DEF Init
<1>1. /\ PROCS_MAX \in Nat /\ PID_MAX \in Nat /\ PID_MAX >= 2 /\ PROCS_MAX > 1
      /\ kproc \in Proc /\ 1 \in Slot
  BY PidAssumption, Slots DEF PIDS, PID_MIN, KERNEL_PID
<1>2. pidinfo \in [Slot -> [pi_pid : 0 .. PID_MAX, pi_ppid : 0 .. PID_MAX,
                           pi_exited : BOOLEAN, pi_exitstatus : Status \cup {"alive"}]]
  <2>1. 0 \in 0 .. PID_MAX /\ 1 \in 0 .. PID_MAX
    BY <1>1
  <2> QED BY <2>1, EntriesTyped, Zenon DEF Entry, KERNEL_PID, INVALID_PID
<1>3. TypeOK
  BY <1>1, <1>2 DEF TypeOK, PID_MIN, KERNEL_PID, INVALID_PID, Doing
<1>4. pidinfo[1] = [pi_pid |-> 1, pi_ppid |-> 0, pi_exited |-> FALSE, pi_exitstatus |-> "alive"]
  BY <1>1 DEF pidinfo_create, NoInfo, KERNEL_PID, INVALID_PID
<1>5. \A i \in Slot : Used(i) <=> i = 1
  <2>1. \A i \in Slot : i # 1 => pidinfo[i] = NoInfo
    BY DEF KERNEL_PID
  <2>2. pidinfo[1] # NoInfo
    BY <1>4 DEF NoInfo, pidinfo_create, INVALID_PID
  <2> QED BY <2>1, <2>2 DEF Used
<1>6. \A p \in Proc : HasPid(p) <=> p = kproc
  BY DEF HasPid
<1>7. p_pid[kproc] = 1 /\ SlotOf(1) = 1 /\ pc[kproc] = "run"
  BY <1>1, Slots DEF KERNEL_PID
<1>8. PidsSound
  <2>1. {i \in Slot : Used(i)} = {1}
    BY <1>1, <1>5
  <2>2. Cardinality({1}) = 1
    BY Zenon, FS_Singleton
  <2> QED BY <1>1, <1>4, <1>5, <1>6, <1>7, <2>1, <2>2 DEF PidsSound, Known, pi_get
<1>9. NothingForgotten
  BY <1>1, <1>4, <1>5, <1>6, <1>7 DEF NothingForgotten
<1>10. EntriesPlaced
  BY <1>1, <1>4, <1>5, <1>7 DEF EntriesPlaced, INVALID_PID
<1>11. \A p \in Proc : pc[p] \in {"run", "none"}
  OBVIOUS
<1>12. WaitersSound /\ MenuFindsProgram /\ ForksOwnChild /\ NewChildless
  BY <1>1, <1>11 DEF WaitersSound, MenuFindsProgram, ForksOwnChild, NewChildless
<1>13. KernelStays
  BY <1>1, <1>6, <1>7, <1>11 DEF KernelStays, KERNEL_PID
<1> QED BY <1>3, <1>8, <1>9, <1>10, <1>12, <1>13 DEF PidInv, PidTableSound

(* The steps that leave the table and the pids alone: what matters is what *)
(* becomes of those who fork and of those who wait.                        *)
LEMMA TableKept ==
  ASSUME PidInv, UNCHANGED <<pidinfo, nprocs, p_pid>>, TypeOK',
         \A p \in Proc : HasPid(p)' <=> HasPid(p), KernelStays',
         \A p \in Proc : pc'[p] = "new" => pc[p] = "new",
         \A p \in Proc : pc'[p] = "fork" =>
           pc[p] = "fork" /\ newproc'[p] = newproc[p] /\ pc'[newproc[p]] = "new",
         \A p \in Proc : pc'[p] \in {"prog", "wait", "woken"} =>
           /\ OwnChild(p, theirpid'[p])
           /\ pc'[p] \in {"wait", "woken"} =>
                (pi_get(theirpid'[p]).pi_exited <=> pc'[p] = "woken")
  PROVE  PidInv'
<1> USE DEF PidInv, PidTableSound
<1>1. \A i \in Slot : Used(i)' <=> Used(i)
  BY DEF Used
<1>2. \A x : Known(x)' <=> Known(x)
  BY Zenon DEF Known, Used
<1>3. \A x : pi_get(x)' = pi_get(x)
  BY Zenon DEF pi_get
<1>4. PidsSound'
  <2>1. {i \in Slot : Used(i)}' = {i \in Slot : Used(i)}
    BY <1>1
  <2> QED BY ZenonT(60), <1>2, <1>3, <2>1 DEF PidsSound
<1>5. NothingForgotten'
  BY <1>1 DEF NothingForgotten
<1>6. EntriesPlaced'
  BY <1>1 DEF EntriesPlaced
<1>7. ForksOwnChild'
  BY <1>3 DEF ForksOwnChild, TypeOK
<1>8. NewChildless'
  BY <1>1 DEF NewChildless
<1>9. \A p, x : OwnChild(p, x)' <=> OwnChild(p, x)
  BY <1>2, <1>3, ZenonT(60) DEF OwnChild
<1>10. WaitersSound' /\ MenuFindsProgram'
  BY <1>3, <1>9, PidAssumption DEF WaitersSound, MenuFindsProgram
<1> QED BY <1>4, <1>5, <1>6, <1>7, <1>8, <1>10

(* pid_alloc without memory, and the panics.                               *)
LEMMA StepFails ==
  ASSUME PidInv, NEW p \in Proc,
         pid_alloc_fails(p) \/ proc_destroy_fails \/ proc_exit_nomem(p) \/ UNCHANGED vars
  PROVE  PidInv'
<1>1. /\ UNCHANGED <<pidinfo, nprocs, p_pid, pc, newproc, theirpid>>
      /\ panicked' \in {panicked, "proc_destroy", "thread_exit"}
  BY DEF pid_alloc_fails, proc_destroy_fails, proc_exit_nomem, table, vars
<1>2. nextpid' \in PID_MIN .. PID_MAX
  <2>1. CASE pid_alloc_fails(p)
    <3>1. Search \in Nat
      BY <2>1, SearchEnds DEF PidInv, PidTableSound, PidsSound, TypeOK, pid_alloc_fails
    <3>2. After(Search) \in PID_MIN .. PID_MAX
      BY <3>1, AfterIn DEF PidInv, PidTableSound, TypeOK
    <3> QED BY <2>1, <3>2 DEF pid_alloc_fails
  <2>2. CASE nextpid' = nextpid
    BY <2>2 DEF PidInv, PidTableSound, TypeOK
  <2> QED BY <2>1, <2>2 DEF proc_destroy_fails, proc_exit_nomem, table, vars
<1>3. TypeOK'
  BY <1>1, <1>2 DEF PidInv, PidTableSound, TypeOK
<1>4. \A q \in Proc : HasPid(q)' <=> HasPid(q)
  BY <1>1 DEF HasPid
<1>5. KernelStays'
  BY <1>1 DEF PidInv, KernelStays, HasPid
<1>6. \A q \in Proc : pc'[q] = "fork" =>
        pc[q] = "fork" /\ newproc'[q] = newproc[q] /\ pc'[newproc[q]] = "new"
  BY <1>1 DEF PidInv, ForksOwnChild
<1>7. \A q \in Proc : pc'[q] \in {"prog", "wait", "woken"} =>
        /\ OwnChild(q, theirpid'[q])
        /\ pc'[q] \in {"wait", "woken"} =>
             (pi_get(theirpid'[q]).pi_exited <=> pc'[q] = "woken")
  BY <1>1 DEF PidInv, PidTableSound, WaitersSound, MenuFindsProgram, KernelStays
<1>8. \A q \in Proc : pc'[q] = "new" => pc[q] = "new"
  BY <1>1
<1> QED BY <1>1, <1>3, <1>4, <1>5, <1>6, <1>7, <1>8, TableKept

(* The child gets its thread.                                              *)
LEMMA StepFork ==
  ASSUME PidInv, NEW p \in Proc, thread_fork(p)
  PROVE  PidInv'
<1> DEFINE q == newproc[p]
<1> USE DEF PidInv, PidTableSound
<1>1. /\ q \in Proc /\ pc[q] = "new" /\ pc[p] = "fork" /\ q # p /\ q # kproc
      /\ p_pid[q] \in 0 .. PID_MAX /\ kproc \in Proc
  BY PidAssumption DEF TypeOK, ForksOwnChild, thread_fork, KernelStays
<1>2. OwnChild(p, p_pid[q])
  <2>1. HasPid(q) /\ HasPid(p)
    BY <1>1 DEF HasPid
  <2> QED BY <1>1, <2>1 DEF OwnChild, PidsSound, ForksOwnChild
<1>3. /\ UNCHANGED <<pidinfo, nextpid, nprocs, p_pid, panicked>>
      /\ pc' = [pc EXCEPT ![p] = IF p = kproc THEN "prog" ELSE "run", ![q] = "run"]
      /\ theirpid' = [theirpid EXCEPT ![p] = IF p = kproc THEN p_pid[q] ELSE theirpid[p]]
      /\ newproc' = [newproc EXCEPT ![p] = kproc]
  BY DEF thread_fork, table
<1>4. \A r \in Proc : pc[r] = "fork" /\ newproc[r] = q => r = p
  BY <1>1 DEF ForksOwnChild, PidsSound, HasPid
<1> HIDE DEF q
<1>5. TypeOK'
  <2>1. pc' \in [Proc -> Doing]
    BY <1>1, <1>3 DEF TypeOK, Doing
  <2>2. newproc' \in [Proc -> Proc] /\ theirpid' \in [Proc -> 0 .. PID_MAX]
    BY <1>1, <1>3 DEF TypeOK
  <2> QED BY <1>3, <2>1, <2>2 DEF TypeOK
<1>6. /\ pc'[p] \in {"prog", "run"} /\ pc'[q] = "run" /\ (pc'[p] = "prog" <=> p = kproc)
      /\ \A r \in Proc : r # p /\ r # q =>
           pc'[r] = pc[r] /\ theirpid'[r] = theirpid[r] /\ newproc'[r] = newproc[r]
      /\ p = kproc => theirpid'[p] = p_pid[q]
  BY <1>1, <1>3 DEF TypeOK
<1>7. \A r \in Proc : HasPid(r)' <=> HasPid(r)
  BY <1>1, <1>6 DEF HasPid
<1>8. KernelStays'
  BY ZenonT(60), <1>1, <1>3, <1>6, <1>7 DEF KernelStays
<1>9. \A r \in Proc : pc'[r] = "fork" =>
        pc[r] = "fork" /\ newproc'[r] = newproc[r] /\ pc'[newproc[r]] = "new"
  <2> SUFFICES ASSUME NEW r \in Proc, pc'[r] = "fork"
               PROVE  pc[r] = "fork" /\ newproc'[r] = newproc[r] /\ pc'[newproc[r]] = "new"
    OBVIOUS
  <2>1. r # p /\ r # q /\ pc[r] = "fork" /\ newproc'[r] = newproc[r]
    BY <1>6
  <2>2. newproc[r] \in Proc /\ newproc[r] # q /\ pc[newproc[r]] = "new" /\ newproc[r] # p
    BY SMTT(40), <1>1, <1>4, <2>1 DEF TypeOK, ForksOwnChild
  <2> QED BY <1>6, <2>1, <2>2
<1>10. \A r \in Proc : pc'[r] \in {"prog", "wait", "woken"} =>
         /\ OwnChild(r, theirpid'[r])
         /\ pc'[r] \in {"wait", "woken"} =>
              (pi_get(theirpid'[r]).pi_exited <=> pc'[r] = "woken")
  BY <1>1, <1>2, <1>6 DEF WaitersSound, MenuFindsProgram, KernelStays
<1>11. \A r \in Proc : pc'[r] = "new" => pc[r] = "new"
  BY SMTT(40), <1>6
<1> QED BY Zenon, <1>3, <1>5, <1>7, <1>8, <1>9, <1>10, <1>11, TableKept

(* An exited process goes.                                                 *)
LEMMA StepGone ==
  ASSUME PidInv, NEW p \in Proc, proc_exit(p)
  PROVE  PidInv'
<1> USE DEF PidInv, PidTableSound
<1>1. /\ UNCHANGED <<pidinfo, nextpid, nprocs, p_pid, newproc, theirpid, panicked>>
      /\ pc[p] = "exit" /\ pc' = [pc EXCEPT ![p] = "none"] /\ kproc \in Proc
  BY PidAssumption DEF proc_exit, table
<1>2. TypeOK'
  BY <1>1 DEF TypeOK, Doing
<1>3. pc'[p] = "none" /\ \A r \in Proc : r # p => pc'[r] = pc[r]
  BY <1>1 DEF TypeOK
<1>4. \A r \in Proc : HasPid(r)' <=> HasPid(r)
  BY <1>1, <1>3 DEF HasPid
<1>5. KernelStays'
  BY <1>1, <1>3, <1>4 DEF KernelStays
<1>6. \A r \in Proc : pc'[r] = "fork" =>
        pc[r] = "fork" /\ newproc'[r] = newproc[r] /\ pc'[newproc[r]] = "new"
  BY <1>1, <1>3 DEF ForksOwnChild, TypeOK
<1>7. \A r \in Proc : pc'[r] \in {"prog", "wait", "woken"} =>
        /\ OwnChild(r, theirpid'[r])
        /\ pc'[r] \in {"wait", "woken"} =>
             (pi_get(theirpid'[r]).pi_exited <=> pc'[r] = "woken")
  BY <1>1, <1>3 DEF WaitersSound, MenuFindsProgram, KernelStays
<1>8. \A r \in Proc : pc'[r] = "new" => pc[r] = "new"
  BY SMTT(40), <1>3
<1> QED BY SMTT(40), <1>1, <1>2, <1>4, <1>5, <1>6, <1>7, <1>8, TableKept

(* A parent goes to sleep.                                                 *)
LEMMA StepSleep ==
  ASSUME PidInv, NEW p \in Proc, NEW pid \in KERNEL_PID .. PID_MAX, CallsWait(p, pid),
         OwnChild(p, pid), ~pi_get(pid).pi_exited, Sleep(p, pid)
  PROVE  PidInv'
<1> USE DEF PidInv, PidTableSound
<1>1. /\ UNCHANGED <<pidinfo, nextpid, nprocs, p_pid, newproc, panicked>>
      /\ pc[p] \in {"run", "prog"} /\ pc' = [pc EXCEPT ![p] = "wait"] /\ kproc \in Proc
      /\ theirpid' = [theirpid EXCEPT ![p] = pid]
  BY PidAssumption DEF Sleep, CallsWait, table
<1>2. TypeOK'
  <2>1. pid \in 0 .. PID_MAX
    BY DEF KERNEL_PID
  <2> QED BY <1>1, <2>1 DEF TypeOK, Doing
<1>3. /\ pc'[p] = "wait" /\ theirpid'[p] = pid
      /\ \A r \in Proc : r # p => pc'[r] = pc[r] /\ theirpid'[r] = theirpid[r]
  BY <1>1 DEF TypeOK
<1>4. \A r \in Proc : HasPid(r)' <=> HasPid(r)
  BY <1>1, <1>3 DEF HasPid
<1>5. KernelStays'
  BY <1>1, <1>3, <1>4 DEF KernelStays
<1>6. \A r \in Proc : pc'[r] = "fork" =>
        pc[r] = "fork" /\ newproc'[r] = newproc[r] /\ pc'[newproc[r]] = "new"
  BY <1>1, <1>3 DEF ForksOwnChild, TypeOK
<1>7. \A r \in Proc : pc'[r] \in {"prog", "wait", "woken"} =>
        /\ OwnChild(r, theirpid'[r])
        /\ pc'[r] \in {"wait", "woken"} =>
             (pi_get(theirpid'[r]).pi_exited <=> pc'[r] = "woken")
  BY <1>1, <1>3 DEF WaitersSound, MenuFindsProgram, KernelStays
<1>8. \A r \in Proc : pc'[r] = "new" => pc[r] = "new"
  BY <1>3
<1> QED BY <1>1, <1>2, <1>4, <1>5, <1>6, <1>7, <1>8, TableKept

(* What pid_alloc does to the table: pid n, whose slot d is free, gets an  *)
(* entry that names x as its parent.                                       *)
AllocatedTable(n, d, x) ==
  /\ n \in 1 .. PID_MAX /\ d \in Slot /\ ~Used(d)
  /\ pidinfo' = [pidinfo EXCEPT ![d] = pidinfo_create(n, x)]
  /\ \A i \in Slot : i # d => pidinfo'[i] = pidinfo[i]
  /\ pidinfo'[d].pi_pid = n /\ pidinfo'[d].pi_ppid = x /\ ~pidinfo'[d].pi_exited
  /\ pidinfo'[d].pi_exitstatus = "alive" /\ pidinfo'[d] # NoInfo

(* pid_alloc finds a free slot, and all it does to the table is to fill it *)
(* with the child's entry.                                                 *)
LEMMA AllocTable ==
  ASSUME PidInv, NEW p \in Proc, NEW q \in Proc, pid_alloc(p, q)
  PROVE  /\ Search \in Nat /\ After(Search) \in PID_MIN .. PID_MAX
         /\ AllocatedTable(After(Search), SlotOf(After(Search)), p_pid[p])
<1> USE DEF PidInv, PidTableSound
<1> DEFINE n == After(Search)
           d == SlotOf(n)
<1>1. Search \in Nat /\ ~Used(d)
  BY SearchEnds DEF PidsSound, TypeOK, pid_alloc, FreeAfter
<1>2. n \in PID_MIN .. PID_MAX
  BY <1>1, AfterIn DEF TypeOK
<1>3. n \in 1 .. PID_MAX /\ d \in Slot
  BY <1>2, Slots DEF PID_MIN
<1>4. pidinfo' = [pidinfo EXCEPT ![d] = pidinfo_create(n, p_pid[p])]
  BY DEF pid_alloc
<1> HIDE DEF n, d
<1>5. /\ pidinfo'[d] = pidinfo_create(n, p_pid[p])
      /\ \A i \in Slot : i # d => pidinfo'[i] = pidinfo[i]
  BY <1>3, <1>4 DEF TypeOK
<1>6. NoInfo.pi_pid = 0
  BY DEF NoInfo, pidinfo_create, INVALID_PID
<1>7. pidinfo'[d].pi_pid = n /\ pidinfo'[d].pi_ppid = p_pid[p]
      /\ pidinfo'[d].pi_exitstatus = "alive"
  BY <1>5 DEF pidinfo_create
<1>8. ~pidinfo'[d].pi_exited
  BY <1>5 DEF pidinfo_create
<1>9. pidinfo'[d] # NoInfo
  BY <1>3, <1>6, <1>7
<1>10. AllocatedTable(n, d, p_pid[p])
  BY <1>1, <1>3, <1>4, <1>5, <1>7, <1>8, <1>9, ZenonT(60) DEF AllocatedTable
<1> QED BY <1>1, <1>2, <1>10, ZenonT(60) DEF n, d

(* A new process gets a pid whose slot is free.                            *)
LEMMA StepAlloc ==
  ASSUME PidInv, NEW p \in Proc, NEW q \in Proc, pid_alloc(p, q)
  PROVE  PidInv'
<1> USE DEF PidInv, PidTableSound
<1> DEFINE n == After(Search)
           d == SlotOf(n)
           U == {i \in Slot : Used(i)}
<1>1. AllocatedTable(n, d, p_pid[p]) /\ After(Search + 1) \in PID_MIN .. PID_MAX
  BY AllocTable, AfterIn DEF TypeOK
<1>2. n \in 1 .. PID_MAX /\ n \in 0 .. PID_MAX /\ d \in Slot /\ ~Used(d)
  BY <1>1 DEF AllocatedTable
<1>3. /\ pc[p] = "run" /\ pc[q] = "none" /\ p # q /\ q # kproc /\ kproc \in Proc
      /\ pidinfo' = [pidinfo EXCEPT ![d] = pidinfo_create(n, p_pid[p])]
      /\ nprocs' = nprocs + 1 /\ nextpid' = After(Search + 1) /\ nprocs # PROCS_MAX
      /\ p_pid' = [p_pid EXCEPT ![q] = n]
      /\ pc' = [pc EXCEPT ![p] = "fork", ![q] = "new"]
      /\ newproc' = [newproc EXCEPT ![p] = q]
      /\ UNCHANGED <<theirpid, panicked>>
  BY PidAssumption DEF pid_alloc, KernelStays, HasPid
<1>4. SlotOf(n) = d
  OBVIOUS
<1> HIDE DEF n, d
<1>5. HasPid(p) /\ ~HasPid(q)
  BY <1>3 DEF HasPid
<1>6. \A i \in Slot : i # d => pidinfo'[i] = pidinfo[i]
  BY <1>1 DEF AllocatedTable
<1>7. /\ pidinfo'[d].pi_pid = n /\ pidinfo'[d].pi_ppid = p_pid[p] /\ ~pidinfo'[d].pi_exited
      /\ pidinfo'[d].pi_exitstatus = "alive" /\ pidinfo'[d] # NoInfo
  BY <1>1 DEF AllocatedTable
<1>8. \A i \in Slot : Used(i)' <=> (Used(i) \/ i = d)
  BY <1>6, <1>7 DEF Used
<1>9. /\ pc'[p] = "fork" /\ pc'[q] = "new" /\ p_pid'[q] = n /\ newproc'[p] = q
      /\ \A r \in Proc : r # p /\ r # q => pc'[r] = pc[r]
      /\ \A r \in Proc : r # p => newproc'[r] = newproc[r]
      /\ \A r \in Proc : r # q => p_pid'[r] = p_pid[r]
  BY <1>3 DEF TypeOK
<1>10. \A r \in Proc : HasPid(r)' <=> HasPid(r) \/ r = q
  BY SMTT(40), <1>5, <1>9 DEF HasPid
<1>11. \A r \in Proc : HasPid(r) => /\ p_pid[r] \in 1 .. PID_MAX /\ SlotOf(p_pid[r]) \in Slot
                                      /\ SlotOf(p_pid[r]) # d /\ p_pid[r] # n
                                      /\ p_pid'[r] = p_pid[r]
  BY SMTT(40), <1>2, <1>5, <1>9, OwnEntry, <1>4
<1>12. TypeOK'
  <2>1. pidinfo_create(n, p_pid[p]) \in Entry
    BY <1>2, EntriesTyped DEF TypeOK
  <2>2. pidinfo' \in [Slot -> Entry]
    BY ZenonT(60), <1>3, <2>1 DEF TypeOK, Entry
  <2>3. nprocs' \in 0 .. PROCS_MAX
    BY <1>2, <1>3, PidAssumption DEF TypeOK
  <2>4. pc' \in [Proc -> Doing]
    BY <1>3 DEF TypeOK, Doing
  <2>5. p_pid' \in [Proc -> 0 .. PID_MAX] /\ newproc' \in [Proc -> Proc]
    BY SMTT(40), <1>2, <1>3 DEF TypeOK
  <2> QED BY SMTT(40), <1>1, <1>3, <2>2, <2>3, <2>4, <2>5 DEF TypeOK, Entry
<1>13. PidsSound'
  <2>1. ASSUME NEW r \in Proc, HasPid(r)'
        PROVE  Known(p_pid[r])' /\ ~pi_get(p_pid[r])'.pi_exited
    <3>1. CASE r = q
      BY SMTT(40), <3>1, <1>2, <1>7, <1>8, <1>9, <1>4 DEF Known, pi_get
    <3>2. CASE HasPid(r)
      BY SMTT(40), <3>2, <1>6, <1>8, <1>11, OwnEntry DEF Known, pi_get
    <3> QED BY SMTT(40), <2>1, <1>10, <3>1, <3>2
  <2>2. ASSUME NEW r \in Proc, NEW t \in Proc, HasPid(r)', HasPid(t)', p_pid'[r] = p_pid'[t]
        PROVE  r = t
    <3>1. HasPid(r) /\ HasPid(t) /\ p_pid[r] = p_pid[t] => r = t
      BY DEF PidsSound
    <3> QED BY <1>9, <1>10, <1>11, <2>2, <3>1
  <2>3. nprocs' = Cardinality({i \in Slot : Used(i)}')
    <3>1. {i \in Slot : Used(i)}' = U \cup {d}
      BY <1>2, <1>8
    <3>2. IsFiniteSet(U) /\ d \notin U
      BY <1>2, Slots, FS_Subset
    <3>3. Cardinality(U \cup {d}) = Cardinality(U) + 1
      BY SMTT(40), <3>2, FS_AddElement
    <3> QED BY ZenonT(60), <1>3, <3>1, <3>3 DEF PidsSound
  <2> QED BY ZenonT(60), <2>1, <2>2, <2>3 DEF PidsSound
<1>14. NothingForgotten'
  <2> SUFFICES ASSUME NEW i \in Slot, Used(i)'
               PROVE  \/ \E r \in Proc : HasPid(r)' /\ p_pid'[r] = pidinfo'[i].pi_pid
                      \/ /\ pidinfo'[i].pi_exited
                         /\ \E r \in Proc : HasPid(r)' /\ p_pid'[r] = pidinfo'[i].pi_ppid
    BY SMTT(40) DEF NothingForgotten
  <2>1. CASE i = d
    BY SMTT(40), <2>1, <1>7, <1>9, <1>10
  <2>2. CASE i # d
    BY <2>2, <1>6, <1>8, <1>10, <1>11 DEF NothingForgotten
  <2> QED BY SMTT(40), <2>1, <2>2
<1>15. EntriesPlaced'
  <2> SUFFICES ASSUME NEW i \in Slot, Used(i)'
               PROVE  /\ pidinfo'[i].pi_pid \in 1 .. PID_MAX /\ SlotOf(pidinfo'[i].pi_pid) = i
                      /\ pidinfo'[i].pi_ppid # pidinfo'[i].pi_pid
                      /\ pidinfo'[i].pi_exited <=> pidinfo'[i].pi_exitstatus # "alive"
                      /\ pidinfo'[i].pi_ppid # INVALID_PID =>
                           \E r \in Proc : HasPid(r)' /\ p_pid'[r] = pidinfo'[i].pi_ppid
    BY SMTT(40) DEF EntriesPlaced
  <2>1. CASE i = d
    BY <2>1, <1>2, <1>5, <1>7, <1>10, <1>11, <1>4
  <2>2. CASE i # d
    BY SMTT(40), <2>2, <1>6, <1>8, <1>10, <1>11 DEF EntriesPlaced
  <2> QED BY <2>1, <2>2
<1>16. ForksOwnChild'
  <2> SUFFICES ASSUME NEW r \in Proc, pc'[r] = "fork"
               PROVE  pc'[newproc'[r]] = "new" /\ pi_get(p_pid[newproc[r]])'.pi_ppid = p_pid'[r]
    BY SMTT(40) DEF ForksOwnChild
  <2>1. CASE r = p
    BY SMTT(40), <2>1, <1>3, <1>7, <1>9, <1>4 DEF pi_get
  <2>2. CASE r # p
    <3> DEFINE w == newproc[r]
    <3>1. pc[r] = "fork" /\ r # q /\ w \in Proc /\ newproc'[r] = w
      BY SMTT(40), <2>2, <1>9 DEF TypeOK
    <3>2. pc[w] = "new" /\ pi_get(p_pid[w]).pi_ppid = p_pid[r] /\ HasPid(w) /\ HasPid(r)
      BY SMTT(40), <3>1 DEF ForksOwnChild, HasPid
    <3>3. pc'[w] = "new" /\ p_pid'[w] = p_pid[w] /\ p_pid'[r] = p_pid[r]
      BY ZenonT(60), <1>3, <1>9, <1>11, <3>1, <3>2
    <3>4. pidinfo'[SlotOf(p_pid[w])] = pidinfo[SlotOf(p_pid[w])]
      BY Zenon, <1>6, <1>11, <3>1, <3>2
    <3> QED BY ZenonT(60), <3>1, <3>2, <3>3, <3>4 DEF pi_get
  <2> QED BY SMTT(40), <2>1, <2>2
<1>17. NewChildless'
  <2> SUFFICES ASSUME NEW r \in Proc, NEW i \in Slot, pc'[r] = "new", Used(i)'
               PROVE  pidinfo'[i].pi_ppid # p_pid'[r]
    BY SMTT(40) DEF NewChildless
  <2>1. CASE i = d
    <3>1. r = q \/ (pc[r] = "new" /\ r # p)
      BY Zenon, <1>3, <1>9
    <3>2. p_pid'[r] # p_pid[p]
      BY <3>1, <1>3, <1>5, <1>9, <1>11 DEF PidsSound, HasPid
    <3> QED BY SMTT(40), <2>1, <3>2, <1>7
  <2>2. CASE i # d
    <3>1. Used(i) /\ pidinfo'[i] = pidinfo[i]
      BY SMTT(40), <2>2, <1>6, <1>8
    <3>2. CASE r = q
      <4>1. p_pid'[r] = n
        BY SMTT(40), <3>2, <1>9
      <4>2. pidinfo[i].pi_ppid = n => \E t \in Proc : HasPid(t) /\ p_pid[t] = n
        BY SMTT(40), <3>1, <1>2 DEF EntriesPlaced, INVALID_PID
      <4> QED BY SMTT(40), <1>11, <3>1, <4>1, <4>2
    <3>3. CASE r # q
      BY <3>1, <3>3, <1>3, <1>9 DEF NewChildless
    <3> QED BY <3>2, <3>3
  <2> QED BY SMTT(40), <2>1, <2>2
<1>18. KernelStays'
  BY ZenonT(60), <1>3, <1>5, <1>9, <1>10 DEF KernelStays
<1>19. ASSUME NEW r \in Proc, NEW x \in 0 .. PID_MAX, OwnChild(r, x), HasPid(r)
       PROVE  OwnChild(r, x)' /\ pi_get(x)' = pi_get(x)
  <2>1. SlotOf(x) \in Slot /\ SlotOf(x) # d
    BY <1>2, <1>19, Slots, <1>4 DEF OwnChild, Known
  <2>2. pidinfo'[SlotOf(x)] = pidinfo[SlotOf(x)] /\ (Used(SlotOf(x))' <=> Used(SlotOf(x)))
    BY SMTT(40), <2>1, <1>6, <1>8
  <2> QED BY ZenonT(60), <2>2, <1>11, <1>19 DEF OwnChild, Known, pi_get
<1>20. WaitersSound' /\ MenuFindsProgram'
  <2>1. ASSUME NEW r \in Proc, pc'[r] \in {"wait", "woken", "prog"}
        PROVE  /\ pc'[r] = pc[r] /\ HasPid(r) /\ theirpid'[r] = theirpid[r]
               /\ theirpid[r] \in 0 .. PID_MAX
    BY ZenonT(60), <2>1, <1>3, <1>9 DEF HasPid, TypeOK
  <2>2. WaitersSound'
    BY ZenonT(60), <1>19, <2>1 DEF WaitersSound
  <2>3. MenuFindsProgram'
    BY ZenonT(60), <1>3, <1>19, <2>1 DEF MenuFindsProgram
  <2> QED BY SMTT(40), <2>2, <2>3
<1> QED BY SMTT(40), <1>12, <1>13, <1>14, <1>15, <1>16, <1>17, <1>18, <1>20

-----------------------------------------------------------------------------
(* A process exits.                                                        *)

(* What an exiting process with pid x leaves in the table: its dead        *)
(* children are dropped, the others have no parent any more, and its own   *)
(* entry, in slot d, stays, with the status, if it has a parent itself.    *)
ExitedTable(x, d, s) ==
  /\ d \in Slot /\ pidinfo' \in [Slot -> Entry] /\ pidinfo[d].pi_ppid # x
  /\ \A i \in Slot : ~Used(i) => pidinfo'[i] = NoInfo
  /\ \A i \in Slot : i # d /\ Used(i) /\ pidinfo[i].pi_ppid # x => pidinfo'[i] = pidinfo[i]
  /\ \A i \in Slot : i # d /\ Used(i) /\ pidinfo[i].pi_ppid = x /\ pidinfo[i].pi_exited
       => pidinfo'[i] = NoInfo
  /\ \A i \in Slot : i # d /\ Used(i) /\ pidinfo[i].pi_ppid = x /\ ~pidinfo[i].pi_exited
       => /\ pidinfo'[i].pi_pid = pidinfo[i].pi_pid /\ pidinfo'[i].pi_ppid = INVALID_PID
          /\ pidinfo'[i].pi_exited = FALSE
          /\ pidinfo'[i].pi_exitstatus = pidinfo[i].pi_exitstatus
  /\ pidinfo[d].pi_ppid = INVALID_PID => pidinfo'[d] = NoInfo
  /\ pidinfo[d].pi_ppid # INVALID_PID =>
       /\ pidinfo'[d].pi_pid = x /\ pidinfo'[d].pi_ppid = pidinfo[d].pi_ppid
       /\ pidinfo'[d].pi_exited = TRUE /\ pidinfo'[d].pi_exitstatus = s

(* pid_setexitstatus marks the caller's entry, or frees it when it has no  *)
(* parent, orphans the live children and frees the dead ones.              *)
LEMMA ExitTable ==
  ASSUME PidInv, NEW p \in Proc, NEW s \in Status, pid_setexitstatus(p, s)
  PROVE  /\ ExitedTable(p_pid[p], SlotOf(p_pid[p]), s)
         /\ LastEntry(p, s) = pidinfo'[SlotOf(p_pid[p])]
<1> USE DEF PidInv, PidTableSound
<1> DEFINE x == p_pid[p]
           d == SlotOf(x)
<1>1. HasPid(p)
  BY DEF pid_setexitstatus, HasPid
<1>2. /\ d \in Slot /\ Used(d) /\ pidinfo[d].pi_pid = x /\ ~pidinfo[d].pi_exited
      /\ x \in 1 .. PID_MAX
  BY <1>1, OwnEntry
<1>3. pidinfo[d].pi_ppid # x
  BY <1>2 DEF EntriesPlaced
<1>4. \A i \in Slot :
        /\ pidinfo[i].pi_ppid # x => Disowned(p)[i] = pidinfo[i]
        /\ pidinfo[i].pi_ppid = x /\ pidinfo[i].pi_exited => Disowned(p)[i] = NoInfo
        /\ pidinfo[i].pi_ppid = x /\ ~pidinfo[i].pi_exited =>
             Disowned(p)[i] = Orphan(pidinfo[i])
  BY Zenon DEF Disowned, Orphan
<1>5. pidinfo' = [Disowned(p) EXCEPT ![d] = LastEntry(p, s)] /\ DOMAIN Disowned(p) = Slot
  BY DEF pid_setexitstatus, Disowned
<1>6. /\ pidinfo'[d] = LastEntry(p, s)
      /\ \A i \in Slot : i # d => pidinfo'[i] = Disowned(p)[i]
      /\ pidinfo' = [i \in Slot |-> pidinfo'[i]]
  BY Zenon, <1>2, <1>5
<1>7. /\ pidinfo[d].pi_ppid = INVALID_PID => LastEntry(p, s) = NoInfo
      /\ pidinfo[d].pi_ppid # INVALID_PID =>
           LastEntry(p, s) = Dead(pidinfo[d], s)
  <2>1. Disowned(p)[d] = pidinfo[d]
    BY <1>2, <1>3, <1>4
  <2> QED BY <2>1, Zenon DEF LastEntry, Dead
<1> HIDE DEF d, x
<1>8. \A i \in Slot : ~Used(i) => pidinfo'[i] = NoInfo
  <2> SUFFICES ASSUME NEW i \in Slot, ~Used(i) PROVE pidinfo'[i] = NoInfo
    OBVIOUS
  <2>1. NoInfo.pi_ppid = 0
    BY DEF NoInfo, pidinfo_create, INVALID_PID
  <2>2. pidinfo[i] = NoInfo /\ i # d
    BY <1>2 DEF Used
  <2>3. pidinfo[i].pi_ppid # x
    BY <1>2, <2>1, <2>2
  <2> QED BY <1>4, <1>6, <2>2, <2>3, Zenon
<1>9. \A i \in Slot : pidinfo[i] \in Entry
  BY DEF TypeOK, Entry
<1>10. \A i \in Slot : pidinfo'[i] \in Entry
  <2>1. \A i \in Slot : Disowned(p)[i] \in Entry
    BY <1>4, <1>9, EntriesTyped, ZenonT(60)
  <2>2. LastEntry(p, s) \in Entry
    <3>1. CASE pidinfo[d].pi_ppid = INVALID_PID
      BY <3>1, <1>7, EntriesTyped, Zenon
    <3>2. CASE pidinfo[d].pi_ppid # INVALID_PID
      <4>1. pidinfo[d] \in Entry /\ LastEntry(p, s) = Dead(pidinfo[d], s)
        BY <3>2, <1>2, <1>7, <1>9, Zenon
      <4> QED BY <4>1, EntriesTyped
    <3> QED BY <3>1, <3>2
  <2> QED BY <1>6, <2>1, <2>2, Zenon
<1>11. pidinfo' \in [Slot -> Entry]
  BY <1>6, <1>10, Zenon
<1>12. \A i \in Slot : i # d /\ Used(i) /\ pidinfo[i].pi_ppid # x => pidinfo'[i] = pidinfo[i]
  BY <1>4, <1>6, Zenon
<1>13. \A i \in Slot : i # d /\ Used(i) /\ pidinfo[i].pi_ppid = x /\ pidinfo[i].pi_exited
        => pidinfo'[i] = NoInfo
  BY <1>4, <1>6, Zenon
<1>14. ASSUME NEW i \in Slot, i # d, Used(i), pidinfo[i].pi_ppid = x, ~pidinfo[i].pi_exited
       PROVE  /\ pidinfo'[i].pi_pid = pidinfo[i].pi_pid /\ pidinfo'[i].pi_ppid = INVALID_PID
              /\ pidinfo'[i].pi_exited = FALSE
              /\ pidinfo'[i].pi_exitstatus = pidinfo[i].pi_exitstatus
  <2>1. pidinfo'[i] = Orphan(pidinfo[i])
    BY <1>4, <1>6, <1>14, Zenon
  <2>2. pidinfo[i].pi_exited = FALSE
    BY <1>9, <1>14, Zenon DEF Entry
  <2>3. pidinfo[i] \in Entry
    BY <1>9, Zenon
  <2> QED BY <2>1, <2>2, <2>3, EntriesTyped
<1>15. ASSUME pidinfo[d].pi_ppid # INVALID_PID
       PROVE  /\ pidinfo'[d].pi_pid = x /\ pidinfo'[d].pi_ppid = pidinfo[d].pi_ppid
              /\ pidinfo'[d].pi_exited = TRUE /\ pidinfo'[d].pi_exitstatus = s
  <2>1. pidinfo'[d] = Dead(pidinfo[d], s)
    BY <1>6, <1>7, <1>15, Zenon
  <2>2. pidinfo[d] \in Entry /\ pidinfo[d].pi_pid = x
    BY <1>2, <1>9, Zenon
  <2> QED BY <2>1, <2>2, EntriesTyped
<1>16. ExitedTable(x, d, s)
  BY <1>2, <1>3, <1>6, <1>7, <1>8, <1>11, <1>12, <1>13, <1>14, <1>15, ZenonT(60) DEF ExitedTable
<1> QED BY <1>6, <1>16, Zenon DEF d, x

(* nprocs falls by as many entries as go.                                  *)
LEMMA ExitCounts ==
  ASSUME PidInv, NEW p \in Proc, NEW s \in Status, pid_setexitstatus(p, s)
  PROVE  nprocs' = Cardinality({i \in Slot : Used(i)}')
<1> USE DEF PidInv, PidTableSound
<1>0. PICK d : d = SlotOf(p_pid[p])
  OBVIOUS
<1> DEFINE U == {i \in Slot : Used(i)}
           D == {i \in Slot : Used(i) /\ Disowned(p)[i] = NoInfo}
<1>13. ExitedTable(p_pid[p], d, s) /\ LastEntry(p, s) = pidinfo'[d]
  BY <1>0, ExitTable
<1>1. /\ d \in Slot /\ LastEntry(p, s) = pidinfo'[d]
      /\ \A i \in Slot : ~Used(i) => pidinfo'[i] = NoInfo
      /\ pidinfo[d].pi_ppid # p_pid[p]
  BY <1>13, Zenon DEF ExitedTable
<1>2. /\ \A i \in Slot : i # d => pidinfo'[i] = Disowned(p)[i]
      /\ Disowned(p)[d] = pidinfo[d]
  BY <1>0, <1>1 DEF pid_setexitstatus, Disowned
<1>3. HasPid(p)
  BY DEF pid_setexitstatus, HasPid
<1>4. Used(d)
  BY <1>0, <1>3, OwnEntry
<1>5. d \notin D /\ d \in U /\ D \subseteq U
  BY <1>1, <1>2, <1>4 DEF Used
<1>6. IsFiniteSet(U) /\ IsFiniteSet(D)
  BY Slots, FS_Subset
<1>7. U \cap D = D
  BY <1>5
<1>8. /\ IsFiniteSet(U \ D) /\ Cardinality(U \ D) = Cardinality(U) - Cardinality(D)
      /\ Cardinality(U) \in Nat /\ Cardinality(D) \in Nat
  BY ZenonT(60), <1>6, <1>7, FS_Difference, FS_CardinalityType
<1>9. nprocs' = nprocs - (Cardinality(D) + (IF pidinfo'[d] = NoInfo THEN 1 ELSE 0))
  BY <1>1 DEF pid_setexitstatus, Dropped
<1>10. nprocs = Cardinality(U)
  BY DEF PidsSound
<1>11. CASE pidinfo'[d] = NoInfo
  <2>1. {i \in Slot : Used(i)}' = (U \ D) \ {d}
    BY <1>1, <1>2, <1>11 DEF Used
  <2>2. Cardinality((U \ D) \ {d}) = Cardinality(U \ D) - 1
    BY Zenon, <1>5, <1>8, FS_RemoveElement
  <2>3. nprocs' = Cardinality(U) - (Cardinality(D) + 1)
    BY <1>9, <1>10, <1>11
  <2> HIDE DEF U, D
  <2> QED BY <1>8, <2>1, <2>2, <2>3
<1>12. CASE pidinfo'[d] # NoInfo
  <2>1. {i \in Slot : Used(i)}' = U \ D
    BY <1>1, <1>2, <1>4, <1>5, <1>12 DEF Used
  <2>2. nprocs' = Cardinality(U) - (Cardinality(D) + 0)
    BY <1>9, <1>10, <1>12
  <2> HIDE DEF U, D
  <2>3. Cardinality(U) - (Cardinality(D) + 0) = Cardinality(U \ D)
    BY <1>8
  <2> QED BY ZenonT(60), <2>1, <2>2, <2>3
<1> QED BY <1>11, <1>12

(* A process exits.                                                        *)
LEMMA StepExit ==
  ASSUME PidInv, NEW p \in Proc, NEW s \in Status, pid_setexitstatus(p, s)
  PROVE  PidInv'
<1>a. /\ TypeOK /\ PidsSound /\ NothingForgotten /\ WaitersSound /\ MenuFindsProgram
      /\ EntriesPlaced /\ ForksOwnChild /\ NewChildless /\ KernelStays
  BY DEF PidInv, PidTableSound
<1>0. PICK x, d : x = p_pid[p] /\ d = SlotOf(x)
  OBVIOUS
<1>1. /\ pc[p] = "run" /\ p # kproc /\ kproc \in Proc /\ pc' = [cv_broadcast(p) EXCEPT ![p] = "exit"]
      /\ p_pid' = [p_pid EXCEPT ![p] = INVALID_PID]
      /\ UNCHANGED <<nextpid, newproc, theirpid, panicked>>
  BY PidAssumption DEF pid_setexitstatus
<1>2. HasPid(p)
  BY SMTT(40), <1>1 DEF HasPid
<1>3. /\ x \in 1 .. PID_MAX /\ d \in Slot /\ Used(d) /\ pidinfo[d].pi_pid = x
      /\ ~pidinfo[d].pi_exited /\ \A r \in Proc : HasPid(r) /\ SlotOf(p_pid[r]) = d => r = p
  BY <1>0, <1>2, OwnEntry
<1>4. ExitedTable(x, d, s)
  BY <1>0, ExitTable
<1>5. /\ pc'[p] = "exit" /\ p_pid'[p] = INVALID_PID
      /\ \A r \in Proc : r # p => p_pid'[r] = p_pid[r] /\
           pc'[r] = IF pc[r] = "wait" /\ theirpid[r] = x THEN "woken" ELSE pc[r]
  BY <1>0, <1>1, <1>a DEF TypeOK, cv_broadcast
<1>6. \A r \in Proc : HasPid(r)' <=> HasPid(r) /\ r # p
  BY <1>1, <1>5 DEF HasPid
<1>7. \A i \in Slot : pidinfo[i] \in Entry
  BY <1>a DEF TypeOK, Entry
<1>8. ASSUME NEW i \in Slot, i # d, Used(i), pidinfo[i].pi_ppid = x, ~pidinfo[i].pi_exited
      PROVE  /\ pidinfo'[i].pi_pid = pidinfo[i].pi_pid /\ pidinfo'[i].pi_ppid = INVALID_PID
             /\ ~pidinfo'[i].pi_exited
             /\ pidinfo'[i].pi_exitstatus = pidinfo[i].pi_exitstatus
  BY <1>4, <1>8, Zenon DEF ExitedTable
<1>9. /\ pidinfo[d].pi_ppid = INVALID_PID => pidinfo'[d] = NoInfo
      /\ pidinfo[d].pi_ppid # INVALID_PID =>
           /\ pidinfo'[d].pi_pid = x /\ pidinfo'[d].pi_ppid = pidinfo[d].pi_ppid
           /\ pidinfo'[d].pi_exited /\ pidinfo'[d].pi_exitstatus = s
      /\ pidinfo[d].pi_ppid # x
  BY <1>4, Zenon DEF ExitedTable
<1>6a. /\ pidinfo' \in [Slot -> Entry]
       /\ \A i \in Slot : ~Used(i) => pidinfo'[i] = NoInfo
       /\ \A i \in Slot : i # d /\ Used(i) /\ pidinfo[i].pi_ppid # x => pidinfo'[i] = pidinfo[i]
       /\ \A i \in Slot : i # d /\ Used(i) /\ pidinfo[i].pi_ppid = x /\ pidinfo[i].pi_exited
            => pidinfo'[i] = NoInfo
  BY <1>4, Zenon DEF ExitedTable
<1>10. NoInfo.pi_pid = 0
  BY DEF NoInfo, pidinfo_create, INVALID_PID
<1>11. \A i \in Slot : Used(i) => pidinfo[i].pi_pid \in 1 .. PID_MAX
  BY <1>a DEF EntriesPlaced
<1>12. /\ Used(d)' <=> pidinfo[d].pi_ppid # INVALID_PID
       /\ \A i \in Slot : i # d =>
            (Used(i)' <=> Used(i) /\ (pidinfo[i].pi_ppid = x => ~pidinfo[i].pi_exited))
  <2>1. Used(d)' <=> pidinfo[d].pi_ppid # INVALID_PID
    BY <1>3, <1>6a, <1>9, <1>10 DEF Used
  <2>2. ASSUME NEW i \in Slot, i # d
        PROVE  Used(i)' <=> Used(i) /\ (pidinfo[i].pi_ppid = x => ~pidinfo[i].pi_exited)
    <3>1. CASE ~Used(i)
      BY <3>1, <1>6a DEF Used
    <3>2. CASE Used(i) /\ pidinfo[i].pi_ppid # x
      BY <3>2, <2>2, <1>6a DEF Used
    <3>3. CASE Used(i) /\ pidinfo[i].pi_ppid = x /\ pidinfo[i].pi_exited
      BY <3>3, <2>2, <1>6a DEF Used
    <3>4. CASE Used(i) /\ pidinfo[i].pi_ppid = x /\ ~pidinfo[i].pi_exited
      BY SMTT(40), <3>4, <2>2, <1>8, <1>10, <1>11 DEF Used
    <3> QED BY <3>1, <3>2, <3>3, <3>4
  <2> QED BY <2>1, <2>2
<1>13. PidsSound'
  <2>1. ASSUME NEW r \in Proc, HasPid(r)'
        PROVE  Known(p_pid[r])' /\ ~pi_get(p_pid[r])'.pi_exited
    <3>0. PICK i : i = SlotOf(p_pid[r])
      BY SMTT(40)
    <3>1. /\ HasPid(r) /\ r # p /\ i \in Slot /\ Used(i) /\ ~pidinfo[i].pi_exited /\ i # d
          /\ pidinfo[i].pi_pid = p_pid[r] /\ p_pid'[r] = p_pid[r]
      BY SMTT(40), <2>1, <3>0, <1>3, <1>5, <1>6, OwnEntry
    <3>2. Used(i)' /\ pidinfo'[i].pi_pid = p_pid[r] /\ ~pidinfo'[i].pi_exited
      BY SMTT(40), <3>1, <1>6a, <1>8, <1>12
    <3> QED BY <3>0, <3>1, <3>2 DEF Known, pi_get
  <2>2. ASSUME NEW r \in Proc, NEW t \in Proc, HasPid(r)', HasPid(t)', p_pid'[r] = p_pid'[t]
        PROVE  r = t
    BY <2>2, <1>5, <1>6, <1>a DEF PidsSound
  <2>3. nprocs' = Cardinality({i \in Slot : Used(i)}')
    BY ExitCounts
  <2> QED BY SMTT(40), <2>1, <2>2, <2>3, <1>a DEF PidsSound
<1>14. TypeOK'
  <2>1. nprocs' \in 0 .. PROCS_MAX
    <3> DEFINE V == {i \in Slot : Used(i)}'
    <3>1. IsFiniteSet(V) /\ Cardinality(V) <= Cardinality(Slot)
      BY Slots, FS_Subset
    <3>2. Cardinality(Slot) = PROCS_MAX
      BY PidAssumption, FS_Interval DEF Slot, KERNEL_PID
    <3>3. Cardinality(V) \in Nat /\ nprocs' = Cardinality(V)
      BY <3>1, FS_CardinalityType, ExitCounts
    <3> HIDE DEF V
    <3> QED BY <3>1, <3>2, <3>3, PidAssumption
  <2>2. pc' \in [Proc -> Doing]
    <3>1. cv_broadcast(p) \in [Proc -> Doing]
      BY <1>a DEF cv_broadcast, TypeOK, Doing
    <3> QED BY <3>1, <1>1 DEF Doing
  <2>3. p_pid' \in [Proc -> 0 .. PID_MAX]
    BY <1>1, PidAssumption, <1>a DEF TypeOK, INVALID_PID
  <2> QED BY <1>1, <1>6a, <2>1, <2>2, <2>3, <1>a DEF TypeOK, Entry
<1>15. ASSUME NEW i \in Slot, i # d, Used(i)'
       PROVE  /\ Used(i) /\ pidinfo'[i].pi_pid = pidinfo[i].pi_pid
              /\ pidinfo'[i].pi_exited <=> pidinfo[i].pi_exited
              /\ pidinfo'[i].pi_exitstatus = pidinfo[i].pi_exitstatus
              /\ pidinfo[i].pi_ppid # x => pidinfo'[i] = pidinfo[i]
              /\ pidinfo[i].pi_ppid = x => ~pidinfo[i].pi_exited /\ pidinfo'[i].pi_ppid = INVALID_PID
  BY <1>15, <1>6a, <1>8, <1>12
<1>16. \A i \in Slot : i # d /\ Used(i) => pidinfo[i].pi_pid # x
  BY <1>0, <1>a DEF EntriesPlaced
<1>17. NothingForgotten'
  <2> SUFFICES ASSUME NEW i \in Slot, Used(i)'
               PROVE  \/ \E r \in Proc : HasPid(r)' /\ p_pid'[r] = pidinfo'[i].pi_pid
                      \/ /\ pidinfo'[i].pi_exited
                         /\ \E r \in Proc : HasPid(r)' /\ p_pid'[r] = pidinfo'[i].pi_ppid
    BY SMTT(40), <1>a DEF NothingForgotten
  <2>1. CASE i = d
    <3>1. PICK r \in Proc : HasPid(r) /\ p_pid[r] = pidinfo[d].pi_ppid
      BY <2>1, <1>3, <1>12, <1>a DEF EntriesPlaced
    <3>2. r # p
      BY SMTT(40), <1>0, <3>1, <1>9
    <3> QED BY SMTT(40), <2>1, <3>1, <3>2, <1>5, <1>6, <1>9, <1>12
  <2>2. CASE i # d
    <3>1. CASE \E r \in Proc : HasPid(r) /\ p_pid[r] = pidinfo[i].pi_pid
      <4>1. PICK r \in Proc : HasPid(r) /\ p_pid[r] = pidinfo[i].pi_pid
        BY SMTT(40), <3>1
      <4>2. r # p
        BY SMTT(40), <1>0, <2>2, <4>1, <1>15, <1>16
      <4> QED BY ZenonT(60), <2>2, <4>1, <4>2, <1>5, <1>6, <1>15
    <3>2. CASE pidinfo[i].pi_exited /\ \E r \in Proc : HasPid(r) /\ p_pid[r] = pidinfo[i].pi_ppid
      <4>1. PICK r \in Proc : HasPid(r) /\ p_pid[r] = pidinfo[i].pi_ppid
        BY <3>2
      <4>2. pidinfo[i].pi_ppid # x /\ pidinfo'[i] = pidinfo[i]
        BY <2>2, <3>2, <1>15
      <4>3. r # p
        BY <1>0, <4>1, <4>2
      <4> QED BY ZenonT(60), <3>2, <4>1, <4>2, <4>3, <1>5, <1>6
    <3> QED BY ZenonT(60), <2>2, <3>1, <3>2, <1>15, <1>a DEF NothingForgotten
  <2> QED BY <2>1, <2>2
<1>18. EntriesPlaced'
  <2> SUFFICES ASSUME NEW i \in Slot, Used(i)'
               PROVE  /\ pidinfo'[i].pi_pid \in 1 .. PID_MAX /\ SlotOf(pidinfo'[i].pi_pid) = i
                      /\ pidinfo'[i].pi_ppid # pidinfo'[i].pi_pid
                      /\ pidinfo'[i].pi_exited <=> pidinfo'[i].pi_exitstatus # "alive"
                      /\ pidinfo'[i].pi_ppid # INVALID_PID =>
                           \E r \in Proc : HasPid(r)' /\ p_pid'[r] = pidinfo'[i].pi_ppid
    BY <1>a DEF EntriesPlaced
  <2>1. CASE i = d
    <3>1. PICK r \in Proc : HasPid(r) /\ p_pid[r] = pidinfo[d].pi_ppid
      BY <2>1, <1>3, <1>12, <1>a DEF EntriesPlaced
    <3>2. r # p
      BY <1>0, <3>1, <1>9
    <3>3. HasPid(r)' /\ p_pid'[r] = pidinfo'[d].pi_ppid
      BY <2>1, <3>1, <3>2, <1>5, <1>6, <1>9, <1>12
    <3>4. s # "alive"
      BY PidAssumption
    <3> QED BY SMTT(40), <1>0, <2>1, <3>3, <3>4, <1>3, <1>6a, <1>9, <1>12
  <2>2. CASE i # d
    <3>1. CASE pidinfo[i].pi_ppid = x
      BY SMTT(40), <2>2, <3>1, <1>11, <1>15, <1>a DEF EntriesPlaced, INVALID_PID
    <3>2. CASE pidinfo[i].pi_ppid # x
      <4>1. Used(i) /\ pidinfo'[i] = pidinfo[i]
        BY <2>2, <3>2, <1>15
      <4>2. \A r \in Proc : p_pid[r] = pidinfo[i].pi_ppid => r # p
        BY <1>0, <3>2
      <4> QED BY <4>1, <4>2, <1>5, <1>6, <1>a DEF EntriesPlaced
    <3> QED BY <3>1, <3>2
  <2> QED BY <2>1, <2>2
<1>19. \A r \in Proc : HasPid(r) /\ r # p => p_pid[r] # x /\ p_pid[r] \in 1 .. PID_MAX
  BY SMTT(40), <1>0, <1>2, OwnEntry, <1>a DEF PidsSound
<1>20. ForksOwnChild'
  <2> SUFFICES ASSUME NEW r \in Proc, pc'[r] = "fork"
               PROVE  pc'[newproc'[r]] = "new" /\ pi_get(p_pid[newproc[r]])'.pi_ppid = p_pid'[r]
    BY <1>a DEF ForksOwnChild
  <2>0. PICK w, i : w = newproc[r] /\ i = SlotOf(p_pid[w])
    OBVIOUS
  <2>1. r # p /\ pc[r] = "fork" /\ w \in Proc /\ newproc'[r] = w
    BY <2>0, <1>1, <1>5, <1>a DEF TypeOK
  <2>2. pc[w] = "new" /\ w # p /\ HasPid(w) /\ HasPid(r) /\ pidinfo[i].pi_ppid = p_pid[r]
    BY <2>0, <2>1, <1>1, <1>a DEF ForksOwnChild, HasPid, pi_get
  <2>3. i \in Slot /\ Used(i) /\ i # d /\ pidinfo[i].pi_ppid # x
    BY ZenonT(60), <2>0, <2>1, <2>2, <1>3, <1>19, OwnEntry
  <2>4. pidinfo'[i] = pidinfo[i] /\ pc'[w] = "new" /\ p_pid'[w] = p_pid[w] /\ p_pid'[r] = p_pid[r]
    <3>1. pidinfo'[i] = pidinfo[i]
      BY <2>3, <1>6a
    <3>2. pc'[w] = "new" /\ p_pid'[w] = p_pid[w] /\ p_pid'[r] = p_pid[r]
      BY <2>1, <2>2, <1>5
    <3> QED BY <3>1, <3>2
  <2> QED BY <2>0, <2>1, <2>2, <2>4 DEF pi_get
<1>21. NewChildless'
  <2> SUFFICES ASSUME NEW r \in Proc, NEW i \in Slot, pc'[r] = "new", Used(i)'
               PROVE  pidinfo'[i].pi_ppid # p_pid'[r]
    BY <1>a DEF NewChildless
  <2>1. r # p /\ pc[r] = "new" /\ p_pid'[r] = p_pid[r] /\ HasPid(r)
    BY <1>5 DEF HasPid
  <2>2. p_pid[r] # INVALID_PID
    BY SMTT(40), <2>1, <1>19 DEF INVALID_PID
  <2>3. Used(i) /\ pidinfo'[i].pi_ppid \in {INVALID_PID, pidinfo[i].pi_ppid}
    BY SMTT(40), <1>3, <1>9, <1>12, <1>15
  <2> QED BY <2>1, <2>2, <2>3, <1>a DEF NewChildless
<1>22. KernelStays'
  BY <1>1, <1>5, <1>6, <1>a DEF KernelStays
<1>23. ASSUME NEW r \in Proc, r # p, HasPid(r), NEW y \in 0 .. PID_MAX, OwnChild(r, y)
       PROVE  /\ OwnChild(r, y)'
              /\ y # x => pi_get(y)' = pi_get(y)
              /\ y = x => ~pi_get(y).pi_exited /\ pi_get(y)'.pi_exited
  <2>0. PICK i : i = SlotOf(y)
    OBVIOUS
  <2>1. /\ i \in Slot /\ Used(i) /\ pidinfo[i].pi_pid = y /\ pidinfo[i].pi_ppid = p_pid[r]
        /\ p_pid[r] # x /\ p_pid[r] # INVALID_PID /\ p_pid'[r] = p_pid[r]
    BY <2>0, <1>5, <1>19, <1>23, Slots DEF OwnChild, Known, pi_get, INVALID_PID
  <2>2. CASE y = x
    BY ZenonT(60), <1>0, <2>0, <2>1, <2>2, <1>3, <1>9, <1>12 DEF OwnChild, Known, pi_get
  <2>3. CASE y # x
    <3>1. i # d
      BY <1>0, <2>0, <2>1, <2>3, <1>3
    <3>2. Used(i)' /\ pidinfo'[i] = pidinfo[i]
      BY <2>1, <3>1, <1>6a, <1>12
    <3> QED BY <2>0, <2>1, <2>3, <3>2 DEF OwnChild, Known, pi_get
  <2> QED BY SMTT(40), <2>2, <2>3
<1>24. ASSUME NEW r \in Proc, pc'[r] \in {"prog", "wait", "woken"}
       PROVE  /\ r # p /\ HasPid(r) /\ theirpid'[r] = theirpid[r] /\ theirpid[r] \in 0 .. PID_MAX
              /\ pc'[r] = "prog" <=> pc[r] = "prog"
              /\ pc[r] = "woken" => pc'[r] = "woken"
              /\ pc[r] = "wait" => (pc'[r] = "woken" <=> theirpid[r] = x)
              /\ pc[r] \in {"prog", "wait", "woken"}
  BY <1>24, <1>1, <1>5, <1>a DEF HasPid, TypeOK
<1>25. WaitersSound'
  <2> SUFFICES ASSUME NEW r \in Proc, pc'[r] \in {"wait", "woken"}
               PROVE  /\ OwnChild(r, theirpid[r])'
                      /\ pi_get(theirpid[r])'.pi_exited <=> pc'[r] = "woken"
    BY <1>a DEF WaitersSound
  <2>1. /\ OwnChild(r, theirpid[r])
        /\ pi_get(theirpid[r]).pi_exited <=> pc[r] = "woken"
        /\ pc[r] \in {"wait", "woken"}
    BY <1>24, <1>a DEF WaitersSound
  <2>0. PICK y : y = theirpid[r]
    OBVIOUS
  <2>2. /\ r # p /\ HasPid(r) /\ theirpid'[r] = y /\ y \in 0 .. PID_MAX
        /\ pc[r] = "woken" => pc'[r] = "woken"
        /\ pc[r] = "wait" => (pc'[r] = "woken" <=> y = x)
    BY <2>0, <1>24
  <2>3. /\ OwnChild(r, y)'
        /\ y # x => pi_get(y)' = pi_get(y)
        /\ y = x => ~pi_get(y).pi_exited /\ pi_get(y)'.pi_exited
    BY SMTT(40), <1>23, <2>0, <2>1, <2>2
  <2> QED BY <2>0, <2>1, <2>2, <2>3
<1>26. MenuFindsProgram'
  BY <1>1, <1>23, <1>24, <1>a DEF MenuFindsProgram
<1> QED BY <1>13, <1>14, <1>17, <1>18, <1>20, <1>21, <1>22, <1>25, <1>26 DEF PidInv, PidTableSound
=============================================================================
