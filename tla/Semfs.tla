------------------------------- MODULE Semfs --------------------------------
(***************************************************************************)
(* The semaphore file system (kern/fs/semfs): user-level semaphores that   *)
(* are files.  Reading a file is P and writing it is V.  A semaphore is    *)
(* kept while a name or a vnode refers to it.  Three kinds of lock protect *)
(* it: semfs_dirlock the directory, semfs_tablelock the tables of vnodes   *)
(* and semaphores, and sems_lock the count of one semaphore.  sems_linked  *)
(* and sems_hasvnode are not consistently under any one of them.           *)
(*                                                                         *)
(* A step is what a thread does between two points where another thread    *)
(* can get in its way.  A thread has at most one file of the system open.  *)
(***************************************************************************)
EXTENDS Integers, Sequences, FiniteSets, FiniteSetsExt

CONSTANTS
  Thread, Name,
  NSem,       \* bound on the semaphores there are at a time
  MaxUnit,    \* bound on what one read, write or truncate asks for
  UINT_MAX,
  Null

(* What the constants must satisfy.                                        *)
SemfsConstants ==
  /\ NSem \in Nat /\ MaxUnit \in Nat /\ UINT_MAX \in Nat
  /\ Null \notin Thread /\ Null \notin Name

Semnum == 0 .. NSem - 1
SEMFS_ROOTDIR == NSem                 \* the number past all semaphores'
Vnum == Semnum \cup {SEMFS_ROOTDIR}

VARIABLES
  dents,      \* the directory: entries, or Null where one was removed
  sems,       \* per number: the semaphore, or Null
  refs,       \* per number: the references to its vnode, 0 if it has none
  cv,         \* per number: the threads asleep on sems_cv, longest first
  lock,       \* per number: who holds sems_lock from one step to the next
  dirlock, tablelock,
  file,       \* per thread: the number of the vnode it has open, or Null
  pc,         \* per thread: what it does next
  resid,      \* per thread: what is left of its read
  slot,       \* per thread: the directory slot it is removing
  panicked    \* an assertion failed or a null pointer was followed

table == <<dents, sems, refs>>
sync == <<cv, lock, dirlock, tablelock>>
thr == <<file, pc, resid, slot>>
vars == <<table, sync, thr, panicked>>

Sem == [count : 0 .. UINT_MAX, hasvnode : BOOLEAN, linked : BOOLEAN]
Dent == [name : Name, semnum : Semnum]
PC == {"idle", "read", "asleep", "reclaim", "drop", "lock", "unlink", "clear", "release"}

TypeOK ==
  /\ dents \in Seq(Dent \cup {Null}) /\ Len(dents) <= NSem
  /\ sems \in [Semnum -> Sem \cup {Null}]
  /\ refs \in [Vnum -> Nat]
  /\ cv \in [Semnum -> Seq(Thread)]
  /\ lock \in [Semnum -> Thread \cup {Null}]
  /\ dirlock \in Thread \cup {Null} /\ tablelock \in Thread \cup {Null}
  /\ file \in [Thread -> Vnum \cup {Null}]
  /\ pc \in [Thread -> PC]
  /\ resid \in [Thread -> 0 .. MaxUnit]
  /\ slot \in [Thread -> 0 .. NSem]
  /\ panicked \in BOOLEAN

Init ==
  /\ dents = <<>> /\ sems = [s \in Semnum |-> Null] /\ refs = [v \in Vnum |-> 0]
  /\ cv = [s \in Semnum |-> <<>>] /\ lock = [s \in Semnum |-> Null]
  /\ dirlock = Null /\ tablelock = Null
  /\ file = [t \in Thread |-> Null] /\ pc = [t \in Thread |-> "idle"]
  /\ resid = [t \in Thread |-> 0] /\ slot = [t \in Thread |-> 0]
  /\ panicked = FALSE

At(t, where) == ~panicked /\ pc[t] = where
Closed(t) == At(t, "idle") /\ file[t] = Null
Open(t) == At(t, "idle") /\ file[t] \in Semnum

panic == panicked' = TRUE /\ UNCHANGED <<table, sync, thr>>

-----------------------------------------------------------------------------
(* Vnodes.  semfs_getvnode finds the vnode of a number or makes it, under  *)
(* the table lock, and t has it open from then on.                         *)
semfs_getvnode(t, v) ==
  /\ tablelock = Null
  /\ refs' = [refs EXCEPT ![v] = @ + 1]
  /\ file' = [file EXCEPT ![t] = v]

HasVnode(table0, v) ==
  IF v = SEMFS_ROOTDIR THEN table0 ELSE [table0 EXCEPT ![v].hasvnode = TRUE]

(* The root directory is opened by the name of the file system.            *)
semfs_getroot(t) ==
  /\ Closed(t) /\ semfs_getvnode(t, SEMFS_ROOTDIR)
  /\ UNCHANGED <<dents, sems, sync, pc, resid, slot, panicked>>

Slots(n) == {i \in DOMAIN dents : dents[i] # Null /\ dents[i].name = n}

semfs_lookup(t, n) ==
  /\ Closed(t) /\ dirlock = Null
  /\ \E i \in Slots(n) :
       /\ semfs_getvnode(t, dents[i].semnum)
       /\ sems' = HasVnode(sems, dents[i].semnum)
  /\ UNCHANGED <<dents, sync, pc, resid, slot, panicked>>

(* VOP_DECREF: the last reference is not dropped here but passed on.       *)
IsLast(v) == refs[v] = 1

vnode_decref(t) ==
  /\ At(t, "idle") /\ file[t] # Null
  /\ IF IsLast(file[t])
     THEN pc' = [pc EXCEPT ![t] = "reclaim"] /\ UNCHANGED <<refs, file>>
     ELSE /\ refs' = [refs EXCEPT ![file[t]] = @ - 1]
          /\ file' = [file EXCEPT ![t] = Null]
          /\ UNCHANGED pc
  /\ UNCHANGED <<dents, sems, sync, resid, slot, panicked>>

(* Reclaim: someone may have found the vnode in the meantime.  Mutant:     *)
(* nobody looks.                                                           *)
NeverAgain(v) == FALSE
FoundAgain(v) == refs[v] > 1

semfs_reclaim(t) ==
  LET v == file[t] IN
  /\ At(t, "reclaim") /\ tablelock = Null
  /\ \/ /\ FoundAgain(v)
        /\ refs' = [refs EXCEPT ![v] = @ - 1]
        /\ file' = [file EXCEPT ![t] = Null] /\ pc' = [pc EXCEPT ![t] = "idle"]
        /\ UNCHANGED <<sems, tablelock>>
     \/ /\ ~FoundAgain(v) /\ v = SEMFS_ROOTDIR
        /\ refs' = [refs EXCEPT ![v] = 0]
        /\ file' = [file EXCEPT ![t] = Null] /\ pc' = [pc EXCEPT ![t] = "idle"]
        /\ UNCHANGED <<sems, tablelock>>
     \/ /\ ~FoundAgain(v) /\ v # SEMFS_ROOTDIR
        /\ refs' = [refs EXCEPT ![v] = 0]
        /\ sems' = [sems EXCEPT ![v].hasvnode = FALSE]
        /\ tablelock' = t /\ pc' = [pc EXCEPT ![t] = "drop"]
        /\ UNCHANGED file
  /\ UNCHANGED <<dents, cv, lock, dirlock, resid, slot, panicked>>

(* The rest of semfs_reclaim: a semaphore without a name goes with its     *)
(* vnode.  semfs_sem_destroy asserts that nobody holds its lock or sleeps  *)
(* on its condition variable.                                              *)
Unused(s) == lock[s] = Null /\ cv[s] = <<>>

(* Mutant: it is kept.                                                     *)
DropNever(s) == FALSE
DropUnlinked(s) == ~sems[s].linked

semfs_reclaim_sem(t) ==
  LET s == file[t] IN
  /\ At(t, "drop")
  /\ \/ /\ DropUnlinked(s) => Unused(s)
        /\ sems' = IF DropUnlinked(s) THEN [sems EXCEPT ![s] = Null] ELSE sems
        /\ tablelock' = Null
        /\ file' = [file EXCEPT ![t] = Null] /\ pc' = [pc EXCEPT ![t] = "idle"]
        /\ UNCHANGED <<dents, refs, cv, lock, dirlock, resid, slot, panicked>>
     \/ DropUnlinked(s) /\ ~Unused(s) /\ panic

-----------------------------------------------------------------------------
(* The directory.  semfs_sem_insert takes the first free number and        *)
(* semfs_creat the first free slot.                                        *)
FreeNums == {s \in Semnum : sems[s] = Null}
FreeSlots == {i \in DOMAIN dents : dents[i] = Null}

Linked(d) ==
  IF FreeSlots # {} THEN [dents EXCEPT ![Min(FreeSlots)] = d] ELSE Append(dents, d)

(* The table lock is taken and released three times, but nobody can refer  *)
(* to the semaphore while the directory is locked.                         *)
semfs_creat_new(t, n) ==
  /\ Closed(t) /\ dirlock = Null /\ Slots(n) = {} /\ FreeNums # {}
  /\ LET s == Min(FreeNums) IN
     /\ semfs_getvnode(t, s)
     /\ sems' = [sems EXCEPT ![s] = [count |-> 0, hasvnode |-> TRUE, linked |-> TRUE]]
     /\ dents' = Linked([name |-> n, semnum |-> s])
  /\ UNCHANGED <<sync, pc, resid, slot, panicked>>

(* Of a name that exists semfs_creat makes what semfs_lookup does, or with *)
(* O_EXCL nothing.                                                         *)
(* If there is no memory for the directory entry everything is undone but  *)
(* result is still 0, and vfs_open asserts that it was given a vnode.      *)
semfs_creat_nomem(t, n) ==
  /\ Closed(t) /\ dirlock = Null /\ tablelock = Null /\ Slots(n) = {} /\ FreeNums # {}
  /\ panic

(* semfs_remove keeps the directory locked throughout.                     *)
semfs_remove(t, n) ==
  /\ At(t, "idle") /\ dirlock = Null /\ tablelock = Null
  /\ \E i \in Slots(n) : slot' = [slot EXCEPT ![t] = i]
  /\ dirlock' = t /\ pc' = [pc EXCEPT ![t] = "lock"]
  /\ UNCHANGED <<table, cv, lock, tablelock, file, resid, panicked>>

Removing(t) == dents[slot[t]].semnum

semfs_remove_lock(t) ==
  LET s == Removing(t) IN
  /\ At(t, "lock") /\ lock[s] = Null
  /\ lock' = [lock EXCEPT ![s] = t]
  /\ sems' = [sems EXCEPT ![s].linked = FALSE]
  /\ pc' = [pc EXCEPT ![t] = "unlink"]
  /\ UNCHANGED <<dents, refs, cv, dirlock, tablelock, file, resid, slot, panicked>>

(* sems_hasvnode is read without the table lock.                           *)
semfs_remove_test(t) ==
  /\ At(t, "unlink")
  /\ pc' = [pc EXCEPT ![t] = IF sems[Removing(t)].hasvnode THEN "release" ELSE "clear"]
  /\ UNCHANGED <<table, sync, file, resid, slot, panicked>>

Unlocked(t) ==
  /\ lock' = [lock EXCEPT ![Removing(t)] = Null] /\ dirlock' = Null
  /\ dents' = [dents EXCEPT ![slot[t]] = Null]
  /\ pc' = [pc EXCEPT ![t] = "idle"] /\ slot' = [slot EXCEPT ![t] = 0]

semfs_remove_clear(t) ==
  /\ At(t, "clear") /\ tablelock = Null
  /\ sems' = [sems EXCEPT ![Removing(t)] = Null]
  /\ Unlocked(t)
  /\ UNCHANGED <<refs, cv, tablelock, file, resid, panicked>>

semfs_remove_release(t) ==
  /\ At(t, "release") /\ Unlocked(t)
  /\ UNCHANGED <<sems, refs, cv, tablelock, file, resid, panicked>>

(* Reading the directory does not expect the holes that removal leaves.    *)
semfs_getdirentry(t, pos) ==
  /\ At(t, "idle") /\ file[t] = SEMFS_ROOTDIR /\ dirlock = Null
  /\ dents[pos] = Null /\ panic

-----------------------------------------------------------------------------
(* Semaphore operations on the file t has open.  semfs_getsem waits for    *)
(* the table lock; the semaphore itself stays while its vnode does.        *)
semfs_getsem(t) == Open(t) /\ tablelock = Null

semfs_read(t, amount) ==
  /\ semfs_getsem(t)
  /\ resid' = [resid EXCEPT ![t] = amount] /\ pc' = [pc EXCEPT ![t] = "read"]
  /\ UNCHANGED <<table, sync, file, slot, panicked>>

(* Mutant: without regard to the count.                                    *)
ConsumeAll(t) == resid[t]
Consume(t) == Min({resid[t], sems[file[t]].count})

(* With the lock, first or again after cv_wait: take what there is, and    *)
(* sleep if it is not enough.                                              *)
semfs_read_step(t) ==
  LET s == file[t]
      left == resid[t] - Consume(t)
  IN  /\ At(t, "read") /\ lock[s] = Null
      /\ sems' = [sems EXCEPT ![s].count = @ - Consume(t)]
      /\ resid' = [resid EXCEPT ![t] = left]
      /\ IF left = 0
         THEN pc' = [pc EXCEPT ![t] = "idle"] /\ UNCHANGED cv
         ELSE pc' = [pc EXCEPT ![t] = "asleep"] /\ cv' = [cv EXCEPT ![s] = Append(@, t)]
      /\ UNCHANGED <<dents, refs, lock, dirlock, tablelock, file, slot, panicked>>

(* How many sleepers a change of the count wakes: none, one or all.        *)
semfs_wakeup(s, newcount) ==
  IF sems[s].count > 0 \/ newcount = 0 THEN 0
  ELSE IF newcount = 1 THEN Min({1, Len(cv[s])})
  ELSE Len(cv[s])

(* The count of s becomes newcount.                                        *)
SetCount(s, newcount) ==
  LET n == semfs_wakeup(s, newcount)
      woken == {cv[s][i] : i \in 1 .. n}
  IN  /\ lock[s] = Null
      /\ sems' = [sems EXCEPT ![s].count = newcount]
      /\ cv' = [cv EXCEPT ![s] = SubSeq(@, n + 1, Len(@))]
      /\ pc' = [t \in Thread |-> IF t \in woken THEN "read" ELSE pc[t]]
      /\ UNCHANGED <<dents, refs, lock, dirlock, tablelock, file, resid, slot, panicked>>

(* The sum is an unsigned int; if it wraps the write fails with EFBIG.     *)
semfs_write(t, amount) ==
  LET newcount == (sems[file[t]].count + amount) % (UINT_MAX + 1) IN
  /\ semfs_getsem(t)
  /\ newcount >= sems[file[t]].count
  /\ SetCount(file[t], newcount)

semfs_truncate(t, len) == semfs_getsem(t) /\ SetCount(file[t], len)

-----------------------------------------------------------------------------
Steps(t) ==
  \/ semfs_getroot(t) \/ vnode_decref(t) \/ semfs_reclaim(t) \/ semfs_reclaim_sem(t)
  \/ semfs_remove_lock(t) \/ semfs_remove_test(t)
  \/ semfs_remove_clear(t) \/ semfs_remove_release(t)
  \/ semfs_read_step(t)
  \/ \E n \in Name :
       \/ semfs_lookup(t, n) \/ semfs_creat_new(t, n) \/ semfs_creat_nomem(t, n)
       \/ semfs_remove(t, n)
  \/ \E pos \in DOMAIN dents : semfs_getdirentry(t, pos)
  \/ \E amount \in 1 .. MaxUnit : semfs_read(t, amount) \/ semfs_write(t, amount)
  \/ \E len \in 0 .. MaxUnit : semfs_truncate(t, len)

Next == \E t \in Thread : Steps(t)

Spec == Init /\ [][Next]_vars

-----------------------------------------------------------------------------
Holders(v) == {t \in Thread : file[t] = v /\ pc[t] # "drop"}
Names(s) == {i \in DOMAIN dents : dents[i] # Null /\ dents[i].semnum = s}
Dropping(s) == \E t \in Thread : pc[t] = "drop" /\ file[t] = s
Unlinking(s) == \E t \in Thread : pc[t] \in {"unlink", "clear", "release"} /\ Removing(t) = s

(* The count of a vnode is the number of threads that have it, those that  *)
(* are on their way to reclaim it included: finding a vnode again while    *)
(* its last user closes it neither frees it under the finder nor leaves    *)
(* one that nobody can reclaim.                                            *)
VnodeRefsExact ==
  \A v \in Vnum : refs[v] = Cardinality(Holders(v))

(* A semaphore is in the table exactly as long as a name or a vnode refers *)
(* to it, whatever create, remove, open and close do at once; only the     *)
(* thread in the middle of taking away the last of them may see it without *)
(* either.                                                                 *)
KeptWhileUsed ==
  \A s \in Semnum :
    IF sems[s] = Null THEN Names(s) = {} /\ refs[s] = 0 /\ cv[s] = <<>>
    ELSE /\ sems[s].hasvnode <=> refs[s] > 0
         /\ sems[s].linked <=> Names(s) # {} /\ ~Unlinking(s)
         /\ sems[s].hasvnode \/ sems[s].linked \/ Dropping(s) \/ Unlinking(s)
         /\ Cardinality(Names(s)) <= 1

(* What the comment on semfs_wakeup says it may rely on: "we only need to  *)
(* wake up if there are sleepers, which should only be the case if the old *)
(* count is 0".  No reader sleeps beside a count nobody is coming for.  It *)
(* does not hold: two writes may come before the woken reader has the lock. *)
NoStrandedReader ==
  \A s \in Semnum : sems[s] # Null /\ sems[s].count > 0 /\ cv[s] # <<>> =>
    \E t \in Thread : pc[t] = "read" /\ file[t] = s
=============================================================================
