--------------------------------- MODULE Emu ---------------------------------
(***************************************************************************)
(* The emulator file system (emu.c): a card that opens, closes, reads and  *)
(* writes files of the host through handles, one operation at a time, and  *)
(* the table of vnodes over it.  e_lock guards the card and the table;     *)
(* vfs_biglock, which is recursive, is taken around looking a file up and  *)
(* around reclaiming its vnode.                                            *)
(*                                                                         *)
(* The card is external.  As the driver keeps one vnode for a handle, and  *)
(* closes the handle when it drops the vnode, opening a file that is open  *)
(* gives the handle it has, and one close ends it.                         *)
(***************************************************************************)
EXTENDS Integers, FiniteSets, Sequences

CONSTANTS Thread, File, Handle,
          MaxRetries,   \* the retries of emu_close: 10
          MaxOps,       \* calls in a behaviour
          MaxFaults,    \* failures of the card in a behaviour
          NoMemory      \* whether emufs_loadvnode may find no memory

Nobody == "nobody"
NoHandle == "no handle"
NoVnode == [ref |-> 0, live |-> FALSE]
Idle == [state |-> "idle"]

VARIABLES
  biglock, depth,   \* vfs_biglock's holder; vfs_biglock_depth
  e_lock,           \* e_lock's holder
  e_sem, e_result,  \* the semaphore's count; the saved result code
  regs,             \* the registers: what the card was asked, and its answer
  iobuf,            \* the card's buffer
  hostfile,         \* what each file of the host holds: None if there is none
  opened,           \* the handle under which each file is open
  vnode,            \* ef_vnodes, by handle
  holds,            \* the references each thread has, by handle
  pc, call, err,    \* each thread's place, its call, its result
  left,             \* pieces of a read or write still to do
  retries,
  answer, got,      \* what the card last did for each thread; what it was told
  lost,             \* a reference was lost when closing a handle failed
  nomem,            \* emufs_loadvnode has found no memory
  ops, faults

vars == <<biglock, depth, e_lock, e_sem, e_result, regs, iobuf, hostfile, opened,
          vnode, holds, pc, call, err, left, retries, answer, got, lost, nomem, ops, faults>>

Missing == <<>>
NoCall == [op |-> "none", file |-> "none", h |-> NoHandle, n |-> 0]

(* config_emu; the root directory, always open, is not among the handles.  *)
Init ==
  /\ biglock = Nobody /\ depth = 0 /\ e_lock = Nobody /\ e_sem = 0 /\ e_result = "ok"
  /\ regs = Idle /\ iobuf = Missing
  /\ hostfile \in {[f \in File |-> IF f \in S THEN <<f>> ELSE Missing] : S \in SUBSET File}
  /\ opened = [f \in File |-> NoHandle]
  /\ vnode = [h \in Handle |-> NoVnode]
  /\ holds = [t \in Thread |-> [h \in Handle |-> 0]]
  /\ pc = [t \in Thread |-> "out"] /\ call = [t \in Thread |-> NoCall]
  /\ err = [t \in Thread |-> "ok"] /\ left = [t \in Thread |-> 0]
  /\ retries = [t \in Thread |-> 0]
  /\ answer = [t \in Thread |-> Missing] /\ got = [t \in Thread |-> Missing]
  /\ lost = [h \in Handle |-> 0] /\ nomem = FALSE /\ ops = 0 /\ faults = 0

locks == <<biglock, depth, e_lock>>
card == <<e_sem, e_result, regs, iobuf, hostfile, opened, answer, faults>>
table == <<vnode, holds, lost, nomem>>

goto(t, l) == pc' = [pc EXCEPT ![t] = l]
fails(t, e) == err' = [err EXCEPT ![t] = e]

-----------------------------------------------------------------------------
(* The locks.                                                              *)

vfs_biglock_acquire(t) ==
  /\ biglock \in {Nobody, t}
  /\ biglock' = t
  /\ depth' = depth + 1

KeepsBiglock(t) == UNCHANGED <<depth, biglock>>

vfs_biglock_release(t) ==
  /\ depth' = depth - 1
  /\ biglock' = IF depth = 1 THEN Nobody ELSE biglock

lock_acquire(t) == e_lock = Nobody /\ e_lock' = t
lock_release(t) == e_lock' = Nobody

-----------------------------------------------------------------------------
(* The calls begin.                                                        *)

(* emufs_lookup and emufs_creat, which differ in the operation they ask    *)
(* for.                                                                    *)
start_open(t, op, f) ==
  /\ pc[t] = "out" /\ ops < MaxOps
  /\ ops' = ops + 1
  /\ call' = [call EXCEPT ![t] = [NoCall EXCEPT !.op = op, !.file = f]]
  /\ goto(t, "biglock")
  /\ UNCHANGED <<err, left, retries, got>>
  /\ UNCHANGED locks /\ UNCHANGED card /\ UNCHANGED table

(* emufs_read, emufs_write, emufs_stat, emufs_truncate on a vnode that the *)
(* thread has.                                                             *)
start_io(t, op, h, n) ==
  /\ pc[t] = "out" /\ ops < MaxOps /\ holds[t][h] > 0
  /\ ops' = ops + 1
  /\ call' = [call EXCEPT ![t] = [NoCall EXCEPT !.op = op, !.h = h, !.n = n]]
  /\ left' = [left EXCEPT ![t] = n]
  /\ goto(t, "elock")
  /\ UNCHANGED <<err, retries, got>> /\ UNCHANGED locks /\ UNCHANGED card /\ UNCHANGED table

(* emu_doread and emu_write beyond the largest size a file can have, where *)
(* reading finds its end.                                                  *)
BeyondEnd(t, op, h) ==
  /\ pc[t] = "out" /\ ops < MaxOps /\ holds[t][h] > 0
  /\ ops' = ops + 1
  /\ call' = [call EXCEPT ![t] = NoCall]
  /\ fails(t, IF op = "write" THEN "EFBIG" ELSE "ok")
  /\ UNCHANGED <<pc, left, retries, got>> /\ UNCHANGED locks /\ UNCHANGED card /\ UNCHANGED table

(* vnode_decref: with other references it counts down; the last one is     *)
(* passed on to emufs_reclaim.                                             *)
vnode_decref(t, h) ==
  /\ pc[t] = "out" /\ holds[t][h] > 0 /\ ops < MaxOps
  /\ ops' = ops + 1
  /\ IF vnode[h].ref > 1
     THEN /\ vnode' = [vnode EXCEPT ![h].ref = @ - 1]
          /\ holds' = [holds EXCEPT ![t][h] = @ - 1]
          /\ UNCHANGED <<pc, call, retries>>
     ELSE /\ goto(t, "biglock")
          /\ call' = [call EXCEPT ![t] = [NoCall EXCEPT !.op = "reclaim", !.h = h]]
          /\ retries' = [retries EXCEPT ![t] = 0]
          /\ UNCHANGED <<vnode, holds>>
  /\ UNCHANGED <<err, left, got, lost, nomem>> /\ UNCHANGED locks /\ UNCHANGED card

-----------------------------------------------------------------------------
(* One operation of the card.                                              *)

take_biglock(t) ==
  /\ pc[t] = "biglock"
  /\ vfs_biglock_acquire(t)
  /\ goto(t, "elock")
  /\ UNCHANGED <<e_lock, call, err, left, retries, got, ops>>
  /\ UNCHANGED card /\ UNCHANGED table

take_elock(t) ==
  /\ pc[t] = "elock"
  /\ lock_acquire(t)
  /\ goto(t, IF call[t].op = "reclaim" THEN "check" ELSE "start")
  /\ UNCHANGED <<biglock, depth, call, err, left, retries, got, ops>>
  /\ UNCHANGED card /\ UNCHANGED table

NeverCounts(t) == FALSE

(* emufs_reclaim looks at the count again under all the locks: somebody    *)
(* may have found the vnode in the table meanwhile.                        *)
CountsAgain(t) == vnode[call[t].h].ref > 1

reclaim_check(t) ==
  /\ pc[t] = "check"
  /\ IF CountsAgain(t)
     THEN /\ vnode' = [vnode EXCEPT ![call[t].h].ref = @ - 1]
          /\ holds' = [holds EXCEPT ![t][call[t].h] = @ - 1]
          /\ lock_release(t) /\ vfs_biglock_release(t)
          /\ fails(t, "EBUSY") /\ goto(t, "out")
     ELSE goto(t, "start") /\ UNCHANGED <<vnode, holds, err>> /\ UNCHANGED locks
  /\ UNCHANGED <<call, left, retries, got, ops, lost, nomem>> /\ UNCHANGED card

(* The registers and, for a write, the buffer; a bad user address ends it. *)
emu_start(t) ==
  /\ pc[t] = "start"
  /\ \/ /\ regs' = [state |-> "working", op |-> call[t].op, file |-> call[t].file,
                    h |-> call[t].h, by |-> t,
                    result |-> "none", value |-> Missing]
        /\ iobuf' = IF call[t].op = "write" THEN <<t, left[t]>> ELSE iobuf
        /\ goto(t, "wait")
        /\ UNCHANGED <<err, e_lock>>
     \/ /\ call[t].op = "write"
        /\ fails(t, "EFAULT") /\ lock_release(t) /\ goto(t, "out")
        /\ UNCHANGED <<regs, iobuf>>
  /\ UNCHANGED <<biglock, depth, e_sem, e_result, hostfile, opened, answer, faults,
                 call, left, retries, got, ops>>
  /\ UNCHANGED table

FileOf(h) == {f \in File : opened[f] = h}

Finished(res, value) ==
  /\ regs' = [regs EXCEPT !.state = "done", !.result = res, !.value = value]
  /\ answer' = [answer EXCEPT ![regs.by] = <<res, value>>]

(* The card: an answer, or a media error.                                  *)
CardAnswers ==
  /\ regs.state = "working"
  /\ \/ /\ regs.op \in {"open", "create"}
        /\ LET f == regs.file IN
           IF hostfile[f] = Missing /\ regs.op = "open"
           THEN Finished("ENOENT", Missing) /\ UNCHANGED <<hostfile, opened>>
           ELSE IF opened[f] = NoHandle /\ \A x \in Handle : FileOf(x) # {}
           THEN Finished("ENFILE", Missing) /\ UNCHANGED <<hostfile, opened>>
           ELSE \E h \in IF opened[f] # NoHandle THEN {opened[f]}
                         ELSE {x \in Handle : FileOf(x) = {}} :
                  /\ opened' = [opened EXCEPT ![f] = h]
                  /\ hostfile' = IF hostfile[f] = Missing THEN [hostfile EXCEPT ![f] = <<f>>] ELSE hostfile
                  /\ Finished("ok", <<h>>)
        /\ UNCHANGED <<iobuf, faults>>
     \/ /\ regs.op \in {"reclaim", "close"}
        /\ IF FileOf(regs.h) = {} THEN Finished("BADHANDLE", Missing) /\ UNCHANGED opened
           ELSE /\ opened' = [f \in File |-> IF opened[f] = regs.h THEN NoHandle ELSE opened[f]]
                /\ Finished("ok", Missing)
        /\ UNCHANGED <<hostfile, iobuf, faults>>
     \/ /\ regs.op \in {"read", "write", "getsize"}
        /\ IF FileOf(regs.h) = {} THEN Finished("BADHANDLE", Missing) /\ UNCHANGED <<hostfile, iobuf>>
           ELSE LET f == CHOOSE f \in FileOf(regs.h) : TRUE IN
                CASE regs.op = "read" ->
                       iobuf' = hostfile[f] /\ Finished("ok", hostfile[f]) /\ UNCHANGED hostfile
                  [] regs.op = "write" ->
                       /\ hostfile' = [hostfile EXCEPT ![f] = iobuf]
                       /\ Finished("ok", iobuf) /\ UNCHANGED iobuf
                  [] OTHER -> Finished("ok", hostfile[f]) /\ UNCHANGED <<hostfile, iobuf>>
        /\ UNCHANGED <<opened, faults>>
     \/ /\ faults < MaxFaults
        /\ faults' = faults + 1
        /\ Finished("EIO", Missing)
        /\ UNCHANGED <<hostfile, opened, iobuf>>
  /\ UNCHANGED <<e_sem, e_result, pc, call, err, left, retries, got, ops>>
  /\ UNCHANGED locks /\ UNCHANGED table

emu_irq ==
  /\ regs.state = "done"
  /\ e_result' = regs.result
  /\ regs' = [regs EXCEPT !.state = "answered"]
  /\ e_sem' = e_sem + 1
  /\ UNCHANGED <<iobuf, hostfile, opened, answer, faults, pc, call, err, left, retries, got, ops>>
  /\ UNCHANGED locks /\ UNCHANGED table

-----------------------------------------------------------------------------
(* The answer.                                                             *)

Wakes(t) == pc[t] = "wait" /\ e_sem > 0 /\ e_sem' = e_sem - 1

(* emu_open returns: the handle, under e_lock, from the register.          *)
open_done(t) ==
  /\ call[t].op \in {"open", "create"} /\ Wakes(t)
  /\ lock_release(t)
  /\ IF e_result = "ok"
     THEN /\ call' = [call EXCEPT ![t].h = regs.value[1]]
          /\ goto(t, "load") /\ vfs_biglock_acquire(t)
          /\ UNCHANGED err
     ELSE /\ fails(t, e_result) /\ goto(t, "out") /\ vfs_biglock_release(t)
          /\ UNCHANGED call
  /\ UNCHANGED <<e_result, regs, iobuf, hostfile, opened, answer, faults, left, retries, got, ops>>
  /\ UNCHANGED table

(* emufs_loadvnode, from taking e_lock to releasing it.  It leaves         *)
(* vfs_biglock taken once too often when there is no memory for the vnode; *)
(* when there is none for the table it gives everything back.  After a     *)
(* failure the handle is closed, without vfs_biglock.                      *)
emufs_loadvnode(t) ==
  LET h == call[t].h IN
  /\ pc[t] = "load" /\ e_lock = Nobody
  /\ \/ /\ vnode[h].live
        /\ vnode' = [vnode EXCEPT ![h].ref = @ + 1]
        /\ holds' = [holds EXCEPT ![t][h] = @ + 1]
        /\ depth' = depth - 2 /\ biglock' = IF depth = 2 THEN Nobody ELSE biglock
        /\ goto(t, "out") /\ fails(t, "ok")
        /\ UNCHANGED <<call, nomem>>
     \/ /\ ~vnode[h].live
        /\ vnode' = [vnode EXCEPT ![h] = [ref |-> 1, live |-> TRUE]]
        /\ holds' = [holds EXCEPT ![t][h] = 1]
        /\ depth' = depth - 2 /\ biglock' = IF depth = 2 THEN Nobody ELSE biglock
        /\ goto(t, "out") /\ fails(t, "ok")
        /\ UNCHANGED <<call, nomem>>
     \/ /\ ~vnode[h].live /\ NoMemory /\ ~nomem
        /\ nomem' = TRUE
        /\ \/ vfs_biglock_release(t)   \* no memory for the vnode
           \/ depth' = depth - 2 /\ biglock' = IF depth = 2 THEN Nobody ELSE biglock
        /\ goto(t, "elock") /\ fails(t, "ENOMEM")
        /\ call' = [call EXCEPT ![t].op = "close"]
        /\ UNCHANGED <<vnode, holds>>
  /\ UNCHANGED <<e_lock, left, got, ops, lost, retries>> /\ UNCHANGED card

(* emu_close returns, or tries again.  A failure leaves the vnode in the   *)
(* table with the reference that nobody has any more.                      *)
MayRetry(t) == e_result = "EIO" /\ retries[t] < MaxRetries

close_done(t) ==
  /\ call[t].op \in {"reclaim", "close"} /\ Wakes(t)
  /\ LET h == call[t].h IN
     \/ /\ MayRetry(t)
        /\ retries' = [retries EXCEPT ![t] = @ + 1]
        /\ goto(t, "start")
        /\ UNCHANGED <<err>> /\ UNCHANGED locks /\ UNCHANGED <<vnode, holds, lost>>
     \/ /\ ~MayRetry(t)
        /\ lock_release(t)
        /\ goto(t, "out")
        /\ IF call[t].op = "close" THEN UNCHANGED <<vnode, holds, lost, err, biglock, depth>>
           ELSE /\ vfs_biglock_release(t)
                /\ fails(t, e_result)
                /\ holds' = [holds EXCEPT ![t][h] = @ - 1]
                /\ IF e_result = "ok" THEN vnode' = [vnode EXCEPT ![h] = NoVnode] /\ UNCHANGED lost
                   ELSE lost' = [lost EXCEPT ![h] = @ + 1] /\ UNCHANGED vnode
        /\ UNCHANGED retries
  /\ UNCHANGED <<e_result, regs, iobuf, hostfile, opened, answer, faults, call, left, got, ops, nomem>>

(* emu_doread, emu_write and emu_getsize return; emu_doread first moves    *)
(* what was read to the user, whose address may be bad.  emufs_read and    *)
(* emufs_write go on until everything is done, emufs_read at most to the   *)
(* end of the file.                                                        *)
Moved(t) ==
  IF call[t].op = "read" /\ e_result = "ok" THEN {"ok", "EFAULT"} ELSE {e_result}

io_done(t) ==
  /\ call[t].op \in {"read", "write", "getsize"} /\ Wakes(t)
  /\ lock_release(t)
  /\ left' = [left EXCEPT ![t] = @ - 1]
  /\ \E result \in Moved(t) :
       /\ fails(t, result)
       /\ got' = [got EXCEPT ![t] = <<result,
            CASE result # "ok" -> Missing
              [] call[t].op = "read" -> iobuf
              [] call[t].op = "write" -> <<t, left[t]>>
              [] OTHER -> regs.value>>]
       /\ \/ result = "ok" /\ left[t] > 1 /\ goto(t, "elock")
          \/ (result # "ok" \/ left[t] <= 1 \/ call[t].op = "read") /\ goto(t, "out")
  /\ UNCHANGED <<biglock, depth, e_result, regs, iobuf, hostfile, opened, answer, faults, call, retries, ops>>
  /\ UNCHANGED table

Step(t) ==
  \/ take_biglock(t) \/ take_elock(t) \/ reclaim_check(t) \/ emu_start(t)
  \/ open_done(t) \/ emufs_loadvnode(t) \/ close_done(t) \/ io_done(t)

Begin(t) ==
  \/ \E f \in File : start_open(t, "open", f) \/ start_open(t, "create", f)
  \/ \E h \in Handle :
       \/ \E n \in 1..2 : start_io(t, "read", h, n) \/ start_io(t, "write", h, n)
       \/ start_io(t, "getsize", h, 1)
       \/ BeyondEnd(t, "read", h) \/ BeyondEnd(t, "write", h)
       \/ vnode_decref(t, h)

Next == (\E t \in Thread : Begin(t) \/ Step(t)) \/ CardAnswers \/ emu_irq

(* The card answers and its interrupt is taken; a lock that is free again  *)
(* and again is got, as the wait channels are first in, first out.         *)
Fairness ==
  /\ WF_vars(CardAnswers) /\ WF_vars(emu_irq)
  /\ \A t \in Thread : SF_vars(Step(t))

Spec == Init /\ [][Next]_vars /\ Fairness

-----------------------------------------------------------------------------
TypeOK ==
  /\ biglock \in Thread \cup {Nobody} /\ e_lock \in Thread \cup {Nobody}
  /\ depth \in 0..3 /\ e_sem \in 0..1
  /\ \A h \in Handle : vnode[h].ref \in 0..MaxOps

Total(h) ==
  LET S[U \in SUBSET Thread] ==
        IF U = {} THEN 0 ELSE LET u == CHOOSE u \in U : TRUE IN holds[u][h] + S[U \ {u}]
  IN S[Thread]

(* A vnode counts the references there are, plus those lost to a failed    *)
(* close; a vnode that anyone has is in the table and its handle is open,  *)
(* so that the card never answers BADHANDLE, which panics; and what a      *)
(* thread is told is what the card did for it.  A vnode table that finds   *)
(* no memory in emufs_loadvnode may break the second: the handle it closes *)
(* afterwards may be another thread's by then.                             *)
HandlesSound ==
  /\ \A h \in Handle :
       /\ vnode[h].ref = Total(h) + lost[h]
       /\ vnode[h].live <=> vnode[h].ref > 0
       /\ vnode[h].live /\ e_lock = Nobody /\ ~nomem => FileOf(h) # {}
  /\ e_result # "BADHANDLE" \/ nomem
  /\ \A t \in Thread :
       pc[t] = "out" /\ call[t].op \in {"read", "write", "getsize"} /\ err[t] # "EFAULT" =>
         got[t] = answer[t]

(* Every call returns, vfs_biglock and e_lock with it, unless memory for a *)
(* vnode ran out, after which a thread may keep vfs_biglock for good.      *)
CallsEnd == \A t \in Thread : (pc[t] # "out") ~> (pc[t] = "out" \/ nomem)
=============================================================================
