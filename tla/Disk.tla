-------------------------------- MODULE Disk ---------------------------------
(***************************************************************************)
(* The disk driver (lhd.c) under the device vnode operations (device.c):   *)
(* several threads read and write runs of sectors through one card with    *)
(* one buffer, one sector register, one status register and one interrupt. *)
(* Positions and lengths are in units of which SECTSIZE make a sector.     *)
(***************************************************************************)
EXTENDS Integers, Sequences, FiniteSets, SequencesExt

CONSTANTS Thread,
          SECTSIZE,   \* LHD_SECTSIZE
          Blocks,     \* d_blocks
          WORD,       \* the values of a uint32_t are 0..WORD - 1
          Requests,   \* [rw, via, pos, len]: through dev_read and dev_write,
                      \*   or straight to DEVOP_IO as a file system does
          MaxOps      \* requests in a behaviour

Sector == 0..Blocks - 1

(* What a transfer is about: whose data, and which sector of its request.  *)
Blank == <<>>
Piece(t, i) == <<t, i>>

VARIABLES
  lh_clear, lh_done,   \* the semaphores' counts
  lh_result,           \* set by the interrupt handler
  buf,                 \* the on-card buffer
  sect, stat,          \* LHD_REG_SECT; LHD_REG_STAT
  disk,                \* what each sector holds
  pc, req, i, err,     \* each thread's place, request, sector count, result
  truth,               \* what the card did for each thread, in order
  told,                \* what each thread was told it did
  ops

vars == <<lh_clear, lh_done, lh_result, buf, sect, stat, disk, pc, req, i, err,
          truth, told, ops>>
card == <<buf, sect, stat, disk>>
sems == <<lh_clear, lh_done>>

NoReq == [rw |-> "none", via |-> "none", pos |-> 0, len |-> 0]

(* config_lhd.                                                             *)
Init ==
  /\ lh_clear = 1 /\ lh_done = 0 /\ lh_result = "ok"
  /\ buf = Blank /\ sect = 0 /\ stat = <<"idle">>
  /\ disk = [s \in Sector |-> Blank]
  /\ pc = [t \in Thread |-> "out"]
  /\ req = [t \in Thread |-> NoReq]
  /\ i = [t \in Thread |-> 0]
  /\ err = [t \in Thread |-> "ok"]
  /\ truth = [t \in Thread |-> <<>>] /\ told = [t \in Thread |-> <<>>]
  /\ ops = 0

goto(t, l) == pc' = [pc EXCEPT ![t] = l]
finish(t, e) == goto(t, "out") /\ err' = [err EXCEPT ![t] = e]

-----------------------------------------------------------------------------
(* dev_tryseek, for a device that has blocks.                              *)
dev_tryseek(pos) == pos % SECTSIZE = 0 /\ pos \div SECTSIZE < Blocks

(* The checks of lhd_io; its locals sector and len are uint32_t, and so is *)
(* their sum, which overflows for no request there is: dev_tryseek and     *)
(* sfs_bused keep sector below Blocks, and len is at most 2^32 / SECTSIZE. *)
sector(r) == (r.pos \div SECTSIZE) % WORD
len(r) == (r.len \div SECTSIZE) % WORD
lhd_io_valid(r) ==
  /\ r.pos % SECTSIZE = 0 /\ r.len % SECTSIZE = 0
  /\ (sector(r) + len(r)) % WORD <= Blocks

(* dev_read and dev_write, or DEVOP_IO, up to the loop of lhd_io.          *)
dev_io(t, r) ==
  /\ pc[t] = "out" /\ ops < MaxOps
  /\ ops' = ops + 1
  /\ req' = [req EXCEPT ![t] = r]
  /\ i' = [i EXCEPT ![t] = 0]
  /\ truth' = [truth EXCEPT ![t] = <<>>] /\ told' = [told EXCEPT ![t] = <<>>]
  /\ IF (r.via = "vnode" => dev_tryseek(r.pos)) /\ lhd_io_valid(r)
     THEN goto(t, "loop") /\ err' = [err EXCEPT ![t] = "ok"]
     ELSE finish(t, "EINVAL")
  /\ UNCHANGED <<lh_result>> /\ UNCHANGED sems /\ UNCHANGED card

Count(t) == len(req[t])
At(t) == (sector(req[t]) + i[t]) % WORD

(* P(lh_clear), unless all sectors are done.                               *)
P_clear(t) ==
  /\ pc[t] = "loop"
  /\ \/ i[t] = Count(t) /\ finish(t, "ok") /\ UNCHANGED lh_clear
     \/ /\ i[t] < Count(t) /\ lh_clear > 0
        /\ lh_clear' = lh_clear - 1
        /\ goto(t, IF req[t].rw = "write" THEN "movein" ELSE "start")
        /\ UNCHANGED err
  /\ UNCHANGED <<lh_done, lh_result, req, i, truth, told, ops>> /\ UNCHANGED card

KeepsTheDevice(t) == lh_clear' = lh_clear

V_clear(t) == lh_clear' = lh_clear + 1

(* uiomove into the buffer; a bad user address gives up the device.        *)
uiomove_in(t) ==
  /\ pc[t] = "movein"
  /\ \/ /\ buf' = Piece(t, i[t])
        /\ goto(t, "start")
        /\ UNCHANGED <<lh_clear, err>>
     \/ /\ req[t].via = "vnode"
        /\ V_clear(t)
        /\ finish(t, "EFAULT")
        /\ UNCHANGED buf
  /\ UNCHANGED <<lh_done, lh_result, sect, stat, disk, req, i, truth, told, ops>>

(* The two register writes that start the operation.                       *)
lhd_start(t) ==
  /\ pc[t] = "start"
  /\ sect' = At(t)
  /\ stat' = <<"working", req[t].rw, t>>
  /\ goto(t, "wait")
  /\ UNCHANGED <<lh_result, buf, disk, req, i, err, truth, told, ops>>
  /\ UNCHANGED sems

(* The card does the operation, or fails: always for a sector it does not  *)
(* have (LHD_INVSECT), sometimes for another (LHD_MEDIA).                  *)
Working == stat # <<"idle">> /\ stat[1] = "working"
CardDone ==
  /\ Working
  /\ LET rw == stat[2]  t == stat[3] IN
     \/ /\ sect \in Sector
        /\ stat' = <<"ok", rw, t>>
        /\ IF rw = "write" THEN disk' = [disk EXCEPT ![sect] = buf] /\ UNCHANGED buf
           ELSE buf' = disk[sect] /\ UNCHANGED disk
        /\ truth' = [truth EXCEPT ![t] = Append(@, <<rw, sect, IF rw = "write" THEN buf ELSE disk[sect]>>)]
     \/ /\ stat' = <<IF sect \in Sector THEN "EIO" ELSE "EINVAL", rw, t>>
        /\ truth' = [truth EXCEPT ![t] = Append(@, <<"failed", sect, Blank>>)]
        /\ UNCHANGED <<disk, buf>>
  /\ UNCHANGED <<lh_result, sect, pc, req, i, err, told, ops>> /\ UNCHANGED sems

(* lhd_irq and lhd_iodone.  While the card is idle or working it does      *)
(* nothing.                                                                *)
lhd_irq ==
  /\ stat # <<"idle">> /\ ~Working
  /\ stat' = <<"idle">>
  /\ lh_result' = stat[1]
  /\ lh_done' = lh_done + 1
  /\ UNCHANGED <<lh_clear, buf, sect, disk, pc, req, i, err, truth, told, ops>>

(* P(lh_done) and the read of lh_result.                                   *)
P_done(t) ==
  /\ pc[t] = "wait" /\ lh_done > 0
  /\ lh_done' = lh_done - 1
  /\ err' = [err EXCEPT ![t] = lh_result]
  /\ goto(t, IF lh_result = "ok" /\ req[t].rw = "read" THEN "moveout" ELSE "release")
  /\ told' = [told EXCEPT ![t] =
       IF lh_result # "ok" THEN Append(@, <<"failed", At(t), Blank>>)
       ELSE IF req[t].rw = "write" THEN Append(@, <<"write", At(t), Piece(t, i[t])>>)
       ELSE @]
  /\ UNCHANGED <<lh_clear, lh_result, req, i, truth, ops>> /\ UNCHANGED card

(* uiomove out of the buffer.                                              *)
uiomove_out(t) ==
  /\ pc[t] = "moveout"
  /\ \/ told' = [told EXCEPT ![t] = Append(@, <<"read", At(t), buf>>)] /\ UNCHANGED err
     \/ req[t].via = "vnode" /\ err' = [err EXCEPT ![t] = "EFAULT"] /\ UNCHANGED told
  /\ goto(t, "release")
  /\ UNCHANGED <<lh_result, req, i, truth, ops>> /\ UNCHANGED sems /\ UNCHANGED card

(* Frees the card while the data is still in its buffer.                   *)
ReleasesEarly(t) ==
  /\ pc[t] \in {"moveout", "release"}
  /\ IF pc[t] = "moveout" /\ lh_clear = 0 THEN V_clear(t) /\ UNCHANGED <<pc, i, told>>
     ELSE /\ goto(t, "loop")
          /\ i' = [i EXCEPT ![t] = i[t] + 1]
          /\ told' = IF pc[t] = "moveout" THEN [told EXCEPT ![t] = Append(@, <<"read", At(t), buf>>)] ELSE told
          /\ UNCHANGED lh_clear
  /\ UNCHANGED <<lh_done, lh_result, req, err, truth, ops>> /\ UNCHANGED card

(* V(lh_clear), and the next sector unless there was an error.             *)
release(t) ==
  /\ pc[t] = "release"
  /\ V_clear(t)
  /\ IF err[t] = "ok" THEN goto(t, "loop") /\ i' = [i EXCEPT ![t] = i[t] + 1]
     ELSE goto(t, "out") /\ UNCHANGED i
  /\ UNCHANGED <<lh_done, lh_result, req, err, truth, told, ops>> /\ UNCHANGED card

Step(t) ==
  P_clear(t) \/ uiomove_in(t) \/ lhd_start(t) \/ P_done(t) \/ uiomove_out(t) \/ release(t)

Done == ops = MaxOps /\ (\A t \in Thread : pc[t] = "out") /\ UNCHANGED vars

Next ==
  \/ \E t \in Thread : (\E r \in Requests : dev_io(t, r)) \/ Step(t)
  \/ CardDone \/ lhd_irq
  \/ Done

(* The card finishes what it is given and its interrupt is taken; threads  *)
(* run, and the semaphore lh_clear lets each waiter have its turn: its     *)
(* wait channel is first in, first out, and there are finitely many        *)
(* requests.                                                               *)
Fairness ==
  /\ WF_vars(CardDone) /\ WF_vars(lhd_irq)
  /\ \A t \in Thread : WF_vars(Step(t))

Spec == Init /\ [][Next]_vars /\ Fairness

-----------------------------------------------------------------------------
TypeOK ==
  /\ lh_clear \in 0..1 /\ lh_done \in 0..1
  /\ sect \in 0..WORD - 1
  /\ \A t \in Thread : i[t] \in 0..Blocks

(* However the threads interleave, each is told of its own transfers, in   *)
(* order: the sectors it asked for, the data the card read for it or took  *)
(* from it, and the errors of its own transfers; a request that returns ok *)
(* did all of its sectors.  Requests of several sectors are not atomic.    *)
ToldTheTruth ==
  \A t \in Thread :
    /\ IsPrefix(told[t], truth[t])
    /\ Len(truth[t]) <= Len(told[t]) + 1
    /\ pc[t] = "out" /\ err[t] # "EFAULT" => told[t] = truth[t]
    /\ \A k \in DOMAIN truth[t] :
         /\ truth[t][k][2] = req[t].pos \div SECTSIZE + k - 1
         /\ truth[t][k][1] = "write" => truth[t][k][3] = Piece(t, k - 1)
    /\ pc[t] = "out" /\ err[t] = "ok" => Len(truth[t]) = Count(t)

(* Every request returns: the card is never left taken by a thread that    *)
(* has gone, and no thread waits for an interrupt that was another's.      *)
RequestsEnd == \A t \in Thread : (pc[t] # "out") ~> (pc[t] = "out")
=============================================================================
