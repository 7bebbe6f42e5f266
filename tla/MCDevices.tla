----------------------------- MODULE MCDevices ------------------------------
(***************************************************************************)
(* The machine's devices and processors, for TLC: the console on its       *)
(* serial port, spinlocks and interprocessor interrupts, the bus and its   *)
(* autoconfiguration, the disk, and the emulator's file system.  A         *)
(* behaviour is one of one of them; the variables of the others stay at    *)
(* Off.                                                                    *)
(***************************************************************************)
EXTENDS Integers, Sequences

VARIABLES which,
  up, delayed, wsem, rsem, lock, wbusy, dev, handler, ring, head, tail, con_pc, text,
  con_left, typed, out, kept, taken,   \* Console
  word, holder, irq, count, curspl, spinlocks, cpu_pc, intr, pending, line, evil, todo,
  printed, cpu_biglock, dirty, power, cpu_ops,   \* Cpus
  lb_card, stage, step, found, devunit, kids, nextunit, parent, inuse, irqfunc, unit,
  lb_live, failed, irqs, scan, seen, duds, dudsnow, panicked,   \* Lamebus
  lh_clear, lh_done, lh_result, buf, sect, stat, disk, d_pc, req, d_i, d_err, truth,
  told, d_ops,   \* Disk
  emu_biglock, depth, e_lock, e_sem, e_result, regs, iobuf, hostfile, opened, vnode,
  holds, emu_pc, call, emu_err, emu_left, retries, answer, got, lost, nomem, emu_ops,
  faults   \* Emu

ConText == [x \in {"w1", "w2", "k1", "p1"} |->
              CASE x \in {"w1", "w2"} -> <<"a", "nl">> [] x = "k1" -> <<"a">> [] x = "p1" -> <<"b", "b">>]
ConCasts == {{"w1", "w2", "p1"}, {"k1", "r1", "r2"}, {"k1", "p1"}}
ConLines == {<<>>, <<"a", "b", "cr", "a">>, <<"b", "a", "b", "a">>}
Con == INSTANCE Console WITH
  pc <- con_pc, left <- con_left, Writer <- {"w1", "w2"},
  Printer <- {"k1"}, Poller <- {"p1"}, Reader <- {"r1", "r2"}, Text <- ConText,
  Early <- <<"a", "b">>, BufferSize <- 3, DelaySize <- 2, Casts <- ConCasts,
  Lines <- ConLines, ReadSize <- 2

Cpu == INSTANCE Cpus WITH
  pc <- cpu_pc, biglock <- cpu_biglock, ops <- cpu_ops,
  CPU <- {"c0", "c1"}, BootCPU <- "c0", Panics <- 1, MaxOps <- 3

BusCards == {[s \in 0..3 |-> <<"lser", "ltimer", "lser", "empty">>[s + 1]],
             [s \in 0..3 |-> <<"lhd", "emu", "other", "old lhd">>[s + 1]],
             [s \in 0..3 |-> <<"lrandom", "lrandom", "ltrace", "lhd">>[s + 1]]}
Bus == INSTANCE Lamebus WITH
  card <- lb_card, live <- lb_live, NSLOTS <- 4,
  Cards <- BusCards, MaxDuds <- 2

Request(rw, via, p, l) == [rw |-> rw, via |-> via, pos |-> p, len |-> l]
LhdRequests ==
  {Request("read", "vnode", 0, 4), Request("write", "vnode", 2, 4), Request("write", "fs", 0, 2),
   Request("read", "fs", 4, 4), Request("read", "vnode", 1, 2), Request("write", "vnode", 6, 2),
   Request("read", "fs", 4, 2)}
Lhd == INSTANCE Disk WITH
  pc <- d_pc, i <- d_i, err <- d_err, ops <- d_ops,
  Thread <- {"t1", "t2"}, SECTSIZE <- 2, Blocks <- 3, WORD <- 16, Requests <- LhdRequests,
  MaxOps <- 3

Host == INSTANCE Emu WITH
  biglock <- emu_biglock, pc <- emu_pc, err <- emu_err,
  left <- emu_left, ops <- emu_ops, Thread <- {"t1", "t2"}, File <- {"f1", "f2"},
  Handle <- {"h1"}, MaxRetries <- 1, MaxOps <- 3, MaxFaults <- 2, NoMemory <- TRUE

ASSUME Con!ConsoleConstants

conVars == <<up, delayed, wsem, rsem, lock, wbusy, dev, handler, ring, head, tail,
             con_pc, text, con_left, typed, out, kept, taken>>
cpuVars == <<word, holder, irq, count, curspl, spinlocks, cpu_pc, intr, pending, line,
             evil, todo, printed, cpu_biglock, dirty, power, cpu_ops>>
busVars == <<lb_card, stage, step, found, devunit, kids, nextunit, parent, inuse,
             irqfunc, unit, lb_live, failed, irqs, scan, seen, duds, dudsnow, panicked>>
lhdVars == <<lh_clear, lh_done, lh_result, buf, sect, stat, disk, d_pc, req, d_i, d_err,
             truth, told, d_ops>>
hostVars == <<emu_biglock, depth, e_lock, e_sem, e_result, regs, iobuf, hostfile, opened,
              vnode, holds, emu_pc, call, emu_err, emu_left, retries, answer, got, lost,
              nomem, emu_ops, faults>>
vars == <<which, conVars, cpuVars, busVars, lhdVars, hostVars>>

Off == "off"

Init ==
  /\ which \in {"console", "cpus", "lamebus", "disk", "emu"}
  /\ IF which = "console" THEN Con!Init
     ELSE /\ up = Off /\ delayed = Off /\ wsem = Off /\ rsem = Off /\ lock = Off
          /\ wbusy = Off /\ dev = Off /\ handler = Off /\ ring = Off /\ head = Off
          /\ tail = Off /\ con_pc = Off /\ text = Off /\ con_left = Off /\ typed = Off
          /\ out = Off /\ kept = Off /\ taken = Off
  /\ IF which = "cpus" THEN Cpu!Init
     ELSE /\ word = Off /\ holder = Off /\ irq = Off /\ count = Off /\ curspl = Off
          /\ spinlocks = Off /\ cpu_pc = Off /\ intr = Off /\ pending = Off /\ line = Off
          /\ evil = Off /\ todo = Off /\ printed = Off /\ cpu_biglock = Off /\ dirty = Off
          /\ power = Off /\ cpu_ops = Off
  /\ IF which = "lamebus" THEN Bus!Init
     ELSE /\ lb_card = Off /\ stage = Off /\ step = Off /\ found = Off /\ devunit = Off
          /\ kids = Off /\ nextunit = Off /\ parent = Off /\ inuse = Off /\ irqfunc = Off
          /\ unit = Off /\ lb_live = Off /\ failed = Off /\ irqs = Off /\ scan = Off
          /\ seen = Off /\ duds = Off /\ dudsnow = Off /\ panicked = Off
  /\ IF which = "disk" THEN Lhd!Init
     ELSE /\ lh_clear = Off /\ lh_done = Off /\ lh_result = Off /\ buf = Off
          /\ sect = Off /\ stat = Off /\ disk = Off /\ d_pc = Off /\ req = Off /\ d_i = Off
          /\ d_err = Off /\ truth = Off /\ told = Off /\ d_ops = Off
  /\ IF which = "emu" THEN Host!Init
     ELSE /\ emu_biglock = Off /\ depth = Off /\ e_lock = Off /\ e_sem = Off
          /\ e_result = Off /\ regs = Off /\ iobuf = Off /\ hostfile = Off /\ opened = Off
          /\ vnode = Off /\ holds = Off /\ emu_pc = Off /\ call = Off /\ emu_err = Off
          /\ emu_left = Off /\ retries = Off /\ answer = Off /\ got = Off /\ lost = Off
          /\ nomem = Off /\ emu_ops = Off /\ faults = Off

Next ==
  /\ UNCHANGED which
  /\ IF which = "console" THEN Con!Next ELSE UNCHANGED conVars
  /\ IF which = "cpus" THEN Cpu!Next ELSE UNCHANGED cpuVars
  /\ IF which = "lamebus" THEN Bus!Next ELSE UNCHANGED busVars
  /\ IF which = "disk" THEN Lhd!Next ELSE UNCHANGED lhdVars
  /\ IF which = "emu" THEN Host!Next ELSE UNCHANGED hostVars

(* The fairness of the parts.                                              *)
Fairness ==
  /\ WF_conVars(which = "console" /\ Con!PortSent)
  /\ WF_conVars(which = "console" /\ Con!Interrupt)
  /\ WF_conVars(which = "console" /\ (Con!putch_delayed \/ Con!config_con))
  /\ \A x \in Con!Sender : WF_conVars(which = "console" /\ Con!Sends(x))
  /\ WF_conVars(which = "console" /\ Con!Polls("p1"))
  /\ \A c \in {"c0", "c1"} : WF_cpuVars(which = "cpus" /\ Cpu!Proceed(c))
  /\ WF_busVars(which = "lamebus" /\ irqs # {} /\ Bus!lamebus_interrupt)
  /\ WF_busVars(which = "lamebus" /\ Bus!dispatch)
  /\ WF_busVars(which = "lamebus" /\ Bus!reload)
  /\ WF_busVars(which = "lamebus" /\ Bus!interrupt_ends)
  /\ WF_lhdVars(which = "disk" /\ Lhd!CardDone) /\ WF_lhdVars(which = "disk" /\ Lhd!lhd_irq)
  /\ \A t \in {"t1", "t2"} : WF_lhdVars(which = "disk" /\ Lhd!Step(t))
  /\ WF_hostVars(which = "emu" /\ Host!CardAnswers) /\ WF_hostVars(which = "emu" /\ Host!emu_irq)
  /\ \A t \in {"t1", "t2"} : SF_hostVars(which = "emu" /\ Host!Step(t))

Spec == Init /\ [][Next]_vars /\ Fairness

-----------------------------------------------------------------------------
(* Console output is what was written and input what was typed: nothing    *)
(* lost, doubled or out of order, however polled output gets in between.   *)
ConsoleExact == which = "console" => Con!TypeOK /\ Con!OutputExact /\ Con!InputExact

(* Spinlocks exclude, and no interrupt gets in between (spinlock_acquire,  *)
(* splraise): no CPU is stopped by a panic while it holds one.             *)
SpinlocksSound == which = "cpus" => Cpu!TypeOK /\ Cpu!SpinlocksSound

(* Every card with a driver gets it, once, with its own interrupt.         *)
DevicesAttached == which = "lamebus" => Bus!TypeOK /\ Bus!DevicesAttached

(* Each thread is told of its own disk transfers, in order.                *)
ToldTheTruth == which = "disk" => Lhd!TypeOK /\ Lhd!ToldTheTruth

(* The emulator's handles are open exactly while a vnode counts them.      *)
HandlesSound == which = "emu" => Host!TypeOK /\ Host!HandlesSound

(* Console writes end, whatever interrupts polled output takes away; disk  *)
(* requests and calls of the emulator end, unless memory for a vnode ran   *)
(* out; a panic ends: the machine goes off or the panicking thread stops   *)
(* for good, never on a spinlock.                                          *)
RequestsEnd ==
  []<>CASE which = "console" -> \A x \in Con!Sender \cup {"p1"} : con_pc[x] \in {"end", "absent"}
        [] which = "cpus" -> power = "off" \/ \A c \in {"c0", "c1"} : Cpu!Panicking(c) => Cpu!Stopped(c)
        [] which = "lamebus" -> TRUE
        [] which = "disk" -> \A t \in {"t1", "t2"} : d_pc[t] = "out"
        [] which = "emu" -> nomem \/ \A t \in {"t1", "t2"} : emu_pc[t] = "out"

(* No device starves: a line that is asserted is seen to, however often    *)
(* the slots before it assert theirs (lamebus_interrupt).                  *)
InterruptsServed ==
  \A s \in 0..3 :
    []<>(which = "lamebus" => s \notin irqs \/ irqfunc[s] = "none" \/ panicked)
=============================================================================
