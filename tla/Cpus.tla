-------------------------------- MODULE Cpus --------------------------------
(***************************************************************************)
(* The processors underneath the kernel: spinlocks and the interrupt       *)
(* priority level (thread/spinlock.c, thread/spl.c), the interrupt entry   *)
(* (mips_trap, mainbus_interrupt), interprocessor interrupts               *)
(* (thread/thread.c, lamebus.c) and what a processor does in panic() and   *)
(* at shutdown (lib/kprintf.c, main/main.c).                               *)
(*                                                                         *)
(* Each CPU runs one thread.  Ordinary kernel code is anything that takes  *)
(* and drops spinlocks and raises and lowers the priority level, in any    *)
(* nesting, with the spinlocks taken in one global order; it may panic at  *)
(* any point.  The three locks stand for a lock of ordinary code, the      *)
(* polled kprintf's lock and the lock of the serial port.                  *)
(***************************************************************************)
EXTENDS Integers, FiniteSets

CONSTANTS CPU,      \* the processors
          BootCPU,  \* the one that gets the bus interrupts
          Panics,   \* how many CPUs may panic on their own
          MaxOps    \* operations that ordinary code starts, on all CPUs

Nobody == "nobody"
RunQ == 1
KprintfLock == 2
SerialLock == 3
Lock == {RunQ, KprintfLock, SerialLock}

VARIABLES
  word,       \* splk_lock: 0 or 1
  holder,     \* splk_holder
  irq,        \* IEc of each CPU's status register: interrupts are on
  count,      \* t_iplhigh_count of the thread on each CPU
  curspl,     \* t_curspl: 0 is IPL_NONE, 1 is IPL_HIGH
  spinlocks,  \* c_spinlocks
  pc,         \* where the thread of each CPU is
  intr,       \* "no", or the stage of the interrupt that has been taken
  pending,    \* c_ipi_pending
  line,       \* CTLCPU_CIPI: the interprocessor interrupt line
  evil,       \* panic()'s static counter
  todo,       \* CPUs that ipi_broadcast has still to reach
  printed,    \* the panic message has gone out
  biglock,    \* who holds vfs_biglock: a CPU's thread, "other" or nobody
  dirty,      \* the file systems have something to write at vfs_sync
  power,      \* the machine is on
  ops         \* operations started

vars == <<word, holder, irq, count, curspl, spinlocks, pc, intr,
          pending, line, evil, todo, printed,
          biglock, dirty, power, ops>>

spinVars == <<word, holder, spinlocks>>
splVars == <<irq, count, curspl>>
ipiVars == <<intr, pending, line>>
panicVars == <<evil, printed, biglock, dirty, power>>

(* All of this thread's code is in panic() once it is there: it has no     *)
(* return.  <<"test", k>> reads evil, <<"set", k>> writes it, <<"do", k>>   *)
(* is the body that follows.                                               *)
Test(k) == <<"test", k>>
Set(k) == <<"set", k>>
Do(k) == <<"do", k>>
Panicking(c) == pc[c] \notin {<<"run">>, <<"offline">>, <<"off">>}
                /\ (pc[c][1] = "spin" => pc[c][3] # <<"run">>)

(* A CPU that never executes another instruction.                          *)
Stopped(c) == pc[c][1] \in {"halted", "asleep", "loop"}

Goto(c, where) == pc' = [pc EXCEPT ![c] = where]

(* What a CPU can do at all: the machine is on and it is not in the middle *)
(* of an interrupt.                                                        *)
Awake(c) == power = "on" /\ intr[c] = "no"
At(c, where) == Awake(c) /\ pc[c] = where

Init ==
  /\ word = [l \in Lock |-> 0]
  /\ holder = [l \in Lock |-> Nobody]
  /\ irq = [c \in CPU |-> TRUE]
  /\ count = [c \in CPU |-> 0]
  /\ curspl = [c \in CPU |-> 0]
  /\ spinlocks = [c \in CPU |-> 0]
  /\ pc = [c \in CPU |-> <<"run">>]
  /\ intr = [c \in CPU |-> "no"]
  /\ pending = [c \in CPU |-> {}]
  /\ line = [c \in CPU |-> FALSE]
  /\ evil = 0
  /\ todo = [c \in CPU |-> {}]
  /\ printed = FALSE
  /\ biglock \in CPU \cup {"other", Nobody}
  /\ dirty \in BOOLEAN
  /\ power = "on"
  /\ ops = 0

-----------------------------------------------------------------------------
(* Priority level.                                                         *)

(* splraise: interrupts go off at the first raise, and every raise counts. *)
splraise(c) ==
  /\ irq' = [irq EXCEPT ![c] = FALSE]
  /\ count' = [count EXCEPT ![c] = @ + 1]

LowersAtOnce(c) ==
  /\ irq' = [irq EXCEPT ![c] = TRUE]
  /\ count' = [count EXCEPT ![c] = @ - 1]

(* spllower: they come on again only at the last lower.                    *)
spllower(c) ==
  /\ irq' = [irq EXCEPT ![c] = @ \/ count[c] = 1]
  /\ count' = [count EXCEPT ![c] = @ - 1]

(* splx: the thread's own level is one raise at most, whatever it holds.   *)
splx(c, spl) ==
  /\ curspl' = [curspl EXCEPT ![c] = spl]
  /\ CASE curspl[c] < spl -> splraise(c)
       [] curspl[c] > spl -> spllower(c)
       [] OTHER -> UNCHANGED <<irq, count>>

-----------------------------------------------------------------------------
(* Spinlocks.                                                              *)

SpinsOnItself(c, l, back) ==
  /\ splraise(c)
  /\ Goto(c, <<"spin", l, back>>)
  /\ spinlocks' = [spinlocks EXCEPT ![c] = @ + 1]
  /\ UNCHANGED <<word, holder, curspl>>

(* spinlock_acquire up to the loop: interrupts off, then the check that    *)
(* this CPU does not hold the lock already, which panics.                  *)
spinlock_acquire(c, l, back) ==
  /\ splraise(c)
  /\ IF holder[l] = c
     THEN /\ Goto(c, Test(0))
          /\ UNCHANGED spinlocks
     ELSE /\ Goto(c, <<"spin", l, back>>)
          /\ spinlocks' = [spinlocks EXCEPT ![c] = @ + 1]
  /\ UNCHANGED <<word, holder, curspl>>

(* The test-and-set that finds the lock free, and the store to splk_holder, *)
(* which only this CPU can tell from its own name.                         *)
testandset(c) ==
  /\ Awake(c) /\ pc[c][1] = "spin"
  /\ LET l == pc[c][2] IN
       /\ word[l] = 0
       /\ word' = [word EXCEPT ![l] = 1]
       /\ holder' = [holder EXCEPT ![l] = c]
       /\ Goto(c, pc[c][3])
  /\ UNCHANGED <<spinlocks, todo, ops>>
  /\ UNCHANGED splVars /\ UNCHANGED ipiVars /\ UNCHANGED panicVars

(* spinlock_release: the holder, the word, and last the priority level.    *)
spinlock_release(c, l) ==
  /\ holder[l] = c
  /\ holder' = [holder EXCEPT ![l] = Nobody]
  /\ word' = [word EXCEPT ![l] = 0]
  /\ spinlocks' = [spinlocks EXCEPT ![c] = @ - 1]
  /\ spllower(c)
  /\ UNCHANGED <<curspl>>

-----------------------------------------------------------------------------
(* Ordinary code.                                                          *)

Held(c) == {l \in Lock : holder[l] = c}
Starts(c) == At(c, <<"run">>) /\ ops < MaxOps /\ ops' = ops + 1

lock_something(c) ==
  /\ Starts(c)
  /\ \E l \in Lock :
       /\ \A h \in Held(c) : h < l
       /\ spinlock_acquire(c, l, <<"run">>)
  /\ UNCHANGED todo /\ UNCHANGED ipiVars /\ UNCHANGED panicVars

unlock_something(c) ==
  /\ At(c, <<"run">>)
  /\ \E l \in Held(c) : spinlock_release(c, l)
  /\ UNCHANGED <<pc, todo, ops>> /\ UNCHANGED ipiVars /\ UNCHANGED panicVars

splhigh(c) ==
  /\ Starts(c)
  /\ curspl[c] = 0
  /\ splx(c, 1)
  /\ UNCHANGED <<pc, todo>>
  /\ UNCHANGED spinVars /\ UNCHANGED ipiVars /\ UNCHANGED panicVars

spl_restore(c) ==
  /\ At(c, <<"run">>)
  /\ curspl[c] = 1
  /\ splx(c, 0)
  /\ UNCHANGED <<pc, todo, ops>>
  /\ UNCHANGED spinVars /\ UNCHANGED ipiVars /\ UNCHANGED panicVars

(* ipi_send, under the target's c_ipi_lock: the bit, then the line.        *)
IpiSend(target, code) ==
  /\ pending' = [pending EXCEPT ![target] = @ \cup {code}]
  /\ line' = [line EXCEPT ![target] = TRUE]

(* thread_make_runnable for a thread of another, idle CPU.                 *)
unidle(c) ==
  /\ Starts(c)
  /\ \E d \in CPU \ {c} : IpiSend(d, "unidle")
  /\ UNCHANGED <<pc, intr, todo>>
  /\ UNCHANGED spinVars /\ UNCHANGED splVars /\ UNCHANGED panicVars

(* A KASSERT fails, or panic is called.  Under the serial port's lock the  *)
(* only panic is lser_write's, which Console shows is never reached.       *)
panic(c) ==
  /\ Starts(c)
  /\ holder[SerialLock] # c
  /\ Cardinality({d \in CPU : Panicking(d)}) < Panics
  /\ Goto(c, Test(0))
  /\ UNCHANGED <<todo>>
  /\ UNCHANGED spinVars /\ UNCHANGED splVars /\ UNCHANGED ipiVars
  /\ UNCHANGED panicVars

(* sys_reboot's last part: thread_shutdown broadcasts IPI_OFFLINE.         *)
thread_shutdown(c) ==
  /\ Starts(c)
  /\ Held(c) = {} /\ curspl[c] = 0
  /\ todo' = [todo EXCEPT ![c] = CPU \ {c}]
  /\ Goto(c, <<"offline">>)
  /\ UNCHANGED spinVars /\ UNCHANGED splVars /\ UNCHANGED ipiVars
  /\ UNCHANGED panicVars

offline_send(c) ==
  /\ At(c, <<"offline">>)
  /\ \E d \in todo[c] : /\ IpiSend(d, "offline")
                        /\ todo' = [todo EXCEPT ![c] = @ \ {d}]
  /\ UNCHANGED <<pc, intr, ops>>
  /\ UNCHANGED spinVars /\ UNCHANGED splVars /\ UNCHANGED panicVars

(* splhigh and mainbus_poweroff (RB_HALT halts this CPU instead).          *)
shutdown_ends(c) ==
  /\ At(c, <<"offline">>) /\ todo[c] = {}
  /\ splx(c, 1)
  /\ \/ power' = "off" /\ Goto(c, <<"off">>)
     \/ power' = power /\ Goto(c, <<"halted">>)
  /\ UNCHANGED <<todo, ops, evil, printed, biglock, dirty>>
  /\ UNCHANGED spinVars /\ UNCHANGED ipiVars

-----------------------------------------------------------------------------
(* Interrupts.                                                             *)

(* mips_trap on EX_IRQ: the processor has turned interrupts off; the       *)
(* recorded level is raised to match.                                      *)
mips_trap(c) ==
  /\ Awake(c) /\ ~Stopped(c)
  /\ irq[c] /\ line[c]
  /\ intr' = [intr EXCEPT ![c] = "ipi"]
  /\ irq' = [irq EXCEPT ![c] = FALSE]
  /\ curspl' = [curspl EXCEPT ![c] = 1]
  /\ count' = [count EXCEPT ![c] = @ + 1]
  /\ UNCHANGED <<pc, pending, line, todo, ops>>
  /\ UNCHANGED spinVars /\ UNCHANGED panicVars

(* interprocessor_interrupt, under c_ipi_lock: IPI_PANIC stops this CPU at *)
(* once, IPI_OFFLINE after it has printed a line, and every other bit has  *)
(* done its work by now.                                                   *)
interprocessor_interrupt(c) ==
  /\ power = "on" /\ intr[c] = "ipi"
  /\ CASE "panic" \in pending[c] ->
            /\ Goto(c, <<"halted">>)
            /\ intr' = [intr EXCEPT ![c] = "no"]
            /\ UNCHANGED pending
       [] "panic" \notin pending[c] /\ "offline" \in pending[c] ->
            /\ intr' = [intr EXCEPT ![c] = "offline"]
            /\ UNCHANGED <<pc, pending>>
       [] OTHER ->
            /\ intr' = [intr EXCEPT ![c] = "clear"]
            /\ pending' = [pending EXCEPT ![c] = {}]
            /\ UNCHANGED pc
  /\ UNCHANGED <<line, todo, ops>>
  /\ UNCHANGED spinVars /\ UNCHANGED splVars /\ UNCHANGED panicVars

(* The kprintfs of IPI_OFFLINE, in polled mode under their spinlocks, and  *)
(* cpu_halt.                                                               *)
ipi_offline(c) ==
  /\ power = "on" /\ intr[c] = "offline"
  /\ \A l \in Lock : word[l] = 0
  /\ intr' = [intr EXCEPT ![c] = "no"]
  /\ Goto(c, <<"halted">>)
  /\ UNCHANGED <<pending, line, todo, ops>>
  /\ UNCHANGED spinVars /\ UNCHANGED splVars /\ UNCHANGED panicVars

(* mainbus_interrupt after the handler: lamebus_clear_ipi, and the return  *)
(* through mips_trap, which restores the recorded level.                   *)
lamebus_clear_ipi(c) ==
  /\ power = "on" /\ intr[c] = "clear"
  /\ line' = [line EXCEPT ![c] = FALSE]
  /\ intr' = [intr EXCEPT ![c] = "no"]
  /\ irq' = [irq EXCEPT ![c] = TRUE]
  /\ curspl' = [curspl EXCEPT ![c] = 0]
  /\ count' = [count EXCEPT ![c] = @ - 1]
  /\ UNCHANGED <<pc, pending, todo, ops>>
  /\ UNCHANGED spinVars /\ UNCHANGED panicVars

-----------------------------------------------------------------------------
(* panic(): each stage is entered by whoever finds evil at its number, so  *)
(* that a panic inside panic goes on with the next one.  Nothing makes the *)
(* test and the store one step.                                            *)

panic_test(c) ==
  /\ Awake(c) /\ pc[c][1] = "test"
  /\ LET k == pc[c][2] IN
       Goto(c, IF k = 6 THEN <<"loop">> ELSE IF evil = k THEN Set(k) ELSE Test(k + 1))
  /\ UNCHANGED <<todo, ops>>
  /\ UNCHANGED spinVars /\ UNCHANGED splVars /\ UNCHANGED ipiVars
  /\ UNCHANGED panicVars

panic_set(c) ==
  /\ Awake(c) /\ pc[c][1] = "set"
  /\ LET k == pc[c][2] IN
       /\ evil' = k + 1
       /\ Goto(c, Do(k))
       /\ todo' = [todo EXCEPT ![c] = IF k = 1 THEN CPU \ {c} ELSE @]
  /\ UNCHANGED <<ops, printed, biglock, dirty, power>>
  /\ UNCHANGED spinVars /\ UNCHANGED splVars /\ UNCHANGED ipiVars

(* splhigh, so that nothing interrupts the rest.                           *)
panic_splhigh(c) ==
  /\ At(c, Do(0))
  /\ splx(c, 1)
  /\ Goto(c, Test(1))
  /\ UNCHANGED <<todo, ops>>
  /\ UNCHANGED spinVars /\ UNCHANGED ipiVars /\ UNCHANGED panicVars

(* thread_panic: IPI_PANIC to every other CPU, and the run queue dropped.  *)
thread_panic(c) ==
  /\ At(c, Do(1))
  /\ \/ /\ todo[c] = {}
        /\ Goto(c, Test(2))
        /\ UNCHANGED <<pending, line, todo>>
     \/ /\ \E d \in todo[c] : /\ IpiSend(d, "panic")
                              /\ todo' = [todo EXCEPT ![c] = @ \ {d}]
        /\ UNCHANGED pc
  /\ UNCHANGED <<intr, ops>>
  /\ UNCHANGED spinVars /\ UNCHANGED splVars /\ UNCHANGED panicVars

(* kprintf's choice: with interrupts on and no spinlock held it takes a    *)
(* sleeping lock and prints by interrupts, which the boot CPU must take;   *)
(* otherwise it takes its spinlock and polls the serial port under that    *)
(* port's lock.                                                            *)
dolock(c) == curspl[c] = 0 /\ spinlocks[c] = 0

panic_prints_asleep(c) ==
  /\ At(c, Do(2)) /\ dolock(c)
  /\ \/ printed' = TRUE /\ Goto(c, Test(3))
     \/ Stopped(BootCPU) /\ printed' = printed /\ Goto(c, <<"asleep">>)
  /\ UNCHANGED <<todo, ops, evil, biglock, dirty, power>>
  /\ UNCHANGED spinVars /\ UNCHANGED splVars /\ UNCHANGED ipiVars

panic_prints(c) ==
  /\ Awake(c)
  /\ \/ pc[c] = Do(2) /\ ~dolock(c) /\ spinlock_acquire(c, KprintfLock, <<"say1">>)
     \/ pc[c] = <<"say1">> /\ spinlock_acquire(c, SerialLock, <<"say2">>)
     \/ pc[c] = <<"say2">> /\ spinlock_release(c, SerialLock) /\ Goto(c, <<"say3">>)
     \/ pc[c] = <<"say3">> /\ spinlock_release(c, KprintfLock) /\ Goto(c, <<"say4">>)
     \/ pc[c] = <<"say4">> /\ spinlock_acquire(c, SerialLock, <<"say5">>)
     \/ pc[c] = <<"say5">> /\ spinlock_release(c, SerialLock) /\ Goto(c, Test(3))
  /\ printed' = (printed \/ pc[c] = <<"say5">>)
  /\ UNCHANGED <<todo, ops, evil, biglock, dirty, power>> /\ UNCHANGED ipiVars

(* ltrace_stop: the debugger, if there is one, lets the machine go on.     *)
panic_debugger(c) ==
  /\ At(c, Do(3))
  /\ Goto(c, Test(4))
  /\ UNCHANGED <<todo, ops>>
  /\ UNCHANGED spinVars /\ UNCHANGED splVars /\ UNCHANGED ipiVars
  /\ UNCHANGED panicVars

(* vfs_sync: it waits for vfs_biglock, and for the disk if there is        *)
(* something to write.  To wait with a spinlock held is a panic again; to  *)
(* wait for a thread that is stopped, or for an interrupt when the boot    *)
(* CPU is stopped, is for ever.                                            *)
LockGone(c) == biglock = "other" \/ (biglock \in CPU \ {c} /\ Stopped(biglock))
DiskGone(c) == dirty /\ c # BootCPU /\ Stopped(BootCPU)
MustWait(c) == biglock \notin {c, Nobody} \/ dirty

panic_sync(c) ==
  /\ At(c, Do(4))
  /\ \/ /\ MustWait(c) /\ spinlocks[c] > 0
        /\ Goto(c, Test(0))
        /\ UNCHANGED biglock
     \/ /\ spinlocks[c] = 0 /\ (LockGone(c) \/ DiskGone(c))
        /\ Goto(c, <<"asleep">>)
        /\ UNCHANGED biglock
     \/ /\ MustWait(c) => spinlocks[c] = 0
        /\ biglock \in {c, Nobody} /\ ~DiskGone(c)
        /\ biglock' = Nobody
        /\ Goto(c, Test(5))
  /\ UNCHANGED <<todo, ops, evil, printed, dirty, power>>
  /\ UNCHANGED spinVars /\ UNCHANGED splVars /\ UNCHANGED ipiVars

(* Ordinary code on another CPU lets go of vfs_biglock.                    *)
biglock_release(c) ==
  /\ At(c, <<"run">>) /\ biglock = c
  /\ biglock' = Nobody
  /\ UNCHANGED <<pc, todo, ops, evil, printed, dirty, power>>
  /\ UNCHANGED spinVars /\ UNCHANGED splVars /\ UNCHANGED ipiVars

mainbus_panic(c) ==
  /\ At(c, Do(5))
  /\ power' = "off"
  /\ Goto(c, <<"off">>)
  /\ UNCHANGED <<todo, ops, evil, printed, biglock, dirty>>
  /\ UNCHANGED spinVars /\ UNCHANGED splVars /\ UNCHANGED ipiVars

(* Everything a CPU does without being asked to start something new.       *)
Proceed(c) ==
  \/ testandset(c) \/ unlock_something(c) \/ spl_restore(c) \/ biglock_release(c)
  \/ offline_send(c) \/ shutdown_ends(c)
  \/ mips_trap(c) \/ interprocessor_interrupt(c) \/ ipi_offline(c)
  \/ lamebus_clear_ipi(c)
  \/ panic_test(c) \/ panic_set(c) \/ panic_splhigh(c) \/ thread_panic(c)
  \/ panic_prints_asleep(c) \/ panic_prints(c) \/ panic_debugger(c)
  \/ panic_sync(c) \/ mainbus_panic(c)

Start(c) ==
  \/ lock_something(c) \/ splhigh(c) \/ unidle(c) \/ panic(c)
  \/ thread_shutdown(c)

Next == \E c \in CPU : Start(c) \/ Proceed(c)

(* A CPU that can execute an instruction does.                             *)
Fairness == \A c \in CPU : WF_vars(Proceed(c))

Spec == Init /\ [][Next]_vars /\ Fairness

-----------------------------------------------------------------------------
TypeOK ==
  /\ word \in [Lock -> 0..1]
  /\ holder \in [Lock -> CPU \cup {Nobody}]
  /\ irq \in [CPU -> BOOLEAN]
  /\ count \in [CPU -> 0..5] /\ spinlocks \in [CPU -> 0..3]
  /\ curspl \in [CPU -> 0..1]
  /\ evil \in 0..6
  /\ pending \in [CPU -> SUBSET {"panic", "offline", "unidle"}]

(* Spinlocks exclude, and no interrupt gets in between: the word is set    *)
(* exactly when one CPU owns it, and a CPU that owns one or waits for one  *)
(* has interrupts off, also when the spinlocks and the splhigh()s were not *)
(* nested.  So no CPU is stopped by another's panic with a spinlock held,  *)
(* which the panicking CPU might need to print.                            *)
SpinlocksSound ==
  /\ \A l \in Lock : word[l] = 1 <=> holder[l] # Nobody
  /\ \A c \in CPU : /\ Held(c) # {} \/ pc[c][1] = "spin" => ~irq[c]
                    /\ pc[c] = <<"halted">> => Held(c) = {}

(* A panic of one CPU comes to an end: the machine goes off, or the        *)
(* panicking thread has stopped for good in vfs_sync or in a print by      *)
(* interrupts, or has been stopped.  It never hangs on a spinlock.         *)
PanicEnds == \A c \in CPU : Panicking(c) ~> (power = "off" \/ Stopped(c))

(* panic() "prints the printf arguments it's passed and then halts the     *)
(* system": the machine does not go off without a message.  It does not    *)
(* hold when two CPUs panic: the second one skips to the halt.             *)
PanicPrints == power = "off" /\ evil = 6 => printed

(* A CPU that was sent an interprocessor interrupt gets it: while it has   *)
(* bits pending and is not in the handler, the line is up.  It does not    *)
(* hold: the line is cleared after the bits are taken.                     *)
NoLostIPI ==
  \A c \in CPU : pending[c] # {} /\ intr[c] = "no" /\ ~Stopped(c) => line[c]
=============================================================================
