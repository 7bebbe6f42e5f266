----------------------------- MODULE SynchTests -----------------------------
(***************************************************************************)
(* The kernel's own tests of semaphores, locks, condition variables and    *)
(* wait channels (src/kern/test/synchtest.c, semunit.c, tt3.c) as programs *)
(* for the threads of Synch.  A thread's program is a sequence of          *)
(* instructions, loops unrolled; thread 0 is the menu's, the others are    *)
(* forked by it.                                                           *)
(***************************************************************************)
EXTENDS Integers, Sequences, FiniteSets, SequencesExt, TLC

CONSTANTS
  NTHREADS, NLOCKLOOPS, NCVLOOPS, NLOOPS, NCVS,      \* of synchtest.c
  NWAITCHANS, SLEEPALOT_ITERS,                       \* of tt3.c
  UINT_MAX

Worker == 1..NTHREADS
Thread == 0..NTHREADS
Nobody == 0 - 1
testsem == 201      \* the semaphore under test, or gatesem, or wakersem
donesem == 202      \* or exitsem
Sem == {testsem, donesem}
testlock(i) == 300 + i
testcv(i) == 400 + i
Pairs == 1..NCVS
Lock == {testlock(i) : i \in Pairs}
CV == {testcv(i) : i \in Pairs}

VARIABLES
  sem_count, lk_holder, cv_wchanlock, wchan, pc, on, relock,
  l_holding, a_waiting, deadlock, signals,          \* those of Synch
  testing,       \* the test that runs
  ip,         \* each thread's next instruction; 0: not forked
  vals,          \* the test's own variables
  flags,         \* in cvtest: time before cv_wait; elsewhere: flags of a thread
  panic       \* the assertion that failed
synch == <<sem_count, lk_holder, cv_wchanlock, wchan, pc, on, relock, l_holding, a_waiting, deadlock, signals>>
testsVars == <<synch, testing, ip, vals, flags, panic>>

S == INSTANCE Synch WITH Initial <- 0, MaxCount <- UINT_MAX

(***************************************************************************)
(* Programs.  A worker's number in the C code is num.                      *)
(***************************************************************************)
Times(n, block) == FlattenSeq([i \in 1..n |-> block])
Each(n, F(_)) == FlattenSeq([i \in 1..n |-> F(i)])
P_(s) == <<"P", s>>
V_(s) == <<"V", s>>
ForkAll(n) == Each(n, LAMBDA i : << <<"fork", i>> >>)
clocksleep == <<"clocksleep">>
Have(what, n) == <<"assert", what, n>>

semtestthread == << P_(testsem), <<"printing">>, <<"printed">>, V_(donesem) >>
semtest ==
  << P_(testsem), P_(testsem) >> \o ForkAll(NTHREADS) \o Times(NTHREADS, << V_(testsem), P_(donesem) >>)
  \o << V_(testsem), V_(testsem) >>

\* A failed check leads to the last two instructions, those of fail.
locktestthread ==
  Times(NLOCKLOOPS, << <<"acquire", 1>>, <<"testval1">>, <<"testval2">>, <<"testval3">>, <<"check">>, <<"release", 1>> >>)
  \o << V_(donesem), <<"exit">>, <<"release", 1>>, V_(donesem) >>
locktest == ForkAll(NTHREADS) \o Times(NTHREADS, << P_(donesem) >>)

\* The wait loop goes back two instructions; a wait that was too short leads
\* to the last instruction.
cvtestthread ==
  Times(NCVLOOPS, << <<"acquire", 1>>, <<"myturn">>, <<"wait", 1>>, <<"again">>, <<"turn">>, <<"spin">>,
                     <<"broadcast", 1>>, <<"release", 1>> >>)
  \o << V_(donesem), <<"exit">>, V_(donesem) >>
cvtest == << <<"first">> >> \o ForkAll(NTHREADS) \o Times(NTHREADS, << P_(donesem) >>)

sleepthread == Times(NLOOPS, Each(NCVS, LAMBDA i :
                 << <<"acquire", i>>, V_(testsem), <<"wait", i>>, <<"release", i>> >>)) \o << V_(donesem) >>
wakethread == Times(NLOOPS, Each(NCVS, LAMBDA i :
                << P_(testsem), <<"acquire", i>>, <<"signal", i>>, <<"release", i>> >>)) \o << V_(donesem) >>
cvtest2 == ForkAll(2) \o << P_(donesem), P_(donesem), <<"destroy", donesem>>, <<"destroy", testsem>> >>
           \o Each(NCVS, LAMBDA i : << <<"destroy", testlock(i)>>, <<"destroy", testcv(i)>> >>)

\* tt3: the last worker is the waker, the one before it computes.
sleepalot_thread == Times(SLEEPALOT_ITERS, << <<"wchan_sleep">> >>) \o << V_(donesem) >>
waker_thread == << P_(testsem), <<"done?">>, V_(testsem), <<"wakeall">>, <<"exit">>, V_(testsem), V_(donesem) >>
compute_thread == << <<"compute">>, V_(donesem) >>
runtest3 == ForkAll(NTHREADS) \o Times(NTHREADS - 1, << P_(donesem) >>)
            \o << P_(testsem), <<"wakerdone">>, V_(testsem), P_(donesem) >>

(***************************************************************************)
(* semunit.  The tests that must crash end with a panic of their own.      *)
(***************************************************************************)
waiter == << P_(testsem), <<"waited">> >>
makewaiter(i) == << <<"running">>, <<"fork", i>>, clocksleep >>
sem_destroy == <<"destroy", testsem>>
whoops == <<"whoops">>
Interrupted(b, block) == IF b THEN << <<"interrupt", TRUE>> >> \o block \o << <<"interrupt", FALSE>> >> ELSE block
do_semu89(b) == Interrupted(b, << V_(testsem) >>) \o << Have("count", 1), sem_destroy >>
do_semu1011(b) ==
  makewaiter(1) \o << Have("running", 1) >> \o Interrupted(b, << V_(testsem) >>)
  \o << clocksleep, Have("count", 0), Have("running", 0), sem_destroy >>
semu1213(b) ==
  makewaiter(1) \o makewaiter(2) \o << Have("running", 2) >> \o Interrupted(b, << V_(testsem) >>)
  \o << clocksleep, Have("count", 0), Have("running", 1), V_(testsem), clocksleep, Have("running", 0), sem_destroy >>
SpinlockHeld(block) == << <<"spinlock", TRUE>> >> \o block \o << <<"spinlock", FALSE>>, sem_destroy >>

\* Per test: the count the semaphore is made with, the menu's program, that
\* of a worker, and the assertion the test is there to see fail.
Semu(n, main, sub, crash) == [count |-> n, main |-> main, sub |-> sub, crash |-> crash]
NULL == 0
SemunitCreate == [
  semu1  |-> Semu(5, << Have("count", 5), sem_destroy >>, <<>>, ""),
  semu2  |-> Semu(0, << <<"sem_create", NULL>>, whoops >>, <<>>, "null name"),
  semu3  |-> Semu(0, << <<"destroy", NULL>>, whoops >>, <<>>, "sem != NULL"),
  semu4  |-> Semu(0, << <<"decrement">>, Have("positive", 0), sem_destroy >>, <<>>, ""),
  semu5  |-> Semu(UINT_MAX - 1, << Have("count", UINT_MAX - 1), sem_destroy >>, <<>>, ""),
  semu6  |-> Semu(0, makewaiter(1) \o << sem_destroy, whoops >>, waiter, "threads waiting") ]
SemunitV == [
  semu7  |-> Semu(0, SpinlockHeld(<< V_(testsem), V_(testsem), V_(testsem) >>), <<>>, ""),
  semu8  |-> Semu(0, do_semu89(FALSE), <<>>, ""),
  semu9  |-> Semu(0, do_semu89(TRUE), <<>>, ""),
  semu10 |-> Semu(0, do_semu1011(FALSE), waiter, ""),
  semu11 |-> Semu(0, do_semu1011(TRUE), waiter, ""),
  semu12 |-> Semu(0, semu1213(FALSE), waiter, ""),
  semu13 |-> Semu(0, semu1213(TRUE), waiter, ""),
  semu14 |-> Semu(0, << <<"decrement">>, V_(testsem), whoops >>, <<>>, "sem_count > 0"),
  semu15 |-> Semu(0, << V_(NULL), whoops >>, <<>>, "sem != NULL") ]
SemunitP == [
  semu16 |-> Semu(1, SpinlockHeld(<< P_(testsem) >>), <<>>, ""),
  semu17 |-> Semu(0, << <<"fork", 1>>, clocksleep, Have("asleep", 1), V_(testsem), clocksleep, sem_destroy >>,
                  << Have("count", 0), P_(testsem) >>, ""),
  semu18 |-> Semu(1, << Have("count", 1), P_(testsem), Have("count", 0) >>, <<>>, ""),
  semu19 |-> Semu(0, << <<"fork", 1>>, Have("count", 0), P_(testsem), Have("count", 0) >>, << clocksleep, V_(testsem) >>, ""),
  semu20 |-> Semu(0, << <<"interrupt", TRUE>>, P_(testsem), whoops >>, <<>>, "t_in_interrupt"),
  semu21 |-> Semu(1, << <<"interrupt", TRUE>>, P_(testsem), whoops >>, <<>>, "t_in_interrupt"),
  semu22 |-> Semu(0, << P_(NULL), whoops >>, <<>>, "sem != NULL") ]
Semunit == SemunitCreate @@ SemunitV @@ SemunitP

MenuProgram ==
  CASE testing = "semtest" -> semtest [] testing = "locktest" -> locktest [] testing = "cvtest" -> cvtest
    [] testing = "cvtest2" -> cvtest2 [] testing = "tt3" -> runtest3 [] OTHER -> Semunit[testing].main
WorkerProgram(t) ==
  CASE testing = "semtest" -> semtestthread [] testing = "locktest" -> locktestthread [] testing = "cvtest" -> cvtestthread
    [] testing = "cvtest2" -> IF t = 1 THEN sleepthread ELSE wakethread
    [] testing = "tt3" -> IF t = NTHREADS THEN waker_thread ELSE IF t = NTHREADS - 1 THEN compute_thread ELSE sleepalot_thread
    [] OTHER -> Semunit[testing].sub
Program(t) == IF t = 0 THEN MenuProgram ELSE WorkerProgram(t)
Instr(t) == Program(t)[ip[t]]
Ended(t) == IF ip[t] \in DOMAIN Program(t) THEN Instr(t)[1] = "exit" ELSE ip[t] > 0
Num(t) == t - 1

(***************************************************************************)
(* The steps of a thread.                                                  *)
(***************************************************************************)
At(t, op) == ip[t] > 0 /\ ~Ended(t) /\ Instr(t)[1] = op
Arg(t) == Instr(t)[2]
Goto(t, n) == ip' = [ip EXCEPT ![t] = n]
NextIp(t) == Goto(t, ip[t] + 1)
Sets(t, new) == vals' = new /\ NextIp(t) /\ UNCHANGED <<synch, testing, flags, panic>>

\* A call of Synch; the thread goes on when it is through with it.
Calls(t, action) ==
  /\ action
  /\ ip' = [ip EXCEPT ![t] = IF pc'[t] = "run" THEN @ + 1 ELSE @]
  /\ UNCHANGED <<testing, vals, flags, panic>>
KASSERT(t, ok, what) == IF ok THEN NextIp(t) /\ UNCHANGED panic ELSE panic' = what /\ UNCHANGED ip
Asserts(t, ok, what) == KASSERT(t, ok, what) /\ UNCHANGED <<synch, testing, vals, flags>>

DoP(t) ==
  /\ At(t, "P")
  /\ IF Arg(t) = NULL THEN Asserts(t, FALSE, "sem != NULL")
     ELSE IF t = 0 /\ vals.interrupt THEN Asserts(t, FALSE, "t_in_interrupt")
     ELSE IF t = 0 /\ vals.spinlock /\ sem_count[Arg(t)] = 0 THEN Asserts(t, FALSE, "c_spinlocks == 1")
     ELSE Calls(t, S!P(t, Arg(t)))

DoV(t) ==
  /\ At(t, "V")
  /\ IF Arg(t) = NULL THEN Asserts(t, FALSE, "sem != NULL")
     ELSE IF sem_count[Arg(t)] = UINT_MAX THEN Asserts(t, FALSE, "sem_count > 0")
     ELSE Calls(t, S!V(t, Arg(t)))

DoLock(t) ==
  \/ At(t, "acquire") /\ LET l == testlock(Arg(t))
                         IN  Calls(t, S!lock_acquire(t, l) \/ S!lock_acquire_deadlocks(t, l) \/ S!lock_acquire_again(t, l))
  \/ At(t, "release") /\ Calls(t, S!lock_release(t, testlock(Arg(t))))

DoWait(t) ==
  /\ At(t, "wait")
  /\ LET l == testlock(Arg(t))
     IN  Calls(t, \/ S!cv_wait(t, testcv(Arg(t)), l) \/ S!cv_wait_sleeps(t)
                  \/ pc[t] = "relock" /\ (S!lock_acquire(t, l) \/ S!lock_acquire_deadlocks(t, l))
                  \/ S!lock_acquire_again(t, l))

DoWake(t) ==
  \/ At(t, "signal") /\ Calls(t, S!cv_signal(t, testcv(Arg(t))))
  \/ At(t, "broadcast") /\ Calls(t, S!cv_broadcast(t, testcv(Arg(t))))

\* thread_fork fails for want of memory.
DoFork(t) ==
  /\ At(t, "fork")
  /\ \/ ip' = [ip EXCEPT ![t] = @ + 1, ![Arg(t)] = 1] /\ UNCHANGED panic
     \/ panic' = "thread_fork failed" /\ UNCHANGED ip
  /\ UNCHANGED <<synch, testing, vals, flags>>

\* Sleeping a second is long enough for the other threads to get as far as
\* they can.
DoClocksleep(t) ==
  /\ At(t, "clocksleep")
  /\ \A u \in Thread \ {t} : ip[u] = 0 \/ Ended(u) \/ pc[u] = "sleep"
  /\ NextIp(t) /\ UNCHANGED <<synch, testing, vals, flags, panic>>

DoDestroy(t) ==
  /\ At(t, "destroy")
  /\ IF Arg(t) = NULL THEN Asserts(t, FALSE, "sem != NULL")
     ELSE IF Arg(t) \in Lock /\ lk_holder[Arg(t)] # Nobody THEN Asserts(t, FALSE, "lk_holder == NULL")
     ELSE Asserts(t, wchan[Arg(t)] = <<>>, "threads waiting")

\* Instructions of semtest, of locktest (a failed check is fail's) and of cvtest.
DoSemtest(t) ==
  \/ At(t, "printing") /\ Sets(t, [vals EXCEPT !.printing = @ \union {t}])
  \/ At(t, "printed")  /\ Sets(t, [vals EXCEPT !.printing = @ \ {t}])
DoLocktest(t) ==
  \/ At(t, "testval1") /\ Sets(t, [vals EXCEPT !.testval1 = Num(t)])
  \/ At(t, "testval2") /\ Sets(t, [vals EXCEPT !.testval2 = Num(t) * Num(t)])
  \/ At(t, "testval3") /\ Sets(t, [vals EXCEPT !.testval3 = Num(t) % 3])
  \/ /\ At(t, "check")
     /\ LET ok == /\ vals.testval2 = vals.testval1 * vals.testval1 /\ vals.testval2 % 3 = (vals.testval3 * vals.testval3) % 3
                  /\ vals.testval3 = vals.testval1 % 3 /\ vals.testval1 = Num(t)
                  /\ vals.testval2 = Num(t) * Num(t) /\ vals.testval3 = Num(t) % 3
        IN  IF ok THEN NextIp(t) /\ UNCHANGED vals
            ELSE Goto(t, Len(Program(t)) - 1) /\ vals' = [vals EXCEPT !.failed = TRUE]
     /\ UNCHANGED <<synch, testing, flags, panic>>
DoCvtest(t) ==
  \/ At(t, "first") /\ Sets(t, [vals EXCEPT !.testval1 = NTHREADS - 1])
  \/ /\ At(t, "myturn")
     /\ IF vals.testval1 = Num(t) THEN Goto(t, ip[t] + 3) /\ UNCHANGED flags
        ELSE NextIp(t) /\ flags' = [flags EXCEPT ![t] = vals.spins]
     /\ UNCHANGED <<synch, testing, vals, panic>>
  \/ /\ At(t, "again")
     /\ IF vals.spins > flags[t] THEN Goto(t, ip[t] - 2) /\ UNCHANGED vals
        ELSE Goto(t, Len(Program(t))) /\ vals' = [vals EXCEPT !.failed = TRUE]
     /\ UNCHANGED <<synch, testing, flags, panic>>
  \/ At(t, "turn") /\ Sets(t, [vals EXCEPT !.printed = Append(@, Num(t)), !.testval1 = (@ + NTHREADS - 1) % NTHREADS])
  \/ At(t, "spin") /\ Sets(t, [vals EXCEPT !.spins = @ + 1])

\* Instructions of tt3.
Wakeall(t, i) ==
  /\ At(t, "wakeall")
  /\ LET o == testcv(i)
     IN  S!TakeOff(o, Len(wchan[o])) /\ S!Woken(S!FirstOf(o, Len(wchan[o])), o, t, "run")
  /\ Goto(t, 1)
  /\ UNCHANGED <<sem_count, lk_holder, cv_wchanlock, on, relock, l_holding, a_waiting, deadlock, signals, testing, vals, flags, panic>>
DoTt3(t) ==
  \/ /\ At(t, "wchan_sleep")
     /\ \/ pc[t] = "run" /\ \E i \in 1..NWAITCHANS : S!wchan_sleep(t, testcv(i)) /\ UNCHANGED ip
        \/ pc[t] = "relock" /\ S!Goes(t, "run", Nobody) /\ NextIp(t) /\ UNCHANGED wchan
     /\ UNCHANGED <<sem_count, lk_holder, cv_wchanlock, relock, l_holding, a_waiting, deadlock, signals, testing, vals, flags, panic>>
  \/ \E i \in 1..NWAITCHANS : Wakeall(t, i)
  \/ /\ At(t, "done?")
     /\ Goto(t, IF vals.wakerdone THEN 6 ELSE 3)
     /\ UNCHANGED <<synch, testing, vals, flags, panic>>
  \/ At(t, "compute") /\ Sets(t, vals)
  \/ At(t, "wakerdone") /\ Sets(t, [vals EXCEPT !.wakerdone = TRUE])

\* Instructions of semunit.
Holds(what, n) ==
  CASE what = "count" -> sem_count[testsem] = n
    [] what = "positive" -> sem_count[testsem] > 0
    [] what = "running" -> vals.running = n
    [] what = "asleep" -> pc[n] = "sleep"
DoSemunit(t) ==
  \/ At(t, "assert") /\ Asserts(t, Holds(Arg(t), Instr(t)[3]), "test failed")
  \/ At(t, "whoops") /\ Asserts(t, FALSE, "whoops")
  \/ At(t, "sem_create") /\ Asserts(t, FALSE, "null name")
  \/ At(t, "running") /\ Sets(t, [vals EXCEPT !.running = @ + 1])
  \/ At(t, "waited") /\ IF vals.running > 0 THEN Sets(t, [vals EXCEPT !.running = @ - 1]) ELSE Asserts(t, FALSE, "test failed")
  \/ At(t, "interrupt") /\ Sets(t, [vals EXCEPT !.interrupt = Arg(t)])
  \/ At(t, "spinlock") /\ Sets(t, [vals EXCEPT !.spinlock = Arg(t)])
  \/ /\ At(t, "decrement")
     /\ sem_count' = [sem_count EXCEPT ![testsem] = (@ - 1) % (UINT_MAX + 1)]
     /\ NextIp(t)
     /\ UNCHANGED <<lk_holder, cv_wchanlock, wchan, pc, on, relock, l_holding, a_waiting, deadlock, signals, testing, vals, flags, panic>>

Step(t) == \/ DoP(t) \/ DoV(t) \/ DoLock(t) \/ DoWait(t) \/ DoWake(t) \/ DoFork(t) \/ DoClocksleep(t) \/ DoDestroy(t)
           \/ DoSemtest(t) \/ DoLocktest(t) \/ DoCvtest(t) \/ DoTt3(t) \/ DoSemunit(t)

\* inititems of synchtest.c, setup of tt3.c, makesem of semunit.c.
inititems(t) == IF t = "semtest" THEN 2 ELSE IF t = "tt3" THEN 1
                ELSE IF t \in DOMAIN Semunit THEN Semunit[t].count ELSE 0
TestsInit ==
  \* all of Synch's but the counts
  /\ S!Init!2 /\ S!Init!3 /\ S!Init!4 /\ S!Init!5 /\ S!Init!6 /\ S!Init!7 /\ S!Init!8
  /\ testing \in {"semtest", "locktest", "cvtest", "cvtest2", "tt3"} \union DOMAIN Semunit
  /\ sem_count = [s \in Sem |-> IF s = testsem THEN inititems(testing) ELSE 0]
  /\ ip = [t \in Thread |-> IF t = 0 THEN 1 ELSE 0]
  /\ vals = [testval1 |-> 0, testval2 |-> 0, testval3 |-> 0, spins |-> 0, printing |-> {}, printed |-> <<>>,
          running |-> 0, wakerdone |-> FALSE, interrupt |-> FALSE, spinlock |-> FALSE, failed |-> FALSE]
  /\ flags = [t \in Thread |-> 0]
  /\ panic = ""

Running == panic = "" /\ deadlock = {}
TestsNext == Running /\ \E t \in Thread : Step(t)

\* Every thread gets to run; random() picks every channel again and again; and
\* since the waker of tt3 yields between two uses of wakersem, the menu's
\* thread gets to run while the semaphore is free.
TestsSpec == /\ TestsInit /\ [][TestsNext]_testsVars
        /\ \A t \in Thread : WF_testsVars(Running /\ Step(t))
        /\ \A i \in 1..NWAITCHANS : SF_testsVars(Running /\ Wakeall(NTHREADS, i))
        /\ SF_testsVars(Running /\ sem_count[testsem] > 0 /\ DoP(0))

\* The tests report no failure and end as they say: only one thread prints at
\* a time in semtest, the values a thread sets under the lock are there when
\* it looks, cvtest prints in reverse order and no wait in it is shorter than
\* another thread's turn, nobody waits on what cvtest2 destroys, the counts
\* are as before for the next test, and each test of semunit stops at the
\* assertion it is there to provoke, or at none.
TestsRight ==
  /\ deadlock = {} /\ ~vals.failed
  /\ panic \in {"", "thread_fork failed"} \/ (testing \in DOMAIN Semunit /\ panic = Semunit[testing].crash)
  /\ Cardinality(vals.printing) <= 1
  /\ \A i \in 1..Len(vals.printed) : vals.printed[i] = (NTHREADS * NCVLOOPS - i) % NTHREADS
  /\ Ended(0) => IF testing \in DOMAIN Semunit THEN Semunit[testing].crash = ""
                 ELSE sem_count = [s \in Sem |-> IF s = testsem THEN inititems(testing) ELSE 0]

\* Every test ends: no wakeup between threads is lost on the way.
TestsEnd == <>(Ended(0) \/ ~Running)
=============================================================================
