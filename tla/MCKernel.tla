------------------------------ MODULE MCKernel ------------------------------
(***************************************************************************)
(* Parts of the kernel for TLC: its tests of semaphores, locks, condition  *)
(* variables and wait channels, execv and runprogram, the kernel heap, uio *)
(* and copyin, thread lists, arrays and bitmaps.  A behaviour is one of    *)
(* one of them; the variables of the others stay at Off.                   *)
(***************************************************************************)
EXTENDS SynchTests

CONSTANT Null      \* of Kmalloc

VARIABLES which,
  ARG_MAX, execthrottle, e_pc, buf, e_held, argv, image, start, stdfds, execs, e_panic,   \* Exec
  k_free, kheaproots, refs, sizebases, allbase, call, k_held, panicked,   \* Kmalloc
  mem, valid, u_u, iov0, stream, moves, result,   \* Uio
  tl, order, l_test, l_ops, l_panic,   \* ThreadList
  arr, want, bm, marked, a_test, a_got, a_ops, a_panic   \* Arrays

(* Lists that fill the small and the large buffer exactly, that go on      *)
(* after filling one or are too long for it, or cannot be read.            *)
List(lens) == [n \in 1..Len(lens) |-> [len |-> lens[n], bad |-> ""]]
ExecArgvs ==
  {List(l) : l \in {<<>>, <<2, 3>>, <<5, 0>>, <<0, 0, 0, 0, 0, 0>>, <<9>>, <<6, 2, 0>>}}
  \union {<<[len |-> 5, bad |-> ""], [len |-> 1, bad |-> "pointer"]>>,
          <<[len |-> 9, bad |-> "text"]>>}
E == INSTANCE Exec WITH
  pc <- e_pc, held <- e_held, panic <- e_panic,
  Users <- {"u1", "u2"}, Starters <- {"m1"}, Argvs <- ExecArgvs, ArgMaxes <- {6, 10},
  PAGE_SIZE <- 6, PTR <- 2, USERSTACK <- 100, STACKSIZE <- 32, MaxExecs <- 1

(* One size of block on four pages, so that both threads can be fetching a *)
(* page of pagerefs; and two sizes on three.                               *)
Heap == INSTANCE Kmalloc WITH
  free <- k_free, held <- k_held, Thread <- {"t1", "t2"},
  Page <- {"p1", "p2", "p3", "p4"}, PAGE_SIZE <- 12, sizes <- <<6>>,
  LARGEST_SUBPAGE_SIZE <- 6, NUM_PAGEREFPAGES <- 2, NPAGEREFS_PER_PAGE <- 2,
  Requests <- {5}
Heap2 == INSTANCE Kmalloc WITH
  free <- k_free, held <- k_held, Thread <- {"t1", "t2"},
  Page <- {"p1", "p2", "p3"}, PAGE_SIZE <- 12, sizes <- <<4, 6>>,
  LARGEST_SUBPAGE_SIZE <- 6, NUM_PAGEREFPAGES <- 2, NPAGEREFS_PER_PAGE <- 2,
  Requests <- {4, 5, 12}

UserIO == INSTANCE Uio WITH
  u <- u_u, AddrBits <- 4, USERSPACETOP <- 8,
  Bases <- {0, 2, 5, 7, 9, 12, 15}, Lens <- {0, 1, 3, 9}, Offset <- 2,
  Valids <- {0..7, {0, 1, 2, 3, 6, 7}, {}}, ZEROS <- 2, MaxMoves <- 3, Chunks <- {1, 3}

Links == INSTANCE ThreadList WITH
  test <- l_test, ops <- l_ops, panic <- l_panic,
  Lists <- {1, 2}, Movers <- {1, 2, 3, 4}, MaxOps <- 8

Arr == INSTANCE Arrays WITH
  test <- a_test, got <- a_got, ops <- a_ops,
  panic <- a_panic, TESTSIZE <- 7, BIGTESTSIZE <- 9, Vals <- {1, 2}, MaxSize <- 9,
  BITS_PER_WORD <- 4, MaxBits <- 9, MaxOps <- 5

ASSUME Heap!KmallocConstants /\ Heap2!KmallocConstants

execVars == <<ARG_MAX, execthrottle, e_pc, buf, e_held, argv, image, start, stdfds,
              execs, e_panic>>
heapVars == <<k_free, kheaproots, refs, sizebases, allbase, call, k_held, panicked>>
uioVars == <<mem, valid, u_u, iov0, stream, moves, result>>
linksVars == <<tl, order, l_test, l_ops, l_panic>>
arrVars == <<arr, want, bm, marked, a_test, a_got, a_ops, a_panic>>
vars == <<which, testsVars, execVars, heapVars, uioVars, linksVars, arrVars>>

Off == "off"

Init ==
  /\ which \in {"synchtests", "exec", "kmalloc", "kmalloc2", "uio", "threadlist", "arrays"}
  /\ IF which = "synchtests" THEN TestsInit
     ELSE /\ sem_count = Off /\ lk_holder = Off /\ cv_wchanlock = Off /\ wchan = Off
          /\ pc = Off /\ on = Off /\ relock = Off /\ l_holding = Off /\ a_waiting = Off
          /\ deadlock = Off /\ signals = Off /\ testing = Off /\ ip = Off /\ vals = Off
          /\ flags = Off /\ panic = Off
  /\ IF which = "exec" THEN E!Init
     ELSE /\ ARG_MAX = Off /\ execthrottle = Off /\ e_pc = Off /\ buf = Off
          /\ e_held = Off /\ argv = Off /\ image = Off /\ start = Off /\ stdfds = Off
          /\ execs = Off /\ e_panic = Off
  /\ IF which = "kmalloc" THEN Heap!Init
     ELSE IF which = "kmalloc2" THEN Heap2!Init
     ELSE /\ k_free = Off /\ kheaproots = Off /\ refs = Off /\ sizebases = Off
          /\ allbase = Off /\ call = Off /\ k_held = Off /\ panicked = Off
  /\ IF which = "uio" THEN UserIO!Init
     ELSE /\ mem = Off /\ valid = Off /\ u_u = Off /\ iov0 = Off /\ stream = Off
          /\ moves = Off /\ result = Off
  /\ IF which = "threadlist" THEN Links!Init
     ELSE /\ tl = Off /\ order = Off /\ l_test = Off /\ l_ops = Off /\ l_panic = Off
  /\ IF which = "arrays" THEN Arr!Init
     ELSE /\ arr = Off /\ want = Off /\ bm = Off /\ marked = Off /\ a_test = Off
          /\ a_got = Off /\ a_ops = Off /\ a_panic = Off

Next ==
  /\ UNCHANGED which
  /\ IF which = "synchtests" THEN TestsNext ELSE UNCHANGED testsVars
  /\ IF which = "exec" THEN E!Next ELSE UNCHANGED execVars
  /\ IF which = "kmalloc" THEN Heap!Next
     ELSE IF which = "kmalloc2" THEN Heap2!Next ELSE UNCHANGED heapVars
  /\ IF which = "uio" THEN UserIO!Next ELSE UNCHANGED uioVars
  /\ IF which = "threadlist" THEN Links!Next ELSE UNCHANGED linksVars
  /\ IF which = "arrays" THEN Arr!Next ELSE UNCHANGED arrVars

(* The fairness of SynchTests and of Exec.                                 *)
Fairness ==
  /\ \A t \in Thread : WF_testsVars(which = "synchtests" /\ Running /\ Step(t))
  /\ \A c \in 1..NWAITCHANS :
       SF_testsVars(which = "synchtests" /\ Running /\ Wakeall(NTHREADS, c))
  /\ SF_testsVars(which = "synchtests" /\ Running /\ sem_count[testsem] > 0 /\ DoP(0))
  /\ \A p \in E!Proc : WF_execVars(which = "exec" /\ e_panic = "" /\ E!Kernel(p))

Spec == Init /\ [][Next]_vars /\ Fairness

-----------------------------------------------------------------------------
(* The kernel's tests of semaphores, locks and condition variables report  *)
(* no failure, and each of semunit's stops at the assertion it provokes.   *)
SynchTestsPass == which = "synchtests" => TestsRight

(* A program starts with the arguments it was given, aligned and           *)
(* terminated (argbuf_copyin, argbuf_copyout), and however an exec ends it *)
(* has given back its buffers, its file and its turn for a large buffer    *)
(* (argbuf_cleanup).                                                       *)
ExecExact == which = "exec" => E!ArgsArrive /\ E!ExecLeavesNothing

(* Every test of the kernel ends: no wakeup is lost; and so does every     *)
(* exec, those that wait for a large buffer included.                      *)
TestsAndExecsEnd ==
  []<>CASE which = "synchtests" -> Ended(0) \/ ~Running
        [] which = "exec" -> e_panic # "" \/ \A p \in E!Proc : ~E!InKernel(p)
        [] OTHER -> TRUE

(* Allocations of kmalloc do not overlap; a heap page's blocks are free or *)
(* allocated, its counts and lists agree; and every page has one use,      *)
(* whatever fails and whoever gets in between.                             *)
KernelHeapExact ==
  /\ which = "kmalloc" => /\ Heap!TypeOK /\ Heap!NoOverlap /\ Heap!HeapExact
                          /\ Heap!ListsAgree /\ Heap!PagesAccounted
  /\ which = "kmalloc2" => /\ Heap2!TypeOK /\ Heap2!NoOverlap /\ Heap2!HeapExact
                           /\ Heap2!ListsAgree /\ Heap2!PagesAccounted

(* However uiomove is cut into pieces and wherever it faults, the uio says *)
(* what was moved; and copyin, copyout and their string forms never touch  *)
(* the kernel's addresses for the user.                                    *)
UioExact == which = "uio" => UserIO!UioExact /\ UserIO!UserStaysOut

(* Thread lists, arrays and bitmaps are the sequences and sets they stand  *)
(* for after any calls and any failure to get memory.                      *)
ContainersExact ==
  /\ which = "threadlist" => Links!ListsAreSequences
  /\ which = "arrays" => Arr!ContainersExact
=============================================================================
