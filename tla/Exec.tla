-------------------------------- MODULE Exec --------------------------------
(***************************************************************************)
(* execv and runprogram (src/kern/syscall/runprogram.c): the argument      *)
(* buffer and its throttle, the load of the program, and the layout of the *)
(* arguments on the new stack.  What loading does to memory is in          *)
(* VirtualMemory; here it succeeds or fails.  Memory may run out at any    *)
(* allocation.                                                             *)
(***************************************************************************)
EXTENDS Integers, Sequences, FiniteSets, TLC

CONSTANTS
  Users,        \* processes that call execv
  Starters,     \* processes the menu starts, which call runprogram
  Argvs,        \* argument lists: for each argument the length of its text
                \* and whether its pointer, or what follows those characters,
                \* cannot be read
  ArgMaxes,     \* values of ARG_MAX
  PAGE_SIZE, PTR,        \* sizes of the small buffer and of a pointer
  USERSTACK, STACKSIZE,
  MaxExecs      \* bound: calls of execv per process

Proc == Users \union Starters
EXEC_BIGBUF_THROTTLE == 1
NULL == 0

VARIABLES
  ARG_MAX,       \* fixed when the kernel is built
  execthrottle,  \* the semaphore's count
  pc,            \* where each process is
  buf,           \* struct argbuf of each
  held,          \* what it has allocated or opened in this call
  argv,          \* the list it was called with
  image,         \* number of the program it runs; 0: none yet
  start,         \* the program's argc, argv and stack, and the list meant
  stdfds,        \* standard descriptors that are open
  execs,         \* calls made
  panic
vars == <<ARG_MAX, execthrottle, pc, buf, held, argv, image, start, stdfds, execs, panic>>

Char(i, j) == 10 * i + j                   \* character j of argument i
Text(i, len) == [j \in 1..(len + 1) |-> IF j <= len THEN Char(i, j) ELSE 0]

argbuf_init == [data |-> <<>>, len |-> 0, max |-> 0, nargs |-> 0, tooksem |-> FALSE]

(***************************************************************************)
(* argbuf_copyin, for an argument list a: copyin of the pointer, then      *)
(* copyinstr.  With no room left its copycheck takes the empty region for  *)
(* one that wraps around, and the error is EFAULT; copystr gives           *)
(* ENAMETOOLONG when the room ends before the text or the fault.           *)
(***************************************************************************)
RECURSIVE CopyArg(_, _)
CopyArg(b, a) ==
  LET i == b.nargs + 1
      room == b.max - b.len
  IN  IF i > Len(a) THEN [b |-> b, err |-> ""]
      ELSE IF a[i].bad = "pointer" \/ room = 0 THEN [b |-> b, err |-> "EFAULT"]
      ELSE IF a[i].len >= room THEN [b |-> b, err |-> "E2BIG"]
      ELSE IF a[i].bad = "text" THEN [b |-> b, err |-> "EFAULT"]
      ELSE CopyArg([b EXCEPT !.data = @ \o Text(i, a[i].len), !.len = @ + a[i].len + 1, !.nargs = i], a)
argbuf_copyin(b, a) == CopyArg([b EXCEPT !.nargs = 0], a)

(***************************************************************************)
(* argbuf_copyout: strings first, below them the pointers.  The text of an *)
(* argument ends at its NUL.                                               *)
(***************************************************************************)
\* The stack is not aligned after the strings.
NoAlign(b) == LET s == USERSTACK - b.len IN [strings |-> s, argv |-> s - (b.nargs + 1) * PTR]
Layout(b) ==
  LET s == USERSTACK - b.len
      base == s - (s % PTR)
  IN  [strings |-> base, argv |-> base - (b.nargs + 1) * PTR]
\* Where argument k begins in the buffer: after the NUL of the one before.
Pos(data, k) == IF k = 1 THEN 0
                ELSE CHOOSE n \in 1..Len(data) : data[n] = 0 /\ Cardinality({i \in 1..n : data[i] = 0}) = k - 1
Stack == (USERSTACK - STACKSIZE)..(USERSTACK - 1)
Fits(b) == Layout(b).argv >= USERSTACK - STACKSIZE
argbuf_copyout(b) ==
  LET lay == Layout(b)
      Byte(a) == IF a \in lay.strings..(lay.strings + b.len - 1) THEN b.data[a - lay.strings + 1]
                 ELSE IF a >= lay.argv /\ a < lay.argv + b.nargs * PTR /\ (a - lay.argv) % PTR = 0
                 THEN lay.strings + Pos(b.data, 1 + (a - lay.argv) \div PTR)
                 ELSE IF a = lay.argv + b.nargs * PTR THEN NULL ELSE 0 - 1
  IN  [stack |-> [a \in Stack |-> Byte(a)], argc |-> b.nargs, uargv |-> lay.argv]

(***************************************************************************)
(* The calls, with a step of its own wherever a process may wait.          *)
(***************************************************************************)
NotStarted == [stack |-> <<>>, argc |-> 0, uargv |-> 0, given |-> <<>>]
Set(f, p, v) == [f EXCEPT ![p] = v]

\* The turn for a large buffer is not given back.
KeepsThrottle(p, h) ==
  /\ buf' = Set(buf, p, argbuf_init)
  /\ held' = Set(held, p, h \ {"data"})
  /\ UNCHANGED execthrottle
\* argbuf_cleanup, and what else of h is freed with it.
argbuf_cleanup(p, h) ==
  /\ buf' = Set(buf, p, argbuf_init)
  /\ held' = Set(held, p, h \ {"data"})
  /\ execthrottle' = IF buf[p].tooksem THEN execthrottle + 1 ELSE execthrottle

\* An error: a user process goes on, one the menu started exits, which
\* closes what it had opened.
Return(p) ==
  /\ pc' = Set(pc, p, IF image[p] = 0 THEN "dead" ELSE "user")
  /\ stdfds' = IF image[p] = 0 THEN Set(stdfds, p, {}) ELSE stdfds
Same == UNCHANGED <<ARG_MAX, image, start>>

sys_execv(p) ==
  /\ pc[p] = "user" /\ execs[p] < MaxExecs
  /\ \E a \in Argvs : argv' = Set(argv, p, a)
  /\ execs' = Set(execs, p, execs[p] + 1)
  /\ \/ pc' = Set(pc, p, "path") /\ held' = Set(held, p, {"path"})
     \/ UNCHANGED <<pc, held>>                            \* ENOMEM
  /\ UNCHANGED <<execthrottle, buf, stdfds, panic>> /\ Same

CopyPath(p) ==
  /\ pc[p] = "path"
  /\ \/ pc' = Set(pc, p, "small") /\ buf' = Set(buf, p, argbuf_init) /\ UNCHANGED <<held, stdfds>>
     \/ Return(p) /\ held' = Set(held, p, {}) /\ UNCHANGED buf
  /\ UNCHANGED <<execthrottle, argv, execs, panic>> /\ Same

Fails(p) == argbuf_cleanup(p, held[p] \ {"path"}) /\ Return(p)

\* argbuf_fromuser, until the throttle.
argbuf_fromuser(p) ==
  /\ pc[p] = "small"
  /\ \/ Fails(p)                                          \* argbuf_allocate
     \/ LET r == argbuf_copyin([buf[p] EXCEPT !.max = PAGE_SIZE], argv[p])
        IN  CASE r.err = "E2BIG" -> /\ buf' = Set(buf, p, argbuf_init) /\ pc' = Set(pc, p, "throttle")
                                    /\ UNCHANGED <<held, execthrottle, stdfds>>
              [] r.err = "EFAULT" -> Fails(p)
              [] OTHER -> /\ buf' = Set(buf, p, r.b) /\ held' = Set(held, p, held[p] \union {"data"})
                          /\ pc' = Set(pc, p, "load") /\ UNCHANGED <<execthrottle, stdfds>>
  /\ UNCHANGED <<argv, execs, panic>> /\ Same

\* P(execthrottle).
Throttle(p) ==
  /\ pc[p] = "throttle" /\ execthrottle > 0
  /\ execthrottle' = execthrottle - 1
  /\ buf' = Set(buf, p, [buf[p] EXCEPT !.tooksem = TRUE])
  /\ pc' = Set(pc, p, "big")
  /\ UNCHANGED <<held, argv, stdfds, execs, panic>> /\ Same

\* The rest of argbuf_fromuser, with the full-size buffer.
Big(p) ==
  /\ pc[p] = "big"
  /\ \/ Fails(p)
     \/ LET r == argbuf_copyin([buf[p] EXCEPT !.max = ARG_MAX], argv[p])
        IN  IF r.err # "" THEN Fails(p)
            ELSE /\ buf' = Set(buf, p, r.b) /\ held' = Set(held, p, held[p] \union {"data"})
                 /\ pc' = Set(pc, p, "load") /\ UNCHANGED <<execthrottle, stdfds>>
  /\ UNCHANGED <<argv, execs, panic>> /\ Same

(***************************************************************************)
(* loadexec.  First the name, the file and the new address space, then,    *)
(* with the new one in place, the program and its stack.                   *)
(***************************************************************************)
loadexec(p) ==
  /\ pc[p] = "load"
  /\ \/ Fails(p)                  \* kstrdup, vfs_open or as_create, each undone
     \/ /\ held' = Set(held, p, held[p] \union {"newname", "vnode", "oldvm"})
        /\ pc' = Set(pc, p, "loading") /\ UNCHANGED <<execthrottle, buf, stdfds>>
  /\ UNCHANGED <<argv, execs, panic>> /\ Same

\* A failure puts the old address space back; a success destroys it.
load_elf(p) ==
  /\ pc[p] = "loading"
  /\ \/ argbuf_cleanup(p, held[p] \ {"path", "newname", "vnode", "oldvm"}) /\ Return(p) /\ UNCHANGED image
     \/ /\ held' = Set(held, p, held[p] \ {"newname", "vnode", "oldvm", "path"})
        /\ image' = Set(image, p, image[p] + 1)
        /\ pc' = Set(pc, p, "out") /\ UNCHANGED <<execthrottle, buf, stdfds>>
  /\ UNCHANGED <<ARG_MAX, argv, start, execs, panic>>

\* argbuf_copyout, argbuf_cleanup and enter_new_process.
enter_new_process(p) ==
  /\ pc[p] = "out" /\ Fits(buf[p])
  /\ start' = Set(start, p, [given |-> argv[p]] @@ argbuf_copyout(buf[p]))
  /\ argbuf_cleanup(p, held[p])
  /\ pc' = Set(pc, p, "user")
  /\ UNCHANGED <<ARG_MAX, argv, image, stdfds, execs, panic>>

\* A page of the new stack cannot be had, or the arguments do not fit.
copyout_args_failed(p) ==
  /\ pc[p] = "out"
  /\ panic' = (IF Fits(buf[p]) THEN "no memory" ELSE "too large")
  /\ UNCHANGED <<ARG_MAX, execthrottle, pc, buf, held, argv, image, start, stdfds, execs>>

(***************************************************************************)
(* runprogram, in a process that has no files and no program yet.          *)
(***************************************************************************)
runprogram(p) ==
  /\ pc[p] = "new"
  /\ \/ pc' = Set(pc, p, "dead")                          \* filetable_create
     \/ pc' = Set(pc, p, "std")
  /\ UNCHANGED <<execthrottle, buf, held, argv, stdfds, execs, panic>> /\ Same

\* open_stdfds: placed_open of the next descriptor; then argbuf_fromkernel.
placed_open(p) ==
  /\ pc[p] = "std" /\ UNCHANGED <<execthrottle, argv, execs, panic>> /\ Same
  /\ \/ Return(p) /\ UNCHANGED <<buf, held>>
     \/ /\ Cardinality(stdfds[p]) < 3
        /\ stdfds' = Set(stdfds, p, stdfds[p] \union {Cardinality(stdfds[p])})
        /\ UNCHANGED <<pc, buf, held>>
     \/ /\ Cardinality(stdfds[p]) = 3
        /\ LET name == Text(1, argv[p][1].len)
           IN  buf' = Set(buf, p, [data |-> name, len |-> Len(name), max |-> Len(name), nargs |-> 1, tooksem |-> FALSE])
        /\ held' = Set(held, p, {"data"})
        /\ pc' = Set(pc, p, "load") /\ UNCHANGED stdfds

Init ==
  /\ ARG_MAX \in ArgMaxes
  /\ execthrottle = EXEC_BIGBUF_THROTTLE
  /\ pc = [p \in Proc |-> IF p \in Users THEN "user" ELSE "new"]
  /\ buf = [p \in Proc |-> argbuf_init]
  /\ held = [p \in Proc |-> {}]
  /\ argv = [p \in Proc |-> << [len |-> 1, bad |-> ""] >>]
  /\ image = [p \in Proc |-> IF p \in Users THEN 1 ELSE 0]
  /\ start = [p \in Proc |-> NotStarted]
  /\ stdfds = [p \in Proc |-> IF p \in Users THEN 0..2 ELSE {}]
  /\ execs = [p \in Proc |-> IF p \in Users THEN 0 ELSE MaxExecs]
  /\ panic = ""

Kernel(p) == \/ CopyPath(p) \/ argbuf_fromuser(p) \/ Throttle(p) \/ Big(p) \/ loadexec(p) \/ load_elf(p)
             \/ enter_new_process(p) \/ copyout_args_failed(p) \/ runprogram(p) \/ placed_open(p)
Next == panic = "" /\ \E p \in Proc : sys_execv(p) \/ Kernel(p)
Spec == Init /\ [][Next]_vars /\ \A p \in Proc : WF_vars(panic = "" /\ Kernel(p))

(***************************************************************************)
(* Properties                                                              *)
(***************************************************************************)
\* The text at an address of the stack, with its NUL.
ReadString(m, a) == LET n == CHOOSE k \in 0..(USERSTACK - a) : m[a + k] = 0 /\ \A i \in 0..(k - 1) : m[a + i] # 0
                    IN  [j \in 1..(n + 1) |-> m[a + j - 1]]

\* A program starts with the arguments it was given: argc is their number,
\* argv has that many pointers, aligned and followed by a NULL, to the same
\* texts (argbuf_copyin, argbuf_copyout); whatever passed the limit on the way
\* in fits the stack on the way out.
ArgsArrive ==
  /\ panic # "too large"
  /\ \A p \in Proc : start[p] # NotStarted =>
       LET s == start[p]
       IN  /\ s.argc = Len(s.given) /\ s.uargv % PTR = 0
           /\ \A i \in 1..s.argc : ReadString(s.stack, s.stack[s.uargv + (i - 1) * PTR]) = Text(i, s.given[i].len)
           /\ s.stack[s.uargv + s.argc * PTR] = NULL

\* However an exec ends, and wherever memory ran out, it has given back its
\* buffers, its file and its turn for a large buffer: the throttle's count and
\* the processes that hold it always add up.
ExecLeavesNothing ==
  /\ execthrottle + Cardinality({p \in Proc : buf[p].tooksem}) = EXEC_BIGBUF_THROTTLE
  /\ \A p \in Proc : pc[p] \in {"user", "dead"} =>
       held[p] = {} /\ ~buf[p].tooksem /\ (pc[p] = "dead" => stdfds[p] = {})

\* Every exec ends, those that wait for a large buffer included.
InKernel(p) == pc[p] \notin {"user", "dead"}
ExecsEnd == \A p \in Proc : InKernel(p) ~> (~InKernel(p) \/ panic # "")
=============================================================================
