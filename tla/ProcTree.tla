------------------------------ MODULE ProcTree ------------------------------
(***************************************************************************)
(* What fork, _exit and waitpid promise: a tree of processes named by      *)
(* their pids.  A process that has exited keeps its name and its status    *)
(* until its parent has waited for it or is gone; nothing here says how    *)
(* pids are chosen or where the processes are kept.                        *)
(***************************************************************************)
EXTENDS Integers

CONSTANTS
  Pid,       \* process ids
  Status,    \* exit statuses
  Kernel     \* the pid of the kernel, which never exits

Nobody == 0
Alive == "alive"

VARIABLE procs    \* pid -> its parent and whether it has exited

Names == DOMAIN procs
Child(parent) == [parent |-> parent, status |-> Alive]
Keeping(ps) == [p \in ps |-> procs[p]]
IsAlive(p) == p \in Names /\ procs[p].status = Alive

Init == procs = [p \in {Kernel} |-> Child(Nobody)]

(* A new process has a name nobody has.                                    *)
Fork(p, q) ==
  /\ IsAlive(p) /\ q \notin Names
  /\ procs' = [r \in Names \cup {q} |-> IF r = q THEN Child(p) ELSE procs[r]]

(* The fork comes to nothing: the child never ran.                         *)
Unfork(p, q) ==
  /\ IsAlive(q) /\ procs[q].parent = p
  /\ procs' = Keeping(Names \ {q})

(* The children of an exiting process are on their own, those that are     *)
(* dead are forgotten; its own status stays if it has a parent.            *)
Exit(p, s) ==
  LET after == [r \in Names |->
                  IF procs[r].parent = p THEN [procs[r] EXCEPT !.parent = Nobody]
                  ELSE IF r = p THEN [procs[r] EXCEPT !.status = s] ELSE procs[r]]
  IN  /\ IsAlive(p) /\ p # Kernel
      /\ procs' = [r \in {t \in Names : after[t].status = Alive \/ after[t].parent # Nobody}
                     |-> after[r]]

(* The parent learns the status, once.                                     *)
Wait(p, q, s) ==
  /\ IsAlive(p) /\ q \in Names
  /\ procs[q] = [parent |-> p, status |-> s] /\ s # Alive
  /\ procs' = Keeping(Names \ {q})

Next ==
  \E p, q \in Pid : \/ Fork(p, q) \/ Unfork(p, q)
                    \/ \E s \in Status : Exit(p, s) \/ Wait(p, q, s)

Spec == Init /\ [][Next]_procs
=============================================================================
