------------------------------- MODULE Files --------------------------------
(***************************************************************************)
(* File tables and open files (kern/syscall/filetable.c, openfile.c,       *)
(* file_syscalls.c).  A file table belongs to one process, which has one   *)
(* thread; open files are shared by dup2 and by fork, and with them the    *)
(* seek position.  A step is what is done under one spinlock of an open    *)
(* file, together with what the process does to its own table.             *)
(***************************************************************************)
EXTENDS Integers, Sequences, FiniteSets, FiniteSetsExt

CONSTANTS
  Proc, First,      \* processes, and the one there is at first
  File,             \* open file structures
  Vnode, Seekable,  \* vnodes, and those that are seekable
  OPEN_MAX,
  MaxOffset,        \* bound on offsets
  Null

FD == 0 .. OPEN_MAX - 1

(* What the constants must satisfy.                                        *)
FilesConstants ==
  /\ First \in Proc /\ Seekable \subseteq Vnode
  /\ OPEN_MAX \in Nat /\ MaxOffset \in Nat
  /\ Null \notin Proc /\ Null \notin File /\ Null \notin Vnode

VARIABLES
  ft,          \* per process: its table
  exists,      \* per process: whether there is such a process
  of,          \* per open file: its reference count, vnode, mode and offset
  offsetlock,  \* per open file: the process that holds it
  opens,       \* per vnode: opens not yet closed (the vfs layer's count)
  todo,        \* per process: what is left of its system call
  io           \* per process: the read or write it is in

vars == <<ft, exists, of, offsetlock, opens, todo, io>>

Mode == {"O_RDONLY", "O_WRONLY", "O_RDWR"}
Free == [refs |-> 0, vn |-> Null, mode |-> "O_RDONLY", offset |-> 0]
NoIO == [file |-> Null, pos |-> 0, rw |-> "read"]
Empty == [fd \in FD |-> Null]

(* What may be left of a call: to place a new file, to drop a reference,   *)
(* to destroy a file, to share one with a child, to close one at exit.     *)
Item == [op : {"place", "decref", "destroy"}, file : File]
          \cup [op : {"share"}, child : Proc, fd : FD]
          \cup [op : {"close"}, fd : FD]

TypeOK ==
  /\ ft \in [Proc -> [FD -> File \cup {Null}]]
  /\ exists \in [Proc -> BOOLEAN]
  /\ of \in [File -> [refs : Nat, vn : Vnode \cup {Null}, mode : Mode, offset : 0 .. MaxOffset]]
  /\ offsetlock \in [File -> Proc \cup {Null}]
  /\ opens \in [Vnode -> Nat]
  /\ todo \in [Proc -> Seq(Item)]
  /\ io \in [Proc -> [file : File \cup {Null}, pos : 0 .. MaxOffset, rw : {"read", "write"}]]

Init ==
  /\ ft = [p \in Proc |-> Empty]
  /\ exists = [p \in Proc |-> p = First]
  /\ of = [f \in File |-> Free] /\ offsetlock = [f \in File |-> Null]
  /\ opens = [v \in Vnode |-> 0]
  /\ todo = [p \in Proc |-> <<>>] /\ io = [p \in Proc |-> NoIO]

Ready(p) == exists[p] /\ todo[p] = <<>> /\ io[p] = NoIO

(* filetable_get finds a file at fd.                                       *)
filetable_get(p, fd) == Ready(p) /\ ft[p][fd] # Null

IsNext(p, op) == todo[p] # <<>> /\ Head(todo[p]).op = op

-----------------------------------------------------------------------------
(* Reference counts.  Mutant: the test is off by one.                      *)
AmongLast(f) == of[f].refs <= 2
IsLast(f) == of[f].refs = 1

openfile_incref(f) == of' = [of EXCEPT ![f].refs = @ + 1]

(* p drops a reference to f, with rest still to do.  The lock is released  *)
(* before the file is destroyed.                                           *)
openfile_decref(p, f, rest) ==
  IF IsLast(f)
  THEN /\ todo' = [todo EXCEPT ![p] = <<[op |-> "destroy", file |-> f]>> \o rest]
       /\ UNCHANGED of
  ELSE /\ of' = [of EXCEPT ![f].refs = @ - 1]
       /\ todo' = [todo EXCEPT ![p] = rest]

openfile_destroy(p) ==
  LET f == Head(todo[p]).file IN
  /\ IsNext(p, "destroy")
  /\ opens' = [opens EXCEPT ![of[f].vn] = @ - 1]
  /\ of' = [of EXCEPT ![f] = Free]
  /\ todo' = [todo EXCEPT ![p] = Tail(@)]
  /\ UNCHANGED <<ft, exists, offsetlock, io>>

decref_later(p) ==
  /\ IsNext(p, "decref")
  /\ openfile_decref(p, Head(todo[p]).file, Tail(todo[p]))
  /\ UNCHANGED <<ft, exists, offsetlock, opens, io>>

-----------------------------------------------------------------------------
(* open: vfs_open succeeds, then openfile_create does or does not.         *)
openfile_open(p, f, v, mode) ==
  /\ Ready(p) /\ of[f] = Free
  /\ of' = [of EXCEPT ![f] = [refs |-> 1, vn |-> v, mode |-> mode, offset |-> 0]]
  /\ opens' = [opens EXCEPT ![v] = @ + 1]
  /\ todo' = [todo EXCEPT ![p] = <<[op |-> "place", file |-> f]>>]
  /\ UNCHANGED <<ft, exists, offsetlock, io>>

(* The smallest free descriptor, or the file is closed again.  Mutant: it  *)
(* is not.                                                                 *)
LeakFile(p, f) == todo' = [todo EXCEPT ![p] = Tail(@)] /\ UNCHANGED of
DropFile(p, f) == openfile_decref(p, f, Tail(todo[p]))

filetable_place(p) ==
  LET f == Head(todo[p]).file
      free == {fd \in FD : ft[p][fd] = Null}
  IN  /\ IsNext(p, "place")
      /\ \/ /\ free # {}
            /\ ft' = [ft EXCEPT ![p][Min(free)] = f]
            /\ todo' = [todo EXCEPT ![p] = Tail(@)]
            /\ UNCHANGED of
         \/ free = {} /\ DropFile(p, f) /\ UNCHANGED ft
      /\ UNCHANGED <<exists, offsetlock, opens, io>>

sys_close(p, fd) ==
  /\ filetable_get(p, fd)
  /\ ft' = [ft EXCEPT ![p][fd] = Null]
  /\ openfile_decref(p, ft[p][fd], <<>>)
  /\ UNCHANGED <<exists, offsetlock, opens, io>>

(* What dup2 has left to do with the file it replaces.                     *)
Replaced(file) == IF file = Null THEN <<>> ELSE <<[op |-> "decref", file |-> file]>>

sys_dup2(p, oldfd, newfd) ==
  /\ oldfd # newfd /\ filetable_get(p, oldfd)
  /\ openfile_incref(ft[p][oldfd])
  /\ ft' = [ft EXCEPT ![p][newfd] = ft[p][oldfd]]
  /\ todo' = [todo EXCEPT ![p] = Replaced(ft[p][newfd])]
  /\ UNCHANGED <<exists, offsetlock, opens, io>>

-----------------------------------------------------------------------------
(* read and write.  The position is locked, if the file has one.           *)
IsSeekable(f) == of[f].vn \in Seekable

(* Mutant: nobody waits for the lock.                                      *)
AlwaysFree(f) == TRUE
LockFree(f) == offsetlock[f] = Null

sys_readwrite(p, fd, rw) ==
  LET f == ft[p][fd] IN
  /\ filetable_get(p, fd)
  /\ IsSeekable(f) => LockFree(f)
  /\ offsetlock' = IF IsSeekable(f) THEN [offsetlock EXCEPT ![f] = p] ELSE offsetlock
  /\ io' = [io EXCEPT ![p] = [file |-> f, pos |-> IF IsSeekable(f) THEN of[f].offset ELSE 0,
                              rw |-> rw]]
  /\ UNCHANGED <<ft, exists, of, opens, todo>>

BadMode(rw) == IF rw = "read" THEN "O_WRONLY" ELSE "O_RDONLY"
Unlocked(f) == IF IsSeekable(f) THEN [offsetlock EXCEPT ![f] = Null] ELSE offsetlock

(* n bytes are read or written from the position.                          *)
readwrite_done(p, n) ==
  LET f == io[p].file IN
  /\ f # Null /\ of[f].mode # BadMode(io[p].rw) /\ io[p].pos + n <= MaxOffset
  /\ of' = IF IsSeekable(f) THEN [of EXCEPT ![f].offset = io[p].pos + n] ELSE of
  /\ offsetlock' = Unlocked(f)
  /\ io' = [io EXCEPT ![p] = NoIO]
  /\ UNCHANGED <<ft, exists, opens, todo>>

(* The wrong mode, or an error of the file system.                         *)
readwrite_fails(p) ==
  LET f == io[p].file IN
  /\ f # Null
  /\ offsetlock' = Unlocked(f)
  /\ io' = [io EXCEPT ![p] = NoIO]
  /\ UNCHANGED <<ft, exists, of, opens, todo>>

(* Mutant: any position will do.                                           *)
AnyPosition(pos) == TRUE
ValidPosition(pos) == pos >= 0

(* lseek from the start, the position, or the end, which the file system   *)
(* is asked for.                                                           *)
sys_lseek(p, fd, whence, size, offset) ==
  LET f == ft[p][fd]
      pos == offset + (CASE whence = "SEEK_SET" -> 0
                         [] whence = "SEEK_CUR" -> of[f].offset
                         [] whence = "SEEK_END" -> size)
  IN  /\ filetable_get(p, fd) /\ IsSeekable(f) /\ LockFree(f)
      /\ ValidPosition(pos) /\ pos <= MaxOffset
      /\ of' = [of EXCEPT ![f].offset = pos]
      /\ UNCHANGED <<ft, exists, offsetlock, opens, todo, io>>

-----------------------------------------------------------------------------
(* fork gives the child a table with the same files, one after the other.  *)
filetable_copy(p, q) ==
  /\ Ready(p) /\ ~exists[q] /\ todo[q] = <<>>
  /\ \A r \in Proc : \A k \in 1 .. Len(todo[r]) : todo[r][k].op = "share" => todo[r][k].child # q
  /\ ft' = [ft EXCEPT ![q] = Empty]
  /\ todo' = [todo EXCEPT ![p] = [k \in 1 .. OPEN_MAX |-> [op |-> "share", child |-> q, fd |-> k - 1]]]
  /\ UNCHANGED <<exists, of, offsetlock, opens, io>>

share_entry(p) ==
  LET item == Head(todo[p])
      f == ft[p][item.fd]
  IN  /\ IsNext(p, "share")
      /\ IF f = Null THEN UNCHANGED of ELSE openfile_incref(f)
      /\ ft' = [ft EXCEPT ![item.child][item.fd] = f]
      /\ todo' = [todo EXCEPT ![p] = Tail(@)]
      /\ exists' = [exists EXCEPT ![item.child] = Len(todo[p]) = 1]
      /\ UNCHANGED <<offsetlock, opens, io>>

(* An exiting process drops its table, entry by entry.                     *)
filetable_destroy(p) ==
  /\ Ready(p) /\ p # First
  /\ exists' = [exists EXCEPT ![p] = FALSE]
  /\ todo' = [todo EXCEPT ![p] = [k \in 1 .. OPEN_MAX |-> [op |-> "close", fd |-> k - 1]]]
  /\ UNCHANGED <<ft, of, offsetlock, opens, io>>

close_entry(p) ==
  LET f == ft[p][Head(todo[p]).fd] IN
  /\ IsNext(p, "close")
  /\ IF f = Null THEN todo' = [todo EXCEPT ![p] = Tail(@)] /\ UNCHANGED of
     ELSE openfile_decref(p, f, Tail(todo[p]))
  /\ ft' = [ft EXCEPT ![p][Head(todo[p]).fd] = Null]
  /\ UNCHANGED <<exists, offsetlock, opens, io>>

-----------------------------------------------------------------------------
Next ==
  \E p \in Proc :
    \/ \E f \in File, v \in Vnode, mode \in Mode : openfile_open(p, f, v, mode)
    \/ \E fd \in FD : \/ sys_close(p, fd)
                      \/ \E newfd \in FD : sys_dup2(p, fd, newfd)
                      \/ \E rw \in {"read", "write"} : sys_readwrite(p, fd, rw)
                      \/ \E whence \in {"SEEK_SET", "SEEK_CUR", "SEEK_END"}, size \in 0 .. MaxOffset,
                            offset \in -1 .. MaxOffset : sys_lseek(p, fd, whence, size, offset)
    \/ \E n \in 0 .. MaxOffset : readwrite_done(p, n)
    \/ \E q \in Proc : filetable_copy(p, q)
    \/ filetable_place(p) \/ openfile_destroy(p) \/ decref_later(p) \/ readwrite_fails(p)
    \/ share_entry(p) \/ filetable_destroy(p) \/ close_entry(p)

Spec == Init /\ [][Next]_vars

-----------------------------------------------------------------------------
Entries(f) == {<<p, fd>> \in Proc \X FD : ft[p][fd] = f}
Pending(f) == {p \in Proc : todo[p] # <<>> /\ Head(todo[p]).op \in {"place", "decref", "destroy"}
                             /\ Head(todo[p]).file = f}

(* The reference count of an open file is the number of table entries and  *)
(* of calls that hold it, through fork, dup2, exit and failing calls: none *)
(* is freed while in a table, and none is left when nobody has it.  Every  *)
(* vfs_open is balanced by one vfs_close.                                  *)
RefsExact ==
  /\ \A f \in File : /\ of[f].refs = Cardinality(Entries(f)) + Cardinality(Pending(f))
                     /\ of[f].refs = 0 => of[f] = Free
  /\ \A v \in Vnode : opens[v] = Cardinality({f \in File : of[f].vn = v})

(* A read or write ends at the position it began at, whoever else has the  *)
(* file: no two overlap, and no lseek falls into one.                      *)
PositionHeld ==
  \A p \in Proc : io[p] # NoIO /\ IsSeekable(io[p].file) =>
    offsetlock[io[p].file] = p /\ of[io[p].file].offset = io[p].pos

(* A file is destroyed when nobody is in it: lock_destroy asserts that the *)
(* lock is free, and the reference is the only one.                        *)
DestroyedUnused ==
  \A p \in Proc : IsNext(p, "destroy") =>
    LET f == Head(todo[p]).file IN
    of[f].refs = 1 /\ offsetlock[f] = Null /\ Entries(f) = {} /\ \A q \in Proc : io[q].file # f
=============================================================================
