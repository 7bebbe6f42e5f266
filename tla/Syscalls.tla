------------------------------ MODULE Syscalls ------------------------------
(***************************************************************************)
(* The system calls as a user program sees them: which error a call gives, *)
(* in the order in which the kernel checks its arguments, and what it      *)
(* changes.  A call is a tuple <<name, arguments>>; syscall(k, p, c) is    *)
(* the set of outcomes [k, err, rv] of call c by process p in the kernel   *)
(* state k, and is empty while the call blocks.  What goes on inside the   *)
(* calls of several processes at once is in the modules of the components. *)
(*                                                                         *)
(* k.vol is the file system of the current directory, an emufs or an SFS;  *)
(* pointers are valid ("ptr") or one of BadPointers.                       *)
(***************************************************************************)
EXTENDS Integers, Sequences, FiniteSetsExt, TLC

CONSTANT OPEN_MAX

BadPointers == {"NULL", "INVAL_PTR", "KERN_PTR"}

Put(f, x, v) == (x :> v) @@ f
Drop(f, S)   == [x \in DOMAIN f \ S |-> f[x]]
Unused(f, lo) == Min((lo..(lo + Cardinality(DOMAIN f))) \ DOMAIN f)

\* The objects that are always there: the console, null: and the directory.
Console == 0
Null    == 1
Dot     == 2
Object(kind, size, data) == [kind |-> kind, size |-> size, data |-> data]

\* At the start of a program its three files are the console.
open_stdfds(p, vol) ==
  [vol   |-> vol,
   names |-> <<>>,
   objs  |-> Console :> Object("dev", 0, <<>>) @@ Null :> Object("dev", 0, <<>>)
             @@ Dot :> Object("dir", 0, <<>>),
   ofs   |-> 1 :> [obj |-> Console, mode |-> "O_RDONLY", off |-> 0]
             @@ 2 :> [obj |-> Console, mode |-> "O_WRONLY", off |-> 0]
             @@ 3 :> [obj |-> Console, mode |-> "O_WRONLY", off |-> 0],
   fds   |-> p :> (0 :> 1 @@ 1 :> 2 @@ 2 :> 3),
   procs |-> p :> [parent |-> 0, exited |-> FALSE, status |-> 0]]

Fails(k, err) == {[k |-> k, err |-> err, rv |-> 0 - 1]}
Returns(k, rv) == {[k |-> k, err |-> "OK", rv |-> rv]}
\* A KASSERT does not hold.
Panics(k) == Fails(k, "panic")

\* copycheck stops a kernel pointer; a fault on another one that is not
\* mapped ends in copyfail.
copyin(ptr)    == IF ptr \in BadPointers THEN "EFAULT" ELSE "OK"
copyout(ptr)   == IF ptr \in BadPointers THEN "EFAULT" ELSE "OK"
copyinstr(ptr) == IF ptr \in BadPointers THEN "EFAULT" ELSE "OK"

(***************************************************************************)
(* Paths.  Neither file system keeps "." in the directory; the host of an  *)
(* emufs knows it.                                                         *)
(***************************************************************************)
vfs_lookup(k, path) ==
  CASE path = ""               -> [err |-> "EINVAL", obj |-> 0]
    [] path = "null:"          -> [err |-> "OK", obj |-> Null]
    [] path \in DOMAIN k.names -> [err |-> "OK", obj |-> k.names[path]]
    [] path = "." /\ k.vol = "emu" -> [err |-> "OK", obj |-> Dot]
    [] OTHER                   -> [err |-> "ENOENT", obj |-> 0]

\* The directory of a path is that of the semaphores or the current one.
vfs_lookparent(path) == IF path \in {"", "null:"} THEN "EINVAL" ELSE "OK"

IsSem(path) == path = "sem:badcall"

\* vn_fs of a path's directory, and of an object: a device has none.
DirFs(k, path) == IF IsSem(path) THEN "semfs" ELSE k.vol
vn_fs(k, o) == CASE k.objs[o].kind = "dev" -> "NULL"
                 [] k.objs[o].kind = "sem" -> "semfs"
                 [] OTHER                  -> k.vol

\* The operations that a directory's table answers with ENOSYS.
Nosys(k, path) ==
  CASE IsSem(path)   -> {"mkdir", "link", "rmdir", "rename"}
    [] k.vol = "emu" -> {"mkdir", "link", "remove", "rmdir", "rename"}
    [] k.vol = "sfs" -> {"mkdir", "rmdir", "getdirentry"}

\* An object without a name or an open file is gone.
Reclaimed(k) ==
  LET ofs == [f \in {k.fds[p][d] : <<p, d>> \in
                      UNION {{p} \X DOMAIN k.fds[p] : p \in DOMAIN k.fds}} |-> k.ofs[f]]
      used == {ofs[f].obj : f \in DOMAIN ofs} \cup {k.names[n] : n \in DOMAIN k.names}
                \cup {Console, Null, Dot}
  IN  [k EXCEPT !.ofs = ofs, !.objs = [o \in used |-> @[o]]]

vfs_remove(k, path) ==
  CASE vfs_lookparent(path) # "OK"      -> Fails(k, vfs_lookparent(path))
    [] "remove" \in Nosys(k, path)      -> Fails(k, "ENOSYS")
    [] path \notin DOMAIN k.names       -> Fails(k, "ENOENT")
    [] OTHER -> Returns(Reclaimed([k EXCEPT !.names = Drop(@, {path})]), 0)

vfs_rename(k, old, new) ==
  CASE vfs_lookparent(old) # "OK"       -> Fails(k, vfs_lookparent(old))
    [] vfs_lookparent(new) # "OK"       -> Fails(k, vfs_lookparent(new))
    [] DirFs(k, old) # DirFs(k, new)    -> Fails(k, "EXDEV")
    [] "rename" \in Nosys(k, old)       -> Fails(k, "ENOSYS")
    [] old \notin DOMAIN k.names        -> Fails(k, "ENOENT")
    [] new \in DOMAIN k.names           -> Fails(k, "EEXIST")
    [] OTHER -> Returns([k EXCEPT !.names = Put(Drop(@, {old}), new, k.names[old])], 0)

vfs_link(k, old, new) ==
  LET found == vfs_lookup(k, old)
  IN  CASE found.err # "OK"                     -> Fails(k, found.err)
        [] vfs_lookparent(new) # "OK"           -> Fails(k, vfs_lookparent(new))
        [] vn_fs(k, found.obj) # DirFs(k, new)  -> Fails(k, "EXDEV")
        [] "link" \in Nosys(k, new)             -> Fails(k, "ENOSYS")
        [] k.objs[found.obj].kind = "dir"       -> Fails(k, "EINVAL")
        [] new \in DOMAIN k.names               -> Fails(k, "EEXIST")
        [] OTHER -> Returns([k EXCEPT !.names = Put(@, new, found.obj)], 0)

\* Neither file system can make or remove a directory.
vfs_mkdir(k, path) ==
  Fails(k, IF vfs_lookparent(path) # "OK" THEN vfs_lookparent(path) ELSE "ENOSYS")
vfs_rmdir(k, path) ==
  Fails(k, IF vfs_lookparent(path) # "OK" THEN vfs_lookparent(path) ELSE "ENOSYS")

vfs_chdir(k, path) ==
  LET found == vfs_lookup(k, path)
  IN  CASE found.err # "OK"                 -> Fails(k, found.err)
        [] k.objs[found.obj].kind # "dir"   -> Fails(k, "ENOTDIR")
        [] OTHER                            -> Returns(k, 0)

VOP_CREAT(k, path) ==
  LET o == Unused(k.objs, 3)
  IN  IF path \in DOMAIN k.names THEN [k |-> k, obj |-> k.names[path]]
      ELSE [k |-> [k EXCEPT !.names = Put(@, path, o),
                            !.objs  = Put(@, o, Object(IF IsSem(path) THEN "sem"
                                                       ELSE "file", 0, <<>>))],
            obj |-> o]

VOP_TRUNCATE(k, o, len) == [k EXCEPT !.objs[o].size = len,
                                     !.objs[o].data = IF len = 0 THEN <<>> ELSE @]

Accmode(flags) == CHOOSE m \in {"O_RDONLY", "O_WRONLY", "O_RDWR"} : m \in flags

\* openfile_open on the object that vfs_open has found or made.
filetable_place(k, p, o, flags) ==
  LET free == (0..(OPEN_MAX - 1)) \ DOMAIN k.fds[p]
      f    == Unused(k.ofs, 1)
      k1   == IF "O_TRUNC" \in flags THEN VOP_TRUNCATE(k, o, 0) ELSE k
  IN  IF free = {} THEN Fails(Reclaimed(k1), "EMFILE")
      ELSE Returns([k1 EXCEPT !.ofs = Put(@, f, [obj |-> o, mode |-> Accmode(flags),
                                                 off |-> 0]),
                              !.fds[p] = Put(@, Min(free), f)], Min(free))

vfs_open(k, p, path, flags) ==
  LET found == vfs_lookup(k, path)
      made  == VOP_CREAT(k, path)
      Writes == Accmode(flags) # "O_RDONLY"
  IN  IF "O_CREAT" \in flags
      THEN IF vfs_lookparent(path) # "OK" THEN Fails(k, vfs_lookparent(path))
           ELSE IF "O_TRUNC" \in flags /\ ~Writes THEN Fails(made.k, "EINVAL")
           ELSE filetable_place(made.k, p, made.obj, flags)
      ELSE CASE found.err # "OK" -> Fails(k, found.err)
             [] k.objs[found.obj].kind = "dir" /\ Writes -> Fails(k, "EISDIR")
             [] k.objs[found.obj].kind = "dev" /\ "O_TRUNC" \in flags -> Fails(k, "EINVAL")
             [] "O_TRUNC" \in flags /\ ~Writes -> Fails(k, "EINVAL")
             [] OTHER -> filetable_place(k, p, found.obj, flags)

(***************************************************************************)
(* The file calls.                                                         *)
(***************************************************************************)
filetable_get(k, p, fd) == IF fd \in DOMAIN k.fds[p] THEN "OK" ELSE "EBADF"
filetable_okfd(fd) == fd \in 0..(OPEN_MAX - 1)
OpenFile(k, p, fd) == k.ofs[k.fds[p][fd]]
ObjectOf(k, p, fd) == k.objs[OpenFile(k, p, fd).obj]
VOP_ISSEEKABLE(o)  == o.kind \in {"file", "dir"}

\* A path call whose kmalloc of the buffer fails gives ENOMEM.
sys_open(k, p, path, flags) ==
  CASE "badflags" \in flags        -> Fails(k, "EINVAL")
    [] copyinstr(path) # "OK"      -> Fails(k, copyinstr(path))
    [] OTHER                       -> vfs_open(k, p, path, flags)

\* A file's data is what was written to it last, at its beginning.
VOP_READ(k, p, fd, buf, size) ==
  LET file == OpenFile(k, p, fd)
      o    == k.objs[file.obj]
      n    == Max({0, Min({size, o.size - file.off})})
  IN  CASE o.kind = "dir"  -> Fails(k, "EISDIR")
        [] o.kind = "sem"  -> IF o.size = 0 THEN {}
                              ELSE Returns([k EXCEPT !.objs[file.obj].size = @ - size], size)
        [] o.kind = "dev"  -> Returns(k, 0)
        [] OTHER -> IF n > 0 /\ copyout(buf) # "OK" THEN Fails(k, copyout(buf))
                    ELSE Returns([k EXCEPT !.ofs[k.fds[p][fd]].off = @ + n], n)

VOP_WRITE(k, p, fd, buf, size, data) ==
  LET file == OpenFile(k, p, fd)
      o    == k.objs[file.obj]
  IN  CASE o.kind = "dir"  -> Fails(k, "EISDIR")
        [] o.kind = "sem"  -> Returns([k EXCEPT !.objs[file.obj].size = @ + size], size)
        [] o.kind = "dev"  -> Returns(k, size)
        [] OTHER -> IF copyin(buf) # "OK" THEN Fails(k, copyin(buf))
                    ELSE Returns([k EXCEPT !.objs[file.obj].size = Max({@, file.off + size}),
                                           !.objs[file.obj].data = data,
                                           !.ofs[k.fds[p][fd]].off = @ + size], size)

sys_read(k, p, fd, buf, size) ==
  CASE filetable_get(k, p, fd) # "OK"          -> Fails(k, "EBADF")
    [] OpenFile(k, p, fd).mode = "O_WRONLY"    -> Fails(k, "EBADF")
    [] OTHER                                   -> VOP_READ(k, p, fd, buf, size)

sys_write(k, p, fd, buf, size, data) ==
  CASE filetable_get(k, p, fd) # "OK"          -> Fails(k, "EBADF")
    [] OpenFile(k, p, fd).mode = "O_RDONLY"    -> Fails(k, "EBADF")
    [] OTHER                                   -> VOP_WRITE(k, p, fd, buf, size, data)

sys_close(k, p, fd) ==
  IF ~filetable_okfd(fd) \/ fd \notin DOMAIN k.fds[p] THEN Fails(k, "EBADF")
  ELSE Returns(Reclaimed([k EXCEPT !.fds[p] = Drop(@, {fd})]), 0)

sys_lseek(k, p, fd, offset, whence) ==
  LET base == CASE whence = "SEEK_SET" -> 0
                [] whence = "SEEK_CUR" -> OpenFile(k, p, fd).off
                [] whence = "SEEK_END" -> ObjectOf(k, p, fd).size
  IN  CASE filetable_get(k, p, fd) # "OK"                     -> Fails(k, "EBADF")
        [] ~VOP_ISSEEKABLE(ObjectOf(k, p, fd))                -> Fails(k, "ESPIPE")
        [] whence \notin {"SEEK_SET", "SEEK_CUR", "SEEK_END"} -> Fails(k, "EINVAL")
        [] base + offset < 0                                  -> Fails(k, "EINVAL")
        [] OTHER -> Returns([k EXCEPT !.ofs[k.fds[p][fd]].off = base + offset],
                            base + offset)

\* Mutant: the new descriptor may be anything.
AnyNewfd(k, p, oldfd, newfd) ==
  CASE oldfd = newfd                           -> Returns(k, newfd)
    [] filetable_get(k, p, oldfd) # "OK"       -> Fails(k, "EBADF")
    [] OTHER -> Returns(Reclaimed([k EXCEPT !.fds[p] = Put(@, newfd, @[oldfd])]), newfd)

\* A descriptor is a copy of itself, open or not.
sys_dup2(k, p, oldfd, newfd) ==
  CASE ~filetable_okfd(newfd)                  -> Fails(k, "EBADF")
    [] oldfd = newfd                           -> Returns(k, newfd)
    [] filetable_get(k, p, oldfd) # "OK"       -> Fails(k, "EBADF")
    [] OTHER -> Returns(Reclaimed([k EXCEPT !.fds[p] = Put(@, newfd, @[oldfd])]), newfd)

sys_chdir(k, path) ==
  IF copyinstr(path) # "OK" THEN Fails(k, copyinstr(path)) ELSE vfs_chdir(k, path)

sys___getcwd(k, buf) ==
  IF copyout(buf) # "OK" THEN Fails(k, copyout(buf)) ELSE Returns(k, 1)

sys_mkdir(k, path) ==
  IF copyinstr(path) # "OK" THEN Fails(k, copyinstr(path)) ELSE vfs_mkdir(k, path)
sys_rmdir(k, path) ==
  IF copyinstr(path) # "OK" THEN Fails(k, copyinstr(path)) ELSE vfs_rmdir(k, path)
sys_remove(k, path) ==
  IF copyinstr(path) # "OK" THEN Fails(k, copyinstr(path)) ELSE vfs_remove(k, path)
sys_link(k, old, new) ==
  IF "EFAULT" \in {copyinstr(old), copyinstr(new)} THEN Fails(k, "EFAULT")
  ELSE vfs_link(k, old, new)
sys_rename(k, old, new) ==
  IF "EFAULT" \in {copyinstr(old), copyinstr(new)} THEN Fails(k, "EFAULT")
  ELSE vfs_rename(k, old, new)

\* An open directory, which is always that of an emufs, has an entry to read.
sys_getdirentry(k, p, fd, buf) ==
  CASE filetable_get(k, p, fd) # "OK"          -> Fails(k, "EBADF")
    [] ~VOP_ISSEEKABLE(ObjectOf(k, p, fd))     -> Panics(k)
    [] OpenFile(k, p, fd).mode = "O_WRONLY"    -> Fails(k, "EBADF")
    [] ObjectOf(k, p, fd).kind # "dir"         -> Fails(k, "ENOTDIR")
    [] copyout(buf) # "OK"                     -> Fails(k, copyout(buf))
    [] OTHER                                   -> Returns(k, 1)

sys_fstat(k, p, fd, statptr) ==
  CASE filetable_get(k, p, fd) # "OK"          -> Fails(k, "EBADF")
    [] copyout(statptr) # "OK"                 -> Fails(k, copyout(statptr))
    [] OTHER                                   -> Returns(k, 0)

sys_fsync(k, p, fd) ==
  CASE filetable_get(k, p, fd) # "OK"          -> Fails(k, "EBADF")
    [] ObjectOf(k, p, fd).kind = "dir"         -> Fails(k, "EISDIR")
    [] OTHER                                   -> Returns(k, 0)

sys_ftruncate(k, p, fd, len) ==
  CASE len < 0                                 -> Fails(k, "EINVAL")
    [] filetable_get(k, p, fd) # "OK"          -> Fails(k, "EBADF")
    [] OpenFile(k, p, fd).mode = "O_RDONLY"    -> Fails(k, "EBADF")
    [] ObjectOf(k, p, fd).kind = "dev"         -> Fails(k, "EINVAL")
    [] OTHER -> Returns(VOP_TRUNCATE(k, OpenFile(k, p, fd).obj, len), 0)

(***************************************************************************)
(* The process calls.                                                      *)
(***************************************************************************)
NewPid(k) == Unused(k.procs, 2)

\* The child has its parent's files; its trapframe is the parent's.
sys_fork(k, p) ==
  Returns([k EXCEPT !.procs = Put(@, NewPid(k), [parent |-> p, exited |-> FALSE,
                                                 status |-> 0]),
                    !.fds   = Put(@, NewPid(k), k.fds[p])], NewPid(k))

\* proc_exit: the children are disowned; a process without a parent is
\* forgotten when it ends.
sys__exit(k, p, status) ==
  LET children == {q \in DOMAIN k.procs : k.procs[q].parent = p}
      gone     == {q \in children : k.procs[q].exited}
                    \cup (IF k.procs[p].parent = 0 THEN {p} ELSE {})
      procs    == [q \in DOMAIN k.procs |->
                     [k.procs[q] EXCEPT !.parent = IF q \in children THEN 0 ELSE @,
                                        !.exited = @ \/ q = p,
                                        !.status = IF q = p THEN status ELSE @]]
  IN  Returns(Reclaimed([k EXCEPT !.procs = Drop(procs, gone),
                                  !.fds   = Drop(@, {p})]), 0)

WNOHANG == 1

\* Mutants: anyone may wait for a process; the child is not forgotten.
AnyoneMayWait(k, pid, p) == TRUE
KeepsZombie(k, pid) == k

IsChild(k, pid, p) == k.procs[pid].parent = p
Forgotten(k, pid) == [k EXCEPT !.procs = Drop(@, {pid})]

\* pid_wait, then the copyout of the status, which with WNOHANG and a child
\* that runs is whatever was on the stack.  The child is forgotten before its
\* status is stored.
sys_waitpid(k, p, pid, status, flags) ==
  LET Stores(k1, rv) == IF status # "NULL" /\ copyout(status) # "OK" THEN Fails(k1, copyout(status))
                        ELSE Returns(k1, rv)
  IN  CASE pid = p                       -> Fails(k, "EINVAL")
        [] pid <= 0                      -> Fails(k, "ENOSYS")
        [] flags \notin {0, WNOHANG}     -> Fails(k, "EINVAL")
        [] pid \notin DOMAIN k.procs     -> Fails(k, "ESRCH")
        [] ~IsChild(k, pid, p)           -> Fails(k, "EPERM")
        [] k.procs[pid].exited           -> Stores(Forgotten(k, pid), pid)
        [] flags = WNOHANG               -> Stores(k, 0)
        [] OTHER                         -> {}

\* The program's name, the argument array and the arguments are copied in
\* before anything is opened; a call that succeeds does not return.
sys_execv(k, prog, args, arg) ==
  CASE copyinstr(prog) # "OK"                  -> Fails(k, copyinstr(prog))
    [] copyin(args) # "OK"                     -> Fails(k, copyin(args))
    [] copyinstr(arg) # "OK"                   -> Fails(k, copyinstr(arg))
    [] vfs_lookup(k, prog).err # "OK"          -> Fails(k, vfs_lookup(k, prog).err)
    [] OTHER                                   -> {}

\* Both times are stored; a null pointer is not exempt.
sys___time(k, secs, nsecs) ==
  CASE copyout(secs) # "OK"                    -> Fails(k, copyout(secs))
    [] copyout(nsecs) # "OK"                   -> Fails(k, copyout(nsecs))
    [] OTHER                                   -> Returns(k, 0)

sys_reboot(k, code) ==
  IF code \in {"RB_REBOOT", "RB_HALT", "RB_POWEROFF"} THEN {} ELSE Fails(k, "EINVAL")

syscall(k, p, c) ==
  CASE c[1] = "open"        -> sys_open(k, p, c[2], c[3])
    [] c[1] = "read"        -> sys_read(k, p, c[2], c[3], c[4])
    [] c[1] = "write"       -> sys_write(k, p, c[2], c[3], c[4], c[5])
    [] c[1] = "close"       -> sys_close(k, p, c[2])
    [] c[1] = "lseek"       -> sys_lseek(k, p, c[2], c[3], c[4])
    [] c[1] = "dup2"        -> sys_dup2(k, p, c[2], c[3])
    [] c[1] = "chdir"       -> sys_chdir(k, c[2])
    [] c[1] = "__getcwd"    -> sys___getcwd(k, c[2])
    [] c[1] = "mkdir"       -> sys_mkdir(k, c[2])
    [] c[1] = "rmdir"       -> sys_rmdir(k, c[2])
    [] c[1] = "remove"      -> sys_remove(k, c[2])
    [] c[1] = "link"        -> sys_link(k, c[2], c[3])
    [] c[1] = "rename"      -> sys_rename(k, c[2], c[3])
    [] c[1] = "getdirentry" -> sys_getdirentry(k, p, c[2], c[3])
    [] c[1] = "fstat"       -> sys_fstat(k, p, c[2], c[3])
    [] c[1] = "fsync"       -> sys_fsync(k, p, c[2])
    [] c[1] = "ftruncate"   -> sys_ftruncate(k, p, c[2], c[3])
    [] c[1] = "fork"        -> sys_fork(k, p)
    [] c[1] = "_exit"       -> sys__exit(k, p, c[2])
    [] c[1] = "getpid"      -> Returns(k, p)
    [] c[1] = "waitpid"     -> sys_waitpid(k, p, c[2], c[3], c[4])
    [] c[1] = "execv"       -> sys_execv(k, c[2], c[3], c[4])
    [] c[1] = "__time"      -> sys___time(k, c[2], c[3])
    [] c[1] = "reboot"      -> sys_reboot(k, c[2])
    [] OTHER                -> Fails(k, "ENOSYS")

\* The outcomes of a call when a kmalloc in it fails: before it does
\* anything, and in open also when the file has been found or made.
NoMemory(k, p, c) ==
  IF c[1] \notin {"open", "chdir", "mkdir", "rmdir", "remove", "link", "rename",
                  "fork", "execv"} THEN {}
  ELSE Fails(k, "ENOMEM")
         \cup {[k |-> Reclaimed([o.k EXCEPT !.fds[p] = k.fds[p]]),
                err |-> "ENOMEM", rv |-> 0 - 1] :
                 o \in {o \in syscall(k, p, c) : c[1] = "open" /\ o.err = "OK"}}
=============================================================================
