--------------------------- MODULE MCFileSystems ----------------------------
(***************************************************************************)
(* Open files, the semaphore file system, and the VFS layer's names and    *)
(* vnodes, for TLC.  A behaviour is one of one of them; the variables of   *)
(* the others stay at Off.  Open file structures are interchangeable, so   *)
(* are child processes, and the threads and names of semfs.                *)
(***************************************************************************)
EXTENDS Integers, Sequences, TLC

CONSTANTS Proc, First, File,    \* of Files
          Thread, Name,         \* of Semfs
          Null

Alike == Permutations(File) \cup Permutations(Proc \ {First})
           \cup Permutations(Thread) \cup Permutations(Name)

VARIABLES which,
  ft, exists, of, offsetlock, opens, todo, io,   \* Files
  dents, sems, s_refs, cv, lock, dirlock, tablelock, s_file, pc, resid, slot, panicked,   \* Semfs
  knowndevs, booted, ref, bootfs, cwd, v_fd, hand, script, dying, swapped, down, ops,
  mounts   \* Vfs

Open == INSTANCE Files WITH
  Vnode <- {"disk", "console"}, Seekable <- {"disk"},
  OPEN_MAX <- 2, MaxOffset <- 1

Sem == INSTANCE Semfs WITH
  refs <- s_refs, file <- s_file, NSem <- 2, MaxUnit <- 2,
  UINT_MAX <- 3

Added(n, kind) == [name |-> n, kind |-> kind]
VfsBoot == <<Added("null", "dev"), Added("emu0", "fs"), Added("lhd0", "disk"),
             Added("lhd1", "disk"), Added("lhd0", "disk")>>
VfsLabel == [d \in {"lhd0", "lhd1"} |-> IF d = "lhd0" THEN "vol" ELSE "lhd0"]
Path(f, d, s) == [form |-> f, dev |-> d, sub |-> s]
Op(o, path, path2) == [op |-> o, path |-> path, path2 |-> path2]
NoPath == Path("", "", "")
VfsOps ==
  {Op("setbootfs", Path("device:", "vol", ""), NoPath),
   Op("chdir", Path("/", "", "dir"), NoPath), Op("chdir", Path("device:", "lhd1", ""), NoPath),
   Op("chdir", Path("device:", "null", ""), NoPath),
   Op("open", Path("device:", "vol", "file"), NoPath), Op("creat", Path(":", "", "file"), NoPath),
   Op("mkdir", Path("", "", "x"), NoPath),
   Op("rename", Path("device:", "vol", "file"), Path("device:", "emu0", "x")),
   Op("link", Path("device:", "vol", "file"), Path("/", "", "x"))}
Names == INSTANCE Vfs WITH
  fd <- v_fd, Proc <- {"kernel", "user"}, Boot <- VfsBoot,
  Label <- VfsLabel, Ops <- VfsOps, MaxOps <- 3, MaxMounts <- 2

ASSUME Open!FilesConstants /\ Sem!SemfsConstants

openVars == <<ft, exists, of, offsetlock, opens, todo, io>>
semVars == <<dents, sems, s_refs, cv, lock, dirlock, tablelock, s_file, pc, resid, slot,
             panicked>>
vfsVars == <<knowndevs, booted, ref, bootfs, cwd, v_fd, hand, script, dying, swapped,
             down, ops, mounts>>
vars == <<which, openVars, semVars, vfsVars>>

Off == "off"

Init ==
  /\ which \in {"files", "semfs", "vfs"}
  /\ IF which = "files" THEN Open!Init
     ELSE /\ ft = Off /\ exists = Off /\ of = Off /\ offsetlock = Off /\ opens = Off
          /\ todo = Off /\ io = Off
  /\ IF which = "semfs" THEN Sem!Init
     ELSE /\ dents = Off /\ sems = Off /\ s_refs = Off /\ cv = Off /\ lock = Off
          /\ dirlock = Off /\ tablelock = Off /\ s_file = Off /\ pc = Off /\ resid = Off
          /\ slot = Off /\ panicked = Off
  /\ IF which = "vfs" THEN Names!Init
     ELSE /\ knowndevs = Off /\ booted = Off /\ ref = Off /\ bootfs = Off /\ cwd = Off
          /\ v_fd = Off /\ hand = Off /\ script = Off /\ dying = Off /\ swapped = Off
          /\ down = Off /\ ops = Off /\ mounts = Off

Next ==
  /\ UNCHANGED which
  /\ IF which = "files" THEN Open!Next ELSE UNCHANGED openVars
  /\ IF which = "semfs" THEN Sem!Next ELSE UNCHANGED semVars
  /\ IF which = "vfs" THEN Names!Next ELSE UNCHANGED vfsVars

Spec == Init /\ [][Next]_vars

-----------------------------------------------------------------------------
(* The references to an open file are those of tables and calls in         *)
(* progress, through fork, dup2, exit and failing calls, and a file is     *)
(* destroyed when nobody is in it; a read or write ends at the position it *)
(* began at, whoever else has the file.                                    *)
OpenFilesExact ==
  which = "files" =>
    Open!TypeOK /\ Open!RefsExact /\ Open!DestroyedUnused /\ Open!PositionHeld

(* A vnode of semfs counts its users, and a semaphore is in the table as   *)
(* long as a name or a vnode refers to it.                                 *)
SemaphoresKept == which = "semfs" => Sem!TypeOK /\ Sem!VnodeRefsExact /\ Sem!KeptWhileUsed

(* Every vnode counts its references, through all error paths; none is     *)
(* unmounted under a user; what shutdown leaves mounted is in use.         *)
VnodesSound == which = "vfs" => Names!VnodesSound /\ Names!ShutdownUnmounts

(* A device's name, its raw name and a volume's label lead where the       *)
(* comment on struct knowndev says.                                        *)
NamesMean == which = "vfs" => Names!NamesMean
=============================================================================
