--------------------------------- MODULE Vfs ---------------------------------
(***************************************************************************)
(* The VFS layer: the list of named devices with what is mounted on them   *)
(* (vfslist.c), finding a vnode by its path (vfslookup.c), the current     *)
(* directories and the boot file system (vfscwd.c), the operations on      *)
(* paths (vfspath.c), the reference counts of vnodes (vnode.c), and        *)
(* shutting down (main.c).                                                 *)
(*                                                                         *)
(* vfs_biglock makes each operation on the list and each lookup one step.  *)
(* An operation on paths is several: between them the process has vnodes   *)
(* in hand and other processes run.  Every file system has a root, a       *)
(* directory and a file; what the file systems do with them is Sfs, Emu    *)
(* and Semfs.                                                              *)
(***************************************************************************)
EXTENDS Integers, Sequences, FiniteSets, SequencesExt, FiniteSetsExt

CONSTANTS
  Proc,           \* processes, the kernel's own among them
  Boot,           \* what is added at boot: a sequence of [name, kind]
  Label,          \* the volume label of the file system on each disk
  Ops,            \* the operations on paths that processes do: [op, path, path2]
  MaxOps, MaxMounts

None == <<"none">>
NoFs == "no fs"
SWAP == "swap"

(* A device: not mountable ("dev": null, con), mountable ("disk"), or a    *)
(* file system without a device ("fs": emu0, sem).                         *)
Raw(d) == d \o "raw"
DevVnode(d) == <<"dev", d>>
Node(f, n) == <<f, n>>
Names == {Boot[i].name : i \in DOMAIN Boot}
Vnode == {DevVnode(d) : d \in Names} \cup {Node(f, n) : f \in Names, n \in {"root", "dir", "file"}}

VARIABLES
  knowndevs,      \* [name, kind, fs]
  booted,         \* how many of Boot have been added
  ref,            \* vn_refcount; 0 when the vnode is not in memory
  bootfs,         \* bootfs_vnode
  cwd, fd,        \* p_cwd, and an open file, of each process
  hand,           \* the vnodes each process has in hand
  script,         \* what it has yet to do
  dying,          \* the vnode whose last reference it passes to VOP_RECLAIM
  swapped,        \* references given out by vfs_swapon
  down,           \* shutdown: which process, and what it found at the end
  ops, mounts

vars == <<knowndevs, booted, ref, bootfs, cwd, fd, hand, script, dying, swapped,
          down, ops, mounts>>

(* emu0 keeps a reference to its root.                                     *)
Permanent(v) == IF v[1] = "dev" \/ v = Node("emu0", "root") THEN 1 ELSE 0

Init ==
  /\ knowndevs = <<>> /\ booted = 0
  /\ ref = [v \in Vnode |-> 0]
  /\ bootfs = None
  /\ cwd = [p \in Proc |-> None] /\ fd = [p \in Proc |-> None]
  /\ hand = [p \in Proc |-> <<>>] /\ script = [p \in Proc |-> <<>>]
  /\ dying = [p \in Proc |-> None] /\ swapped = [d \in Names |-> 0]
  /\ down = [by |-> "nobody", stuck |-> {}, held |-> {}, failed |-> FALSE]
  /\ ops = 0 /\ mounts = 0

Up == down.by = "nobody" /\ booted = Len(Boot)
dirs == <<bootfs, cwd, fd, hand, script, dying>>

-----------------------------------------------------------------------------
(* The list of devices.                                                    *)

Mounted(kd) == kd.fs \notin {NoFs, SWAP}
volname(f) == IF f \in DOMAIN Label THEN Label[f] ELSE IF f = "sem" THEN "sem" ELSE "no name"
RawName(kd) == IF kd.kind = "disk" THEN Raw(kd.name) ELSE "no raw name"

AddsAnyway(names) == FALSE

(* badnames: any name of the new device is one of a known device's.        *)
badnames(names) ==
  \E i \in DOMAIN knowndevs :
    LET kd == knowndevs[i] IN
    names \cap ({kd.name, RawName(kd)} \cup IF Mounted(kd) THEN {volname(kd.fs)} ELSE {}) # {}

(* vfs_doadd, for vfs_adddev and vfs_addfs.                                *)
vfs_doadd ==
  /\ booted < Len(Boot)
  /\ booted' = booted + 1
  /\ LET b == Boot[booted + 1]
         kd == [name |-> b.name, kind |-> b.kind,
                fs |-> IF b.kind = "fs" THEN b.name ELSE NoFs]
         names == {kd.name} \cup (IF b.kind = "disk" THEN {Raw(b.name)} ELSE {})
                            \cup (IF b.kind = "fs" /\ volname(b.name) # "no name" THEN {volname(b.name)} ELSE {})
     IN \/ /\ ~badnames(names)
           /\ knowndevs' = Append(knowndevs, kd)
           /\ ref' = [v \in Vnode |-> IF v[2] = b.name \/ v[1] = b.name THEN Permanent(v) ELSE ref[v]]
        \/ badnames(names) /\ UNCHANGED <<knowndevs, ref>>
  /\ UNCHANGED <<swapped, down, ops, mounts>> /\ UNCHANGED dirs

(* What one known device makes of a name: vfs_getroot's tests in order.    *)
Names_(kd, name) ==
  CASE Mounted(kd) /\ (kd.name = name \/ volname(kd.fs) = name) -> <<"root", kd.fs>>
    [] ~Mounted(kd) /\ kd.kind = "disk" /\ kd.name = name -> <<"error", "ENXIO">>
    [] kd.name = name \/ RawName(kd) = name -> <<"dev", kd.name>>
    [] OTHER -> <<"next">>

vfs_getroot(name) ==
  LET hits == {i \in DOMAIN knowndevs : Names_(knowndevs[i], name) # <<"next">>}
  IN IF hits = {} THEN <<"error", "ENODEV">> ELSE Names_(knowndevs[Min(hits)], name)

RootVnode(r) == IF r[1] = "root" THEN Node(r[2], "root") ELSE DevVnode(r[2])

findmount(d) == {i \in DOMAIN knowndevs : knowndevs[i].kind = "disk" /\ knowndevs[i].name = d}

SetFs(i, f) == knowndevs' = [knowndevs EXCEPT ![i].fs = f]

vfs_mount(d) ==
  /\ Up /\ mounts < MaxMounts
  /\ \E i \in findmount(d) :
       /\ knowndevs[i].fs = NoFs
       /\ SetFs(i, d)
  /\ mounts' = mounts + 1
  /\ UNCHANGED <<booted, ref, swapped, down, ops>> /\ UNCHANGED dirs

vfs_swapon(d) ==
  /\ Up /\ mounts < MaxMounts
  /\ \E i \in findmount(d) :
       /\ knowndevs[i].fs = NoFs
       /\ SetFs(i, SWAP)
  /\ ref' = [ref EXCEPT ![DevVnode(d)] = @ + 1]
  /\ swapped' = [swapped EXCEPT ![d] = @ + 1]
  /\ mounts' = mounts + 1
  /\ UNCHANGED <<booted, down, ops>> /\ UNCHANGED dirs

(* The user of the swap drops its vnode and calls vfs_swapoff.             *)
vfs_swapoff(d) ==
  /\ Up
  /\ \E i \in findmount(d) : knowndevs[i].fs = SWAP /\ SetFs(i, NoFs)
  /\ ref' = [ref EXCEPT ![DevVnode(d)] = @ - 1]
  /\ swapped' = [swapped EXCEPT ![d] = @ - 1]
  /\ UNCHANGED <<booted, down, ops, mounts>> /\ UNCHANGED dirs

(* FSOP_UNMOUNT refuses while any vnode of the file system is in memory.   *)
Busy(f) == \E n \in {"root", "dir", "file"} : ref[Node(f, n)] > 0

(* vfs_unmount, when FSOP_SYNC succeeds.                                   *)
vfs_unmount(d) ==
  /\ Up
  /\ \E i \in findmount(d) :
       /\ Mounted(knowndevs[i]) /\ ~Busy(d)
       /\ SetFs(i, NoFs)
  /\ UNCHANGED <<booted, ref, swapped, down, ops, mounts>> /\ UNCHANGED dirs

-----------------------------------------------------------------------------
(* Paths: what they start from, and the rest: nothing, a directory, a file *)
(* or what does not exist.                                                 *)

Incref(r, v) == [r EXCEPT ![v] = @ + 1]

(* getdevice: the vnode to start from, by the form of the path.            *)
getdevice(p, path) ==
  CASE path.form = "device:" -> vfs_getroot(path.dev)
    [] path.form = "/" -> IF bootfs = None THEN <<"error", "ENOENT">> ELSE <<"vnode", bootfs>>
    [] path.form = ":" -> IF cwd[p] = None THEN <<"error", "ENOENT">> ELSE <<"root", cwd[p][1]>>
    [] path.form = "" -> IF cwd[p] = None THEN <<"error", "ENOENT">> ELSE <<"vnode", cwd[p]>>

StartVnode(s) == IF s[1] = "vnode" THEN s[2] ELSE RootVnode(s)

(* VOP_LOOKUP: a device has nothing below it, a directory has.             *)
VOP_LOOKUP(v, sub) ==
  IF v[1] # "dev" /\ sub \in {"dir", "file"} /\ v[2] # "file" THEN {Node(v[1], sub)} ELSE {}

(* vfs_lookup and vfs_lookparent: the references they leave are the        *)
(* results'; the one to where they started is given back before they       *)
(* return, unless it is the result.                                        *)
vfs_lookup(p, path) ==
  LET s == getdevice(p, path) IN
  IF s[1] = "error" THEN {}
  ELSE IF path.sub = "" THEN {StartVnode(s)}
  ELSE VOP_LOOKUP(StartVnode(s), path.sub)

vfs_lookparent(p, path) ==
  LET s == getdevice(p, path) IN
  IF s[1] = "error" \/ path.sub = "" THEN {}
  ELSE IF StartVnode(s)[1] = "dev" THEN {} ELSE {StartVnode(s)}

-----------------------------------------------------------------------------
(* The operations on paths, as what they do in order; a step that fails    *)
(* leads to "drop", which gives back what is in hand, last first.          *)

Script(o) ==
  CASE o.op = "open" -> <<"lookup", "eachopen">>
    [] o.op = "creat" -> <<"lookparent", "creat", "eachopen">>
    [] o.op = "chdir" -> <<"lookup", "setcwd", "drop">>
    [] o.op = "setbootfs" -> <<"lookup", "setcwd", "drop", "bootfs">>
    [] o.op \in {"remove", "mkdir", "rmdir", "symlink"} -> <<"lookparent", "vop", "drop">>
    [] o.op = "readlink" -> <<"lookup", "vop", "drop">>
    [] o.op = "rename" -> <<"lookparent", "lookparent2", "samefs", "vop", "drop">>
    [] o.op = "link" -> <<"lookup", "lookparent2", "samefs", "vop", "drop">>

(* vfs_setbootfs keeps vfs_biglock from its lookup on.                     *)
BiglockFree(p) ==
  \A q \in Proc \ {p} :
    ~\E i \in DOMAIN script[q] : script[q][i].step = "bootfs" /\ script[q][1].step # "lookup"

Ready(p) == Up /\ dying[p] = None
Doing(p, step) == Ready(p) /\ script[p] # <<>> /\ Head(script[p]).step = step
Rest(p) == [script EXCEPT ![p] = Tail(@)]
Fail(p) == [script EXCEPT ![p] = <<[step |-> "drop", o |-> Head(@).o]>>]

start(p, o) ==
  /\ Ready(p) /\ script[p] = <<>> /\ ops < MaxOps
  /\ ops' = ops + 1
  /\ script' = [script EXCEPT ![p] =
       [i \in DOMAIN Script(o) |-> [step |-> Script(o)[i], o |-> o]]]
  /\ UNCHANGED <<knowndevs, booted, ref, bootfs, cwd, fd, hand, dying, swapped, down, mounts>>

Look(p, found) ==
  /\ \/ \E v \in found :
          /\ ref' = Incref(ref, v)
          /\ hand' = [hand EXCEPT ![p] = Append(@, v)]
          /\ script' = Rest(p)
     \/ found = {} /\ script' = Fail(p) /\ UNCHANGED <<ref, hand>>
  /\ UNCHANGED <<knowndevs, booted, bootfs, cwd, fd, dying, swapped, down, ops, mounts>>

look(p) ==
  /\ BiglockFree(p)
  /\ \/ Doing(p, "lookup") /\ Look(p, vfs_lookup(p, Head(script[p]).o.path))
     \/ Doing(p, "lookparent") /\ Look(p, vfs_lookparent(p, Head(script[p]).o.path))
     \/ Doing(p, "lookparent2") /\ Look(p, vfs_lookparent(p, Head(script[p]).o.path2))

(* VOP_CREAT gives the file; the directory is given back.                  *)
creat(p) ==
  /\ Doing(p, "creat")
  /\ LET d == Last(hand[p])  v == Node(d[1], "file") IN
     \/ /\ ref' = Incref(ref, v)
        /\ hand' = [hand EXCEPT ![p] = <<v, d>>]
        /\ script' = [script EXCEPT ![p] = <<[step |-> "drop1", o |-> Head(@).o]>> \o Tail(@)]
     \/ script' = Fail(p) /\ UNCHANGED <<ref, hand>>
  /\ UNCHANGED <<knowndevs, booted, bootfs, cwd, fd, dying, swapped, down, ops, mounts>>

(* VOP_EACHOPEN, and VOP_TRUNCATE if asked for; then the caller has it, in *)
(* place of the file it had open, which vfs_close drops.                   *)
eachopen(p) ==
  /\ Doing(p, "eachopen")
  /\ \/ /\ fd' = [fd EXCEPT ![p] = hand[p][1]]
        /\ hand' = [hand EXCEPT ![p] = IF fd[p] = None THEN <<>> ELSE <<fd[p]>>]
        /\ script' = Fail(p)
     \/ script' = Fail(p) /\ UNCHANGED <<fd, hand>>
  /\ UNCHANGED <<knowndevs, booted, ref, bootfs, cwd, dying, swapped, down, ops, mounts>>

(* The file system does the operation, or fails; or the check in           *)
(* vfs_rename and vfs_link that both are of one file system.               *)
SameFs(p) == hand[p][1][1] = hand[p][2][1] /\ hand[p][1][1] # "dev"

vop(p) ==
  /\ \/ Doing(p, "vop") /\ script' = Rest(p)
     \/ Doing(p, "samefs") /\ script' = IF SameFs(p) THEN Rest(p) ELSE Fail(p)
  /\ UNCHANGED <<knowndevs, booted, ref, bootfs, cwd, fd, hand, dying, swapped, down, ops, mounts>>

(* vfs_setcurdir: only a directory; the old one is given back afterwards.  *)
vfs_setcurdir(p) ==
  /\ Doing(p, "setcwd")
  /\ LET v == Last(hand[p]) IN
     IF v[2] \in {"root", "dir"} /\ v[1] # "dev"
     THEN /\ ref' = Incref(ref, v)
          /\ cwd' = [cwd EXCEPT ![p] = v]
          /\ hand' = [hand EXCEPT ![p] = IF cwd[p] = None THEN @ ELSE Append(@, cwd[p])]
          /\ script' = Rest(p)
     ELSE script' = Fail(p) /\ UNCHANGED <<ref, cwd, hand>>
  /\ UNCHANGED <<knowndevs, booted, bootfs, fd, dying, swapped, down, ops, mounts>>

(* vfs_setbootfs: the new current directory is the boot file system.       *)
change_bootfs(p) ==
  /\ Doing(p, "bootfs")
  /\ bootfs' = cwd[p]
  /\ ref' = Incref(ref, cwd[p])
  /\ hand' = [hand EXCEPT ![p] = IF bootfs = None THEN @ ELSE Append(@, bootfs)]
  /\ script' = Fail(p)
  /\ UNCHANGED <<knowndevs, booted, cwd, fd, dying, swapped, down, ops, mounts>>

(* vnode_decref of the last in hand.                                       *)
vnode_decref(p) ==
  /\ Doing(p, "drop") \/ Doing(p, "drop1")
  /\ IF hand[p] = <<>> THEN script' = Rest(p) /\ UNCHANGED <<hand, ref, dying>>
     ELSE /\ hand' = [hand EXCEPT ![p] = Front(@)]
          /\ LET v == Last(hand[p]) IN
             IF ref[v] > 1 THEN ref' = [ref EXCEPT ![v] = @ - 1] /\ UNCHANGED dying
             ELSE dying' = [dying EXCEPT ![p] = v] /\ UNCHANGED ref
          /\ script' = IF Doing(p, "drop1") THEN Rest(p) ELSE script
  /\ UNCHANGED <<knowndevs, booted, bootfs, cwd, fd, swapped, down, ops, mounts>>

DestroysAnyway(p) ==
  /\ Up /\ dying[p] # None
  /\ ref' = [ref EXCEPT ![dying[p]] = 0]
  /\ dying' = [dying EXCEPT ![p] = None]
  /\ UNCHANGED <<knowndevs, booted, bootfs, cwd, fd, hand, script, swapped, down, ops, mounts>>

(* VOP_RECLAIM: somebody may have found the vnode meanwhile.               *)
VOP_RECLAIM(p) ==
  /\ Up /\ dying[p] # None /\ BiglockFree(p)
  /\ ref' = [ref EXCEPT ![dying[p]] = @ - 1]
  /\ dying' = [dying EXCEPT ![p] = None]
  /\ UNCHANGED <<knowndevs, booted, bootfs, cwd, fd, hand, script, swapped, down, ops, mounts>>

-----------------------------------------------------------------------------
(* shutdown by process p: vfs_clearbootfs, vfs_clearcurdir (of the process *)
(* that asked for it) and vfs_unmountall, in which a sync may fail twice.  *)

Less(r, v) == IF v = None THEN r ELSE [r EXCEPT ![v] = @ - 1]

ForgetsBootfs(p) == Less(ref, cwd[p])

Cleared(p) == Less(Less(ref, bootfs), cwd[p])

shutdown(p) ==
  /\ Up /\ script[p] = <<>> /\ dying[p] = None /\ BiglockFree(p)
  /\ LET r == Cleared(p)
         disks == {i \in DOMAIN knowndevs : knowndevs[i].kind = "disk" /\ Mounted(knowndevs[i])}
     IN \E failed \in SUBSET disks :
          LET gone == {i \in disks \ failed :
                        \A n \in {"root", "dir", "file"} : r[Node(knowndevs[i].fs, n)] = 0}
          IN /\ knowndevs' = [i \in DOMAIN knowndevs |->
                    IF i \in gone \/ knowndevs[i].fs = SWAP THEN [knowndevs[i] EXCEPT !.fs = NoFs]
                    ELSE knowndevs[i]]
             /\ down' = [by |-> p, failed |-> failed # {},
                         stuck |-> {knowndevs[i].fs : i \in disks \ (gone \cup failed)},
                         held |-> {v[1] : v \in {cwd[q] : q \in Proc \ {p}} \cup {fd[q] : q \in Proc}
                                     \cup {dying[q] : q \in Proc}
                                     \cup UNION {{hand[q][i] : i \in DOMAIN hand[q]} : q \in Proc}}]
  /\ ref' = Cleared(p)
  /\ bootfs' = None
  /\ cwd' = [cwd EXCEPT ![p] = None]
  /\ UNCHANGED <<booted, fd, hand, script, dying, swapped, ops, mounts>>

Next ==
  \/ vfs_doadd
  \/ BiglockFree("menu") /\ \E d \in DOMAIN Label : vfs_mount(d) \/ vfs_unmount(d) \/ vfs_swapon(d) \/ vfs_swapoff(d)
  \/ \E p \in Proc :
       \/ \E o \in Ops : start(p, o)
       \/ look(p) \/ creat(p) \/ eachopen(p) \/ vop(p) \/ vfs_setcurdir(p)
       \/ change_bootfs(p) \/ vnode_decref(p) \/ VOP_RECLAIM(p)
       \/ shutdown(p)

Spec == Init /\ [][Next]_vars

-----------------------------------------------------------------------------
Holders(v) ==
  Permanent(v)
    + (IF bootfs = v THEN 1 ELSE 0)
    + Cardinality({p \in Proc : cwd[p] = v}) + Cardinality({p \in Proc : fd[p] = v})
    + Cardinality({p \in Proc : dying[p] = v})
    + Cardinality({<<p, i>> \in Proc \X (1..4) : i \in DOMAIN hand[p] /\ hand[p][i] = v})
    + (IF v[1] = "dev" THEN swapped[v[2]] ELSE 0)

Listed == {knowndevs[i].name : i \in DOMAIN knowndevs}

(* Every vnode counts exactly the references there are, through all the    *)
(* error paths of the operations; one that anything refers to belongs to a *)
(* file system that is mounted, so that it is never unmounted under a user *)
(* and the current directory can always be named (vfs_getcwd asserts it).  *)
VnodesSound ==
  \A v \in Vnode :
    /\ (v[1] \in Listed \/ v[2] \in Listed) => ref[v] = Holders(v)
    /\ ref[v] > Permanent(v) /\ v[1] # "dev" =>
         \E i \in DOMAIN knowndevs : knowndevs[i].fs = v[1]

Labels == {volname(knowndevs[i].fs) : i \in {j \in DOMAIN knowndevs : Mounted(knowndevs[j])}}

(* Names are what the comment on struct knowndev says: the device or the   *)
(* root of the file system on it, no device without a file system answers  *)
(* to a mountable one's name, unless a volume that was mounted carries     *)
(* that name as its label: vfs_mount does not look.                        *)
NamesMean ==
  \A i \in DOMAIN knowndevs :
    LET kd == knowndevs[i] IN
    /\ kd.name \notin Labels \ {volname(kd.fs)} =>
         vfs_getroot(kd.name) = (IF Mounted(kd) THEN <<"root", kd.fs>>
                                 ELSE IF kd.kind = "disk" THEN <<"error", "ENXIO">>
                                 ELSE <<"dev", kd.name>>)
    /\ kd.kind = "disk" /\ Raw(kd.name) \notin Labels =>
         vfs_getroot(Raw(kd.name)) = <<"dev", kd.name>>
    /\ Mounted(kd) /\ volname(kd.fs) \notin Names
         /\ (\A j \in DOMAIN knowndevs : j # i /\ Mounted(knowndevs[j]) =>
               volname(knowndevs[j].fs) # volname(kd.fs)) =>
         vfs_getroot(volname(kd.fs)) = <<"root", kd.fs>> \/ volname(kd.fs) = "no name"

(* What shutdown leaves mounted is in use by a process, or could not be    *)
(* synced.                                                                 *)
ShutdownUnmounts == down.stuck \subseteq down.held
=============================================================================
