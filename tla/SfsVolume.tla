----------------------------- MODULE SfsVolume ------------------------------
(***************************************************************************)
(* An SFS volume through its life: mksfs makes it, it is mounted, threads  *)
(* work on it, it is unmounted or the machine stops, sfsck repairs it and  *)
(* it is mounted again.  SFS gives the operations, Sfsck the repair.       *)
(*                                                                         *)
(* A thread holds references to vnodes (open files, current directories,   *)
(* lookups on their way).  open counts them per inode: which thread holds  *)
(* one does not matter to SFS.  Every operation runs under vfs_biglock.    *)
(* The machine may stop after any of the blocks that an operation writes.  *)
(***************************************************************************)
EXTENDS Sfsck

CONSTANTS
  Letter,      \* of the one-letter names that programs use
  Byte,        \* what they write
  OldByte,     \* what is in the files of the volume they find
  Edges,       \* positions: they write from one of them up to the next
  Lengths,     \* the lengths they truncate to
  MaxOpen,     \* bound on the references to a vnode held at a time
  MaxOps,      \* bound on the operations that change files
  Faulty,      \* whether reads may fail and user buffers be bad
  Losing       \* whether a write may fail too

VARIABLES
  disk,        \* the volume
  up,          \* it is mounted
  used, fdirty, vn,   \* what SFS keeps in memory, see Sfs
  open,        \* per inode: references held by threads
  closing,     \* inodes whose last reference is on its way to sfs_reclaim
  health,      \* "clean" | "stopped" | "repaired" | "broken"
  kept,        \* the files, as <<name, bytes>>, no one has touched since
               \* the volume was last synced
  ops,         \* operations that changed files so far
  panicked

Name == {<<l>> : l \in Letter}
Writes ==   \* as <<position, length>>
  {<<p, q - p>> : <<p, q>> \in {e \in Edges \X Edges :
                    e[1] < e[2] /\ \A r \in Edges : r <= e[1] \/ e[2] <= r}}

mem == <<used, fdirty, vn>>
vars == <<disk, up, mem, open, closing, health, kept, ops, panicked>>

None == [b \in Block |-> 0]
NoVnodes == [b \in Block |-> NoVnode]

InodeNow(b) == IF vn[b].ref > 0 THEN vn[b].i ELSE AsInode(disk[b])
Root == InodeNow(SFS_ROOTDIR_INO)
Entries(i, d) == {DirEntry(d, i, j) : j \in Slots(i)} \ {NoEntry}
FileNames(d, i) == {e \in Entries(i, d) : e.name \notin {Dot, DotDot}}
Contents(d, i) == {<<e.name, ReadFile(d, AsInode(d[e.ino]))>> : e \in FileNames(d, i)}
InMemory(s, b) == IF s.vn[b].ref > 0 THEN s.vn[b].i ELSE AsInode(s.disk[b])
ContentsNow(s) ==
  {<<e.name, ReadFile(s.disk, InMemory(s, e.ino))>> :
     e \in FileNames(s.disk, InMemory(s, SFS_ROOTDIR_INO))}

TypeOK ==
  /\ up \in BOOLEAN /\ fdirty \in BOOLEAN /\ panicked \in BOOLEAN
  /\ used \subseteq Block /\ closing \subseteq Block
  /\ open \in [Block -> 0 .. MaxOpen]
  /\ health \in {"clean", "stopped", "repaired", "broken"}
  /\ \A b \in Block : vn[b].ref \in 0 .. MaxOpen + 1

(* A volume to start from: fresh, or with files of the given length in it,  *)
(* made by creat, write, the last VOP_DECREF and unmount.              *)
Fresh(d, fail) ==
  [disk |-> d, used |-> {}, fdirty |-> FALSE, vn |-> NoVnodes,
   io |-> 0, fail |-> fail, lost |-> FALSE, err |-> "ok", blk |-> 0, slot |-> 0, done |-> 0,
   panic |-> FALSE]
Write(s, n, len) ==
  LET Fill(t) == Decref(sfs_io(t, t.blk, 0, len, OldByte, len), t.blk)
  IN Fill(sfs_creat(s, n, TRUE))
Volume(files, len) ==
  LET s == sfs_loadvnode(sfs_domount(Fresh(mksfs, {})), SFS_ROOTDIR_INO, "inval")
      t == FoldSet(LAMBDA n, u : Write(u, n, len), s, files)
  IN sfs_unmount(Decref(t, SFS_ROOTDIR_INO), <<>>).disk

Init ==
  /\ disk \in {Volume(files, len) : files \in SUBSET Name, len \in Lengths \ {0}}
  /\ up = FALSE /\ ops = 0
  /\ used = {} /\ fdirty = FALSE /\ vn = NoVnodes
  /\ open = None /\ closing = {} /\ health = "clean"
  /\ kept = Contents(disk, AsInode(disk[SFS_ROOTDIR_INO])) /\ panicked = FALSE

-----------------------------------------------------------------------------
(* What an operation T makes of the state, when the blocks in fail go      *)
(* wrong.                                                                  *)
State(fail) == [Fresh(disk, fail) EXCEPT !.used = used, !.fdirty = fdirty, !.vn = vn]
MaxIO == 60          \* no operation moves more blocks than this
Reads(T(_)) == IF Faulty THEN {{}} \cup {{n} : n \in 1 .. T(State({})).io} ELSE {{}}

Becomes(t) ==
  /\ disk' = t.disk /\ used' = t.used /\ fdirty' = t.fdirty /\ vn' = t.vn
  /\ panicked' = t.panic

(* It is done, with at most one block that could not be read; or the       *)
(* machine stops when it has written some of its blocks.                   *)
Done(T(_), After(_)) ==
  \E t \in {T(State(fail)) : fail \in Reads(T)} :
    (t.lost => Losing) /\ Becomes(t) /\ After(t)

StoppedIn(T(_)) ==
  \E k \in 1 .. T(State({})).io :
    /\ disk' = T(State(k .. MaxIO)).disk
    /\ used' = {} /\ fdirty' = FALSE /\ vn' = NoVnodes
    /\ up' = FALSE /\ open' = None /\ closing' = {} /\ health' = "stopped"
    /\ UNCHANGED panicked

Changes == ops < MaxOps /\ ops' = ops + 1
Running == up /\ ~panicked
Holds(b) == Running /\ open[b] > 0
Touching(inos) == kept' = {c \in kept : \A e \in Entries(Root, disk) : e.name = c[1] => e.ino \notin inos}

(* An operation that hands back a vnode gives the thread a reference.      *)
Gives(t) ==
  /\ open' = IF Ok(t) THEN [open EXCEPT ![t.blk] = @ + 1] ELSE open
  /\ UNCHANGED <<up, closing, health>>
Keeps(t) == UNCHANGED <<up, open, closing, health>>

-----------------------------------------------------------------------------
getroot ==
  LET T(s) == sfs_loadvnode(s, SFS_ROOTDIR_INO, "inval")
  IN /\ Running /\ open[SFS_ROOTDIR_INO] < MaxOpen
     /\ Done(T, Gives) /\ UNCHANGED <<kept, ops>>

creat(n, excl) ==
  LET T(s) == sfs_creat(s, n, excl)
  IN /\ Changes /\ Holds(SFS_ROOTDIR_INO)
     /\ \A b \in Block \ {SFS_ROOTDIR_INO} : open[b] < MaxOpen
     /\ Done(T, Gives) \/ StoppedIn(T)
     /\ UNCHANGED kept

lookup(n) ==
  LET T(s) == sfs_lookonce(s, n)
  IN /\ Holds(SFS_ROOTDIR_INO)
     /\ \A b \in Block \ {SFS_ROOTDIR_INO} : open[b] < MaxOpen
     /\ Done(T, Gives) /\ UNCHANGED <<kept, ops>>

link(n, b) ==
  LET T(s) == sfs_link(s, n, b)
  IN /\ Changes /\ Holds(SFS_ROOTDIR_INO) /\ Holds(b)
     /\ Done(T, Keeps) \/ StoppedIn(T)
     /\ Touching({b})

Victims(n) == {e.ino : e \in {f \in Entries(Root, disk) : f.name = n}}

remove(n) ==
  LET T(s) == sfs_remove(s, n)
  IN /\ Changes /\ Holds(SFS_ROOTDIR_INO)
     /\ Done(T, Keeps) \/ StoppedIn(T)
     /\ Touching(Victims(n))

rename(n1, n2) ==
  LET T(s) == sfs_rename(s, n1, n2)
  IN /\ Changes /\ Holds(SFS_ROOTDIR_INO)
     /\ Done(T, Keeps) \/ StoppedIn(T)
     /\ Touching(Victims(n1))

(* write: with a bad buffer nothing past faults can be copied.             *)
write(b, pos, len, byte, faults) ==
  LET T(s) == sfs_io(s, b, pos, len, byte, faults)
  IN /\ Changes /\ Holds(b) /\ b # SFS_ROOTDIR_INO
     /\ Done(T, Keeps) \/ StoppedIn(T)
     /\ Touching({b})

truncate(b, len) ==
  LET T(s) == sfs_itrunc(s, b, len)
  IN /\ Changes /\ Holds(b) /\ b # SFS_ROOTDIR_INO
     /\ Done(T, Keeps) \/ StoppedIn(T)
     /\ Touching({b})

fsync(b) ==
  LET T(s) == sfs_sync_inode(s, b)
  IN /\ Holds(b) /\ vn[b].dirty
     /\ Done(T, Keeps) \/ StoppedIn(T)
     /\ UNCHANGED <<kept, ops>>

(* VOP_DECREF outside SFS: the last reference is passed to sfs_reclaim,    *)
(* and someone may load the vnode before that gets the lock.               *)
vnode_decref(b) ==
  /\ Holds(b)
  /\ open' = [open EXCEPT ![b] = @ - 1]
  /\ IF vn[b].ref > 1
     THEN vn' = [vn EXCEPT ![b].ref = @ - 1] /\ UNCHANGED closing
     ELSE closing' = closing \cup {b} /\ UNCHANGED vn
  /\ UNCHANGED <<disk, up, used, fdirty, health, kept, ops, panicked>>

reclaim(b) ==
  LET T(s) == sfs_reclaim(s, b)
      Left(t) == closing' = closing \ {b} /\ UNCHANGED <<up, open, health>>
  IN /\ Running /\ b \in closing
     /\ Done(T, Left) \/ StoppedIn(T)
     /\ UNCHANGED <<kept, ops>>

(* The order of the table matters for the vnodes that get written.         *)
Orders == SetToSeqs({b \in Block : vn[b].ref > 0 /\ vn[b].dirty})

(* A sync that ends writes all that is dirty, so all files are kept.       *)
sync ==
  \E o \in Orders :
    LET T(s) == sfs_sync(s, o)
        All(t) == /\ kept' = ContentsNow(t)
                  /\ UNCHANGED <<up, open, closing, health>>
    IN /\ Running /\ UNCHANGED ops
       /\ Done(T, All) \/ (StoppedIn(T) /\ UNCHANGED kept)

unmount ==
  \E o \in Orders :
    LET T(s) == sfs_unmount(s, o)
        Out(t) == /\ up' = ~Ok(t)
                  /\ kept' = ContentsNow(t)
                  /\ UNCHANGED <<open, closing, health>>
    IN /\ Running /\ UNCHANGED ops
       /\ Done(T, Out) \/ (StoppedIn(T) /\ UNCHANGED kept)

(* Only a volume that was unmounted or repaired is mounted.                *)
mount ==
  LET T(s) == sfs_domount(s)
      In(t) == up' = Ok(t) /\ UNCHANGED <<open, closing, health>>
  IN /\ ~up /\ ~panicked /\ health \in {"clean", "repaired"}
     /\ Done(T, In) /\ UNCHANGED <<kept, ops>>

(* The machine stops between two operations.                               *)
stop ==
  /\ Running
  /\ up' = FALSE /\ used' = {} /\ fdirty' = FALSE /\ vn' = NoVnodes
  /\ open' = None /\ closing' = {} /\ health' = "stopped"
  /\ UNCHANGED <<disk, kept, ops, panicked>>

(* sfsck is run, and may be stopped itself.                                *)
Exit(f) == IF f.bad < EXIT_UNRECOV /\ ~f.dead THEN "repaired" ELSE "broken"
check ==
  /\ ~up /\ ~panicked /\ health = "stopped"
  /\ \E whole \in {sfsck(disk, MaxIO)} :
       \/ disk' = whole.disk /\ health' = Exit(whole)
       \/ /\ \E k \in 0 .. whole.io - 1 : disk' = sfsck(disk, k).disk
          /\ UNCHANGED health
  /\ UNCHANGED <<up, mem, open, closing, kept, ops, panicked>>

Next ==
  \/ getroot \/ sync \/ unmount \/ mount \/ stop \/ check
  \/ \E n \in Name : lookup(n) \/ remove(n) \/ \E excl \in BOOLEAN : creat(n, excl)
  \/ \E n, m \in Name : rename(n, m)
  \/ \E b \in Block :
       \/ vnode_decref(b) \/ reclaim(b) \/ fsync(b)
       \/ \E n \in Name : link(n, b)
       \/ \E len \in Lengths : truncate(b, len)
       \/ \E w \in Writes, v \in Byte :
            \E faults \in IF Faulty THEN w[1] .. w[1] + w[2] ELSE {w[1] + w[2]} :
              write(b, w[1], w[2], v, faults)

Spec == Init /\ [][Next]_vars

-----------------------------------------------------------------------------
(* The places of the volume that name a block, each with the block: the    *)
(* superblock and the map have theirs, an entry or a vnode names an inode, *)
(* an inode its blocks.                                                    *)
Live == {SFS_ROOTDIR_INO} \cup {e.ino : e \in FileNames(disk, Root)}
        \cup {b \in Block : vn[b].ref > 0}
Pointer(b, n) ==
  LET i == InodeNow(b)
  IN CASE n <= NDIRECT -> i.direct[n]
       [] n = NDIRECT + 1 -> i.indirect
       [] n > NDIRECT + 1 /\ i.indirect = 0 -> 0
       [] OTHER -> AsInd(disk[i.indirect])[n - NDIRECT - 1]
Places ==
  LET live == Live
  IN {r \in {<<Pointer(i, n), i, n>> : i \in live, n \in 1 .. NDIRECT + 1 + DBPERIDB} : r[1] # 0}
     \cup {<<i, i, 0>> : i \in live \cup {SFS_SUPER_BLOCK, SFS_FREEMAP_START}}
Used == IF up THEN used ELSE disk[SFS_FREEMAP_START].used

(* No block is in two places, and a block in a place is marked used; only  *)
(* on a volume that never had to be repaired is every used block in one.   *)
(* It is about sfs_balloc, sfs_bmap, sfs_itrunc, sfs_reclaim with blocks   *)
(* that cannot be read and a volume that is full, and about sfsck.         *)
BlocksAccounted ==
  health \in {"clean", "repaired"} =>
    LET places == Places
    IN \A b \in Block :
         LET n == Cardinality({r \in places : r[1] = b})
         IN n <= 1 /\ (n = 1 => b \in Used) /\ (b \in Used /\ health = "clean" => n = 1)

(* The link count of a file is the number of names it has, in memory and   *)
(* on a volume at rest, and no name is there twice.                        *)
LinksExact ==
  health \in {"clean", "repaired"} =>
    /\ \A b \in Live \ {SFS_ROOTDIR_INO} :
         InodeNow(b).link = Cardinality({j \in Slots(Root) : DirEntry(disk, Root, j).ino = b})
    /\ \A j, k \in Slots(Root) :
         DirEntry(disk, Root, j) # NoEntry /\ DirEntry(disk, Root, j).name = DirEntry(disk, Root, k).name
           => j = k

(* A file no one touched since the last sync is on the disk, whole, at any *)
(* moment the machine may stop, and after sfsck.                           *)
SyncIsDurable == kept \subseteq Contents(disk, AsInode(disk[SFS_ROOTDIR_INO]))

(* No assertion of SFS fails.                                              *)
NoPanic == ~panicked

(* The volume is right, in memory and at rest: every block has one use,    *)
(* links are counted, and no assertion fails.                              *)
VolumeSound == BlocksAccounted /\ LinksExact /\ NoPanic

(* Although blocks move from file to file, a step changes at most one file *)
(* and puts nothing into it but zeros and what programs write.             *)
Bytes(b) == ReadFile(disk, InodeNow(b))
FilesIsolated ==
  [][LET files == (Live \cap Live') \ {SFS_ROOTDIR_INO}
         changed == {b \in files : Bytes(b) # Bytes(b)'}
     IN up /\ up' =>
          /\ Cardinality(changed) <= 1
          /\ \A b \in changed : Range(Bytes(b)') \subseteq Range(Bytes(b)) \cup Byte \cup {0}]_<<disk, vn>>

(* A file in memory has no blocks past its end, however it was written and *)
(* truncated.  It does not hold: sfs_itrunc keeps the indirect data block  *)
(* whose index is the new length in blocks.                                *)
NothingPastEOF ==
  health = "clean" /\ up =>
    \A b \in Live \ {SFS_ROOTDIR_INO} : \A k \in 0 .. NDIRECT + DBPERIDB - 1 :
      k * BLOCKSIZE >= InodeNow(b).size /\ vn[b].ref > 0 => BlockOf(disk, InodeNow(b), k) = 0

=============================================================================
