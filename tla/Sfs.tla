-------------------------------- MODULE Sfs ---------------------------------
(***************************************************************************)
(* SFS, the file system on disk (kern/fs/sfs): one root directory of       *)
(* files, each an inode block with direct blocks and one indirect block.   *)
(*                                                                         *)
(* The whole of SFS runs under vfs_biglock, so an operation is a function  *)
(* from the state it finds to the state it leaves.  That state s holds     *)
(*   disk            what every block of the volume holds                  *)
(*   used, fdirty    the free block map in memory, and sfs_freemapdirty    *)
(*   vn              per block number: the vnode of that inode             *)
(*   io, fail, lost  the blocks moved so far, which of them go wrong, and  *)
(*                   whether a write was among those                       *)
(*   err, blk        the result and the block or inode handed back         *)
(*   slot, done      a slot of the directory; how much of a write is done  *)
(*   panic           an assertion failed or SFS called panic               *)
(*                                                                         *)
(* The I/O number n goes wrong when n is in s.fail: a read gives EIO.  A   *)
(* write is lost without anyone knowing, see sfs_writeblock.               *)
(***************************************************************************)
EXTENDS Integers, Sequences, FiniteSets, FiniteSetsExt, SequencesExt

CONSTANTS
  NBLOCKS,        \* blocks of the volume (sb_nblocks)
  NDIRECT,        \* SFS_NDIRECT
  DBPERIDB,       \* SFS_DBPERIDB
  BLOCKSIZE,      \* what a block holds of a file, in bytes
  DIRPERBLOCK     \* directory entries in a block

Block == 0 .. NBLOCKS - 1
SFS_SUPER_BLOCK == 0
SFS_ROOTDIR_INO == 1
SFS_FREEMAP_START == 2
SFS_NOINO == 0

-----------------------------------------------------------------------------
(* What a block holds.  A block of zeros is an unused inode, an empty      *)
(* piece of a directory, an indirect block or a piece of a file.  A block  *)
(* read as what it is not is junk: its words are no numbers of blocks.     *)
Zeros(n) == [i \in 1 .. n |-> 0]
Junk == NBLOCKS
NoEntry == [ino |-> SFS_NOINO, name |-> <<>>]

ZeroBlock == [kind |-> "zero"]
SuperBlock == [kind |-> "super"]
MapBlock(S) == [kind |-> "map", used |-> S]
ZeroInode == [kind |-> "inode", type |-> "inval", size |-> 0, link |-> 0,
              direct |-> Zeros(NDIRECT), indirect |-> 0]
IndBlock(w) == IF w = Zeros(DBPERIDB) THEN ZeroBlock ELSE [kind |-> "ind", w |-> w]
DirBlock(e) ==
  IF \A i \in DOMAIN e : e[i] = NoEntry THEN ZeroBlock ELSE [kind |-> "dir", e |-> e]
DataBlock(w) == IF w = Zeros(BLOCKSIZE) THEN ZeroBlock ELSE [kind |-> "data", w |-> w]

AsInode(c) ==
  CASE c.kind = "inode" -> c
    [] c.kind = "zero" -> ZeroInode
    [] OTHER -> [ZeroInode EXCEPT !.type = "junk"]
AsInd(c) ==
  CASE c.kind = "ind" -> c.w
    [] c.kind = "zero" -> Zeros(DBPERIDB)
    [] OTHER -> [i \in 1 .. DBPERIDB |-> Junk]
AsDir(c) ==
  CASE c.kind = "dir" -> c.e
    [] c.kind = "zero" -> [i \in 1 .. DIRPERBLOCK |-> NoEntry]
    [] OTHER -> [i \in 1 .. DIRPERBLOCK |-> [ino |-> Junk, name |-> <<"junk">>]]
AsData(c) ==
  CASE c.kind = "data" -> c.w
    [] c.kind = "zero" -> Zeros(BLOCKSIZE)
    [] OTHER -> [i \in 1 .. BLOCKSIZE |-> Junk]

(* mksfs: the empty volume.                                                *)
mksfs ==
  [b \in Block |->
    CASE b = SFS_SUPER_BLOCK -> SuperBlock
      [] b = SFS_ROOTDIR_INO -> [ZeroInode EXCEPT !.type = "dir", !.link = 1]
      [] b = SFS_FREEMAP_START ->
           MapBlock({SFS_SUPER_BLOCK, SFS_ROOTDIR_INO, SFS_FREEMAP_START})
      [] OTHER -> ZeroBlock]

-----------------------------------------------------------------------------
(* Sequencing.  A step is taken unless an earlier one failed or panicked.  *)
Ok(s) == s.err = "ok" /\ ~s.panic
Then(s, Step(_)) == IF Ok(s) THEN Step(s) ELSE s
Fail(s, e) == [s EXCEPT !.err = e]
Panic(s) == [s EXCEPT !.panic = TRUE]
Unless(s, bad) == IF bad THEN Panic(s) ELSE s        \* KASSERT(!bad)

(* sfs_rwblock tries a block eleven times.  After a read that fails the    *)
(* request is as it was.  After a write that fails lhd_io has already      *)
(* taken the data out of the uio, so the next try asks for nothing and     *)
(* succeeds.                                                               *)
sfs_readblock(s, b) ==
  [s EXCEPT !.io = @ + 1, !.panic = @ \/ b \notin Block,
            !.err = IF s.io + 1 \in s.fail THEN "EIO" ELSE @]
sfs_writeblock(s, b, c) ==
  IF s.io + 1 \in s.fail THEN [s EXCEPT !.io = @ + 1, !.lost = TRUE]
  ELSE [s EXCEPT !.io = @ + 1, !.disk[b] = c]

(* The free block map.  bitmap_alloc hands out the first free block.       *)
sfs_bused(s, b) == b \in s.used
(* Mutant: what the block held is left in it.                              *)
NotCleared(s, b) == s
sfs_clearblock(s, b) == sfs_writeblock(s, b, ZeroBlock)
sfs_balloc(s) ==
  LET b == Min(Block \ s.used)
  IN IF Block \subseteq s.used THEN Fail(s, "ENOSPC")
     ELSE sfs_clearblock([s EXCEPT !.used = @ \cup {b}, !.fdirty = TRUE, !.blk = b], b)
sfs_bfree(s, b) ==
  Unless([s EXCEPT !.used = @ \ {b}, !.fdirty = TRUE], b \notin s.used)

(* Changing an inode in memory.                                            *)
Inode(s, ino) == s.vn[ino].i
(* Mutant: the inode is not marked dirty.                                  *)
ForgetsDirty(s, ino, i) == [s EXCEPT !.vn[ino].i = i]
SetInode(s, ino, i) == [s EXCEPT !.vn[ino].i = i, !.vn[ino].dirty = TRUE]

-----------------------------------------------------------------------------
(* Where the block k of a file is.  With doalloc a block that is missing   *)
(* is allocated, and the indirect block with it.                           *)
HandBack(s, b) == Unless([s EXCEPT !.blk = b], b # 0 /\ ~sfs_bused(s, b))

BmapDirect(s, ino, k, doalloc) ==
  LET i == Inode(s, ino)
  IN IF i.direct[k + 1] = 0 /\ doalloc
     THEN Then(sfs_balloc(s),
               LAMBDA t : SetInode(t, ino, [i EXCEPT !.direct[k + 1] = t.blk]))
     ELSE HandBack(s, i.direct[k + 1])

BmapIndirect(s, ino, j, doalloc) ==
  LET i == Inode(s, ino)
      loaded == IF i.indirect # 0 THEN sfs_readblock(s, i.indirect)
                ELSE Then(sfs_balloc(s), LAMBDA t : SetInode(t, ino, [i EXCEPT !.indirect = t.blk]))
      w == IF i.indirect # 0 THEN AsInd(s.disk[i.indirect]) ELSE Zeros(DBPERIDB)
      Fill(t) == sfs_writeblock(t, Inode(t, ino).indirect, IndBlock([w EXCEPT ![j + 1] = t.blk]))
  IN CASE j >= DBPERIDB -> Fail(s, "EFBIG")
       [] j < DBPERIDB /\ i.indirect = 0 /\ ~doalloc -> HandBack(s, 0)
       [] OTHER ->
            Then(loaded, LAMBDA t :
              IF w[j + 1] = 0 /\ doalloc
              THEN Then(sfs_balloc(t), Fill)
              ELSE HandBack(t, w[j + 1]))

sfs_bmap(s, ino, k, doalloc) ==
  IF k < NDIRECT THEN BmapDirect(s, ino, k, doalloc)
  ELSE BmapIndirect(s, ino, k - NDIRECT, doalloc)

(* ftruncate, and the end of a file nobody refers to.  The blocks of a set *)
(* of places are freed one after the other.                                *)
BfreeAll(s, at, places) ==
  FoldSet(LAMBDA p, t : IF t.panic THEN t ELSE sfs_bfree(t, at[p]), s, places)

TruncDirect(s, ino, blocklen) ==
  LET i == Inode(s, ino)
      past == {k \in 1 .. NDIRECT : k - 1 >= blocklen /\ i.direct[k] # 0}
  IN IF past = {} THEN s
     ELSE SetInode(BfreeAll(s, i.direct, past), ino,
                   [i EXCEPT !.direct = [k \in 1 .. NDIRECT |-> IF k \in past THEN 0 ELSE @[k]]])

(* Mutant: the entries past the end are forgotten, not freed.              *)
KeepsBlocks(s, at, places) == s
DiscardIndirect(s, at, places) == BfreeAll(s, at, places)

TruncIndirect(s, ino, blocklen) ==
  LET i == Inode(s, ino)
      w == AsInd(s.disk[i.indirect])
      past == {j \in 1 .. DBPERIDB : blocklen < NDIRECT + j - 1 /\ w[j] # 0}
      left == [j \in 1 .. DBPERIDB |-> IF j \in past THEN 0 ELSE w[j]]
      Rewrite(t) ==
        CASE left = Zeros(DBPERIDB) ->
               SetInode(sfs_bfree(t, i.indirect), ino, [i EXCEPT !.indirect = 0])
          [] left # Zeros(DBPERIDB) /\ past # {} -> sfs_writeblock(t, i.indirect, IndBlock(left))
          [] OTHER -> t
  IN IF blocklen < NDIRECT + DBPERIDB - 1 /\ i.indirect # 0
     THEN Then(sfs_readblock(s, i.indirect),
               LAMBDA t : Rewrite(DiscardIndirect(t, w, past)))
     ELSE s

sfs_itrunc(s, ino, len) ==
  LET blocklen == (len + BLOCKSIZE - 1) \div BLOCKSIZE
      Resize(t) == SetInode(t, ino, [Inode(t, ino) EXCEPT !.size = len])
  IN Then(TruncIndirect(TruncDirect(s, ino, blocklen), ino, blocklen), Resize)

-----------------------------------------------------------------------------
(* Writing a file: a leading piece of a block, whole blocks, a trailing    *)
(* piece.  A piece of a block is read before it is written.  faults is the *)
(* first position whose data cannot be copied from the user (EFAULT).      *)
WritePiece(s, ino, k, from, to, byte, faults) ==
  LET whole == to - from = BLOCKSIZE
      Mix(t) == [i \in 1 .. BLOCKSIZE |->
                   IF k * BLOCKSIZE + i - 1 \in from .. to - 1 THEN byte
                   ELSE AsData(t.disk[t.blk])[i]]
      Move(t) == IF to > faults THEN Fail(t, "EFAULT")
                 ELSE sfs_writeblock([t EXCEPT !.done = @ + to - from], t.blk, DataBlock(Mix(t)))
  IN Then(sfs_bmap(s, ino, k, TRUE), LAMBDA t :
       Then(IF whole THEN t ELSE sfs_readblock(t, t.blk), Move))

(* Mutant: the size is set to where this write ended.                      *)
ToHere(size, end) == end
Grown(size, end) == IF end > size THEN end ELSE size

sfs_io(s, ino, pos, len, byte, faults) ==
  LET first == pos \div BLOCKSIZE
      last == (pos + len - 1) \div BLOCKSIZE
      Lo(k) == IF k = first THEN pos ELSE k * BLOCKSIZE
      Hi(k) == IF k = last THEN pos + len ELSE (k + 1) * BLOCKSIZE
      Piece(t, k) == IF Ok(t) THEN WritePiece(t, ino, k, Lo(k), Hi(k), byte, faults) ELSE t
      Extend(t, i, size) ==
        IF t.done > 0 /\ size # i.size THEN SetInode(t, ino, [i EXCEPT !.size = size]) ELSE t
      Sized(t) == Extend(t, Inode(t, ino), Grown(Inode(t, ino).size, pos + t.done))
  IN Sized(FoldLeft(Piece, [s EXCEPT !.done = 0],
                    [n \in 1 .. last - first + 1 |-> first + n - 1]))

(* What a read of the file gives: the bytes below its size.                *)
BlockOf(disk, i, k) ==
  CASE k < NDIRECT -> i.direct[k + 1]
    [] k >= NDIRECT /\ i.indirect # 0 -> AsInd(disk[i.indirect])[k - NDIRECT + 1]
    [] OTHER -> 0
ReadFile(disk, i) ==
  [p \in 1 .. i.size |->
     LET b == BlockOf(disk, i, (p - 1) \div BLOCKSIZE)
     IN IF b \in Block \ {0} THEN AsData(disk[b])[1 + ((p - 1) % BLOCKSIZE)] ELSE 0]

-----------------------------------------------------------------------------
(* The root directory, the only one the kernel makes.  Its size counts     *)
(* entries; every search reads every slot.                                 *)
DirEntry(disk, i, j) ==
  LET b == BlockOf(disk, i, j \div DIRPERBLOCK)
  IN IF b = 0 THEN NoEntry ELSE AsDir(disk[b])[1 + (j % DIRPERBLOCK)]
Slots(i) == 0 .. i.size - 1

sfs_readdir(s, j) ==
  Then(sfs_bmap(s, SFS_ROOTDIR_INO, j \div DIRPERBLOCK, FALSE),
       LAMBDA t : IF t.blk = 0 THEN t ELSE sfs_readblock(t, t.blk))

sfs_writedir(s, j, entry) ==
  LET Put(t) ==
        LET u == sfs_writeblock(t, t.blk,
                   DirBlock([AsDir(t.disk[t.blk]) EXCEPT ![1 + (j % DIRPERBLOCK)] = entry]))
            i == Inode(u, SFS_ROOTDIR_INO)
        IN IF j + 1 > i.size THEN SetInode(u, SFS_ROOTDIR_INO, [i EXCEPT !.size = j + 1]) ELSE u
  IN Then(sfs_bmap(s, SFS_ROOTDIR_INO, j \div DIRPERBLOCK, TRUE),
          LAMBDA t : Then(sfs_readblock(t, t.blk), Put))

Named(s, n) ==
  LET i == Inode(s, SFS_ROOTDIR_INO)
  IN {j \in Slots(i) : /\ DirEntry(s.disk, i, j).ino # SFS_NOINO
                       /\ DirEntry(s.disk, i, j).name = n}
EmptySlots(s) ==
  LET i == Inode(s, SFS_ROOTDIR_INO) IN {j \in Slots(i) : DirEntry(s.disk, i, j).ino = SFS_NOINO}

sfs_dir_findname(s, n) ==
  LET i == Inode(s, SFS_ROOTDIR_INO)
      Scan(t, j) == IF Ok(t) THEN sfs_readdir(t, j) ELSE t
      Found(t) ==
        CASE Cardinality(Named(t, n)) > 1 -> Panic(t)
          [] Named(t, n) = {} -> Fail(t, "ENOENT")
          [] OTHER -> LET j == CHOOSE j \in Named(t, n) : TRUE
                      IN [t EXCEPT !.slot = j, !.blk = DirEntry(t.disk, i, j).ino]
  IN Then(FoldLeft(Scan, s, [k \in 1 .. i.size |-> k - 1]), Found)

(* The entry goes into the last empty slot, or after the last one.         *)
(* Mutant: the new name is not looked up first.                            *)
NoLookup(s, n) == Fail(s, "ENOENT")
LookupNew(s, n) == sfs_dir_findname(s, n)

sfs_dir_link(s, n, ino) ==
  LET Slot(t) == IF EmptySlots(t) # {} THEN Max(EmptySlots(t))
                 ELSE Inode(t, SFS_ROOTDIR_INO).size
      Enter(t, e) == sfs_writedir([t EXCEPT !.err = "ok", !.slot = e], e, [ino |-> ino, name |-> n])
      Searched(t) ==
        CASE Ok(t) -> Fail(t, "EEXIST")
          [] ~t.panic /\ t.err = "ENOENT" -> Enter(t, Slot(t))
          [] OTHER -> t
  IN Searched(LookupNew(s, n))

sfs_dir_unlink(s, j) == sfs_writedir(s, j, NoEntry)

-----------------------------------------------------------------------------
(* Vnodes.  NoVnode stands for an inode that is not in sfs_vnodes.         *)
NoVnode == [i |-> ZeroInode, dirty |-> FALSE, ref |-> 0]
Loaded(s) == {b \in Block : s.vn[b].ref > 0}

sfs_sync_inode(s, ino) ==
  IF s.vn[ino].dirty
  THEN [sfs_writeblock(s, ino, Inode(s, ino)) EXCEPT !.vn[ino].dirty = FALSE]
  ELSE s

(* A vnode that is not loaded is read in; running out of memory there is   *)
(* as good as failing to read.                                             *)
sfs_loadvnode(s, ino, forcetype) ==
  LET new == forcetype # "inval"
      Enter(t) ==
        LET i == AsInode(t.disk[ino])
            j == IF new THEN [i EXCEPT !.type = forcetype] ELSE i
        IN Unless([t EXCEPT !.vn[ino] = [i |-> j, dirty |-> new, ref |-> 1], !.blk = ino],
                  (new /\ i.type # "inval") \/ j.type \notin {"file", "dir"})
  IN CASE ~(Loaded(s) \subseteq s.used) -> Panic(s)
       [] Loaded(s) \subseteq s.used /\ ino \in Loaded(s) ->
            Unless([s EXCEPT !.vn[ino].ref = @ + 1, !.blk = ino], new)
       [] OTHER -> Then(Unless(s, ~sfs_bused(s, ino)), LAMBDA t : Then(sfs_readblock(t, ino), Enter))

(* Mutant: the blocks of a file without a name are not given back.         *)
KeepsIts(s, ino) == s
Erase(s, ino) == IF Inode(s, ino).link = 0 THEN sfs_itrunc(s, ino, 0) ELSE s

(* The vnode stays where it is, with its last reference, when this fails.  *)
sfs_reclaim(s, ino) ==
  LET Discard(t) == IF Inode(t, ino).link = 0 THEN sfs_bfree(t, ino) ELSE t
      Drop(t) == [Discard(t) EXCEPT !.vn[ino] = NoVnode]
  IN IF s.vn[ino].ref # 1 THEN [s EXCEPT !.vn[ino].ref = @ - 1]
     ELSE Then(Erase(s, ino), LAMBDA t : Then(sfs_sync_inode(t, ino), Drop))

(* VOP_DECREF by SFS itself, whose result stays what it was.               *)
Decref(s, ino) ==
  LET t == IF s.vn[ino].ref > 1 THEN [s EXCEPT !.vn[ino].ref = @ - 1]
           ELSE sfs_reclaim([s EXCEPT !.err = "ok"], ino)
  IN IF s.panic THEN s ELSE [t EXCEPT !.err = s.err]

sfs_makeobj(s) ==
  LET Undo(t, ino) == IF t.panic \/ Ok(t) THEN t ELSE sfs_bfree(t, ino)
  IN Then(sfs_balloc(s), LAMBDA t : Undo(sfs_loadvnode(t, t.blk, "file"), t.blk))

sfs_lookonce(s, n) ==
  LET Load(t) == sfs_loadvnode(t, t.blk, "inval")
      Linked(t) == Unless(t, Inode(t, t.blk).link = 0)
  IN Then(sfs_dir_findname(s, n), LAMBDA t : Then(Load(t), Linked))

AddLink(s, ino, d) == SetInode(s, ino, [Inode(s, ino) EXCEPT !.link = @ + d])

-----------------------------------------------------------------------------
(* The operations of the directory.                                        *)
sfs_creat(s, n, excl) ==
  LET Linked(t, ino) ==
        IF Ok(t) THEN [AddLink(t, ino, 1) EXCEPT !.blk = ino] ELSE Decref(t, ino)
      Link(t) == Linked(sfs_dir_link(t, n, t.blk), t.blk)
      Searched(t) ==
        CASE Ok(t) /\ excl -> Fail(t, "EEXIST")
          [] Ok(t) /\ ~excl -> sfs_loadvnode(t, t.blk, "inval")
          [] ~t.panic /\ t.err = "ENOENT" -> Then(sfs_makeobj([t EXCEPT !.err = "ok"]), Link)
          [] OTHER -> t
  IN Searched(sfs_dir_findname(s, n))

sfs_link(s, n, ino) ==
  IF Inode(s, ino).type = "dir" THEN Fail(s, "EINVAL")
  ELSE Then(sfs_dir_link(s, n, ino), LAMBDA t : AddLink(t, ino, 1))

(* Mutant: the link count of the victim is not touched.                    *)
NoUnlink(s, ino) == s
Unlinked(s, ino) == AddLink(Unless(s, Inode(s, ino).link = 0), ino, -1)

sfs_remove(s, n) ==
  LET Gone(t, ino) == Decref(IF Ok(t) THEN Unlinked(t, ino) ELSE t, ino)
      Victim(t) == Gone(sfs_dir_unlink(t, t.slot), t.blk)
  IN Then(sfs_lookonce(s, n), Victim)

(* When the old name cannot be erased the new one is; if not even that can *)
(* be done SFS gives up.                                                   *)
sfs_rename(s, n1, n2) ==
  LET Undone(t, g1, err) ==
        IF Ok(t) THEN [t EXCEPT !.vn[g1].i.link = @ - 1, !.err = err] ELSE Panic(t)
      Unlink(t, g1, slot2) ==
        CASE Ok(t) -> AddLink(t, g1, -1)
          [] t.panic -> t
          [] OTHER -> Undone(sfs_dir_unlink([t EXCEPT !.err = "ok"], slot2), g1, t.err)
      Relinked(t, g1, slot1) ==
        IF Ok(t) THEN Unlink(sfs_dir_unlink(AddLink(t, g1, 1), slot1), g1, t.slot) ELSE t
      Move(t, g1) ==
        Decref(Relinked(Then(Unless(t, Inode(t, g1).type # "file"),
                             LAMBDA u : sfs_dir_link(u, n2, g1)), g1, t.slot), g1)
  IN Then(sfs_lookonce(s, n1), LAMBDA t : Move(t, t.blk))

-----------------------------------------------------------------------------
(* The operations of the file system.  order is the order of sfs_vnodes:   *)
(* the one the vnodes were loaded in, which may be any.                    *)
sfs_sync_vnodes(s, order) == FoldLeft(sfs_sync_inode, s, order)

sfs_sync_freemap(s) ==
  IF s.fdirty
  THEN [sfs_writeblock(s, SFS_FREEMAP_START, MapBlock(s.used)) EXCEPT !.fdirty = FALSE]
  ELSE s

sfs_sync(s, order) == sfs_sync_freemap(sfs_sync_vnodes(s, order))

(* vfs_unmount syncs first; files still loaded keep the volume mounted.    *)
sfs_unmount(s, order) ==
  LET t == sfs_sync(s, order)
  IN IF Loaded(t) # {} THEN Fail(t, "EBUSY") ELSE Unless(t, t.fdirty)

(* The superblock and the free block map are read.                         *)
sfs_domount(s) ==
  LET Map(t) == [t EXCEPT !.used = t.disk[SFS_FREEMAP_START].used, !.fdirty = FALSE]
  IN Then(sfs_readblock(s, SFS_SUPER_BLOCK), LAMBDA t :
       Then(sfs_readblock(t, SFS_FREEMAP_START), Map))

=============================================================================
