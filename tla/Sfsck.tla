------------------------------- MODULE Sfsck --------------------------------
(***************************************************************************)
(* sfsck, the program that checks and repairs an SFS volume                *)
(* (userland/sbin/sfsck).  It is a function from the volume it finds to    *)
(* the one it leaves and its exit code.  Its state f holds                 *)
(*   disk             the volume                                           *)
(*   inuse, tofree    freemapdata and tofreedata                           *)
(*   type, links      the table of inodes: what was seen, and how often    *)
(*   visited          the directories pass 2 has been to                   *)
(*   bad, dead        badness; it gave up, with errx or a failed assertion *)
(*   uid              uniquecounter                                        *)
(*   io, stop         the blocks written so far, and how many get written  *)
(*                    before the machine stops                             *)
(*                                                                         *)
(* The superblock is taken to be right.  A directory is a multiple of an   *)
(* entry long.                                                             *)
(***************************************************************************)
EXTENDS Sfs

Dot == <<".">>
DotDot == <<"..">>
FsckName(ino, uid) == <<"FSCK", ino, uid>>

EXIT_CLEAN == 0
EXIT_RECOV == 1
EXIT_UNRECOV == 2

setbadness(f, code) == [f EXCEPT !.bad = IF @ < code THEN code ELSE @]
Bad(f, code, cond) == IF cond THEN setbadness(f, code) ELSE f
Assert0(f, cond) == IF cond THEN f ELSE [f EXCEPT !.dead = TRUE]

diskwrite(f, b, c) ==
  [f EXCEPT !.io = @ + 1, !.disk[b] = IF f.io < f.stop /\ ~f.dead THEN c ELSE @]

-----------------------------------------------------------------------------
(* freemap.c.  A block that is in use twice cannot be repaired.            *)
freemap_blockinuse(f, b) ==
  [Bad(f, EXIT_UNRECOV, b \in f.inuse) EXCEPT !.inuse = @ \cup {b}, !.tofree = @ \ {b}]
freemap_blockfree(f, b) ==
  [f EXCEPT !.tofree = IF b \in f.inuse THEN @ ELSE @ \cup {b}]

freemap_setup(disk, stop) ==
  [disk |-> disk, inuse |-> {SFS_SUPER_BLOCK, SFS_FREEMAP_START}, tofree |-> {},
   type |-> [b \in Block |-> "none"], links |-> [b \in Block |-> 0], visited |-> {},
   bad |-> EXIT_CLEAN, dead |-> FALSE, uid |-> 0, io |-> 0, stop |-> stop]

freemap_check(f) ==
  LET actual == f.disk[SFS_FREEMAP_START].used \ f.tofree
      g == Bad(f, EXIT_RECOV, actual # f.inuse)
  IN IF f.disk[SFS_FREEMAP_START].used = f.inuse THEN f
     ELSE diskwrite(g, SFS_FREEMAP_START, MapBlock(f.inuse))

-----------------------------------------------------------------------------
(* Pass 1: the blocks of the inode that is being looked at.  A pointer out *)
(* of the volume is cleared, a block past the end of the file is freed.    *)
(* Mutant: blocks past the end are not told apart.                         *)
NeverPast(k, fileblocks) == FALSE
PastEOF(k, fileblocks) == k >= fileblocks

CheckBlock(f, b, k, fileblocks) ==
  CASE b >= NBLOCKS -> setbadness(f, EXIT_RECOV)
    [] b \in 1 .. NBLOCKS - 1 /\ PastEOF(k, fileblocks) ->
         freemap_blockfree(setbadness(f, EXIT_RECOV), b)
    [] b \in 1 .. NBLOCKS - 1 /\ ~PastEOF(k, fileblocks) -> freemap_blockinuse(f, b)
    [] OTHER -> f
Kept(b, k, fileblocks) == IF b < NBLOCKS /\ ~PastEOF(k, fileblocks) THEN b ELSE 0

CheckBlocks(f, w, base, fileblocks) ==
  FoldLeft(LAMBDA g, j : CheckBlock(g, w[j], base + j - 1, fileblocks), f, [j \in DOMAIN w |-> j])
KeptBlocks(w, base, fileblocks) == [j \in DOMAIN w |-> Kept(w[j], base + j - 1, fileblocks)]

(* An indirect block that names nothing is dropped; it was already counted *)
(* as in use, so freemap_blockfree does not free it.                       *)
check_indirect_block(f, b, fileblocks) ==
  LET w == AsInd(f.disk[b])
      left == KeptBlocks(w, NDIRECT, fileblocks)
      g == CheckBlocks(freemap_blockinuse(f, b), w, NDIRECT, fileblocks)
  IN CASE left = Zeros(DBPERIDB) -> freemap_blockfree(setbadness(g, EXIT_RECOV), b)
       [] left # Zeros(DBPERIDB) /\ left # w -> diskwrite(g, b, IndBlock(left))
       [] OTHER -> g

Units(i) == IF i.type = "dir" THEN DIRPERBLOCK ELSE BLOCKSIZE

check_indirect(f, b, fileblocks) ==
  CASE b >= NBLOCKS -> setbadness(f, EXIT_RECOV)
    [] b = 0 -> f
    [] OTHER -> check_indirect_block(f, b, fileblocks)

(* The pointers of the inode i that stay in it.                            *)
Trimmed(f, i, fileblocks) ==
  [i EXCEPT !.direct = KeptBlocks(@, 0, fileblocks),
            !.indirect =
              IF /\ @ \in 1 .. NBLOCKS - 1
                 /\ KeptBlocks(AsInd(f.disk[@]), NDIRECT, fileblocks) # Zeros(DBPERIDB)
              THEN @ ELSE 0]

check_inode_blocks(f, ino) ==
  LET Rewrite(g, i, j) == IF i = j THEN g ELSE diskwrite(g, ino, j)
      Checked(i, fileblocks) ==
        Rewrite(check_indirect(CheckBlocks(f, i.direct, 0, fileblocks), i.indirect, fileblocks),
                i, Trimmed(f, i, fileblocks))
      Blocks(i) == (i.size + Units(i) - 1) \div Units(i)
  IN Checked(AsInode(f.disk[ino]), Blocks(AsInode(f.disk[ino])))

(* An inode met before has been checked already.                           *)
pass1_inode(f, ino) ==
  LET t == AsInode(f.disk[ino]).type
  IN IF f.type[ino] # "none" THEN Assert0(f, f.type[ino] = t)
     ELSE check_inode_blocks(freemap_blockinuse([f EXCEPT !.type[ino] = t], ino), ino)

-----------------------------------------------------------------------------
(* Directories, read and written as a whole.  A piece of a directory that  *)
(* has no block reads as empty and can only be written if it stays so.     *)
ReadDir(disk, i) == [n \in 1 .. i.size |-> DirEntry(disk, i, n - 1)]

WriteDirBlock(f, i, d, k) ==
  LET e == [n \in 1 .. DIRPERBLOCK |->
              IF k * DIRPERBLOCK + n <= Len(d) THEN d[k * DIRPERBLOCK + n] ELSE NoEntry]
      b == BlockOf(f.disk, i, k)
  IN IF b # 0 THEN diskwrite(f, b, DirBlock(e))
     ELSE Bad(f, EXIT_UNRECOV, \E n \in DOMAIN e : e[n] # NoEntry)

WriteDir(f, i, d) ==
  FoldLeft(LAMBDA g, k : WriteDirBlock(g, i, d, k - 1), f,
           [k \in 1 .. (Len(d) + DIRPERBLOCK - 1) \div DIRPERBLOCK |-> k])

(* A state and the directory in memory, carried through the slots of it.   *)
With(f, d) == [f |-> f, d |-> d]
EachSlot(Step(_, _), f, d) == FoldLeft(Step, With(f, d), [n \in DOMAIN d |-> n])

pass1_direntry(x, n) ==
  LET e == x.d[n]
      f == setbadness(x.f, EXIT_RECOV)
  IN CASE e.ino = SFS_NOINO /\ e.name # <<>> -> With(f, [x.d EXCEPT ![n] = NoEntry])
       [] e.ino >= NBLOCKS -> With(f, [x.d EXCEPT ![n] = NoEntry])
       [] e.ino \in 1 .. NBLOCKS - 1 /\ e.name = <<>> ->
            With([f EXCEPT !.uid = @ + 1],
                 [x.d EXCEPT ![n].name = FsckName(e.ino, f.uid)])
       [] OTHER -> x

Special(e) == e.ino = SFS_NOINO \/ e.name \in {Dot, DotDot}

RECURSIVE pass1_dir(_, _)
pass1_dir(f, ino) ==
  LET Entry(x, n, sub, type) ==
        CASE Special(x.d[n]) -> x
          [] ~Special(x.d[n]) /\ type = "file" -> [x EXCEPT !.f = pass1_inode(@, sub)]
          [] ~Special(x.d[n]) /\ type = "dir" -> [x EXCEPT !.f = pass1_dir(@, sub)]
          [] OTHER -> With(setbadness(x.f, EXIT_RECOV), [x.d EXCEPT ![n] = NoEntry])
      Visit(x, n) == Entry(x, n, x.d[n].ino, AsInode(x.f.disk[x.d[n].ino]).type)
      Visited(x) == EachSlot(Visit, x.f, x.d)
      Rewrite(x, i, d) == IF x.d = d THEN x.f ELSE WriteDir(x.f, i, x.d)
      Slots1(g, i, d) == Rewrite(Visited(EachSlot(pass1_direntry, g, d)), i, d)
      Dir(g, i) == Slots1(g, i, ReadDir(g.disk, i))
      Inode1(g) == IF f.type[ino] # "none" THEN g ELSE Dir(g, AsInode(g.disk[ino]))
  IN Inode1(pass1_inode(f, ino))

pass1(f) ==
  LET i == AsInode(f.disk[SFS_ROOTDIR_INO])
      fixed == diskwrite(setbadness(f, EXIT_RECOV), SFS_ROOTDIR_INO, [i EXCEPT !.type = "dir"])
  IN pass1_dir(IF i.type = "dir" THEN f ELSE fixed, SFS_ROOTDIR_INO)

-----------------------------------------------------------------------------
(* Pass 2: of two entries with one name the first is merged with the other *)
(* if they name one inode, and renamed if they do not.                     *)
Duplicate(x, n) ==
  LET e == x.d[n]
      later == {m \in DOMAIN x.d : m > n /\ x.d[m].ino # SFS_NOINO /\ x.d[m].name = e.name}
      f == setbadness(x.f, EXIT_RECOV)
  IN CASE e.ino = SFS_NOINO \/ later = {} -> x
       [] e.ino # SFS_NOINO /\ later # {} /\ x.d[Min(later)].ino = e.ino ->
            With(f, [x.d EXCEPT ![n] = NoEntry])
       [] OTHER -> With([f EXCEPT !.uid = @ + 1], [x.d EXCEPT ![n].name = FsckName(e.ino, f.uid)])

(* The entry n of the directory for the inode ino: put right if it is      *)
(* there, else put into an empty slot, or after the others if the last     *)
(* block has room.                                                         *)
Dots(x, n, ino) ==
  LET at == {m \in DOMAIN x.d : x.d[m].name = n}
      empty == {m \in DOMAIN x.d : x.d[m].ino = SFS_NOINO}
      e == [ino |-> ino, name |-> n]
      f == setbadness(x.f, EXIT_RECOV)
  IN CASE at # {} ->
            IF \A m \in at : x.d[m].ino = ino THEN x
            ELSE With(Assert0(f, Cardinality(at) = 1),
                      [m \in DOMAIN x.d |-> IF m \in at THEN e ELSE x.d[m]])
       [] at = {} /\ empty # {} -> With(f, [x.d EXCEPT ![Min(empty)] = e])
       [] at = {} /\ empty = {} /\ Len(x.d) % DIRPERBLOCK # 0 -> With(f, [m \in 1 .. Len(x.d) + 1 |-> IF m > Len(x.d) THEN e ELSE x.d[m]])
       [] OTHER -> [x EXCEPT !.f = setbadness(@, EXIT_UNRECOV)]

inode_addlink(f, ino) ==
  [Assert0(setbadness(f, IF f.type[ino] = "none" THEN EXIT_UNRECOV ELSE EXIT_CLEAN),
           f.type[ino] = "file") EXCEPT !.links[ino] = @ + 1]

(* A directory reached a second time is a crosslink, and is removed.       *)
RECURSIVE pass2_dir(_, _, _)
pass2_dir(f, ino, parent) ==
  LET Entry(x, n, sub, type) ==
        CASE Special(x.d[n]) \/ x.f.dead -> x
          [] ~Special(x.d[n]) /\ ~x.f.dead /\ type = "file" ->
               [x EXCEPT !.f = inode_addlink(@, sub)]
          [] ~Special(x.d[n]) /\ ~x.f.dead /\ type = "dir" /\ sub \notin x.f.visited ->
               [x EXCEPT !.f = pass2_dir(Assert0(@, @.type[sub] = "dir"), sub, ino)]
          [] OTHER -> With(setbadness(x.f, EXIT_RECOV), [x.d EXCEPT ![n] = NoEntry])
      Visit(x, n) == Entry(x, n, x.d[n].ino, AsInode(x.f.disk[x.d[n].ino]).type)
      Visited(x) == EachSlot(Visit, x.f, x.d)
      Subdirs(x) == {n \in DOMAIN x.d : ~Special(x.d[n])
                                        /\ AsInode(x.f.disk[x.d[n].ino]).type = "dir"}
      WriteInode(g, i, j) ==
        IF i = j THEN g ELSE diskwrite(Bad(g, EXIT_RECOV, i.link # j.link), ino, j)
      Write(x, i, j, d) == WriteInode(IF x.d = d THEN x.f ELSE WriteDir(x.f, j, x.d), i, j)
      Finish(x, i, d) ==
        IF f.dead \/ x.f.dead THEN x.f
        ELSE Write(x, i, [i EXCEPT !.size = Len(x.d), !.link = Cardinality(Subdirs(x)) + 2], d)
      Dir(i, d) ==
        Finish(Visited(Dots(Dots(EachSlot(Duplicate, [f EXCEPT !.visited = @ \cup {ino}], d),
                                 Dot, ino), DotDot, parent)), i, d)
      Whole(i) == Dir(i, ReadDir(f.disk, i))
  IN Whole(AsInode(f.disk[ino]))

pass2(f) == pass2_dir(f, SFS_ROOTDIR_INO, SFS_ROOTDIR_INO)

(* Pass 3: the link counts of the files.                                   *)
(* Mutant: only a count that is too low is put right.                      *)
OnlyRaise(have, links) == have < links
WrongLinks(have, links) == have # links

inode_adjust_filelinks(f) ==
  LET Adjust(g, b) ==
        LET i == AsInode(g.disk[b])
            seen == Assert0(g, f.links[b] > 0)
        IN CASE f.type[b] # "file" -> g
             [] f.type[b] = "file" /\ WrongLinks(i.link, f.links[b]) ->
                  diskwrite(setbadness(seen, EXIT_RECOV), b, [i EXCEPT !.link = f.links[b]])
             [] OTHER -> seen
  IN FoldLeft(Adjust, f, [n \in 1 .. NBLOCKS - 1 |-> n])

(* main.  stop is how many blocks get written before the machine stops.    *)
AfterPass2(f) == IF f.dead THEN f ELSE inode_adjust_filelinks(f)
AfterFreemap(f) == IF f.dead THEN f ELSE AfterPass2(pass2(f))
sfsck(disk, stop) == AfterFreemap(freemap_check(pass1(freemap_setup(disk, stop))))

=============================================================================
