--------------------------- MODULE FrackWorkloads ---------------------------
(***************************************************************************)
(* The workloads of userland/testbin/frack: each is the sequence of file   *)
(* system calls that frack makes in "do" mode and replays in "check" mode. *)
(* A call is a tuple whose head is the name of its op_* function.  A       *)
(* struct file of a workload is a slot: tmp for the variable f, i for      *)
(* files[i].  A workload that draws random numbers is the set of the       *)
(* sequences it can draw.                                                  *)
(*                                                                         *)
(* Bounds: a block has BLOCKSIZE units and an inode ndb direct blocks, an  *)
(* indirect block dbperidb; Many stands for the 27 and Few for the 14      *)
(* files of a loop, MaxDraws for the 100 to 200 random operations, Things  *)
(* for the branching of the canned tree, Kept for the file numbers that    *)
(* the loops of makesubtree visit, AppendBlocks for the 4 or 6 blocks of   *)
(* an append, and RandFiles, RandPos, RandLen and RandTrunc for the        *)
(* files, positions, lengths and sizes that are drawn.                     *)
(***************************************************************************)
EXTENDS Integers, Sequences, SequencesExt, FiniteSets

CONSTANTS BLOCKSIZE, ndb, dbperidb, DATA_MAXSIZE,
          Many, Few, MaxDraws, Things, Kept, AppendBlocks,
          RandFiles, RandPos, RandLen, RandTrunc

tmp == 0 - 1

sizeblocks(sz) ==
  CASE sz = "one"       -> 1
    [] sz = "small"     -> ndb
    [] sz = "medium"    -> ndb + dbperidb \div 2
    [] sz = "large"     -> ndb + dbperidb + (dbperidb * dbperidb) \div 2
    [] sz = "largeplus" -> ndb + dbperidb + dbperidb * dbperidb
                               + dbperidb \div 2

sizebytes(sz) == BLOCKSIZE * sizeblocks(sz)

strtosize == {"small", "medium", "large"}

nextsmallersize(sz) ==
  CASE sz = "small" -> "one" [] sz = "medium" -> "small"
    [] sz = "large" -> "medium" [] sz = "largeplus" -> "large"

nextlargersize(sz) ==
  CASE sz = "one" -> "small" [] sz = "small" -> "medium"
    [] sz = "medium" -> "large" [] sz = "large" -> "largeplus"

randsize == {"one", "small", "medium"}

(***************************************************************************)
(* The calls.                                                              *)
(***************************************************************************)
op_open(f, code, n)   == <<<<"open", f, n, code>>>>
op_create(f, code, n) == <<<<"create", f, n, code>>>>
\* With O_TRUNC: one open(2) of "do", an open and a truncate of "check".
op_opentrunc(f, code, n) == <<<<"opentrunc", f, n, code>>>>
op_close(f)           == <<<<"close", f>>>>
op_truncate(f, len)   == <<<<"truncate", f, len>>>>
op_sync               == <<<<"sync">>>>
op_mkdir(n)           == <<<<"mkdir", n>>>>
op_rmdir(n)           == <<<<"rmdir", n>>>>
op_unlink(n)          == <<<<"unlink", n>>>>
op_link(from, to)     == <<<<"link", from, to>>>>
op_rename(from, to)   == <<<<"rename", from, to>>>>
op_renamexd(fd, from, td, to) == <<<<"renamexd", fd, from, td, to>>>>
op_chdir(n)           == <<<<"chdir", n>>>>
op_chdirup            == <<<<"chdirup">>>>
\* An open directory has no part in the check.
op_opendir(n)         == <<>>
op_closedir           == <<>>

\* op_write cuts a write into pieces of DATA_MAXSIZE.
op_write(f, pos, len) ==
  LET n == (len + DATA_MAXSIZE - 1) \div DATA_MAXSIZE
  IN  [i \in 1..n |->
        LET at == (i - 1) * DATA_MAXSIZE
        IN  <<"write", f, pos + at,
              IF len - at > DATA_MAXSIZE THEN DATA_MAXSIZE ELSE len - at>>]

Each(lo, hi, F(_)) == FlattenSeq([k \in 1..(hi - lo + 1) |-> F(lo + k - 1)])

\* What follows each of two sets of sequences.
Then(A, B) == {a \o b : a \in A, b \in B}

file_randomwrite(f, sz, startskip, endskip) ==
  LET n  == sizeblocks(sz) - (startskip + endskip)
      At == {op_write(f, BLOCKSIZE * (startskip + b), BLOCKSIZE) : b \in 0..(n-1)}
  IN  Then(At, At)

writeemptyfile(n) == op_create(tmp, 0, n) \o op_close(tmp)

writenewfile(code, n, sz) ==
  op_create(tmp, code, n) \o op_write(tmp, 0, sizebytes(sz)) \o op_close(tmp)

writeoutfile(code, n, sz) ==
  op_open(tmp, code, n) \o op_write(tmp, 0, sizebytes(sz)) \o op_close(tmp)

truncoutfile(code, n, sz) ==
  op_opentrunc(tmp, code, n)
    \o op_write(tmp, 0, sizebytes(sz)) \o op_close(tmp)

writeholeyfile(code, n, sz) ==
  op_create(tmp, code, n) \o op_write(tmp, 0, BLOCKSIZE)
    \o op_write(tmp, sizebytes(sz) - BLOCKSIZE, BLOCKSIZE) \o op_close(tmp)

makesubtree(code, n) ==
  LET Item(i, dirs) == IF i \notin Kept THEN <<>>
                       ELSE IF i \in dirs THEN op_mkdir(i)
                       ELSE writenewfile(code, i, "one")
  IN  op_mkdir(n) \o op_chdir(n)
        \o Each(0, 6, LAMBDA i : Item(i, {2, 5}))
        \o op_chdir(2) \o Each(3, 6, LAMBDA i : Item(i, {})) \o op_chdirup
        \o op_chdir(5) \o Each(3, 7, LAMBDA i : Item(i, {6}))
        \o op_chdir(6) \o Each(7, 8, LAMBDA i : Item(i, {}))
        \o op_chdirup \o op_chdirup \o op_chdirup

(***************************************************************************)
(* Writing and truncating: the file is made and synced, then changed.      *)
(***************************************************************************)
wl_createwrite(sz) == {writenewfile(1, 0, sz)}

wl_rewrite(sz) == {writenewfile(2, 0, sz) \o op_sync \o writeoutfile(3, 0, sz)}

wl_randupdate(sz) ==
  Then(Then({writenewfile(4, 0, sz) \o op_sync \o op_open(tmp, 5, 0)},
            file_randomwrite(tmp, sz, 0, 0)), {op_close(tmp)})

wl_truncwrite(sz) ==
  {writenewfile(6, 0, sz) \o op_sync \o truncoutfile(6, 0, sz)}

wl_makehole(sz) == {writeholeyfile(8, 0, sz)}

\* A file of two blocks has no hole: sizeblocks must exceed the skips.
wl_fillhole(sz) ==
  IF sizeblocks(sz) <= 2 THEN {}
  ELSE Then(Then({writeholeyfile(9, 0, sz) \o op_sync \o op_open(tmp, 10, 0)},
                 file_randomwrite(tmp, sz, 1, 1)), {op_close(tmp)})

wl_truncfill(sz) ==
  Then(Then({op_create(tmp, 11, 0) \o op_truncate(tmp, sizebytes(sz))
               \o op_close(tmp) \o op_sync \o op_open(tmp, 11, 0)},
            file_randomwrite(tmp, sz, 0, 0)), {op_close(tmp)})

wl_append(sz) ==
  {writenewfile(11, 0, sz) \o op_sync \o op_open(tmp, 12, 0)
     \o op_write(tmp, sizebytes(sz), BLOCKSIZE * AppendBlocks) \o op_close(tmp)}

\* The common shape of the workloads that truncate.
Truncating(sz, change) ==
  {writenewfile(50, 0, sz) \o op_sync \o op_open(tmp, 50, 0)
     \o change \o op_close(tmp)}

wl_trunczero(sz) == Truncating(sz, op_truncate(tmp, 0))

wl_trunconeblock(sz) ==
  Truncating(sz, op_truncate(tmp, sizebytes(sz) - BLOCKSIZE))

wl_truncsmallersize(sz) ==
  Truncating(sz, op_truncate(tmp, sizebytes(nextsmallersize(sz))))

wl_trunclargersize(sz) ==
  Truncating(sz, op_truncate(tmp, sizebytes(nextlargersize(sz))))

wl_appendandtrunczero(sz) ==
  Truncating(sz, op_write(tmp, sizebytes(sz), BLOCKSIZE * AppendBlocks)
                   \o op_truncate(tmp, 0))

wl_appendandtruncpartly(sz) ==
  Truncating(sz, op_write(tmp, sizebytes(sz), BLOCKSIZE * AppendBlocks)
                   \o op_truncate(tmp, sizebytes(sz)
                                         + BLOCKSIZE * (AppendBlocks \div 2)))

SizeWorkloads ==
  UNION {wl_createwrite(sz) \cup wl_rewrite(sz) \cup wl_randupdate(sz)
           \cup wl_truncwrite(sz) \cup wl_makehole(sz) \cup wl_fillhole(sz)
           \cup wl_truncfill(sz) \cup wl_append(sz) \cup wl_trunczero(sz)
           \cup wl_trunconeblock(sz) \cup wl_truncsmallersize(sz)
           \cup wl_trunclargersize(sz) \cup wl_appendandtrunczero(sz)
           \cup wl_appendandtruncpartly(sz) : sz \in strtosize}

(***************************************************************************)
(* Making and removing files and directories.                              *)
(***************************************************************************)
ManyFiles(code, n, sz) == Each(0, n - 1, LAMBDA i : writenewfile(code, i, sz))
ManyDirs(n)            == Each(0, n - 1, LAMBDA i : op_mkdir(i))
Unlinks(n)             == Each(0, n - 1, LAMBDA i : op_unlink(i))
Rmdirs(n)              == Each(0, n - 1, LAMBDA i : op_rmdir(i))

wl_mkfile     == {writenewfile(100, 0, "one")}
wl_mkdir      == {op_mkdir(0)}
wl_mkmanyfile == {ManyFiles(101, Many, "one")}
wl_mkmanydir  == {ManyDirs(Many)}

RECURSIVE wl_mktree_sub(_, _)
wl_mktree_sub(code, depth) ==
  Each(0, Things - 1, LAMBDA i :
    IF i < depth THEN writenewfile(code, i, "one")
    ELSE op_mkdir(i) \o
         (IF depth < Things
          THEN op_chdir(i) \o wl_mktree_sub(code, depth + 1) \o op_chdirup
          ELSE <<>>))

RECURSIVE wl_rmtree_sub(_)
wl_rmtree_sub(depth) ==
  Each(0, Things - 1, LAMBDA i :
    IF i < depth THEN op_unlink(i)
    ELSE (IF depth < Things
          THEN op_chdir(i) \o wl_rmtree_sub(depth + 1) \o op_chdirup
          ELSE <<>>) \o op_rmdir(i))

wl_mktree == {wl_mktree_sub(102, 0)}

\* The trees of at most ct things that mkrandtree_sub can draw, each with what
\* rmrandtree_sub, which draws the same numbers, does to it.
RECURSIVE randtree_sub(_, _, _, _)
randtree_sub(code, depth, ct, numhere) ==
  IF ct = 0 THEN {[left |-> 0, mk |-> <<>>, rm |-> <<>>]}
  ELSE (IF depth > 0 THEN {[left |-> ct, mk |-> <<>>, rm |-> <<>>]} ELSE {})
       \cup {[left |-> t.left,
              mk |-> writenewfile(code, numhere, "one") \o t.mk,
              rm |-> op_unlink(numhere) \o t.rm] :
                t \in randtree_sub(code, depth, ct - 1, numhere + 1)}
       \cup UNION {{[left |-> t.left,
                     mk |-> op_mkdir(numhere) \o op_chdir(numhere) \o d.mk
                              \o op_chdirup \o t.mk,
                     rm |-> op_chdir(numhere) \o d.rm \o op_chdirup
                              \o op_rmdir(numhere) \o t.rm] :
                       t \in randtree_sub(code, depth, d.left, numhere + 1)} :
                    d \in randtree_sub(code, depth + 1, ct - 1, 0)}

wl_mkrandtree == {t.mk : t \in randtree_sub(103, 0, MaxDraws, 0)}
wl_rmrandtree == {t.mk \o op_sync \o t.rm : t \in randtree_sub(157, 0, MaxDraws, 0)}

wl_rmfile == {writenewfile(150, 0, "one") \o writeemptyfile(1) \o op_sync
                \o op_unlink(0)}
wl_rmdir  == {op_mkdir(0) \o writeemptyfile(1) \o op_sync \o op_rmdir(0)}

wl_rmfiledelayed ==
  {writenewfile(151, 0, "one") \o writeemptyfile(1) \o op_sync
     \o op_open(tmp, 151, 0) \o op_unlink(0) \o op_close(tmp)}

wl_rmfiledelayedappend ==
  {writenewfile(152, 0, "small") \o writeemptyfile(1) \o op_sync
     \o op_open(tmp, 152, 0) \o op_unlink(0)
     \o op_write(tmp, sizebytes("small"), AppendBlocks * BLOCKSIZE)
     \o op_close(tmp)}

wl_rmdirdelayed ==
  {op_mkdir(0) \o writeemptyfile(1) \o op_sync \o op_opendir(0)
     \o op_rmdir(0) \o op_closedir}

wl_rmmanyfile ==
  {ManyFiles(153, Many, "one") \o writeemptyfile(Many) \o op_sync
     \o Unlinks(Many)}

OpenAll(code, n) == Each(0, n - 1, LAMBDA i : op_open(i, code, i))

wl_rmmanyfiledelayed ==
  {ManyFiles(154, Many, "one") \o writeemptyfile(Many) \o op_sync
     \o OpenAll(154, Many) \o Unlinks(Many)
     \o Each(0, Many - 1, LAMBDA i : op_close(i))}

\* The loop that appends to file i and closes one or two files from j on.
RECURSIVE AppendAndClose(_, _)
AppendAndClose(i, j) ==
  IF j >= Many THEN <<>>
  ELSE LET i2 == IF i < Many THEN i + 1 ELSE i
       IN  (IF i < Many
            THEN op_write(i, sizebytes("small"), AppendBlocks * BLOCKSIZE)
            ELSE <<>>)
           \o op_close(j)
           \o (IF j + 1 < i2
               THEN op_close(j + 1) \o AppendAndClose(i2, j + 2)
               ELSE AppendAndClose(i2, j + 1))

wl_rmmanyfiledelayedandappend ==
  {ManyFiles(155, Many, "small") \o writeemptyfile(Many) \o op_sync
     \o OpenAll(155, Many) \o Unlinks(Many)
     \o Each(0, (Many \div 2) - 1, LAMBDA i :
               op_write(i, sizebytes("small"), AppendBlocks * BLOCKSIZE))
     \o Each(0, (Many \div 4) - 1, LAMBDA j : op_close(j))
     \o AppendAndClose(Many \div 2, Many \div 4)}

wl_rmmanydir ==
  {ManyDirs(Many) \o writeemptyfile(Many) \o op_sync \o Rmdirs(Many)}

wl_rmmanydirdelayed ==
  {ManyDirs(Many) \o writeemptyfile(Many) \o op_sync
     \o Each(0, Many - 1, LAMBDA i : op_opendir(i)) \o Rmdirs(Many)
     \o Each(0, Many - 1, LAMBDA i : op_closedir)}

wl_rmtree == {wl_mktree_sub(156, 0) \o op_sync \o wl_rmtree_sub(0)}

MakeRemoveWorkloads ==
  wl_mkfile \cup wl_mkdir \cup wl_mkmanyfile \cup wl_mkmanydir \cup wl_mktree
    \cup wl_mkrandtree \cup wl_rmfile \cup wl_rmdir \cup wl_rmfiledelayed
    \cup wl_rmfiledelayedappend \cup wl_rmdirdelayed \cup wl_rmmanyfile
    \cup wl_rmmanyfiledelayed \cup wl_rmmanyfiledelayedandappend
    \cup wl_rmmanydir \cup wl_rmmanydirdelayed \cup wl_rmtree
    \cup wl_rmrandtree

(***************************************************************************)
(* Hard links and renames.                                                 *)
(***************************************************************************)
Links(n) == Each(0, n - 1, LAMBDA i : op_link(i, n + i))

wl_linkfile == {writenewfile(200, 0, "one") \o op_sync \o op_link(0, 1)}

wl_linkmanyfile == {ManyFiles(201, Few, "one") \o op_sync \o Links(Few)}

wl_unlinkfile ==
  {writenewfile(202, 0, "one") \o op_link(0, 1) \o writeemptyfile(2)
     \o op_sync \o op_unlink(1)}

wl_unlinkmanyfile ==
  {ManyFiles(203, Few, "one") \o Links(Few) \o writeemptyfile(2 * Few)
     \o op_sync
     \o Each(0, Few - 1, LAMBDA i :
               op_unlink(IF i < Few \div 2 THEN i ELSE Few + i))}

wl_linkunlinkfile ==
  {writenewfile(204, 0, "one") \o op_sync \o op_link(0, 1) \o op_unlink(1)}

wl_renamefile ==
  {writenewfile(250, 0, "one") \o writeemptyfile(2) \o op_sync \o op_rename(0, 1)}

wl_renamedir ==
  {op_mkdir(0) \o writeemptyfile(2) \o op_sync \o op_rename(0, 1)}

wl_renamesubtree ==
  {makesubtree(251, 0) \o writeemptyfile(2) \o op_sync \o op_rename(0, 1)}

\* Something made in directory 0 moves to directory 1.
Across(make) ==
  {op_mkdir(0) \o op_mkdir(1) \o op_chdir(0) \o make \o op_chdirup
     \o op_sync \o op_renamexd(0, 2, 1, 3)}

wl_renamexdfile    == Across(writenewfile(252, 2, "one"))
wl_renamexddir     == Across(op_mkdir(2))
wl_renamexdsubtree == Across(makesubtree(253, 2))

\* Things 0, 1, ... are made and then renamed one by one.
RenamesOf(make(_)) ==
  {Each(0, Few - 1, make) \o writeemptyfile(2 * Few) \o op_sync
     \o Each(0, Few - 1, LAMBDA i : op_rename(i, Few + i))}

wl_renamemanyfile    == RenamesOf(LAMBDA i : writenewfile(254, i, "one"))
wl_renamemanydir     == RenamesOf(op_mkdir)
wl_renamemanysubtree == RenamesOf(LAMBDA i : makesubtree(255, i))

wl_copyandrename ==
  {writenewfile(300, 0, "medium") \o writeemptyfile(2) \o op_sync
     \o writenewfile(301, 1, "medium") \o op_rename(1, 0)}

wl_untar == {makesubtree(302, 0)}

LinkRenameWorkloads ==
  wl_linkfile \cup wl_linkmanyfile \cup wl_unlinkfile \cup wl_unlinkmanyfile
    \cup wl_linkunlinkfile \cup wl_renamefile \cup wl_renamedir
    \cup wl_renamesubtree \cup wl_renamexdfile \cup wl_renamexddir
    \cup wl_renamexdsubtree \cup wl_renamemanyfile \cup wl_renamemanydir
    \cup wl_renamemanysubtree \cup wl_copyandrename \cup wl_untar

(***************************************************************************)
(* Sequences of operations drawn at random.                                *)
(***************************************************************************)
randwrite(f)    == {op_write(f, pos, len) : pos \in RandPos, len \in RandLen}
randtruncate(f) == {op_truncate(f, len) : len \in RandTrunc}

\* n draws of a file, opened when first drawn, and of a change to it.
RECURSIVE FileDraws(_, _, _, _)
FileDraws(code, open, n, dotrunc) ==
  IF n = 0 THEN {<<>>}
  ELSE UNION {Then(Then({IF f \in open THEN <<>> ELSE op_create(f, code, f)},
                        randwrite(f) \cup IF dotrunc THEN randtruncate(f) ELSE {}),
                   FileDraws(code, open \cup {f}, n - 1, dotrunc)) :
              f \in 0..(RandFiles - 1)}

\* Half the files exist beforehand.
Prepared(code) ==
  {ManyFiles(code, RandFiles \div 2, "medium") \o op_sync
     \o OpenAll(code + 1, RandFiles \div 2)}

wl_writefileseq ==
  Then(Prepared(350),
       FileDraws(351, 0..((RandFiles \div 2) - 1), MaxDraws, FALSE))

wl_writetruncseq ==
  Then(Prepared(352),
       FileDraws(353, 0..((RandFiles \div 2) - 1), MaxDraws, TRUE))

RECURSIVE mkrmseq(_, _)
mkrmseq(exists, n) ==
  IF n = 0 THEN {<<>>}
  ELSE UNION {IF f \in exists
              THEN Then({op_unlink(f)}, mkrmseq(exists \ {f}, n - 1))
              ELSE Then({writenewfile(354, f, "one")},
                        mkrmseq(exists \cup {f}, n - 1)) :
              f \in 0..(RandFiles - 1)}

wl_mkrmseq == mkrmseq({}, MaxDraws)

RECURSIVE linkunlinkseq(_, _)
linkunlinkseq(exists, n) ==
  IF n = 0 THEN {<<>>}
  ELSE UNION {IF f \in exists
              THEN Then({op_unlink(f + Few)}, linkunlinkseq(exists \ {f}, n - 1))
              ELSE Then({op_link(from, f + Few) : from \in 0..(Few - 1)},
                        linkunlinkseq(exists \cup {f}, n - 1)) :
              f \in 0..(Few - 1)}

wl_linkunlinkseq ==
  Then({ManyFiles(355, Few, "one") \o op_sync}, linkunlinkseq({}, MaxDraws))

RECURSIVE renameseq(_, _)
renameseq(exists, n) ==
  IF n = 0 THEN {<<>>}
  ELSE UNION {Then({op_rename(f, g)},
                   renameseq((exists \ {f}) \cup {g}, n - 1)) :
              f \in exists, g \in (0..(Many - 1)) \ exists}

wl_renameseq ==
  Then({ManyFiles(356, Many \div 3, "one") \o op_sync},
       renameseq(0..((Many \div 3) - 1), MaxDraws))

\* randop: exists says what each name is and open which names have an open
\* struct file, which a rename leaves where it is.
RECURSIVE randops(_, _, _, _, _)
randops(code, exists, open, dofileops, n) ==
  LET Names == DOMAIN exists
      Are(k) == {x \in Names : exists[x] = k}
      Goes(calls, ex, op) == Then(calls, randops(code, ex, op, dofileops, n - 1))
      Opened(x) == IF x \in open THEN <<>> ELSE op_open(x, code, x)
  IN  IF n = 0 THEN {<<>>}
      ELSE UNION (
        {Goes({writenewfile(code, x, sz) :
                 sz \in IF dofileops THEN randsize ELSE {"one"}},
              [exists EXCEPT ![x] = "file"], open) : x \in Are("isnt")}
        \cup {Goes({op_mkdir(x)}, [exists EXCEPT ![x] = "dir"], open) :
                 x \in Are("isnt")}
        \cup {Goes({op_unlink(x) \o (IF x \in open THEN op_close(x) ELSE <<>>)},
                   [exists EXCEPT ![x] = "isnt"], open \ {x}) : x \in Are("file")}
        \cup {Goes({op_rmdir(x)}, [exists EXCEPT ![x] = "isnt"], open) :
                 x \in Are("dir")}
        \cup {Goes({op_rename(p[1], p[2])},
                   [exists EXCEPT ![p[1]] = "isnt", ![p[2]] = exists[p[1]]], open) :
                 p \in {q \in Names \X Names :
                          /\ q[1] # q[2]
                          /\ exists[q[1]] # "isnt"
                          /\ exists[q[2]] \in {"isnt", exists[q[1]]}}}
        \cup (IF ~dofileops THEN {}
              ELSE {Goes(Then({Opened(x)}, randtruncate(x) \cup randwrite(x)),
                         exists, open \cup {x}) : x \in Are("file")}))

\* prep: a quarter of the names are files, a third of them directories.
prep(code, numfiles) ==
  LET q == numfiles \div 4
      t == numfiles \div 3
  IN  [calls  |-> ManyFiles(code, q, "one")
                    \o Each(q, q + t - 1, LAMBDA i : op_mkdir(i)) \o op_sync,
       exists |-> [x \in 0..(numfiles - 1) |->
                     IF x < q THEN "file" ELSE IF x < q + t THEN "dir" ELSE "isnt"]]

wl_diropseq ==
  LET pr == prep(357, 4)
  IN  Then({pr.calls}, randops(357, pr.exists, {}, FALSE, MaxDraws))

wl_genseq ==
  LET pr == prep(358, 4)
  IN  Then({pr.calls}, randops(358, pr.exists, {}, TRUE, MaxDraws))

RandomWorkloads ==
  wl_writefileseq \cup wl_writetruncseq \cup wl_mkrmseq \cup wl_linkunlinkseq
    \cup wl_renameseq \cup wl_diropseq \cup wl_genseq
=============================================================================
