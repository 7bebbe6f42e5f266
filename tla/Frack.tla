------------------------------- MODULE Frack -------------------------------
(***************************************************************************)
(* frack (userland/testbin/frack), the crash test of a file system.  "do"  *)
(* runs a workload on the volume until the machine crashes.  "check",      *)
(* after recovery, replays the workload into a log of changes, each a      *)
(* version of the volume, finds the version whose tree of names and sizes  *)
(* matches the volume best, and reads the files to see that they hold      *)
(* what that version or an earlier one of the same directories holds.      *)
(*                                                                         *)
(* The volume is external: a map from paths to objects, each call atomic,  *)
(* except that a crash may leave zeros where an unsynced write extended a  *)
(* file and may leave a rename between its two halves (what check.c itself *)
(* allows).  Recovery may also fail in one place: that is the damage frack *)
(* exists to find.                                                         *)
(*                                                                         *)
(* A byte is a tuple: <<>> is zero, <<code, seq, i>> byte i of the data    *)
(* of prepdata, Poison the byte SFS fills free blocks with, Trash another. *)
(***************************************************************************)
EXTENDS FrackWorkloads, FiniteSetsExt

CONSTANTS MaxLost      \* blocks a crash may zero

VARIABLES ops,         \* the workload
          vols,        \* the volume of "do" before each call and at the end
          model,       \* what the replay of "check" has built
          crash,       \* the number of calls made before the crash, -1 before
          volume,      \* the volume that "check" finds
          legal,       \* whether the recovery was sound
          complaints   \* what checkfs said

frackVars == <<ops, vols, model, crash, volume, legal, complaints>>

Zero   == <<>>
Poison == <<0 - 1>>
Trash  == <<0 - 2>>

With(f, x, v) == (x :> v) @@ f
Without(f, S)   == Restrict(f, DOMAIN f \ S)

(***************************************************************************)
(* The volume (external) and what do_* asks of it.  ents maps a path to    *)
(* <<"dir">> or <<"file", number>>, data a file to its bytes, ext a file   *)
(* to the positions whose last write extended the file and is not synced,  *)
(* grown to those whose last write extended it, synced or not.             *)
(***************************************************************************)
EmptyVolume == [ents |-> <<>> :> <<"dir">>, data |-> <<>>, ext |-> <<>>,
                grown |-> <<>>, cwd |-> <<>>, slots |-> <<>>]

InCwd(v, n)   == Append(v.cwd, n)
Under(v, p) == {q \in DOMAIN v.ents : IsPrefix(p, q)}

do_createfile(v, slot, n, code) ==
  LET f == Cardinality(DOMAIN v.data)
  IN  [v EXCEPT !.ents  = With(@, InCwd(v, n), <<"file", f>>),
                !.data  = With(@, f, <<>>),
                !.ext   = With(@, f, {}),
                !.grown = With(@, f, {}),
                !.slots = With(@, slot, [file |-> f, code |-> code, seq |-> 0])]

do_openfile(v, slot, n, code) ==
  [v EXCEPT !.slots = With(@, slot, [file |-> v.ents[InCwd(v, n)][2],
                                    code |-> code, seq |-> 0])]

\* The first n bytes, zeros after the end.
Sized(d, n) == SubSeq(d, 1, Min({n, Len(d)})) \o [i \in 1..(n - Len(d)) |-> Zero]

do_write(v, slot, pos, len) ==
  LET s   == v.slots[slot]
      d   == v.data[s.file]
      old == Len(d)
      end == pos + len
      written == (pos + 1)..end
  IN  [v EXCEPT
        !.data[s.file] = Sized(d, pos) \o [i \in 1..len |-> <<s.code, s.seq, i>>]
                           \o SubSeq(d, end + 1, old),
        !.ext[s.file]   = (@ \ written) \cup {i \in written : i > old},
        !.grown[s.file] = (@ \ written) \cup {i \in written : i > old},
        !.slots[slot].seq = @ + 1]

do_truncate(v, slot, len) ==
  LET f == v.slots[slot].file
  IN  [v EXCEPT !.data[f] = Sized(@, len),
                !.ext[f]  = {i \in @ : i <= len},
                !.grown[f] = {i \in @ : i <= len}]

do_rename(v, from, to) ==
  LET moved == Under(v, from)
      gone  == Under(v, to)
      New(q) == to \o SubSeq(q, Len(from) + 1, Len(q))
  IN  [v EXCEPT !.ents = [p \in {New(q) : q \in moved} |->
                            v.ents[CHOOSE q \in moved : New(q) = p]]
                         @@ Without(@, moved \cup gone)]

do_remove(v, p) == [v EXCEPT !.ents = Without(@, {p})]

do_op(v, op) ==
  CASE op[1] = "create"   -> do_createfile(v, op[2], op[3], op[4])
    [] op[1] = "open"     -> do_openfile(v, op[2], op[3], op[4])
    [] op[1] = "opentrunc" ->
         do_truncate(do_openfile(v, op[2], op[3], op[4]), op[2], 0)
    [] op[1] = "write"    -> do_write(v, op[2], op[3], op[4])
    [] op[1] = "truncate" -> do_truncate(v, op[2], op[3])
    [] op[1] = "close"    -> [v EXCEPT !.slots = Without(@, {op[2]})]
    [] op[1] = "mkdir"    -> [v EXCEPT !.ents = With(@, InCwd(v, op[2]), <<"dir">>)]
    [] op[1] \in {"rmdir", "unlink"} -> do_remove(v, InCwd(v, op[2]))
    [] op[1] = "link"     -> [v EXCEPT !.ents = With(@, InCwd(v, op[3]),
                                                    v.ents[InCwd(v, op[2])])]
    [] op[1] = "rename"   -> do_rename(v, InCwd(v, op[2]), InCwd(v, op[3]))
    [] op[1] = "renamexd" -> do_rename(v, Append(InCwd(v, op[2]), op[3]),
                                          Append(InCwd(v, op[4]), op[5]))
    [] op[1] = "chdir"    -> [v EXCEPT !.cwd = InCwd(v, op[2])]
    [] op[1] = "chdirup"  -> [v EXCEPT !.cwd = Front(@)]
    [] op[1] = "sync"     -> [v EXCEPT !.ext = [f \in DOMAIN @ |-> {}]]

(***************************************************************************)
(* The crash and the recovery.                                             *)
(***************************************************************************)
Target(v, op) == CASE op[1] = "rename"   -> InCwd(v, op[3])
                   [] op[1] = "renamexd" -> Append(InCwd(v, op[4]), op[5])

\* The volume as it is, or with the next rename half done.
Halves(v, k) ==
  {v} \cup (IF /\ k <= Len(ops)
               /\ ops[k][1] \in {"rename", "renamexd"}
               /\ Target(v, ops[k]) \in DOMAIN v.ents
            THEN {do_remove(v, Target(v, ops[k]))} ELSE {})

Lossy(v) == UNION {{<<f, (i - 1) \div BLOCKSIZE>> : i \in v.ext[f]} :
                   f \in DOMAIN v.ext}

Lose(v, B) ==
  [v EXCEPT !.data = [f \in DOMAIN @ |-> [i \in DOMAIN @[f] |->
      IF i \in v.ext[f] /\ <<f, (i - 1) \div BLOCKSIZE>> \in B
      THEN Zero ELSE @[f][i]]]]

Recovered(v, k) ==
  {Lose(h, B) : h \in Halves(v, k + 1),
                B \in UNION {kSubset(n, Lossy(v)) : n \in 0..MaxLost}}

\* The recovery goes wrong: a byte, a size or an entry.
Damaged(v) ==
  UNION {UNION {{[v EXCEPT !.data[f][i] = b] : b \in {Zero, Poison, Trash}} :
                i \in DOMAIN v.data[f]}
         \cup {[v EXCEPT !.data[f] = Append(@, Zero)]}
         \cup (IF v.data[f] = <<>> THEN {} ELSE {[v EXCEPT !.data[f] = Front(@)]}) :
         f \in {v.ents[p][2] : p \in {q \in DOMAIN v.ents : v.ents[q][1] = "file"}}}
  \cup {[v EXCEPT !.ents = Without(@, Under(v, p))] : p \in DOMAIN v.ents \ {<<>>}}

(***************************************************************************)
(* The model that the replay keeps: directories as functions from names to *)
(* <<"dir", n>> or <<"file", n>>, their parents, the lengths of the files, *)
(* and whether die() or an assertion has ended the program.                *)
(***************************************************************************)
rewindstate == [dirs |-> 0 :> <<>>, parent |-> 0 :> 0, len |-> <<>>, died |-> FALSE]

die(s) == [s EXCEPT !.died = TRUE]

\* findsub: unlinked files are not in the model.
findfile_maybe(s, f) ==
  \E d \in DOMAIN s.dirs : \E n \in DOMAIN s.dirs[d] : s.dirs[d][n] = <<"file", f>>

HasEntry(s, d, n) == d \in DOMAIN s.dirs /\ n \in DOMAIN s.dirs[d]

fsdir_add_entry(s, d, n, obj) ==
  IF d \notin DOMAIN s.dirs \/ HasEntry(s, d, n) THEN die(s)
  ELSE [s EXCEPT !.dirs[d] = With(@, n, obj)]

fsdir_remove_entry(s, d, n, obj) ==
  IF ~HasEntry(s, d, n) \/ s.dirs[d][n] # obj THEN die(s)
  ELSE [s EXCEPT !.dirs[d] = Without(@, {n})]

apply_change(s, c) ==
  CASE s.died -> s
    [] c.type = "newfs" -> s
    [] c.type = "truncate" ->
         IF findfile_maybe(s, c.file) THEN [s EXCEPT !.len[c.file] = c.len] ELSE s
    [] c.type = "write" ->
         IF findfile_maybe(s, c.file)
         THEN [s EXCEPT !.len[c.file] = IF @ < c.pos + c.len THEN c.pos + c.len ELSE @]
         ELSE s
    [] c.type = "creat" ->
         fsdir_add_entry([s EXCEPT !.len = With(@, c.file, 0)],
                         c.dir, c.name, <<"file", c.file>>)
    [] c.type = "mkdir" ->
         fsdir_add_entry([s EXCEPT !.dirs   = With(@, c.newdir, <<>>),
                                   !.parent = With(@, c.newdir, c.dir)],
                         c.dir, c.name, <<"dir", c.newdir>>)
    [] c.type = "rmdir" ->
         IF s.dirs[c.victim] # <<>> \/ s.parent[c.victim] # c.dir THEN die(s)
         ELSE LET r == fsdir_remove_entry(s, c.dir, c.name, <<"dir", c.victim>>)
              IN  [r EXCEPT !.dirs = Without(@, {c.victim})]
    [] c.type = "unlink" ->
         fsdir_remove_entry(s, c.dir, c.name, <<"file", c.file>>)
    [] c.type = "link" ->
         IF ~HasEntry(s, c.dir, c.from) \/ s.dirs[c.dir][c.from] # <<"file", c.file>>
         THEN die(s) ELSE fsdir_add_entry(s, c.dir, c.name, <<"file", c.file>>)
    [] c.type = "renamefile" ->
         fsdir_add_entry(
           fsdir_remove_entry(s, c.dir, c.from, <<"file", c.file>>),
           c.todir, c.name, <<"file", c.file>>)
    [] c.type = "renamedir" ->
         IF s.parent[c.moved] # c.dir THEN die(s)
         ELSE fsdir_add_entry(
                [fsdir_remove_entry(s, c.dir, c.from, <<"dir", c.moved>>)
                   EXCEPT !.parent[c.moved] = c.todir],
                c.todir, c.name, <<"dir", c.moved>>)

\* The changes that name a file; the changes of the directories' structure.
OfFile(c, f)  == "file" \in DOMAIN c /\ c.file = f
Structural(c) == c.type \notin {"truncate", "write"}

FileNode(f, len, data) == [isdir |-> FALSE, file |-> f, len |-> len,
                           data |-> data, sub |-> <<>>]
DirNode(sub) == [isdir |-> TRUE, file |-> 0, len |-> 0, data |-> <<>>, sub |-> sub]

RECURSIVE Tree(_, _)
Tree(s, d) ==
  DirNode([n \in DOMAIN s.dirs[d] |->
             LET obj == s.dirs[d][n]
             IN  IF obj[1] = "dir" THEN Tree(s, obj[2])
                 ELSE FileNode(obj[2], s.len[obj[2]], <<>>)])

(***************************************************************************)
(* The replay: m holds the log of changes, the state after the last, the   *)
(* current directory, the open files and the next object numbers.  The     *)
(* index of a change in the log is its version; prev is the change before  *)
(* it to the same file; trees holds the tree of each version, which        *)
(* checkfs computes again by applying the log from the start; reached      *)
(* holds the version that each call has reached.                           *)
(***************************************************************************)
check_setup == [log |-> <<[type |-> "newfs"]>>, s |-> rewindstate, cwd |-> 0,
                slots |-> <<>>, nextfile |-> 0, nextdir |-> 1,
                trees |-> <<Tree(rewindstate, 0)>>, reached |-> <<>>]

fc_attach(m, c) ==
  LET s == apply_change(m.s, c)
  IN  [m EXCEPT !.log = Append(@, c), !.s = s, !.trees = Append(@, Tree(s, 0))]

changes_findprevfile(log, f) == Max({i \in DOMAIN log : OfFile(log[i], f)})

model_find(m, d, n) == m.s.dirs[d][n][2]
model_isfile(m, d, n) == HasEntry(m.s, d, n) /\ m.s.dirs[d][n][1] = "file"
model_isdir(m, d, n)  == HasEntry(m.s, d, n) /\ m.s.dirs[d][n][1] = "dir"

model_getfilesize(m, f) == IF findfile_maybe(m.s, f) THEN m.s.len[f] ELSE 0

check_createfile(m, slot, n, code) ==
  [fc_attach(m, [type |-> "creat", dir |-> m.cwd, name |-> n, file |-> m.nextfile])
     EXCEPT !.nextfile = @ + 1,
            !.slots = With(@, slot, [file |-> m.nextfile, code |-> code, seq |-> 0])]

check_openfile(m, slot, n, code) ==
  [m EXCEPT !.slots = With(@, slot, [file |-> model_find(m, m.cwd, n),
                                    code |-> code, seq |-> 0])]

check_write(m, slot, pos, len) ==
  LET h == m.slots[slot]
  IN  [fc_attach(m, [type |-> "write", file |-> h.file, pos |-> pos, len |-> len,
                     old |-> model_getfilesize(m, h.file),
                     code |-> h.code, seq |-> h.seq,
                     prev |-> changes_findprevfile(m.log, h.file)])
         EXCEPT !.slots[slot].seq = @ + 1]

check_truncate(m, slot, len) ==
  LET f == m.slots[slot].file
  IN  fc_attach(m, [type |-> "truncate", file |-> f, len |-> len,
                    prev |-> changes_findprevfile(m.log, f)])

check_mkdir(m, n) ==
  [fc_attach(m, [type |-> "mkdir", dir |-> m.cwd, name |-> n, newdir |-> m.nextdir])
     EXCEPT !.nextdir = @ + 1]

Rmdir(m, d, n)  == [type |-> "rmdir", dir |-> d, name |-> n,
                    victim |-> model_find(m, d, n)]
Unlink(m, d, n) == LET f == model_find(m, d, n)
                   IN  [type |-> "unlink", dir |-> d, name |-> n, file |-> f,
                        prev |-> changes_findprevfile(m.log, f)]

check_link(m, from, to) ==
  LET f == model_find(m, m.cwd, from)
  IN  fc_attach(m, [type |-> "link", dir |-> m.cwd, from |-> from, name |-> to,
                    file |-> f, prev |-> changes_findprevfile(m.log, f)])

\* A rename onto something is two changes, the first of them partial.
common_rename(m, d, from, todir, to) ==
  LET m1 == IF model_isfile(m, todir, to) THEN fc_attach(m, Unlink(m, todir, to))
            ELSE IF model_isdir(m, todir, to) THEN fc_attach(m, Rmdir(m, todir, to))
            ELSE m
      x  == model_find(m1, d, from)
  IN  fc_attach(m1,
        IF model_isfile(m1, d, from)
        THEN [type |-> "renamefile", dir |-> d, from |-> from, todir |-> todir,
              name |-> to, file |-> x, prev |-> changes_findprevfile(m1.log, x)]
        ELSE [type |-> "renamedir", dir |-> d, from |-> from, todir |-> todir,
              name |-> to, moved |-> x])

check_op(m, op) ==
  CASE op[1] = "create"   -> check_createfile(m, op[2], op[3], op[4])
    [] op[1] = "open"     -> check_openfile(m, op[2], op[3], op[4])
    [] op[1] = "opentrunc" ->
         check_truncate(check_openfile(m, op[2], op[3], op[4]), op[2], 0)
    [] op[1] = "write"    -> check_write(m, op[2], op[3], op[4])
    [] op[1] = "truncate" -> check_truncate(m, op[2], op[3])
    [] op[1] = "close"    -> [m EXCEPT !.slots = Without(@, {op[2]})]
    [] op[1] = "mkdir"    -> check_mkdir(m, op[2])
    [] op[1] = "rmdir"    -> fc_attach(m, Rmdir(m, m.cwd, op[2]))
    [] op[1] = "unlink"   -> fc_attach(m, Unlink(m, m.cwd, op[2]))
    [] op[1] = "link"     -> check_link(m, op[2], op[3])
    [] op[1] = "rename"   -> common_rename(m, m.cwd, op[2], m.cwd, op[3])
    [] op[1] = "renamexd" -> common_rename(m, model_find(m, m.cwd, op[2]), op[3],
                                              model_find(m, m.cwd, op[4]), op[5])
    [] op[1] = "chdir"    -> [m EXCEPT !.cwd = model_find(m, m.cwd, op[2])]
    [] op[1] = "chdirup"  -> [m EXCEPT !.cwd = m.s.parent[@]]
    [] op[1] = "sync"     -> m

(***************************************************************************)
(* The trees of a version and of the volume, and their comparison.         *)
(***************************************************************************)
RECURSIVE inspectdir(_, _)
inspectdir(v, p) ==
  LET names == {Last(q) : q \in {r \in DOMAIN v.ents \ {<<>>} : Front(r) = p}}
  IN  DirNode([n \in names |->
                 LET obj == v.ents[Append(p, n)]
                 IN  IF obj[1] = "dir" THEN inspectdir(v, Append(p, n))
                     ELSE FileNode(obj[2], Len(v.data[obj[2]]), v.data[obj[2]])])

RECURSIVE count_subtree(_)
count_subtree(o) ==
  1 + MapThenSumSet(LAMBDA n : count_subtree(o.sub[n]), DOMAIN o.sub)

RECURSIVE compare_objects(_, _)
compare_objects(a, b) ==
  LET Missing(o) == 1 + (IF o.isdir THEN count_subtree(o) ELSE 0)
      A == DOMAIN a.sub
      B == DOMAIN b.sub
  IN  CASE a.isdir # b.isdir -> count_subtree(IF a.isdir THEN a ELSE b)
        [] ~a.isdir /\ ~b.isdir -> IF a.len = b.len THEN 0 ELSE 1
        [] a.isdir /\ b.isdir ->
             MapThenSumSet(LAMBDA n : compare_objects(a.sub[n], b.sub[n]), A \cap B)
             + MapThenSumSet(LAMBDA n : Missing(a.sub[n]), A \ B)
             + MapThenSumSet(LAMBDA n : Missing(b.sub[n]), B \ A)

(***************************************************************************)
(* The contents.  A check returns the set of its complaints: "error" for a *)
(* message, "abort" for an assertion or the end of the program.            *)
(***************************************************************************)
OnlyThisVersion(log, v) == v
findokversion(log, v) == Max({i \in 1..v : Structural(log[i])})

backup_for_file(log, v, f) ==
  Max({0} \cup {i \in 1..v : OfFile(log[i], f)
                            /\ log[i].type \in {"truncate", "write", "creat"}})

All(data, from, to, b) == \A i \in (from + 1)..to : data[i] = b

checkfilezeros(data, start, end) ==
  IF end > Len(data) THEN {"abort"}
  ELSE IF All(data, start, end, Zero) THEN {} ELSE {"error"}

\* data_matches goes block by block over the bytes from at to end of the
\* region that the write c began; zerostart is where zeros are tolerated.
RECURSIVE data_matches(_, _, _, _, _)
data_matches(data, c, zerostart, at, end) ==
  IF at >= end THEN [ret |-> TRUE, said |-> {}]
  ELSE
    LET block == ((at \div BLOCKSIZE) + 1) * BLOCKSIZE
        cuts  == {end, block} \cup (IF at < zerostart THEN {zerostart} ELSE {})
        stop  == Min(cuts)
        rest  == data_matches(data, c, zerostart, stop, end)
        mine  == \A i \in (at + 1)..stop : data[i] = <<c.code, c.seq, i - c.pos>>
        late  == at >= zerostart
    IN  IF mine \/ (late /\ All(data, at, stop, Zero)) THEN rest
        ELSE IF late /\ All(data, at, stop, Poison)
        THEN [rest EXCEPT !.said = @ \cup {"error"}]
        ELSE [rest EXCEPT !.ret = FALSE]

zerostart(c) == IF c.old < c.pos THEN c.pos
                ELSE IF c.old < c.pos + c.len THEN c.old ELSE c.pos + c.len

SkipsLastByte(data, c, start, end) ==
  LET from == Max({start, c.pos})
      to   == Min({end, c.pos + c.len})
      r    == data_matches(data, c, zerostart(c), from, to - 1)
  IN  IF to > Len(data) THEN {"abort"}
      ELSE r.said \cup IF r.ret THEN {} ELSE {"error"}
checkfiledata(data, c, start, end) ==
  LET from == Max({start, c.pos})
      to   == Min({end, c.pos + c.len})
      r    == data_matches(data, c, zerostart(c), from, to)
  IN  IF to > Len(data) THEN {"abort"}
      ELSE r.said \cup IF r.ret THEN {} ELSE {"error"}

RECURSIVE checkfilerange(_, _, _, _, _)
checkfilerange(log, v, data, start, end) ==
  LET c == log[v]
      Prev(a, b) == checkfilerange(log, c.prev, data, a, b)
      wend == c.pos + c.len
  IN  CASE start >= end -> {"abort"}
        [] start < end /\ c.type = "truncate" ->
             IF c.len < start THEN checkfilezeros(data, start, end)
             ELSE IF c.len < end
             THEN Prev(start, c.len) \cup checkfilezeros(data, c.len, end)
             ELSE Prev(start, end)
        [] start < end /\ c.type = "write" ->
             IF end <= c.pos \/ start >= wend THEN Prev(start, end)
             ELSE (IF start < c.pos THEN Prev(start, c.pos) ELSE {})
                  \cup checkfiledata(data, c, start, end)
                  \cup (IF end > wend THEN Prev(wend, end) ELSE {})
        [] start < end /\ c.type = "renamefile" -> Prev(start, end)
        [] start < end /\ c.type = "creat" -> checkfilezeros(data, start, end)
        [] start < end /\ c.type \in {"link", "unlink"} -> {"abort"}

change_is_present(data, len, c) ==
  CASE c.type = "truncate" -> [ret |-> len = c.len, said |-> {}]
    [] c.type = "write" ->
         IF c.pos + c.len > Len(data) THEN [ret |-> TRUE, said |-> {"abort"}]
         ELSE data_matches(data, c, zerostart(c), c.pos, c.pos + c.len)
    [] c.type = "creat" -> [ret |-> TRUE, said |-> {}]

\* Back up from change v of file f to one that the file reflects.
RECURSIVE Settle(_, _, _, _, _, _)
Settle(log, v, f, len, data, okversion) ==
  IF v = 0 THEN {"error"}
  ELSE LET r == change_is_present(data, len, log[v])
       IN  r.said \cup
           IF r.ret THEN checkfilerange(log, v, data, 0, len)
           ELSE (IF v < okversion THEN {"error"} ELSE {})
                \cup Settle(log, backup_for_file(log, v - 1, f), f, len, data, okversion)

checkonefilecontents(log, node, data, best) ==
  LET v == backup_for_file(log, best, node.file)
      t == log[v].type
  IN  IF v = 0 THEN {"abort"}
      ELSE IF node.len = 0 THEN (IF t = "write" THEN {"error"} ELSE {})
      ELSE IF t = "creat" THEN {"error"}
      ELSE Settle(log, v, node.file, node.len, data, findokversion(log, best))

RECURSIVE checkallfilecontents(_, _, _, _)
checkallfilecontents(log, node, real, best) ==
  UNION {IF node.sub[n].isdir
         THEN checkallfilecontents(log, node.sub[n], real.sub[n], best)
         ELSE checkonefilecontents(log, node.sub[n], real.sub[n].data, best) :
         n \in DOMAIN node.sub}

BestVersion(trees, real) ==
  LET score == [i \in DOMAIN trees |-> compare_objects(trees[i], real)]
      least == Min({score[i] : i \in DOMAIN trees})
  IN  [score |-> least, version |-> Max({i \in DOMAIN trees : score[i] = least})]

Verdict(m, v) ==
  LET real == inspectdir(v, <<>>)
      best == BestVersion(m.trees, real)
  IN  IF m.s.died THEN {"abort"}
      ELSE IF best.score > 0 THEN {"error"}
      ELSE checkallfilecontents(m.log, m.trees[best.version], real, best.version)

(***************************************************************************)
(* The two runs of frack.  They make the same calls in the same order and  *)
(* the replay reads nothing of the volume, so that one step makes the next *)
(* call in both; the crash comes after any number of the calls of "do".    *)
(***************************************************************************)
FrackInit ==
  /\ ops \in SizeWorkloads \cup MakeRemoveWorkloads \cup LinkRenameWorkloads
               \cup RandomWorkloads
  /\ vols = <<EmptyVolume>>
  /\ model = check_setup
  /\ crash = 0 - 1 /\ volume = EmptyVolume /\ legal = TRUE /\ complaints = {}

MakeCall ==
  LET k == Len(vols)
      m == check_op(model, ops[k])
  IN  /\ k <= Len(ops)
      /\ vols' = Append(vols, do_op(vols[k], ops[k]))
      /\ model' = [m EXCEPT !.reached = Append(@, Len(m.log))]
      /\ UNCHANGED <<ops, crash, volume, legal, complaints>>

checkfs ==
  /\ Len(vols) = Len(ops) + 1 /\ crash < 0
  /\ crash' \in 0..Len(ops)
  /\ \/ legal' = TRUE /\ volume' \in Recovered(vols[crash' + 1], crash')
     \/ legal' = FALSE /\ volume' \in Damaged(vols[crash' + 1])
  /\ complaints' = Verdict(model, volume')
  /\ UNCHANGED <<ops, vols, model>>

FrackNext == MakeCall \/ checkfs

FrackSpec == FrackInit /\ [][FrackNext]_frackVars

(***************************************************************************)
(* Properties.                                                             *)
(***************************************************************************)
\* The calls that change the structure of the directories.
Directory == {"create", "mkdir", "rmdir", "unlink", "link", "rename", "renamexd"}

SameShape(v, w) ==
  /\ DOMAIN v.ents = DOMAIN w.ents
  /\ \A p \in DOMAIN v.ents :
       /\ v.ents[p][1] = w.ents[p][1]
       /\ v.ents[p][1] = "file" =>
            Len(v.data[v.ents[p][2]]) = Len(w.data[w.ents[p][2]])

\* File f of w holds what it held after j calls, or zeros where a write had
\* extended it.
HoldsVersion(bytes, r, f) ==
  \A i \in DOMAIN bytes :
    \/ bytes[i] = IF i <= Len(r.data[f]) THEN r.data[f][i] ELSE Zero
    \/ bytes[i] = Zero /\ i \in r.grown[f]

Explained(w, k) ==
  \E v \in Halves(vols[k + 1], k + 1) :
    /\ SameShape(v, w)
    /\ \A p \in DOMAIN w.ents : w.ents[p][1] = "file" =>
         \E j \in 0..k :
           /\ \A i \in (j + 1)..k : ops[i][1] \notin Directory
           /\ HoldsVersion(w.data[w.ents[p][2]], vols[j + 1], v.ents[p][2])

\* A volume that frack passes without complaint is one that some prefix of the
\* workload explains: the names and sizes of one moment, and in each file the
\* contents of that moment or of one since the last change of a directory.
\* (checkfs, checkonefilecontents, checkfilerange, data_matches)
NothingMissed ==
  crash >= 0 /\ complaints = {} => \E k \in 0..Len(ops) : Explained(volume, k)

\* A later version has the same names and sizes, and between the two there is a
\* change of a directory or a truncate that leaves bytes: checkfs takes the
\* most recent version that matches, and change_is_present knows a truncate
\* only by the size.
Mistakable ==
  LET reached == IF crash = 0 THEN 1 ELSE model.reached[crash]
      Blurs(c) == Structural(c) \/ (c.type = "truncate" /\ c.len > 0)
  IN  \E i \in (reached + 1)..Len(model.trees) :
        /\ compare_objects(model.trees[i], inspectdir(volume, <<>>)) = 0
        /\ \E j \in (reached + 1)..i : Blurs(model.log[j])

\* frack does not complain of a volume that is in order (crashed after any
\* call, the extension of an unsynced write zeroed or not, a rename half done
\* or not) unless a later version looks the same (checkfs,
\* checkonefilecontents).
NoFalseAlarm ==
  crash >= 0 /\ legal /\ "error" \in complaints => Mistakable

\* The ranges that checkfilerange is called on are not empty, as it asserts.
\* It does not hold: a file that ends where the range starts is let through.
RangesNotEmpty ==
  crash >= 0 /\ legal /\ "abort" \in complaints => Mistakable
=============================================================================
