------------------------------- MODULE Malloc -------------------------------
(***************************************************************************)
(* The user library's malloc and free, and the program that tests them.    *)
(* Memory is counted in units of MBLOCKSIZE bytes: a unit is a header or a *)
(* piece of data.  sbrk is external: it gives memory up to Limit units, or *)
(* does not work at all, as in this kernel, which has no such call.        *)
(***************************************************************************)
EXTENDS Integers, FiniteSets, SequencesExt

CONSTANTS MBLOCKSIZE, PageUnits, Limits,       \* a unit and a page; how much sbrk gives
          SMALLSIZE, MEDIUMSIZE, BIGSIZE, HUGESIZE, Sizes, Slots  \* what the tests use

HeapBase == PageUnits            \* where sbrk begins, in units
NULL == 0
DEADBEEF == 0 - 1
Max_(S) == CHOOSE x \in S : \A y \in S : y <= x
Addrs == HeapBase..(HeapBase + Max_(Limits))
ceil(n, d) == (n + d - 1) \div d

VARIABLES h,        \* the heap: init, top, limit, mem, and the message it died with
          test, pc, \* the test that runs and where it is
          r,        \* its variables
          said      \* what the last test printed at its end
vars == <<h, test, pc, r, said>>

Data(v) == [k |-> "data", v |-> v]
Hdr(p, n, u) == [k |-> "hdr", prev |-> p, next |-> n, inuse |-> u]

M_OK(mem, m)   == mem[m].k = "hdr"
M_NEXT(mem, m) == m + mem[m].next
M_PREV(mem, m) == m - mem[m].prev
M_DATA(m)      == m + 1
M_SIZE(mem, m) == mem[m].next - 1

Die(hp, why) == [hp EXCEPT !.died = why]

__malloc_init(hp) == IF hp.limit = 0 THEN Die(hp, "initial sbrk failed") ELSE [hp EXCEPT !.init = TRUE]

\* Mutant: the header after the new one keeps its old distance back.
ForgetsNext(mem, top, m, size) ==
  IF M_SIZE(mem, m) - size < 2 THEN mem
  ELSE LET oldsize == M_SIZE(mem, m)
           mhnew   == m + size + 1
       IN  [mem EXCEPT ![m].next = size + 1, ![mhnew] = Hdr(size + 1, oldsize - size, FALSE)]

\* Split only when a header and a unit of data are left over.
__malloc_split(mem, top, m, size) ==
  IF M_SIZE(mem, m) - size < 2 THEN mem
  ELSE LET mhnext  == M_NEXT(mem, m)
           oldsize == M_SIZE(mem, m)
           mhnew   == m + size + 1
           mem1    == [mem EXCEPT ![m].next = size + 1,
                                  ![mhnew] = Hdr(size + 1, oldsize - size, FALSE)]
       IN  IF mhnext # top THEN [mem1 EXCEPT ![mhnext].prev = oldsize - size] ELSE mem1

\* The walk over the heap: the first block that fits, or the last block.
RECURSIVE Search(_, _, _, _, _)
Search(hp, i, rightprev, last, size) ==
  IF i >= hp.top THEN [what |-> IF i = hp.top THEN "none" ELSE "ran off end", at |-> last, prev |-> rightprev]
  ELSE IF ~M_OK(hp.mem, i) THEN [what |-> "bad magic bits", at |-> i, prev |-> rightprev]
  ELSE IF hp.mem[i].prev # rightprev THEN [what |-> "bad previous-block size", at |-> i, prev |-> rightprev]
  ELSE IF ~hp.mem[i].inuse /\ M_SIZE(hp.mem, i) >= size THEN [what |-> "fits", at |-> i, prev |-> rightprev]
  ELSE Search(hp, M_NEXT(hp.mem, i), hp.mem[i].next, i, size)

__malloc_sbrk(hp, size) == IF hp.top + size - HeapBase > hp.limit THEN NULL ELSE hp.top

\* No block fits: the heap grows by a new block, or by more room for the last
\* one if that is free.
Grow(hp, size, s, more, m) ==
  LET mem1 == IF m = s.at THEN [hp.mem EXCEPT ![m].next = @ + more, ![m].inuse = TRUE]
              ELSE [hp.mem EXCEPT ![m] = Hdr(s.prev, more, TRUE)]
  IN  IF __malloc_sbrk(hp, more) = NULL THEN [h |-> hp, p |-> NULL]
      ELSE [h |-> [hp EXCEPT !.top = @ + more, !.mem = __malloc_split(mem1, hp.top + more, m, size)],
            p |-> M_DATA(m)]
Place(hp, size, s) ==
  LET Pages(need) == PageUnits * ceil(need, PageUnits)
  IN  CASE s.what = "fits" ->
             [h |-> [hp EXCEPT !.mem = [__malloc_split(@, hp.top, s.at, size) EXCEPT ![s.at].inuse = TRUE]],
              p |-> M_DATA(s.at)]
        [] s.what = "none" /\ s.at # NULL /\ ~hp.mem[s.at].inuse ->
             Grow(hp, size, s, Pages(size - M_SIZE(hp.mem, s.at)), s.at)
        [] s.what = "none" /\ ~(s.at # NULL /\ ~hp.mem[s.at].inuse) ->
             Grow(hp, size, s, Pages(1 + size), hp.top)
        [] OTHER -> [h |-> Die(hp, s.what), p |-> NULL]

\* malloc: the heap and the address of the data, NULL if there is no room.
malloc(hp0, bytes) ==
  LET Fit(hp, size) == IF hp.died # "" THEN [h |-> hp, p |-> NULL]
                       ELSE Place(hp, size, Search(hp, HeapBase, 0, NULL, size))
  IN  Fit(IF hp0.init THEN hp0 ELSE __malloc_init(hp0), ceil(bytes, MBLOCKSIZE))

__malloc_deadbeef(mem, ptr, size) ==
  [a \in DOMAIN mem |-> IF a \in ptr..(ptr + size - 1) THEN Data(DEADBEEF) ELSE mem[a]]

\* Mutant: free blocks are not joined.
NoMerge(hp, m, mhnext) == hp

__malloc_trymerge(hp, m, mhnext) ==
  LET nn   == M_NEXT(hp.mem, mhnext)
      next == 1 + M_SIZE(hp.mem, m) + 1 + M_SIZE(hp.mem, mhnext)
      mem1 == [hp.mem EXCEPT ![m].next = next]
      mem2 == IF nn # hp.top THEN [mem1 EXCEPT ![nn].prev = next] ELSE mem1
  IN  IF hp.mem[m].next # hp.mem[mhnext].prev THEN Die(hp, "inconsistent")
      ELSE IF hp.mem[m].inuse \/ hp.mem[mhnext].inuse THEN hp
      ELSE [hp EXCEPT !.mem = __malloc_deadbeef(mem2, mhnext, 1)]

free(hp, x) ==
  LET m == x - 1
      Freed == [hp EXCEPT !.mem = __malloc_deadbeef([@ EXCEPT ![m].inuse = FALSE], M_DATA(m), M_SIZE(hp.mem, m))]
      MergeNext(hp1, next) == IF next # hp.top THEN __malloc_trymerge(hp1, m, next) ELSE hp1
      MergePrev(hp2) == IF hp2.died # "" \/ m = HeapBase THEN hp2
                        ELSE __malloc_trymerge(hp2, M_PREV(hp2.mem, m), m)
  IN  CASE x = NULL -> hp
        [] x # NULL /\ (x < HeapBase \/ x >= hp.top) -> Die(hp, "out of range")
        [] x \in HeapBase..(hp.top - 1) /\ ~M_OK(hp.mem, m) -> Die(hp, "corrupt header")
        [] x \in HeapBase..(hp.top - 1) /\ M_OK(hp.mem, m) /\ ~hp.mem[m].inuse -> Die(hp, "already free")
        [] OTHER -> MergePrev(MergeNext(Freed, M_NEXT(hp.mem, m)))

(***************************************************************************)
(* The test program.  A block is marked word by word; a unit that has a    *)
(* marked word carries the mark.                                           *)
(***************************************************************************)
Units(p, size) == p..(p + ceil(size \div 4, MBLOCKSIZE \div 4) - 1)
markblock(hp, p, size, bias) ==
  [hp EXCEPT !.mem = [a \in DOMAIN @ |-> IF a \in Units(p, size) THEN Data(bias) ELSE @[a]]]
checkblock(hp, p, size, bias) == \A a \in Units(p, size) : hp.mem[a] = Data(bias)

Idle == [x |-> NULL, y |-> NULL, size |-> 0, list |-> <<>>, failed |-> FALSE,
         ptrs |-> [n \in Slots |-> NULL], psizes |-> [n \in Slots |-> 0]]
Goto(l) == pc' = l /\ UNCHANGED <<test, said>>
\* A test that is ended by the library's errx prints nothing more.
End(what) == test' = "none" /\ pc' = "menu" /\ r' = Idle /\ said' = (IF h'.died = "" THEN what ELSE "")
Alive == h.died = ""

test1 ==
  /\ test = "1" /\ Alive
  /\ \/ /\ pc = "start"
        /\ \E m \in {malloc(h, BIGSIZE)} :
               IF m.p = NULL THEN h' = m.h /\ End("FAILED")
               ELSE h' = markblock(m.h, m.p, BIGSIZE, 0) /\ r' = [r EXCEPT !.x = m.p] /\ Goto("check")
     \/ /\ pc = "check"
        /\ IF checkblock(h, r.x, BIGSIZE, 0) THEN h' = free(h, r.x) /\ End("passed")
           ELSE h' = h /\ End("FAILED")

test2 ==
  /\ test = "2" /\ Alive
  /\ \/ /\ pc = "start" /\ r' = [r EXCEPT !.size = HUGESIZE] /\ h' = h /\ Goto("try")
     \/ /\ pc = "try"
        /\ \E m \in {malloc(h, r.size)} :
               IF m.p = NULL THEN h' = m.h /\ r' = [r EXCEPT !.size = @ \div 2] /\ Goto("try")
               ELSE h' = markblock(m.h, m.p, r.size, 0) /\ r' = [r EXCEPT !.x = m.p] /\ Goto("check")
     \/ /\ pc = "check"
        /\ IF checkblock(h, r.x, r.size, 0) THEN h' = free(h, r.x) /\ r' = r /\ Goto("again")
           ELSE h' = h /\ End("FAILED")
     \/ /\ pc = "again"
        /\ \E m \in {malloc(h, r.size)} :
               IF m.p = NULL THEN h' = m.h /\ End("FAILED") ELSE h' = free(m.h, m.p) /\ End("passed")

test3 ==
  /\ test = "3" /\ Alive
  /\ \/ /\ pc = "start"
        /\ \E m \in {malloc(h, SMALLSIZE)} :
               IF m.p = NULL THEN h' = m.h /\ r' = r /\ Goto("more")
               ELSE /\ h' = markblock(m.h, m.p, SMALLSIZE, m.p)
                    /\ r' = [r EXCEPT !.list = <<m.p>> \o @] /\ Goto("start")
     \/ /\ pc = "more"
        /\ IF \E s \in {SMALLSIZE, MEDIUMSIZE, BIGSIZE} : malloc(h, s).p # NULL
           THEN h' = h /\ End("FAILED") ELSE h' = h /\ r' = r /\ Goto("free")
     \/ /\ pc = "free" /\ r.list # <<>>
        /\ r' = [r EXCEPT !.list = Tail(@),
                          !.failed = @ \/ ~checkblock(h, Head(r.list), SMALLSIZE, Head(r.list))]
        /\ h' = free(h, Head(r.list)) /\ Goto("free")
     \/ /\ pc = "free" /\ r.list = <<>>
        /\ \E m \in {malloc(h, MEDIUMSIZE)} :
               IF r.failed THEN h' = h /\ End("FAILED")
               ELSE IF m.p = NULL THEN h' = m.h /\ End("FAILED")
               ELSE h' = free(m.h, m.p) /\ End("passed")

\* Addresses are compared in bytes.
Bytes(p) == p * MBLOCKSIZE
overhead == Bytes(r.y) - (Bytes(r.x) + SMALLSIZE)
test4 ==
  /\ test = "4" /\ Alive
  /\ \/ /\ pc = "start"
        /\ \E m \in {malloc(h, SMALLSIZE)} : \E n \in {malloc(m.h, MEDIUMSIZE)} :
               IF m.p = NULL THEN h' = m.h /\ End("FAILED")
               ELSE IF n.p = NULL THEN h' = n.h /\ End("FAILED")
               ELSE h' = n.h /\ r' = [r EXCEPT !.x = m.p, !.y = n.p] /\ Goto("compare")
     \/ /\ pc = "compare"
        /\ \E m \in {malloc(free(free(h, r.x), r.y), SMALLSIZE + MEDIUMSIZE + overhead)} :
               IF \/ r.x = r.y
                  \/ r.x < r.y /\ Bytes(r.x) + SMALLSIZE > Bytes(r.y)
                  \/ r.y < r.x /\ Bytes(r.y) + MEDIUMSIZE > Bytes(r.x)
               THEN h' = h /\ End("FAILED")
               ELSE IF r.y < r.x \/ overhead > 256 THEN h' = h /\ End("unsuitable")
               ELSE IF overhead > 32 THEN h' = h /\ End("FAILED")
               ELSE IF m.p = NULL THEN h' = m.h /\ End("FAILED")
               ELSE h' = free(m.h, m.p) /\ End(IF m.p = r.x THEN "passed" ELSE "FAILED")

\* random() is a choice; the loop's 100000 rounds end at any time.
Round(n) ==
  \/ /\ r.ptrs[n] = NULL
     /\ \E size \in Sizes :
          \E m \in {malloc(h, size)} :
              IF m.p = NULL
              THEN h' = m.h /\ r' = [r EXCEPT !.psizes[n] = size, !.failed = TRUE] /\ Goto("free")
              ELSE /\ h' = markblock(m.h, m.p, size, n)
                   /\ r' = [r EXCEPT !.ptrs[n] = m.p, !.psizes[n] = size] /\ Goto("start")
  \/ /\ r.ptrs[n] # NULL
     /\ IF ~checkblock(h, r.ptrs[n], r.psizes[n], n)
        THEN h' = h /\ r' = [r EXCEPT !.failed = TRUE] /\ Goto("corrupt")
        ELSE h' = free(h, r.ptrs[n]) /\ r' = [r EXCEPT !.ptrs[n] = NULL, !.psizes[n] = 0] /\ Goto("start")

test567 ==
  /\ test = "567" /\ Alive
  /\ \/ pc = "start" /\ \E n \in Slots : Round(n)
     \/ pc = "start" /\ h' = h /\ r' = r /\ Goto("free")
     \/ /\ pc = "corrupt" /\ h' = h /\ End("FAILED")
     \/ /\ pc = "free"
        /\ h' = FoldSet(LAMBDA n, hp : free(hp, r.ptrs[n]), h, Slots)
        /\ End(IF r.failed THEN "no memory" ELSE "passed")

\* test6 reads its seed from random:, and ends the program when it cannot.
test6 == /\ test = "6" /\ Alive
         /\ \/ test' = "567" /\ h' = h
            \/ test' = test /\ h' = Die(h, "random:")
         /\ UNCHANGED <<pc, r, said>>

\* test5 and test7 differ from it in where the seed comes from.
dotest == /\ pc = "menu" /\ Alive
          /\ \E tn \in {"1", "2", "3", "4", "567", "6"} : test' = tn
          /\ pc' = "start" /\ said' = "" /\ UNCHANGED <<h, r>>

Init ==
  /\ \E l \in Limits :
       h = [init |-> FALSE, top |-> HeapBase, limit |-> l, mem |-> [a \in Addrs |-> Data(0)], died |-> ""]
  /\ test = "none" /\ pc = "menu" /\ r = Idle /\ said = ""
Next == dotest \/ test1 \/ test2 \/ test3 \/ test4 \/ test567 \/ test6
Spec == Init /\ [][Next]_vars

RECURSIVE Headers(_, _)
Headers(mem, i) == IF i >= h.top THEN {} ELSE {i} \union Headers(mem, M_NEXT(mem, i))

\* After any sequence of calls the headers tile the heap, each knows the one
\* before it, no two free blocks lie side by side, and no consistency check of
\* the library ever ends the program.
HeapTiled ==
  /\ h.died \in {"", "initial sbrk failed", "random:"}
  /\ h.init /\ Alive =>
       LET hs == Headers(h.mem, HeapBase)
       IN  \A i \in hs :
             LET n == M_NEXT(h.mem, i)
             IN  /\ M_OK(h.mem, i) /\ n <= h.top
                 /\ i = HeapBase => h.mem[i].prev = 0
                 /\ n < h.top => /\ h.mem[n].prev = h.mem[i].next
                                 /\ h.mem[i].inuse \/ h.mem[n].inuse

\* The tests of malloctest pass one after the other in any order: what was
\* written to a block stays there until it is freed, the space of freed blocks
\* comes back as one, and the heap's whole space can be used again.
MallocTestsPass == said # "FAILED"
=============================================================================
