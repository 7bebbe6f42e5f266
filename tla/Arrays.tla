------------------------------- MODULE Arrays -------------------------------
(***************************************************************************)
(* The kernel's resizable arrays and its bitmaps, called in any order      *)
(* their callers may, with allocations that fail, and by the kernel's own  *)
(* tests.  Memory that was never written holds JUNK, which a test cannot   *)
(* count on; a slot beyond num holds what was last there.                  *)
(***************************************************************************)
EXTENDS Integers, SequencesExt

CONSTANTS TESTSIZE, BIGTESTSIZE,  \* the sizes the tests use
          Vals, MaxSize,          \* what free calls store and up to which size
          BITS_PER_WORD, MaxBits, \* the width of a bitmap's word, and the bits of one
          MaxOps

JUNK == 0 - 1
NULL == 0
ENOSPC == 0 - 1

VARIABLES arr,      \* num, max and v
          want,     \* what the array should hold, JUNK where that is open
          bm,       \* the bitmap: nbits, and the set of the bits set in each word
          marked,   \* the bits that should be set
          test,     \* what is left of the test that runs
          got,      \* the index or error the last call gave
          ops, panic
vars == <<arr, want, bm, marked, test, got, ops, panic>>

array_init == [num |-> 0, max |-> 0, v |-> <<>>]

\* The room is doubled, from 4, until it is enough.
RECURSIVE NewMax(_, _)
NewMax(max, num) == IF num <= max THEN max ELSE NewMax(IF max = 0 THEN 4 ELSE max * 2, num)

\* Only the num entries in use go to the new block.
array_preallocate(a, num) ==
  IF num <= a.max THEN a
  ELSE LET newmax == NewMax(a.max, num)
       IN  [a EXCEPT !.max = newmax,
                     !.v = [i \in 1..newmax |-> IF i <= a.num THEN a.v[i] ELSE JUNK]]
Grows(a, num) == num > a.max

array_setsize(a, num) == [array_preallocate(a, num) EXCEPT !.num = num]
array_get(a, i) == a.v[i + 1]
array_set(a, i, val) == [a EXCEPT !.v[i + 1] = val]
array_add(a, val) == array_set(array_setsize(a, a.num + 1), a.num, val)

array_remove(a, index) ==
  [a EXCEPT !.v = [i \in 1..a.max |-> IF i > index /\ i < a.num THEN a.v[i + 1] ELSE a.v[i]],
            !.num = @ - 1]
array_cleanup(a) == a.num = 0

(***************************************************************************)
(* Bitmaps.                                                                *)
(***************************************************************************)
Words(nbits) == (nbits + BITS_PER_WORD - 1) \div BITS_PER_WORD

\* Mutant: the bits after the last are left clear.
NoLeftover(nbits) == [nbits |-> nbits, v |-> [ix \in 0..(Words(nbits) - 1) |-> {}]]

bitmap_create(nbits) ==
  LET words == Words(nbits)
      over(ix) == IF words > nbits \div BITS_PER_WORD /\ ix = words - 1
                  THEN (nbits - ix * BITS_PER_WORD)..(BITS_PER_WORD - 1) ELSE {}
  IN  [nbits |-> nbits, v |-> [ix \in 0..(words - 1) |-> over(ix)]]

bitmap_translate(bitno) == [ix |-> bitno \div BITS_PER_WORD, offset |-> bitno % BITS_PER_WORD]
bitmap_mark(b, index) ==
  LET t == bitmap_translate(index) IN [b EXCEPT !.v[t.ix] = @ \union {t.offset}]
bitmap_unmark(b, index) ==
  LET t == bitmap_translate(index) IN [b EXCEPT !.v[t.ix] = @ \ {t.offset}]
bitmap_isset(b, index) ==
  LET t == bitmap_translate(index) IN t.offset \in b.v[t.ix]
\* The first clear bit of the first word that has one; none is ENOSPC.
Room(b) == {ix \in DOMAIN b.v : b.v[ix] # 0..(BITS_PER_WORD - 1)}
bitmap_alloc(b) ==
  LET ix == CHOOSE ix \in Room(b) : \A y \in Room(b) : ix <= y
      free == (0..(BITS_PER_WORD - 1)) \ b.v[ix]
      offset == CHOOSE o \in free : \A y \in free : o <= y
  IN  IF Room(b) = {} THEN [b |-> b, index |-> ENOSPC]
      ELSE [b |-> [b EXCEPT !.v[ix] = @ \union {offset}], index |-> ix * BITS_PER_WORD + offset]

(***************************************************************************)
(* The tests.  The entries are numbers from 1; NULL is 0.  random() is a   *)
(* choice, made where the test makes it.                                   *)
(***************************************************************************)
Loop(n, F(_)) == [i \in 1..n |-> F(i - 1)]
testa ==
  << <<"num", 0>> >>
  \o FlattenSeq(Loop(TESTSIZE, LAMBDA i : << <<"add", i + 1>>, <<"num", i + 1>> >>))
  \o Loop(TESTSIZE, LAMBDA i : <<"get", i, i + 1>>)
  \o << <<"num", TESTSIZE>>, <<"getany">>, <<"num", TESTSIZE>> >>
  \o Loop(TESTSIZE, LAMBDA i : <<"set", i, TESTSIZE - i>>)
  \o Loop(TESTSIZE, LAMBDA i : <<"get", i, TESTSIZE - i>>)
  \o << <<"setsize", TESTSIZE \div 2>> >>
  \o Loop(TESTSIZE \div 2, LAMBDA i : <<"get", i, TESTSIZE - i>>)
  \o << <<"remove", 1>> >>
  \o Loop((TESTSIZE \div 2) - 2, LAMBDA i : <<"get", i + 1, TESTSIZE - i - 2>>)
  \o << <<"get", 0, TESTSIZE>>, <<"setsize", 2>>, <<"get", 0, TESTSIZE>>, <<"get", 1, TESTSIZE - 2>>,
        <<"set", 1, NULL>>, <<"setsize", 2>>, <<"get", 0, TESTSIZE>>, <<"get", 1, NULL>>,
        <<"setsize", TESTSIZE * 10>>, <<"get", 0, TESTSIZE>>, <<"get", 1, NULL>> >>
arraytest == testa \o << <<"setsize", 0>> >> \o testa \o << <<"setsize", 0>>, <<"cleanup">> >>
NTH(i) == i + 2
arraytest2 ==
  FlattenSeq(Loop(BIGTESTSIZE, LAMBDA i : << <<"add", 1>>, <<"index", i>> >>))
  \o << <<"num", BIGTESTSIZE>> >> \o Loop(BIGTESTSIZE, LAMBDA i : <<"get", i, 1>>)
  \o << <<"setsize", 0>>, <<"setsize", BIGTESTSIZE>> >>
  \o Loop(BIGTESTSIZE, LAMBDA i : <<"set", i, NTH(i)>>)
  \o Loop(BIGTESTSIZE, LAMBDA i : <<"get", i, NTH(i)>>)
  \o << <<"remove", 1>>, <<"get", 0, NTH(0)>>, <<"num", BIGTESTSIZE - 1>> >>
  \o Loop(BIGTESTSIZE - 2, LAMBDA i : <<"get", i + 1, NTH(i + 2)>>)
  \o << <<"setsize", BIGTESTSIZE * 2>>, <<"get", 0, NTH(0)>> >>
  \o Loop(BIGTESTSIZE - 2, LAMBDA i : <<"get", i + 1, NTH(i + 2)>>)
  \o << <<"setsize", 0>>, <<"cleanup">> >>
\* data is chosen; the marks and then their complement are checked, and what
\* is left is allocated.
bitmaptest(data) ==
  LET each(F(_)) == FlattenSeq(Loop(TESTSIZE, F))
  IN  each(LAMBDA i : << <<"isset", i, FALSE>> >>)
      \o each(LAMBDA i : IF i \in data THEN << <<"mark", i>> >> ELSE <<>>)
      \o each(LAMBDA i : << <<"isset", i, i \in data>> >>)
      \o each(LAMBDA i : IF i \in data THEN << <<"unmark", i>> >> ELSE << <<"mark", i>> >>)
      \o each(LAMBDA i : << <<"isset", i, i \notin data>> >>)
      \o each(LAMBDA i : IF i \in data THEN << <<"alloc", data>> >> ELSE <<>>)
      \o << <<"alloc", {ENOSPC}>> >>
      \o each(LAMBDA i : << <<"isset", i, TRUE>> >>)

Get(c) == c[2] < arr.num /\ array_get(arr, c[2]) = c[3]
KASSERT(c) ==
  CASE c[1] = "num"    -> arr.num = c[2]
    [] c[1] = "index"  -> got = c[2]
    [] c[1] = "get"    -> Get(c)
    [] c[1] = "getany" -> \A i \in 0..(TESTSIZE - 1) : Get(<<"get", i, i + 1>>)
    [] c[1] \in {"set", "remove"} -> c[2] < arr.num
    [] c[1] = "cleanup" -> array_cleanup(arr)
    [] c[1] = "isset"  -> bitmap_isset(bm, c[2]) = c[3]
    [] c[1] = "mark"   -> c[2] < bm.nbits /\ ~bitmap_isset(bm, c[2])
    [] c[1] = "unmark" -> c[2] < bm.nbits /\ bitmap_isset(bm, c[2])
    [] c[1] = "alloc"  -> bitmap_alloc(bm).index \in c[2]
    [] OTHER -> TRUE
Arr(c) ==
  CASE c[1] = "add"     -> array_add(arr, c[2])
    [] c[1] = "set"     -> array_set(arr, c[2], c[3])
    [] c[1] = "setsize" -> array_setsize(arr, c[2])
    [] c[1] = "remove"  -> array_remove(arr, c[2])
    [] OTHER -> arr
Bm(c) ==
  CASE c[1] = "mark"   -> bitmap_mark(bm, c[2])
    [] c[1] = "unmark" -> bitmap_unmark(bm, c[2])
    [] c[1] = "alloc"  -> bitmap_alloc(bm).b
    [] OTHER -> bm

Init ==
  /\ \/ test \in {arraytest, arraytest2} \union {bitmaptest(data) : data \in SUBSET (0..(TESTSIZE - 1))}
        /\ ops = MaxOps + 1 /\ bm = bitmap_create(TESTSIZE)
     \/ test = <<>> /\ ops = 0 /\ \E n \in 1..MaxBits : bm = bitmap_create(n)
  /\ arr = array_init /\ want = <<>> /\ marked = {} /\ got = 0 /\ panic = FALSE

TestStep ==
  /\ test # <<>> /\ ~panic
  /\ LET c == Head(test)
     IN  IF KASSERT(c)
         THEN /\ arr' = Arr(c) /\ bm' = Bm(c) /\ test' = Tail(test)
              /\ got' = IF c[1] = "add" THEN arr.num ELSE got
              /\ UNCHANGED panic
         ELSE panic' = TRUE /\ UNCHANGED <<arr, bm, test, got>>
  /\ UNCHANGED <<want, marked, ops>>

(***************************************************************************)
(* Free calls, within what the assertions of the functions ask; a call     *)
(* that needs a larger block may find no memory and then changes nothing.  *)
(***************************************************************************)
Call(a, w) == /\ arr' = a /\ want' = w /\ ops' = ops + 1
              /\ UNCHANGED <<bm, marked, test, got, panic>>
Resized(n) == [i \in 1..n |-> IF i <= Len(want) THEN want[i] ELSE JUNK]
Fails(num) == Grows(arr, num) /\ Call(arr, want)
Add(val) == /\ arr.num < MaxSize
            /\ \/ Call(array_add(arr, val), Append(want, val))
               \/ Fails(arr.num + 1)
Set(i, val) == i < arr.num /\ Call(array_set(arr, i, val), [want EXCEPT ![i + 1] = val])
Setsize(n) == Call(array_setsize(arr, n), Resized(n)) \/ Fails(n)
Preallocate(n) == Call(array_preallocate(arr, n), want) \/ Fails(n)
Remove_(i) == i < arr.num /\ Call(array_remove(arr, i), RemoveAt(want, i + 1))

Bits(b, m) == /\ bm' = b /\ marked' = m /\ ops' = ops + 1 /\ UNCHANGED <<arr, want, test, panic>>
Mark(i)   == i \notin marked /\ Bits(bitmap_mark(bm, i), marked \union {i}) /\ UNCHANGED got
Unmark(i) == i \in marked /\ Bits(bitmap_unmark(bm, i), marked \ {i}) /\ UNCHANGED got
Alloc == LET r == bitmap_alloc(bm)
         IN  Bits(r.b, IF r.index = ENOSPC THEN marked ELSE marked \union {r.index}) /\ got' = r.index

\* Arrays and bitmaps are explored apart: the array with the smallest bitmap.
FreeCall ==
  /\ ops < MaxOps
  /\ \/ /\ bm = bitmap_create(1)
        /\ \/ \E val \in Vals : Add(val) \/ \E i \in 0..(MaxSize - 1) : Set(i, val)
           \/ \E n \in 0..MaxSize : Setsize(n) \/ Preallocate(n)
           \/ \E i \in 0..(MaxSize - 1) : Remove_(i)
     \/ /\ arr = array_init
        /\ \/ \E i \in 0..(bm.nbits - 1) : Mark(i) \/ Unmark(i)
           \/ Alloc

Next == TestStep \/ FreeCall
Spec == Init /\ [][Next]_vars

\* Whatever the calls and the failures of memory between them, the array
\* holds what its callers put there and nothing past its block, and the
\* bitmap has just the marked bits set, with those past its end never given
\* out; the kernel's own tests never panic.
ContainersExact ==
  /\ ~panic
  /\ arr.num <= arr.max /\ Len(arr.v) = arr.max
  /\ ops <= MaxOps =>
       /\ Len(want) = arr.num
       /\ \A i \in 1..Len(want) : want[i] # JUNK => arr.v[i] = want[i]
       /\ marked \subseteq 0..(bm.nbits - 1)
       /\ \A i \in 0..(bm.nbits - 1) : bitmap_isset(bm, i) <=> i \in marked
=============================================================================
