------------------------------- MODULE Strings ------------------------------
(***************************************************************************)
(* The string and memory functions of libc and the kernel, qsort and atoi, *)
(* on a small memory.  A char is a number below CharMax, 0 the terminator; *)
(* WORD chars make a long.  The functions are the operators below; the     *)
(* actions call the ones that write.                                       *)
(***************************************************************************)
EXTENDS Integers, SequencesExt

CONSTANTS Size, WORD, CharMax, Seps,       \* the memory; the separators of strtok_r
          Texts, IntBits                   \* what atoi reads, and the width of int

VARIABLE mem
Addr == 0..(Size - 1)
Char == 0..(CharMax - 1)
NULL == 0 - 1

(***************************************************************************)
(* Copies go word by word when both pointers and the length allow it, and  *)
(* char by char otherwise; a word is read whole before it is written.      *)
(***************************************************************************)
Words(d, s, len) == d % WORD = 0 /\ s % WORD = 0 /\ len % WORD = 0
Unit(d, s, len) == IF Words(d, s, len) THEN WORD ELSE 1
CopyUnit(m, d, s, w) == [a \in DOMAIN m |-> IF a \in d..(d + w - 1) THEN m[s + a - d] ELSE m[a]]
memcpy(m, d, s, len) ==
  LET w == Unit(d, s, len)
      c[i \in 0..(len \div w)] == IF i = 0 THEN m ELSE CopyUnit(c[i - 1], d + (i - 1) * w, s + (i - 1) * w, w)
  IN  c[len \div w]

\* Mutant: always front to back.
ForwardsOnly(m, d, s, len) == memcpy(m, d, s, len)

memmove(m, d, s, len) ==
  LET w == Unit(d, s, len)
      n == len \div w
      c[i \in 0..n] == IF i = n THEN m ELSE CopyUnit(c[i + 1], d + i * w, s + i * w, w)
  IN  IF d < s THEN memcpy(m, d, s, len) ELSE c[0]

memset(m, p, ch, len) == [a \in DOMAIN m |-> IF a \in p..(p + len - 1) THEN ch ELSE m[a]]
bzero(m, p, len) ==
  LET w == Unit(p, 0, len)
      units == {p + i * w : i \in 0..((len \div w) - 1)}
  IN  [a \in DOMAIN m |-> IF \E u \in units : a \in u..(u + w - 1) THEN 0 ELSE m[a]]

(***************************************************************************)
(* Strings.  The end of memory is a terminator, so that a string begins at *)
(* every address.                                                          *)
(***************************************************************************)
At(m, p) == IF p \in DOMAIN m THEN m[p] ELSE 0
RECURSIVE strlen(_, _)
strlen(m, p) == IF At(m, p) = 0 THEN 0 ELSE 1 + strlen(m, p + 1)

strcpy(m, d, s) ==
  LET c[i \in 0..Size] == IF i = 0 THEN m ELSE [c[i - 1] EXCEPT ![d + i - 1] = At(c[i - 1], s + i - 1)]
  IN  [c[strlen(m, s)] EXCEPT ![d + strlen(m, s)] = 0]
strcat(m, d, s) == strcpy(m, d + strlen(m, d), s)

RECURSIVE strchr(_, _, _)
strchr(m, p, ch) == IF At(m, p) = ch THEN p ELSE IF At(m, p) = 0 THEN NULL ELSE strchr(m, p + 1, ch)
strrchr(m, p, ch) ==
  LET f[i \in 0..(Size + 1)] == IF i = 0 THEN NULL ELSE IF At(m, p + i - 1) = ch THEN p + i - 1 ELSE f[i - 1]
  IN  f[strlen(m, p) + 1]

RECURSIVE strcmp(_, _, _)
strcmp(m, a, b) == IF At(m, a) # 0 /\ At(m, a) = At(m, b) THEN strcmp(m, a + 1, b + 1)
                   ELSE IF At(m, a) > At(m, b) THEN 1 ELSE IF At(m, a) = At(m, b) THEN 0 ELSE 0 - 1
memcmp(m, a, b, len) ==
  LET f[i \in 0..len] == IF i = len THEN 0
                         ELSE IF At(m, a + i) # At(m, b + i) THEN At(m, a + i) - At(m, b + i) ELSE f[i + 1]
  IN  f[0]

\* strtok_r: the word, the context and the memory it leaves.
RECURSIVE SkipSeps(_, _)
SkipSeps(m, p) == IF At(m, p) # 0 /\ At(m, p) \in Seps THEN SkipSeps(m, p + 1) ELSE p
RECURSIVE SkipWord(_, _)
SkipWord(m, p) == IF At(m, p) # 0 /\ At(m, p) \notin Seps THEN SkipWord(m, p + 1) ELSE p
strtok_r(m, context) ==
  LET head == SkipSeps(m, context)
      tail == SkipWord(m, head)
  IN  IF context = NULL \/ At(m, head) = 0 THEN [word |-> NULL, context |-> NULL, m |-> m]
      ELSE IF At(m, tail) = 0 THEN [word |-> head, context |-> NULL, m |-> m]
      ELSE [word |-> head, context |-> tail + 1, m |-> [m EXCEPT ![tail] = 0]]

RECURSIVE Tokens(_, _)
Tokens(m, context) ==
  LET t == strtok_r(m, context)
  IN  IF t.word = NULL THEN [m |-> m, words |-> <<>>]
      ELSE LET rest == Tokens(t.m, t.context)
           IN  [m |-> rest.m, words |-> <<t.word>> \o rest.words]

(***************************************************************************)
(* qsort of the memory's cells from lo, num of them.                       *)
(***************************************************************************)
Exchange(m, i, j) == [m EXCEPT ![i] = m[j], ![j] = m[i]]
COMPARE(m, lo, i, j) == m[lo + i] - m[lo + j]

RECURSIVE Partition(_, _, _, _, _)
Partition(m, lo, head, tail, pivot) ==
  IF head >= tail THEN [m |-> m, head |-> head, tail |-> tail, pivot |-> pivot]
  ELSE IF COMPARE(m, lo, head, pivot) <= 0 THEN Partition(m, lo, head + 1, tail, pivot)
  ELSE IF COMPARE(m, lo, tail, pivot) > 0 THEN Partition(m, lo, head, tail - 1, pivot)
  ELSE Partition(Exchange(m, lo + head, lo + tail), lo, head + 1, tail - 1,
                 IF pivot = head THEN tail ELSE IF pivot = tail THEN head ELSE pivot)

RECURSIVE Lop(_, _, _)
Lop(m, lo, tail) == IF tail > 0 /\ COMPARE(m, lo, tail - 1, tail) = 0 THEN Lop(m, lo, tail - 1) ELSE tail

RECURSIVE qsort(_, _, _)

\* Mutant: the pivot is left where it is when it is the largest.
PivotStays(m, lo, num, pivot) == m

LargestLast(m, lo, num, pivot) ==
  IF pivot < num - 1 /\ COMPARE(m, lo, pivot, num - 1) > 0 THEN Exchange(m, lo + pivot, lo + num - 1) ELSE m
qsort(m, lo, num) ==
  IF num <= 1 THEN m
  ELSE IF num = 2 /\ COMPARE(m, lo, 0, 1) > 0 THEN Exchange(m, lo, lo + 1)
  ELSE LET p    == Partition(m, lo, 0, num - 1, num \div 2)
           tail == IF p.head > p.tail \/ COMPARE(p.m, lo, p.head, p.pivot) <= 0 THEN p.tail + 1 ELSE p.tail
           m2   == LargestLast(p.m, lo, num, p.pivot)
       IN  IF tail = num THEN qsort(m2, lo, Lop(m2, lo, num - 1))
           ELSE qsort(qsort(p.m, lo, tail), lo + tail, num - tail)

(***************************************************************************)
(* atoi of a sequence of one-letter strings.                               *)
(***************************************************************************)
digits == <<"0", "1", "2", "3", "4", "5", "6", "7", "8", "9">>
RECURSIVE Spaces(_)
Spaces(s) == IF s # <<>> /\ Head(s) \in {" ", "\t"} THEN Spaces(Tail(s)) ELSE s
RECURSIVE Digits(_, _)
Digits(s, val) ==
  IF s = <<>> \/ Head(s) \notin ToSet(digits) THEN val
  ELSE Digits(Tail(s), (val * 10 + (CHOOSE i \in 1..10 : digits[i] = Head(s)) - 1) % 2 ^ IntBits)
atoi(text) ==
  LET s   == Spaces(text)
      neg == s # <<>> /\ Head(s) = "-"
      val == Digits(IF s # <<>> /\ Head(s) \in {"-", "+"} THEN Tail(s) ELSE s, 0)
      res == IF neg THEN (0 - val) % 2 ^ IntBits ELSE val
  IN  IF res >= 2 ^ (IntBits - 1) THEN res - 2 ^ IntBits ELSE res

(***************************************************************************)
(* The calls that write.                                                   *)
(***************************************************************************)
Init == mem = [a \in Addr |-> 0]
Fits(p, len) == p + len <= Size
Set(p, ch) == mem' = memset(mem, p, ch, 1)
Move(d, s, len) == Fits(d, len) /\ Fits(s, len) /\ mem' = memmove(mem, d, s, len)
Sort(p, num) == Fits(p, num) /\ mem' = qsort(mem, p, num)
Append_(d, s) == /\ strlen(mem, d) + strlen(mem, s) + d < s   \* no overlap, and the end is before s
                 /\ mem' = strcat(mem, d, s)
Next == \E p \in Addr, q \in Addr :
          \/ \E ch \in Char : q = 0 /\ Set(p, ch)
          \/ \E len \in 0..Size : Move(p, q, len)
          \/ Sort(p, q)
          \/ Append_(p, q)
Spec == Init /\ [][Next]_mem

Text(p) == SubSeq([i \in 1..Size |-> mem[i - 1]], p + 1, p + strlen(mem, p))
LexLess(s, t) == \/ IsStrictPrefix(s, t)
                 \/ \E i \in 1..Len(s) : i <= Len(t) /\ s[i] < t[i] /\ \A j \in 1..(i - 1) : s[j] = t[j]

\* A move gives the destination what the source held, whichever way they
\* overlap and by whatever units it goes, and touches nothing else; memcpy
\* does so when they do not overlap, and bzero clears what it is given.
MovesExact ==
  \A d \in Addr, s \in Addr, len \in 0..Size :
    Fits(d, len) /\ Fits(s, len) =>
      LET want == [a \in Addr |-> IF a \in d..(d + len - 1) THEN mem[s + a - d] ELSE mem[a]]
      IN  /\ memmove(mem, d, s, len) = want
          /\ d + len <= s \/ s + len <= d => memcpy(mem, d, s, len) = want
          /\ s = 0 => bzero(mem, d, len) = memset(mem, d, 0, len)

\* The comparisons order strings, and memory, as dictionaries do; the searches find the
\* first and the last; strtok_r finds every word once, in order, and leaves it
\* terminated; qsort leaves a sorted permutation, duplicates and all.
StringsExact ==
  /\ \A p \in Addr, q \in Addr :
       /\ strcmp(mem, p, q) = (IF Text(p) = Text(q) THEN 0 ELSE IF LexLess(Text(p), Text(q)) THEN 0 - 1 ELSE 1)
       /\ \A len \in 0..Size : Fits(p, len) /\ Fits(q, len) =>
            LET Bytes(a) == [i \in 1..len |-> mem[a + i - 1]]
                cmp == memcmp(mem, p, q, len)
            IN  /\ cmp = 0 <=> Bytes(p) = Bytes(q)
                /\ cmp < 0 <=> LexLess(Bytes(p), Bytes(q))
  /\ \A p \in Addr, ch \in Char \ {0} :
       LET hits == {i \in 1..Len(Text(p)) : Text(p)[i] = ch}
       IN  /\ strchr(mem, p, ch) = (IF hits = {} THEN NULL ELSE p - 1 + CHOOSE i \in hits : \A j \in hits : i <= j)
           /\ strrchr(mem, p, ch) = (IF hits = {} THEN NULL ELSE p - 1 + CHOOSE i \in hits : \A j \in hits : i >= j)
  /\ LET t == Tokens(mem, 0)
         n == strlen(mem, 0)
         starts == {a \in 0..(n - 1) : mem[a] \notin Seps /\ (a = 0 \/ mem[a - 1] \in Seps)}
     IN  /\ ToSet(t.words) = starts /\ Len(t.words) = Cardinality(starts)
         /\ \A i \in 1..(Len(t.words) - 1) : t.words[i] < t.words[i + 1]
         /\ \A a \in starts : \A b \in a..(a + strlen(t.m, a) - 1) : mem[b] \notin Seps
         /\ \A a \in 0..(n - 1) : mem[a] \notin Seps => t.m[a] = mem[a]
  /\ \A p \in Addr, num \in 0..Size :
       Fits(p, num) =>
         LET s == qsort(mem, p, num)
         IN  /\ \A a \in p..(p + num - 2) : s[a] <= s[a + 1]
             /\ \A ch \in Char : Cardinality({a \in p..(p + num - 1) : s[a] = ch})
                                   = Cardinality({a \in p..(p + num - 1) : mem[a] = ch})
             /\ \A a \in Addr \ (p..(p + num - 1)) : s[a] = mem[a]
  /\ \A t \in Texts : atoi(t.text) = t.value
=============================================================================
