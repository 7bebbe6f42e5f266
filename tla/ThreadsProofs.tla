--------------------------- MODULE ThreadsProofs ----------------------------
(***************************************************************************)
(* The inductive invariant of Threads, for any number of processors,       *)
(* threads and wait channels, and the proofs that the interrupt handlers,  *)
(* migration and fork preserve it.                                         *)
(***************************************************************************)
EXTENDS Threads, TLAPS

Elems(s) == {s[k] : k \in 1 .. Len(s)}
NoRepeats(s) == \A j, k \in 1 .. Len(s) : s[j] = s[k] => j = k

(* Everything that can hold threads, and the threads that it holds.        *)
Container == ({"running", "runqueue", "waking", "victim", "zombie"} \X CPU)
             \cup ({"wchan"} \X WChan) \cup ({"new"} \X Thread)
HeldIn(x, cu, idle, rq, wk, mg, zo, wc, nt) ==
  CASE x[1] = "running"  -> IF idle[x[2]] THEN {} ELSE {cu[x[2]]}
    [] x[1] = "runqueue" -> Elems(rq[x[2]])
    [] x[1] = "waking"   -> Elems(wk[x[2]])
    [] x[1] = "victim"   -> Elems(mg[x[2]].victims)
    [] x[1] = "zombie"   -> zo[x[2]]
    [] x[1] = "wchan"    -> Elems(wc[x[2]])
    [] x[1] = "new"      -> {nt[x[2]]} \ {Null}
Held(cu, idle, rq, wk, mg, zo, wc, nt) ==
  [x \in Container |-> HeldIn(x, cu, idle, rq, wk, mg, zo, wc, nt)]
Content ==
  Held(curthread, c_isidle, runqueue, waking, mig, zombies, wc_threads, newthread)
Lives == {t \in Thread : t_state[t] # "none"}

(* F holds every thread of L exactly once, and no other.                   *)
Tiles(F, L) ==
  /\ F \in [Container -> SUBSET Thread]
  /\ \A x, y \in Container : \A t \in Thread : t \in F[x] /\ t \in F[y] => x = y
  /\ \A t \in Thread : t \in L <=> \E x \in Container : t \in F[x]

Once ==
  /\ \A c \in CPU : NoRepeats(runqueue[c]) /\ NoRepeats(waking[c]) /\ NoRepeats(mig[c].victims)
  /\ \A w \in WChan : NoRepeats(wc_threads[w])

(* The threads in the lists of a processor belong to it, and so does the   *)
(* one whose stack it is on, also when it is idle; that one is neither     *)
(* free nor still being made.                                              *)
Belong(c, S, cpu) == \A t \in S : cpu[t] = c
OnStack(c, t, cpu, state, nt) == cpu[t] = c /\ state[t] # "none" /\ \A p \in Thread : nt[p] # t
Home ==
  \A c \in CPU :
    /\ OnStack(c, curthread[c], t_cpu, t_state, newthread)
    /\ Belong(c, Elems(runqueue[c]), t_cpu) /\ Belong(c, Elems(mig[c].victims), t_cpu)
    /\ Belong(c, zombies[c], t_cpu)

(* What a clock interrupt knows of the run queues: the count of its own is *)
(* not more than there are, for nobody else takes threads out.             *)
MigSound(c, m, q, wk) ==
  /\ m.phase \in {"none", "yield"} => m = [NoMig EXCEPT !.phase = m.phase]
  /\ m.phase = "count" => m.i < NCPU /\ m.victims = <<>> /\ m.mine <= IF m.i > c THEN Len(q) ELSE 0
  /\ m.phase = "pull" => m.i = 0 /\ m.victims = <<>> /\ m.to_send <= Len(q)
  /\ m.phase = "send" => m.to_send <= Len(m.victims)
  /\ m.phase # "none" => wk = <<>>
Migrating == \A c \in CPU : MigSound(c, mig[c], runqueue[c], waking[c])

(* An idle processor that is waking threads will look at its queue.        *)
Rouses ==
  /\ NoLostWakeup
  /\ \A c \in CPU : waking[c] # <<>> /\ c_isidle[c] => woken[c]

(* The inductive invariant.                                                *)
ThreadsInv == TypeOK /\ Tiles(Content, Lives) /\ Once /\ Home /\ Migrating /\ Rouses

-----------------------------------------------------------------------------
(* Lists of threads and the sets of their elements.                        *)

LEMMA LenNat ==
  ASSUME NEW S, NEW s \in Seq(S)
  PROVE  Len(s) \in Nat /\ \A k \in 1 .. Len(s) : s[k] \in S
OBVIOUS

(* The empty list, and what a list that is not empty has.                  *)
LEMMA NoneIs ==
  ASSUME NEW S
  PROVE  <<>> \in Seq(S) /\ Len(<<>>) = 0 /\ \A s \in Seq(S) : s # <<>> => Len(s) \in Nat \ {0}
OBVIOUS

(* Adding at the end: length and elements.                                 *)
LEMMA AppendIs ==
  ASSUME NEW S, NEW s \in Seq(S), NEW x \in S
  PROVE  /\ Append(s, x) \in Seq(S) /\ Append(s, x) # <<>> /\ Len(Append(s, x)) = Len(s) + 1
         /\ \A k \in 1 .. Len(s) : Append(s, x)[k] = s[k]
         /\ Append(s, x)[Len(s) + 1] = x
OBVIOUS

(* Removing the head: length and elements.                                 *)
LEMMA TailIs ==
  ASSUME NEW S, NEW s \in Seq(S), s # <<>>
  PROVE  /\ Head(s) \in S /\ Tail(s) \in Seq(S) /\ Len(Tail(s)) = Len(s) - 1
         /\ \A k \in 1 .. Len(Tail(s)) : Tail(s)[k] = s[k + 1]
OBVIOUS

(* Part of a list: length and elements.                                    *)
LEMMA SubSeqIs ==
  ASSUME NEW S, NEW s \in Seq(S), NEW a \in 1 .. Len(s) + 1, NEW b \in a - 1 .. Len(s)
  PROVE  /\ SubSeq(s, a, b) \in Seq(S) /\ Len(SubSeq(s, a, b)) = b - a + 1
         /\ \A k \in 1 .. b - a + 1 : SubSeq(s, a, b)[k] = s[a + k - 1]
OBVIOUS

(* Two lists in a row: length and elements.                                *)
LEMMA ConcatIs ==
  ASSUME NEW S, NEW s \in Seq(S), NEW r \in Seq(S)
  PROVE  /\ s \o r \in Seq(S) /\ Len(s \o r) = Len(s) + Len(r)
         /\ \A k \in 1 .. Len(s) + Len(r) :
              (s \o r)[k] = IF k <= Len(s) THEN s[k] ELSE r[k - Len(s)]
OBVIOUS

(* The empty list adds nothing.                                            *)
LEMMA ConcatNone ==
  ASSUME NEW S, NEW s \in Seq(S)
  PROVE  s \o <<>> = s /\ <<>> \o s = s
OBVIOUS

(* The empty list holds no thread.                                         *)
LEMMA ElemsEmpty == Elems(<<>>) = {} /\ NoRepeats(<<>>)
BY DEF Elems, NoRepeats

(* Adding a thread that is not in a list keeps it free of repetitions.     *)
LEMMA ElemsAppend ==
  ASSUME NEW S, NEW s \in Seq(S), NEW x \in S
  PROVE  /\ Append(s, x) \in Seq(S) /\ Append(s, x) # <<>> /\ Len(Append(s, x)) = Len(s) + 1
         /\ Elems(Append(s, x)) = Elems(s) \cup {x}
         /\ NoRepeats(s) /\ x \notin Elems(s) => NoRepeats(Append(s, x))
<1>1. /\ Append(s, x) \in Seq(S) /\ Append(s, x) # <<>> /\ Len(Append(s, x)) = Len(s) + 1
      /\ \A k \in 1 .. Len(s) : Append(s, x)[k] = s[k]
      /\ Append(s, x)[Len(s) + 1] = x
  BY AppendIs
<1>2. Len(s) \in Nat
  BY LenNat
<1>3. PICK r : r = Append(s, x)
  BY Zenon
<1>4. /\ Elems(r) = Elems(s) \cup {x}
      /\ NoRepeats(s) /\ x \notin Elems(s) => NoRepeats(r)
  <2>1. /\ Len(r) = Len(s) + 1 /\ r[Len(s) + 1] = x
        /\ \A k \in 1 .. Len(s) : r[k] = s[k]
    BY <1>1, <1>3
  <2>2. Elems(r) = Elems(s) \cup {x}
    BY <2>1, <1>2 DEF Elems
  <2>3. NoRepeats(s) /\ x \notin Elems(s) => NoRepeats(r)
    BY <2>1, <1>2 DEF Elems, NoRepeats
  <2> QED BY <2>2, <2>3
<1> QED BY <1>1, <1>3, <1>4

(* Without repetitions, removing the head removes that thread.             *)
LEMMA ElemsTail ==
  ASSUME NEW S, NEW s \in Seq(S), s # <<>>
  PROVE  /\ Tail(s) \in Seq(S) /\ Head(s) \in Elems(s) /\ Head(s) \in S
         /\ NoRepeats(s) => /\ Elems(Tail(s)) = Elems(s) \ {Head(s)}
                            /\ NoRepeats(Tail(s))
<1>1. /\ Head(s) \in S /\ Tail(s) \in Seq(S) /\ Len(Tail(s)) = Len(s) - 1
      /\ \A k \in 1 .. Len(Tail(s)) : Tail(s)[k] = s[k + 1]
  BY TailIs
<1>2. Len(s) \in Nat \ {0} /\ Head(s) = s[1]
  BY NoneIs
<1>3. PICK r : r = Tail(s)
  BY Zenon
<1>4. Len(r) = Len(s) - 1 /\ \A k \in 1 .. Len(s) - 1 : r[k] = s[k + 1]
  BY <1>1, <1>3
<1>5. Head(s) \in Elems(s)
  BY <1>2 DEF Elems
<1>6. ASSUME NoRepeats(s)
      PROVE  Elems(r) = Elems(s) \ {Head(s)} /\ NoRepeats(r)
  <2>1. NoRepeats(r)
    BY <1>2, <1>4, <1>6 DEF NoRepeats
  <2>2. ASSUME NEW x \in Elems(r) PROVE x \in Elems(s) \ {Head(s)}
    <3>1. PICK k \in 1 .. Len(r) : x = r[k]
      BY DEF Elems
    <3>2. x = s[k + 1] /\ k + 1 \in 1 .. Len(s) /\ k + 1 # 1
      BY <3>1, <1>4, <1>2
    <3> QED BY <3>2, <1>2, <1>6 DEF Elems, NoRepeats
  <2>3. ASSUME NEW x \in Elems(s) \ {Head(s)} PROVE x \in Elems(r)
    <3>1. PICK k \in 1 .. Len(s) : x = s[k]
      BY DEF Elems
    <3>2. k - 1 \in 1 .. Len(r) /\ r[k - 1] = s[k - 1 + 1]
      BY <3>1, <1>4, <1>2
    <3>3. r[k - 1] = x
      BY <3>1, <3>2
    <3> QED BY <3>2, <3>3 DEF Elems
  <2> QED BY <2>1, <2>2, <2>3
<1> QED BY <1>1, <1>3, <1>5, <1>6

(* A list cut in two after element n.                                      *)
LEMMA ElemsSplit ==
  ASSUME NEW S, NEW s \in Seq(S), NEW n \in 0 .. Len(s)
  PROVE  LET a == SubSeq(s, 1, n)
             b == SubSeq(s, n + 1, Len(s))
         IN  /\ a \in Seq(S) /\ b \in Seq(S) /\ Len(a) = n /\ Len(b) = Len(s) - n
             /\ Elems(a) = {s[k] : k \in 1 .. n} /\ Elems(a) \subseteq Elems(s)
             /\ NoRepeats(s) => NoRepeats(a) /\ NoRepeats(b) /\ Elems(b) = Elems(s) \ Elems(a)
<1>1. Len(s) \in Nat /\ \A k \in 1 .. Len(s) : s[k] \in S
  BY LenNat
<1>2. PICK a : a = SubSeq(s, 1, n)
  BY Zenon
<1>3. PICK b : b = SubSeq(s, n + 1, Len(s))
  BY Zenon
<1>4. a \in Seq(S) /\ Len(a) = n /\ \A k \in 1 .. n : a[k] = s[k]
  <2>1. \A k \in 1 .. n : s[k] \in S
    BY <1>1
  <2>2. /\ SubSeq(s, 1, n) \in Seq(S)
        /\ Len(SubSeq(s, 1, n)) = IF 1 <= n THEN n - 1 + 1 ELSE 0
        /\ \A k \in 1 .. n - 1 + 1 : SubSeq(s, 1, n)[k] = s[1 + k - 1]
    BY <2>1, <1>1, SubSeqIs
  <2> QED BY <2>2, <1>2, <1>1
<1>5. b \in Seq(S) /\ Len(b) = Len(s) - n /\ \A k \in 1 .. Len(s) - n : b[k] = s[n + k]
  <2>1. \A k \in n + 1 .. Len(s) : s[k] \in S
    BY <1>1
  <2>2. /\ SubSeq(s, n + 1, Len(s)) \in Seq(S)
        /\ Len(SubSeq(s, n + 1, Len(s))) = IF n + 1 <= Len(s) THEN Len(s) - (n + 1) + 1 ELSE 0
        /\ \A k \in 1 .. Len(s) - (n + 1) + 1 : SubSeq(s, n + 1, Len(s))[k] = s[n + 1 + k - 1]
    BY <2>1, <1>1, SubSeqIs
  <2> QED BY <2>2, <1>3, <1>1
<1>6. Elems(a) = {s[k] : k \in 1 .. n} /\ Elems(a) \subseteq Elems(s)
  BY <1>1, <1>4 DEF Elems
<1>7. ASSUME NoRepeats(s)
      PROVE  NoRepeats(a) /\ NoRepeats(b) /\ Elems(b) = Elems(s) \ Elems(a)
  <2>1. NoRepeats(a)
    BY <1>1, <1>4, <1>7 DEF NoRepeats
  <2>2. NoRepeats(b)
    BY <1>1, <1>5, <1>7 DEF NoRepeats
  <2>3. ASSUME NEW x \in Elems(b) PROVE x \in Elems(s) \ Elems(a)
    <3>1. PICK k \in 1 .. Len(b) : x = b[k]
      BY DEF Elems
    <3>2. x = s[n + k] /\ n + k \in 1 .. Len(s) /\ n + k > n
      BY <3>1, <1>5, <1>1
    <3>3. \A j \in 1 .. n : s[j] # s[n + k]
      BY <3>2, <1>1, <1>7 DEF NoRepeats
    <3>4. x \notin Elems(a)
      BY <3>2, <3>3, <1>6
    <3> QED BY <3>2, <3>4 DEF Elems
  <2>4. ASSUME NEW x \in Elems(s) \ Elems(a) PROVE x \in Elems(b)
    <3>1. PICK k \in 1 .. Len(s) : x = s[k]
      BY DEF Elems
    <3>2. k > n
      BY <3>1, <1>6, <1>1
    <3>3. k - n \in 1 .. Len(b) /\ b[k - n] = s[n + (k - n)]
      BY <3>1, <3>2, <1>5, <1>1
    <3>4. b[k - n] = x
      BY <3>1, <3>3
    <3> QED BY <3>3, <3>4 DEF Elems
  <2> QED BY <2>1, <2>2, <2>3, <2>4
<1> QED BY <1>2, <1>3, <1>4, <1>5, <1>6, <1>7

(* Two lists without common threads, in a row.                             *)
LEMMA ElemsConcat ==
  ASSUME NEW S, NEW s \in Seq(S), NEW t \in Seq(S)
  PROVE  /\ s \o t \in Seq(S) /\ Len(s \o t) = Len(s) + Len(t)
         /\ Elems(s \o t) = Elems(s) \cup Elems(t)
         /\ NoRepeats(s) /\ NoRepeats(t) /\ Elems(s) \cap Elems(t) = {} => NoRepeats(s \o t)
<1>1. /\ s \o t \in Seq(S) /\ Len(s \o t) = Len(s) + Len(t)
      /\ \A k \in 1 .. Len(s) + Len(t) : (s \o t)[k] = IF k <= Len(s) THEN s[k] ELSE t[k - Len(s)]
  BY ConcatIs
<1>2. Len(s) \in Nat /\ Len(t) \in Nat
  BY LenNat
<1>3. PICK r : r = s \o t
  BY Zenon
<1>4. /\ Len(r) = Len(s) + Len(t)
      /\ \A k \in 1 .. Len(r) : r[k] = IF k <= Len(s) THEN s[k] ELSE t[k - Len(s)]
  BY <1>1, <1>3
<1>5. Elems(r) = Elems(s) \cup Elems(t)
  <2>1. ASSUME NEW x \in Elems(t) PROVE x \in Elems(r)
    <3>1. PICK k \in 1 .. Len(t) : x = t[k]
      BY DEF Elems
    <3>2. k + Len(s) \in 1 .. Len(r) /\ r[k + Len(s)] = t[k + Len(s) - Len(s)]
      BY <3>1, <1>4, <1>2
    <3>3. r[k + Len(s)] = x
      BY <3>1, <3>2
    <3> QED BY <3>2, <3>3 DEF Elems
  <2>2. ASSUME NEW x \in Elems(s) PROVE x \in Elems(r)
    BY <1>4, <1>2 DEF Elems
  <2>3. ASSUME NEW x \in Elems(r) PROVE x \in Elems(s) \cup Elems(t)
    BY <1>4, <1>2 DEF Elems
  <2> QED BY <2>1, <2>2, <2>3
<1>6. ASSUME NoRepeats(s), NoRepeats(t), Elems(s) \cap Elems(t) = {}
      PROVE  NoRepeats(r)
  <2>1. SUFFICES ASSUME NEW j \in 1 .. Len(r), NEW k \in 1 .. Len(r), r[j] = r[k] PROVE j = k
    BY DEF NoRepeats
  <2>2. \A a \in 1 .. Len(s), b \in 1 .. Len(t) : s[a] # t[b]
    BY <1>6 DEF Elems
  <2>3. CASE j <= Len(s) /\ k <= Len(s)
    BY <2>1, <2>3, <1>4, <1>2, <1>6 DEF NoRepeats
  <2>4. CASE j > Len(s) /\ k > Len(s)
    <3>1. j - Len(s) \in 1 .. Len(t) /\ k - Len(s) \in 1 .. Len(t)
      BY <2>4, <1>4, <1>2
    <3>2. t[j - Len(s)] = t[k - Len(s)]
      BY <2>1, <2>4, <1>4, <1>2
    <3>3. j - Len(s) = k - Len(s)
      BY <3>1, <3>2, <1>6 DEF NoRepeats
    <3> QED BY <3>3, <1>2, <1>4
  <2>5. CASE j <= Len(s) /\ k > Len(s)
    <3>1. j \in 1 .. Len(s) /\ k - Len(s) \in 1 .. Len(t)
      BY <2>5, <1>4, <1>2
    <3>2. s[j] = t[k - Len(s)]
      BY <2>1, <2>5, <1>4, <1>2
    <3> QED BY <3>1, <3>2, <2>2
  <2>6. CASE j > Len(s) /\ k <= Len(s)
    <3>1. k \in 1 .. Len(s) /\ j - Len(s) \in 1 .. Len(t)
      BY <2>6, <1>4, <1>2
    <3>2. s[k] = t[j - Len(s)]
      BY <2>1, <2>6, <1>4, <1>2
    <3> QED BY <3>1, <3>2, <2>2
  <2> QED BY <2>3, <2>4, <2>5, <2>6, <1>2, <1>4
<1> QED BY <1>1, <1>3, <1>5, <1>6

(* The element put at the end of the list is its last, and the list has    *)
(* the elements that it had.                                               *)
LEMMA ElemsPutLast ==
  ASSUME NEW S, NEW s \in Seq(S), NEW k \in 1 .. Len(s), NoRepeats(s)
  PROVE  LET r == PutLast(s, k)
         IN  /\ r \in Seq(S) /\ Len(r) = Len(s) /\ r[Len(s)] = s[k]
             /\ Elems(r) = Elems(s) /\ NoRepeats(r)
<1>1. Len(s) \in Nat /\ k - 1 \in 0 .. Len(s) /\ k \in 0 .. Len(s) /\ s[k] \in S /\ k - 1 + 1 = k
  BY LenNat
<1>2. PICK a : a = SubSeq(s, 1, k - 1)
  BY Zenon
<1>3. PICK b : b = SubSeq(s, k + 1, Len(s))
  BY Zenon
<1>4. PICK d : d = SubSeq(s, 1, k)
  BY Zenon
<1>5. /\ a \in Seq(S) /\ Len(a) = k - 1 /\ NoRepeats(a)
      /\ Elems(a) = {s[j] : j \in 1 .. k - 1}
  BY <1>1, <1>2, ElemsSplit
<1>6. /\ b \in Seq(S) /\ Len(b) = Len(s) - k /\ NoRepeats(b)
      /\ Elems(d) = {s[j] : j \in 1 .. k} /\ Elems(b) = Elems(s) \ Elems(d)
  BY <1>1, <1>3, <1>4, ElemsSplit
<1>7. PICK u : u = a \o b
  BY Zenon
<1>8. /\ Elems(a) \cap Elems(b) = {} /\ s[k] \notin Elems(a) /\ s[k] \notin Elems(b)
      /\ Elems(a) \cup Elems(b) \cup {s[k]} = Elems(s)
  <2>1. Elems(a) \subseteq Elems(d) /\ s[k] \in Elems(d) /\ Elems(d) = Elems(a) \cup {s[k]}
    BY <1>1, <1>5, <1>6
  <2>2. s[k] \notin Elems(a)
    BY <1>1, <1>5 DEF NoRepeats
  <2>3. Elems(d) \subseteq Elems(s)
    BY SMTT(40), <1>1, <1>6 DEF Elems
  <2> QED BY <2>1, <2>2, <2>3, <1>6
<1>9. u \in Seq(S) /\ Len(u) = Len(s) - 1 /\ Elems(u) = Elems(a) \cup Elems(b) /\ NoRepeats(u)
  <2>1. /\ a \o b \in Seq(S) /\ Len(a \o b) = Len(a) + Len(b)
        /\ Elems(a \o b) = Elems(a) \cup Elems(b)
        /\ NoRepeats(a) /\ NoRepeats(b) /\ Elems(a) \cap Elems(b) = {} => NoRepeats(a \o b)
    BY Zenon, <1>5, <1>6, ElemsConcat
  <2>2. Len(a) + Len(b) = Len(s) - 1
    BY <1>1, <1>5, <1>6
  <2>3. NoRepeats(a \o b)
    BY <2>1, <1>5, <1>6, <1>8
  <2> QED BY <2>1, <2>2, <2>3, <1>7
<1>10. PICK o : o = <<s[k]>>
  BY Zenon
<1>11. o \in Seq(S) /\ Len(o) = 1 /\ o[1] = s[k] /\ Elems(o) = {s[k]} /\ NoRepeats(o)
  BY <1>1, <1>10 DEF Elems, NoRepeats
<1>12. u \o o \in Seq(S) /\ Len(u \o o) = Len(s) /\ Elems(u \o o) = Elems(s) /\ NoRepeats(u \o o)
  <2>1. /\ u \o o \in Seq(S) /\ Len(u \o o) = Len(u) + Len(o)
        /\ Elems(u \o o) = Elems(u) \cup Elems(o)
        /\ NoRepeats(u) /\ NoRepeats(o) /\ Elems(u) \cap Elems(o) = {} => NoRepeats(u \o o)
    BY ZenonT(60), <1>9, <1>11, ElemsConcat
  <2> QED BY <2>1, <1>1, <1>8, <1>9, <1>11
<1>13. (u \o o)[Len(s)] = s[k]
  <2>1. (u \o o)[Len(s)] = IF Len(s) <= Len(u) THEN u[Len(s)] ELSE o[Len(s) - Len(u)]
    BY <1>1, <1>9, <1>11, ConcatIs
  <2> QED BY <2>1, <1>1, <1>9, <1>11
<1> QED BY Zenon, <1>2, <1>3, <1>7, <1>10, <1>12, <1>13 DEF PutLast

-----------------------------------------------------------------------------
(* Threads moved between containers.                                       *)

(* The threads of S go from a to b; they go from a for good; t comes to b. *)
Moved(F, S, a, b) ==
  [x \in Container |-> IF x = a THEN F[x] \ S ELSE IF x = b THEN F[x] \cup S ELSE F[x]]
Dropped(F, S, a) == [x \in Container |-> IF x = a THEN F[x] \ S ELSE F[x]]
Added(F, t, b) == [x \in Container |-> IF x = b THEN F[x] \cup {t} ELSE F[x]]

(* Moving threads from a container to another keeps each in one place.     *)
LEMMA MovedTiles ==
  ASSUME NEW F, NEW L, Tiles(F, L), NEW a \in Container, NEW b \in Container, a # b,
         NEW S \in SUBSET F[a]
  PROVE  Tiles(Moved(F, S, a, b), L)
<1>1. PICK G : G = Moved(F, S, a, b)
  OBVIOUS
<1>2. /\ F \in [Container -> SUBSET Thread] /\ S \subseteq Thread
      /\ \A x, y \in Container : \A t \in Thread : t \in F[x] /\ t \in F[y] => x = y
      /\ \A t \in Thread : t \in L <=> \E x \in Container : t \in F[x]
  BY DEF Tiles
<1>3. /\ G \in [Container -> SUBSET Thread]
      /\ G[a] = F[a] \ S /\ G[b] = F[b] \cup S
      /\ \A x \in Container : x # a /\ x # b => G[x] = F[x]
  BY <1>1, <1>2 DEF Moved
<1>4. \A x, y \in Container : \A t \in Thread : t \in G[x] /\ t \in G[y] => x = y
  <2>1. SUFFICES ASSUME NEW x \in Container, NEW y \in Container, NEW t \in Thread,
                        t \in G[x], t \in G[y]
                 PROVE  x = y
    OBVIOUS
  <2>2. CASE t \in S
    <3>1. \A u \in Container : t \in F[u] => u = a
      BY <2>2, <1>2
    <3>2. \A u \in Container : t \in G[u] => u = b
      BY <3>1, <2>2, <1>3
    <3> QED BY <3>2, <2>1
  <2>3. CASE t \notin S
    <3>1. \A u \in Container : t \in G[u] => t \in F[u]
      BY <2>3, <1>3
    <3> QED BY <3>1, <2>1, <1>2
  <2> QED BY <2>2, <2>3
<1>5. ASSUME NEW t \in Thread
      PROVE  t \in L <=> \E x \in Container : t \in G[x]
  <2>1. CASE t \in S
    <3>1. t \in L
      BY <2>1, <1>2
    <3>2. t \in G[b]
      BY <2>1, <1>3
    <3> QED BY <3>1, <3>2
  <2>2. CASE t \notin S
    <3>1. \A x \in Container : t \in G[x] <=> t \in F[x]
      BY <2>2, <1>3
    <3> QED BY <3>1, <1>2
  <2> QED BY <2>1, <2>2
<1> QED BY <1>1, <1>3, <1>4, <1>5 DEF Tiles

(* Dropping threads from a container, when they cease to exist.            *)
LEMMA DroppedTiles ==
  ASSUME NEW F, NEW L, Tiles(F, L), NEW a \in Container, NEW S \in SUBSET F[a]
  PROVE  Tiles(Dropped(F, S, a), L \ S)
<1>1. PICK G : G = Dropped(F, S, a)
  OBVIOUS
<1>2. /\ F \in [Container -> SUBSET Thread] /\ S \subseteq Thread
      /\ \A x, y \in Container : \A t \in Thread : t \in F[x] /\ t \in F[y] => x = y
      /\ \A t \in Thread : t \in L <=> \E x \in Container : t \in F[x]
  BY DEF Tiles
<1>3. /\ G \in [Container -> SUBSET Thread] /\ G[a] = F[a] \ S
      /\ \A x \in Container : x # a => G[x] = F[x]
  BY <1>1, <1>2 DEF Dropped
<1>4. \A x \in Container : \A t \in Thread : t \in G[x] <=> t \in F[x] /\ t \notin S
  <2>1. \A x \in Container : \A t \in Thread : t \in S /\ t \in F[x] => x = a
    BY <1>2
  <2> QED BY <2>1, <1>2, <1>3
<1>5. \A x, y \in Container : \A t \in Thread : t \in G[x] /\ t \in G[y] => x = y
  BY <1>2, <1>4
<1>6. \A t \in Thread : t \in L \ S <=> \E x \in Container : t \in G[x]
  BY <1>2, <1>4
<1> QED BY <1>1, <1>3, <1>5, <1>6 DEF Tiles

(* Adding a thread that did not exist to a container.                      *)
LEMMA AddedTiles ==
  ASSUME NEW F, NEW L, Tiles(F, L), NEW b \in Container, NEW t \in Thread, t \notin L
  PROVE  Tiles(Added(F, t, b), L \cup {t})
<1>1. PICK G : G = Added(F, t, b)
  OBVIOUS
<1>2. /\ F \in [Container -> SUBSET Thread]
      /\ \A x, y \in Container : \A u \in Thread : u \in F[x] /\ u \in F[y] => x = y
      /\ \A u \in Thread : u \in L <=> \E x \in Container : u \in F[x]
  BY DEF Tiles
<1>3. G \in [Container -> SUBSET Thread]
  BY <1>1, <1>2 DEF Added
<1>4. \A x \in Container : \A u \in Thread : u \in G[x] <=> u \in F[x] \/ (u = t /\ x = b)
  BY <1>1, <1>2 DEF Added
<1>5. \A x, y \in Container : \A u \in Thread : u \in G[x] /\ u \in G[y] => x = y
  <2>1. \A x \in Container : t \notin F[x]
    BY <1>2
  <2> QED BY <2>1, <1>2, <1>4
<1>6. \A u \in Thread : u \in L \cup {t} <=> \E x \in Container : u \in G[x]
  BY <1>2, <1>4
<1> QED BY <1>1, <1>3, <1>5, <1>6 DEF Tiles

(* What the containers hold, one by one.                                   *)
HoldsOnCPU(F, c, cu, idle, rq, wk, mg, zo) ==
  /\ F[<<"running", c>>] = IF idle[c] THEN {} ELSE {cu[c]}
  /\ F[<<"runqueue", c>>] = Elems(rq[c])
  /\ F[<<"waking", c>>] = Elems(wk[c])
  /\ F[<<"victim", c>>] = Elems(mg[c].victims)
  /\ F[<<"zombie", c>>] = zo[c]

(* What each container holds, in terms of the variables ...                *)
LEMMA HeldIs ==
  ASSUME NEW cu, NEW idle, NEW rq, NEW wk, NEW mg, NEW zo, NEW wc, NEW nt
  PROVE  LET F == Held(cu, idle, rq, wk, mg, zo, wc, nt)
         IN  /\ \A c \in CPU : HoldsOnCPU(F, c, cu, idle, rq, wk, mg, zo)
             /\ \A w \in WChan : F[<<"wchan", w>>] = Elems(wc[w])
             /\ \A p \in Thread : F[<<"new", p>>] = {nt[p]} \ {Null}
<1>1. ASSUME NEW c \in CPU
      PROVE  HoldsOnCPU(Held(cu, idle, rq, wk, mg, zo, wc, nt), c, cu, idle, rq, wk, mg, zo)
  BY Zenon DEF Held, HeldIn, Container, HoldsOnCPU
<1>2. ASSUME NEW w \in WChan
      PROVE  Held(cu, idle, rq, wk, mg, zo, wc, nt)[<<"wchan", w>>] = Elems(wc[w])
  BY DEF Held, HeldIn, Container
<1>3. ASSUME NEW p \in Thread
      PROVE  Held(cu, idle, rq, wk, mg, zo, wc, nt)[<<"new", p>>] = {nt[p]} \ {Null}
  BY DEF Held, HeldIn, Container
<1> QED BY <1>1, <1>2, <1>3

(* A container belongs to a processor, a wait channel or a forking thread. *)
LEMMA ContainerIs ==
  ASSUME NEW x \in Container
  PROVE  \/ \E k \in {"running", "runqueue", "waking", "victim", "zombie"}, c \in CPU : x = <<k, c>>
         \/ \E w \in WChan : x = <<"wchan", w>>
         \/ \E p \in Thread : x = <<"new", p>>
<1>1. CASE x \in {"running", "runqueue", "waking", "victim", "zombie"} \X CPU
  BY <1>1
<1>2. CASE x \in {"wchan"} \X WChan
  BY <1>2
<1>3. CASE x \in {"new"} \X Thread
  BY <1>3
<1> QED BY <1>1, <1>2, <1>3 DEF Container

(* ... and a function that agrees on all of them is that one.              *)
LEMMA IsHeld ==
  ASSUME NEW cu, NEW idle, NEW rq, NEW wk, NEW mg, NEW zo, NEW wc, NEW nt,
         NEW G, G = [x \in Container |-> G[x]],
         \A c \in CPU : HoldsOnCPU(G, c, cu, idle, rq, wk, mg, zo),
         \A w \in WChan : G[<<"wchan", w>>] = Elems(wc[w]),
         \A p \in Thread : G[<<"new", p>>] = {nt[p]} \ {Null}
  PROVE  G = Held(cu, idle, rq, wk, mg, zo, wc, nt)
<1>1. PICK F : F = Held(cu, idle, rq, wk, mg, zo, wc, nt)
  OBVIOUS
<1>2. F = [x \in Container |-> F[x]]
  BY <1>1 DEF Held
<1>3. /\ \A c \in CPU : HoldsOnCPU(F, c, cu, idle, rq, wk, mg, zo)
      /\ \A w \in WChan : F[<<"wchan", w>>] = Elems(wc[w])
      /\ \A p \in Thread : F[<<"new", p>>] = {nt[p]} \ {Null}
  BY <1>1, HeldIs
<1>4. ASSUME NEW x \in Container
      PROVE  G[x] = F[x]
  <2>1. \/ \E k \in {"running", "runqueue", "waking", "victim", "zombie"}, c \in CPU : x = <<k, c>>
        \/ \E w \in WChan : x = <<"wchan", w>>
        \/ \E p \in Thread : x = <<"new", p>>
    BY ContainerIs
  <2>2. ASSUME NEW k \in {"running", "runqueue", "waking", "victim", "zombie"}, NEW c \in CPU,
               x = <<k, c>>
        PROVE  G[x] = F[x]
    <3>1. /\ G[<<"running", c>>] = F[<<"running", c>>] /\ G[<<"runqueue", c>>] = F[<<"runqueue", c>>]
          /\ G[<<"waking", c>>] = F[<<"waking", c>>] /\ G[<<"victim", c>>] = F[<<"victim", c>>]
          /\ G[<<"zombie", c>>] = F[<<"zombie", c>>]
      BY ZenonT(60), <1>3 DEF HoldsOnCPU
    <3> QED BY <2>2, <3>1
  <2>3. ASSUME NEW w \in WChan, x = <<"wchan", w>> PROVE G[x] = F[x]
    BY <2>3, <1>3
  <2>4. ASSUME NEW p \in Thread, x = <<"new", p>> PROVE G[x] = F[x]
    <3>1. G[<<"new", p>>] = F[<<"new", p>>]
      BY <1>3
    <3> QED BY <2>4, <3>1
  <2> QED BY <2>1, <2>2, <2>3, <2>4
<1>5. [x \in Container |-> G[x]] = [x \in Container |-> F[x]]
  BY <1>4
<1> QED BY <1>1, <1>2, <1>5

(* The names of the containers.                                            *)
LEMMA ContainerNames ==
  /\ \A c \in CPU : /\ <<"running", c>> \in Container /\ <<"runqueue", c>> \in Container
                    /\ <<"waking", c>> \in Container /\ <<"victim", c>> \in Container
                    /\ <<"zombie", c>> \in Container
  /\ \A w \in WChan : <<"wchan", w>> \in Container
  /\ \A p \in Thread : <<"new", p>> \in Container
BY DEF Container

(* What the containers hold in the current state.                          *)
LEMMA ContentIs ==
  /\ Content = [x \in Container |-> Content[x]]
  /\ \A c \in CPU : HoldsOnCPU(Content, c, curthread, c_isidle, runqueue, waking, mig, zombies)
  /\ \A w \in WChan : Content[<<"wchan", w>>] = Elems(wc_threads[w])
  /\ \A p \in Thread : Content[<<"new", p>>] = {newthread[p]} \ {Null}
<1>1. Content = [x \in Container |-> Content[x]]
  BY DEF Content, Held
<1> QED BY <1>1, HeldIs DEF Content

(* A step that moves no thread.                                            *)
LEMMA NothingMoves ==
  ASSUME Tiles(Content, Lives),
         UNCHANGED <<curthread, c_isidle, runqueue, waking, zombies, wc_threads, newthread, t_state>>,
         \A c \in CPU : mig'[c].victims = mig[c].victims
  PROVE  Tiles(Content, Lives)'
<1>1. \A c \in CPU : HoldsOnCPU(Content, c, curthread', c_isidle', runqueue', waking', mig', zombies')
  BY Zenon, ContentIs DEF HoldsOnCPU
<1>2. Content = Held(curthread', c_isidle', runqueue', waking', mig', zombies', wc_threads', newthread')
  BY <1>1, ContentIs, IsHeld
<1>3. Content' = Content
  BY <1>2 DEF Content
<1>4. Lives' = Lives
  BY DEF Lives
<1> QED BY <1>3, <1>4 DEF Tiles

Mig == [phase : Phase, i : 0 .. NCPU, total : Nat, mine : Nat,
        share : Nat, to_send : Nat, victims : Seq(Thread)]

(* The record of a processor that is not in the middle of a migration, in  *)
(* any phase.                                                              *)
LEMMA NoMigIs ==
  ASSUME NEW ph \in Phase
  PROVE  \E n : /\ n = [NoMig EXCEPT !.phase = ph]
                /\ n \in Mig /\ n.phase = ph /\ n.i = 0 /\ n.total = 0 /\ n.mine = 0
                /\ n.share = 0 /\ n.to_send = 0 /\ n.victims = <<>>
                /\ n = [NoMig EXCEPT !.phase = n.phase]
<1>1. PICK n : n = [phase |-> ph, i |-> 0, total |-> 0, mine |-> 0,
                    share |-> 0, to_send |-> 0, victims |-> <<>>]
  BY Zenon
<1>2. <<>> \in Seq(Thread) /\ 0 \in 0 .. NCPU
  BY ThreadsAssumption
<1>3. n \in Mig
  BY <1>1, <1>2 DEF Mig
<1>4. /\ n.phase = ph /\ n.i = 0 /\ n.total = 0 /\ n.mine = 0
      /\ n.share = 0 /\ n.to_send = 0 /\ n.victims = <<>>
  BY <1>1
<1>5. n = [NoMig EXCEPT !.phase = ph]
  BY <1>1 DEF NoMig
<1> QED BY Zenon, <1>3, <1>4, <1>5

(* The types of the fields of a migration.                                 *)
LEMMA MigFields ==
  ASSUME NEW m \in Mig
  PROVE  /\ m.phase \in Phase /\ m.i \in 0 .. NCPU /\ m.i \in Int /\ m.total \in Nat /\ m.mine \in Nat
         /\ m.share \in Nat /\ m.to_send \in Nat /\ m.victims \in Seq(Thread)
BY ThreadsAssumption DEF Mig

-----------------------------------------------------------------------------
(* Each action preserves the invariant.                                    *)

LEMMA InterruptKeeps ==
  ASSUME ThreadsInv, NEW c \in CPU, interprocessor_interrupt(c)
  PROVE  ThreadsInv'
<1>1. TypeOK /\ Tiles(Content, Lives) /\ Once /\ Home /\ Migrating /\ Rouses
  BY DEF ThreadsInv
<1>2. /\ UNCHANGED <<curthread, c_isidle, runqueue, zombies, waking, mig,
                     wc_threads, t_cpu, t_state, newthread>>
      /\ irq' = [irq EXCEPT ![c] = FALSE] /\ woken' = [woken EXCEPT ![c] = c_isidle[c]]
  BY DEF interprocessor_interrupt
<1>3. TypeOK'
  BY Zenon, <1>1, <1>2 DEF TypeOK
<1>4. Tiles(Content, Lives)'
  BY <1>1, <1>2, NothingMoves
<1>5. Once' /\ Home' /\ Migrating'
  BY <1>1, <1>2 DEF Once, Home, Migrating
<1>6. Rouses'
  <2>1. \A d \in CPU : c_isidle[d] /\ d = c => woken'[d]
    BY <1>1, <1>2 DEF TypeOK
  <2>2. \A d \in CPU : d # c => irq'[d] = irq[d] /\ woken'[d] = woken[d]
    BY <1>1, <1>2 DEF TypeOK
  <2> QED BY <2>1, <2>2, <1>1, <1>2 DEF Rouses, NoLostWakeup
<1> QED BY <1>3, <1>4, <1>5, <1>6 DEF ThreadsInv

(* The clock interrupt begins, with or without a migration.                *)
LEMMA ClockKeeps ==
  ASSUME ThreadsInv, NEW c \in CPU, hardclock(c)
  PROVE  ThreadsInv'
<1>1. TypeOK /\ Tiles(Content, Lives) /\ Once /\ Home /\ Migrating /\ Rouses
  BY DEF ThreadsInv
<1>2. PICK phase \in {"count", "yield"} : mig' = [mig EXCEPT ![c].phase = phase]
  BY Zenon DEF hardclock
<1>3. /\ UNCHANGED <<curthread, c_isidle, irq, woken, waking, zombies, wc_threads, newthread,
                     runqueue, t_cpu, t_state>>
      /\ mig[c].phase = "none" /\ waking[c] = <<>>
  BY DEF hardclock, others, Free
<1>4. TypeOK'
  BY ZenonT(60), <1>1, <1>2, <1>3 DEF TypeOK, Phase
<1>5. \A d \in CPU : d # c => mig'[d] = mig[d]
  BY <1>1, <1>2 DEF TypeOK
<1>6. PICK n : /\ n = [NoMig EXCEPT !.phase = phase]
               /\ n.phase = phase /\ n.i = 0 /\ n.mine = 0 /\ n.victims = <<>>
               /\ n = [NoMig EXCEPT !.phase = n.phase]
  <2>1. phase \in Phase
    BY DEF Phase
  <2> QED BY <2>1, NoMigIs
<1>7. mig[c].victims = <<>> /\ mig'[c] = n
  <2>1. mig[c] = NoMig
    BY <1>1, <1>3 DEF Migrating, MigSound, NoMig
  <2> QED BY <2>1, <1>1, <1>2, <1>6 DEF TypeOK, NoMig
<1>8. \A d \in CPU : mig'[d].victims = mig[d].victims
  BY Zenon, <1>5, <1>6, <1>7
<1>9. Tiles(Content, Lives)'
  BY <1>1, <1>3, <1>8, NothingMoves
<1>10. Once' /\ Home'
  BY <1>1, <1>3, <1>8 DEF Once, Home
<1>11. Migrating'
  <2>1. MigSound(c, n, runqueue[c], waking[c])
    BY <1>3, <1>6, ThreadsAssumption DEF MigSound, CPU
  <2> QED BY <2>1, <1>1, <1>3, <1>5, <1>7 DEF Migrating
<1>12. Rouses'
  BY <1>1, <1>3, <1>5, <1>6, <1>7 DEF Rouses, NoLostWakeup
<1> QED BY <1>4, <1>9, <1>10, <1>11, <1>12 DEF ThreadsInv

(* Migration counts one processor's queue, and after the last decides how  *)
(* many threads to send.                                                   *)
LEMMA CountKeeps ==
  ASSUME ThreadsInv, NEW c \in CPU, count_runqueue(c)
  PROVE  ThreadsInv'
<1>1. TypeOK /\ Tiles(Content, Lives) /\ Once /\ Home /\ Migrating /\ Rouses
  BY DEF ThreadsInv
<1>2. PICK m, total, mine, share :
        /\ m = mig[c] /\ total = m.total + Len(runqueue[m.i]) /\ mine = Mine(c, m)
        /\ share = DivRoundUp(total, NCPU)
  OBVIOUS
<1>3. /\ UNCHANGED <<curthread, c_isidle, irq, woken, waking, zombies, wc_threads, newthread,
                     runqueue, t_cpu, t_state>>
      /\ m.phase = "count"
      /\ mig' = [mig EXCEPT ![c] =
           IF m.i < NCPU - 1 THEN [m EXCEPT !.i = @ + 1, !.total = total, !.mine = mine]
           ELSE IF HasNoneToSend(mine, share) THEN [NoMig EXCEPT !.phase = "yield"]
           ELSE [NoMig EXCEPT !.phase = "pull", !.share = share, !.to_send = mine - share]]
  BY <1>2 DEF count_runqueue, others
<1>4. /\ m \in Mig /\ m.i \in CPU /\ m.victims = <<>> /\ waking[c] = <<>>
      /\ m.mine <= (IF m.i > c THEN Len(runqueue[c]) ELSE 0)
  <2>1. m \in Mig
    BY <1>1, <1>2 DEF TypeOK, Mig
  <2>2. MigSound(c, m, runqueue[c], waking[c])
    BY <1>1, <1>2 DEF Migrating
  <2> QED BY <2>1, <2>2, <1>3, MigFields, ThreadsAssumption DEF MigSound, CPU
<1>5. /\ total \in Nat /\ mine \in Nat /\ share \in Nat
      /\ mine <= (IF m.i + 1 > c THEN Len(runqueue[c]) ELSE 0)
  <2>1. Len(runqueue[m.i]) \in Nat /\ Len(runqueue[c]) \in Nat
    BY Zenon, <1>1, <1>4, LenNat DEF TypeOK
  <2>2. total \in Nat
    BY <2>1, <1>2, <1>4, MigFields
  <2>3. mine \in Nat /\ mine <= (IF m.i + 1 > c THEN Len(runqueue[c]) ELSE 0)
    BY <2>1, <1>2, <1>4, MigFields, ThreadsAssumption DEF Mine, CPU
  <2>4. share \in Nat
    BY <2>2, <1>2, ThreadsAssumption DEF DivRoundUp
  <2> QED BY <2>2, <2>3, <2>4
<1>6. PICK n : n = mig'[c]
  OBVIOUS
<1>7. \A d \in CPU : d # c => mig'[d] = mig[d]
  BY <1>1, <1>3 DEF TypeOK
<1>8. n \in Mig /\ n.victims = <<>> /\ n.phase # "none" /\ MigSound(c, n, runqueue[c], waking[c])
  <2>1. n = IF m.i < NCPU - 1 THEN [m EXCEPT !.i = @ + 1, !.total = total, !.mine = mine]
            ELSE IF HasNoneToSend(mine, share) THEN [NoMig EXCEPT !.phase = "yield"]
            ELSE [NoMig EXCEPT !.phase = "pull", !.share = share, !.to_send = mine - share]
    BY <1>1, <1>3, <1>6 DEF TypeOK
  <2>2. CASE m.i < NCPU - 1
    <3>1. n = [m EXCEPT !.i = @ + 1, !.total = total, !.mine = mine] /\ m.i + 1 \in 0 .. NCPU
      BY <2>1, <2>2, <1>4, MigFields, ThreadsAssumption DEF CPU
    <3>2. /\ n \in Mig /\ n.phase = "count" /\ n.i = m.i + 1 /\ n.mine = mine
          /\ n.victims = <<>>
      BY Zenon, <3>1, <1>3, <1>4, <1>5 DEF Mig
    <3>3. n.i < NCPU
      BY <3>2, <2>2, <1>4, ThreadsAssumption DEF CPU
    <3> QED BY <3>2, <3>3, <1>4, <1>5 DEF MigSound
  <2>3. CASE ~(m.i < NCPU - 1) /\ HasNoneToSend(mine, share)
    <3>1. n \in Mig /\ n.phase = "yield" /\ n.victims = <<>> /\ n = [NoMig EXCEPT !.phase = n.phase]
      <4>1. n = [NoMig EXCEPT !.phase = "yield"]
        BY <2>1, <2>3
      <4>2. "yield" \in Phase
        BY DEF Phase
      <4> QED BY Zenon, <4>1, <4>2, NoMigIs
    <3> QED BY <3>1, <1>4 DEF MigSound
  <2>4. CASE ~(m.i < NCPU - 1) /\ ~HasNoneToSend(mine, share)
    <3>1. Len(runqueue[c]) \in Nat
      BY <1>1, LenNat DEF TypeOK
    <3>2. mine - share \in Nat /\ mine - share <= Len(runqueue[c])
      BY <2>4, <3>1, <1>4, <1>5, ThreadsAssumption DEF CPU, HasNoneToSend
    <3>3. n = [NoMig EXCEPT !.phase = "pull", !.share = share, !.to_send = mine - share]
      BY <2>1, <2>4
    <3>4. n = [phase |-> "pull", i |-> 0, total |-> 0, mine |-> 0,
               share |-> share, to_send |-> mine - share, victims |-> <<>>]
      BY Zenon, <3>3 DEF NoMig
    <3>5. "pull" \in Phase /\ 0 \in 0 .. NCPU /\ <<>> \in Seq(Thread)
      BY ThreadsAssumption DEF Phase
    <3>6. n \in Mig
      BY <3>2, <3>4, <3>5, <1>5 DEF Mig
    <3>7. n.phase = "pull" /\ n.i = 0 /\ n.to_send = mine - share /\ n.victims = <<>>
      BY <3>4
    <3> QED BY <3>2, <3>6, <3>7, <1>4 DEF MigSound
  <2> QED BY <2>2, <2>3, <2>4
<1>9. TypeOK'
  BY Zenon, <1>1, <1>3, <1>6, <1>8 DEF TypeOK, Mig
<1>10. \A d \in CPU : mig'[d].victims = mig[d].victims
  BY <1>2, <1>4, <1>6, <1>7, <1>8
<1>11. Tiles(Content, Lives)'
  BY <1>1, <1>3, <1>10, NothingMoves
<1>12. Once' /\ Home'
  BY <1>1, <1>3, <1>10 DEF Once, Home
<1>13. Migrating'
  BY SMTT(40), <1>1, <1>3, <1>6, <1>7, <1>8 DEF Migrating
<1>14. Rouses'
  BY <1>1, <1>2, <1>3, <1>6, <1>7, <1>8 DEF Rouses, NoLostWakeup
<1> QED BY <1>9, <1>11, <1>12, <1>13, <1>14 DEF ThreadsInv

(* Migration takes its victims off the end of its own queue, which is at   *)
(* least as long as it was when counted.                                   *)
LEMMA PullKeeps ==
  ASSUME ThreadsInv, NEW c \in CPU, pull_victims(c)
  PROVE  ThreadsInv'
<1>1. TypeOK /\ Tiles(Content, Lives) /\ Once /\ Home /\ Migrating /\ Rouses
  BY DEF ThreadsInv
<1>2. PICK m, q, keep : m = mig[c] /\ q = runqueue[c] /\ keep = Len(q) - m.to_send
  OBVIOUS
<1>3. PICK kept, v : kept = SubSeq(q, 1, keep) /\ v = SubSeq(q, keep + 1, Len(q))
  BY Zenon
<1>4. /\ UNCHANGED <<curthread, c_isidle, irq, woken, waking, zombies, wc_threads, newthread,
                     t_cpu, t_state>>
      /\ m.phase = "pull" /\ runqueue' = [runqueue EXCEPT ![c] = kept]
      /\ mig' = [mig EXCEPT ![c].phase = "send", ![c].victims = v]
  BY <1>2, <1>3 DEF pull_victims, others
<1>5. /\ m \in Mig /\ m.i = 0 /\ m.victims = <<>> /\ m.to_send \in 0 .. Len(q) /\ Len(q) \in Nat
      /\ q \in Seq(Thread) /\ NoRepeats(q) /\ waking[c] = <<>>
  <2>1. m \in Mig /\ q \in Seq(Thread) /\ NoRepeats(q)
    BY <1>1, <1>2 DEF TypeOK, Mig, Once
  <2>2. MigSound(c, m, q, waking[c])
    BY <1>1, <1>2 DEF Migrating
  <2>3. m.to_send \in Nat /\ Len(q) \in Nat
    BY <2>1, MigFields, LenNat
  <2> QED BY <2>1, <2>2, <2>3, <1>4 DEF MigSound
<1>6. keep \in 0 .. Len(q)
  BY <1>2, <1>5
<1>7. /\ kept \in Seq(Thread) /\ v \in Seq(Thread) /\ Len(v) = Len(q) - keep
      /\ NoRepeats(kept) /\ NoRepeats(v) /\ Elems(kept) \subseteq Elems(q)
      /\ Elems(v) = Elems(q) \ Elems(kept)
  BY <1>3, <1>5, <1>6, ElemsSplit
<1>8. Len(v) = m.to_send
  BY <1>2, <1>5, <1>6, <1>7
<1>9. PICK n : n = mig'[c]
  OBVIOUS
<1>10. /\ n \in Mig /\ n.phase = "send" /\ n.to_send = m.to_send /\ n.victims = v
       /\ \A d \in CPU \ {c} : mig'[d] = mig[d] /\ runqueue'[d] = runqueue[d]
       /\ runqueue'[c] = kept
  <2>1. n = [m EXCEPT !.phase = "send", !.victims = v]
    BY <1>1, <1>2, <1>4, <1>9 DEF TypeOK
  <2>2. n \in Mig /\ n.phase = "send" /\ n.to_send = m.to_send /\ n.victims = v
    BY Zenon, <2>1, <1>5, <1>7 DEF Mig, Phase
  <2> QED BY <2>2, <1>1, <1>4 DEF TypeOK
<1>11. TypeOK'
  <2>1. runqueue' \in [CPU -> Seq(Thread)]
    BY <1>1, <1>4, <1>7 DEF TypeOK
  <2>2. mig' \in [CPU -> Mig]
    BY <1>1, <1>4, <1>9, <1>10 DEF TypeOK, Mig
  <2> QED BY ZenonT(60), <2>1, <2>2, <1>1, <1>4 DEF TypeOK, Mig
<1>12. Tiles(Content, Lives)'
  <2>1. PICK a, b : a = <<"runqueue", c>> /\ b = <<"victim", c>>
    BY Zenon
  <2>2. PICK G : G = Moved(Content, Elems(v), a, b)
    OBVIOUS
  <2>3. a \in Container /\ b \in Container /\ a # b
    BY Zenon, <2>1, ContainerNames
  <2>4. Content[a] = Elems(q) /\ Content[b] = {}
    BY Zenon, <2>1, <1>2, <1>5, ContentIs, ElemsEmpty DEF HoldsOnCPU
  <2>5. Tiles(G, Lives)
    BY <2>2, <2>3, <2>4, <1>1, <1>7, MovedTiles
  <2>6. G[a] = Elems(kept) /\ G[b] = Elems(v)
    BY <2>2, <2>3, <2>4, <1>7 DEF Moved
  <2>7. \A x \in Container : x # a /\ x # b => G[x] = Content[x]
    BY <2>2 DEF Moved
  <2>8. \A d \in CPU : HoldsOnCPU(G, d, curthread', c_isidle', runqueue', waking', mig', zombies')
    <3>1. HoldsOnCPU(G, c, curthread', c_isidle', runqueue', waking', mig', zombies')
      BY ZenonT(60), <2>1, <2>6, <2>7, <1>4, <1>9, <1>10, ContentIs, ContainerNames DEF HoldsOnCPU
    <3>2. ASSUME NEW d \in CPU \ {c}
          PROVE  HoldsOnCPU(G, d, curthread', c_isidle', runqueue', waking', mig', zombies')
      BY ZenonT(60), <2>1, <2>7, <1>4, <1>10, ContentIs, ContainerNames DEF HoldsOnCPU
    <3> QED BY <3>1, <3>2
  <2>9. /\ \A w \in WChan : G[<<"wchan", w>>] = Elems(wc_threads'[w])
        /\ \A p \in Thread : G[<<"new", p>>] = {newthread'[p]} \ {Null}
    BY Zenon, <2>1, <2>7, <1>4, ContentIs, ContainerNames
  <2>10. G = [x \in Container |-> G[x]]
    BY <2>2 DEF Moved
  <2>11. G = Content'
    BY <2>8, <2>9, <2>10, IsHeld DEF Content
  <2>12. Lives' = Lives
    BY <1>4 DEF Lives
  <2> QED BY <2>5, <2>11, <2>12 DEF Tiles
<1>13. Once'
  BY Zenon, <1>1, <1>4, <1>7, <1>9, <1>10 DEF Once
<1>14. Home'
  <2>1. Belong(c, Elems(kept), t_cpu) /\ Belong(c, Elems(v), t_cpu)
    BY <1>1, <1>2, <1>7 DEF Home, Belong
  <2> QED BY Zenon, <2>1, <1>1, <1>4, <1>9, <1>10 DEF Home
<1>15. Migrating'
  <2>1. MigSound(c, n, kept, waking[c])
    BY <1>5, <1>8, <1>10 DEF MigSound
  <2> QED BY Zenon, <2>1, <1>1, <1>4, <1>9, <1>10 DEF Migrating
<1>16. Rouses'
  BY Zenon, <1>1, <1>4, <1>9, <1>10 DEF Rouses, NoLostWakeup
<1> QED BY <1>11, <1>12, <1>13, <1>14, <1>15, <1>16 DEF ThreadsInv

(* A migration under way stays sound when the queue grows.                 *)
LEMMA MigGrows ==
  ASSUME NEW c, NEW m \in Mig, NEW q, NEW r, NEW wk, MigSound(c, m, q, wk),
         Len(q) \in Nat, Len(r) \in Nat, Len(q) <= Len(r)
  PROVE  MigSound(c, m, r, wk)
BY MigFields DEF MigSound

(* Victims for which no processor had room go back to the queue they are   *)
(* from.                                                                   *)
LEMMA ReturnKeeps ==
  ASSUME ThreadsInv, NEW c \in CPU, return_victims(c)
  PROVE  ThreadsInv'
<1>1. TypeOK /\ Tiles(Content, Lives) /\ Once /\ Home /\ Migrating /\ Rouses
  BY DEF ThreadsInv
<1>2. PICK m, q, v : m = mig[c] /\ q = runqueue[c] /\ v = m.victims
  OBVIOUS
<1>3. PICK n : /\ n = [NoMig EXCEPT !.phase = "yield"] /\ n \in Mig
               /\ n.phase = "yield" /\ n.victims = <<>> /\ n = [NoMig EXCEPT !.phase = n.phase]
  <2>1. "yield" \in Phase
    BY DEF Phase
  <2> QED BY <2>1, NoMigIs
<1>4. /\ UNCHANGED <<curthread, c_isidle, irq, woken, waking, zombies, wc_threads, newthread,
                     t_cpu, t_state>>
      /\ m.phase = "send" /\ runqueue' = [runqueue EXCEPT ![c] = q \o v]
      /\ mig' = [mig EXCEPT ![c] = n]
  BY <1>2, <1>3 DEF return_victims, others
<1>5. /\ q \in Seq(Thread) /\ NoRepeats(q) /\ v \in Seq(Thread) /\ NoRepeats(v) /\ waking[c] = <<>>
  <2>1. q \in Seq(Thread) /\ NoRepeats(q) /\ NoRepeats(v) /\ m \in Mig
    BY <1>1, <1>2 DEF TypeOK, Mig, Once
  <2>2. v \in Seq(Thread)
    BY <2>1, <1>2, MigFields
  <2>3. waking[c] = <<>>
    BY Zenon, <1>1, <1>2, <1>4 DEF Migrating, MigSound
  <2> QED BY <2>1, <2>2, <2>3
<1>6. /\ \A d \in CPU \ {c} : mig'[d] = mig[d] /\ runqueue'[d] = runqueue[d]
      /\ runqueue'[c] = q \o v /\ mig'[c] = n
  BY <1>1, <1>4 DEF TypeOK
<1>7. PICK a, b : a = <<"victim", c>> /\ b = <<"runqueue", c>>
  BY Zenon
<1>8. /\ a \in Container /\ b \in Container /\ a # b
      /\ Content[a] = Elems(v) /\ Content[b] = Elems(q)
  <2>1. a \in Container /\ b \in Container /\ a # b
    BY Zenon, <1>7, ContainerNames
  <2>2. Content[a] = Elems(v) /\ Content[b] = Elems(q)
    BY Zenon, <1>2, <1>7, ContentIs DEF HoldsOnCPU
  <2> QED BY <2>1, <2>2
<1>9. Elems(q) \cap Elems(v) = {}
  BY <1>1, <1>8 DEF Tiles
<1>10. q \o v \in Seq(Thread) /\ Elems(q \o v) = Elems(q) \cup Elems(v) /\ NoRepeats(q \o v)
  BY <1>5, <1>9, ElemsConcat
<1>11. TypeOK'
  <2>1. runqueue' \in [CPU -> Seq(Thread)]
    BY <1>1, <1>4, <1>10 DEF TypeOK
  <2>2. mig' \in [CPU -> Mig]
    BY <1>1, <1>3, <1>4 DEF TypeOK, Mig
  <2> QED BY Zenon, <2>1, <2>2, <1>1, <1>4 DEF TypeOK, Mig
<1>12. Tiles(Content, Lives)'
  <2>1. PICK G : G = Moved(Content, Elems(v), a, b)
    OBVIOUS
  <2>2. Tiles(G, Lives)
    BY <2>1, <1>1, <1>8, MovedTiles
  <2>3. G[a] = {} /\ G[b] = Elems(q \o v)
    BY <2>1, <1>8, <1>10 DEF Moved
  <2>4. \A x \in Container : x # a /\ x # b => G[x] = Content[x]
    BY <2>1 DEF Moved
  <2>5. \A d \in CPU : HoldsOnCPU(G, d, curthread', c_isidle', runqueue', waking', mig', zombies')
    <3>1. HoldsOnCPU(G, c, curthread', c_isidle', runqueue', waking', mig', zombies')
      BY ZenonT(60), <2>3, <2>4, <1>3, <1>4, <1>6, <1>7, ContentIs, ContainerNames, ElemsEmpty DEF HoldsOnCPU
    <3>2. ASSUME NEW d \in CPU \ {c}
          PROVE  HoldsOnCPU(G, d, curthread', c_isidle', runqueue', waking', mig', zombies')
      BY ZenonT(60), <2>4, <1>4, <1>6, <1>7, ContentIs, ContainerNames DEF HoldsOnCPU
    <3> QED BY <3>1, <3>2
  <2>6. /\ \A w \in WChan : G[<<"wchan", w>>] = Elems(wc_threads'[w])
        /\ \A p \in Thread : G[<<"new", p>>] = {newthread'[p]} \ {Null}
    BY Zenon, <2>4, <1>4, <1>7, ContentIs, ContainerNames
  <2>7. G = [x \in Container |-> G[x]]
    BY <2>1 DEF Moved
  <2>8. G = Content'
    BY <2>5, <2>6, <2>7, IsHeld DEF Content
  <2>9. Lives' = Lives
    BY <1>4 DEF Lives
  <2> QED BY <2>2, <2>8, <2>9 DEF Tiles
<1>13. Once'
  BY <1>1, <1>3, <1>4, <1>6, <1>10, ElemsEmpty DEF Once
<1>14. Home'
  <2>1. Belong(c, Elems(q \o v), t_cpu) /\ Belong(c, Elems(<<>>), t_cpu)
    BY <1>1, <1>2, <1>10, ElemsEmpty DEF Home, Belong
  <2> QED BY <2>1, <1>1, <1>3, <1>4, <1>6 DEF Home
<1>15. Migrating'
  <2>1. MigSound(c, n, q \o v, waking[c])
    BY <1>3, <1>5 DEF MigSound
  <2> QED BY Zenon, <2>1, <1>1, <1>4, <1>6 DEF Migrating
<1>16. Rouses'
  BY ZenonT(60), <1>1, <1>3, <1>4, <1>6 DEF Rouses, NoLostWakeup
<1> QED BY <1>11, <1>12, <1>13, <1>14, <1>15, <1>16 DEF ThreadsInv

(* What a processor offers another: its own current thread is not among    *)
(* the first n, and no victim is lost.                                     *)
LEMMA OfferSound ==
  ASSUME NEW c \in CPU, NEW room \in Nat, NEW left, NEW n,
         mig[c].victims \in Seq(Thread), NoRepeats(mig[c].victims),
         mig[c].to_send \in Nat \ {0}, mig[c].to_send <= Len(mig[c].victims),
         left = IF MeetsSelf(c, room) THEN mig[c].to_send - 1 ELSE mig[c].to_send,
         n = LeastOf(room, left)
  PROVE  /\ Offered(c, room) \in Seq(Thread) /\ NoRepeats(Offered(c, room))
         /\ Len(Offered(c, room)) = Len(mig[c].victims)
         /\ Elems(Offered(c, room)) = Elems(mig[c].victims)
         /\ n \in Nat /\ left - n \in Nat /\ left <= Len(mig[c].victims) /\ n <= Len(mig[c].victims)
         /\ room = 0 => n = 0
         /\ \A k \in 1 .. n : Offered(c, room)[k] # curthread[c]
<1>1. PICK v, to_send : v = mig[c].victims /\ to_send = mig[c].to_send
  BY Zenon
<1>2. v \in Seq(Thread) /\ NoRepeats(v) /\ Len(v) \in Nat /\ to_send \in Nat \ {0} /\ to_send <= Len(v)
  BY <1>1, LenNat
<1>3. left \in Nat /\ left <= to_send /\ n \in Nat /\ n <= left /\ n <= room
  BY <1>1, <1>2 DEF LeastOf
<1>4. left - n \in Nat /\ left <= Len(v) /\ n <= Len(v) /\ (room = 0 => n = 0)
  BY <1>2, <1>3
<1>5. CASE MeetsSelf(c, room)
  <2>1. PICK k \in 1 .. LeastOf(room, to_send) : v[k] = curthread[c]
    BY <1>1, <1>5 DEF MeetsSelf
  <2>2. k \in 1 .. Len(v)
    BY <1>2, <2>1 DEF LeastOf
  <2>3. PICK j : j = CHOOSE l \in 1 .. Len(v) : v[l] = curthread[c]
    OBVIOUS
  <2>4. j \in 1 .. Len(v) /\ v[j] = curthread[c]
    BY <2>1, <2>2, <2>3
  <2>5. PICK r : r = PutLast(v, j)
    OBVIOUS
  <2>6. /\ r \in Seq(Thread) /\ Len(r) = Len(v) /\ r[Len(v)] = v[j]
        /\ Elems(r) = Elems(v) /\ NoRepeats(r)
    BY <2>4, <2>5, <1>2, ElemsPutLast
  <2>7. Offered(c, room) = r
    BY <2>3, <2>5, <1>1, <1>5 DEF Offered
  <2>8. left = to_send - 1
    BY <1>1, <1>5
  <2>9. n < Len(v)
    BY <2>8, <1>2, <1>3
  <2>10. \A l \in 1 .. n : r[l] # curthread[c]
    BY <2>4, <2>6, <2>9, <1>2, <1>3 DEF NoRepeats
  <2> QED BY <2>6, <2>7, <2>10, <1>1, <1>3, <1>4
<1>6. CASE ~MeetsSelf(c, room)
  <2>1. Offered(c, room) = v
    BY <1>1, <1>6 DEF Offered
  <2>2. left = to_send
    BY <1>1, <1>6
  <2>3. \A l \in 1 .. n : v[l] # curthread[c]
    BY <2>2, <1>1, <1>2, <1>6 DEF MeetsSelf
  <2> QED BY <2>1, <2>3, <1>1, <1>2, <1>3, <1>4
<1> QED BY <1>5, <1>6

(* Migration gives victims to a processor that has few threads; they       *)
(* belong to that one from then on.                                        *)
LEMMA SendKeeps ==
  ASSUME ThreadsInv, NEW c \in CPU, send_victims(c)
  PROVE  ThreadsInv'
<1>1. TypeOK /\ Tiles(Content, Lives) /\ Once /\ Home /\ Migrating /\ Rouses
  BY DEF ThreadsInv
<1>2. PICK m, i, v : m = mig[c] /\ i = m.i /\ v = m.victims
  OBVIOUS
<1>3. PICK q, room : /\ q = runqueue[i]
                     /\ room = IF i = c \/ m.share <= Len(q) THEN 0 ELSE m.share - Len(q)
  OBVIOUS
<1>4. PICK left, n, offered : /\ left = IF MeetsSelf(c, room) THEN m.to_send - 1 ELSE m.to_send
                              /\ n = LeastOf(room, left) /\ offered = Offered(c, room)
  BY SMTT(40)
<1>5. PICK sent, rest : sent = SubSeq(offered, 1, n) /\ rest = SubSeq(offered, n + 1, Len(offered))
  BY Zenon
<1>6. /\ m.phase = "send" /\ i < NCPU /\ m.to_send > 0
      /\ runqueue' = [runqueue EXCEPT ![i] = @ \o sent]
      /\ t_cpu' = SetCPU({offered[k] : k \in 1 .. n}, i)
      /\ irq' = [irq EXCEPT ![i] = @ \/ (n > 0 /\ c_isidle[i])]
      /\ mig' = [mig EXCEPT ![c].i = @ + 1, ![c].to_send = left - n, ![c].victims = rest]
      /\ UNCHANGED <<curthread, c_isidle, woken, waking, zombies, wc_threads, newthread, t_state>>
  BY ZenonT(60), <1>2, <1>3, <1>4, <1>5 DEF send_victims
<1>7. /\ m \in Mig /\ i \in CPU /\ v \in Seq(Thread) /\ NoRepeats(v) /\ m.to_send \in Nat \ {0}
      /\ m.to_send <= Len(v) /\ waking[c] = <<>> /\ m.share \in Nat /\ m.i \in 0 .. NCPU
      /\ q \in Seq(Thread) /\ NoRepeats(q) /\ Len(q) \in Nat /\ room \in Nat
  <2>1. m \in Mig /\ NoRepeats(v)
    BY <1>1, <1>2 DEF TypeOK, Mig, Once
  <2>2. v \in Seq(Thread) /\ m.to_send \in Nat /\ m.share \in Nat /\ m.i \in 0 .. NCPU
    BY <2>1, <1>2, MigFields
  <2>3. i \in CPU
    BY <2>2, <1>2, <1>6, ThreadsAssumption DEF CPU
  <2>4. m.to_send <= Len(v) /\ waking[c] = <<>>
    BY Zenon, <1>1, <1>2, <1>6 DEF Migrating, MigSound
  <2>5. q \in Seq(Thread) /\ NoRepeats(q)
    BY <2>3, <1>1, <1>3 DEF TypeOK, Once
  <2>6. Len(q) \in Nat
    BY <2>5, LenNat
  <2>7. room \in Nat
    BY <2>2, <2>6, <1>3
  <2> QED BY SMTT(40), <2>1, <2>2, <2>3, <2>4, <2>5, <2>6, <2>7, <1>6
<1>8. /\ offered \in Seq(Thread) /\ NoRepeats(offered) /\ Len(offered) = Len(v)
      /\ Elems(offered) = Elems(v)
      /\ n \in Nat /\ left - n \in Nat /\ left <= Len(v) /\ n <= Len(v)
      /\ room = 0 => n = 0
      /\ \A k \in 1 .. n : offered[k] # curthread[c]
  BY SMTT(40), <1>2, <1>4, <1>7, OfferSound
<1>9. PICK T : T = Elems(sent)
  OBVIOUS
<1>10. /\ sent \in Seq(Thread) /\ rest \in Seq(Thread) /\ Len(sent) = n /\ Len(rest) = Len(v) - n
       /\ NoRepeats(sent) /\ NoRepeats(rest) /\ T = {offered[k] : k \in 1 .. n}
       /\ T \subseteq Elems(v) /\ Elems(rest) = Elems(v) \ T
  <2>1. Len(offered) \in Nat /\ n \in 0 .. Len(offered)
    BY <1>7, <1>8, LenNat
  <2> QED BY SMTT(40), <2>1, <1>5, <1>8, <1>9, ElemsSplit
<1>11. PICK r : r = mig'[c]
  OBVIOUS
<1>12. /\ r \in Mig /\ r.phase = "send" /\ r.to_send = left - n /\ r.victims = rest
       /\ \A d \in CPU \ {c} : mig'[d] = mig[d]
       /\ runqueue'[i] = q \o sent /\ \A d \in CPU \ {i} : runqueue'[d] = runqueue[d]
       /\ \A d \in CPU \ {i} : irq'[d] = irq[d]
  <2>1. r = [m EXCEPT !.i = @ + 1, !.to_send = left - n, !.victims = rest]
    BY <1>1, <1>2, <1>6, <1>11 DEF TypeOK
  <2>2. m.i + 1 \in 0 .. NCPU
    BY <1>2, <1>6, <1>7, ThreadsAssumption
  <2>3. r \in Mig /\ r.phase = "send" /\ r.to_send = left - n /\ r.victims = rest
    BY Zenon, <2>1, <2>2, <1>6, <1>7, <1>8, <1>10 DEF Mig
  <2> QED BY ZenonT(60), <2>3, <1>1, <1>3, <1>6, <1>7 DEF TypeOK
<1>13. PICK a, b : a = <<"victim", c>> /\ b = <<"runqueue", i>>
  BY Zenon
<1>14. /\ a \in Container /\ b \in Container /\ a # b
       /\ Content[a] = Elems(v) /\ Content[b] = Elems(q)
  <2>1. a \in Container /\ b \in Container /\ a # b
    BY Zenon, <1>7, <1>13, ContainerNames
  <2>2. Content[a] = Elems(v) /\ Content[b] = Elems(q)
    BY Zenon, <1>2, <1>3, <1>7, <1>13, ContentIs DEF HoldsOnCPU
  <2> QED BY <2>1, <2>2
<1>15. T \subseteq Thread /\ \A x \in Container : x # a => T \cap Content[x] = {}
  BY <1>1, <1>10, <1>14 DEF Tiles
<1>16. q \o sent \in Seq(Thread) /\ Elems(q \o sent) = Elems(q) \cup T /\ NoRepeats(q \o sent)
       /\ Len(q \o sent) = Len(q) + n
  <2>1. Elems(q) \cap Elems(sent) = {}
    BY <1>9, <1>14, <1>15
  <2>2. /\ q \o sent \in Seq(Thread) /\ Len(q \o sent) = Len(q) + Len(sent)
        /\ Elems(q \o sent) = Elems(q) \cup Elems(sent)
        /\ NoRepeats(q) /\ NoRepeats(sent) /\ Elems(q) \cap Elems(sent) = {} => NoRepeats(q \o sent)
    BY Zenon, <1>7, <1>10, ElemsConcat
  <2> QED BY SMTT(40), <2>1, <2>2, <1>7, <1>9, <1>10
<1>17. TypeOK'
  <2>1. runqueue' \in [CPU -> Seq(Thread)]
    BY <1>1, <1>3, <1>6, <1>7, <1>16 DEF TypeOK
  <2>2. mig' \in [CPU -> Mig]
    <3>1. mig' = [mig EXCEPT ![c] = r]
      BY Zenon, <1>1, <1>6, <1>11 DEF TypeOK
    <3> QED BY <3>1, <1>1, <1>12 DEF TypeOK, Mig
  <2>3. t_cpu' \in [Thread -> CPU]
    BY <1>1, <1>6, <1>7 DEF TypeOK, SetCPU
  <2>4. irq' \in [CPU -> BOOLEAN]
    BY Zenon, <1>1, <1>6 DEF TypeOK
  <2> QED BY ZenonT(60), <2>1, <2>2, <2>3, <2>4, <1>1, <1>6 DEF TypeOK, Mig
<1>18. Tiles(Content, Lives)'
  <2>1. PICK G : G = Moved(Content, T, a, b)
    OBVIOUS
  <2>2. Tiles(G, Lives)
    BY <2>1, <1>1, <1>10, <1>14, MovedTiles
  <2>3. G[a] = Elems(rest) /\ G[b] = Elems(q \o sent)
    BY <2>1, <1>10, <1>14, <1>16 DEF Moved
  <2>4. \A x \in Container : x # a /\ x # b => G[x] = Content[x]
    BY <2>1 DEF Moved
  <2>5. ASSUME NEW d \in CPU
        PROVE  HoldsOnCPU(G, d, curthread', c_isidle', runqueue', waking', mig', zombies')
    <3>1. G[<<"runqueue", d>>] = Elems(runqueue'[d])
      <4>1. CASE d = i
        BY <4>1, <2>3, <1>12, <1>13
      <4>2. CASE d # i
        BY ZenonT(60), <4>2, <2>4, <1>12, <1>13, ContentIs, ContainerNames DEF HoldsOnCPU
      <4> QED BY <4>1, <4>2
    <3>2. G[<<"victim", d>>] = Elems(mig'[d].victims)
      <4>1. CASE d = c
        BY SMTT(40), <4>1, <2>3, <1>11, <1>12, <1>13
      <4>2. CASE d # c
        BY Zenon, <4>2, <2>4, <1>12, <1>13, ContentIs, ContainerNames DEF HoldsOnCPU
      <4> QED BY <4>1, <4>2
    <3>3. /\ G[<<"running", d>>] = IF c_isidle'[d] THEN {} ELSE {curthread'[d]}
          /\ G[<<"waking", d>>] = Elems(waking'[d]) /\ G[<<"zombie", d>>] = zombies'[d]
      BY Zenon, <2>4, <1>6, <1>13, ContentIs, ContainerNames DEF HoldsOnCPU
    <3> QED BY <3>1, <3>2, <3>3 DEF HoldsOnCPU
  <2>6. /\ \A w \in WChan : G[<<"wchan", w>>] = Elems(wc_threads'[w])
        /\ \A p \in Thread : G[<<"new", p>>] = {newthread'[p]} \ {Null}
    BY Zenon, <2>4, <1>6, <1>13, ContentIs, ContainerNames
  <2>7. G = [x \in Container |-> G[x]]
    BY <2>1 DEF Moved
  <2>8. G = Content'
    BY SMTT(40), <2>5, <2>6, <2>7, IsHeld DEF Content
  <2>9. Lives' = Lives
    BY <1>6 DEF Lives
  <2> QED BY <2>2, <2>8, <2>9 DEF Tiles
<1>19. Once'
  <2>1. \A d \in CPU : NoRepeats(runqueue'[d])
    BY ZenonT(60), <1>1, <1>7, <1>12, <1>16 DEF Once
  <2>2. \A d \in CPU : NoRepeats(mig'[d].victims)
    BY <1>1, <1>10, <1>11, <1>12 DEF Once
  <2> QED BY Zenon, <2>1, <2>2, <1>1, <1>6 DEF Once
<1>20. Home'
  <2>1. \A t \in Thread : t_cpu'[t] = IF t \in T THEN i ELSE t_cpu[t]
    BY <1>6, <1>10 DEF SetCPU
  <2>2. \A S \in SUBSET Thread : \A d \in CPU : S \cap T = {} /\ Belong(d, S, t_cpu) => Belong(d, S, t_cpu')
    BY <2>1 DEF Belong
  <2>3. ASSUME NEW d \in CPU
        PROVE  OnStack(d, curthread[d], t_cpu', t_state, newthread)
    <3>1. OnStack(d, curthread[d], t_cpu, t_state, newthread) /\ curthread[d] \in Thread
      BY <1>1 DEF Home, TypeOK
    <3>2. curthread[d] \notin T
      <4>1. CASE d = c
        BY SMTT(40), <4>1, <1>8, <1>10
      <4>2. CASE d # c
        <5>1. Belong(c, Elems(v), t_cpu)
          BY <1>1, <1>2 DEF Home
        <5> QED BY SMTT(40), <5>1, <4>2, <3>1, <1>10 DEF Belong, OnStack
      <4> QED BY <4>1, <4>2
    <3> QED BY <2>1, <3>1, <3>2 DEF OnStack
  <2>4. ASSUME NEW d \in CPU
        PROVE  Belong(d, Elems(runqueue'[d]), t_cpu')
    <3>1. Belong(d, Elems(runqueue[d]), t_cpu)
      BY <1>1 DEF Home
    <3>2. Elems(runqueue[d]) \cap T = {} /\ Elems(runqueue[d]) \subseteq Thread
      <4>1. Content[<<"runqueue", d>>] = Elems(runqueue[d]) /\ <<"runqueue", d>> \in Container
        BY ZenonT(60), ContentIs, ContainerNames DEF HoldsOnCPU
      <4> QED BY SMTT(40), <4>1, <1>1, <1>13, <1>15 DEF Tiles
    <3>3. Belong(d, Elems(runqueue[d]), t_cpu')
      BY <2>2, <3>1, <3>2
    <3>4. CASE d = i
      BY <3>3, <3>4, <2>1, <1>3, <1>12, <1>15, <1>16 DEF Belong
    <3>5. CASE d # i
      BY <3>3, <3>5, <1>12
    <3> QED BY <3>4, <3>5
  <2>5. ASSUME NEW d \in CPU
        PROVE  Belong(d, Elems(mig'[d].victims), t_cpu')
    <3>1. Belong(d, Elems(mig[d].victims), t_cpu)
      BY <1>1 DEF Home
    <3>2. Content[<<"victim", d>>] = Elems(mig[d].victims) /\ <<"victim", d>> \in Container
      BY ZenonT(60), ContentIs, ContainerNames DEF HoldsOnCPU
    <3>3. Elems(mig[d].victims) \subseteq Thread
      BY <3>2, <1>1 DEF Tiles
    <3>4. CASE d = c
      <4>1. Elems(rest) \cap T = {} /\ Elems(rest) \subseteq Elems(mig[d].victims)
        BY <3>4, <1>2, <1>10
      <4>2. Belong(d, Elems(rest), t_cpu)
        BY <4>1, <3>1 DEF Belong
      <4>3. Elems(rest) \in SUBSET Thread
        BY <4>1, <3>3
      <4> QED BY <4>1, <4>2, <4>3, <3>4, <2>2, <1>11, <1>12
    <3>5. CASE d # c
      <4>1. Elems(mig[d].victims) \cap T = {}
        BY SMTT(40), <3>2, <3>5, <1>13, <1>15
      <4> QED BY <4>1, <3>1, <3>3, <3>5, <2>2, <1>12
    <3> QED BY <3>4, <3>5
  <2>6. ASSUME NEW d \in CPU
        PROVE  Belong(d, zombies[d], t_cpu')
    <3>1. Content[<<"zombie", d>>] = zombies[d] /\ <<"zombie", d>> \in Container
      BY Zenon, ContentIs, ContainerNames DEF HoldsOnCPU
    <3>2. zombies[d] \cap T = {} /\ zombies[d] \in SUBSET Thread
      BY <3>1, <1>1, <1>13, <1>15 DEF Tiles
    <3> QED BY <3>2, <2>2, <1>1 DEF Home
  <2> QED BY Zenon, <2>3, <2>4, <2>5, <2>6, <1>6 DEF Home
<1>21. Migrating'
  <2>1. Len(rest) \in Nat /\ left - n <= Len(rest)
    <3>1. Len(v) \in Nat /\ left \in Int
      BY <1>4, <1>7, LenNat
    <3> QED BY <3>1, <1>8, <1>10
  <2>2. MigSound(c, r, runqueue'[c], waking[c])
    BY <2>1, <1>7, <1>12 DEF MigSound
  <2>3. ASSUME NEW d \in CPU \ {c} PROVE MigSound(d, mig[d], runqueue'[d], waking[d])
    <3>1. MigSound(d, mig[d], runqueue[d], waking[d]) /\ mig[d] \in Mig
      BY <1>1 DEF Migrating, TypeOK, Mig
    <3>2. CASE d = i
      <4>1. Len(q) \in Nat /\ Len(q \o sent) \in Nat /\ Len(q) <= Len(q \o sent)
        BY <1>7, <1>8, <1>16
      <4>2. MigSound(d, mig[d], q, waking[d])
        BY <3>1, <3>2, <1>3
      <4>3. MigSound(d, mig[d], q \o sent, waking[d])
        BY ZenonT(60), <3>1, <4>1, <4>2, MigGrows
      <4> QED BY <4>3, <3>2, <1>12
    <3>3. CASE d # i
      BY <3>1, <3>3, <1>12
    <3> QED BY <3>2, <3>3
  <2> QED BY Zenon, <2>2, <2>3, <1>6, <1>11, <1>12 DEF Migrating
<1>22. Rouses'
  <2>1. ASSUME NEW d \in CPU, c_isidle[d], runqueue'[d] # <<>>
        PROVE  irq'[d] \/ woken[d] \/ mig'[d].phase # "none" \/ waking[d] # <<>>
    <3>1. CASE d = c
      BY SMTT(40), <3>1, <1>11, <1>12
    <3>2. CASE d # c /\ d # i
      BY SMTT(40), <2>1, <3>2, <1>1, <1>12 DEF Rouses, NoLostWakeup
    <3>3. CASE d # c /\ d = i /\ n > 0
      <4>1. irq'[i] = (irq[i] \/ (n > 0 /\ c_isidle[i]))
        BY <1>1, <1>6, <1>7 DEF TypeOK
      <4> QED BY ZenonT(60), <4>1, <3>3, <2>1
    <3>4. CASE d # c /\ d = i /\ ~(n > 0)
      <4>1. runqueue'[d] = runqueue[d]
        <5>1. sent = <<>>
          BY SMTT(40), <3>4, <1>8, <1>10, NoneIs
        <5> QED BY <5>1, <3>4, <1>3, <1>7, <1>12, ConcatNone
      <4>2. irq[d] => irq'[d]
        BY <3>4, <1>1, <1>6, <1>7 DEF TypeOK
      <4> QED BY <4>1, <4>2, <3>4, <2>1, <1>1, <1>12 DEF Rouses, NoLostWakeup
    <3> QED BY <3>1, <3>2, <3>3, <3>4
  <2> QED BY ZenonT(60), <2>1, <1>1, <1>6 DEF Rouses, NoLostWakeup
<1> QED BY <1>17, <1>18, <1>19, <1>20, <1>21, <1>22 DEF ThreadsInv

(* What queueing t does, from wherever it comes.                            *)
Queued(c, t) ==
  /\ runqueue' \in [CPU -> Seq(Thread)] /\ irq' \in [CPU -> BOOLEAN]
  /\ t_state' \in [Thread -> {"none", "S_READY", "S_RUN", "S_SLEEP", "S_ZOMBIE"}]
  /\ Lives' = Lives /\ \A u \in Thread : t_state[u] # "none" => t_state'[u] # "none"
  /\ \A d \in CPU : /\ Elems(runqueue'[d]) = IF d = t_cpu[t] THEN Elems(runqueue[d]) \cup {t}
                                             ELSE Elems(runqueue[d])
                    /\ NoRepeats(runqueue'[d]) /\ Belong(d, Elems(runqueue'[d]), t_cpu)
                    /\ MigSound(d, mig[d], runqueue'[d], waking[d])
  /\ \A d \in CPU : c_isidle[d] /\ runqueue'[d] # <<>> =>
       d = c \/ irq'[d] \/ woken[d] \/ mig[d].phase # "none" \/ waking[d] # <<>>

(* A thread that is in container a is queued.                              *)
LEMMA Runnable ==
  ASSUME ThreadsInv, NEW c \in CPU, NEW t \in Thread, NEW a \in Container, t \in Content[a],
         \A d \in CPU : a # <<"runqueue", d>>,
         thread_make_runnable(c, t)
  PROVE  Queued(c, t)
<1>1. TypeOK /\ Tiles(Content, Lives) /\ Once /\ Home /\ Migrating /\ Rouses
  BY DEF ThreadsInv
<1>2. PICK i, q : i = t_cpu[t] /\ q = runqueue[i]
  OBVIOUS
<1>3. PICK r : r = Append(q, t)
  BY Zenon
<1>4. i \in CPU /\ q \in Seq(Thread) /\ NoRepeats(q)
  BY <1>1, <1>2 DEF TypeOK, Once
<1>5. /\ t_state' = [t_state EXCEPT ![t] = "S_READY"] /\ runqueue' = [runqueue EXCEPT ![i] = r]
      /\ irq' = [irq EXCEPT ![i] = @ \/ (c_isidle[i] /\ i # c)]
  BY <1>2, <1>3 DEF thread_make_runnable
<1>6. \A d \in CPU : t \notin Elems(runqueue[d])
  <2>1. \A d \in CPU : Content[<<"runqueue", d>>] = Elems(runqueue[d]) /\ <<"runqueue", d>> \in Container
    BY Zenon, ContentIs, ContainerNames DEF HoldsOnCPU
  <2>2. \A x \in Container : t \in Content[x] => x = a
    BY <1>1 DEF Tiles
  <2> QED BY Zenon, <2>1, <2>2
<1>7. /\ r \in Seq(Thread) /\ Elems(r) = Elems(q) \cup {t} /\ NoRepeats(r)
      /\ Len(r) = Len(q) + 1 /\ Len(q) \in Nat
  <2>1. t \notin Elems(q)
    BY <1>2, <1>4, <1>6
  <2>2. Len(q) \in Nat
    BY <1>4, LenNat
  <2>3. r \in Seq(Thread) /\ Elems(r) = Elems(q) \cup {t} /\ NoRepeats(r) /\ Len(r) = Len(q) + 1
    BY <2>1, <1>3, <1>4, ElemsAppend
  <2> QED BY <2>2, <2>3
<1>8. runqueue'[i] = r /\ \A d \in CPU \ {i} : runqueue'[d] = runqueue[d]
  BY <1>1, <1>4, <1>5 DEF TypeOK
<1>9. runqueue' \in [CPU -> Seq(Thread)] /\ t_state' \in [Thread -> {"none", "S_READY", "S_RUN", "S_SLEEP", "S_ZOMBIE"}]
  BY Zenon, <1>1, <1>5, <1>7 DEF TypeOK
<1>10. irq' \in [CPU -> BOOLEAN]
  BY Zenon, <1>1, <1>5 DEF TypeOK
<1>11. Lives' = Lives /\ \A u \in Thread : t_state[u] # "none" => t_state'[u] # "none"
  <2>1. t_state[t] # "none"
    BY <1>1 DEF Tiles, Lives
  <2>2. \A u \in Thread : t_state'[u] = IF u = t THEN "S_READY" ELSE t_state[u]
    BY <1>1, <1>5 DEF TypeOK
  <2> QED BY <2>1, <2>2 DEF Lives
<1>12. ASSUME NEW d \in CPU
       PROVE  /\ Elems(runqueue'[d]) = IF d = t_cpu[t] THEN Elems(runqueue[d]) \cup {t}
                                       ELSE Elems(runqueue[d])
              /\ NoRepeats(runqueue'[d]) /\ Belong(d, Elems(runqueue'[d]), t_cpu)
              /\ MigSound(d, mig[d], runqueue'[d], waking[d])
  <2>1. Belong(d, Elems(runqueue[d]), t_cpu) /\ NoRepeats(runqueue[d])
    <3>1. Belong(d, Elems(runqueue[d]), t_cpu)
      BY <1>1 DEF Home
    <3>2. NoRepeats(runqueue[d])
      BY <1>1 DEF Once
    <3> QED BY <3>1, <3>2
  <2>2. MigSound(d, mig[d], runqueue[d], waking[d]) /\ mig[d] \in Mig
    BY SMTT(40), <1>1 DEF Migrating, TypeOK, Mig
  <2>3. CASE d = i
    <3>1. Belong(i, Elems(r), t_cpu)
      BY <2>1, <2>3, <1>2, <1>7 DEF Belong
    <3>2. Len(q) <= Len(r) /\ Len(r) \in Nat
      BY <1>7
    <3>3. MigSound(i, mig[i], q, waking[i])
      BY <2>2, <2>3, <1>2
    <3>4. MigSound(i, mig[i], r, waking[i])
      BY SMTT(40), <3>2, <3>3, <2>2, <2>3, <1>7, MigGrows
    <3> QED BY Zenon, <3>1, <3>4, <2>3, <1>2, <1>7, <1>8
  <2>4. CASE d # i
    BY <2>1, <2>2, <2>4, <1>2, <1>8
  <2> QED BY <2>3, <2>4
<1>13. ASSUME NEW d \in CPU, c_isidle[d], runqueue'[d] # <<>>, d # c
       PROVE  irq'[d] \/ woken[d] \/ mig[d].phase # "none" \/ waking[d] # <<>>
  <2>1. CASE d = i
    BY <2>1, <1>1, <1>4, <1>5, <1>13 DEF TypeOK
  <2>2. CASE d # i
    <3>1. irq'[d] = irq[d]
      BY <2>2, <1>1, <1>5 DEF TypeOK
    <3> QED BY <2>2, <3>1, <1>1, <1>8, <1>13 DEF Rouses, NoLostWakeup
  <2> QED BY <2>1, <2>2
<1> QED BY <1>9, <1>10, <1>11, <1>12, <1>13 DEF Queued

(* thread_fork queues the new thread on the processor it was given, when   *)
(* its parent may be on another.                                           *)
LEMMA ForkKeeps ==
  ASSUME ThreadsInv, NEW c \in CPU, thread_fork(c)
  PROVE  ThreadsInv'
<1>1. TypeOK /\ Tiles(Content, Lives) /\ Once /\ Home /\ Migrating /\ Rouses
  BY DEF ThreadsInv
<1>2. PICK p, t : p = curthread[c] /\ t = newthread[p]
  OBVIOUS
<1>3. PICK a, b : a = <<"new", p>> /\ b = <<"runqueue", t_cpu[t]>>
  BY Zenon
<1>4. /\ UNCHANGED <<curthread, c_isidle, woken, zombies, waking, mig, wc_threads, t_cpu>>
      /\ t # Null /\ ~c_isidle[c] /\ thread_make_runnable(c, t)
      /\ newthread' = [newthread EXCEPT ![p] = Null]
  BY <1>2 DEF thread_fork, Running
<1>5. p \in Thread /\ t \in Thread /\ t_cpu[t] \in CPU
  BY <1>1, <1>2, <1>4 DEF TypeOK
<1>6. a \in Container /\ b \in Container /\ a # b /\ \A d \in CPU : a # <<"runqueue", d>>
  BY Zenon, <1>3, <1>5, ContainerNames
<1>7. Content[a] = {t} /\ Content[b] = Elems(runqueue[t_cpu[t]])
  <2>1. Content[<<"new", p>>] = {newthread[p]} \ {Null}
    BY <1>5, ContentIs
  <2>2. HoldsOnCPU(Content, t_cpu[t], curthread, c_isidle, runqueue, waking, mig, zombies)
    BY <1>5, ContentIs
  <2>3. Content[<<"runqueue", t_cpu[t]>>] = Elems(runqueue[t_cpu[t]])
    BY <2>2 DEF HoldsOnCPU
  <2>4. {newthread[p]} \ {Null} = {t}
    BY <1>2, <1>4
  <2> QED BY <2>1, <2>3, <2>4, <1>3
<1>8. /\ runqueue' \in [CPU -> Seq(Thread)] /\ irq' \in [CPU -> BOOLEAN]
      /\ t_state' \in [Thread -> {"none", "S_READY", "S_RUN", "S_SLEEP", "S_ZOMBIE"}]
      /\ Lives' = Lives /\ \A u \in Thread : t_state[u] # "none" => t_state'[u] # "none"
      /\ \A d \in CPU : /\ Elems(runqueue'[d]) = IF d = t_cpu[t] THEN Elems(runqueue[d]) \cup {t}
                                                 ELSE Elems(runqueue[d])
                        /\ NoRepeats(runqueue'[d]) /\ Belong(d, Elems(runqueue'[d]), t_cpu)
                        /\ MigSound(d, mig[d], runqueue'[d], waking[d])
      /\ \A d \in CPU : c_isidle[d] /\ runqueue'[d] # <<>> =>
           d = c \/ irq'[d] \/ woken[d] \/ mig[d].phase # "none" \/ waking[d] # <<>>
  <2>1. Queued(c, t)
    <3>1. t \in Content[a]
      BY <1>7
    <3> QED BY <3>1, <1>4, <1>5, <1>6, Runnable
  <2> QED BY <2>1 DEF Queued
<1>9. TypeOK'
  <2>1. newthread' \in [Thread -> Thread \cup {Null}]
    BY ZenonT(60), <1>1, <1>4 DEF TypeOK
  <2> QED BY Zenon, <2>1, <1>1, <1>4, <1>8 DEF TypeOK
<1>10. Tiles(Content, Lives)'
  <2>1. PICK G : G = Moved(Content, {t}, a, b)
    OBVIOUS
  <2>2. Tiles(G, Lives)
    BY <2>1, <1>1, <1>6, <1>7, MovedTiles
  <2>3. G[a] = {} /\ G[b] = Elems(runqueue'[t_cpu[t]])
    BY Zenon, <2>1, <1>5, <1>6, <1>7, <1>8 DEF Moved
  <2>4. \A x \in Container : x # a /\ x # b => G[x] = Content[x]
    BY <2>1 DEF Moved
  <2>5. ASSUME NEW d \in CPU
        PROVE  HoldsOnCPU(G, d, curthread', c_isidle', runqueue', waking', mig', zombies')
    <3>1. G[<<"runqueue", d>>] = Elems(runqueue'[d])
      <4>1. CASE d = t_cpu[t]
        BY <4>1, <2>3, <1>3
      <4>2. CASE d # t_cpu[t]
        BY Zenon, <4>2, <2>4, <1>3, <1>8, ContentIs, ContainerNames DEF HoldsOnCPU
      <4> QED BY <4>1, <4>2
    <3>2. /\ G[<<"running", d>>] = IF c_isidle'[d] THEN {} ELSE {curthread'[d]}
          /\ G[<<"waking", d>>] = Elems(waking'[d]) /\ G[<<"zombie", d>>] = zombies'[d]
          /\ G[<<"victim", d>>] = Elems(mig'[d].victims)
      BY ZenonT(60), <2>4, <1>3, <1>4, ContentIs, ContainerNames DEF HoldsOnCPU
    <3> QED BY <3>1, <3>2 DEF HoldsOnCPU
  <2>6. \A w \in WChan : G[<<"wchan", w>>] = Elems(wc_threads'[w])
    BY Zenon, <2>4, <1>3, <1>4, ContentIs, ContainerNames
  <2>7. \A u \in Thread : G[<<"new", u>>] = {newthread'[u]} \ {Null}
    <3>1. \A u \in Thread : newthread'[u] = IF u = p THEN Null ELSE newthread[u]
      BY <1>1, <1>4 DEF TypeOK
    <3> QED BY ZenonT(60), <3>1, <2>3, <2>4, <1>3, ContentIs, ContainerNames
  <2>8. G = [x \in Container |-> G[x]]
    BY <2>1 DEF Moved
  <2>9. G = Content'
    BY SMTT(40), <2>5, <2>6, <2>7, <2>8, IsHeld DEF Content
  <2> QED BY <2>2, <2>9, <1>8 DEF Tiles
<1>11. Once' /\ Migrating'
  <2>1. Once'
    BY <1>1, <1>4, <1>8 DEF Once
  <2>2. Migrating'
    BY <1>4, <1>8 DEF Migrating
  <2> QED BY <2>1, <2>2
<1>12. Home'
  <2>1. ASSUME NEW d \in CPU
        PROVE  OnStack(d, curthread[d], t_cpu, t_state', newthread')
    <3>1. curthread[d] \in Thread /\ OnStack(d, curthread[d], t_cpu, t_state, newthread)
      BY <1>1 DEF TypeOK, Home
    <3>2. \A u \in Thread : newthread'[u] \in {newthread[u], Null}
      BY <1>1, <1>4 DEF TypeOK
    <3> QED BY ZenonT(60), <3>1, <3>2, <1>8, ThreadsAssumption DEF OnStack
  <2> QED BY Zenon, <2>1, <1>1, <1>4, <1>8 DEF Home
<1>13. Rouses'
  BY <1>1, <1>4, <1>8 DEF Rouses, NoLostWakeup
<1> QED BY <1>9, <1>10, <1>11, <1>12, <1>13 DEF ThreadsInv

(* A fork that runs out of memory frees the new thread, which is nowhere   *)
(* else.                                                                   *)
LEMMA ForkFailsKeeps ==
  ASSUME ThreadsInv, NEW c \in CPU, thread_fork_fails(c)
  PROVE  ThreadsInv'
<1>1. TypeOK /\ Tiles(Content, Lives) /\ Once /\ Home /\ Migrating /\ Rouses
  BY DEF ThreadsInv
<1>2. PICK p, t : p = curthread[c] /\ t = newthread[p]
  OBVIOUS
<1>3. PICK a : a = <<"new", p>>
  BY Zenon
<1>4. /\ UNCHANGED <<curthread, c_isidle, irq, woken, runqueue, zombies, waking, mig, wc_threads, t_cpu>>
      /\ t # Null /\ t_state' = [t_state EXCEPT ![t] = "none"]
      /\ newthread' = [newthread EXCEPT ![p] = Null]
  BY <1>2 DEF thread_fork_fails
<1>5. p \in Thread /\ t \in Thread /\ a \in Container
  BY Zenon, <1>1, <1>2, <1>3, <1>4, ContainerNames DEF TypeOK
<1>6. Content[a] = {t}
  BY <1>2, <1>3, <1>4, <1>5, ContentIs
<1>7. /\ \A u \in Thread : newthread'[u] = IF u = p THEN Null ELSE newthread[u]
      /\ \A u \in Thread : t_state'[u] = IF u = t THEN "none" ELSE t_state[u]
  BY <1>1, <1>4 DEF TypeOK
<1>8. TypeOK'
  <2>1. newthread' \in [Thread -> Thread \cup {Null}]
    BY Zenon, <1>1, <1>4 DEF TypeOK
  <2>2. t_state' \in [Thread -> {"none", "S_READY", "S_RUN", "S_SLEEP", "S_ZOMBIE"}]
    BY Zenon, <1>1, <1>4 DEF TypeOK
  <2> QED BY Zenon, <2>1, <2>2, <1>1, <1>4 DEF TypeOK
<1>9. Tiles(Content, Lives)'
  <2>1. PICK G : G = Dropped(Content, {t}, a)
    OBVIOUS
  <2>2. Tiles(G, Lives \ {t})
    BY <2>1, <1>1, <1>5, <1>6, DroppedTiles
  <2>3. G[a] = {} /\ \A x \in Container : x # a => G[x] = Content[x]
    BY <2>1, <1>5, <1>6 DEF Dropped
  <2>4. \A d \in CPU : HoldsOnCPU(G, d, curthread', c_isidle', runqueue', waking', mig', zombies')
    BY ZenonT(60), <2>3, <1>3, <1>4, ContentIs, ContainerNames DEF HoldsOnCPU
  <2>5. \A w \in WChan : G[<<"wchan", w>>] = Elems(wc_threads'[w])
    BY Zenon, <2>3, <1>3, <1>4, ContentIs, ContainerNames
  <2>6. \A u \in Thread : G[<<"new", u>>] = {newthread'[u]} \ {Null}
    BY ZenonT(60), <2>3, <1>3, <1>7, ContentIs, ContainerNames
  <2>7. G = [x \in Container |-> G[x]]
    BY <2>1 DEF Dropped
  <2>8. G = Content'
    BY <2>4, <2>5, <2>6, <2>7, IsHeld DEF Content
  <2>9. Lives' = Lives \ {t}
    BY <1>7 DEF Lives
  <2> QED BY <2>2, <2>8, <2>9 DEF Tiles
<1>10. Once' /\ Migrating' /\ Rouses'
  BY <1>1, <1>4 DEF Once, Migrating, Rouses, NoLostWakeup
<1>11. Home'
  <2>1. ASSUME NEW d \in CPU
        PROVE  OnStack(d, curthread[d], t_cpu, t_state', newthread')
    <3>1. curthread[d] \in Thread /\ OnStack(d, curthread[d], t_cpu, t_state, newthread)
      BY <1>1 DEF TypeOK, Home
    <3>2. curthread[d] # t
      BY <3>1, <1>2, <1>5 DEF OnStack
    <3> QED BY <3>1, <3>2, <1>7, ThreadsAssumption DEF OnStack
  <2> QED BY Zenon, <2>1, <1>1, <1>4 DEF Home
<1> QED BY <1>8, <1>9, <1>10, <1>11 DEF ThreadsInv

(* A new thread is in the hands of its parent and belongs to the parent's  *)
(* processor.                                                              *)
LEMMA CreateKeeps ==
  ASSUME ThreadsInv, NEW c \in CPU, NEW t \in Thread, thread_create(c, t)
  PROVE  ThreadsInv'
<1>1. TypeOK /\ Tiles(Content, Lives) /\ Once /\ Home /\ Migrating /\ Rouses
  BY DEF ThreadsInv
<1>2. PICK p : p = curthread[c]
  OBVIOUS
<1>3. PICK b : b = <<"new", p>>
  BY Zenon
<1>4. /\ UNCHANGED <<curthread, c_isidle, irq, woken, runqueue, zombies, waking, mig, wc_threads>>
      /\ newthread[p] = Null /\ t_state[t] = "none"
      /\ newthread' = [newthread EXCEPT ![p] = t] /\ t_cpu' = [t_cpu EXCEPT ![t] = c]
      /\ t_state' = [t_state EXCEPT ![t] = "S_READY"]
  BY <1>2 DEF thread_create
<1>5. p \in Thread /\ b \in Container /\ t \notin Lives /\ t # Null
  BY Zenon, <1>1, <1>2, <1>3, <1>4, ContainerNames, ThreadsAssumption DEF TypeOK, Lives
<1>6. /\ \A u \in Thread : newthread'[u] = IF u = p THEN t ELSE newthread[u]
      /\ \A u \in Thread : t_state'[u] = IF u = t THEN "S_READY" ELSE t_state[u]
      /\ \A u \in Thread : t_cpu'[u] = IF u = t THEN c ELSE t_cpu[u]
  BY <1>1, <1>4 DEF TypeOK
<1>7. TypeOK'
  <2>1. newthread' \in [Thread -> Thread \cup {Null}] /\ t_cpu' \in [Thread -> CPU]
    BY Zenon, <1>1, <1>4 DEF TypeOK
  <2>2. t_state' \in [Thread -> {"none", "S_READY", "S_RUN", "S_SLEEP", "S_ZOMBIE"}]
    BY <1>1, <1>4 DEF TypeOK
  <2> QED BY Zenon, <2>1, <2>2, <1>1, <1>4 DEF TypeOK
<1>8. Tiles(Content, Lives)'
  <2>1. PICK G : G = Added(Content, t, b)
    OBVIOUS
  <2>2. Tiles(G, Lives \cup {t})
    BY <2>1, <1>1, <1>5, AddedTiles
  <2>3. Content[b] = {}
    BY <1>3, <1>4, <1>5, ContentIs
  <2>4. G[b] = {t} /\ \A x \in Container : x # b => G[x] = Content[x]
    BY <2>1, <2>3, <1>5 DEF Added
  <2>5. \A d \in CPU : HoldsOnCPU(G, d, curthread', c_isidle', runqueue', waking', mig', zombies')
    BY ZenonT(60), <2>4, <1>3, <1>4, ContentIs, ContainerNames DEF HoldsOnCPU
  <2>6. \A w \in WChan : G[<<"wchan", w>>] = Elems(wc_threads'[w])
    BY Zenon, <2>4, <1>3, <1>4, ContentIs, ContainerNames
  <2>7. \A u \in Thread : G[<<"new", u>>] = {newthread'[u]} \ {Null}
    <3>1. ASSUME NEW u \in Thread, u # p PROVE G[<<"new", u>>] = {newthread'[u]} \ {Null}
      BY Zenon, <3>1, <2>4, <1>3, <1>6, ContentIs, ContainerNames
    <3>2. G[<<"new", p>>] = {newthread'[p]} \ {Null}
      BY <2>4, <1>3, <1>5, <1>6
    <3> QED BY <3>1, <3>2
  <2>8. G = [x \in Container |-> G[x]]
    BY <2>1 DEF Added
  <2>9. G = Content'
    BY <2>5, <2>6, <2>7, <2>8, IsHeld DEF Content
  <2>10. Lives' = Lives \cup {t}
    BY <1>6 DEF Lives
  <2> QED BY <2>2, <2>9, <2>10 DEF Tiles
<1>9. Once' /\ Migrating' /\ Rouses'
  BY <1>1, <1>4 DEF Once, Migrating, Rouses, NoLostWakeup
<1>10. Home'
  <2>1. ASSUME NEW d \in CPU
        PROVE  OnStack(d, curthread[d], t_cpu', t_state', newthread')
    <3>1. curthread[d] \in Thread /\ OnStack(d, curthread[d], t_cpu, t_state, newthread)
      BY <1>1 DEF TypeOK, Home
    <3>2. curthread[d] # t
      BY <3>1, <1>4 DEF OnStack
    <3> QED BY <3>1, <3>2, <1>6 DEF OnStack
  <2>2. \A x \in Container : t \notin Content[x] /\ Content[x] \subseteq Thread
    BY <1>1, <1>5 DEF Tiles
  <2>3. ASSUME NEW d \in CPU
        PROVE  /\ Belong(d, Elems(runqueue[d]), t_cpu') /\ Belong(d, Elems(mig[d].victims), t_cpu')
               /\ Belong(d, zombies[d], t_cpu')
    <3>1. /\ t \notin Elems(runqueue[d]) /\ Elems(runqueue[d]) \subseteq Thread
          /\ t \notin Elems(mig[d].victims) /\ Elems(mig[d].victims) \subseteq Thread
          /\ t \notin zombies[d] /\ zombies[d] \subseteq Thread
      <4>1. /\ Content[<<"runqueue", d>>] = Elems(runqueue[d])
            /\ Content[<<"victim", d>>] = Elems(mig[d].victims)
            /\ Content[<<"zombie", d>>] = zombies[d]
        BY Zenon, ContentIs DEF HoldsOnCPU
      <4> QED BY Zenon, <4>1, <2>2, ContainerNames
    <3>2. /\ Belong(d, Elems(runqueue[d]), t_cpu) /\ Belong(d, Elems(mig[d].victims), t_cpu)
          /\ Belong(d, zombies[d], t_cpu)
      BY <1>1 DEF Home
    <3>3. \A u \in Thread : u # t => t_cpu'[u] = t_cpu[u]
      BY <1>6
    <3> QED BY Zenon, <3>1, <3>2, <3>3 DEF Belong
  <2> QED BY Zenon, <2>1, <2>3, <1>4 DEF Home
<1> QED BY <1>7, <1>8, <1>9, <1>10 DEF ThreadsInv
=============================================================================
