---------------------------- MODULE SynchProofs -----------------------------
(***************************************************************************)
(* Proofs about Synch, for any number of threads, semaphores, locks and    *)
(* condition variables: no wakeup is lost, and the locks and condition     *)
(* variables implement Monitor.                                            *)
(***************************************************************************)
EXTENDS Synch, TLAPS, FiniteSetTheorems

(* The length and the elements of a sequence.                              *)
LEMMA SeqIs ==
  ASSUME NEW S, NEW s \in Seq(S)
  PROVE  /\ Len(s) \in Nat /\ \A k \in 1 .. Len(s) : s[k] \in S
         /\ s # <<>> => Len(s) # 0
OBVIOUS

(* Adding at the end.                                                      *)
LEMMA AppendIs ==
  ASSUME NEW S, NEW s \in Seq(S), NEW x \in S
  PROVE  /\ Append(s, x) \in Seq(S) /\ Len(Append(s, x)) = Len(s) + 1
         /\ \A k \in 1 .. Len(s) : Append(s, x)[k] = s[k]
         /\ Append(s, x)[Len(s) + 1] = x
OBVIOUS

(* Leaving out the first n.                                                *)
LEMMA RestIs ==
  ASSUME NEW S, NEW s \in Seq(S), NEW n \in 0 .. Len(s)
  PROVE  /\ SubSeq(s, n + 1, Len(s)) \in Seq(S) /\ Len(SubSeq(s, n + 1, Len(s))) = Len(s) - n
         /\ \A k \in 1 .. Len(s) - n : SubSeq(s, n + 1, Len(s))[k] = s[n + k]
OBVIOUS

(* What a thread is doing says what it is doing it to; and the spinlock of *)
(* a condition variable is held by the thread that is between lock_release *)
(* and wchan_sleep in cv_wait, and by no other.                            *)
Placed ==
  /\ \A t \in Thread :
       /\ pc[t] = "P" => on[t] \in Sem
       /\ pc[t] = "lock" => on[t] \in Lock
       /\ pc[t] = "relock" => on[t] \in CV
       /\ pc[t] = "release" => on[t] \in CV /\ cv_wchanlock[on[t]] = t
  /\ \A c \in CV : cv_wchanlock[c] # Nobody =>
       pc[cv_wchanlock[c]] = "release" /\ on[cv_wchanlock[c]] = c

(* A thread sleeps exactly when it is on a channel, once, and on the       *)
(* channel of what it waits for.                                           *)
Queued ==
  /\ \A o \in Object : \A i, j \in 1 .. Len(wchan[o]) : wchan[o][i] = wchan[o][j] => i = j
  /\ \A o \in Object : \A i \in 1 .. Len(wchan[o]) :
       pc[wchan[o][i]] = "sleep" /\ on[wchan[o][i]] = o
  /\ \A t \in Thread : pc[t] = "sleep" =>
       on[t] \in Object /\ \E i \in 1 .. Len(wchan[on[t]]) : wchan[on[t]][i] = t

(* The inductive invariant.                                                *)
SynchInv == TypeOK /\ Placed /\ Queued /\ NoLostWakeup

-----------------------------------------------------------------------------
(* No one sleeps at the start.                                             *)
LEMMA SynchInit == Init => SynchInv
<1> SUFFICES ASSUME Init PROVE SynchInv
  OBVIOUS
<1>1. TypeOK
  <2>1. wchan \in [Object -> Seq(Thread)]
    BY DEF Init
  <2>2. sem_count \in [Sem -> 0 .. MaxCount]
    BY SynchAssumption DEF Init
  <2>3. pc \in [Thread -> Doing] /\ signals \in [CV -> 0 .. 1]
    BY DEF Init, Doing
  <2>5. deadlock \in SUBSET (Thread \X Lock)
    BY DEF Init
  <2>4. /\ lk_holder \in [Lock -> Thread \cup {Nobody}]
        /\ cv_wchanlock \in [CV -> Thread \cup {Nobody}]
        /\ on \in [Thread -> Object \cup {Nobody}]
        /\ relock \in [Thread -> Lock \cup {Nobody}]
        /\ l_holding \in [Lock -> Thread \cup {Nobody}]
        /\ a_waiting \in [Thread -> Lock \cup {Nobody}]
    BY DEF Init
  <2> QED BY <2>1, <2>2, <2>3, <2>4, <2>5 DEF TypeOK
<1>2. Placed /\ Queued
  BY DEF Init, Placed, Queued
<1>3. NoLostWakeup
  BY DEF Init, NoLostWakeup, Sleepers
<1> QED BY <1>1, <1>2, <1>3 DEF SynchInv

-----------------------------------------------------------------------------
(* wchan_sleep keeps the channels in order.                                *)
LEMMA SleepQueues ==
  ASSUME TypeOK, Queued, NEW t \in Thread, NEW o \in Object, pc[t] # "sleep",
         wchan_sleep(t, o)
  PROVE  Queued' /\ wchan' \in [Object -> Seq(Thread)]
<1>1. \A x \in Object : wchan[x] \in Seq(Thread)
  BY DEF TypeOK
<1>2. /\ Len(wchan'[o]) = Len(wchan[o]) + 1 /\ Len(wchan[o]) \in Nat
      /\ \A i \in 1 .. Len(wchan[o]) : wchan'[o][i] = wchan[o][i]
      /\ wchan'[o][Len(wchan[o]) + 1] = t
      /\ wchan'[o] \in Seq(Thread)
  BY <1>1, AppendIs, SeqIs DEF wchan_sleep, TypeOK
<1>3. \A x \in Object : x # o => wchan'[x] = wchan[x]
  BY DEF wchan_sleep, TypeOK
<1>4. /\ pc'[t] = "sleep" /\ on'[t] = o
      /\ \A u \in Thread : u # t => pc'[u] = pc[u] /\ on'[u] = on[u]
  BY DEF wchan_sleep, Goes, TypeOK
<1>5. \A x \in Object : \A i \in 1 .. Len(wchan[x]) : wchan[x][i] \in Thread /\ wchan[x][i] # t
  BY <1>1, SeqIs DEF Queued
<1>6. wchan' \in [Object -> Seq(Thread)]
  BY <1>1, <1>2, <1>3 DEF wchan_sleep, TypeOK
<1>7. ASSUME NEW x \in Object, NEW i \in 1 .. Len(wchan'[x]), NEW j \in 1 .. Len(wchan'[x]),
             wchan'[x][i] = wchan'[x][j]
      PROVE  i = j
  <2>1. CASE x # o
    BY <2>1, <1>3, <1>7 DEF Queued
  <2>2. CASE x = o
    <3>1. i \in 1 .. Len(wchan[o]) \/ i = Len(wchan[o]) + 1
      BY <2>2, <1>2
    <3>2. j \in 1 .. Len(wchan[o]) \/ j = Len(wchan[o]) + 1
      BY <2>2, <1>2
    <3>3. CASE i \in 1 .. Len(wchan[o]) /\ j \in 1 .. Len(wchan[o])
      BY <3>3, <2>2, <1>2, <1>7 DEF Queued
    <3>4. CASE i = Len(wchan[o]) + 1
      BY <3>2, <3>4, <2>2, <1>2, <1>5, <1>7
    <3>5. CASE j = Len(wchan[o]) + 1
      BY <3>1, <3>5, <2>2, <1>2, <1>5, <1>7
    <3> QED BY <3>1, <3>2, <3>3, <3>4, <3>5
  <2> QED BY <2>1, <2>2
<1>8. ASSUME NEW x \in Object, NEW i \in 1 .. Len(wchan'[x])
      PROVE  pc'[wchan'[x][i]] = "sleep" /\ on'[wchan'[x][i]] = x
  <2>1. CASE x # o
    BY <2>1, <1>3, <1>4, <1>5, <1>8 DEF Queued
  <2>2. CASE x = o
    <3>1. i \in 1 .. Len(wchan[o]) \/ i = Len(wchan[o]) + 1
      BY <2>2, <1>2
    <3> QED BY <2>2, <3>1, <1>2, <1>4, <1>5 DEF Queued
  <2> QED BY <2>1, <2>2
<1>9. ASSUME NEW u \in Thread, pc'[u] = "sleep"
      PROVE  on'[u] \in Object /\ \E i \in 1 .. Len(wchan'[on'[u]]) : wchan'[on'[u]][i] = u
  <2>1. CASE u = t
    BY <2>1, <1>2, <1>4
  <2>2. CASE u # t
    <3>0. pc[u] = "sleep" /\ on'[u] = on[u]
      BY <2>2, <1>4, <1>9
    <3>1. on[u] \in Object /\ \E i \in 1 .. Len(wchan[on[u]]) : wchan[on[u]][i] = u
      BY <3>0 DEF Queued
    <3> PICK i \in 1 .. Len(wchan[on[u]]) : wchan[on[u]][i] = u
      BY <3>1
    <3>2. i \in 1 .. Len(wchan'[on[u]]) /\ wchan'[on[u]][i] = u
      <4>1. CASE on[u] = o
        BY <4>1, <1>2
      <4>2. CASE on[u] # o
        BY <4>2, <3>1, <1>3
      <4> QED BY <4>1, <4>2
    <3> QED BY <3>0, <3>1, <3>2
  <2> QED BY <2>1, <2>2
<1> QED BY <1>6, <1>7, <1>8, <1>9 DEF Queued

(* So does a thread that is not on one of them and goes on.                *)
LEMMA GoQueues ==
  ASSUME TypeOK, Queued, NEW t \in Thread, pc[t] # "sleep", Goes(t, "run", Nobody),
         UNCHANGED wchan
  PROVE  Queued'
<1>1. /\ pc'[t] = "run" /\ \A u \in Thread : u # t => pc'[u] = pc[u] /\ on'[u] = on[u]
  BY DEF Goes, TypeOK
<1>2. ASSUME NEW x \in Object, NEW k \in 1 .. Len(wchan[x]) PROVE wchan[x][k] \in Thread \ {t}
  BY SeqIs DEF Queued, TypeOK
<1> QED BY <1>1, <1>2 DEF Queued

(* What taking the first n threads off the channel of o leaves of it.      *)
LEMMA TakenOff ==
  ASSUME TypeOK, NEW o \in Object, NEW n \in 0 .. Len(wchan[o]), TakeOff(o, n)
  PROVE  /\ wchan' \in [Object -> Seq(Thread)]
         /\ Len(wchan'[o]) = Len(wchan[o]) - n
         /\ \A i \in 1 .. Len(wchan[o]) - n : wchan'[o][i] = wchan[o][n + i]
         /\ \A x \in Object : x # o => wchan'[x] = wchan[x]
<1>1. wchan[o] \in Seq(Thread) /\ Len(wchan[o]) \in Nat /\ n \in Nat /\ n <= Len(wchan[o])
  BY SeqIs DEF TypeOK
<1>2. wchan'[o] = SubSeq(wchan[o], n + 1, Len(wchan[o]))
  BY DEF TakeOff, TypeOK
<1>3. /\ wchan'[o] \in Seq(Thread)
      /\ Len(wchan'[o]) = Len(wchan[o]) - n
      /\ \A i \in 1 .. Len(wchan[o]) - n : wchan'[o][i] = wchan[o][n + i]
  BY <1>1, <1>2, RestIs
<1> QED BY <1>3 DEF TakeOff, TypeOK

(* What the threads do after t, which then is at what, has taken the first *)
(* n off the channel of o.                                                 *)
LEMMA WokenThreads ==
  ASSUME TypeOK, Queued, NEW t \in Thread, NEW o \in Object,
         NEW n \in 0 .. Len(wchan[o]), NEW what, Woken(FirstOf(o, n), o, t, what)
  PROVE  /\ FirstOf(o, n) \subseteq Sleepers(o)
         /\ pc'[t] = what
         /\ \A u \in Thread : u # t /\ u \in FirstOf(o, n) => pc'[u] = Resumes(o)
         /\ \A u \in Thread : u # t /\ u \notin FirstOf(o, n) => pc'[u] = pc[u]
<1>1. wchan[o] \in Seq(Thread) /\ Len(wchan[o]) \in Nat
  BY SeqIs DEF TypeOK
<1>2. \A k \in 1 .. n : wchan[o][k] \in Thread /\ k \in 1 .. Len(wchan[o])
  BY <1>1, SeqIs
<1>3. FirstOf(o, n) \subseteq Sleepers(o)
  BY <1>2 DEF FirstOf, Sleepers, Queued
<1> QED BY <1>3 DEF Woken

(* wchan_wakeone and wchan_wakeall keep the channels in order.             *)
LEMMA WakeQueues ==
  ASSUME TypeOK, Queued, NEW t \in Thread, NEW o \in Object,
         NEW n \in 0 .. Len(wchan[o]), NEW what, what # "sleep", pc[t] # "sleep",
         TakeOff(o, n), Woken(FirstOf(o, n), o, t, what),
         \A u \in Thread : u # t => on'[u] = on[u]
  PROVE  Queued'
<1>1. \A x \in Object : wchan[x] \in Seq(Thread) /\ Len(wchan[x]) \in Nat
  BY SeqIs DEF TypeOK
<1>2. ASSUME NEW x \in Object, NEW k \in 1 .. Len(wchan[x]) PROVE wchan[x][k] \in Thread \ {t}
  BY <1>1, SeqIs DEF Queued
<1>3. /\ Len(wchan'[o]) = Len(wchan[o]) - n
      /\ \A i \in 1 .. Len(wchan[o]) - n : wchan'[o][i] = wchan[o][n + i]
      /\ \A x \in Object : x # o => wchan'[x] = wchan[x]
  BY TakenOff
<1>4. /\ FirstOf(o, n) \subseteq Sleepers(o)
      /\ pc'[t] = what
      /\ \A u \in Thread : u # t /\ u \in FirstOf(o, n) => pc'[u] = Resumes(o)
      /\ \A u \in Thread : u # t /\ u \notin FirstOf(o, n) => pc'[u] = pc[u]
  BY WokenThreads
(* Those left on the channel were not among the first n.                   *)
<1>5. ASSUME NEW i \in 1 .. Len(wchan'[o])
      PROVE  /\ n + i \in 1 .. Len(wchan[o]) /\ wchan'[o][i] = wchan[o][n + i]
             /\ wchan[o][n + i] \notin FirstOf(o, n)
  <2>1. n + i \in 1 .. Len(wchan[o]) /\ i \in 1 .. Len(wchan[o]) - n
    BY <1>1, <1>3
  <2>2. ASSUME NEW k \in 1 .. n PROVE wchan[o][k] # wchan[o][n + i]
    <3>1. k \in 1 .. Len(wchan[o]) /\ k # n + i
      BY <1>1
    <3> QED BY <3>1, <2>1 DEF Queued
  <2> QED BY <2>1, <2>2, <1>3 DEF FirstOf
<1>6. ASSUME NEW x \in Object, NEW i \in 1 .. Len(wchan'[x]), NEW j \in 1 .. Len(wchan'[x]),
             wchan'[x][i] = wchan'[x][j]
      PROVE  i = j
  <2>1. CASE x # o
    BY <2>1, <1>3, <1>6 DEF Queued
  <2>2. CASE x = o
    <3>1. n + i = n + j
      BY <2>2, <1>5, <1>6 DEF Queued
    <3> QED BY <3>1, <1>1
  <2> QED BY <2>1, <2>2
<1>7. ASSUME NEW x \in Object, NEW i \in 1 .. Len(wchan'[x])
      PROVE  pc'[wchan'[x][i]] = "sleep" /\ on'[wchan'[x][i]] = x
  <2>1. CASE x # o
    <3>1. wchan'[x] = wchan[x] /\ i \in 1 .. Len(wchan[x]) /\ wchan[x][i] \in Thread \ {t}
      BY <2>1, <1>2, <1>3
    <3>2. pc[wchan[x][i]] = "sleep" /\ on[wchan[x][i]] = x
      BY <3>1 DEF Queued
    <3>3. wchan[x][i] \notin FirstOf(o, n)
      BY <3>2, <2>1, <1>4 DEF Sleepers
    <3> QED BY <3>1, <3>2, <3>3, <1>4
  <2>2. CASE x = o
    <3> DEFINE u == wchan[o][n + i]
    <3>1. u \in Thread \ {t} /\ u \notin FirstOf(o, n) /\ wchan'[x][i] = u
      BY Zenon, <2>2, <1>2, <1>5
    <3>2. pc[u] = "sleep" /\ on[u] = o
      BY <2>2, <1>5 DEF Queued
    <3> QED BY <3>1, <3>2, <2>2, <1>4
  <2> QED BY <2>1, <2>2
<1>8. ASSUME NEW u \in Thread, pc'[u] = "sleep"
      PROVE  on'[u] \in Object /\ \E i \in 1 .. Len(wchan'[on'[u]]) : wchan'[on'[u]][i] = u
  <2>1. u # t /\ u \notin FirstOf(o, n) /\ pc[u] = "sleep" /\ on'[u] = on[u]
    BY <1>4, <1>8 DEF Resumes
  <2>2. on[u] \in Object /\ \E i \in 1 .. Len(wchan[on[u]]) : wchan[on[u]][i] = u
    BY <2>1 DEF Queued
  <2> PICK i \in 1 .. Len(wchan[on[u]]) : wchan[on[u]][i] = u
    BY <2>2
  <2>3. CASE on[u] # o
    BY <2>1, <2>2, <2>3, <1>3
  <2>4. CASE on[u] = o
    <3>1. ~(i \in 1 .. n)
      BY <2>1, <2>4 DEF FirstOf
    <3>2. i - n \in 1 .. Len(wchan[o]) - n
      BY <3>1, <2>4, <1>1
    <3>3. wchan'[o][i - n] = wchan[o][n + (i - n)] /\ n + (i - n) = i
      BY <3>2, <1>1, <1>3, <2>4
    <3> QED BY <3>2, <3>3, <2>1, <2>4, <1>3
  <2> QED BY <2>3, <2>4
<1> QED BY <1>6, <1>7, <1>8 DEF Queued

-----------------------------------------------------------------------------
(* The threads in cv_wait that have not gone to sleep yet.                 *)
Releasing(c) == {t \in Thread : pc[t] = "release" /\ on[t] = c}

(* A thread that was awake goes to sleep on o.                             *)
LEMMA SleepMoves ==
  ASSUME TypeOK, NEW t \in Thread, NEW o, pc[t] # "sleep", wchan_sleep(t, o)
  PROVE  /\ Sleepers(o)' = Sleepers(o) \cup {t}
         /\ \A x : x # o => Sleepers(x)' = Sleepers(x)
         /\ \A x : Retrying(x)' = Retrying(x) \ {t}
         /\ \A x : Releasing(x)' = Releasing(x) \ {t}
<1>1. /\ pc'[t] = "sleep" /\ on'[t] = o
      /\ \A u \in Thread : u # t => pc'[u] = pc[u] /\ on'[u] = on[u]
  BY DEF wchan_sleep, Goes, TypeOK
<1> QED BY <1>1 DEF Sleepers, Retrying, Releasing

(* A thread that was awake goes on.                                        *)
LEMMA GoMoves ==
  ASSUME TypeOK, NEW t \in Thread, pc[t] # "sleep", Goes(t, "run", Nobody)
  PROVE  /\ \A x : Sleepers(x)' = Sleepers(x)
         /\ \A x : Retrying(x)' = Retrying(x) \ {t}
         /\ \A x : Releasing(x)' = Releasing(x) \ {t}
<1>1. /\ pc'[t] = "run" /\ \A u \in Thread : u # t => pc'[u] = pc[u] /\ on'[u] = on[u]
  BY DEF Goes, TypeOK
<1> QED BY <1>1 DEF Sleepers, Retrying, Releasing

(* The first n threads on the channel of o are taken off by t, which runs, *)
(* and then is at what.                                                    *)
LEMMA WakeMoves ==
  ASSUME TypeOK, Queued, NEW t \in Thread, NEW o \in Object,
         NEW n \in 0 .. Len(wchan[o]), NEW what \in {"run", "release"}, pc[t] = "run",
         Woken(FirstOf(o, n), o, t, what),
         \A u \in Thread : u # t => on'[u] = on[u]
  PROVE  /\ FirstOf(o, n) \subseteq Sleepers(o)
         /\ Sleepers(o)' = Sleepers(o) \ FirstOf(o, n)
         /\ \A x : x # o => Sleepers(x)' = Sleepers(x) /\ Retrying(x)' = Retrying(x)
         /\ o \in Sem \cup Lock => Retrying(o)' = Retrying(o) \cup FirstOf(o, n)
         /\ \A x : x # on'[t] \/ what = "run" => Releasing(x)' = Releasing(x)
         /\ \A x : x = on'[t] /\ what = "release" => Releasing(x)' = Releasing(x) \cup {t}
<1>1. /\ FirstOf(o, n) \subseteq Sleepers(o)
      /\ pc'[t] = what
      /\ \A u \in Thread : u # t /\ u \in FirstOf(o, n) => pc'[u] = Resumes(o)
      /\ \A u \in Thread : u # t /\ u \notin FirstOf(o, n) => pc'[u] = pc[u]
  BY WokenThreads
<1>2. Resumes(o) \in {"P", "lock", "relock"} /\ (o \in Sem \cup Lock => Resumes(o) \in {"P", "lock"})
  BY DEF Resumes
<1>3. \A u \in FirstOf(o, n) : u \in Thread /\ u # t /\ pc[u] = "sleep" /\ on[u] = o /\ on'[u] = o
  BY <1>1 DEF Sleepers
<1>4. Sleepers(o)' = Sleepers(o) \ FirstOf(o, n)
  BY <1>1, <1>2, <1>3 DEF Sleepers
<1>5. ASSUME NEW x, x # o PROVE Sleepers(x)' = Sleepers(x) /\ Retrying(x)' = Retrying(x)
  BY <1>1, <1>2, <1>3, <1>5 DEF Sleepers, Retrying
<1>6. o \in Sem \cup Lock => Retrying(o)' = Retrying(o) \cup FirstOf(o, n)
  BY <1>1, <1>2, <1>3 DEF Retrying
<1>7. ASSUME NEW x, x # on'[t] \/ what = "run" PROVE Releasing(x)' = Releasing(x)
  BY <1>1, <1>2, <1>3, <1>7 DEF Releasing
<1>8. ASSUME NEW x, x = on'[t], what = "release" PROVE Releasing(x)' = Releasing(x) \cup {t}
  BY <1>1, <1>2, <1>3, <1>8 DEF Releasing
<1> QED BY <1>1, <1>4, <1>5, <1>6, <1>7, <1>8

(* There are finitely many threads to wake.                                *)
LEMMA FiniteRetrying ==
  ASSUME NEW x
  PROVE  IsFiniteSet(Retrying(x)) /\ Cardinality(Retrying(x)) \in Nat
BY SynchAssumption, FS_Subset, FS_CardinalityType DEF Retrying

(* The same of the next state.                                             *)
LEMMA FiniteRetryingNext ==
  ASSUME NEW x
  PROVE  IsFiniteSet(Retrying(x)') /\ Cardinality(Retrying(x)') \in Nat
BY SynchAssumption, FS_Subset, FS_CardinalityType DEF Retrying

(* A step loses no wakeup if it loses none of o and disturbs nothing else. *)
LEMMA NoneLost ==
  ASSUME NoLostWakeup, NEW o,
         \A x \in Sem \cup Lock : x # o =>
            Sleepers(x)' = Sleepers(x) /\ Retrying(x)' = Retrying(x),
         \A x \in Sem : x # o => sem_count'[x] = sem_count[x],
         \A x \in Lock : x # o => lk_holder'[x] = lk_holder[x],
         o \in Sem /\ Sleepers(o)' # {} => sem_count'[o] <= Cardinality(Retrying(o)'),
         o \in Lock /\ Sleepers(o)' # {} /\ lk_holder'[o] = Nobody => Retrying(o)' # {}
  PROVE  NoLostWakeup'
<1>1. ASSUME NEW x \in Sem, Sleepers(x)' # {}
      PROVE  sem_count'[x] <= Cardinality(Retrying(x)')
  <2>1. CASE x = o
    BY <1>1, <2>1
  <2>2. CASE x # o
    BY <1>1, <2>2 DEF NoLostWakeup
  <2> QED BY <2>1, <2>2
<1>2. ASSUME NEW x \in Lock, Sleepers(x)' # {}, lk_holder'[x] = Nobody
      PROVE  Retrying(x)' # {}
  <2>1. CASE x = o
    BY <1>2, <2>1
  <2>2. CASE x # o
    BY <1>2, <2>2 DEF NoLostWakeup
  <2> QED BY <2>1, <2>2
<1>3. \A x \in Sem : (Sleepers(x) # {} => sem_count[x] <= Cardinality(Retrying(x)))'
  BY <1>1
<1>4. \A x \in Lock : (Sleepers(x) # {} /\ lk_holder[x] = Nobody => Retrying(x) # {})'
  BY <1>2
<1> QED BY <1>3, <1>4 DEF NoLostWakeup

(* P: a thread sleeps only when the count is zero; and one that takes a    *)
(* count after having been woken for one leaves as many counts to as many  *)
(* woken threads.                                                          *)
LEMMA StepP ==
  ASSUME SynchInv, NEW t \in Thread, NEW s \in Sem, P(t, s)
  PROVE  SynchInv'
<1> USE DEF SynchInv
<1>1. s \in Object /\ s \notin Lock /\ s \notin CV /\ pc[t] # "sleep" /\ pc[t] # "release"
  BY SynchAssumption DEF P, Object
<1>2. \A x : x # s => t \notin Retrying(x)
  BY DEF P, Retrying
<1>3. \A x : x # s => Retrying(x) \ {t} = Retrying(x)
  BY <1>2
<1>4. UNCHANGED <<lk_holder, cv_wchanlock, relock, hangman, signals>>
  BY DEF P
<1>5. CASE MustSleep(t, s) /\ wchan_sleep(t, s) /\ UNCHANGED sem_count
  <2>1. Queued' /\ wchan' \in [Object -> Seq(Thread)]
    BY <1>1, <1>5, SleepQueues
  <2>2. TypeOK'
    BY <1>1, <1>4, <1>5, <2>1 DEF TypeOK, wchan_sleep, Goes, hangman, Doing
  <2>3. Placed'
    BY <1>1, <1>4, <1>5 DEF Placed, wchan_sleep, Goes, TypeOK
  <2>4. NoLostWakeup'
    <3>1. /\ \A x : x # s => Sleepers(x)' = Sleepers(x)
          /\ \A x : Retrying(x)' = Retrying(x) \ {t}
      BY <1>1, <1>5, SleepMoves
    <3>2. sem_count'[s] = 0 /\ sem_count' = sem_count /\ lk_holder' = lk_holder
      BY <1>4, <1>5 DEF MustSleep
    <3>3. sem_count'[s] <= Cardinality(Retrying(s)')
      BY <3>2, FiniteRetryingNext
    <3> QED BY ZenonT(60), <1>1, <1>3, <3>1, <3>2, <3>3, NoneLost
  <2> QED BY <2>1, <2>2, <2>3, <2>4
<1>6. CASE /\ ~MustSleep(t, s) /\ sem_count' = [sem_count EXCEPT ![s] = @ - 1]
           /\ Goes(t, "run", Nobody) /\ UNCHANGED wchan
  <2>1. sem_count[s] \in 1 .. MaxCount /\ MaxCount \in Nat
    BY <1>6, SynchAssumption DEF MustSleep, TypeOK
  <2>2. TypeOK'
    BY <1>1, <1>4, <1>6, <2>1 DEF TypeOK, Goes, hangman, Doing
  <2>3. Placed'
    BY <1>1, <1>4, <1>6 DEF Placed, Goes, TypeOK
  <2>4. Queued'
    BY <1>1, <1>6, GoQueues
  <2>5. NoLostWakeup'
    <3>1. /\ \A x : Sleepers(x)' = Sleepers(x)
          /\ \A x : Retrying(x)' = Retrying(x) \ {t}
      BY <1>1, <1>6, GoMoves
    <3>2. /\ sem_count'[s] = sem_count[s] - 1 /\ lk_holder' = lk_holder
          /\ \A x \in Sem : x # s => sem_count'[x] = sem_count[x]
      BY <1>4, <1>6 DEF TypeOK
    <3>3. ASSUME Sleepers(s)' # {} PROVE sem_count'[s] <= Cardinality(Retrying(s)')
      <4>1. sem_count[s] <= Cardinality(Retrying(s))
        BY <3>1, <3>3 DEF NoLostWakeup
      <4>2. /\ IsFiniteSet(Retrying(s)) /\ Cardinality(Retrying(s)) \in Nat
            /\ Cardinality(Retrying(s)') \in Nat /\ Retrying(s)' = Retrying(s) \ {t}
        BY FiniteRetrying, FiniteRetryingNext, <3>1
      <4>3. Cardinality(Retrying(s) \ {t}) =
              IF t \in Retrying(s) THEN Cardinality(Retrying(s)) - 1
              ELSE Cardinality(Retrying(s))
        BY Zenon, <4>2, FS_RemoveElement
      <4> QED BY SMTT(40), <4>1, <4>2, <4>3, <3>1, <3>2, <2>1
    <3> QED BY ZenonT(60), <1>1, <1>3, <3>1, <3>2, <3>3, NoneLost
  <2> QED BY <2>2, <2>3, <2>4, <2>5
<1> QED BY <1>5, <1>6 DEF P

(* wchan_wakeone takes someone off a channel that someone is on.           *)
LEMMA OneOfSome ==
  ASSUME TypeOK, Queued, NEW o \in Object
  PROVE  /\ OneOf(o) \in 0 .. Len(wchan[o])
         /\ Sleepers(o) # {} => OneOf(o) = 1 /\ FirstOf(o, OneOf(o)) = {wchan[o][1]}
         /\ Sleepers(o) = {} => FirstOf(o, OneOf(o)) = {}
<1>1. wchan[o] \in Seq(Thread) /\ Len(wchan[o]) \in Nat
  BY SeqIs DEF TypeOK
<1>2. CASE wchan[o] = <<>>
  <2>1. Len(wchan[o]) = 0 /\ OneOf(o) = 0
    BY <1>2 DEF OneOf
  <2>2. Sleepers(o) = {}
    BY <2>1 DEF Queued, Sleepers
  <2> QED BY <2>1, <2>2 DEF FirstOf
<1>3. CASE wchan[o] # <<>>
  <2>1. 1 \in 1 .. Len(wchan[o]) /\ OneOf(o) = 1
    BY <1>1, <1>3, SeqIs DEF OneOf
  <2>2. wchan[o][1] \in Sleepers(o)
    BY <1>1, <2>1, SeqIs DEF Queued, Sleepers
  <2> QED BY <1>1, <2>1, <2>2 DEF FirstOf
<1> QED BY <1>2, <1>3

(* Taking threads off the channel of o keeps the types and the places of   *)
(* all but t.                                                              *)
LEMMA WakePlaced ==
  ASSUME TypeOK, Placed, Queued, NEW t \in Thread, NEW o \in Object,
         NEW n \in 0 .. Len(wchan[o]), pc[t] = "run",
         Woken(FirstOf(o, n), o, t, "run"), UNCHANGED <<on, cv_wchanlock>>
  PROVE  pc' \in [Thread -> Doing] /\ Placed'
<1>1. /\ FirstOf(o, n) \subseteq Sleepers(o)
      /\ pc'[t] = "run"
      /\ \A u \in Thread : u # t /\ u \in FirstOf(o, n) => pc'[u] = Resumes(o)
      /\ \A u \in Thread : u # t /\ u \notin FirstOf(o, n) => pc'[u] = pc[u]
  BY WokenThreads
<1>2. \/ o \in Sem /\ Resumes(o) = "P"
      \/ o \in Lock /\ Resumes(o) = "lock"
      \/ o \in CV /\ Resumes(o) = "relock"
  BY DEF Resumes, Object
<1>3. pc' \in [Thread -> Doing]
  BY <1>2 DEF Woken, TypeOK, Doing
<1>4. ASSUME NEW u \in Thread
      PROVE  /\ pc'[u] = "P" => on'[u] \in Sem
             /\ pc'[u] = "lock" => on'[u] \in Lock
             /\ pc'[u] = "relock" => on'[u] \in CV
             /\ pc'[u] = "release" => on'[u] \in CV /\ cv_wchanlock'[on'[u]] = u
  <2>1. CASE u = t
    BY <2>1, <1>1
  <2>2. CASE u # t /\ u \in FirstOf(o, n)
    BY <2>2, <1>1, <1>2 DEF Sleepers
  <2>3. CASE u # t /\ u \notin FirstOf(o, n)
    BY <2>3, <1>1 DEF Placed
  <2> QED BY <2>1, <2>2, <2>3
<1>5. ASSUME NEW c \in CV, cv_wchanlock'[c] # Nobody
      PROVE  pc'[cv_wchanlock'[c]] = "release" /\ on'[cv_wchanlock'[c]] = c
  <2> DEFINE u == cv_wchanlock[c]
  <2>1. u \in Thread /\ pc[u] = "release" /\ on[u] = c
    BY <1>5 DEF Placed, TypeOK
  <2>2. u # t /\ u \notin FirstOf(o, n)
    BY <2>1, <1>1 DEF Sleepers
  <2> QED BY <2>1, <2>2, <1>1
<1> QED BY <1>3, <1>4, <1>5 DEF Placed

(* V: whoever still sleeps was behind the one that was woken.              *)
LEMMA StepV ==
  ASSUME SynchInv, NEW t \in Thread, NEW s \in Sem, V(t, s)
  PROVE  SynchInv'
<1> USE DEF SynchInv
<1>1. /\ s \in Object /\ s \notin Lock /\ pc[t] = "run" /\ sem_count[s] < MaxCount
      /\ UNCHANGED <<lk_holder, cv_wchanlock, on, relock, hangman, signals>>
      /\ sem_count' = [sem_count EXCEPT ![s] = @ + 1]
  BY SynchAssumption DEF V, Object
<1>2. TakeOff(s, OneOf(s)) /\ Woken(FirstOf(s, OneOf(s)), s, t, "run")
  BY DEF V, WakesOne
<1>3. /\ OneOf(s) \in 0 .. Len(wchan[s])
      /\ Sleepers(s) # {} => OneOf(s) = 1 /\ FirstOf(s, OneOf(s)) = {wchan[s][1]}
  BY <1>1, OneOfSome
<1>4. pc' \in [Thread -> Doing] /\ Placed'
  BY <1>1, <1>2, <1>3, WakePlaced
<1>5. wchan' \in [Object -> Seq(Thread)]
  BY <1>1, <1>2, <1>3, TakenOff
<1>6. TypeOK'
  <2>1. sem_count' \in [Sem -> 0 .. MaxCount]
    BY <1>1, SynchAssumption DEF TypeOK
  <2> QED BY <1>1, <1>4, <1>5, <2>1 DEF TypeOK, hangman
<1>7. Queued'
  BY <1>1, <1>2, <1>3, WakeQueues
<1>8. NoLostWakeup'
  <2>1. /\ FirstOf(s, OneOf(s)) \subseteq Sleepers(s)
        /\ Sleepers(s)' = Sleepers(s) \ FirstOf(s, OneOf(s))
        /\ \A x : x # s => Sleepers(x)' = Sleepers(x) /\ Retrying(x)' = Retrying(x)
        /\ Retrying(s)' = Retrying(s) \cup FirstOf(s, OneOf(s))
    BY <1>1, <1>2, <1>3, WakeMoves
  <2>2. ASSUME Sleepers(s)' # {} PROVE sem_count'[s] <= Cardinality(Retrying(s)')
    <3>1. Sleepers(s) # {}
      BY <2>1, <2>2
    <3>2. sem_count[s] <= Cardinality(Retrying(s)) /\ sem_count'[s] = sem_count[s] + 1
          /\ sem_count[s] \in Nat
      BY <3>1, <1>1 DEF NoLostWakeup, TypeOK
    <3> DEFINE u == wchan[s][1]
    <3>3. Retrying(s)' = Retrying(s) \cup {u} /\ u \notin Retrying(s)
      BY <3>1, <1>3, <2>1 DEF Sleepers, Retrying
    <3>4. Cardinality(Retrying(s) \cup {u}) = Cardinality(Retrying(s)) + 1
      BY Zenon, <3>3, FiniteRetrying, FS_AddElement
    <3>5. Cardinality(Retrying(s)) \in Nat
      BY FiniteRetrying
    <3> QED BY <3>2, <3>3, <3>4, <3>5
  <2>3. \A x \in Sem : x # s => sem_count'[x] = sem_count[x]
    BY <1>1 DEF TypeOK
  <2> QED BY Zenon, <1>1, <2>1, <2>2, <2>3, NoneLost
<1> QED BY <1>4, <1>6, <1>7, <1>8

(* TakeOrSleep: a thread that was not asleep and not woken for anything    *)
(* but l takes l, or sleeps while another holds it.                        *)
LEMMA StepTake ==
  ASSUME SynchInv, NEW t \in Thread, NEW l \in Lock, TakeOrSleep(t, l),
         pc[t] \in {"run", "relock"} \/ (pc[t] = "lock" /\ on[t] = l),
         UNCHANGED <<sem_count, cv_wchanlock, deadlock, signals>>,
         a_waiting' = [a_waiting EXCEPT ![t] = IF lk_holder[l] = Nobody THEN Nobody ELSE l],
         relock' \in [Thread -> Lock \cup {Nobody}]
  PROVE  SynchInv'
<1> USE DEF SynchInv
<1>1. l \in Object /\ l \notin Sem /\ l \notin CV /\ pc[t] # "sleep" /\ pc[t] # "release"
  BY SynchAssumption DEF Object
<1>2. \A x : x # l => t \notin Retrying(x)
  BY DEF Retrying
<1>3. \A x : x # l => Retrying(x) \ {t} = Retrying(x)
  BY <1>2
<1>4. a_waiting' \in [Thread -> Lock \cup {Nobody}]
  BY DEF TypeOK
<1>5. CASE lk_holder[l] # Nobody /\ wchan_sleep(t, l) /\ UNCHANGED <<lk_holder, l_holding>>
  <2>1. Queued' /\ wchan' \in [Object -> Seq(Thread)]
    BY <1>1, <1>5, SleepQueues
  <2>2. pc' \in [Thread -> Doing] /\ on' \in [Thread -> Object \cup {Nobody}]
    BY <1>1, <1>5 DEF TypeOK, wchan_sleep, Goes, Doing
  <2>3. TypeOK'
    BY <1>4, <1>5, <2>1, <2>2 DEF TypeOK
  <2>4. Placed'
    BY <1>1, <1>5 DEF Placed, wchan_sleep, Goes, TypeOK
  <2>5. NoLostWakeup'
    <3>1. /\ \A x : x # l => Sleepers(x)' = Sleepers(x)
          /\ \A x : Retrying(x)' = Retrying(x) \ {t}
      BY <1>1, <1>5, SleepMoves
    <3> QED BY ZenonT(60), <1>1, <1>3, <1>5, <3>1, NoneLost
  <2> QED BY <2>1, <2>3, <2>4, <2>5
<1>6. CASE /\ lk_holder[l] = Nobody /\ lk_holder' = [lk_holder EXCEPT ![l] = t]
           /\ hangman_acquire(t, l) /\ Goes(t, "run", Nobody) /\ UNCHANGED wchan
  <2>1. /\ lk_holder' \in [Lock -> Thread \cup {Nobody}]
        /\ l_holding' \in [Lock -> Thread \cup {Nobody}]
    BY <1>6 DEF TypeOK, hangman_acquire
  <2>2. pc' \in [Thread -> Doing] /\ on' \in [Thread -> Object \cup {Nobody}]
    BY <1>6 DEF TypeOK, Goes, Doing
  <2>3. TypeOK'
    BY <1>4, <1>6, <2>1, <2>2 DEF TypeOK
  <2>4. Placed'
    BY <1>1, <1>6 DEF Placed, Goes, TypeOK
  <2>5. Queued'
    BY <1>1, <1>6, GoQueues
  <2>6. NoLostWakeup'
    <3>1. /\ \A x : Sleepers(x)' = Sleepers(x)
          /\ \A x : Retrying(x)' = Retrying(x) \ {t}
      BY <1>1, <1>6, GoMoves
    <3>2. lk_holder'[l] # Nobody /\ \A x \in Lock : x # l => lk_holder'[x] = lk_holder[x]
      BY <1>6, SynchAssumption DEF TypeOK
    <3> QED BY ZenonT(60), <1>1, <1>3, <3>1, <3>2, NoneLost
  <2> QED BY <2>3, <2>4, <2>5, <2>6
<1> QED BY <1>5, <1>6 DEF TakeOrSleep

(* A release leaves no one asleep on a free lock with no one on the way.   *)
LEMMA ReleaseWakes ==
  ASSUME SynchInv, NEW t \in Thread, NEW l \in Lock, NEW what \in {"run", "release"},
         pc[t] = "run", ReleaseLock(t, l, what), UNCHANGED sem_count,
         \A u \in Thread : u # t => on'[u] = on[u]
  PROVE  NoLostWakeup' /\ Queued' /\ wchan' \in [Object -> Seq(Thread)]
<1> USE DEF SynchInv
<1>1. /\ l \in Object /\ l \notin Sem /\ lk_holder' = [lk_holder EXCEPT ![l] = Nobody]
      /\ TakeOff(l, OneOf(l)) /\ Woken(FirstOf(l, OneOf(l)), l, t, what)
  BY SynchAssumption DEF ReleaseLock, Object
<1>2. /\ OneOf(l) \in 0 .. Len(wchan[l])
      /\ Sleepers(l) # {} => FirstOf(l, OneOf(l)) # {}
  BY SMTT(40), <1>1, OneOfSome
<1>3. Queued' /\ wchan' \in [Object -> Seq(Thread)]
  BY <1>1, <1>2, WakeQueues, TakenOff
<1>4. /\ Sleepers(l)' = Sleepers(l) \ FirstOf(l, OneOf(l))
      /\ \A x : x # l => Sleepers(x)' = Sleepers(x) /\ Retrying(x)' = Retrying(x)
      /\ Retrying(l)' = Retrying(l) \cup FirstOf(l, OneOf(l))
  BY SMTT(40), <1>1, <1>2, WakeMoves
<1>5. Sleepers(l)' # {} => Retrying(l)' # {}
  BY SMTT(40), <1>2, <1>4
<1>6. \A x \in Lock : x # l => lk_holder'[x] = lk_holder[x]
  BY <1>1 DEF TypeOK
<1> QED BY SMTT(40), <1>1, <1>3, <1>4, <1>5, <1>6, NoneLost

(* lock_release                                                            *)
LEMMA StepRelease ==
  ASSUME SynchInv, NEW t \in Thread, NEW l \in Lock, lock_release(t, l)
  PROVE  SynchInv'
<1> USE DEF SynchInv
<1>1. /\ pc[t] = "run" /\ ReleaseLock(t, l, "run") /\ l \in Object
      /\ UNCHANGED <<sem_count, cv_wchanlock, on, relock, signals>>
  BY SMTT(40) DEF lock_release, Object
<1>2. NoLostWakeup' /\ Queued' /\ wchan' \in [Object -> Seq(Thread)]
  BY <1>1, ReleaseWakes
<1>3. pc' \in [Thread -> Doing] /\ Placed'
  BY <1>1, OneOfSome, WakePlaced DEF ReleaseLock
<1>4. /\ lk_holder' \in [Lock -> Thread \cup {Nobody}]
      /\ l_holding' \in [Lock -> Thread \cup {Nobody}]
      /\ UNCHANGED <<a_waiting, deadlock>>
  BY <1>1 DEF TypeOK, ReleaseLock, hangman_release
<1>5. TypeOK'
  BY <1>1, <1>2, <1>3, <1>4 DEF TypeOK
<1> QED BY <1>2, <1>3, <1>5

(* cv_wait: its spinlock is free, so t is the only one between giving up   *)
(* a lock and going to sleep on c.                                         *)
LEMMA StepWait ==
  ASSUME SynchInv, NEW t \in Thread, NEW c \in CV, NEW l \in Lock, cv_wait(t, c, l)
  PROVE  SynchInv'
<1> USE DEF SynchInv
<1>1. /\ pc[t] = "run" /\ cv_wchanlock[c] = Nobody /\ ReleaseLock(t, l, "release")
      /\ cv_wchanlock' = [cv_wchanlock EXCEPT ![c] = t]
      /\ on' = [on EXCEPT ![t] = c] /\ relock' = [relock EXCEPT ![t] = l]
      /\ UNCHANGED <<sem_count, signals>>
      /\ l \in Object /\ c \in Object /\ l \notin Sem /\ l \notin CV
  BY SynchAssumption DEF cv_wait, TakesFirst, Object
<1>2. on'[t] = c /\ \A u \in Thread : u # t => on'[u] = on[u]
  BY <1>1 DEF TypeOK
<1>3. NoLostWakeup' /\ Queued' /\ wchan' \in [Object -> Seq(Thread)]
  BY SMTT(40), <1>1, <1>2, ReleaseWakes
<1> DEFINE first == FirstOf(l, OneOf(l))
<1>4. /\ first \subseteq Sleepers(l) /\ pc'[t] = "release"
      /\ \A u \in Thread : u # t /\ u \in first => pc'[u] = "lock"
      /\ \A u \in Thread : u # t /\ u \notin first => pc'[u] = pc[u]
  <2>1. Resumes(l) = "lock"
    BY <1>1 DEF Resumes
  <2> QED BY <1>1, <2>1, OneOfSome, WokenThreads DEF ReleaseLock
<1> HIDE DEF first
<1>5. TypeOK'
  <2>1. pc' \in [Thread -> Doing]
    BY <1>1 DEF ReleaseLock, Woken, Resumes, TypeOK, Doing
  <2>2. /\ lk_holder' \in [Lock -> Thread \cup {Nobody}]
        /\ l_holding' \in [Lock -> Thread \cup {Nobody}]
        /\ UNCHANGED <<a_waiting, deadlock>>
    BY <1>1 DEF TypeOK, ReleaseLock, hangman_release
  <2>3. /\ cv_wchanlock' \in [CV -> Thread \cup {Nobody}]
        /\ on' \in [Thread -> Object \cup {Nobody}]
        /\ relock' \in [Thread -> Lock \cup {Nobody}]
    BY <1>1 DEF TypeOK
  <2> QED BY SMTT(40), <1>1, <1>3, <2>1, <2>2, <2>3 DEF TypeOK
<1>6. cv_wchanlock'[c] = t /\ \A d \in CV : d # c => cv_wchanlock'[d] = cv_wchanlock[d]
  BY <1>1 DEF TypeOK
<1>7. ASSUME NEW u \in Thread
      PROVE  /\ pc'[u] = "P" => on'[u] \in Sem
             /\ pc'[u] = "lock" => on'[u] \in Lock
             /\ pc'[u] = "relock" => on'[u] \in CV
             /\ pc'[u] = "release" => on'[u] \in CV /\ cv_wchanlock'[on'[u]] = u
  <2>1. CASE u = t
    BY <2>1, <1>2, <1>4, <1>6
  <2>2. CASE u # t /\ u \in first
    BY <2>2, <1>2, <1>4 DEF Sleepers
  <2>3. CASE u # t /\ u \notin first
    <3>1. pc'[u] = pc[u] /\ on'[u] = on[u]
      BY <2>3, <1>2, <1>4
    <3>2. pc[u] = "release" => on[u] # c
      BY <1>1, SynchAssumption DEF Placed
    <3> QED BY <3>1, <3>2, <1>6 DEF Placed
  <2> QED BY <2>1, <2>2, <2>3
<1>8. ASSUME NEW d \in CV, cv_wchanlock'[d] # Nobody
      PROVE  pc'[cv_wchanlock'[d]] = "release" /\ on'[cv_wchanlock'[d]] = d
  <2>1. CASE d = c
    BY <2>1, <1>2, <1>4, <1>6
  <2>2. CASE d # c
    <3> DEFINE u == cv_wchanlock[d]
    <3>1. u \in Thread /\ pc[u] = "release" /\ on[u] = d /\ cv_wchanlock'[d] = u
      BY <2>2, <1>6, <1>8 DEF Placed, TypeOK
    <3>2. u # t /\ u \notin first
      BY SMTT(40), <3>1, <1>1, <1>4 DEF Sleepers
    <3> QED BY <3>1, <3>2, <1>2, <1>4
  <2> QED BY SMTT(40), <2>1, <2>2
<1>9. Placed'
  BY <1>7, <1>8 DEF Placed
<1> QED BY <1>3, <1>5, <1>9

(* The rest of cv_wait                                                     *)
LEMMA StepSleeps ==
  ASSUME SynchInv, NEW t \in Thread, cv_wait_sleeps(t)
  PROVE  SynchInv'
<1> USE DEF SynchInv
<1> DEFINE c == on[t]
<1>1. /\ pc[t] = "release" /\ wchan_sleep(t, c)
      /\ cv_wchanlock' = [cv_wchanlock EXCEPT ![c] = Nobody]
      /\ UNCHANGED <<sem_count, lk_holder, relock, hangman, signals>>
      /\ c \in CV /\ c \in Object /\ c \notin Sem /\ c \notin Lock /\ cv_wchanlock[c] = t
  BY SynchAssumption DEF cv_wait_sleeps, Placed, Object
<1> HIDE DEF c
<1>2. Queued' /\ wchan' \in [Object -> Seq(Thread)]
  BY <1>1, SleepQueues
<1>3. TypeOK'
  <2>1. pc' \in [Thread -> Doing] /\ on' \in [Thread -> Object \cup {Nobody}]
    BY <1>1 DEF TypeOK, wchan_sleep, Goes, Doing
  <2>2. cv_wchanlock' \in [CV -> Thread \cup {Nobody}]
    BY SMTT(40), <1>1 DEF TypeOK
  <2> QED BY <1>1, <1>2, <2>1, <2>2 DEF TypeOK, hangman
<1>4. Placed'
  <2>1. /\ pc'[t] = "sleep" /\ on'[t] = c
        /\ \A u \in Thread : u # t => pc'[u] = pc[u] /\ on'[u] = on[u]
    BY <1>1 DEF wchan_sleep, Goes, TypeOK
  <2>2. cv_wchanlock'[c] = Nobody /\ \A d \in CV : d # c => cv_wchanlock'[d] = cv_wchanlock[d]
    BY <1>1 DEF TypeOK
  <2>3. \A u \in Thread : u # t /\ pc[u] = "release" => on[u] # c
    BY SMTT(40), <1>1 DEF Placed
  <2>4. \A d \in CV : d # c => cv_wchanlock[d] # t
    BY SMTT(40), <1>1, SynchAssumption DEF Placed, c
  <2>5. ASSUME NEW d \in CV, cv_wchanlock'[d] # Nobody
        PROVE  pc'[cv_wchanlock'[d]] = "release" /\ on'[cv_wchanlock'[d]] = d
    BY SMTT(40), <2>1, <2>2, <2>4, <2>5 DEF Placed, TypeOK
  <2>6. ASSUME NEW u \in Thread
        PROVE  /\ pc'[u] = "P" => on'[u] \in Sem
               /\ pc'[u] = "lock" => on'[u] \in Lock
               /\ pc'[u] = "relock" => on'[u] \in CV
               /\ pc'[u] = "release" => on'[u] \in CV /\ cv_wchanlock'[on'[u]] = u
    <3>1. CASE u = t
      BY <2>1, <3>1
    <3>2. CASE u # t
      <4>1. pc'[u] = pc[u] /\ on'[u] = on[u]
        BY <2>1, <3>2
      <4>2. pc[u] = "release" => on[u] \in CV /\ cv_wchanlock[on[u]] = u /\ on[u] # c
        BY <2>3, <3>2 DEF Placed
      <4>3. pc[u] = "release" => cv_wchanlock'[on[u]] = u
        BY <2>2, <4>2
      <4> QED BY <4>1, <4>2, <4>3 DEF Placed
    <3> QED BY <3>1, <3>2
  <2> QED BY <2>5, <2>6 DEF Placed
<1>5. NoLostWakeup'
  <2>1. /\ \A x : x # c => Sleepers(x)' = Sleepers(x)
        /\ \A x : Retrying(x)' = Retrying(x) \ {t}
    BY <1>1, SleepMoves
  <2>2. \A x : Retrying(x) \ {t} = Retrying(x)
    BY <1>1 DEF Retrying
  <2> QED BY ZenonT(60), <1>1, <2>1, <2>2, NoneLost
<1> QED BY SMTT(40), <1>2, <1>3, <1>4, <1>5

(* cv_signal and cv_broadcast                                              *)
LEMMA StepWakeup ==
  ASSUME SynchInv, NEW t \in Thread, NEW c \in CV, NEW n \in 0 .. Len(wchan[c]),
         Wakeup(t, c, n)
  PROVE  SynchInv'
<1> USE DEF SynchInv
<1>1. /\ pc[t] = "run" /\ TakeOff(c, n) /\ Woken(FirstOf(c, n), c, t, "run")
      /\ signals' = [signals EXCEPT ![c] = 1 - @]
      /\ UNCHANGED <<sem_count, lk_holder, cv_wchanlock, on, relock, hangman>>
      /\ c \in Object /\ c \notin Sem /\ c \notin Lock
  BY SynchAssumption DEF Wakeup, Object
<1>2. pc' \in [Thread -> Doing] /\ Placed'
  BY <1>1, WakePlaced
<1>3. wchan' \in [Object -> Seq(Thread)] /\ Queued'
  BY <1>1, TakenOff, WakeQueues
<1>4. TypeOK'
  <2>1. signals' \in [CV -> 0 .. 1]
    <3>1. signals[c] \in 0 .. 1 /\ 1 - signals[c] \in 0 .. 1
      BY DEF TypeOK
    <3> QED BY <1>1, <3>1 DEF TypeOK
  <2> QED BY <1>1, <1>2, <1>3, <2>1 DEF TypeOK, hangman
<1>5. NoLostWakeup'
  <2>1. \A x : x # c => Sleepers(x)' = Sleepers(x) /\ Retrying(x)' = Retrying(x)
    BY <1>1, WakeMoves
  <2> QED BY SMTT(40), <1>1, <2>1, NoneLost
<1> QED BY <1>2, <1>3, <1>4, <1>5

(* How many threads cv_signal and cv_broadcast take off.                   *)
LEMMA WakeupCounts ==
  ASSUME TypeOK, Queued, NEW c \in CV
  PROVE  OneOf(c) \in 0 .. Len(wchan[c]) /\ Len(wchan[c]) \in 0 .. Len(wchan[c])
<1>1. c \in Object
  BY DEF Object
<1>2. Len(wchan[c]) \in Nat
  BY <1>1, SeqIs DEF TypeOK
<1> QED BY <1>1, <1>2, OneOfSome

(* What the detector knows is of no matter to the threads.                 *)
LEMMA StepStutters ==
  ASSUME SynchInv, UNCHANGED <<sem_count, lk_holder, cv_wchanlock, wchan, pc, on, relock,
                               l_holding, a_waiting, signals>>, deadlock' \in SUBSET (Thread \X Lock)
  PROVE  SynchInv'
<1>1. TypeOK'
  BY DEF SynchInv, TypeOK
<1>2. Placed'
  BY DEF SynchInv, Placed
<1>3. Queued'
  BY DEF SynchInv, Queued
<1>4. NoLostWakeup'
  BY DEF SynchInv, NoLostWakeup, Sleepers, Retrying
<1> QED BY <1>1, <1>2, <1>3, <1>4 DEF SynchInv

(* A step of any thread keeps the invariant.                               *)
LEMMA SynchNext == SynchInv /\ [Next]_vars => SynchInv'
<1> SUFFICES ASSUME SynchInv, [Next]_vars PROVE SynchInv'
  OBVIOUS
<1>1. CASE UNCHANGED vars
  BY <1>1, StepStutters DEF SynchInv, TypeOK, vars, hangman
<1>2. ASSUME NEW t \in Thread, Steps(t) PROVE SynchInv'
  <2>1. ASSUME NEW s \in Sem, P(t, s) \/ V(t, s) PROVE SynchInv'
    BY SMTT(40), <2>1, StepP, StepV
  <2>2. ASSUME NEW l \in Lock, lock_acquire(t, l) PROVE SynchInv'
    <3>1. relock' \in [Thread -> Lock \cup {Nobody}]
      BY <2>2 DEF lock_acquire, SynchInv, TypeOK
    <3> QED BY Zenon, <2>2, <3>1, StepTake DEF lock_acquire, Asks
  <2>3. ASSUME NEW l \in Lock, lock_acquire_deadlocks(t, l) PROVE SynchInv'
    <3>1. deadlock' \in SUBSET (Thread \X Lock)
      BY <2>3 DEF lock_acquire_deadlocks
    <3> QED BY <2>3, <3>1, StepStutters DEF lock_acquire_deadlocks
  <2>4. ASSUME NEW l \in Lock, lock_acquire_again(t, l) PROVE SynchInv'
    <3>1. relock' \in [Thread -> Lock \cup {Nobody}]
      BY <2>4 DEF lock_acquire_again, SynchInv, TypeOK
    <3> QED BY ZenonT(60), <2>4, <3>1, StepTake DEF lock_acquire_again
  <2>5. ASSUME NEW l \in Lock, lock_release(t, l) PROVE SynchInv'
    BY <2>5, StepRelease
  <2>6. ASSUME NEW l \in Lock, NEW c \in CV, cv_wait(t, c, l) PROVE SynchInv'
    BY <2>6, StepWait
  <2>7. ASSUME NEW c \in CV, cv_signal(t, c) \/ cv_broadcast(t, c) PROVE SynchInv'
    BY <2>7, StepWakeup, WakeupCounts DEF cv_signal, cv_broadcast, SynchInv
  <2>8. ASSUME cv_wait_sleeps(t) PROVE SynchInv'
    BY <2>8, StepSleeps
  <2> QED BY <1>2, <2>1, <2>2, <2>3, <2>4, <2>5, <2>6, <2>7, <2>8 DEF Steps
<1> QED BY <1>1, <1>2 DEF Next

(* The invariant holds throughout.                                         *)
LEMMA SynchAlways == Spec => []SynchInv
BY SynchInit, SynchNext, PTL DEF Spec

(* No V and no lock_release is lost, whatever threads barge in before the  *)
(* one that was woken looks at the count or the holder again, and however  *)
(* many threads and objects there are: P and lock_acquire look again in a  *)
(* loop, and V and lock_release wake one thread whatever the count.        *)
THEOREM WakeupsKept == Spec => []NoLostWakeup
BY SynchAlways, PTL DEF SynchInv

-----------------------------------------------------------------------------
(* The locks and condition variables implement Monitor.                    *)

(* The waiters of Monitor: those who sleep, and those who are about to.    *)
Waiters == [c \in CV |-> {t \in Thread : pc[t] \in {"release", "sleep"} /\ on[t] = c}]

(* They are the ones on the channel and the one that holds the spinlock.   *)
LEMMA WaitersAre ==
  /\ DOMAIN Waiters = CV
  /\ \A c \in CV : Waiters[c] = Sleepers(c) \cup Releasing(c)
BY DEF Waiters, Sleepers, Releasing

(* The same of the next state.                                             *)
LEMMA WaitersNext ==
  /\ DOMAIN Waiters' = CV
  /\ \A c \in CV : Waiters'[c] = Sleepers(c)' \cup Releasing(c)'
BY DEF Waiters, Sleepers, Releasing

(* A step that changes the waiters of c only.                              *)
LEMMA OneChanged ==
  ASSUME NEW c \in CV, NEW ts, Sleepers(c)' \cup Releasing(c)' = ts,
         \A d \in CV : d # c => Sleepers(d)' = Sleepers(d) /\ Releasing(d)' = Releasing(d)
  PROVE  Waiters' = [Waiters EXCEPT ![c] = ts]
<1>1. Waiters'[c] = ts
  BY WaitersNext
<1>2. \A d \in CV : d # c => Waiters'[d] = Waiters[d]
  BY WaitersAre, WaitersNext
<1>3. Waiters' = [d \in CV |-> Waiters'[d]]
  BY DEF Waiters
<1> QED BY <1>1, <1>2, <1>3, WaitersAre

(* A step that leaves those sets alone leaves the waiters alone.           *)
LEMMA SameWaiters ==
  ASSUME \A c \in CV : Sleepers(c)' = Sleepers(c) /\ Releasing(c)' = Releasing(c)
  PROVE  Waiters' = Waiters
BY WaitersAre, WaitersNext DEF Waiters

(* A thread that runs, or has been taken off a channel, waits for nothing. *)
LEMMA NotWaiting ==
  ASSUME NEW t \in Thread, pc[t] # "sleep", pc[t] # "release"
  PROVE  ~M!Waiting(t)
BY DEF M!Waiting

(* P and V do not concern the monitor.                                     *)
LEMMA RefineSem ==
  ASSUME SynchInv, NEW t \in Thread, NEW s \in Sem, P(t, s) \/ V(t, s)
  PROVE  UNCHANGED M!vars
<1>1. s \in Object /\ s \notin CV
  BY SynchAssumption DEF Object
<1>2. \A c \in CV : Sleepers(c)' = Sleepers(c) /\ Releasing(c)' = Releasing(c)
  <2>1. CASE P(t, s)
    <3>1. pc[t] # "sleep" /\ \A c : Releasing(c) \ {t} = Releasing(c)
      BY <2>1 DEF P, Releasing
    <3>2. CASE wchan_sleep(t, s)
      BY <1>1, <3>1, <3>2, SleepMoves DEF SynchInv
    <3>3. CASE Goes(t, "run", Nobody)
      BY <1>1, <3>1, <3>3, GoMoves DEF SynchInv
    <3> QED BY <2>1, <3>2, <3>3 DEF P
  <2>2. CASE V(t, s)
    <3>1. /\ OneOf(s) \in 0 .. Len(wchan[s]) /\ pc[t] = "run" /\ on' = on
          /\ Woken(FirstOf(s, OneOf(s)), s, t, "run")
      BY <1>1, <2>2, OneOfSome DEF V, WakesOne, SynchInv
    <3> QED BY <1>1, <3>1, WakeMoves DEF SynchInv
  <2> QED BY <2>1, <2>2
<1>3. Waiters' = Waiters
  BY <1>2, SameWaiters
<1> QED BY <1>3 DEF P, V, M!vars, Waiters

(* TakeOrSleep is Acquire, or nothing.                                     *)
LEMMA RefineTake ==
  ASSUME SynchInv, NEW t \in Thread, NEW l \in Lock, TakeOrSleep(t, l), UNCHANGED signals,
         pc[t] # "sleep", pc[t] # "release"
  PROVE  M!Acquire(t, l) \/ UNCHANGED M!vars
<1>1. l \in Object /\ l \notin CV
  BY SynchAssumption DEF Object
<1>2. \A c : Releasing(c) \ {t} = Releasing(c)
  BY DEF Releasing
<1>3. CASE lk_holder[l] # Nobody /\ wchan_sleep(t, l) /\ UNCHANGED <<lk_holder, l_holding>>
  <2>1. Waiters' = Waiters
    BY <1>1, <1>2, <1>3, SleepMoves, SameWaiters DEF SynchInv
  <2> QED BY <1>3, <2>1 DEF M!vars, Waiters
<1>4. CASE /\ lk_holder[l] = Nobody /\ lk_holder' = [lk_holder EXCEPT ![l] = t]
           /\ Goes(t, "run", Nobody)
  <2>1. Waiters' = Waiters
    BY <1>2, <1>4, GoMoves, SameWaiters DEF SynchInv
  <2>2. ~M!Waiting(t)
    BY NotWaiting
  <2> QED BY <1>4, <2>1, <2>2 DEF M!Acquire, Waiters
<1> QED BY <1>3, <1>4 DEF TakeOrSleep

(* lock_release is Release.                                                *)
LEMMA RefineRelease ==
  ASSUME SynchInv, NEW t \in Thread, NEW l \in Lock, lock_release(t, l)
  PROVE  M!Release(t, l)
<1>1. /\ l \in Object /\ l \notin CV /\ pc[t] = "run" /\ on' = on /\ lk_holder[l] = t
      /\ UNCHANGED signals /\ lk_holder' = [lk_holder EXCEPT ![l] = Nobody]
      /\ Woken(FirstOf(l, OneOf(l)), l, t, "run")
  BY SynchAssumption DEF Object, lock_release, ReleaseLock
<1>2. OneOf(l) \in 0 .. Len(wchan[l])
  BY <1>1, OneOfSome DEF SynchInv
<1>3. Waiters' = Waiters
  BY <1>1, <1>2, WakeMoves, SameWaiters DEF SynchInv
<1>4. ~M!Waiting(t)
  BY <1>1, NotWaiting
<1> QED BY <1>1, <1>3, <1>4 DEF M!Release, Waiters

(* cv_wait is Wait: from when it has given up the lock the caller counts   *)
(* as a waiter, though it is not on the channel yet.                       *)
LEMMA RefineWait ==
  ASSUME SynchInv, NEW t \in Thread, NEW c \in CV, NEW l \in Lock, cv_wait(t, c, l)
  PROVE  M!Wait(t, l, c)
<1>1. /\ l \in Object /\ l \notin CV /\ pc[t] = "run" /\ lk_holder[l] = t
      /\ on' = [on EXCEPT ![t] = c]
      /\ UNCHANGED signals /\ lk_holder' = [lk_holder EXCEPT ![l] = Nobody]
      /\ Woken(FirstOf(l, OneOf(l)), l, t, "release")
  BY SynchAssumption DEF Object, cv_wait, ReleaseLock
<1>2. on'[t] = c /\ \A u \in Thread : u # t => on'[u] = on[u]
  BY <1>1 DEF SynchInv, TypeOK
<1>3. OneOf(l) \in 0 .. Len(wchan[l])
  BY <1>1, OneOfSome DEF SynchInv
<1>4. /\ \A d \in CV : Sleepers(d)' = Sleepers(d)
      /\ \A d \in CV : d # c => Releasing(d)' = Releasing(d)
      /\ Releasing(c)' = Releasing(c) \cup {t}
  BY <1>1, <1>2, <1>3, WakeMoves DEF SynchInv
<1>5. Waiters' = [Waiters EXCEPT ![c] = @ \cup {t}]
  <2>1. Sleepers(c)' \cup Releasing(c)' = Waiters[c] \cup {t}
    BY <1>4, WaitersAre
  <2> QED BY Zenon, <1>4, <2>1, OneChanged
<1>6. ~M!Waiting(t)
  BY <1>1, NotWaiting
<1> QED BY <1>1, <1>5, <1>6 DEF M!Wait, Waiters

(* To go to sleep is nothing to the monitor.                               *)
LEMMA RefineSleeps ==
  ASSUME SynchInv, NEW t \in Thread, cv_wait_sleeps(t)
  PROVE  UNCHANGED M!vars
<1> DEFINE c == on[t]
<1>1. pc[t] = "release" /\ wchan_sleep(t, c) /\ UNCHANGED <<lk_holder, signals>>
  BY DEF cv_wait_sleeps
<1>2. /\ pc'[t] = "sleep" /\ on'[t] = on[t]
      /\ \A u \in Thread : u # t => pc'[u] = pc[u] /\ on'[u] = on[u]
  BY <1>1 DEF wchan_sleep, Goes, SynchInv, TypeOK
<1>3. Waiters' = Waiters
  BY <1>1, <1>2 DEF Waiters
<1> QED BY <1>1, <1>3 DEF M!vars, Waiters

(* While a thread holds no spinlock of c, those who wait for c are those   *)
(* on its channel.                                                         *)
LEMMA NoneBetween ==
  ASSUME SynchInv, NEW c \in CV, cv_wchanlock[c] = Nobody
  PROVE  Releasing(c) = {} /\ Waiters[c] = Sleepers(c)
<1>1. Releasing(c) = {}
  BY SynchAssumption DEF SynchInv, Placed, Releasing
<1> QED BY <1>1, WaitersAre

(* What cv_signal and cv_broadcast have in common.                         *)
LEMMA RefineWakeup ==
  ASSUME SynchInv, NEW t \in Thread, NEW c \in CV, NEW n \in 0 .. Len(wchan[c]),
         Wakeup(t, c, n)
  PROVE  /\ M!Sends(c) /\ UNCHANGED lk_holder
         /\ FirstOf(c, n) \subseteq Waiters[c] /\ Waiters[c] = Sleepers(c)
         /\ Waiters' = [Waiters EXCEPT ![c] = Waiters[c] \ FirstOf(c, n)]
<1>1. /\ c \in Object /\ pc[t] = "run" /\ cv_wchanlock[c] = Nobody /\ on' = on
      /\ Woken(FirstOf(c, n), c, t, "run") /\ UNCHANGED lk_holder
      /\ signals' = [signals EXCEPT ![c] = 1 - @]
  BY DEF Wakeup, Object
<1>2. /\ FirstOf(c, n) \subseteq Sleepers(c)
      /\ Sleepers(c)' = Sleepers(c) \ FirstOf(c, n)
      /\ \A x : x # c => Sleepers(x)' = Sleepers(x)
      /\ \A x : Releasing(x)' = Releasing(x)
  BY <1>1, WakeMoves DEF SynchInv
<1>3. Releasing(c) = {} /\ Waiters[c] = Sleepers(c)
  BY <1>1, NoneBetween
<1>4. Sleepers(c)' \cup Releasing(c)' = Waiters[c] \ FirstOf(c, n)
  BY <1>2, <1>3
<1>5. Waiters' = [Waiters EXCEPT ![c] = Waiters[c] \ FirstOf(c, n)]
  BY ZenonT(60), <1>2, <1>4, OneChanged
<1> QED BY <1>1, <1>2, <1>3, <1>5 DEF M!Sends

(* cv_signal is Signal: if anyone waits it takes one off, the first.       *)
LEMMA RefineSignal ==
  ASSUME SynchInv, NEW t \in Thread, NEW c \in CV, cv_signal(t, c)
  PROVE  M!Signal(c)
<1>1. c \in Object /\ OneOf(c) \in 0 .. Len(wchan[c]) /\ Wakeup(t, c, OneOf(c))
  BY WakeupCounts DEF Object, cv_signal, SynchInv
<1>2. /\ M!Sends(c) /\ UNCHANGED lk_holder
      /\ FirstOf(c, OneOf(c)) \subseteq Waiters[c] /\ Waiters[c] = Sleepers(c)
      /\ Waiters' = [Waiters EXCEPT ![c] = Waiters[c] \ FirstOf(c, OneOf(c))]
  BY <1>1, RefineWakeup
<1>3. CASE Waiters[c] = {}
  <2>1. Waiters' = Waiters
    BY Zenon, <1>2, <1>3, WaitersAre DEF Waiters
  <2> QED BY <1>2, <1>3, <2>1 DEF M!Signal, Waiters
<1>4. CASE Waiters[c] # {}
  <2>1. FirstOf(c, OneOf(c)) = {wchan[c][1]}
    BY <1>1, <1>2, <1>4, OneOfSome DEF SynchInv
  <2>2. \E u \in Waiters[c] : Waiters' = [Waiters EXCEPT ![c] = @ \ {u}]
    BY Zenon, <1>2, <2>1
  <2> QED BY ZenonT(60), <1>2, <2>2 DEF M!Signal, Waiters
<1> QED BY <1>3, <1>4

(* cv_broadcast is Broadcast: the first Len(wchan) are all of them.        *)
LEMMA RefineBroadcast ==
  ASSUME SynchInv, NEW t \in Thread, NEW c \in CV, cv_broadcast(t, c)
  PROVE  M!Broadcast(c)
<1>1. c \in Object /\ Len(wchan[c]) \in 0 .. Len(wchan[c]) /\ Wakeup(t, c, Len(wchan[c]))
  BY WakeupCounts DEF Object, cv_broadcast, SynchInv
<1>2. /\ M!Sends(c) /\ UNCHANGED lk_holder
      /\ Waiters[c] = Sleepers(c)
      /\ Waiters' = [Waiters EXCEPT ![c] = Waiters[c] \ FirstOf(c, Len(wchan[c]))]
  BY <1>1, RefineWakeup
<1>3. Sleepers(c) \subseteq FirstOf(c, Len(wchan[c]))
  BY DEF SynchInv, Queued, Sleepers, FirstOf
<1>4. Waiters' = [Waiters EXCEPT ![c] = {}]
  BY Zenon, <1>2, <1>3
<1> QED BY <1>2, <1>4 DEF M!Broadcast, Waiters

(* Locks and condition variables, over wait channels and spinlocks and     *)
(* with the processor lost anywhere, implement the monitor: every step is  *)
(* a step of Monitor or changes nothing there, so no signal falls between  *)
(* the release of the lock and the sleep in cv_wait.                       *)
THEOREM MonitorImplemented == Spec => ImplementsMonitor
<1>1. Init => M!Init
  BY DEF Init, M!Init
<1>2. SynchInv /\ [Next]_vars => [M!Next]_(M!vars)
  <2> SUFFICES ASSUME SynchInv, [Next]_vars PROVE M!Next \/ UNCHANGED M!vars
    OBVIOUS
  <2>1. CASE UNCHANGED vars
    BY <2>1 DEF vars, M!vars
  <2>2. ASSUME NEW t \in Thread, Steps(t) PROVE M!Next \/ UNCHANGED M!vars
    <3>1. ASSUME NEW s \in Sem, P(t, s) \/ V(t, s) PROVE UNCHANGED M!vars
      BY <3>1, RefineSem
    <3>2. ASSUME NEW l \in Lock, lock_acquire(t, l) \/ lock_acquire_again(t, l)
          PROVE  M!Acquire(t, l) \/ UNCHANGED M!vars
      BY <3>2, RefineTake DEF lock_acquire, lock_acquire_again, Asks
    <3>3. ASSUME NEW l \in Lock, lock_acquire_deadlocks(t, l) PROVE UNCHANGED M!vars
      BY <3>3 DEF lock_acquire_deadlocks, M!vars
    <3>4. ASSUME NEW l \in Lock, lock_release(t, l) PROVE M!Release(t, l)
      BY <3>4, RefineRelease
    <3>5. ASSUME NEW l \in Lock, NEW c \in CV, cv_wait(t, c, l) PROVE M!Wait(t, l, c)
      BY <3>5, RefineWait
    <3>6. ASSUME NEW c \in CV, cv_signal(t, c) \/ cv_broadcast(t, c)
          PROVE  M!Signal(c) \/ M!Broadcast(c)
      BY <3>6, RefineSignal, RefineBroadcast
    <3>7. ASSUME cv_wait_sleeps(t) PROVE UNCHANGED M!vars
      BY <3>7, RefineSleeps
    <3> QED BY <2>2, <3>1, <3>2, <3>3, <3>4, <3>5, <3>6, <3>7 DEF Steps, M!Next
  <2> QED BY <2>1, <2>2 DEF Next
<1> QED BY <1>1, <1>2, SynchAlways, PTL DEF Spec, ImplementsMonitor, M!Spec
=============================================================================
