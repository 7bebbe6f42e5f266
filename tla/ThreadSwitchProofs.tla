------------------------ MODULE ThreadSwitchProofs --------------------------
(***************************************************************************)
(* Proofs about Threads, for any number of processors, threads and wait    *)
(* channels: waking and switching threads preserve the invariant, and so   *)
(* no thread is lost, doubled or freed in use, no two processors are on    *)
(* one stack, no wakeup is lost.                                           *)
(***************************************************************************)
EXTENDS ThreadsProofs

(* wchan_wakeone and wchan_wakeall move the first sleepers of a channel to *)
(* the wakeups under way.                                                  *)
LEMMA WakeKeeps ==
  ASSUME ThreadsInv, NEW c \in CPU, NEW w \in WChan, NEW n \in 1 .. Len(wc_threads[w]), Wake(c, w, n)
  PROVE  ThreadsInv'
<1>1. TypeOK /\ Tiles(Content, Lives) /\ Once /\ Home /\ Migrating /\ Rouses
  BY DEF ThreadsInv
<1>2. PICK s, first, rest : /\ s = wc_threads[w] /\ first = SubSeq(s, 1, n)
                            /\ rest = SubSeq(s, n + 1, Len(s))
  BY Zenon
<1>3. /\ UNCHANGED <<curthread, c_isidle, irq, runqueue, zombies, mig, t_cpu, t_state, newthread>>
      /\ mig[c].phase = "none" /\ waking[c] = <<>>
      /\ waking' = [waking EXCEPT ![c] = first] /\ wc_threads' = [wc_threads EXCEPT ![w] = rest]
      /\ woken' = [woken EXCEPT ![c] = @ \/ c_isidle[c]]
  BY <1>2 DEF Wake, Free
<1>4. s \in Seq(Thread) /\ NoRepeats(s) /\ n \in 0 .. Len(s)
  <2>1. s \in Seq(Thread) /\ NoRepeats(s)
    BY <1>1, <1>2 DEF TypeOK, Once
  <2>2. Len(s) \in Nat
    BY <2>1, LenNat
  <2> QED BY <2>1, <2>2, <1>2
<1>5. /\ first \in Seq(Thread) /\ rest \in Seq(Thread) /\ NoRepeats(first) /\ NoRepeats(rest)
      /\ Elems(first) \subseteq Elems(s) /\ Elems(rest) = Elems(s) \ Elems(first)
  BY <1>2, <1>4, ElemsSplit
<1>6. /\ waking'[c] = first /\ \A d \in CPU \ {c} : waking'[d] = waking[d] /\ woken'[d] = woken[d]
      /\ wc_threads'[w] = rest /\ \A x \in WChan \ {w} : wc_threads'[x] = wc_threads[x]
      /\ woken'[c] = (woken[c] \/ c_isidle[c])
  BY <1>1, <1>3 DEF TypeOK
<1>7. TypeOK'
  <2>1. waking' \in [CPU -> Seq(Thread)] /\ wc_threads' \in [WChan -> Seq(Thread)]
    BY Zenon, <1>1, <1>3, <1>5 DEF TypeOK
  <2>2. woken' \in [CPU -> BOOLEAN]
    BY Zenon, <1>1, <1>3 DEF TypeOK
  <2> QED BY Zenon, <2>1, <2>2, <1>1, <1>3 DEF TypeOK
<1>8. Tiles(Content, Lives)'
  <2>1. PICK a, b : a = <<"wchan", w>> /\ b = <<"waking", c>>
    BY Zenon
  <2>2. PICK G : G = Moved(Content, Elems(first), a, b)
    OBVIOUS
  <2>3. a \in Container /\ b \in Container /\ a # b
    BY Zenon, <2>1, ContainerNames
  <2>4. Content[a] = Elems(s) /\ Content[b] = {}
    BY Zenon, <2>1, <1>2, <1>3, ContentIs, ElemsEmpty DEF HoldsOnCPU
  <2>5. Tiles(G, Lives)
    BY <2>2, <2>3, <2>4, <1>1, <1>5, MovedTiles
  <2>6. G[a] = Elems(rest) /\ G[b] = Elems(first)
    BY <2>2, <2>3, <2>4, <1>5 DEF Moved
  <2>7. \A x \in Container : x # a /\ x # b => G[x] = Content[x]
    BY <2>2 DEF Moved
  <2>8. ASSUME NEW d \in CPU
        PROVE  HoldsOnCPU(G, d, curthread', c_isidle', runqueue', waking', mig', zombies')
    <3>1. G[<<"waking", d>>] = Elems(waking'[d])
      <4>1. CASE d = c
        BY <4>1, <2>1, <2>6, <1>6
      <4>2. CASE d # c
        BY Zenon, <4>2, <2>1, <2>7, <1>6, ContentIs, ContainerNames DEF HoldsOnCPU
      <4> QED BY <4>1, <4>2
    <3>2. /\ G[<<"running", d>>] = IF c_isidle'[d] THEN {} ELSE {curthread'[d]}
          /\ G[<<"runqueue", d>>] = Elems(runqueue'[d]) /\ G[<<"zombie", d>>] = zombies'[d]
          /\ G[<<"victim", d>>] = Elems(mig'[d].victims)
      BY ZenonT(60), <2>1, <2>7, <1>3, ContentIs, ContainerNames DEF HoldsOnCPU
    <3> QED BY <3>1, <3>2 DEF HoldsOnCPU
  <2>9. ASSUME NEW x \in WChan PROVE G[<<"wchan", x>>] = Elems(wc_threads'[x])
    <3>1. CASE x = w
      BY SMTT(40), <3>1, <2>1, <2>6, <1>6
    <3>2. CASE x # w
      BY Zenon, <3>2, <2>1, <2>7, <1>6, ContentIs, ContainerNames
    <3> QED BY <3>1, <3>2
  <2>10. \A u \in Thread : G[<<"new", u>>] = {newthread'[u]} \ {Null}
    BY Zenon, <2>1, <2>7, <1>3, ContentIs, ContainerNames
  <2>11. G = [x \in Container |-> G[x]]
    BY <2>2 DEF Moved
  <2>12. G = Content'
    BY <2>8, <2>9, <2>10, <2>11, IsHeld DEF Content
  <2>13. Lives' = Lives
    BY <1>3 DEF Lives
  <2> QED BY <2>5, <2>12, <2>13 DEF Tiles
<1>9. Once'
  <2>1. \A d \in CPU : NoRepeats(waking'[d])
    BY <1>1, <1>5, <1>6 DEF Once
  <2>2. \A x \in WChan : NoRepeats(wc_threads'[x])
    BY <1>1, <1>5, <1>6 DEF Once
  <2> QED BY <2>1, <2>2, <1>1, <1>3 DEF Once
<1>10. Home'
  BY <1>1, <1>3 DEF Home
<1>11. Migrating'
  <2>1. MigSound(c, mig[c], runqueue[c], waking'[c])
    BY <1>1, <1>3 DEF Migrating, MigSound
  <2> QED BY <2>1, <1>1, <1>3, <1>6 DEF Migrating
<1>12. Rouses'
  <2>1. \A d \in CPU : d # c => (waking'[d] = waking[d] /\ woken'[d] = woken[d])
    BY <1>6
  <2>2. c_isidle[c] => woken'[c]
    BY Zenon, <1>6
  <2> QED BY <2>1, <2>2, <1>1, <1>3 DEF Rouses, NoLostWakeup
<1> QED BY <1>7, <1>8, <1>9, <1>10, <1>11, <1>12 DEF ThreadsInv

(* A woken thread goes to the queue of the processor it belongs to, which  *)
(* is interrupted if it idles.                                             *)
LEMMA WakeNextKeeps ==
  ASSUME ThreadsInv, NEW c \in CPU, wchan_wake_next(c)
  PROVE  ThreadsInv'
<1>1. TypeOK /\ Tiles(Content, Lives) /\ Once /\ Home /\ Migrating /\ Rouses
  BY DEF ThreadsInv
<1>2. PICK s, t : s = waking[c] /\ t = Head(s)
  OBVIOUS
<1>3. PICK a, b : a = <<"waking", c>> /\ b = <<"runqueue", t_cpu[t]>>
  BY Zenon
<1>4. /\ UNCHANGED <<curthread, c_isidle, woken, zombies, mig, wc_threads, t_cpu, newthread>>
      /\ s # <<>> /\ thread_make_runnable(c, t) /\ waking' = [waking EXCEPT ![c] = Tail(s)]
  BY <1>2 DEF wchan_wake_next
<1>5. s \in Seq(Thread) /\ NoRepeats(s)
  BY <1>1, <1>2 DEF TypeOK, Once
<1>6. /\ t \in Thread /\ t \in Elems(s) /\ Tail(s) \in Seq(Thread) /\ NoRepeats(Tail(s))
      /\ Elems(Tail(s)) = Elems(s) \ {t}
  BY <1>2, <1>4, <1>5, ElemsTail
<1>7. t_cpu[t] \in CPU
  BY <1>1, <1>6 DEF TypeOK
<1>8. a \in Container /\ b \in Container /\ a # b /\ \A d \in CPU : a # <<"runqueue", d>>
  BY Zenon, <1>3, <1>7, ContainerNames
<1>9. Content[a] = Elems(s) /\ Content[b] = Elems(runqueue[t_cpu[t]])
  BY Zenon, <1>2, <1>3, <1>7, ContentIs DEF HoldsOnCPU
<1>10. /\ runqueue' \in [CPU -> Seq(Thread)] /\ irq' \in [CPU -> BOOLEAN]
       /\ t_state' \in [Thread -> {"none", "S_READY", "S_RUN", "S_SLEEP", "S_ZOMBIE"}]
       /\ Lives' = Lives /\ \A u \in Thread : t_state[u] # "none" => t_state'[u] # "none"
       /\ \A d \in CPU : /\ Elems(runqueue'[d]) = IF d = t_cpu[t] THEN Elems(runqueue[d]) \cup {t}
                                                  ELSE Elems(runqueue[d])
                         /\ NoRepeats(runqueue'[d]) /\ Belong(d, Elems(runqueue'[d]), t_cpu)
                         /\ MigSound(d, mig[d], runqueue'[d], waking[d])
       /\ \A d \in CPU : c_isidle[d] /\ runqueue'[d] # <<>> =>
            d = c \/ irq'[d] \/ woken[d] \/ mig[d].phase # "none" \/ waking[d] # <<>>
  <2>1. Queued(c, t)
    <3>1. t \in Content[a]
      BY <1>6, <1>9
    <3> QED BY <3>1, <1>4, <1>6, <1>8, Runnable
  <2> QED BY <2>1 DEF Queued
<1>11. waking'[c] = Tail(s) /\ \A d \in CPU \ {c} : waking'[d] = waking[d]
  BY <1>1, <1>4 DEF TypeOK
<1>12. TypeOK'
  <2>1. waking' \in [CPU -> Seq(Thread)]
    BY <1>1, <1>4, <1>6 DEF TypeOK
  <2> QED BY Zenon, <2>1, <1>1, <1>4, <1>10 DEF TypeOK
<1>13. Tiles(Content, Lives)'
  <2>1. PICK G : G = Moved(Content, {t}, a, b)
    OBVIOUS
  <2>2. Tiles(G, Lives)
    BY <2>1, <1>1, <1>6, <1>8, <1>9, MovedTiles
  <2>3. G[a] = Elems(Tail(s)) /\ G[b] = Elems(runqueue'[t_cpu[t]])
    BY Zenon, <2>1, <1>6, <1>7, <1>8, <1>9, <1>10 DEF Moved
  <2>4. \A x \in Container : x # a /\ x # b => G[x] = Content[x]
    BY <2>1 DEF Moved
  <2>5. ASSUME NEW d \in CPU
        PROVE  HoldsOnCPU(G, d, curthread', c_isidle', runqueue', waking', mig', zombies')
    <3>1. G[<<"runqueue", d>>] = Elems(runqueue'[d])
      <4>1. CASE d = t_cpu[t]
        BY <4>1, <2>3, <1>3
      <4>2. CASE d # t_cpu[t]
        BY ZenonT(60), <4>2, <2>4, <1>3, <1>10, ContentIs, ContainerNames DEF HoldsOnCPU
      <4> QED BY <4>1, <4>2
    <3>2. G[<<"waking", d>>] = Elems(waking'[d])
      <4>1. CASE d = c
        BY <4>1, <2>3, <1>3, <1>11
      <4>2. CASE d # c
        BY Zenon, <4>2, <2>4, <1>3, <1>11, ContentIs, ContainerNames DEF HoldsOnCPU
      <4> QED BY <4>1, <4>2
    <3>3. /\ G[<<"running", d>>] = IF c_isidle'[d] THEN {} ELSE {curthread'[d]}
          /\ G[<<"zombie", d>>] = zombies'[d] /\ G[<<"victim", d>>] = Elems(mig'[d].victims)
      BY Zenon, <2>4, <1>3, <1>4, ContentIs, ContainerNames DEF HoldsOnCPU
    <3> QED BY <3>1, <3>2, <3>3 DEF HoldsOnCPU
  <2>6. /\ \A w \in WChan : G[<<"wchan", w>>] = Elems(wc_threads'[w])
        /\ \A u \in Thread : G[<<"new", u>>] = {newthread'[u]} \ {Null}
    BY ZenonT(60), <2>4, <1>3, <1>4, ContentIs, ContainerNames
  <2>7. G = [x \in Container |-> G[x]]
    BY <2>1 DEF Moved
  <2>8. G = Content'
    BY <2>5, <2>6, <2>7, IsHeld DEF Content
  <2> QED BY <2>2, <2>8, <1>10 DEF Tiles
<1>14. Once'
  BY <1>1, <1>4, <1>6, <1>10, <1>11 DEF Once
<1>15. Home'
  <2>1. ASSUME NEW d \in CPU
        PROVE  OnStack(d, curthread[d], t_cpu, t_state', newthread)
    <3>1. curthread[d] \in Thread /\ OnStack(d, curthread[d], t_cpu, t_state, newthread)
      BY <1>1 DEF TypeOK, Home
    <3> QED BY <3>1, <1>10 DEF OnStack
  <2> QED BY <2>1, <1>1, <1>4, <1>10 DEF Home
<1>16. Migrating'
  <2>1. mig[c].phase = "none"
    BY Zenon, <1>1, <1>2, <1>4 DEF Migrating, MigSound
  <2>2. MigSound(c, mig[c], runqueue'[c], waking'[c])
    BY <2>1, <1>10 DEF MigSound
  <2> QED BY <2>2, <1>4, <1>10, <1>11 DEF Migrating
<1>17. Rouses'
  <2>1. c_isidle[c] => woken[c]
    BY <1>1, <1>2, <1>4 DEF Rouses
  <2> QED BY <2>1, <1>1, <1>4, <1>10, <1>11 DEF Rouses, NoLostWakeup
<1> QED BY <1>12, <1>13, <1>14, <1>15, <1>16, <1>17 DEF ThreadsInv

(* thread_switch once the old thread is placed: F holds the threads.       *)
State == {"none", "S_READY", "S_RUN", "S_SLEEP", "S_ZOMBIE"}
Placed(F, c, q, z, state) ==
  /\ q \in Seq(Thread) /\ NoRepeats(q) /\ z \in SUBSET Thread /\ state \in [Thread -> State]
  /\ Tiles(F, {t \in Thread : state[t] # "none"}) /\ F = [x \in Container |-> F[x]]
  /\ F[<<"running", c>>] = {} /\ F[<<"runqueue", c>>] = Elems(q) /\ F[<<"zombie", c>>] = z
  /\ F[<<"waking", c>>] = {} /\ F[<<"victim", c>>] = {}
  /\ \A d \in CPU \ {c} : HoldsOnCPU(F, d, curthread, c_isidle, runqueue, waking, mig, zombies)
  /\ \A p \in Thread : F[<<"new", p>>] = {newthread[p]} \ {Null}
  /\ \A d \in CPU : state[curthread[d]] # "none"
  /\ Belong(c, Elems(q), t_cpu) /\ Belong(c, z, t_cpu)

(* What the switch leaves.                                                 *)
Switched(c, G) ==
  /\ curthread' \in [CPU -> Thread] /\ runqueue' \in [CPU -> Seq(Thread)]
  /\ c_isidle' \in [CPU -> BOOLEAN] /\ zombies' \in [CPU -> SUBSET Thread]
  /\ t_state' \in [Thread -> State]
  /\ \A d \in CPU \ {c} : /\ runqueue'[d] = runqueue[d] /\ c_isidle'[d] = c_isidle[d]
                          /\ curthread'[d] = curthread[d] /\ zombies'[d] = zombies[d]
  /\ NoRepeats(runqueue'[c]) /\ (c_isidle'[c] => runqueue'[c] = <<>>)
  /\ Belong(c, Elems(runqueue'[c]), t_cpu) /\ Belong(c, zombies'[c], t_cpu)
  /\ \A d \in CPU : OnStack(d, curthread'[d], t_cpu, t_state', newthread)
  /\ Tiles(G, Lives') /\ G = [x \in Container |-> G[x]]
  /\ G[<<"running", c>>] = IF c_isidle'[c] THEN {} ELSE {curthread'[c]}
  /\ G[<<"runqueue", c>>] = Elems(runqueue'[c]) /\ G[<<"zombie", c>>] = zombies'[c]

(* A switch that finds the queue empty leaves the processor idle on the    *)
(* stack it was on.                                                        *)
LEMMA IdleSound ==
  ASSUME TypeOK, Home, NEW c \in CPU, NEW q, NEW z, NEW state, NEW F,
         Placed(F, c, q, z, state), q = <<>>, GoIdle(c, z, state)
  PROVE  Switched(c, F)
<1>1. /\ z \in SUBSET Thread /\ state \in [Thread -> State]
      /\ Tiles(F, {t \in Thread : state[t] # "none"}) /\ F = [x \in Container |-> F[x]]
      /\ F[<<"running", c>>] = {} /\ F[<<"runqueue", c>>] = Elems(<<>>) /\ F[<<"zombie", c>>] = z
      /\ \A d \in CPU : state[curthread[d]] # "none"
      /\ Belong(c, z, t_cpu)
  BY Zenon DEF Placed
<1>2. /\ runqueue' = [runqueue EXCEPT ![c] = <<>>] /\ c_isidle' = [c_isidle EXCEPT ![c] = TRUE]
      /\ zombies' = [zombies EXCEPT ![c] = z] /\ t_state' = state /\ curthread' = curthread
  BY DEF GoIdle
<1>3. /\ curthread' \in [CPU -> Thread] /\ runqueue' \in [CPU -> Seq(Thread)]
      /\ zombies' \in [CPU -> SUBSET Thread] /\ t_state' \in [Thread -> State]
      /\ \A d \in CPU \ {c} : /\ runqueue'[d] = runqueue[d] /\ c_isidle'[d] = c_isidle[d]
                              /\ curthread'[d] = curthread[d] /\ zombies'[d] = zombies[d]
      /\ runqueue'[c] = <<>> /\ c_isidle'[c] /\ zombies'[c] = z
  <2>1. z \in SUBSET Thread /\ state \in [Thread -> State] /\ <<>> \in Seq(Thread)
    BY <1>1
  <2> QED BY Zenon, <2>1, <1>2 DEF TypeOK
<1>4. c_isidle' \in [CPU -> BOOLEAN]
  BY Zenon, <1>2 DEF TypeOK
<1>5. \A d \in CPU : OnStack(d, curthread'[d], t_cpu, t_state', newthread)
  BY <1>1, <1>2 DEF Home, OnStack
<1>6. Tiles(F, Lives')
  <2>1. Lives' = {t \in Thread : state[t] # "none"}
    BY <1>2 DEF Lives
  <2> QED BY <2>1, <1>1
<1>7. Belong(c, Elems(<<>>), t_cpu) /\ NoRepeats(<<>>)
  BY ElemsEmpty DEF Belong
<1> QED BY Zenon, <1>1, <1>3, <1>4, <1>5, <1>6, <1>7 DEF Switched

(* The zombies are freed only once another thread runs.                    *)
LEMMA DispatchSound ==
  ASSUME TypeOK, Home, NEW c \in CPU, NEW q, NEW z, NEW state, NEW F,
         Placed(F, c, q, z, state), q # <<>>, Dispatch(c, q, z, state)
  PROVE  \E G : /\ Switched(c, G)
                /\ \A x \in Container \ {<<"running", c>>, <<"runqueue", c>>, <<"zombie", c>>} :
                     G[x] = F[x]
<1>1. /\ q \in Seq(Thread) /\ NoRepeats(q) /\ z \in SUBSET Thread /\ state \in [Thread -> State]
      /\ Tiles(F, {t \in Thread : state[t] # "none"})
      /\ F[<<"running", c>>] = {} /\ F[<<"runqueue", c>>] = Elems(q) /\ F[<<"zombie", c>>] = z
      /\ \A d \in CPU : state[curthread[d]] # "none"
      /\ Belong(c, Elems(q), t_cpu) /\ Belong(c, z, t_cpu)
      /\ \A p \in Thread : F[<<"new", p>>] = {newthread[p]} \ {Null}
  BY Zenon DEF Placed
<1>2. PICK h, r : h = Head(q) /\ r = Tail(q)
  BY Zenon
<1>3. /\ curthread' = [curthread EXCEPT ![c] = h] /\ runqueue' = [runqueue EXCEPT ![c] = r]
      /\ c_isidle' = [c_isidle EXCEPT ![c] = FALSE] /\ zombies' = [zombies EXCEPT ![c] = {}]
      /\ t_state' = [t \in Thread |-> IF t = h THEN "S_RUN" ELSE IF t \in z THEN "none" ELSE state[t]]
  BY <1>2 DEF Dispatch
<1>4. /\ h \in Thread /\ h \in Elems(q) /\ r \in Seq(Thread) /\ NoRepeats(r)
      /\ Elems(r) = Elems(q) \ {h}
  BY <1>1, <1>2, ElemsTail
<1>5. PICK a, b, e : a = <<"runqueue", c>> /\ b = <<"running", c>> /\ e = <<"zombie", c>>
  BY Zenon
<1>6. a \in Container /\ b \in Container /\ e \in Container /\ a # b /\ a # e /\ b # e
  BY Zenon, <1>5, ContainerNames
<1>7. F[a] = Elems(q) /\ F[b] = {} /\ F[e] = z
  BY <1>1, <1>5
<1>8. PICK L : L = {t \in Thread : state[t] # "none"}
  BY Zenon
<1>9. h \notin z /\ h \in L /\ \A p \in Thread : newthread[p] # h
  <2>1. \A x \in Container : h \in F[x] => x = a
    BY <1>1, <1>4, <1>6, <1>7 DEF Tiles
  <2>2. h \notin z
    BY <2>1, <1>6, <1>7
  <2>3. h \in L
    BY <1>1, <1>4, <1>6, <1>7, <1>8 DEF Tiles
  <2>4. ASSUME NEW p \in Thread PROVE newthread[p] # h
    <3>1. h \notin F[<<"new", p>>]
      BY <2>1, <1>5, ContainerNames
    <3> QED BY <3>1, <1>1, <1>4, ThreadsAssumption
  <2> QED BY <2>2, <2>3, <2>4
<1>10. PICK M : M = Moved(F, {h}, a, b)
  OBVIOUS
<1>11. PICK G : G = Dropped(M, z, e)
  OBVIOUS
<1>12. /\ M[a] = Elems(r) /\ M[b] = {h} /\ M[e] = z
       /\ \A x \in Container : x # a /\ x # b => M[x] = F[x]
  BY <1>4, <1>6, <1>7, <1>10 DEF Moved
<1>13. /\ G[a] = Elems(r) /\ G[b] = {h} /\ G[e] = {}
       /\ \A x \in Container : x # e => G[x] = M[x]
       /\ G = [x \in Container |-> G[x]]
  BY <1>6, <1>11, <1>12 DEF Dropped
<1>14. Tiles(G, L \ z)
  <2>1. Tiles(M, L)
    BY <1>1, <1>4, <1>6, <1>7, <1>8, <1>10, MovedTiles
  <2> QED BY <2>1, <1>6, <1>11, <1>12, DroppedTiles
<1>15. /\ curthread' \in [CPU -> Thread] /\ runqueue' \in [CPU -> Seq(Thread)]
       /\ zombies' \in [CPU -> SUBSET Thread]
       /\ \A d \in CPU \ {c} : /\ runqueue'[d] = runqueue[d] /\ c_isidle'[d] = c_isidle[d]
                               /\ curthread'[d] = curthread[d] /\ zombies'[d] = zombies[d]
       /\ runqueue'[c] = r /\ ~c_isidle'[c] /\ zombies'[c] = {} /\ curthread'[c] = h
  BY ZenonT(60), <1>3, <1>4 DEF TypeOK
<1>16. c_isidle' \in [CPU -> BOOLEAN]
  BY Zenon, <1>3 DEF TypeOK
<1>17. /\ t_state' \in [Thread -> State]
       /\ \A t \in Thread : t_state'[t] = IF t = h THEN "S_RUN" ELSE IF t \in z THEN "none" ELSE state[t]
  BY <1>1, <1>3 DEF State
<1>18. Lives' = L \ z
  BY <1>8, <1>9, <1>17 DEF Lives
<1>19. ASSUME NEW d \in CPU PROVE OnStack(d, curthread'[d], t_cpu, t_state', newthread)
  <2>1. CASE d = c
    BY <2>1, <1>1, <1>4, <1>9, <1>15, <1>17 DEF OnStack, Belong
  <2>2. CASE d # c
    <3>1. OnStack(d, curthread[d], t_cpu, t_state, newthread) /\ curthread[d] \in Thread
      BY DEF Home, TypeOK
    <3>2. curthread[d] \notin z
      BY <3>1, <2>2, <1>1 DEF OnStack, Belong
    <3>3. t_state'[curthread[d]] # "none"
      BY <3>1, <3>2, <1>1, <1>17
    <3> QED BY <3>1, <3>3, <2>2, <1>15 DEF OnStack
  <2> QED BY <2>1, <2>2
<1>20. Belong(c, Elems(r), t_cpu) /\ Belong(c, {}, t_cpu)
  BY <1>1, <1>4 DEF Belong
<1>21. Switched(c, G)
  BY Zenon, <1>4, <1>5, <1>13, <1>14, <1>15, <1>16, <1>17, <1>18, <1>19, <1>20 DEF Switched
<1>22. \A x \in Container \ {<<"running", c>>, <<"runqueue", c>>, <<"zombie", c>>} : G[x] = F[x]
  BY <1>5, <1>12, <1>13
<1> QED BY <1>21, <1>22

(* The threads in the next state are where G has them.                     *)
NextHolds(G) ==
  /\ G = [x \in Container |-> G[x]]
  /\ \A d \in CPU : HoldsOnCPU(G, d, curthread', c_isidle', runqueue', waking', mig', zombies')
  /\ \A w \in WChan : G[<<"wchan", w>>] = Elems(wc_threads'[w])
  /\ \A p \in Thread : G[<<"new", p>>] = {newthread'[p]} \ {Null}

(* A function that agrees with every list of the next state is what the    *)
(* containers hold then.                                                   *)
LEMMA NextContent ==
  ASSUME NEW G, NextHolds(G), Tiles(G, Lives')
  PROVE  Tiles(Content, Lives)'
<1>1. /\ G = [x \in Container |-> G[x]]
      /\ \A d \in CPU : HoldsOnCPU(G, d, curthread', c_isidle', runqueue', waking', mig', zombies')
      /\ \A w \in WChan : G[<<"wchan", w>>] = Elems(wc_threads'[w])
      /\ \A p \in Thread : G[<<"new", p>>] = {newthread'[p]} \ {Null}
  BY DEF NextHolds
<1>2. G = Held(curthread', c_isidle', runqueue', waking', mig', zombies', wc_threads', newthread')
  BY <1>1, IsHeld
<1>3. G = Content'
  BY <1>2 DEF Content
<1> QED BY <1>3 DEF Tiles

(* Any switch keeps the invariant: sleeping, exiting, yielding and the     *)
(* idle loop differ in where the old thread was put.                       *)
LEMMA SwitchKeeps ==
  ASSUME ThreadsInv, NEW c \in CPU, NEW q, NEW z, NEW state, NEW F,
         Placed(F, c, q, z, state), Switch(c, q, z, state),
         UNCHANGED <<irq, waking, t_cpu, newthread>>,
         waking[c] = <<>>, mig' = [mig EXCEPT ![c] = NoMig],
         woken' \in [CPU -> BOOLEAN], \A d \in CPU \ {c} : woken'[d] = woken[d],
         wc_threads' \in [WChan -> Seq(Thread)],
         \A w \in WChan : NoRepeats(wc_threads'[w]) /\ F[<<"wchan", w>>] = Elems(wc_threads'[w])
  PROVE  ThreadsInv'
<1>1. TypeOK /\ Tiles(Content, Lives) /\ Once /\ Home /\ Migrating /\ Rouses
  BY DEF ThreadsInv
<1>2. PICK G : /\ Switched(c, G)
               /\ \A x \in Container \ {<<"running", c>>, <<"runqueue", c>>, <<"zombie", c>>} :
                    G[x] = F[x]
  <2>1. CASE q = <<>>
    <3>1. Switched(c, F)
      BY <2>1, <1>1, IdleSound DEF Switch
    <3> QED BY <3>1
  <2>2. CASE q # <<>>
    <3>1. Dispatch(c, q, z, state)
      BY <2>2 DEF Switch
    <3> QED BY <2>2, <3>1, <1>1, DispatchSound
  <2> QED BY <2>1, <2>2
<1>3. /\ curthread' \in [CPU -> Thread] /\ runqueue' \in [CPU -> Seq(Thread)]
      /\ c_isidle' \in [CPU -> BOOLEAN] /\ zombies' \in [CPU -> SUBSET Thread]
      /\ t_state' \in [Thread -> State]
  BY <1>2 DEF Switched
<1>4. /\ \A d \in CPU \ {c} : /\ runqueue'[d] = runqueue[d] /\ c_isidle'[d] = c_isidle[d]
                              /\ curthread'[d] = curthread[d] /\ zombies'[d] = zombies[d]
      /\ NoRepeats(runqueue'[c]) /\ (c_isidle'[c] => runqueue'[c] = <<>>)
      /\ Belong(c, Elems(runqueue'[c]), t_cpu) /\ Belong(c, zombies'[c], t_cpu)
      /\ \A d \in CPU : OnStack(d, curthread'[d], t_cpu, t_state', newthread)
  BY <1>2 DEF Switched
<1>5. PICK n : /\ n = NoMig /\ n \in Mig /\ n.phase = "none" /\ n.victims = <<>>
               /\ n = [NoMig EXCEPT !.phase = n.phase]
  <2>1. "none" \in Phase /\ NoMig = [NoMig EXCEPT !.phase = "none"]
    BY DEF Phase, NoMig
  <2> QED BY <2>1, NoMigIs
<1>6. mig'[c] = n /\ \A d \in CPU \ {c} : mig'[d] = mig[d]
  BY SMTT(40), <1>1, <1>5 DEF TypeOK
<1>7. TypeOK'
  <2>1. mig' \in [CPU -> Mig]
    BY <1>1, <1>5 DEF TypeOK, Mig
  <2> QED BY ZenonT(60), <2>1, <1>1, <1>3 DEF TypeOK, Mig, State
<1>8. Tiles(Content, Lives)'
  <2>1. /\ Tiles(G, Lives') /\ G = [x \in Container |-> G[x]]
        /\ G[<<"running", c>>] = IF c_isidle'[c] THEN {} ELSE {curthread'[c]}
        /\ G[<<"runqueue", c>>] = Elems(runqueue'[c]) /\ G[<<"zombie", c>>] = zombies'[c]
    BY <1>2 DEF Switched
  <2>2. /\ F[<<"waking", c>>] = {} /\ F[<<"victim", c>>] = {}
        /\ \A d \in CPU \ {c} : HoldsOnCPU(F, d, curthread, c_isidle, runqueue, waking, mig, zombies)
        /\ \A p \in Thread : F[<<"new", p>>] = {newthread[p]} \ {Null}
    BY Zenon DEF Placed
  <2>3. HoldsOnCPU(G, c, curthread', c_isidle', runqueue', waking', mig', zombies')
    <3>1. G[<<"waking", c>>] = {} /\ G[<<"victim", c>>] = {}
      BY Zenon, <2>2, <1>2, ContainerNames
    <3>2. Elems(waking'[c]) = {} /\ Elems(mig'[c].victims) = {}
      BY <1>5, <1>6, ElemsEmpty
    <3> QED BY ZenonT(60), <2>1, <3>1, <3>2 DEF HoldsOnCPU
  <2>4. ASSUME NEW d \in CPU \ {c}
        PROVE  HoldsOnCPU(G, d, curthread', c_isidle', runqueue', waking', mig', zombies')
    <3>1. /\ G[<<"running", d>>] = F[<<"running", d>>] /\ G[<<"runqueue", d>>] = F[<<"runqueue", d>>]
          /\ G[<<"waking", d>>] = F[<<"waking", d>>] /\ G[<<"victim", d>>] = F[<<"victim", d>>]
          /\ G[<<"zombie", d>>] = F[<<"zombie", d>>]
      BY <1>2, ContainerNames
    <3>2. HoldsOnCPU(F, d, curthread, c_isidle, runqueue, waking, mig, zombies)
      BY <2>2
    <3> QED BY Zenon, <3>1, <3>2, <1>4, <1>6 DEF HoldsOnCPU
  <2>5. \A w \in WChan : G[<<"wchan", w>>] = Elems(wc_threads'[w])
    BY ZenonT(60), <1>2, ContainerNames
  <2>6. \A p \in Thread : G[<<"new", p>>] = {newthread'[p]} \ {Null}
    BY ZenonT(60), <2>2, <1>2, ContainerNames
  <2>7. \A d \in CPU : HoldsOnCPU(G, d, curthread', c_isidle', runqueue', waking', mig', zombies')
    BY Zenon, <2>3, <2>4
  <2>8. G = [x \in Container |-> G[x]]
    BY <2>1
  <2>9. NextHolds(G)
    BY Zenon, <2>5, <2>6, <2>7, <2>8 DEF NextHolds
  <2> QED BY <2>1, <2>9, NextContent
<1>9. Once'
  BY Zenon, <1>1, <1>4, <1>5, <1>6, ElemsEmpty DEF Once
<1>10. Home'
  <2>1. Belong(c, Elems(<<>>), t_cpu)
    BY ElemsEmpty DEF Belong
  <2> QED BY <2>1, <1>1, <1>4, <1>5, <1>6 DEF Home
<1>11. Migrating'
  <2>1. MigSound(c, n, runqueue'[c], waking[c])
    BY <1>5 DEF MigSound
  <2> QED BY <2>1, <1>1, <1>4, <1>6 DEF Migrating
<1>12. Rouses'
  <2>1. ASSUME NEW d \in CPU
        PROVE  /\ c_isidle'[d] /\ runqueue'[d] # <<>> =>
                    irq[d] \/ woken'[d] \/ mig'[d].phase # "none" \/ waking[d] # <<>>
               /\ waking[d] # <<>> /\ c_isidle'[d] => woken'[d]
    <3>1. CASE d = c
      BY <3>1, <1>4
    <3>2. CASE d # c
      <4>1. /\ runqueue'[d] = runqueue[d] /\ c_isidle'[d] = c_isidle[d]
            /\ woken'[d] = woken[d] /\ mig'[d] = mig[d]
        BY <3>2, <1>4, <1>6
      <4>2. /\ c_isidle[d] /\ runqueue[d] # <<>> =>
                 irq[d] \/ woken[d] \/ mig[d].phase # "none" \/ waking[d] # <<>>
            /\ waking[d] # <<>> /\ c_isidle[d] => woken[d]
        BY <1>1 DEF Rouses, NoLostWakeup
      <4> QED BY <4>1, <4>2
    <3> QED BY <3>1, <3>2
  <2> QED BY <2>1 DEF Rouses, NoLostWakeup
<1> QED BY <1>7, <1>8, <1>9, <1>10, <1>11, <1>12 DEF ThreadsInv

(* A processor in no interrupt handler has no migration under way.         *)
LEMMA FreeMig ==
  ASSUME TypeOK, Migrating, NEW c \in CPU, mig[c].phase \in {"none", "yield"}
  PROVE  /\ mig[c].victims = <<>>
         /\ mig[c].phase = "none" => mig = [mig EXCEPT ![c] = NoMig]
<1>1. PICK m : m = mig[c]
  OBVIOUS
<1>2. m = [NoMig EXCEPT !.phase = m.phase]
  BY <1>1 DEF Migrating, MigSound
<1>3. m.victims = <<>>
  BY <1>2 DEF NoMig
<1>4. m.phase = "none" => m = NoMig
  BY <1>2 DEF NoMig
<1> QED BY <1>1, <1>3, <1>4 DEF TypeOK

(* The running thread of processor c leaves it for container b.            *)
Leaves(F, c, b) ==
  /\ F = [x \in Container |-> F[x]] /\ F[<<"running", c>>] = {}
  /\ F[b] = Content[b] \cup {curthread[c]}
  /\ \A x \in Container \ {<<"running", c>>, b} : F[x] = Content[x]
  /\ \A x \in Container \ {<<"running", c>>} : curthread[c] \notin Content[x]

(* The thread that a processor runs can be moved to any other container    *)
(* and given a new state.                                                  *)
LEMMA LeavesTiles ==
  ASSUME ThreadsInv, NEW c \in CPU, ~c_isidle[c], NEW b \in Container, b # <<"running", c>>,
         NEW s \in State \ {"none"}
  PROVE  /\ Become(c, s) \in [Thread -> State] /\ \A d \in CPU : Become(c, s)[curthread[d]] # "none"
         /\ \E F : Leaves(F, c, b) /\ Tiles(F, {t \in Thread : Become(c, s)[t] # "none"})
<1>1. TypeOK /\ Tiles(Content, Lives) /\ Home
  BY DEF ThreadsInv
<1>2. PICK a, p, state : a = <<"running", c>> /\ p = curthread[c] /\ state = Become(c, s)
  BY Zenon
<1>3. a \in Container /\ a # b /\ p \in Thread /\ Content[a] = {p}
  BY Zenon, <1>1, <1>2, ContainerNames, ContentIs DEF TypeOK, HoldsOnCPU
<1>4. /\ state \in [Thread -> State]
      /\ \A t \in Thread : state[t] = IF t = p THEN s ELSE t_state[t]
  BY <1>1, <1>2, <1>3 DEF TypeOK, Become, State
<1>5. \A d \in CPU : state[curthread[d]] # "none"
  BY <1>1, <1>4 DEF TypeOK, Home, OnStack
<1>6. PICK F : F = Moved(Content, {p}, a, b)
  OBVIOUS
<1>7. Tiles(F, Lives)
  BY <1>1, <1>3, <1>6, MovedTiles
<1>8. Lives = {t \in Thread : state[t] # "none"}
  <2>1. p \in Lives
    BY <1>1, <1>3 DEF Tiles
  <2> QED BY <2>1, <1>4 DEF Lives
<1>9. Leaves(F, c, b)
  <2>1. /\ F[a] = {} /\ F[b] = Content[b] \cup {p}
        /\ \A x \in Container \ {a, b} : F[x] = Content[x]
    BY <1>3, <1>6 DEF Moved
  <2>2. F = [x \in Container |-> F[x]]
    BY <1>6 DEF Moved
  <2>3. \A x \in Container \ {a} : p \notin Content[x]
    BY <1>1, <1>3 DEF Tiles
  <2> QED BY <2>1, <2>2, <2>3, <1>2 DEF Leaves
<1> QED BY <1>2, <1>4, <1>5, <1>7, <1>8, <1>9

(* What the other containers hold is unchanged.                            *)
OthersHold(F, c, b) ==
  /\ \A d \in CPU \ {c} : HoldsOnCPU(F, d, curthread, c_isidle, runqueue, waking, mig, zombies)
  /\ <<"runqueue", c>> # b => F[<<"runqueue", c>>] = Elems(runqueue[c])
  /\ <<"zombie", c>> # b => F[<<"zombie", c>>] = zombies[c]
  /\ F[<<"waking", c>>] = Elems(waking[c]) /\ F[<<"victim", c>>] = Elems(mig[c].victims)
  /\ \A w \in WChan : <<"wchan", w>> # b => F[<<"wchan", w>>] = Elems(wc_threads[w])
  /\ \A p \in Thread : F[<<"new", p>>] = {newthread[p]} \ {Null}

(* What that leaves alone holds what the variables say.                    *)
LEMMA LeavesOthers ==
  ASSUME NEW F, NEW c \in CPU, NEW b \in Container, Leaves(F, c, b),
         b \in {<<"runqueue", c>>, <<"zombie", c>>} \cup ({"wchan"} \X WChan)
  PROVE  OthersHold(F, c, b)
<1>1. \A x \in Container \ {<<"running", c>>, b} : F[x] = Content[x]
  BY DEF Leaves
<1>2. ASSUME NEW d \in CPU \ {c}
      PROVE  HoldsOnCPU(F, d, curthread, c_isidle, runqueue, waking, mig, zombies)
  <2>1. /\ F[<<"running", d>>] = Content[<<"running", d>>] /\ F[<<"runqueue", d>>] = Content[<<"runqueue", d>>]
        /\ F[<<"waking", d>>] = Content[<<"waking", d>>] /\ F[<<"victim", d>>] = Content[<<"victim", d>>]
        /\ F[<<"zombie", d>>] = Content[<<"zombie", d>>]
    BY <1>1, ContainerNames
  <2> QED BY <2>1, ContentIs DEF HoldsOnCPU
<1>3. /\ <<"runqueue", c>> # b => F[<<"runqueue", c>>] = Elems(runqueue[c])
      /\ <<"zombie", c>> # b => F[<<"zombie", c>>] = zombies[c]
  BY Zenon, <1>1, ContainerNames, ContentIs DEF HoldsOnCPU
<1>4. F[<<"waking", c>>] = Elems(waking[c]) /\ F[<<"victim", c>>] = Elems(mig[c].victims)
  <2>1. b # <<"waking", c>> /\ b # <<"victim", c>>
    OBVIOUS
  <2>2. F[<<"waking", c>>] = Content[<<"waking", c>>] /\ F[<<"victim", c>>] = Content[<<"victim", c>>]
    BY Zenon, <2>1, <1>1, ContainerNames
  <2> QED BY Zenon, <2>2, ContentIs DEF HoldsOnCPU
<1>5. \A w \in WChan : <<"wchan", w>> # b => F[<<"wchan", w>>] = Elems(wc_threads[w])
  BY <1>1, ContainerNames, ContentIs
<1>6. ASSUME NEW p \in Thread PROVE F[<<"new", p>>] = {newthread[p]} \ {Null}
  <2>1. b # <<"new", p>>
    OBVIOUS
  <2>2. F[<<"new", p>>] = Content[<<"new", p>>]
    BY <2>1, <1>1, ContainerNames
  <2> QED BY <2>2, ContentIs
<1> QED BY <1>2, <1>3, <1>4, <1>5, <1>6 DEF OthersHold

(* The old thread is placed, for a switch.                                 *)
LEMMA LeavesPlaced ==
  ASSUME ThreadsInv, NEW c \in CPU, mig[c].phase \in {"none", "yield"}, waking[c] = <<>>,
         NEW b \in Container, NEW F, NEW q, NEW z, NEW state,
         b \in {<<"runqueue", c>>, <<"zombie", c>>} \cup ({"wchan"} \X WChan),
         Leaves(F, c, b), Tiles(F, {t \in Thread : state[t] # "none"}),
         state \in [Thread -> State], \A d \in CPU : state[curthread[d]] # "none",
         q \in Seq(Thread), NoRepeats(q), z \in SUBSET Thread,
         F[<<"runqueue", c>>] = Elems(q), F[<<"zombie", c>>] = z,
         Belong(c, Elems(q), t_cpu), Belong(c, z, t_cpu)
  PROVE  Placed(F, c, q, z, state)
<1>1. OthersHold(F, c, b)
  BY LeavesOthers
<1>2. mig[c].victims = <<>>
  BY FreeMig DEF ThreadsInv
<1>3. F = [x \in Container |-> F[x]] /\ F[<<"running", c>>] = {}
  BY DEF Leaves
<1>4. F[<<"waking", c>>] = {} /\ F[<<"victim", c>>] = {}
  BY <1>1, <1>2, ElemsEmpty DEF OthersHold
<1>5. /\ \A d \in CPU \ {c} : HoldsOnCPU(F, d, curthread, c_isidle, runqueue, waking, mig, zombies)
      /\ \A u \in Thread : F[<<"new", u>>] = {newthread[u]} \ {Null}
  BY ZenonT(60), <1>1 DEF OthersHold
<1> QED BY ZenonT(60), <1>3, <1>4, <1>5 DEF Placed

(* wchan_sleep: the thread goes to the channel, and the processor to       *)
(* another thread.                                                         *)
LEMMA SleepKeeps ==
  ASSUME ThreadsInv, NEW c \in CPU, NEW w \in WChan, wchan_sleep(c, w)
  PROVE  ThreadsInv'
<1>1. TypeOK /\ Tiles(Content, Lives) /\ Once /\ Home /\ Migrating /\ Rouses
  BY DEF ThreadsInv
<1>2. PICK p, q, z, state : /\ p = curthread[c] /\ q = runqueue[c] /\ z = zombies[c]
                            /\ state = Become(c, "S_SLEEP")
  OBVIOUS
<1>3. /\ mig[c].phase = "none" /\ waking[c] = <<>> /\ ~c_isidle[c]
      /\ wc_threads' = [wc_threads EXCEPT ![w] = Append(@, p)]
      /\ Switch(c, q, z, state) /\ UNCHANGED <<irq, woken, waking, mig, t_cpu, newthread>>
  BY <1>2 DEF wchan_sleep, Running, Free
<1>4. PICK b : b = <<"wchan", w>>
  BY Zenon
<1>5. b \in Container /\ b # <<"running", c>> /\ "S_SLEEP" \in State \ {"none"}
  BY <1>4, ContainerNames DEF State
<1>6. PICK F : Leaves(F, c, b) /\ Tiles(F, {t \in Thread : state[t] # "none"})
  BY ZenonT(60), <1>2, <1>3, <1>5, LeavesTiles
<1>7. state \in [Thread -> State] /\ \A d \in CPU : state[curthread[d]] # "none"
  BY <1>2, <1>3, <1>5, LeavesTiles
<1>8. mig[c].victims = <<>> /\ mig' = [mig EXCEPT ![c] = NoMig]
  <2>1. /\ mig[c].victims = <<>>
        /\ mig[c].phase = "none" => mig = [mig EXCEPT ![c] = NoMig]
    BY Zenon, <1>1, <1>3, FreeMig
  <2> QED BY Zenon, <2>1, <1>3
<1>9. Placed(F, c, q, z, state)
  <2>1. q \in Seq(Thread) /\ NoRepeats(q) /\ z \in SUBSET Thread
    BY <1>1, <1>2 DEF TypeOK, Once
  <2>2. b \in {<<"runqueue", c>>, <<"zombie", c>>} \cup ({"wchan"} \X WChan)
    BY <1>4
  <2>3. OthersHold(F, c, b)
    BY <2>2, <1>5, <1>6, LeavesOthers
  <2>4. F[<<"runqueue", c>>] = Elems(q) /\ F[<<"zombie", c>>] = z
    BY <2>3, <1>2, <1>4 DEF OthersHold
  <2>5. Belong(c, Elems(q), t_cpu) /\ Belong(c, z, t_cpu)
    BY <1>1, <1>2 DEF Home
  <2> QED BY SMTT(40), <2>1, <2>2, <2>4, <2>5, <1>3, <1>5, <1>6, <1>7, LeavesPlaced
<1>10. PICK r : r = Append(wc_threads[w], p)
  BY Zenon
<1>11. r \in Seq(Thread) /\ NoRepeats(r) /\ Elems(r) = Elems(wc_threads[w]) \cup {p} /\ F[b] = Elems(r)
  <2>1. wc_threads[w] \in Seq(Thread) /\ NoRepeats(wc_threads[w]) /\ p \in Thread
    BY <1>1, <1>2 DEF TypeOK, Once
  <2>2. Content[b] = Elems(wc_threads[w])
    BY <1>4, ContentIs
  <2>3. p \notin Elems(wc_threads[w]) /\ F[b] = Elems(wc_threads[w]) \cup {p}
    BY <2>2, <1>2, <1>5, <1>6 DEF Leaves
  <2>4. r \in Seq(Thread) /\ NoRepeats(r) /\ Elems(r) = Elems(wc_threads[w]) \cup {p}
    BY SMTT(40), <2>1, <2>3, <1>10, ElemsAppend
  <2> QED BY <2>3, <2>4
<1>12. wc_threads' \in [WChan -> Seq(Thread)]
  BY <1>1, <1>3, <1>10, <1>11 DEF TypeOK
<1>13. ASSUME NEW x \in WChan
       PROVE  NoRepeats(wc_threads'[x]) /\ F[<<"wchan", x>>] = Elems(wc_threads'[x])
  <2>1. CASE x = w
    <3>1. wc_threads'[x] = r
      BY <2>1, <1>1, <1>3, <1>10 DEF TypeOK
    <3> QED BY <2>1, <3>1, <1>4, <1>11
  <2>2. CASE x # w
    <3>1. wc_threads'[x] = wc_threads[x] /\ NoRepeats(wc_threads[x])
      BY <2>2, <1>1, <1>3 DEF TypeOK, Once
    <3>2. <<"wchan", x>> # b
      BY <2>2, <1>4
    <3>3. OthersHold(F, c, b)
      BY <1>4, <1>5, <1>6, LeavesOthers
    <3> QED BY <3>1, <3>2, <3>3 DEF OthersHold
  <2> QED BY <2>1, <2>2
<1>14. woken' \in [CPU -> BOOLEAN] /\ \A d \in CPU \ {c} : woken'[d] = woken[d]
  BY ZenonT(60), <1>1, <1>3 DEF TypeOK
<1> QED BY Zenon, <1>3, <1>8, <1>9, <1>12, <1>13, <1>14, SwitchKeeps

(* thread_exit: the thread becomes a zombie of the processor that is on    *)
(* its stack.                                                              *)
LEMMA ExitKeeps ==
  ASSUME ThreadsInv, NEW c \in CPU, thread_exit(c)
  PROVE  ThreadsInv'
<1>1. TypeOK /\ Tiles(Content, Lives) /\ Once /\ Home /\ Migrating /\ Rouses
  BY DEF ThreadsInv
<1>2. PICK p, q, z, state : /\ p = curthread[c] /\ q = runqueue[c] /\ z = zombies[c] \cup {p}
                            /\ state = Become(c, "S_ZOMBIE")
  BY Zenon
<1>3. /\ mig[c].phase = "none" /\ waking[c] = <<>> /\ ~c_isidle[c]
      /\ Switch(c, q, z, state) /\ UNCHANGED <<irq, woken, waking, mig, wc_threads, t_cpu, newthread>>
  BY <1>2 DEF thread_exit, Running, Free
<1>4. PICK b : b = <<"zombie", c>>
  BY Zenon
<1>5. b \in Container /\ b # <<"running", c>> /\ "S_ZOMBIE" \in State \ {"none"}
  BY Zenon, <1>4, ContainerNames DEF State
<1>6. PICK F : Leaves(F, c, b) /\ Tiles(F, {t \in Thread : state[t] # "none"})
  BY Zenon, <1>2, <1>3, <1>5, LeavesTiles
<1>7. state \in [Thread -> State] /\ \A d \in CPU : state[curthread[d]] # "none"
  BY <1>2, <1>3, <1>5, LeavesTiles
<1>8. mig' = [mig EXCEPT ![c] = NoMig]
  BY <1>1, <1>3, FreeMig
<1>9. b \in {<<"runqueue", c>>, <<"zombie", c>>} \cup ({"wchan"} \X WChan) /\ OthersHold(F, c, b)
  BY <1>4, <1>5, <1>6, LeavesOthers
<1>10. Placed(F, c, q, z, state)
  <2>1. q \in Seq(Thread) /\ NoRepeats(q) /\ z \in SUBSET Thread
    BY <1>1, <1>2 DEF TypeOK, Once
  <2>2. F[<<"runqueue", c>>] = Elems(q)
    BY <1>2, <1>4, <1>9 DEF OthersHold
  <2>3. F[<<"zombie", c>>] = z
    <3>1. Content[b] = zombies[c]
      BY Zenon, <1>4, ContentIs DEF HoldsOnCPU
    <3> QED BY <3>1, <1>2, <1>4, <1>6 DEF Leaves
  <2>4. Belong(c, Elems(q), t_cpu) /\ Belong(c, z, t_cpu)
    BY <1>1, <1>2 DEF Home, Belong, OnStack
  <2> QED BY <2>1, <2>2, <2>3, <2>4, <1>3, <1>5, <1>6, <1>7, <1>9, LeavesPlaced
<1>11. \A w \in WChan : NoRepeats(wc_threads'[w]) /\ F[<<"wchan", w>>] = Elems(wc_threads'[w])
  BY Zenon, <1>1, <1>3, <1>4, <1>9 DEF Once, OthersHold
<1>12. /\ woken' \in [CPU -> BOOLEAN] /\ \A d \in CPU \ {c} : woken'[d] = woken[d]
       /\ wc_threads' \in [WChan -> Seq(Thread)]
  BY ZenonT(60), <1>1, <1>3 DEF TypeOK
<1> QED BY Zenon, <1>3, <1>8, <1>10, <1>11, <1>12, SwitchKeeps

(* thread_yield, called by a thread and by every clock interrupt.          *)
LEMMA YieldSwitches ==
  ASSUME ThreadsInv, NEW c \in CPU, mig[c].phase \in {"none", "yield"}, waking[c] = <<>>,
         ~c_isidle[c], runqueue[c] # <<>>, Yield(c),
         UNCHANGED <<irq, waking, t_cpu, newthread, wc_threads>>, mig' = [mig EXCEPT ![c] = NoMig],
         woken' \in [CPU -> BOOLEAN], \A d \in CPU \ {c} : woken'[d] = woken[d]
  PROVE  ThreadsInv'
<1>1. TypeOK /\ Tiles(Content, Lives) /\ Once /\ Home /\ Migrating /\ Rouses
  BY DEF ThreadsInv
<1>2. PICK p, q, z, state : /\ p = curthread[c] /\ q = Append(runqueue[c], p) /\ z = zombies[c]
                            /\ state = Become(c, "S_READY")
  BY Zenon
<1>3. Switch(c, q, z, state)
  BY <1>2 DEF Yield
<1>4. PICK b : b = <<"runqueue", c>>
  BY Zenon
<1>5. b \in Container /\ b # <<"running", c>> /\ "S_READY" \in State \ {"none"}
  BY Zenon, <1>4, ContainerNames DEF State
<1>6. PICK F : Leaves(F, c, b) /\ Tiles(F, {t \in Thread : state[t] # "none"})
  BY ZenonT(60), <1>2, <1>5, LeavesTiles
<1>7. state \in [Thread -> State] /\ \A d \in CPU : state[curthread[d]] # "none"
  BY <1>2, <1>5, LeavesTiles
<1>8. b \in {<<"runqueue", c>>, <<"zombie", c>>} \cup ({"wchan"} \X WChan) /\ OthersHold(F, c, b)
  BY <1>4, <1>5, <1>6, LeavesOthers
<1>9. Placed(F, c, q, z, state)
  <2>1. runqueue[c] \in Seq(Thread) /\ NoRepeats(runqueue[c]) /\ p \in Thread /\ z \in SUBSET Thread
    BY <1>1, <1>2 DEF TypeOK, Once
  <2>2. Content[b] = Elems(runqueue[c])
    BY ZenonT(60), <1>4, ContentIs DEF HoldsOnCPU
  <2>3. p \notin Elems(runqueue[c]) /\ F[b] = Elems(runqueue[c]) \cup {p}
    BY <2>2, <1>2, <1>5, <1>6 DEF Leaves
  <2>4. q \in Seq(Thread) /\ NoRepeats(q) /\ Elems(q) = Elems(runqueue[c]) \cup {p}
    BY <2>1, <2>3, <1>2, ElemsAppend
  <2>5. F[<<"runqueue", c>>] = Elems(q) /\ F[<<"zombie", c>>] = z
    BY ZenonT(60), <2>3, <2>4, <1>2, <1>4, <1>8 DEF OthersHold
  <2>6. Belong(c, Elems(q), t_cpu) /\ Belong(c, z, t_cpu)
    BY <2>4, <1>1, <1>2 DEF Home, Belong, OnStack
  <2> QED BY ZenonT(60), <2>1, <2>4, <2>5, <2>6, <1>5, <1>6, <1>7, <1>8, LeavesPlaced
<1>10. \A w \in WChan : NoRepeats(wc_threads'[w]) /\ F[<<"wchan", w>>] = Elems(wc_threads'[w])
  BY ZenonT(60), <1>1, <1>4, <1>8 DEF Once, OthersHold
<1>11. wc_threads' \in [WChan -> Seq(Thread)]
  BY ZenonT(60), <1>1 DEF TypeOK
<1> QED BY Zenon, <1>3, <1>9, <1>10, <1>11, SwitchKeeps

(* thread_yield of a running thread.                                       *)
LEMMA YieldKeeps ==
  ASSUME ThreadsInv, NEW c \in CPU, thread_yield(c)
  PROVE  ThreadsInv'
<1>1. TypeOK /\ Migrating
  BY DEF ThreadsInv
<1>2. /\ mig[c].phase = "none" /\ waking[c] = <<>> /\ ~c_isidle[c] /\ runqueue[c] # <<>> /\ Yield(c)
      /\ UNCHANGED <<irq, woken, waking, mig, wc_threads, t_cpu, newthread>>
  BY DEF thread_yield, Running, Free
<1>3. mig' = [mig EXCEPT ![c] = NoMig]
  BY <1>1, <1>2, FreeMig
<1>4. woken' \in [CPU -> BOOLEAN] /\ \A d \in CPU \ {c} : woken'[d] = woken[d]
  BY ZenonT(60), <1>1, <1>2 DEF TypeOK
<1> QED BY Zenon, <1>2, <1>3, <1>4, YieldSwitches

(* The yield at the end of the clock interrupt, which does nothing on an   *)
(* idle processor.                                                         *)
LEMMA ClockEndsKeeps ==
  ASSUME ThreadsInv, NEW c \in CPU, hardclock_ends(c)
  PROVE  ThreadsInv'
<1>1. TypeOK /\ Tiles(Content, Lives) /\ Once /\ Home /\ Migrating /\ Rouses
  BY DEF ThreadsInv
<1>2. /\ mig[c].phase = "yield" /\ mig' = [mig EXCEPT ![c] = NoMig]
      /\ woken' = [woken EXCEPT ![c] = @ \/ c_isidle[c]] /\ Yield(c)
      /\ UNCHANGED <<irq, waking, wc_threads, t_cpu, newthread>>
  BY DEF hardclock_ends
<1>3. waking[c] = <<>> /\ mig[c].victims = <<>>
  <2>1. MigSound(c, mig[c], runqueue[c], waking[c])
    BY <1>1 DEF Migrating
  <2>2. mig[c].victims = <<>>
    BY <1>1, <1>2, FreeMig
  <2> QED BY <2>1, <2>2, <1>2 DEF MigSound
<1>4. /\ woken' \in [CPU -> BOOLEAN] /\ woken'[c] = (woken[c] \/ c_isidle[c])
      /\ \A d \in CPU \ {c} : woken'[d] = woken[d]
  BY ZenonT(60), <1>1, <1>2 DEF TypeOK
<1>5. CASE ~c_isidle[c] /\ runqueue[c] # <<>>
  BY Zenon, <1>2, <1>3, <1>4, <1>5, YieldSwitches
<1>6. CASE c_isidle[c] \/ runqueue[c] = <<>>
  <2>1. UNCHANGED <<curthread, runqueue, c_isidle, zombies, t_state>>
    BY <1>2, <1>6 DEF Yield
  <2>2. PICK n : /\ n = NoMig /\ n \in Mig /\ n.phase = "none" /\ n.victims = <<>>
                 /\ n = [NoMig EXCEPT !.phase = n.phase]
    <3>1. "none" \in Phase /\ NoMig = [NoMig EXCEPT !.phase = "none"]
      BY DEF Phase, NoMig
    <3> QED BY <3>1, NoMigIs
  <2>3. mig'[c] = n /\ \A d \in CPU \ {c} : mig'[d] = mig[d]
    BY <2>2, <1>1, <1>2 DEF TypeOK
  <2>4. \A d \in CPU : mig'[d].victims = mig[d].victims
    BY SMTT(40), <2>2, <2>3, <1>3
  <2>5. TypeOK'
    <3>1. mig' \in [CPU -> Mig]
      BY <2>2, <1>1, <1>2 DEF TypeOK, Mig
    <3> QED BY Zenon, <3>1, <2>1, <1>1, <1>2, <1>4 DEF TypeOK, Mig
  <2>6. Tiles(Content, Lives)'
    BY SMTT(40), <2>1, <2>4, <1>1, <1>2, NothingMoves
  <2>7. Once' /\ Home'
    BY <2>1, <2>4, <1>1, <1>2 DEF Once, Home
  <2>8. Migrating'
    <3>1. MigSound(c, n, runqueue[c], waking[c])
      BY <2>2 DEF MigSound
    <3> QED BY SMTT(40), <3>1, <2>1, <2>3, <1>1, <1>2 DEF Migrating
  <2>9. Rouses'
    BY Zenon, <2>1, <2>3, <1>1, <1>2, <1>3, <1>4, <1>6 DEF Rouses, NoLostWakeup
  <2> QED BY <2>5, <2>6, <2>7, <2>8, <2>9 DEF ThreadsInv
<1> QED BY <1>5, <1>6

(* The idle loop, which looks at its queue again after an interrupt.       *)
LEMMA IdleKeeps ==
  ASSUME ThreadsInv, NEW c \in CPU, cpu_idle(c)
  PROVE  ThreadsInv'
<1>1. TypeOK /\ Tiles(Content, Lives) /\ Once /\ Home /\ Migrating /\ Rouses
  BY DEF ThreadsInv
<1>2. /\ mig[c].phase = "none" /\ waking[c] = <<>> /\ c_isidle[c]
      /\ woken' = [woken EXCEPT ![c] = FALSE]
      /\ Switch(c, runqueue[c], zombies[c], t_state)
      /\ UNCHANGED <<irq, waking, mig, wc_threads, t_cpu, newthread>>
  BY DEF cpu_idle, Free
<1>3. mig[c].victims = <<>> /\ mig' = [mig EXCEPT ![c] = NoMig]
  BY <1>1, <1>2, FreeMig
<1>4. Placed(Content, c, runqueue[c], zombies[c], t_state)
  <2>1. /\ runqueue[c] \in Seq(Thread) /\ NoRepeats(runqueue[c]) /\ zombies[c] \in SUBSET Thread
        /\ t_state \in [Thread -> State]
    BY Zenon, <1>1 DEF TypeOK, Once, State
  <2>2. Tiles(Content, {t \in Thread : t_state[t] # "none"}) /\ Content = [x \in Container |-> Content[x]]
    BY <1>1, ContentIs DEF Lives
  <2>3. /\ Content[<<"running", c>>] = {} /\ Content[<<"runqueue", c>>] = Elems(runqueue[c])
        /\ Content[<<"zombie", c>>] = zombies[c]
        /\ Content[<<"waking", c>>] = {} /\ Content[<<"victim", c>>] = {}
    BY Zenon, <1>2, <1>3, ContentIs, ElemsEmpty DEF HoldsOnCPU
  <2>4. /\ \A d \in CPU \ {c} : HoldsOnCPU(Content, d, curthread, c_isidle, runqueue, waking, mig, zombies)
        /\ \A p \in Thread : Content[<<"new", p>>] = {newthread[p]} \ {Null}
    BY ContentIs
  <2>5. /\ \A d \in CPU : t_state[curthread[d]] # "none"
        /\ Belong(c, Elems(runqueue[c]), t_cpu) /\ Belong(c, zombies[c], t_cpu)
    BY <1>1 DEF Home, OnStack
  <2> QED BY Zenon, <2>1, <2>2, <2>3, <2>4, <2>5 DEF Placed
<1>5. \A w \in WChan : NoRepeats(wc_threads'[w]) /\ Content[<<"wchan", w>>] = Elems(wc_threads'[w])
  BY ZenonT(60), <1>1, <1>2, ContentIs DEF Once
<1>6. /\ woken' \in [CPU -> BOOLEAN] /\ \A d \in CPU \ {c} : woken'[d] = woken[d]
      /\ wc_threads' \in [WChan -> Seq(Thread)]
  BY Zenon, <1>1, <1>2 DEF TypeOK
<1> QED BY ZenonT(60), <1>2, <1>3, <1>4, <1>5, <1>6, SwitchKeeps

(* Each processor starts with the thread it was booted with, and nothing   *)
(* else exists.                                                            *)
LEMMA InitKeeps == Init => ThreadsInv
<1> SUFFICES ASSUME Init PROVE ThreadsInv
  OBVIOUS
<1>1. Boot \in [CPU -> Thread] /\ \A c, d \in CPU : Boot[c] = Boot[d] => c = d
  <2>1. Boot \in OneEach
    BY ThreadsAssumption DEF Boot
  <2> QED BY <2>1 DEF OneEach
<1>2. PICK n : /\ n = NoMig /\ n \in Mig /\ n.phase = "none" /\ n.victims = <<>>
               /\ n = [NoMig EXCEPT !.phase = n.phase]
  <2>1. "none" \in Phase /\ NoMig = [NoMig EXCEPT !.phase = "none"]
    BY DEF Phase, NoMig
  <2> QED BY <2>1, NoMigIs
<1>3. \A c \in CPU : /\ curthread[c] = Boot[c] /\ ~c_isidle[c] /\ ~irq[c] /\ ~woken[c]
                     /\ runqueue[c] = <<>> /\ waking[c] = <<>> /\ zombies[c] = {} /\ mig[c] = n
                     /\ mig[c].victims = <<>>
  BY <1>2 DEF Init
<1>4. /\ \A w \in WChan : wc_threads[w] = <<>>
      /\ \A t \in Thread : newthread[t] = Null
      /\ \A t \in Thread : t_state[t] = IF \E c \in CPU : Boot[c] = t THEN "S_RUN" ELSE "none"
      /\ \A c \in CPU : t_cpu[Boot[c]] = c
  <2>1. \A t \in Thread : t_cpu[t] = IF \E c \in CPU : Boot[c] = t
                                     THEN CHOOSE c \in CPU : Boot[c] = t ELSE 0
    BY DEF Init
  <2>2. ASSUME NEW c \in CPU PROVE t_cpu[Boot[c]] = c
    <3>1. PICK d : d = CHOOSE e \in CPU : Boot[e] = Boot[c]
      OBVIOUS
    <3>2. d \in CPU /\ Boot[d] = Boot[c]
      BY <3>1
    <3>3. Boot[c] \in Thread
      BY <1>1
    <3>4. t_cpu[Boot[c]] = d
      BY <2>1, <3>1, <3>3
    <3> QED BY <3>2, <3>4, <1>1
  <2> QED BY <2>2 DEF Init
<1>5. TypeOK
  <2>1. /\ curthread \in [CPU -> Thread] /\ runqueue \in [CPU -> Seq(Thread)]
        /\ waking \in [CPU -> Seq(Thread)] /\ zombies \in [CPU -> SUBSET Thread]
        /\ wc_threads \in [WChan -> Seq(Thread)] /\ newthread \in [Thread -> Thread \cup {Null}]
        /\ t_state \in [Thread -> {"none", "S_READY", "S_RUN", "S_SLEEP", "S_ZOMBIE"}]
    BY <1>1 DEF Init
  <2>2. c_isidle \in [CPU -> BOOLEAN] /\ irq \in [CPU -> BOOLEAN] /\ woken \in [CPU -> BOOLEAN]
    BY DEF Init
  <2>3. mig \in [CPU -> Mig]
    BY <1>2 DEF Init
  <2>4. t_cpu \in [Thread -> CPU]
    <3>1. 0 \in CPU
      BY ThreadsAssumption DEF CPU
    <3>2. \A t \in Thread : (IF \E c \in CPU : Boot[c] = t
                             THEN CHOOSE c \in CPU : Boot[c] = t ELSE 0) \in CPU
      BY <3>1
    <3> QED BY <3>2 DEF Init
  <2> QED BY ZenonT(60), <2>1, <2>2, <2>3, <2>4 DEF TypeOK, Mig
<1>6. Tiles(Content, Lives)
  <2>1. /\ \A c \in CPU : /\ Content[<<"running", c>>] = {Boot[c]} /\ Content[<<"runqueue", c>>] = {}
                          /\ Content[<<"waking", c>>] = {} /\ Content[<<"victim", c>>] = {}
                          /\ Content[<<"zombie", c>>] = {}
        /\ \A w \in WChan : Content[<<"wchan", w>>] = {}
        /\ \A p \in Thread : Content[<<"new", p>>] = {}
    <3>1. ASSUME NEW c \in CPU
          PROVE  /\ Content[<<"running", c>>] = {Boot[c]} /\ Content[<<"runqueue", c>>] = {}
                 /\ Content[<<"waking", c>>] = {} /\ Content[<<"victim", c>>] = {}
                 /\ Content[<<"zombie", c>>] = {}
      <4>1. HoldsOnCPU(Content, c, curthread, c_isidle, runqueue, waking, mig, zombies)
        BY ContentIs
      <4> QED BY <4>1, <1>3, ElemsEmpty DEF HoldsOnCPU
    <3>2. ASSUME NEW w \in WChan PROVE Content[<<"wchan", w>>] = {}
      <4>1. Content[<<"wchan", w>>] = Elems(wc_threads[w])
        BY ContentIs
      <4> QED BY <4>1, <1>4, ElemsEmpty
    <3>3. ASSUME NEW p \in Thread PROVE Content[<<"new", p>>] = {}
      <4>1. Content[<<"new", p>>] = {newthread[p]} \ {Null}
        BY ContentIs
      <4> QED BY <4>1, <1>4
    <3> QED BY <3>1, <3>2, <3>3
  <2>2. ASSUME NEW x \in Container
        PROVE  \/ Content[x] = {}
               \/ \E c \in CPU : x = <<"running", c>> /\ Content[x] = {Boot[c]}
    <3>1. \/ \E k \in {"running", "runqueue", "waking", "victim", "zombie"}, c \in CPU : x = <<k, c>>
          \/ \E w \in WChan : x = <<"wchan", w>>
          \/ \E p \in Thread : x = <<"new", p>>
      BY ContainerIs
    <3>2. ASSUME NEW k \in {"running", "runqueue", "waking", "victim", "zombie"}, NEW c \in CPU,
                 x = <<k, c>>
          PROVE  Content[x] = {} \/ (x = <<"running", c>> /\ Content[x] = {Boot[c]})
      <4>1. /\ Content[<<"running", c>>] = {Boot[c]} /\ Content[<<"runqueue", c>>] = {}
            /\ Content[<<"waking", c>>] = {} /\ Content[<<"victim", c>>] = {}
            /\ Content[<<"zombie", c>>] = {}
        BY <2>1
      <4> QED BY <4>1, <3>2
    <3>3. ASSUME NEW w \in WChan, x = <<"wchan", w>> PROVE Content[x] = {}
      BY <2>1, <3>3
    <3>4. ASSUME NEW p \in Thread, x = <<"new", p>> PROVE Content[x] = {}
      BY <2>1, <3>4
    <3> QED BY <3>1, <3>2, <3>3, <3>4
  <2>3. Content \in [Container -> SUBSET Thread]
    <3>1. \A x \in Container : Content[x] \in SUBSET Thread
      BY <2>2, <1>1
    <3> QED BY <3>1, ContentIs
  <2>4. \A x, y \in Container : \A t \in Thread : t \in Content[x] /\ t \in Content[y] => x = y
    BY <2>2, <1>1
  <2>5. ASSUME NEW t \in Thread
        PROVE  t \in Lives <=> \E x \in Container : t \in Content[x]
    <3>1. t \in Lives <=> \E c \in CPU : Boot[c] = t
      BY <1>4 DEF Lives
    <3>2. (\E x \in Container : t \in Content[x]) => \E c \in CPU : Boot[c] = t
      BY <2>2
    <3>3. (\E c \in CPU : Boot[c] = t) => \E x \in Container : t \in Content[x]
      BY Zenon, <2>1, ContainerNames
    <3> QED BY <3>1, <3>2, <3>3
  <2> QED BY <2>3, <2>4, <2>5 DEF Tiles
<1>7. Once
  BY <1>3, <1>4, ElemsEmpty DEF Once
<1>8. Home
  <2>1. ASSUME NEW c \in CPU
        PROVE  OnStack(c, curthread[c], t_cpu, t_state, newthread)
    <3>1. Boot[c] \in Thread /\ t_state[Boot[c]] = "S_RUN"
      BY <1>1, <1>4
    <3> QED BY <3>1, <1>3, <1>4, ThreadsAssumption DEF OnStack
  <2>2. \A c \in CPU : Belong(c, Elems(<<>>), t_cpu) /\ Belong(c, {}, t_cpu)
    BY ElemsEmpty DEF Belong
  <2> QED BY ZenonT(60), <2>1, <2>2, <1>3 DEF Home
<1>9. Migrating
  <2>1. \A c \in CPU : MigSound(c, n, <<>>, <<>>)
    BY <1>2 DEF MigSound
  <2> QED BY <2>1, <1>3 DEF Migrating
<1>10. Rouses
  BY <1>3 DEF Rouses, NoLostWakeup
<1> QED BY <1>5, <1>6, <1>7, <1>8, <1>9, <1>10 DEF ThreadsInv

(* Every step preserves the invariant.                                     *)
LEMMA NextKeeps == ThreadsInv /\ [Next]_vars => ThreadsInv'
<1> SUFFICES ASSUME ThreadsInv, [Next]_vars PROVE ThreadsInv'
  OBVIOUS
<1>1. CASE UNCHANGED vars
  <2>1. UNCHANGED <<curthread, c_isidle, irq, woken, runqueue, zombies, waking, mig,
                    wc_threads, t_cpu, t_state, newthread>>
    BY <1>1 DEF vars
  <2>2. TypeOK /\ Tiles(Content, Lives) /\ Once /\ Home /\ Migrating /\ Rouses
    BY DEF ThreadsInv
  <2>3. Tiles(Content, Lives)'
    BY <2>1, <2>2, NothingMoves
  <2>4. TypeOK'
    BY <2>1, <2>2 DEF TypeOK
  <2>5. Once' /\ Home' /\ Migrating' /\ Rouses'
    BY <2>1, <2>2 DEF Once, Home, Migrating, Rouses, NoLostWakeup
  <2> QED BY <2>3, <2>4, <2>5 DEF ThreadsInv
<1>2. ASSUME NEW c \in CPU, NEW t \in Thread, thread_create(c, t) PROVE ThreadsInv'
  BY <1>2, CreateKeeps
<1>3. ASSUME NEW c \in CPU, NEW w \in WChan,
             wchan_sleep(c, w) \/ wchan_wakeone(c, w) \/ wchan_wakeall(c, w)
      PROVE  ThreadsInv'
  <2>1. CASE wchan_sleep(c, w)
    BY <2>1, SleepKeeps
  <2>2. ASSUME wc_threads[w] # <<>> PROVE 1 \in 1 .. Len(wc_threads[w]) /\ Len(wc_threads[w]) \in 1 .. Len(wc_threads[w])
    <3>1. wc_threads[w] \in Seq(Thread)
      BY DEF ThreadsInv, TypeOK
    <3>2. Len(wc_threads[w]) \in Nat \ {0}
      BY <2>2, <3>1, NoneIs
    <3> QED BY <3>2
  <2>3. CASE wchan_wakeone(c, w)
    BY <2>2, <2>3, WakeKeeps DEF wchan_wakeone
  <2>4. CASE wchan_wakeall(c, w)
    BY <2>2, <2>4, WakeKeeps DEF wchan_wakeall
  <2> QED BY <1>3, <2>1, <2>3, <2>4
<1>4. ASSUME NEW c \in CPU,
             \/ thread_fork(c) \/ thread_fork_fails(c) \/ thread_yield(c) \/ thread_exit(c)
             \/ wchan_wake_next(c) \/ interprocessor_interrupt(c) \/ cpu_idle(c)
      PROVE  ThreadsInv'
  BY <1>4, ForkKeeps, ForkFailsKeeps, YieldKeeps, ExitKeeps, WakeNextKeeps, InterruptKeeps, IdleKeeps
<1>5. ASSUME NEW c \in CPU,
             \/ hardclock(c) \/ hardclock_ends(c) \/ count_runqueue(c)
             \/ pull_victims(c) \/ send_victims(c) \/ return_victims(c)
      PROVE  ThreadsInv'
  BY <1>5, ClockKeeps, ClockEndsKeeps, CountKeeps, PullKeeps, SendKeeps, ReturnKeeps
<1> QED BY <1>1, <1>2, <1>3, <1>4, <1>5 DEF Next

-----------------------------------------------------------------------------
(* From containers to places.                                              *)

LEMMA OnePlace ==
  ASSUME ThreadsInv, NEW t \in Thread, NEW x \in Container, t \in Content[x]
  PROVE  \E y : Places(t) = {y}
<1>1. TypeOK /\ Tiles(Content, Lives) /\ Once
  BY DEF ThreadsInv
<1>2. \A z \in Container : t \in Content[z] <=> z = x
  BY <1>1 DEF Tiles
<1>3. \A c \in CPU :
        /\ (~c_isidle[c] /\ curthread[c] = t) <=> x = <<"running", c>>
        /\ t \in Elems(runqueue[c]) <=> x = <<"runqueue", c>>
        /\ t \in Elems(waking[c]) <=> x = <<"waking", c>>
        /\ t \in Elems(mig[c].victims) <=> x = <<"victim", c>>
        /\ t \in zombies[c] <=> x = <<"zombie", c>>
  <2>1. ASSUME NEW c \in CPU
        PROVE  /\ t \in Content[<<"running", c>>] <=> x = <<"running", c>>
               /\ t \in Content[<<"runqueue", c>>] <=> x = <<"runqueue", c>>
               /\ t \in Content[<<"waking", c>>] <=> x = <<"waking", c>>
               /\ t \in Content[<<"victim", c>>] <=> x = <<"victim", c>>
               /\ t \in Content[<<"zombie", c>>] <=> x = <<"zombie", c>>
    BY <1>2, ContainerNames
  <2> QED BY Zenon, <2>1, ContentIs DEF HoldsOnCPU
<1>4. \A w \in WChan : t \in Elems(wc_threads[w]) <=> x = <<"wchan", w>>
  BY Zenon, <1>2, ContainerNames, ContentIs
<1>5. \A p \in Thread : newthread[p] = t <=> x = <<"new", p>>
  <2>1. \A p \in Thread : t \in Content[<<"new", p>>] <=> x = <<"new", p>>
    BY Zenon, <1>2, ContainerNames
  <2>2. \A p \in Thread : Content[<<"new", p>>] = {newthread[p]} \ {Null}
    BY ContentIs
  <2>3. \A p \in Thread : t \in Content[<<"new", p>>] <=> newthread[p] = t
    BY <2>2, ThreadsAssumption
  <2> QED BY Zenon, <2>1, <2>3
<1>6. \A s : At(s, t) # {} <=> t \in Elems(s)
  BY DEF At, Elems
<1>7. \A s : NoRepeats(s) /\ t \in Elems(s) => \E k : At(s, t) = {k}
  <2>1. ASSUME NEW s, NoRepeats(s), t \in Elems(s) PROVE \E k : At(s, t) = {k}
    <3>1. PICK k \in 1 .. Len(s) : s[k] = t
      BY <2>1 DEF Elems
    <3>2. At(s, t) = {k}
      BY <2>1, <3>1 DEF At, NoRepeats
    <3> QED BY Zenon, <3>2
  <2> QED BY Zenon, <2>1
<1>8. Places(t) = Runs(t) \cup Queues(t) \cup Wakes(t) \cup Victims(t)
                  \cup Sleeps(t) \cup Dies(t) \cup Starts(t)
  BY DEF Places
<1>9. PICK R, Q, W, V, C, Z, N :
        /\ R = Runs(t) /\ Q = Queues(t) /\ W = Wakes(t) /\ V = Victims(t)
        /\ C = Sleeps(t) /\ Z = Dies(t) /\ N = Starts(t)
        /\ Places(t) = R \cup Q \cup W \cup V \cup C \cup Z \cup N
  BY <1>8
<1>10. /\ (\A c \in CPU : x # <<"running", c>>) => R = {}
       /\ (\A c \in CPU : x # <<"runqueue", c>>) => Q = {}
       /\ (\A c \in CPU : x # <<"waking", c>>) => W = {}
       /\ (\A c \in CPU : x # <<"victim", c>>) => V = {}
       /\ (\A w \in WChan : x # <<"wchan", w>>) => C = {}
       /\ (\A c \in CPU : x # <<"zombie", c>>) => Z = {}
       /\ (\A p \in Thread : x # <<"new", p>>) => N = {}
  <2>1. /\ (\A c \in CPU : x # <<"running", c>>) => R = {}
        /\ (\A c \in CPU : x # <<"zombie", c>>) => Z = {}
        /\ (\A p \in Thread : x # <<"new", p>>) => N = {}
    BY <1>3, <1>5, <1>9 DEF Runs, Dies, Starts
  <2>2. (\A c \in CPU : x # <<"runqueue", c>>) => Q = {}
    BY <1>3, <1>6, <1>9 DEF Queues
  <2>3. (\A c \in CPU : x # <<"waking", c>>) => W = {}
    BY <1>3, <1>6, <1>9 DEF Wakes
  <2>4. (\A c \in CPU : x # <<"victim", c>>) => V = {}
    BY <1>3, <1>6, <1>9 DEF Victims
  <2>5. (\A w \in WChan : x # <<"wchan", w>>) => C = {}
    BY <1>4, <1>6, <1>9 DEF Sleeps
  <2> QED BY SMTT(40), <2>1, <2>2, <2>3, <2>4, <2>5
<1>11. ASSUME NEW c \in CPU, x = <<"running", c>> PROVE R = {<<"running", c>>}
  BY <1>3, <1>9, <1>11 DEF Runs
<1>12. ASSUME NEW c \in CPU, x = <<"runqueue", c>> PROVE \E y : Q = {y}
  <2>1. PICK k : At(runqueue[c], t) = {k}
    BY Zenon, <1>1, <1>3, <1>7, <1>12 DEF Once
  <2>2. \A d \in CPU \ {c} : At(runqueue[d], t) = {}
    BY <1>3, <1>6, <1>12
  <2>3. Q = {<<"runqueue", c, k>>}
    BY <2>1, <2>2, <1>9 DEF Queues
  <2> QED BY Zenon, <2>3
<1>13. ASSUME NEW c \in CPU, x = <<"waking", c>> PROVE \E y : W = {y}
  <2>1. PICK k : At(waking[c], t) = {k}
    BY Zenon, <1>1, <1>3, <1>7, <1>13 DEF Once
  <2>2. \A d \in CPU \ {c} : At(waking[d], t) = {}
    BY <1>3, <1>6, <1>13
  <2>3. W = {<<"waking", c, k>>}
    BY <2>1, <2>2, <1>9 DEF Wakes
  <2> QED BY Zenon, <2>3
<1>14. ASSUME NEW c \in CPU, x = <<"victim", c>> PROVE \E y : V = {y}
  <2>1. PICK k : At(mig[c].victims, t) = {k}
    BY Zenon, <1>1, <1>3, <1>7, <1>14 DEF Once
  <2>2. \A d \in CPU \ {c} : At(mig[d].victims, t) = {}
    BY <1>3, <1>6, <1>14
  <2>3. V = {<<"victim", c, k>>}
    BY <2>1, <2>2, <1>9 DEF Victims
  <2> QED BY Zenon, <2>3
<1>15. ASSUME NEW w \in WChan, x = <<"wchan", w>> PROVE \E y : C = {y}
  <2>1. PICK k : At(wc_threads[w], t) = {k}
    BY ZenonT(60), <1>1, <1>4, <1>7, <1>15 DEF Once
  <2>2. \A v \in WChan \ {w} : At(wc_threads[v], t) = {}
    BY <1>4, <1>6, <1>15
  <2>3. C = {<<"wchan", w, k>>}
    BY <2>1, <2>2, <1>9 DEF Sleeps
  <2> QED BY Zenon, <2>3
<1>16. ASSUME NEW c \in CPU, x = <<"zombie", c>> PROVE Z = {<<"zombie", c>>}
  BY <1>3, <1>9, <1>16 DEF Dies
<1>17. ASSUME NEW p \in Thread, x = <<"new", p>> PROVE N = {<<"new", p>>}
  BY <1>5, <1>9, <1>17 DEF Starts
<1>18. \/ \E k \in {"running", "runqueue", "waking", "victim", "zombie"}, c \in CPU : x = <<k, c>>
       \/ \E w \in WChan : x = <<"wchan", w>>
       \/ \E p \in Thread : x = <<"new", p>>
  BY ContainerIs
<1>19. ASSUME NEW k \in {"running", "runqueue", "waking", "victim", "zombie"}, NEW c \in CPU, x = <<k, c>>
       PROVE  \E y : Places(t) = {y}
  <2>1. CASE k = "running"
    BY <2>1, <1>9, <1>10, <1>11, <1>19
  <2>2. CASE k = "runqueue"
    BY Zenon, <2>2, <1>9, <1>10, <1>12, <1>19
  <2>3. CASE k = "waking"
    BY Zenon, <2>3, <1>9, <1>10, <1>13, <1>19
  <2>4. CASE k = "victim"
    BY SMTT(40), <2>4, <1>9, <1>10, <1>14, <1>19
  <2>5. CASE k = "zombie"
    BY SMTT(40), <2>5, <1>9, <1>10, <1>16, <1>19
  <2> QED BY ZenonT(60), <2>1, <2>2, <2>3, <2>4, <2>5
<1>20. ASSUME NEW w \in WChan, x = <<"wchan", w>> PROVE \E y : Places(t) = {y}
  BY <1>9, <1>10, <1>15, <1>20
<1>21. ASSUME NEW p \in Thread, x = <<"new", p>> PROVE \E y : Places(t) = {y}
  BY <1>9, <1>10, <1>17, <1>21
<1> QED BY Zenon, <1>18, <1>19, <1>20, <1>21

(* A thread that does not exist is nowhere.                                *)
LEMMA NoPlace ==
  ASSUME ThreadsInv, NEW t \in Thread, t_state[t] = "none"
  PROVE  Places(t) = {}
<1>1. Tiles(Content, Lives)
  BY DEF ThreadsInv
<1>2. \A x \in Container : t \notin Content[x]
  BY <1>1 DEF Tiles, Lives
<1>3. ASSUME NEW c \in CPU
      PROVE  /\ ~(~c_isidle[c] /\ curthread[c] = t) /\ t \notin Elems(runqueue[c])
             /\ t \notin Elems(waking[c]) /\ t \notin Elems(mig[c].victims) /\ t \notin zombies[c]
  <2>1. /\ t \notin Content[<<"running", c>>] /\ t \notin Content[<<"runqueue", c>>]
        /\ t \notin Content[<<"waking", c>>] /\ t \notin Content[<<"victim", c>>]
        /\ t \notin Content[<<"zombie", c>>]
    BY <1>2, ContainerNames
  <2>2. HoldsOnCPU(Content, c, curthread, c_isidle, runqueue, waking, mig, zombies)
    BY ContentIs
  <2> QED BY <2>1, <2>2 DEF HoldsOnCPU
<1>4. \A w \in WChan : t \notin Elems(wc_threads[w])
  BY Zenon, <1>2, ContainerNames, ContentIs
<1>5. \A p \in Thread : newthread[p] # t
  <2>1. \A p \in Thread : t \notin Content[<<"new", p>>]
    BY Zenon, <1>2, ContainerNames
  <2> QED BY Zenon, <2>1, ContentIs, ThreadsAssumption
<1>6. \A s : t \notin Elems(s) => At(s, t) = {}
  BY DEF At, Elems
<1>7. Runs(t) = {} /\ Dies(t) = {} /\ Starts(t) = {}
  BY <1>3, <1>5 DEF Runs, Dies, Starts
<1>8. Queues(t) = {}
  BY <1>3, <1>6 DEF Queues
<1>9. Wakes(t) = {}
  BY <1>3, <1>6 DEF Wakes
<1>10. Victims(t) = {}
  BY <1>3, <1>6 DEF Victims
<1>11. Sleeps(t) = {}
  BY <1>4, <1>6 DEF Sleeps
<1>12. Places(t) = Runs(t) \cup Queues(t) \cup Wakes(t) \cup Victims(t)
                   \cup Sleeps(t) \cup Dies(t) \cup Starts(t)
  BY DEF Places
<1> QED BY <1>7, <1>8, <1>9, <1>10, <1>11, <1>12

(* The invariant implies that threads are kept ...                         *)
LEMMA InvKept == ThreadsInv => ThreadsKept
<1> SUFFICES ASSUME ThreadsInv PROVE ThreadsKept
  OBVIOUS
<1>1. TypeOK /\ Tiles(Content, Lives) /\ Migrating /\ Rouses
  BY DEF ThreadsInv
<1>2. \A t \in Thread : t_state[t] = "none" => Places(t) = {}
  BY NoPlace
<1>3. ASSUME NEW t \in Thread, t_state[t] # "none"
      PROVE  \E y \in Places(t) : Places(t) = {y}
  <2>1. PICK x \in Container : t \in Content[x]
    BY <1>1, <1>3 DEF Tiles, Lives
  <2>2. \E y : Places(t) = {y}
    BY <2>1, OnePlace
  <2> QED BY <2>2
<1>4. ThreadInOnePlace
  BY <1>2, <1>3 DEF ThreadInOnePlace
<1>5. MigrationFindsThreads
  <2>1. \A c \in CPU : MigSound(c, mig[c], runqueue[c], waking[c])
    BY <1>1 DEF Migrating
  <2> QED BY Zenon, <2>1 DEF MigSound, MigrationFindsThreads
<1> QED BY <1>1, <1>4, <1>5 DEF ThreadsKept, Rouses

(* ... and that stacks are apart.                                          *)
LEMMA InvStacks == ThreadsInv => StacksExclusive
<1> SUFFICES ASSUME ThreadsInv PROVE StacksExclusive
  OBVIOUS
<1>1. \A c \in CPU : t_cpu[curthread[c]] = c /\ t_state[curthread[c]] # "none"
  BY DEF ThreadsInv, Home, OnStack
<1> QED BY <1>1 DEF StacksExclusive

-----------------------------------------------------------------------------
(* thread_make_runnable, thread_switch, thread_exit, exorcise, the wait    *)
(* channels and thread_consider_migration hand every thread from one list  *)
(* to the next: whatever the number of processors and threads, and however *)
(* their steps interleave, no thread is lost, doubled, freed in use or     *)
(* left in the queue of a processor that sleeps, and migration finds the   *)
(* threads that it counted.                                                *)
THEOREM ThreadsSafe == Spec => []ThreadsKept
<1>1. Init => ThreadsInv
  BY InitKeeps
<1>2. ThreadsInv /\ [Next]_vars => ThreadsInv'
  BY NextKeeps
<1>3. ThreadsInv => ThreadsKept
  BY InvKept
<1> QED BY <1>1, <1>2, <1>3, PTL DEF Spec

(* thread_switch leaves an idle processor on the stack of the thread that  *)
(* went to sleep or died; no other processor runs that thread meanwhile,   *)
(* for it is queued on the processor it belongs to, thread_consider_       *)
(* migration passes over the thread it runs on, and exorcise frees only    *)
(* the zombies of its own processor.                                       *)
THEOREM StacksSafe == Spec => []StacksExclusive
<1>1. Init => ThreadsInv
  BY InitKeeps
<1>2. ThreadsInv /\ [Next]_vars => ThreadsInv'
  BY NextKeeps
<1>3. ThreadsInv => StacksExclusive
  BY InvStacks
<1> QED BY <1>1, <1>2, <1>3, PTL DEF Spec

=============================================================================
