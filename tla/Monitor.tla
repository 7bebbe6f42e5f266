------------------------------ MODULE Monitor -------------------------------
(***************************************************************************)
(* What locks and condition variables promise: a lock has one holder, and  *)
(* to wait is to give up the lock and to join the waiters in one step, so  *)
(* that no signal falls in between.  Who is let in next is open.           *)
(***************************************************************************)
EXTENDS Integers

CONSTANTS Thread, Lock, CV, Nobody

VARIABLES holder,    \* per lock
          waiters,   \* per condition variable: threads no signal has reached
          signals    \* per condition variable: signals sent, modulo two

vars == <<holder, waiters, signals>>

Init ==
  /\ holder = [l \in Lock |-> Nobody]
  /\ waiters = [c \in CV |-> {}] /\ signals = [c \in CV |-> 0]

Waiting(t) == \E c \in CV : t \in waiters[c]

Acquire(t, l) ==
  /\ holder[l] = Nobody /\ ~Waiting(t)
  /\ holder' = [holder EXCEPT ![l] = t]
  /\ UNCHANGED <<waiters, signals>>

Release(t, l) ==
  /\ holder[l] = t /\ ~Waiting(t)
  /\ holder' = [holder EXCEPT ![l] = Nobody]
  /\ UNCHANGED <<waiters, signals>>

Wait(t, l, c) ==
  /\ holder[l] = t /\ ~Waiting(t)
  /\ holder' = [holder EXCEPT ![l] = Nobody]
  /\ waiters' = [waiters EXCEPT ![c] = @ \cup {t}]
  /\ UNCHANGED signals

Sends(c) == signals' = [signals EXCEPT ![c] = 1 - @]

Signal(c) ==
  /\ Sends(c)
  /\ \/ waiters[c] = {} /\ UNCHANGED waiters
     \/ \E t \in waiters[c] : waiters' = [waiters EXCEPT ![c] = @ \ {t}]
  /\ UNCHANGED holder

Broadcast(c) ==
  /\ Sends(c)
  /\ waiters' = [waiters EXCEPT ![c] = {}]
  /\ UNCHANGED holder

Next ==
  \/ \E t \in Thread, l \in Lock : \/ Acquire(t, l) \/ Release(t, l)
                                   \/ \E c \in CV : Wait(t, l, c)
  \/ \E c \in CV : Signal(c) \/ Broadcast(c)

Spec == Init /\ [][Next]_vars
=============================================================================
