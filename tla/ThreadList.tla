----------------------------- MODULE ThreadList -----------------------------
(***************************************************************************)
(* The kernel's lists of threads: rings of nodes between two bookends.     *)
(* The operations are called in any order their callers may, on two        *)
(* lists, and by the kernel's own test.                                    *)
(***************************************************************************)
EXTENDS Integers, SequencesExt

CONSTANTS Lists,         \* numbers of lists
          Movers,        \* the threads the free calls move
          MaxOps         \* free calls after which the machine stops

NUMNAMES == 7
Fake == 1..NUMNAMES      \* the threads; the test's names are in this order
NULL == 0
tl_head(l) == 100 + l
tl_tail(l) == 200 + l
Node == Fake \union {tl_head(l) : l \in Lists} \union {tl_tail(l) : l \in Lists}
tln_self(n) == IF n \in Fake THEN n ELSE NULL

VARIABLES tl,       \* next and prev of the nodes and tl_count of the lists
          order,    \* what the lists should hold
          test,     \* what is left of the test, if it is it that runs
          ops, panic
vars == <<tl, order, test, ops, panic>>

threadlistnode_init(s, t) == [s EXCEPT !.next[t] = NULL, !.prev[t] = NULL]

threadlist_init(s, l) ==
  [s EXCEPT !.next[tl_head(l)] = tl_tail(l), !.prev[tl_head(l)] = NULL,
            !.next[tl_tail(l)] = NULL, !.prev[tl_tail(l)] = tl_head(l), !.count[l] = 0]

threadlist_isempty(s, l) == s.count[l] = 0

\* Mutant: the node after the new one still points back over it.
HalfInsert(s, onlist, t) ==
  LET after == s.next[onlist]
  IN  [s EXCEPT !.prev[t] = onlist, !.next = [@ EXCEPT ![t] = after, ![onlist] = t]]

threadlist_insertafternode(s, onlist, t) ==
  LET after == s.next[onlist]
  IN  [s EXCEPT !.prev = [@ EXCEPT ![t] = onlist, ![after] = t],
                !.next = [@ EXCEPT ![t] = after, ![onlist] = t]]

threadlist_insertbeforenode(s, t, onlist) ==
  LET before == s.prev[onlist]
  IN  [s EXCEPT !.prev = [@ EXCEPT ![t] = before, ![onlist] = t],
                !.next = [@ EXCEPT ![t] = onlist, ![before] = t]]

threadlist_removenode(s, t) ==
  [s EXCEPT !.next = [@ EXCEPT ![s.prev[t]] = s.next[t], ![t] = NULL],
            !.prev = [@ EXCEPT ![s.next[t]] = s.prev[t], ![t] = NULL]]

Counted(s, l, n) == [s EXCEPT !.count[l] = @ + n]
threadlist_addhead(s, l, t) == Counted(threadlist_insertafternode(s, tl_head(l), t), l, 1)
threadlist_addtail(s, l, t) == Counted(threadlist_insertbeforenode(s, t, tl_tail(l)), l, 1)
threadlist_insertafter(s, l, on, t)  == Counted(threadlist_insertafternode(s, on, t), l, 1)
threadlist_insertbefore(s, l, t, on) == Counted(threadlist_insertbeforenode(s, t, on), l, 1)
threadlist_remove(s, l, t) == Counted(threadlist_removenode(s, t), l, 0 - 1)
threadlist_remhead(s, l) ==
  LET n == s.next[tl_head(l)]
  IN  IF s.next[n] = NULL THEN [s |-> s, t |-> NULL]
      ELSE [s |-> threadlist_remove(s, l, n), t |-> tln_self(n)]
threadlist_remtail(s, l) ==
  LET n == s.prev[tl_tail(l)]
  IN  IF s.prev[n] = NULL THEN [s |-> s, t |-> NULL]
      ELSE [s |-> threadlist_remove(s, l, n), t |-> tln_self(n)]

\* The walks stop at the first node that is not a thread; they are cut off
\* where a broken ring would go round for ever.
Walk(link, from) ==
  LET w[i \in 0..(NUMNAMES + 1)] ==
        IF i = 0 THEN <<link[from]>>
        ELSE IF tln_self(Last(w[i - 1])) = NULL THEN w[i - 1]
        ELSE Append(w[i - 1], link[Last(w[i - 1])])
  IN  SelectSeq(w[NUMNAMES + 1], LAMBDA n : n \in Fake)
THREADLIST_FORALL(s, l)     == Walk(s.next, tl_head(l))
THREADLIST_FORALL_REV(s, l) == Walk(s.prev, tl_tail(l))

(***************************************************************************)
(* The test.  A step is a call and what the test asserts of it.            *)
(***************************************************************************)
Increasing(q) == \A i \in 1..(Len(q) - 1) : q[i] < q[i + 1]
check_order(s, l, rev) ==
  LET q == THREADLIST_FORALL(s, l) IN IF rev THEN Increasing(Reverse(q)) ELSE Increasing(q)

threadlisttest_a == << <<"init">>, <<"isempty">>, <<"cleanup">> >>
threadlisttest_b ==
  << <<"init">>, <<"addhead", 1>>, <<"order", FALSE>>, <<"order", TRUE>>, <<"count", 1>>,
     <<"remhead", 1>>, <<"count", 0>>,
     <<"addtail", 1>>, <<"order", FALSE>>, <<"order", TRUE>>, <<"count", 1>>,
     <<"remtail", 1>>, <<"count", 0>>, <<"cleanup">> >>
threadlisttest_c ==
  << <<"init">>, <<"addhead", 1>>, <<"addhead", 2>>, <<"count", 2>>, <<"order", TRUE>>,
     <<"remhead", 2>>, <<"remhead", 1>>, <<"count", 0>>,
     <<"addtail", 1>>, <<"addtail", 2>>, <<"count", 2>>, <<"order", FALSE>>,
     <<"remtail", 2>>, <<"remtail", 1>>, <<"count", 0>>, <<"cleanup">> >>
threadlisttest_d ==
  << <<"init">>, <<"addhead", 1>>, <<"addtail", 2>>, <<"count", 2>>, <<"order", FALSE>>,
     <<"remhead", 1>>, <<"remtail", 2>>, <<"count", 0>>,
     <<"addhead", 1>>, <<"addtail", 2>>, <<"count", 2>>, <<"order", FALSE>>,
     <<"remtail", 2>>, <<"remtail", 1>>, <<"count", 0>>, <<"cleanup">> >>
threadlisttest_e ==
  << <<"init">>, <<"addhead", 2>>, <<"addtail", 4>>, <<"count", 2>>, <<"order", FALSE>>,
     <<"insertafter", 4, 5>>, <<"count", 3>>, <<"order", FALSE>>,
     <<"insertbefore", 1, 2>>, <<"count", 4>>, <<"order", FALSE>>,
     <<"insertafter", 2, 3>>, <<"count", 5>>, <<"order", FALSE>>,
     <<"prev", 5, 4>>, <<"prev", 4, 3>>, <<"prev", 3, 2>>, <<"prev", 2, 1>> >>
  \o [i \in 1..5 |-> <<"remhead", i>>] \o << <<"count", 0>>, <<"cleanup">> >>
threadlisttest_f ==
  << <<"init">> >> \o [i \in Fake |-> <<"addtail", i>>] \o << <<"count", NUMNAMES>>, <<"forall">> >>
  \o [i \in Fake |-> <<"remhead", i>>] \o << <<"count", 0>> >>
threadlisttest ==
  [i \in Fake |-> <<"create", i>>] \o threadlisttest_a \o threadlisttest_b \o threadlisttest_c
  \o threadlisttest_d \o threadlisttest_e \o threadlisttest_f \o [i \in Fake |-> <<"destroy", i>>]

TestList == CHOOSE l \in Lists : TRUE
\* What a step of the test does to the list, and what it asserts before.
TestDo(s, c) ==
  LET l == TestList
  IN  CASE c[1] = "create"  -> threadlistnode_init(s, c[2])
        [] c[1] = "init"    -> threadlist_init(s, l)
        [] c[1] = "addhead" -> threadlist_addhead(s, l, c[2])
        [] c[1] = "addtail" -> threadlist_addtail(s, l, c[2])
        [] c[1] = "remhead" -> threadlist_remhead(s, l).s
        [] c[1] = "remtail" -> threadlist_remtail(s, l).s
        [] c[1] = "insertafter"  -> threadlist_insertafter(s, l, c[2], c[3])
        [] c[1] = "insertbefore" -> threadlist_insertbefore(s, l, c[2], c[3])
        [] OTHER -> s
KASSERT(s, c) ==
  LET l == TestList
  IN  CASE c[1] = "isempty" -> threadlist_isempty(s, l)
        [] c[1] = "cleanup" -> threadlist_isempty(s, l) /\ s.count[l] = 0
        [] c[1] = "order"   -> check_order(s, l, c[2])
        [] c[1] = "count"   -> s.count[l] = c[2]
        [] c[1] = "remhead" -> threadlist_remhead(s, l).t = c[2]
        [] c[1] = "remtail" -> threadlist_remtail(s, l).t = c[2]
        [] c[1] = "prev"    -> tln_self(s.prev[c[2]]) = c[3]
        [] c[1] = "forall"  -> /\ THREADLIST_FORALL(s, l) = [i \in Fake |-> i]
                               /\ THREADLIST_FORALL_REV(s, l) = [i \in Fake |-> NUMNAMES + 1 - i]
        [] c[1] = "destroy" -> s.next[c[2]] = NULL /\ s.prev[c[2]] = NULL
        [] OTHER -> TRUE

Blank == [next |-> [n \in Node |-> NULL], prev |-> [n \in Node |-> NULL], count |-> [l \in Lists |-> 0]]
Made == FoldSet(LAMBDA l, s : threadlist_init(s, l), Blank, Lists)

Init ==
  /\ \/ test = threadlisttest /\ tl = Blank /\ ops = MaxOps + 1
     \/ test = <<>> /\ tl = Made /\ ops = 0
  /\ order = [l \in Lists |-> <<>>] /\ panic = FALSE

TestStep ==
  /\ test # <<>> /\ ~panic
  /\ IF KASSERT(tl, Head(test))
     THEN tl' = TestDo(tl, Head(test)) /\ test' = Tail(test) /\ UNCHANGED panic
     ELSE panic' = TRUE /\ UNCHANGED <<tl, test>>
  /\ UNCHANGED <<order, ops>>

(***************************************************************************)
(* Calls as the kernel makes them: a thread is added when it is on no      *)
(* list, and removed from, or added next to, where it is.                  *)
(***************************************************************************)
OnList(t) == {l \in Lists : t \in ToSet(order[l])}
Off(t) == OnList(t) = {}
At(l, t) == CHOOSE i \in 1..Len(order[l]) : order[l][i] = t
Call(s, o) == tl' = s /\ order' = o /\ ops' = ops + 1 /\ UNCHANGED <<test, panic>>

AddHead(l, t) == Off(t) /\ Call(threadlist_addhead(tl, l, t), [order EXCEPT ![l] = <<t>> \o @])
AddTail(l, t) == Off(t) /\ Call(threadlist_addtail(tl, l, t), [order EXCEPT ![l] = Append(@, t)])
InsertAfter(l, on, t) ==
  /\ Off(t) /\ l \in OnList(on)
  /\ Call(threadlist_insertafter(tl, l, on, t), [order EXCEPT ![l] = InsertAt(@, At(l, on) + 1, t)])
InsertBefore(l, t, on) ==
  /\ Off(t) /\ l \in OnList(on)
  /\ Call(threadlist_insertbefore(tl, l, t, on), [order EXCEPT ![l] = InsertAt(@, At(l, on), t)])
Remove_(l, t) == l \in OnList(t) /\ Call(threadlist_remove(tl, l, t), [order EXCEPT ![l] = RemoveAt(@, At(l, t))])
\* A removal that gives another thread than the list's end is a panic.
RemHead(l) ==
  LET r == threadlist_remhead(tl, l)
  IN  /\ tl' = r.s /\ ops' = ops + 1 /\ UNCHANGED test
      /\ panic' = (r.t # IF order[l] = <<>> THEN NULL ELSE Head(order[l]))
      /\ order' = [order EXCEPT ![l] = IF @ = <<>> THEN @ ELSE Tail(@)]
RemTail(l) ==
  LET r == threadlist_remtail(tl, l)
  IN  /\ tl' = r.s /\ ops' = ops + 1 /\ UNCHANGED test
      /\ panic' = (r.t # IF order[l] = <<>> THEN NULL ELSE Last(order[l]))
      /\ order' = [order EXCEPT ![l] = IF @ = <<>> THEN @ ELSE Front(@)]

FreeCall ==
  /\ ops < MaxOps /\ ~panic
  /\ \E l \in Lists :
       \/ RemHead(l)
       \/ RemTail(l)
       \/ \E t \in Movers :
            \/ AddHead(l, t)
            \/ AddTail(l, t)
            \/ Remove_(l, t)
            \/ \E on \in Movers : InsertAfter(l, on, t) \/ InsertBefore(l, t, on)

Next == TestStep \/ FreeCall
Spec == Init /\ [][Next]_vars

\* After any calls, walking a list forwards, walking it backwards and its
\* count agree with the sequence the calls describe; a thread on no list has
\* no links left, so it can be put on another; the kernel's test never panics.
ListsAreSequences ==
  /\ ~panic
  /\ ops <= MaxOps =>
       /\ \A l \in Lists : /\ THREADLIST_FORALL(tl, l) = order[l]
                           /\ THREADLIST_FORALL_REV(tl, l) = Reverse(order[l])
                           /\ tl.count[l] = Len(order[l])
       /\ \A t \in Fake : Off(t) => tl.next[t] = NULL /\ tl.prev[t] = NULL
=============================================================================
