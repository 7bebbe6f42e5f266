----------------------------- MODULE TLBProofs ------------------------------
(***************************************************************************)
(* Proofs about the TLBs of VirtualMemory, for any number of processes,    *)
(* address spaces, pages, frames and processors.                           *)
(***************************************************************************)
EXTENDS VirtualMemoryProofs

(* No two pages of an address space have the same index.  hpt_hash does    *)
(* not promise it; what is proved without it is said so.                   *)
NoCollisions ==
  \A a \in AS : \A v, w \in Page : hpt_hash[a][v] = hpt_hash[a][w] => v = w

(* An entry e of the TLB translates its page as the page table does.       *)
Translates(pages, e) ==
  NoCollisions => pages[e.page] # Null /\ pages[e.page].frame = e.frame

(* It allows writing only to a frame that an entry of the page table lets  *)
(* be written to.  A fork, which makes those read-only, ends that.         *)
Writes(pages, e) ==
  e.dirty => \E w \in Page : pages[w] # Null /\ pages[w].dirty /\ pages[w].frame = e.frame

(* The inductive invariant: a process runs on one processor at most, and   *)
(* exists; what vm_fault is about to write agrees with the page table, as  *)
(* does what it wrote since the last flush, and is not in the TLB yet.     *)
TLBInv ==
  /\ \A c, d \in CPU : curproc[c] # Null /\ curproc[c] = curproc[d] => c = d
  /\ \A c \in CPU : curproc[c] # Null => mode[curproc[c]] # "none"
  /\ \A p \in Proc : filling[p] # Null =>
       /\ as[p] # Null
       /\ Translates(pte[as[p]], filling[p]) /\ Writes(pte[as[p]], filling[p])
  /\ \A c \in CPU : User(c) =>
       \A e \in tlb[c] : /\ Translates(pte[as[curproc[c]]], e)
                         /\ c \notin unflushed => Writes(pte[as[curproc[c]]], e)
  /\ NoDuplicateTLBEntry

-----------------------------------------------------------------------------
(* The TLBs are empty when the machine starts.                             *)
LEMMA TLBInit == Init => TLBInv
BY DEF Init, TLBInv, NoDuplicateTLBEntry, User

(* Address spaces of other processes are other address spaces.             *)
LEMMA OtherSpaces ==
  ASSUME TypeOK, Owned, NEW p \in Proc, NEW q \in Proc, p # q, as[q] # Null
  PROVE  as[q] \in live /\ as[q] # as[p] /\ as[q] # oldas[p]
<1>1. as[q] \in Holds(q)
  BY Zenon DEF Holds
<1>2. as[q] \notin Holds(p)
  BY Zenon, <1>1 DEF Owned
<1> QED BY Zenon, <1>1, <1>2 DEF Owned, Holds

(* A step touches at most the TLB of one processor c and the pages of one  *)
(* process p, which runs on no other.                                      *)
OnlyAt(c, p) ==
  /\ \A d \in CPU \ {c} : /\ curproc[d] # p /\ curproc'[d] = curproc[d]
                          /\ tlb'[d] = tlb[d]
                          /\ d \in unflushed' <=> d \in unflushed
  /\ \A q \in Proc \ {p} :
       /\ filling'[q] = filling[q]
       /\ mode[q] # "none" => /\ mode'[q] # "none" /\ as'[q] = as[q]
                              /\ as[q] # Null => pte'[as[q]] = pte[as[q]]
  /\ curproc'[c] \in {p, Null}

(* The invariant, of c and p, after the step.                              *)
AgreesAt(c, p) ==
  /\ curproc'[c] = p => mode'[p] # "none"
  /\ filling'[p] # Null => /\ as'[p] # Null
                           /\ Translates(pte'[as'[p]], filling'[p])
                           /\ Writes(pte'[as'[p]], filling'[p])
  /\ curproc'[c] = p /\ as'[p] # Null =>
       \A e \in tlb'[c] : /\ Translates(pte'[as'[p]], e)
                          /\ c \notin unflushed' => Writes(pte'[as'[p]], e)
  /\ \A e1, e2 \in tlb'[c] : e1.page = e2.page => e1 = e2
  /\ curproc'[c] = p /\ filling'[p] # Null =>
       \A e \in tlb'[c] : e.page # filling'[p].page

(* Then it keeps the invariant.                                            *)
LEMMA TLBElsewhere ==
  ASSUME TypeOK, Owned, TLBInv, NEW c \in CPU, NEW p \in Proc, OnlyAt(c, p), AgreesAt(c, p)
  PROVE  TLBInv'
<1> USE DEF OnlyAt, AgreesAt
<1>1. \A d \in CPU \ {c} : curproc[d] # Null =>
         curproc[d] \in Proc \ {p} /\ mode[curproc[d]] # "none"
  BY DEF TypeOK, TLBInv
<1>2. \A q \in Proc \ {p} : filling[q] # Null => as[q] # Null /\ mode[q] # "none"
  BY Zenon DEF TLBInv, Owned
<1>3. \A d, e \in CPU : curproc'[d] # Null /\ curproc'[d] = curproc'[e] => d = e
  BY <1>1 DEF TLBInv
<1>4. \A d \in CPU : curproc'[d] # Null => mode'[curproc'[d]] # "none"
  BY ZenonT(60), <1>1
<1>5. \A q \in Proc : filling'[q] # Null =>
        /\ as'[q] # Null
        /\ Translates(pte'[as'[q]], filling'[q]) /\ Writes(pte'[as'[q]], filling'[q])
  BY ZenonT(60), <1>2 DEF TLBInv
<1>6. ASSUME NEW d \in CPU, curproc'[d] # Null, as'[curproc'[d]] # Null, NEW e \in tlb'[d]
      PROVE  /\ Translates(pte'[as'[curproc'[d]]], e)
             /\ d \notin unflushed' => Writes(pte'[as'[curproc'[d]]], e)
  <2>1. CASE d = c
    BY <1>6, <2>1
  <2>2. CASE d # c
    <3>1. curproc'[d] = curproc[d] /\ curproc[d] \in Proc \ {p} /\ mode[curproc[d]] # "none"
      BY <1>1, <1>6, <2>2
    <3>2. as'[curproc[d]] = as[curproc[d]] /\ as[curproc[d]] # Null
      BY Zenon, <1>6, <3>1
    <3>3. pte'[as[curproc[d]]] = pte[as[curproc[d]]] /\ e \in tlb[d]
      BY Zenon, <1>6, <2>2, <3>1, <3>2
    <3>4. /\ Translates(pte[as[curproc[d]]], e)
          /\ d \notin unflushed => Writes(pte[as[curproc[d]]], e)
      BY Zenon, <3>1, <3>2, <3>3, VMAssumption DEF TLBInv, User
    <3>5. d \notin unflushed' => d \notin unflushed
      BY <2>2
    <3>6. pte'[as'[curproc'[d]]] = pte[as[curproc[d]]]
      BY <3>1, <3>2, <3>3
    <3> QED BY Zenon, <3>4, <3>5, <3>6
  <2> QED BY <2>1, <2>2
<1>7. NoDuplicateTLBEntry'
  <2>1. ASSUME NEW d \in CPU
        PROVE  /\ \A e1, e2 \in tlb'[d] : e1.page = e2.page => e1 = e2
               /\ curproc'[d] # Null /\ filling'[curproc'[d]] # Null
                    => \A e \in tlb'[d] : e.page # filling'[curproc'[d]].page
    <3>1. CASE d = c
      BY <3>1
    <3>2. CASE d # c
      <4>1. curproc'[d] = curproc[d] /\ tlb'[d] = tlb[d]
        BY <3>2
      <4>2. curproc[d] # Null => filling'[curproc[d]] = filling[curproc[d]]
        BY Zenon, <1>1, <3>2
      <4> QED BY <4>1, <4>2 DEF TLBInv, NoDuplicateTLBEntry
    <3> QED BY <3>1, <3>2
  <2> QED BY <2>1 DEF NoDuplicateTLBEntry
<1> QED BY <1>3, <1>4, <1>5, <1>6, <1>7 DEF TLBInv, User

(* A step that leaves page tables, TLBs and processors alone.              *)
LEMMA TLBSame ==
  ASSUME TypeOK, TLBInv, UNCHANGED <<as, pte, curproc, tlb, filling, unflushed>>,
         \A q \in Proc : mode[q] # "none" => mode'[q] # "none"
  PROVE  TLBInv'
BY Zenon DEF TLBInv, NoDuplicateTLBEntry, User, TypeOK

-----------------------------------------------------------------------------
(* What vm_fault does to the page table of p's address space a, and what   *)
(* it is about to write: it agrees with the table, and whatever agreed     *)
(* before and is for another page still does.                              *)
FaultKeeps(p, a, v) ==
  /\ \A b \in AS \ {a} : pte'[b] = pte[b]
  /\ \A q \in Proc \ {p} : filling'[q] = filling[q]
  /\ filling'[p].page = v
  /\ Translates(pte'[a], filling'[p]) /\ Writes(pte'[a], filling'[p])
  /\ \A e \in TLBEntry : e.page # v /\ Translates(pte[a], e) => Translates(pte'[a], e)
  /\ \A e \in TLBEntry : Writes(pte[a], e) => Writes(pte'[a], e)

(* vm_fault does just that, whether it finds the page, makes it, copies it *)
(* or takes it over.                                                       *)
LEMMA FaultAgrees ==
  ASSUME TypeOK, NEW c \in CPU, NEW p \in Proc, NEW v \in Page, NEW write \in BOOLEAN,
         NEW a \in AS, as[p] = a, vm_fault(c, p, v, write)
  PROVE  FaultKeeps(p, a, v)
<1>1. pte[a] \in [Page -> PTE \cup {Null}] /\ pte \in [AS -> [Page -> PTE \cup {Null}]]
  BY DEF TypeOK
(* One entry of the table is set, to e: the entry of v, or one found for   *)
(* v, and one that did not allow writing.                                  *)
<1>2. ASSUME NEW w \in Page, NEW e \in PTE, SetPTE(a, w, e), Fill(p, v, e),
             NoCollisions => w = v, pte[a][w] # Null => ~pte[a][w].dirty
      PROVE  FaultKeeps(p, a, v)
  <2>1. pte'[a] = [pte[a] EXCEPT ![w] = e] /\ \A b \in AS \ {a} : pte'[b] = pte[b]
    BY <1>1, <1>2 DEF SetPTE
  <2>2. filling'[p] = [page |-> v, frame |-> e.frame, dirty |-> e.dirty]
    BY <1>2 DEF Fill, TypeOK
  <2>3. \A q \in Proc \ {p} : filling'[q] = filling[q]
    BY <1>2 DEF Fill, TypeOK
  <2>4. pte'[a][w] = e /\ e # Null /\ \A u \in Page \ {w} : pte'[a][u] = pte[a][u]
    BY <1>1, <2>1, VMAssumption
  <2>5. Translates(pte'[a], filling'[p])
    BY <1>2, <2>2, <2>4 DEF Translates
  <2>6. Writes(pte'[a], filling'[p])
    BY <2>2, <2>4 DEF Writes
  <2>7. ASSUME NEW x \in TLBEntry, x.page # v, Translates(pte[a], x)
        PROVE  Translates(pte'[a], x)
    BY <1>2, <2>4, <2>7 DEF Translates, TLBEntry
  <2>8. ASSUME NEW x \in TLBEntry, Writes(pte[a], x)
        PROVE  Writes(pte'[a], x)
    BY <1>2, <2>4, <2>8 DEF Writes
  <2> QED BY <2>1, <2>2, <2>3, <2>5, <2>6, <2>7, <2>8 DEF FaultKeeps
<1>3. CASE create_page(p, a, v)
  <2>1. v \notin Mapped(a)
    BY <1>3 DEF create_page, find_page
  <2>2. pte[a][v] = Null
    BY <2>1 DEF Mapped
  <2>3. PICK f \in Frame :
          LET e == [frame |-> f, dirty |-> "W" \in as_check_valid_addr(a, v).perms]
          IN  SetPTE(a, v, e) /\ Fill(p, v, e)
    BY <1>3 DEF create_page
  <2> DEFINE e == [frame |-> f, dirty |-> "W" \in as_check_valid_addr(a, v).perms]
  <2>4. e \in PTE
    BY DEF PTE
  <2>5. SetPTE(a, v, e) /\ Fill(p, v, e)
    BY <2>3
  <2> HIDE DEF e
  <2> QED BY <1>2, <2>2, <2>4, <2>5
<1>4. CASE use_page(p, a, v, write)
  <2>1. PICK w \in find_page(a, v) : Fill(p, v, pte[a][w]) /\ pte' = pte
    BY <1>4 DEF use_page
  <2>2. w \in Page /\ pte[a][w] # Null /\ (NoCollisions => w = v)
    BY <2>1 DEF find_page, Mapped, NoCollisions
  <2>3. filling'[p] = [page |-> v, frame |-> pte[a][w].frame, dirty |-> pte[a][w].dirty]
    BY <2>1 DEF Fill, TypeOK
  <2>4. \A q \in Proc \ {p} : filling'[q] = filling[q]
    BY <2>1 DEF Fill, TypeOK
  <2>5. Translates(pte'[a], filling'[p]) /\ Writes(pte'[a], filling'[p])
    BY <2>1, <2>2, <2>3 DEF Translates, Writes
  <2> QED BY <2>1, <2>3, <2>4, <2>5 DEF FaultKeeps
<1>5. CASE readonwrite(p, a, v)
  <2>1. PICK w \in find_page(a, v) :
          /\ ~pte[a][w].dirty
          /\ \E f \in Frame : /\ SetPTE(a, w, [frame |-> f, dirty |-> TRUE])
                              /\ Fill(p, v, [frame |-> f, dirty |-> TRUE])
    <3>1. PICK w \in find_page(a, v) :
            LET from == pte[a][w].frame IN
            /\ ~pte[a][w].dirty
            /\ \/ /\ SetPTE(a, w, [frame |-> from, dirty |-> TRUE])
                  /\ Fill(p, v, [frame |-> from, dirty |-> TRUE])
               \/ \E f \in Frame : /\ SetPTE(a, w, [frame |-> f, dirty |-> TRUE])
                                   /\ Fill(p, v, [frame |-> f, dirty |-> TRUE])
      BY Zenon, <1>5 DEF readonwrite
    <3>2. pte[a][w].frame \in Frame
      BY <3>1, <1>1 DEF find_page, Mapped, PTE
    <3> QED BY Zenon, <3>1, <3>2
  <2>2. PICK f \in Frame : /\ SetPTE(a, w, [frame |-> f, dirty |-> TRUE])
                           /\ Fill(p, v, [frame |-> f, dirty |-> TRUE])
    BY Zenon, <2>1
  <2>3. w \in Page /\ (NoCollisions => w = v)
    BY <2>1 DEF find_page, Mapped, NoCollisions
  <2> DEFINE e == [frame |-> f, dirty |-> TRUE]
  <2>4. e \in PTE
    BY DEF PTE
  <2>5. SetPTE(a, w, e) /\ Fill(p, v, e)
    BY <2>2
  <2> HIDE DEF e
  <2> QED BY SMTT(40), <1>2, <2>1, <2>3, <2>4, <2>5
<1>6. create_page(p, a, v) \/ use_page(p, a, v, write) \/ readonwrite(p, a, v)
  BY DEF vm_fault
<1> QED BY <1>3, <1>4, <1>5, <1>6

(* The process p that runs on c keeps it with an empty TLB, or leaves it:  *)
(* its page tables may change as they will.                                *)
LEMMA TLBFlushed ==
  ASSUME TypeOK, Owned, TLBInv, NEW c \in CPU, NEW p \in Proc, Running(c, p),
         \A d \in CPU \ {c} : /\ curproc'[d] = curproc[d] /\ tlb'[d] = tlb[d]
                              /\ d \in unflushed' <=> d \in unflushed,
         filling' = filling,
         \A q \in Proc \ {p} : mode'[q] = mode[q] /\ as'[q] = as[q],
         \A b \in AS \ Holds(p) : pte'[b] = pte[b],
         \/ curproc'[c] = Null /\ tlb'[c] = tlb[c]
         \/ curproc'[c] = p /\ tlb'[c] = {} /\ mode'[p] # "none"
  PROVE  TLBInv'
<1>1. curproc[c] = p /\ p # Null /\ filling'[p] = Null
  BY VMAssumption DEF Running
<1>2. \A d \in CPU \ {c} : curproc[d] # p
  BY <1>1 DEF TLBInv
<1>3. ASSUME NEW q \in Proc \ {p}, as[q] # Null PROVE pte'[as[q]] = pte[as[q]]
  <2>1. as[q] \in AS /\ as[q] \notin Holds(p)
    BY ZenonT(60), <1>3, OtherSpaces DEF Holds, TypeOK
  <2> QED BY Zenon, <2>1
<1>4. \A e1, e2 \in tlb'[c] : e1.page = e2.page => e1 = e2
  BY DEF TLBInv, NoDuplicateTLBEntry
<1>5. curproc'[c] = p => tlb'[c] = {} /\ mode'[p] # "none"
  BY <1>1
<1>6. OnlyAt(c, p)
  BY Zenon, <1>1, <1>2, <1>3 DEF OnlyAt
<1>7. AgreesAt(c, p)
  BY <1>1, <1>4, <1>5 DEF AgreesAt
<1> QED BY <1>6, <1>7, TLBElsewhere

(* fork makes the entries of the parent read-only and leaves its TLB.      *)
LEMMA TLBFork ==
  ASSUME TypeOK, Owned, TLBInv, NEW c \in CPU, NEW p \in Proc, NEW child \in Proc,
         NEW new \in AS, sys_fork(c, p, child, new)
  PROVE  TLBInv'
<1> DEFINE old == as[p]
<1>1. /\ Running(c, p) /\ mode[p] = "user" /\ mode[child] = "none" /\ new \in AS \ live
      /\ as' = [as EXCEPT ![child] = new] /\ mode' = [mode EXCEPT ![child] = "user"]
      /\ unflushed' = unflushed \cup {c}
      /\ UNCHANGED <<curproc, tlb, filling>>
  BY DEF sys_fork
<1>2. curproc[c] = p /\ p # Null /\ filling'[p] = Null /\ p # child
  BY <1>1, VMAssumption DEF Running
<1>3. old # Null /\ old \in AS /\ old \in live
  <2>1. old # Null
    BY Zenon, <1>1 DEF Owned
  <2> QED BY Zenon, <2>1, HoldsLive
<1>4. /\ pte'[old] = ReadOnly(Mapped(old), pte[old])
      /\ \A b \in AS \ {old, new} : pte'[b] = pte[b]
  <2>1. pte' = [pte EXCEPT ![old] = ReadOnly(Mapped(old), pte[old]),
                           ![new] = ReadOnly(Mapped(old), pte[old])]
    BY DEF sys_fork, as_copy
  <2> QED BY Zenon, <1>1, <1>3, <2>1 DEF TypeOK
<1>5. \A d \in CPU \ {c} : curproc[d] # p
  BY <1>2 DEF TLBInv
<1>6. ASSUME NEW q \in Proc \ {p}, mode[q] # "none"
      PROVE  /\ mode'[q] # "none" /\ as'[q] = as[q]
             /\ as[q] # Null => pte'[as[q]] = pte[as[q]]
  <2>1. q # child /\ mode'[q] = mode[q] /\ as'[q] = as[q]
    BY Zenon, <1>1, <1>6 DEF TypeOK
  <2>2. ASSUME as[q] # Null PROVE as[q] \in AS \ {old, new}
    BY Zenon, <1>1, <2>2, OtherSpaces DEF TypeOK
  <2> QED BY Zenon, <1>4, <1>6, <2>1, <2>2
<1>7. as'[p] = old /\ mode'[p] = "user"
  BY <1>1, <1>2 DEF TypeOK
<1>8. ASSUME NEW e \in tlb'[c] PROVE Translates(pte'[as'[p]], e)
  <2>1. Translates(pte[old], e) /\ e \in TLBEntry
    BY Zenon, <1>1, <1>2, <1>3, <1>8 DEF TLBInv, User, TypeOK
  <2>2. e.page \in Page
    BY SMTT(40), <2>1 DEF TLBEntry
  <2>3. pte[old] \in [Page -> PTE \cup {Null}]
    BY Zenon, <1>3 DEF TypeOK
  <2>4. CASE pte[old][e.page] = Null
    BY <1>3, <1>4, <1>7, <2>1, <2>2, <2>4 DEF Translates, ReadOnly, Mapped
  <2>5. CASE pte[old][e.page] # Null
    <3>1. e.page \in Mapped(old) /\ pte[old][e.page] \in PTE
      BY Zenon, <2>2, <2>3, <2>5 DEF Mapped
    <3>2. pte'[old][e.page] = [pte[old][e.page] EXCEPT !.dirty = FALSE]
      BY <1>4, <2>2, <3>1 DEF ReadOnly
    <3>3. pte'[old][e.page] \in PTE /\ pte'[old][e.page].frame = pte[old][e.page].frame
      BY Zenon, <3>1, <3>2 DEF PTE
    <3> QED BY Zenon, <1>7, <2>1, <3>3, VMAssumption DEF Translates
  <2> QED BY Zenon, <2>4, <2>5
<1>9. \A e1, e2 \in tlb'[c] : e1.page = e2.page => e1 = e2
  BY <1>1 DEF TLBInv, NoDuplicateTLBEntry
<1>10. c \in unflushed'
  BY <1>1
<1>11. \A d \in CPU \ {c} : /\ curproc'[d] = curproc[d] /\ tlb'[d] = tlb[d]
                             /\ d \in unflushed' <=> d \in unflushed
  BY <1>1
<1> HIDE DEF old
<1>12. OnlyAt(c, p)
  BY Zenon, <1>1, <1>2, <1>5, <1>6, <1>11 DEF OnlyAt
<1>13. AgreesAt(c, p)
  BY <1>2, <1>7, <1>8, <1>9, <1>10 DEF AgreesAt
<1> QED BY <1>12, <1>13, TLBElsewhere

(* vm_fault fills no TLB yet; what is in it is for other pages.            *)
LEMMA TLBFault ==
  ASSUME TypeOK, Owned, TLBInv, NEW c \in CPU, NEW p \in Proc, NEW v \in Page,
         NEW write \in BOOLEAN, vm_fault(c, p, v, write)
  PROVE  TLBInv'
<1> DEFINE a == as[p]
<1>1. /\ Running(c, p) /\ a # Null /\ Miss(c, v)
      /\ UNCHANGED <<as, mode, curproc, tlb, unflushed>>
  BY Zenon DEF vm_fault, exe, cpus
<1>2. a \in AS /\ curproc[c] = p /\ p # Null
  BY Zenon, <1>1, VMAssumption DEF TypeOK, Running
<1>3. FaultKeeps(p, a, v)
  BY Zenon, <1>2, FaultAgrees
<1> HIDE DEF a
<1>4. as'[p] = a /\ as[p] = a
  BY <1>1 DEF a
<1>5. OnlyAt(c, p)
  <2>1. \A d \in CPU \ {c} : curproc[d] # p
    BY <1>2 DEF TLBInv
  <2>2. ASSUME NEW q \in Proc \ {p}, as[q] # Null PROVE pte'[as[q]] = pte[as[q]]
    <3>1. as[q] \in AS \ {a}
      BY ZenonT(60), <1>4, <2>2, OtherSpaces DEF TypeOK
    <3> QED BY Zenon, <1>3, <3>1 DEF FaultKeeps
  <2>3. \A q \in Proc \ {p} : filling'[q] = filling[q]
    BY <1>3 DEF FaultKeeps
  <2> QED BY ZenonT(60), <1>1, <1>2, <2>1, <2>2, <2>3 DEF OnlyAt
<1>6. AgreesAt(c, p)
  <2>1. mode'[p] # "none"
    BY SMTT(40), <1>1, <1>2 DEF TLBInv
  <2>2. /\ as'[p] # Null /\ Translates(pte'[as'[p]], filling'[p])
        /\ Writes(pte'[as'[p]], filling'[p]) /\ filling'[p].page = v
    BY <1>1, <1>3, <1>4 DEF FaultKeeps
  <2>3. \A e \in tlb'[c] : e \in TLBEntry /\ e.page # v
    BY <1>1 DEF Miss, TypeOK
  <2>4. ASSUME NEW e \in tlb'[c]
        PROVE  /\ Translates(pte'[a], e)
               /\ c \notin unflushed' => Writes(pte'[a], e)
    <3>1. e \in tlb[c] /\ User(c) /\ as[curproc[c]] = a
      BY SMTT(40), <1>1, <1>2, <1>4, <2>4 DEF User
    <3>2. Translates(pte[a], e) /\ (c \notin unflushed' => Writes(pte[a], e))
      BY ZenonT(60), <1>1, <3>1 DEF TLBInv
    <3> QED BY SMTT(40), <1>3, <2>3, <2>4, <3>2 DEF FaultKeeps
  <2>5. \A e1, e2 \in tlb'[c] : e1.page = e2.page => e1 = e2
    BY <1>1 DEF TLBInv, NoDuplicateTLBEntry
  <2> QED BY <1>4, <2>1, <2>2, <2>3, <2>4, <2>5 DEF AgreesAt
<1> QED BY <1>5, <1>6, TLBElsewhere

(* The scheduler flushes the TLB of the processor it gives to a process    *)
(* with an address space.                                                  *)
LEMMA TLBSwitch ==
  ASSUME TypeOK, Owned, TLBInv, NEW c \in CPU, NEW p \in Proc \cup {Null},
         thread_switch(c, p)
  PROVE  TLBInv'
<1>1. /\ curproc[c] # p /\ curproc' = [curproc EXCEPT ![c] = p]
      /\ p # Null => mode[p] # "none" /\ \A d \in CPU : curproc[d] # p
      /\ IF p = Null THEN UNCHANGED <<tlb, unflushed>> ELSE as_activate(c, as[p])
      /\ UNCHANGED <<as, mode, pte, filling>>
  BY Zenon DEF thread_switch, exe, spc
<1>2. curproc'[c] = p /\ \A d \in CPU \ {c} : curproc'[d] = curproc[d]
  BY <1>1 DEF TypeOK
<1>3. \A q \in Proc : filling'[q] # Null =>
        /\ as'[q] # Null
        /\ Translates(pte'[as'[q]], filling'[q]) /\ Writes(pte'[as'[q]], filling'[q])
  BY ZenonT(60), <1>1 DEF TLBInv
<1>4. CASE p = Null
  <2>1. curproc[c] \in Proc
    BY <1>1, <1>4 DEF TypeOK
  <2>2. \A d \in CPU \ {c} : curproc[d] # curproc[c]
    BY <2>1, VMAssumption DEF TLBInv
  <2>3. OnlyAt(c, curproc[c])
    BY SMTT(40), <1>1, <1>2, <1>4, <2>2 DEF OnlyAt
  <2>4. curproc'[c] # curproc[c]
    BY SMTT(40), <1>1, <1>2
  <2>5. \A e1, e2 \in tlb'[c] : e1.page = e2.page => e1 = e2
    BY SMTT(40), <1>1, <1>4 DEF TLBInv, NoDuplicateTLBEntry
  <2>6. AgreesAt(c, curproc[c])
    BY <1>3, <2>1, <2>4, <2>5 DEF AgreesAt
  <2> QED BY <2>1, <2>3, <2>6, TLBElsewhere
<1>5. CASE p # Null
  <2>1. p \in Proc /\ as_activate(c, as[p]) /\ mode'[p] # "none"
    BY Zenon, <1>1, <1>5
  <2>2. \A d \in CPU \ {c} : tlb'[d] = tlb[d] /\ (d \in unflushed' <=> d \in unflushed)
    BY ZenonT(60), <2>1 DEF as_activate, TypeOK
  <2>3. OnlyAt(c, p)
    BY <1>1, <1>2, <1>5, <2>2 DEF OnlyAt
  <2>4. CASE as[p] = Null
    <3>1. tlb' = tlb /\ filling'[p] = Null /\ as'[p] = Null
      BY ZenonT(60), <1>1, <2>1, <2>4 DEF as_activate, TLBInv
    <3>2. \A e1, e2 \in tlb'[c] : e1.page = e2.page => e1 = e2
      BY <3>1 DEF TLBInv, NoDuplicateTLBEntry
    <3>3. AgreesAt(c, p)
      BY ZenonT(60), <2>1, <3>1, <3>2 DEF AgreesAt
    <3> QED BY <2>1, <2>3, <3>3, TLBElsewhere
  <2>5. CASE as[p] # Null
    <3>1. tlb'[c] = {}
      BY SMTT(40), <2>1, <2>5 DEF as_activate, TypeOK
    <3>2. AgreesAt(c, p)
      BY <1>3, <2>1, <3>1 DEF AgreesAt
    <3> QED BY <2>1, <2>3, <3>2, TLBElsewhere
  <2> QED BY Zenon, <2>4, <2>5
<1> QED BY <1>4, <1>5

(* The end of vm_fault.                                                    *)
LEMMA TLBRandom ==
  ASSUME TypeOK, Owned, TLBInv, NEW c \in CPU, NEW p \in Proc, tlb_random(c, p)
  PROVE  TLBInv'
<1>1. /\ curproc[c] = p /\ filling[p] # Null
      /\ filling' = [filling EXCEPT ![p] = Null]
      /\ UNCHANGED <<as, mode, pte, curproc, unflushed>>
  BY SMTT(40) DEF tlb_random, exe, spc
<1>2. PICK victim \in SUBSET tlb[c] :
        tlb' = [tlb EXCEPT ![c] = (@ \ victim) \cup {filling[p]}]
  BY ZenonT(60) DEF tlb_random
<1>3. /\ filling'[p] = Null /\ \A q \in Proc \ {p} : filling'[q] = filling[q]
      /\ tlb'[c] \subseteq tlb[c] \cup {filling[p]} /\ \A d \in CPU \ {c} : tlb'[d] = tlb[d]
      /\ p # Null
  BY <1>1, <1>2, VMAssumption DEF TypeOK
<1>4. OnlyAt(c, p)
  <2>1. \A d \in CPU \ {c} : curproc[d] # p
    BY SMTT(40), <1>1, <1>3 DEF TLBInv
  <2> QED BY <1>1, <1>3, <2>1 DEF OnlyAt
<1>5. mode'[p] # "none"
  BY SMTT(40), <1>1, <1>3 DEF TLBInv
<1>6. ASSUME NEW e \in tlb'[c]
      PROVE  Translates(pte'[as'[p]], e) /\ (c \notin unflushed' => Writes(pte'[as'[p]], e))
  <2>1. as[p] # Null /\ Translates(pte[as[p]], filling[p]) /\ Writes(pte[as[p]], filling[p])
    BY Zenon, <1>1 DEF TLBInv
  <2>2. CASE e = filling[p]
    BY Zenon, <1>1, <2>1, <2>2
  <2>3. CASE e \in tlb[c]
    BY ZenonT(60), <1>1, <1>3, <2>1, <2>3 DEF TLBInv, User
  <2> QED BY SMTT(40), <1>3, <1>6, <2>2, <2>3
<1>7. \A e1, e2 \in tlb'[c] : e1.page = e2.page => e1 = e2
  <2>1. /\ \A e1, e2 \in tlb[c] : e1.page = e2.page => e1 = e2
        /\ \A e \in tlb[c] : e.page # filling[p].page
    BY SMTT(40), <1>1, <1>3 DEF TLBInv, NoDuplicateTLBEntry
  <2> QED BY <1>3, <2>1
<1>8. AgreesAt(c, p)
  BY SMTT(40), <1>3, <1>5, <1>6, <1>7 DEF AgreesAt
<1> QED BY SMTT(40), <1>4, <1>8, TLBElsewhere

(* Every step keeps the invariant of the TLBs.                             *)
LEMMA TLBNext ==
  ASSUME TypeOK, Owned, TLBInv, [Next]_vars
  PROVE  TLBInv'
<1>1. ASSUME NEW f \in Frame, kmalloc(f) \/ kfree(f) PROVE TLBInv'
  BY Zenon, <1>1, TLBSame DEF kmalloc, kfree, exe, spc, cpus
<1>2. ASSUME NEW p \in Proc, proc_create_runprogram(p) PROVE TLBInv'
  <2>1. \A q \in Proc : mode[q] # "none" => mode'[q] # "none"
    BY <1>2 DEF proc_create_runprogram, TypeOK
  <2> QED BY <1>2, <2>1, TLBSame DEF proc_create_runprogram, spc, cpus
<1>3. ASSUME NEW c \in CPU, NEW p \in Proc \cup {Null}, thread_switch(c, p) PROVE TLBInv'
  BY <1>3, TLBSwitch
<1>4. ASSUME NEW c \in CPU, NEW p \in Proc, NEW v \in Page, NEW write \in BOOLEAN,
             access(c, p, v, write)
      PROVE  TLBInv'
  BY SMTT(40), <1>4, TLBFault DEF access
<1>5. ASSUME NEW c \in CPU, NEW p \in Proc, proc_exit(c, p) PROVE TLBInv'
  <2>1. /\ Running(c, p) /\ pte' = [pte EXCEPT ![as[p]] = NoPages]
        /\ as' = [as EXCEPT ![p] = Null] /\ mode' = [mode EXCEPT ![p] = "none"]
        /\ curproc' = [curproc EXCEPT ![c] = Null] /\ UNCHANGED <<tlb, filling, unflushed>>
        /\ as[p] # Null
    BY Zenon, <1>5 DEF proc_exit, as_destroy, Owned
  <2>2. \A b \in AS \ Holds(p) : pte'[b] = pte[b]
    BY Zenon, <2>1 DEF Holds, TypeOK
  <2>3. /\ \A q \in Proc \ {p} : mode'[q] = mode[q] /\ as'[q] = as[q]
        /\ curproc'[c] = Null /\ \A d \in CPU \ {c} : curproc'[d] = curproc[d]
    BY <2>1 DEF TypeOK
  <2> QED BY Zenon, <2>1, <2>2, <2>3, TLBFlushed
<1>6. ASSUME NEW c \in CPU, NEW p \in Proc, NEW v \in Page,
             kernel_store(c, p, v) \/ copyout_args_failed(c, p, v)
      PROVE  TLBInv'
  BY Zenon, <1>6, TLBSame DEF kernel_store, copyout_args_failed, exe, spc, cpus
<1>7. ASSUME NEW c \in CPU, NEW p \in Proc, NEW child \in Proc, NEW new \in AS,
             sys_fork(c, p, child, new)
      PROVE  TLBInv'
  BY <1>7, TLBFork
<1>8. ASSUME NEW c \in CPU, NEW p \in Proc, NEW S \in SUBSET Page, fork_fails(c, p, S)
      PROVE  TLBInv'
  <2>1. /\ Running(c, p) /\ mode[p] = "user" /\ pte' = [pte EXCEPT ![as[p]] = ReadOnly(S, @)]
        /\ as_activate(c, as[p]) /\ UNCHANGED <<as, mode, curproc, filling>>
    BY Zenon, <1>8 DEF fork_fails, exe
  <2>2. as[p] # Null /\ curproc'[c] = p
    BY ZenonT(60), <2>1 DEF Owned, Running
  <2>3. \A b \in AS \ Holds(p) : pte'[b] = pte[b]
    BY ZenonT(60), <2>1, <2>2 DEF Holds, TypeOK
  <2>4. tlb'[c] = {} /\ \A d \in CPU \ {c} : tlb'[d] = tlb[d] /\ (d \in unflushed' <=> d \in unflushed)
    BY <2>1, <2>2 DEF as_activate, TypeOK
  <2>5. mode'[p] # "none"
    BY SMTT(40), <2>1
  <2> QED BY ZenonT(60), <2>1, <2>2, <2>3, <2>4, <2>5, TLBFlushed
<1>9. ASSUME NEW c \in CPU, NEW p \in Proc, NEW new \in AS, loadexec(c, p, new)
      PROVE  TLBInv'
  <2>1. /\ Running(c, p) /\ UNCHANGED <<pte, curproc, filling>> /\ as_activate(c, new)
        /\ as' = [as EXCEPT ![p] = new] /\ mode' = [mode EXCEPT ![p] = "load"]
    BY <1>9 DEF loadexec
  <2>2. new # Null /\ curproc'[c] = p
    BY <2>1, VMAssumption DEF Running
  <2>3. tlb'[c] = {} /\ \A d \in CPU \ {c} : tlb'[d] = tlb[d] /\ (d \in unflushed' <=> d \in unflushed)
    BY SMTT(40), <2>1, <2>2 DEF as_activate, TypeOK
  <2>4. mode'[p] # "none" /\ \A q \in Proc \ {p} : mode'[q] = mode[q] /\ as'[q] = as[q]
    BY <2>1 DEF TypeOK
  <2> QED BY ZenonT(60), <2>1, <2>2, <2>3, <2>4, TLBFlushed
<1>10. ASSUME NEW c \in CPU, NEW p \in Proc, tlb_random(c, p) PROVE TLBInv'
  BY SMTT(40), <1>10, TLBRandom
<1>11. ASSUME NEW c \in CPU, NEW p \in Proc, loadexec_fails(c, p) PROVE TLBInv'
  <2>1. /\ Running(c, p) /\ mode[p] = "load" /\ pte' = [pte EXCEPT ![as[p]] = NoPages]
        /\ as' = [as EXCEPT ![p] = oldas[p]] /\ as_activate(c, oldas[p])
        /\ mode' = [mode EXCEPT ![p] = IF oldas[p] = Null THEN "none" ELSE "user"]
        /\ curproc' = [curproc EXCEPT ![c] = IF oldas[p] = Null THEN Null ELSE p]
        /\ filling' = filling
    BY ZenonT(60), <1>11 DEF loadexec_fails, as_destroy
  <2>2. \A b \in AS \ Holds(p) : pte'[b] = pte[b]
    <3>1. as[p] \in Holds(p)
      BY ZenonT(60), <2>1 DEF Holds, Owned
    <3> QED BY Zenon, <2>1, <3>1 DEF TypeOK
  <2>3. \A d \in CPU \ {c} : /\ curproc'[d] = curproc[d] /\ tlb'[d] = tlb[d]
                             /\ d \in unflushed' <=> d \in unflushed
    BY <2>1 DEF as_activate, TypeOK
  <2>4. \A q \in Proc \ {p} : mode'[q] = mode[q] /\ as'[q] = as[q]
    BY <2>1 DEF TypeOK
  <2>5. \/ curproc'[c] = Null /\ tlb'[c] = tlb[c]
        \/ curproc'[c] = p /\ tlb'[c] = {} /\ mode'[p] # "none"
    <3>1. CASE oldas[p] = Null
      BY SMTT(40), <2>1, <3>1 DEF as_activate, TypeOK
    <3>2. CASE oldas[p] # Null
      BY SMTT(40), <2>1, <3>2 DEF as_activate, TypeOK
    <3> QED BY ZenonT(60), <3>1, <3>2
  <2> QED BY ZenonT(60), <2>1, <2>2, <2>3, <2>4, <2>5, TLBFlushed
<1>12. ASSUME NEW c \in CPU, NEW p \in Proc, loadexec_commits(c, p) PROVE TLBInv'
  <2>1. /\ Running(c, p) /\ mode[p] = "load"
        /\ pte' = [b \in AS |-> IF b = oldas[p] THEN NoPages
                                ELSE [pte EXCEPT ![as[p]] = ReadOnly(Restore(as[p]), @)][b]]
        /\ as_activate(c, as[p]) /\ mode' = [mode EXCEPT ![p] = "args"]
        /\ UNCHANGED <<as, curproc, filling>>
    BY ZenonT(60), <1>12 DEF loadexec_commits
  <2>2. as[p] # Null /\ as[p] \in AS /\ curproc'[c] = p
    BY ZenonT(60), <2>1 DEF Owned, Running, TypeOK
  <2>3. \A b \in AS \ Holds(p) : b # as[p] /\ b # oldas[p]
    BY Zenon, VMAssumption DEF Holds
  <2>4. \A b \in AS \ Holds(p) : pte'[b] = pte[b]
    BY ZenonT(60), <2>1, <2>2, <2>3 DEF TypeOK
  <2>5. tlb'[c] = {} /\ \A d \in CPU \ {c} : tlb'[d] = tlb[d] /\ (d \in unflushed' <=> d \in unflushed)
    BY <2>1, <2>2 DEF as_activate, TypeOK
  <2>6. mode'[p] # "none" /\ \A q \in Proc \ {p} : mode'[q] = mode[q] /\ as'[q] = as[q]
    BY SMTT(40), <2>1 DEF TypeOK
  <2> QED BY ZenonT(60), <2>1, <2>2, <2>4, <2>5, <2>6, TLBFlushed
<1>13. ASSUME NEW c \in CPU, NEW p \in Proc, enter_new_process(c, p) PROVE TLBInv'
  <2>1. \A q \in Proc : mode[q] # "none" => mode'[q] # "none"
    BY SMTT(40), <1>13 DEF enter_new_process, TypeOK
  <2> QED BY SMTT(40), <1>13, <2>1, TLBSame DEF enter_new_process, spc, cpus
<1>14. ASSUME NEW c \in CPU, NEW p \in Proc, runprogram_fails(c, p) PROVE TLBInv'
  <2>1. /\ Running(c, p) /\ mode' = [mode EXCEPT ![p] = "none"]
        /\ curproc' = [curproc EXCEPT ![c] = Null]
        /\ UNCHANGED <<as, pte, tlb, filling, unflushed>>
    BY SMTT(40), <1>14 DEF runprogram_fails, spc
  <2>2. /\ \A q \in Proc \ {p} : mode'[q] = mode[q]
        /\ curproc'[c] = Null /\ \A d \in CPU \ {c} : curproc'[d] = curproc[d]
    BY <2>1 DEF TypeOK
  <2> QED BY <2>1, <2>2, TLBFlushed
<1>15. CASE UNCHANGED vars
  BY <1>15, TLBSame DEF vars
<1> QED
  BY SMTT(40), <1>1, <1>2, <1>3, <1>4, <1>5, <1>6, <1>7, <1>8, <1>9, <1>10, <1>11, <1>12, <1>13,
     <1>14, <1>15 DEF Next, kill_curthread

-----------------------------------------------------------------------------
(* The invariant holds in every reachable state.                           *)
LEMMA TLBAlways == Spec => []TLBInv
<1>1. TypeOK /\ AddressSpacesOwned /\ TLBInv /\ [Next]_vars => TLBInv'
  <2>1. AddressSpacesOwned => Owned
    BY Zenon DEF AddressSpacesOwned, Owned
  <2> QED BY SMTT(40), <2>1, TLBNext
<1> QED BY <1>1, TLBInit, MemorySafe, PTL DEF Spec

(* Whatever the hash function, no TLB ever holds a page twice, and a       *)
(* processor whose process has not forked since the last flush can write   *)
(* only to frames that nothing else refers to: neither the loss of the     *)
(* processor in the middle of vm_fault nor copy-on-write, exec or exit on  *)
(* another one breaks that.                                                *)
THEOREM TLBPrivate == Spec => [](NoDuplicateTLBEntry /\ TLBWritesPrivate)
<1>1. TypeOK /\ WritableIsPrivate /\ TLBInv => NoDuplicateTLBEntry /\ TLBWritesPrivate
  <2> SUFFICES ASSUME TypeOK, WritableIsPrivate, TLBInv,
                      NEW c \in CPU, User(c), c \notin unflushed, NEW e \in tlb[c], e.dirty
               PROVE  ref[e.frame] = 1
    BY Zenon DEF TLBInv, TLBWritesPrivate
  <2>1. as[curproc[c]] \in AS
    BY Zenon DEF User, TypeOK
  <2>2. PICK w \in Page : LET m == pte[as[curproc[c]]][w]
                          IN  m # Null /\ m.dirty /\ m.frame = e.frame
    BY ZenonT(60) DEF TLBInv, Writes
  <2> QED BY Zenon, <2>1, <2>2 DEF WritableIsPrivate
<1> QED BY <1>1, MemorySafe, TLBAlways, PTL

(* If no two pages of a process have the same index in the page table, a   *)
(* processor also translates every page as the page table of its process   *)
(* does.  Without that vm_fault loads the entry of another page, which the *)
(* run vm_alias shows.                                                     *)
THEOREM TLBSafe == ASSUME NoCollisions PROVE Spec => []TLBSound
<1>1. TLBInv => TLBMatchesPageTable
  BY Zenon DEF TLBInv, Translates, TLBMatchesPageTable
<1> QED BY <1>1, TLBAlways, TLBPrivate, PTL DEF TLBSound

=============================================================================
