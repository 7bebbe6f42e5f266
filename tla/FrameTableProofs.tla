--------------------------- MODULE FrameTableProofs ---------------------------
(***************************************************************************)
(* Proofs about FrameTable, for every number of frames and callers.        *)
(***************************************************************************)
EXTENDS FrameTable, FiniteSetTheorems, TLAPS

-----------------------------------------------------------------------------
(* Before bootstrap the bump allocator stays inside memory; afterwards it  *)
(* has nothing left.                                                       *)
RamOK == /\ lastpaddr \in {0, NFrames}
         /\ firstpaddr <= lastpaddr

(* Boot begins with the whole of memory behind the kernel.                 *)
LEMMA TypeInit == Init => TypeOK /\ RamOK
BY FrameAssumption DEF Init, TypeOK, RamOK, Frame, Null, Idle

(* ram_stealmem stays inside memory.                                       *)
LEMMA StealOK ==
  ASSUME TypeOK, RamOK, NEW npages \in Nat, ram_stealmem(npages)
  PROVE  /\ firstpaddr' \in 0 .. NFrames /\ lastpaddr' \in 0 .. NFrames
         /\ owed' \in [Frame -> Nat]
         /\ lastpaddr' \in {0, NFrames} /\ firstpaddr' <= lastpaddr'
<1>1. firstpaddr' = firstpaddr + npages /\ lastpaddr' = lastpaddr
      /\ firstpaddr + npages <= lastpaddr
  BY DEF ram_stealmem, CanSteal
<1>2. owed' \in [Frame -> Nat]
  BY DEF ram_stealmem, TypeOK
<1> QED BY <1>1, <1>2, FrameAssumption DEF TypeOK, RamOK

(* Every step keeps the types.                                             *)
LEMMA TypeNext == TypeOK /\ RamOK /\ [Next]_vars => TypeOK' /\ RamOK'
<1> SUFFICES ASSUME TypeOK, RamOK, [Next]_vars
             PROVE  TypeOK' /\ RamOK'
  OBVIOUS
<1> USE FrameAssumption DEF TypeOK, RamOK, ram, table
<1>1. ASSUME NEW from, NEW to \in {"pagetable", "frametable"}, NEW npages \in Nat,
             BootReserve(from, to, npages)
      PROVE  TypeOK' /\ RamOK'
  <2>1. CASE CanSteal(npages)
    BY <1>1, <2>1, StealOK DEF BootReserve
  <2>2. CASE ~CanSteal(npages)
    BY <1>1, <2>2 DEF BootReserve
  <2> QED BY <2>1, <2>2
<1>2. CASE vm_bootstrap \/ frametable_bootstrap
  BY ZenonT(30), <1>1, <1>2 DEF vm_bootstrap, frametable_bootstrap
<1>3. CASE ram_getfirstfree
  BY <1>3 DEF ram_getfirstfree
<1>4. CASE BuildFreeList
  <2>1. bumpallocated \in Frame
    BY <1>4 DEF BuildFreeList, Frame
  <2>2. \A f \in Frame : bumpallocated <= f /\ f < LastLinked(bumpallocated) => f + 1 \in Frame
    BY <2>1 DEF LastLinked, freeframes, Frame
  <2>3. next_free' \in [Frame -> Frame \cup {Null}]
    BY <1>4, <2>2 DEF BuildFreeList
  <2> QED BY <1>4, <2>1, <2>3 DEF BuildFreeList
<1>9. CASE BuildRunsOff
  BY <1>9 DEF BuildRunsOff
<1>5. CASE Alloc
  <2>1. PICK npages \in 1 .. MaxRequest :
          alloc_kpages_early(npages) \/ alloc_kpages(npages)
    BY <1>5 DEF Alloc
  <2>2. CASE alloc_kpages_early(npages)
    <3>1. npages \in Nat /\ ram_stealmem(npages)
      BY <2>2 DEF alloc_kpages_early
    <3>2. firstpaddr \in Frame
      BY <2>2 DEF alloc_kpages_early, ram_stealmem, CanSteal, Frame
    <3> QED BY <2>2, <3>1, <3>2, StealOK DEF alloc_kpages_early
  <2>3. CASE alloc_kpages(npages)
    BY <2>3 DEF alloc_kpages, Available, TakeHead
  <2> QED BY <2>1, <2>2, <2>3
<1>6. CASE Free
  <2>1. PICK c \in Caller :
          (\E f \in Frame : free_kpages(c, f)) \/ free_kpages_locked(c)
    BY <1>6 DEF Free
  <2>2. ASSUME NEW f \in Frame, free_kpages(c, f)
        PROVE  TypeOK' /\ RamOK'
    <3>1. owed' \in [Frame -> Nat]
      BY <2>2 DEF free_kpages
    <3>2. freeing' \in [Caller -> Frame \cup {Idle}]
      BY <2>2 DEF free_kpages
    <3> QED BY <2>2, <3>1, <3>2 DEF free_kpages
  <2>3. CASE free_kpages_locked(c)
    <3>1. freeing[c] \in Frame
      BY <2>3 DEF free_kpages_locked
    <3>2. CASE ref[freeing[c]] - 1 <= 0
      <4>1. PushFree(freeing[c])
        BY <2>3, <3>2 DEF free_kpages_locked
      <4>2. used' \in [Frame -> BOOLEAN]
        BY <4>1, <3>1 DEF PushFree
      <4>3. next_free' \in [Frame -> Frame \cup {Null}]
        BY <4>1, <3>1 DEF PushFree
      <4>4. ref' \in [Frame -> Int] /\ freeing' \in [Caller -> Frame \cup {Idle}]
        BY <2>3, <3>1 DEF free_kpages_locked
      <4> QED BY <2>3, <3>1, <4>1, <4>2, <4>3, <4>4 DEF free_kpages_locked, PushFree
    <3>3. CASE ~(ref[freeing[c]] - 1 <= 0)
      BY <2>3, <3>1, <3>3 DEF free_kpages_locked
    <3> QED BY <3>2, <3>3
  <2> QED BY <2>1, <2>2, <2>3
<1>7. CASE Share
  <2>1. PICK f \in Frame, modifier \in {1, -1} : frame_ref_mod(f, modifier)
    BY <1>7 DEF Share
  <2>2. owed' \in [Frame -> Nat]
    BY <2>1 DEF frame_ref_mod
  <2>3. ref' \in [Frame -> Int]
    BY <2>1 DEF frame_ref_mod
  <2> QED BY <2>1, <2>2, <2>3 DEF frame_ref_mod
<1>8. CASE UNCHANGED vars
  BY <1>8 DEF vars
<1> QED
  BY <1>2, <1>3, <1>4, <1>5, <1>6, <1>7, <1>8, <1>9 DEF Next, Boot

(* Every behaviour of the allocator keeps its variables in their types: no *)
(* index leaves the table and no reference count held by a caller goes     *)
(* negative.                                                               *)
THEOREM TypeCorrect == Spec => [](TypeOK /\ RamOK)
BY TypeInit, TypeNext, PTL DEF Spec

-----------------------------------------------------------------------------
(* References.  Before the table is published the frames below the bump    *)
(* pointer, or below bootstrap's copy of it, have been handed out, once    *)
(* each, and nobody is in free_kpages.                                     *)

Reserved == IF boot = "build" THEN bumpallocated ELSE firstpaddr

EarlyOK ==
  ~Booted =>
    /\ \A c \in Caller : freeing[c] = Idle
    /\ boot \in {"early", "pagetable", "frametable"} => lastpaddr = NFrames
    /\ boot = "build" => lastpaddr = 0
    /\ boot # "panic" => \A f \in Frame : owed[f] = IF f < Reserved THEN 1 ELSE 0

PendingFinite == \A f \in Frame : IsFiniteSet(Pending(f))

RefInv == TypeOK /\ RamOK /\ EarlyOK /\ PendingFinite /\ RefsAccounted

(* Counting the callers in free_kpages.                                    *)
LEMMA PendingCard ==
  ASSUME PendingFinite, NEW f \in Frame
  PROVE  /\ Cardinality(Pending(f)) \in Nat
         /\ \A c \in Pending(f) : Cardinality(Pending(f)) > 0
         /\ \A c \in Caller : Cardinality(Pending(f) \cup {c}) =
              IF c \in Pending(f) THEN Cardinality(Pending(f)) ELSE Cardinality(Pending(f)) + 1
         /\ \A c \in Caller : Cardinality(Pending(f) \ {c}) =
              IF c \in Pending(f) THEN Cardinality(Pending(f)) - 1 ELSE Cardinality(Pending(f))
         /\ \A c \in Caller : IsFiniteSet(Pending(f) \cup {c}) /\ IsFiniteSet(Pending(f) \ {c})
<1>1. IsFiniteSet(Pending(f))
  BY DEF PendingFinite
<1>2. Cardinality(Pending(f)) \in Nat
  BY <1>1, FS_CardinalityType
<1>3. \A c \in Pending(f) : Cardinality(Pending(f)) > 0
  <2> TAKE c \in Pending(f)
  <2>1. Pending(f) # {}
    OBVIOUS
  <2>2. Cardinality(Pending(f)) # 0
    BY <1>1, <2>1, FS_EmptySet
  <2> QED BY <1>2, <2>2
<1>4. \A c : /\ IsFiniteSet(Pending(f) \cup {c})
             /\ Cardinality(Pending(f) \cup {c}) =
              IF c \in Pending(f) THEN Cardinality(Pending(f)) ELSE Cardinality(Pending(f)) + 1
  BY <1>1, FS_AddElement
<1>5. \A c : /\ IsFiniteSet(Pending(f) \ {c})
             /\ Cardinality(Pending(f) \ {c}) =
              IF c \in Pending(f) THEN Cardinality(Pending(f)) - 1 ELSE Cardinality(Pending(f))
  BY <1>1, FS_RemoveElement
<1> QED BY ZenonT(30), <1>2, <1>3, <1>4, <1>5

(* Nothing is pending at first.                                            *)
LEMMA RefInit == Init => EarlyOK /\ PendingFinite /\ RefsAccounted
<1> SUFFICES ASSUME Init PROVE EarlyOK /\ PendingFinite /\ RefsAccounted
  OBVIOUS
<1>1. \A f \in Frame : Pending(f) = {}
  BY DEF Init, Pending, Frame, Idle
<1>2. PendingFinite
  BY <1>1, FS_EmptySet DEF PendingFinite
<1> QED BY <1>2 DEF Init, EarlyOK, RefsAccounted, Booted, Reserved

(* Every step keeps the count of a frame equal to the references held.     *)
LEMMA RefNext == RefInv /\ [Next]_vars => EarlyOK' /\ PendingFinite' /\ RefsAccounted'
<1> SUFFICES ASSUME RefInv, [Next]_vars PROVE EarlyOK' /\ PendingFinite' /\ RefsAccounted'
  OBVIOUS
<1> USE DEF RefInv
<1>1. ASSUME UNCHANGED freeing PROVE PendingFinite' /\ \A f \in Frame : Pending(f)' = Pending(f)
  <2>1. \A f \in Frame : Pending(f)' = Pending(f)
    BY <1>1 DEF Pending
  <2> QED BY <2>1 DEF PendingFinite
<1>2. ASSUME NEW from \in {"early", "pagetable"}, NEW to \in {"pagetable", "frametable"},
             NEW npages \in Nat, BootReserve(from, to, npages)
      PROVE  EarlyOK' /\ PendingFinite' /\ RefsAccounted'
  <2>1. CASE CanSteal(npages)
    BY <1>1, <1>2, <2>1 DEF BootReserve, ram_stealmem, Stolen, EarlyOK, RefsAccounted, Booted, Reserved,
         TypeOK, Frame
  <2>2. CASE ~CanSteal(npages)
    BY <1>1, <1>2, <2>2 DEF BootReserve, EarlyOK, RefsAccounted, Booted
  <2> QED BY <2>1, <2>2
<1>3. CASE vm_bootstrap \/ frametable_bootstrap
  BY <1>2, <1>3, FrameAssumption DEF vm_bootstrap, frametable_bootstrap
<1>4. CASE ram_getfirstfree \/ BuildRunsOff
  BY <1>1, <1>4 DEF ram_getfirstfree, BuildRunsOff, EarlyOK, RefsAccounted, Booted, Reserved
<1>5. CASE BuildFreeList
  <2>1. UNCHANGED <<freeing, owed>> /\ Booted' /\ boot = "build"
    BY <1>5 DEF BuildFreeList, Booted
  <2>2. \A f \in Frame : Pending(f) = {} /\ Cardinality(Pending(f)) = 0
    BY <2>1, FS_EmptySet DEF EarlyOK, Booted, Pending, Frame, Idle
  <2>3. \A f \in Frame : owed[f] = IF f < bumpallocated THEN 1 ELSE 0
    BY <2>1 DEF EarlyOK, Booted, Reserved
  <2>4. \A f \in Frame : ref'[f] = owed[f] /\ (used'[f] <=> ref'[f] > 0)
    <3>1. \A f \in Frame : /\ used'[f] = (f < bumpallocated)
                           /\ ref'[f] = IF f < bumpallocated THEN 1 ELSE 0
      BY <1>5 DEF BuildFreeList
    <3>2. \A f \in Frame : ref'[f] = owed[f] /\ (ref'[f] > 0 <=> f < bumpallocated)
      BY <2>3, <3>1
    <3> QED BY ZenonT(30), <3>1, <3>2
  <2>5. \A f \in Frame : ref'[f] = owed'[f] + Cardinality(Pending(f)')
    BY <1>1, <2>1, <2>2, <2>4 DEF TypeOK
  <2> QED BY <1>1, <2>1, <2>4, <2>5 DEF RefsAccounted, EarlyOK
<1>6. CASE Alloc
  <2>1. PICK npages \in 1 .. MaxRequest :
          alloc_kpages_early(npages) \/ alloc_kpages(npages)
    BY <1>6 DEF Alloc
  <2>2. CASE alloc_kpages_early(npages)
    <3>1. npages \in Nat \ {0}
      BY FrameAssumption
    <3> QED BY <1>1, <2>2, <3>1, FrameAssumption
         DEF alloc_kpages_early, ram_stealmem, CanSteal, Stolen, EarlyOK, RefsAccounted, Booted, Reserved,
             TypeOK, RamOK, Frame, table
  <2>3. CASE alloc_kpages(npages)
    <3> DEFINE h == firstfreeframe
    <3>1. h \in Frame /\ ~used[h] /\ Booted /\ Booted' /\ UNCHANGED freeing
      BY <2>3 DEF alloc_kpages, Available, TypeOK, Booted, Null
    <3>2. ref[h] = owed[h] + Cardinality(Pending(h)) /\ ~(ref[h] > 0)
      BY <3>1 DEF RefsAccounted
    <3>3. owed[h] = 0 /\ Cardinality(Pending(h)) = 0
      BY <3>1, <3>2, PendingCard DEF TypeOK
    <3>4. \A f \in Frame : /\ ref'[f] = (IF f = h THEN 1 ELSE ref[f])
                           /\ owed'[f] = (IF f = h THEN owed[f] + 1 ELSE owed[f])
                           /\ used'[f] = (IF f = h THEN TRUE ELSE used[f])
      BY <2>3, <3>1 DEF alloc_kpages, TakeHead, TypeOK
    <3> HIDE DEF h
    <3>5. \A f \in Frame : /\ ref'[f] = owed'[f] + Cardinality(Pending(f)')
                           /\ used'[f] <=> ref'[f] > 0
      <4> TAKE f \in Frame
      <4>1. ref[f] = owed[f] + Cardinality(Pending(f)) /\ (used[f] <=> ref[f] > 0)
        BY <3>1 DEF RefsAccounted
      <4>2. Pending(f)' = Pending(f)
        BY <1>1, <3>1
      <4>3. CASE f = h
        <5>1. used'[f]
          BY ZenonT(30), <3>4, <4>3
        <5>2. ref'[f] = 1 /\ owed'[f] = owed[f] + 1
          BY ZenonT(30), <3>4, <4>3
        <5>3. ref'[f] = owed'[f] + Cardinality(Pending(f)') /\ ref'[f] > 0
          BY <3>3, <4>2, <4>3, <5>2
        <5> QED BY <5>1, <5>3
      <4>4. CASE f # h
        <5>1. ref'[f] = ref[f] /\ owed'[f] = owed[f] /\ used'[f] = used[f]
          BY ZenonT(30), <3>4, <4>4
        <5> QED BY <4>1, <4>2, <5>1
      <4> QED BY <4>3, <4>4
    <3> QED BY <1>1, <3>1, <3>5 DEF EarlyOK, RefsAccounted
  <2> QED BY <2>1, <2>2, <2>3
<1>7. CASE Free
  <2>1. PICK c \in Caller :
          (\E f \in Frame : free_kpages(c, f)) \/ free_kpages_locked(c)
    BY <1>7 DEF Free
  <2>2. ASSUME NEW f \in Frame, free_kpages(c, f)
        PROVE  EarlyOK' /\ PendingFinite' /\ RefsAccounted'
    <3>1. CASE Booted /\ f # 0 /\ used[f]
      <4>1. /\ freeing' = [freeing EXCEPT ![c] = f] /\ owed' = [owed EXCEPT ![f] = @ - 1]
            /\ UNCHANGED <<used, ref, boot>> /\ freeing[c] = Idle /\ owed[f] > 0
        BY <2>2, <3>1 DEF free_kpages, table
      <4>2. \A g \in Frame : Pending(g)' = IF g = f THEN Pending(g) \cup {c} ELSE Pending(g)
        BY <4>1 DEF Pending, TypeOK, Frame, Idle
      <4>3. c \notin Pending(f)
        BY <4>1 DEF Pending, Frame, Idle
      <4>4. PendingFinite'
        BY <4>2, PendingCard DEF PendingFinite
      <4>5. \A g \in Frame : owed'[g] = IF g = f THEN owed[g] - 1 ELSE owed[g]
        BY <4>1 DEF TypeOK
      <4>6. \A g \in Frame : Cardinality(Pending(g)') =
              Cardinality(Pending(g)) + IF g = f THEN 1 ELSE 0
        BY <4>2, <4>3, PendingCard
      <4>7. \A g \in Frame : owed[g] \in Nat /\ Cardinality(Pending(g)) \in Nat
        BY PendingCard DEF TypeOK
      <4>8. RefsAccounted'
        BY <3>1, <4>1, <4>5, <4>6, <4>7 DEF RefsAccounted, Booted
      <4> QED BY <3>1, <4>1, <4>4, <4>8 DEF EarlyOK, Booted
    <3>2. CASE ~(Booted /\ f # 0 /\ used[f])
      BY <1>1, <2>2, <3>2 DEF free_kpages, EarlyOK, RefsAccounted, Booted, Reserved, ram, table
    <3> QED BY <3>1, <3>2
  <2>3. CASE free_kpages_locked(c)
    <3> DEFINE f == freeing[c]
    <3>1. f \in Frame /\ Booted /\ Booted' /\ UNCHANGED <<boot, owed>>
      BY <2>3 DEF free_kpages_locked, TypeOK, EarlyOK, Booted
    <3>2. ref' = [ref EXCEPT ![f] = @ - 1] /\ freeing' = [freeing EXCEPT ![c] = Idle]
      BY <2>3 DEF free_kpages_locked
    <3>3. \A g \in Frame : used'[g] = (used[g] /\ ~(g = f /\ ref[f] - 1 <= 0))
      BY ZenonT(30), <2>3, <3>1 DEF free_kpages_locked, PushFree, TypeOK
    <3>4. c \in Pending(f)
      BY DEF Pending
    <3>5. \A g \in Frame : Pending(g)' = IF g = f THEN Pending(g) \ {c} ELSE Pending(g)
      BY <3>2 DEF Pending, TypeOK, Frame, Idle
    <3>6. \A g \in Frame : ref[g] \in Int /\ ref'[g] = IF g = f THEN ref[g] - 1 ELSE ref[g]
      BY <3>1, <3>2 DEF TypeOK
    <3> HIDE DEF f
    <3>7. PendingFinite'
      BY ZenonT(30), <3>5, PendingCard DEF PendingFinite
    <3>8. \A g \in Frame : Cardinality(Pending(g)') =
              Cardinality(Pending(g)) - IF g = f THEN 1 ELSE 0
      BY <3>4, <3>5, PendingCard
    <3>9. \A g \in Frame : owed[g] \in Nat /\ Cardinality(Pending(g)) \in Nat
      BY PendingCard DEF TypeOK
    <3>10. ref[f] > 0
      BY SMTT(30), <3>1, <3>4, <3>6, <3>9, PendingCard DEF RefsAccounted
    <3>11. \A g \in Frame : ref'[g] = owed'[g] + Cardinality(Pending(g)')
      BY <3>1, <3>6, <3>8, <3>9 DEF RefsAccounted
    <3>12. \A g \in Frame : used'[g] <=> ref'[g] > 0
      <4> TAKE g \in Frame
      <4>1. used[g] <=> ref[g] > 0
        BY <3>1 DEF RefsAccounted
      <4>2. CASE g = f
        <5>1. ref'[g] > 0 <=> ~(ref[f] - 1 <= 0)
          BY <3>1, <3>6, <4>2
        <5> QED BY ZenonT(30), <3>1, <3>3, <3>10, <4>1, <4>2, <5>1
      <4>3. CASE g # f
        BY ZenonT(30), <3>3, <3>6, <4>1, <4>3
      <4> QED BY <4>2, <4>3
    <3> QED BY <3>1, <3>7, <3>11, <3>12 DEF RefsAccounted, EarlyOK
  <2> QED BY <2>1, <2>2, <2>3
<1>8. CASE Share
  <2>1. PICK f \in Frame, modifier \in {1, -1} : frame_ref_mod(f, modifier)
    BY <1>8 DEF Share
  <2>2. Booted /\ Booted' /\ UNCHANGED <<freeing, used>>
    BY <2>1 DEF frame_ref_mod, Booted
  <2>3. \A g \in Frame : owed[g] \in Nat /\ Cardinality(Pending(g)) \in Nat /\ ref[g] \in Int
    BY PendingCard DEF TypeOK
  <2>4. \A g \in Frame : /\ ref'[g] = ref[g] + (IF g = f THEN modifier ELSE 0)
                         /\ owed'[g] = owed[g] + (IF g = f THEN modifier ELSE 0)
    BY <2>1, <2>3 DEF frame_ref_mod, TypeOK
  <2>5. owed[f] > 0 /\ (modifier = -1 => owed[f] > 1)
    BY SMTT(30), <2>1 DEF frame_ref_mod, TypeOK
  <2>6. RefsAccounted'
    BY <1>1, <2>2, <2>3, <2>4, <2>5 DEF RefsAccounted
  <2> QED BY <1>1, <2>2, <2>6 DEF EarlyOK
<1>9. CASE UNCHANGED vars
  BY <1>1, <1>9 DEF vars, EarlyOK, RefsAccounted, Booted, Reserved
<1> QED
  BY <1>3, <1>4, <1>5, <1>6, <1>7, <1>8, <1>9 DEF Next, Boot

(* For any number of frames and callers, in every interleaving of          *)
(* alloc_kpages, the two halves of free_kpages and frame_ref_mod, the      *)
(* count of a frame is the number of references held to it, and it is      *)
(* marked used exactly while there is one.                                 *)
THEOREM ReferencesCounted == Spec => []RefsAccounted
<1>1. Init => RefInv
  BY TypeInit, RefInit DEF RefInv
<1>2. RefInv /\ [Next]_vars => RefInv'
  BY TypeNext, RefNext DEF RefInv
<1>3. RefInv => RefsAccounted
  BY DEF RefInv
<1> QED BY <1>1, <1>2, <1>3, PTL DEF Spec
-----------------------------------------------------------------------------
(* The free list visits exactly the frames of S.                           *)
Visits(s, n, S) == IsFreeList(s, n) /\ \A f \in S : \E i \in 1 .. n : s[i] = f
Lists(S) == \E n \in Nat : \E s \in [1 .. n -> S] : Visits(s, n, S)

ListInv == Booted => Lists(FreeFrames) /\ \A f \in Unlinked : ~used[f]

(* A list without repetitions is no longer than memory.                    *)
LEMMA ListBounded ==
  ASSUME NEW n \in Nat, NEW S \in SUBSET Frame, NEW s \in [1 .. n -> S],
         \A i, j \in 1 .. n : s[i] = s[j] => i = j
  PROVE  n \in 0 .. NFrames
<1>1. IsFiniteSet(Frame) /\ Cardinality(Frame) = NFrames
  BY FrameAssumption, FS_Interval DEF Frame
<1>2. s \in Injection(1 .. n, Frame)
  BY DEF Injection, IsInjective
<1>3. Cardinality(1 .. n) <= Cardinality(Frame)
  BY <1>1, <1>2, FS_Injection
<1>4. Cardinality(1 .. n) = n
  BY FS_Interval
<1> QED BY <1>1, <1>3, <1>4, FrameAssumption

(* What the run checks follows.                                            *)
LEMMA ListInvSound == TypeOK /\ ListInv => FreeListSound
<1> SUFFICES ASSUME TypeOK, ListInv, Booted
             PROVE  \E n \in 0 .. NFrames : \E s \in [1 .. n -> FreeFrames] :
                      /\ IsFreeList(s, n)
                      /\ \A f \in FreeFrames : \E i \in 1 .. n : s[i] = f
  BY DEF FreeListSound
<1>1. PICK n \in Nat : \E s \in [1 .. n -> FreeFrames] : Visits(s, n, FreeFrames)
  BY DEF ListInv, Lists
<1>2. PICK s \in [1 .. n -> FreeFrames] : Visits(s, n, FreeFrames)
  BY <1>1
<1>3. IsFreeList(s, n) /\ \A f \in FreeFrames : \E i \in 1 .. n : s[i] = f
  BY <1>2 DEF Visits
<1>4. FreeFrames \in SUBSET Frame
  BY DEF FreeFrames
<1>5. n \in 0 .. NFrames
  <2>1. \A i, j \in 1 .. n : s[i] = s[j] => i = j
    BY <1>3 DEF IsFreeList
  <2> QED BY SMTT(30), <1>4, <2>1, ListBounded
<1> QED BY <1>3, <1>5

(* TakeHead takes the first of the list.                                   *)
LEMMA ListPop ==
  ASSUME TypeOK, NEW S \in SUBSET Frame, Lists(S), NEW h, firstfreeframe = h, h # Null,
         firstfreeframe' = next_free[firstfreeframe], UNCHANGED next_free
  PROVE  h \in S /\ Lists(S \ {h})'
<1> PICK n \in Nat : \E s \in [1 .. n -> S] : Visits(s, n, S)
  BY DEF Lists
<1> PICK s \in [1 .. n -> S] : Visits(s, n, S)
  OBVIOUS
<1> DEFINE m == n - 1
           t == [i \in 1 .. m |-> s[i + 1]]
           R == S \ {h}
<1>1. n # 0 /\ firstfreeframe = s[1] /\ h = s[1] /\ h \in S
  BY DEF Visits, IsFreeList
<1>2. m \in Nat /\ \A i \in 1 .. m : i + 1 \in 1 .. n /\ i + 1 # 1
  BY <1>1
<1>3. \A i, j \in 1 .. n : s[i] = s[j] => i = j
  BY SMTT(30) DEF Visits, IsFreeList
<1>4. \A i \in 1 .. m : s[i + 1] \in R
  BY <1>1, <1>2, <1>3
<1>5. t \in [1 .. m -> R]
  BY <1>4
<1>6. \A f \in R : \E i \in 1 .. m : t[i] = f
  <2> SUFFICES ASSUME NEW f \in R PROVE \E i \in 1 .. m : t[i] = f
    OBVIOUS
  <2>1. PICK k \in 1 .. n : s[k] = f
    BY DEF Visits
  <2>2. k # 1
    BY <1>1, <2>1
  <2>3. k - 1 \in 1 .. m /\ t[k - 1] = f
    BY <1>1, <2>1, <2>2
  <2> QED BY <2>3
<1>7. firstfreeframe' = IF m = 0 THEN Null ELSE t[1]
  <2>1. next_free[s[1]] = IF 1 = n THEN Null ELSE s[1 + 1]
    <3>1. 1 \in 1 .. n
      BY <1>1
    <3> QED BY <3>1 DEF Visits, IsFreeList
  <2> QED BY <1>1, <2>1
<1>8. \A i \in 1 .. m : next_free'[t[i]] = IF i = m THEN Null ELSE t[i + 1]
  <2> SUFFICES ASSUME NEW i \in 1 .. m PROVE next_free'[t[i]] = IF i = m THEN Null ELSE t[i + 1]
    BY ZenonT(30)
  <2>1. next_free[s[i + 1]] = IF i + 1 = n THEN Null ELSE s[i + 1 + 1]
    BY ZenonT(30), <1>2 DEF Visits, IsFreeList
  <2> QED BY <1>1, <2>1
<1>9. \A i, j \in 1 .. m : t[i] = t[j] => i = j
  BY SMTT(30), <1>2, <1>3
<1> HIDE DEF m, t
<1>10. Visits(t, m, R)'
  BY SMTT(30), <1>2, <1>5, <1>6, <1>7, <1>8, <1>9 DEF Visits, IsFreeList
<1> QED BY ZenonT(30), <1>1, <1>2, <1>5, <1>10 DEF Lists

(* PushFree puts a frame before it.                                        *)
LEMMA ListPush ==
  ASSUME TypeOK, NEW S \in SUBSET Frame, Lists(S), NEW f \in Frame, f \notin S, PushFree(f)
  PROVE  Lists(S \cup {f})'
<1> PICK n \in Nat : \E s \in [1 .. n -> S] : Visits(s, n, S)
  BY DEF Lists
<1> PICK s \in [1 .. n -> S] : Visits(s, n, S)
  OBVIOUS
<1> DEFINE m == n + 1
           t == [i \in 1 .. m |-> IF i = 1 THEN f ELSE s[i - 1]]
           R == S \cup {f}
<1>1. firstfreeframe' = f /\ \A g \in Frame : next_free'[g] = IF g = f THEN firstfreeframe ELSE next_free[g]
  BY DEF PushFree, TypeOK
<1>2. m \in Nat /\ \A i \in 1 .. m : i # 1 => i - 1 \in 1 .. n
  OBVIOUS
<1>3. \A i, j \in 1 .. n : s[i] = s[j] => i = j
  BY DEF Visits, IsFreeList
<1>4. \A i \in 1 .. n : s[i] \in S /\ s[i] # f /\ s[i] \in Frame
  OBVIOUS
<1>5. t \in [1 .. m -> R]
  BY <1>2, <1>4
<1>6. \A g \in R : \E i \in 1 .. m : t[i] = g
  <2> SUFFICES ASSUME NEW g \in R PROVE \E i \in 1 .. m : t[i] = g
    OBVIOUS
  <2>1. CASE g = f
    BY <2>1, 1 \in 1 .. m
  <2>2. CASE g \in S
    <3>1. PICK k \in 1 .. n : s[k] = g
      BY <2>2 DEF Visits
    <3>2. k + 1 \in 1 .. m /\ t[k + 1] = g
      BY <3>1
    <3> QED BY <3>2
  <2> QED BY <2>1, <2>2
<1>7. firstfreeframe' = IF m = 0 THEN Null ELSE t[1]
  BY SMTT(30), <1>1
<1>8. \A i \in 1 .. m : next_free'[t[i]] = IF i = m THEN Null ELSE t[i + 1]
  <2> SUFFICES ASSUME NEW i \in 1 .. m PROVE next_free'[t[i]] = IF i = m THEN Null ELSE t[i + 1]
    BY ZenonT(30)
  <2>1. CASE i = 1
    <3>1. firstfreeframe = IF n = 0 THEN Null ELSE s[1]
      BY SMTT(30) DEF Visits, IsFreeList
    <3> QED BY SMTT(30), <1>1, <2>1, <3>1
  <2>2. CASE i # 1
    <3>1. i - 1 \in 1 .. n
      BY <1>2, <2>2
    <3>2. next_free[s[i - 1]] = IF i - 1 = n THEN Null ELSE s[i - 1 + 1]
      BY <3>1 DEF Visits, IsFreeList
    <3>3. next_free'[s[i - 1]] = next_free[s[i - 1]]
      BY <1>1, <1>4, <3>1
    <3> QED BY <2>2, <3>1, <3>2, <3>3
  <2> QED BY SMTT(30), <2>1, <2>2
<1>9. \A i, j \in 1 .. m : t[i] = t[j] => i = j
  <2> SUFFICES ASSUME NEW i \in 1 .. m, NEW j \in 1 .. m, t[i] = t[j] PROVE i = j
    OBVIOUS
  <2>1. CASE i = 1 \/ j = 1
    BY <1>2, <1>4, <2>1
  <2>2. CASE i # 1 /\ j # 1
    <3>1. i - 1 = j - 1
      BY SMTT(30), <1>2, <1>3, <2>2
    <3> QED BY <3>1
  <2> QED BY <2>1, <2>2
<1> HIDE DEF m, t
<1>10. Visits(t, m, R)'
  BY <1>2, <1>5, <1>6, <1>7, <1>8, <1>9 DEF Visits, IsFreeList
<1> QED BY <1>1, <1>2, <1>5, <1>10 DEF Lists
(* Steps that leave the table alone.                                       *)
LEMMA ListSame ==
  ASSUME UNCHANGED <<boot, bumpallocated, used, next_free, firstfreeframe>>, ListInv
  PROVE  ListInv'
<1>1. FreeFrames' = FreeFrames /\ Unlinked' = Unlinked
  BY DEF FreeFrames, Unlinked, LastLinked, freeframes
<1>2. Lists(FreeFrames) => Lists(FreeFrames)'
  BY <1>1 DEF Lists, Visits, IsFreeList
<1> QED BY <1>1, <1>2 DEF ListInv, Booted

(* The list frametable_bootstrap builds.                                   *)
LEMMA ListBuilt == ASSUME TypeOK, RamOK, BuildFreeList PROVE ListInv'
<1> PICK base : base = bumpallocated
  OBVIOUS
<1> DEFINE last == LastLinked(base)
           n == last - base + 1
           s == [i \in 1 .. n |-> base + i - 1]
<1>1. base \in Frame /\ last \in Frame /\ base <= last /\ n \in Nat /\ n # 0
  BY FrameAssumption DEF TypeOK, RamOK, BuildFreeList, LastLinked, freeframes, Frame
<1>2. bumpallocated' = base /\ firstfreeframe' = base
  BY DEF BuildFreeList
<1>3. \A f \in Frame : /\ used'[f] = (f < base)
                       /\ next_free'[f] = IF base <= f /\ f < last THEN f + 1 ELSE Null
  BY DEF BuildFreeList
<1>4. LastLinked(bumpallocated)' = last
  BY <1>2 DEF LastLinked, freeframes
<1> HIDE DEF last
<1>5. Unlinked' = {f \in Frame : f > last} /\ FreeFrames' = base .. last
  <2>1. Unlinked' = {f \in Frame : f > last}
    BY <1>4 DEF Unlinked
  <2>2. FreeFrames' = {f \in Frame : ~(f < base)} \ {f \in Frame : f > last}
    BY ZenonT(30), <1>3, <2>1 DEF FreeFrames
  <2>3. base .. last = {f \in Frame : ~(f < base)} \ {f \in Frame : f > last}
    BY <1>1, FrameAssumption DEF Frame
  <2> QED BY <2>1, <2>2, <2>3
<1>6. \A f \in Unlinked' : ~used'[f]
  <2>1. \A f \in Unlinked' : f \in Frame /\ ~(f < base)
    BY <1>1, <1>5 DEF Frame
  <2> QED BY ZenonT(30), <1>3, <2>1
<1>7. s \in [1 .. n -> base .. last]
  BY <1>1 DEF Frame
<1>8. \A f \in base .. last : f - base + 1 \in 1 .. n /\ s[f - base + 1] = f
  BY <1>1 DEF Frame
<1>9. \A i \in 1 .. n : next_free'[s[i]] = IF i = n THEN Null ELSE s[i + 1]
  <2> TAKE i \in 1 .. n
  <2>1. s[i] = base + i - 1 /\ s[i] \in Frame /\ (i # n => s[i + 1] = s[i] + 1) /\ base <= s[i]
    BY <1>1, FrameAssumption DEF Frame
  <2>2. s[i] < last <=> i # n
    BY <1>1 DEF Frame
  <2> QED BY <1>3, <2>1, <2>2
<1>10. \A i, j \in 1 .. n : s[i] = s[j] => i = j
  BY <1>1 DEF Frame
<1>11. s[1] = base
  BY <1>1 DEF Frame
<1> HIDE DEF s, n
<1>12. IsFreeList(s, n)'
  BY <1>1, <1>2, <1>9, <1>10, <1>11 DEF IsFreeList
<1>13. Lists(FreeFrames)'
  BY <1>1, <1>5, <1>7, <1>8, <1>12 DEF Lists, Visits
<1> QED BY <1>6, <1>13 DEF ListInv
(* Every step keeps the list: the frame free_kpages puts back was in use,  *)
(* since its reference was still counted, and so was not on it.            *)
LEMMA ListNext == RefInv /\ ListInv /\ [Next]_vars => ListInv'
<1> SUFFICES ASSUME RefInv, ListInv, [Next]_vars PROVE ListInv'
  OBVIOUS
<1> USE DEF RefInv
<1>1. ASSUME ~Booted' PROVE ListInv'
  BY <1>1 DEF ListInv
<1>2. CASE vm_bootstrap \/ frametable_bootstrap \/ ram_getfirstfree \/ BuildRunsOff
  BY <1>1, <1>2 DEF vm_bootstrap, frametable_bootstrap, BootReserve, ram_getfirstfree, BuildRunsOff, Booted
<1>3. CASE BuildFreeList
  BY <1>3, ListBuilt
<1>4. CASE Alloc
  <2>1. PICK npages \in 1 .. MaxRequest : alloc_kpages_early(npages) \/ alloc_kpages(npages)
    BY <1>4 DEF Alloc
  <2>2. CASE alloc_kpages_early(npages)
    BY <1>1, <2>2 DEF alloc_kpages_early, Booted
  <2>3. CASE alloc_kpages(npages)
    <3>1. PICK h : h = firstfreeframe
      OBVIOUS
    <3>2. PICK S : S = FreeFrames
      OBVIOUS
    <3>3. Booted /\ h # Null /\ h \in Frame /\ TakeHead /\ UNCHANGED bumpallocated
      BY <2>3, <3>1 DEF alloc_kpages, Available, TypeOK
    <3>4. S \in SUBSET Frame /\ Lists(S)
      BY <3>2, <3>3 DEF FreeFrames, ListInv
    <3>5. h \in S /\ Lists(S \ {h})'
      BY SMTT(30), <3>1, <3>3, <3>4, ListPop DEF TakeHead
    <3>6. Unlinked' = Unlinked /\ \A f \in Frame : used'[f] = (f = h \/ used[f])
      BY ZenonT(30), <3>1, <3>3 DEF TakeHead, TypeOK, Unlinked, LastLinked, freeframes
    <3>7. FreeFrames' = S \ {h}
      BY ZenonT(30), <3>2, <3>6 DEF FreeFrames
    <3>8. \A f \in Unlinked' : ~used'[f]
      <4>1. h \notin Unlinked /\ Unlinked \subseteq Frame
        BY <3>2, <3>5 DEF FreeFrames, Unlinked
      <4> QED BY ZenonT(30), <3>3, <3>6, <4>1 DEF ListInv
    <3> QED BY <3>5, <3>7, <3>8 DEF ListInv, Lists
  <2> QED BY <2>1, <2>2, <2>3
<1>5. CASE Free
  <2>1. PICK c \in Caller : (\E f \in Frame : free_kpages(c, f)) \/ free_kpages_locked(c)
    BY <1>5 DEF Free
  <2>2. CASE \E f \in Frame : free_kpages(c, f)
    BY <2>2, ListSame DEF free_kpages, table
  <2>3. CASE free_kpages_locked(c)
    <3>1. PICK f : f = freeing[c]
      OBVIOUS
    <3>2. Booted /\ f \in Frame /\ UNCHANGED <<boot, bumpallocated>>
      BY <2>3, <3>1 DEF free_kpages_locked, TypeOK, EarlyOK
    <3>3. CASE ~(ref[f] - 1 <= 0)
      BY <2>3, <3>1, <3>3, ListSame DEF free_kpages_locked
    <3>4. CASE ref[f] - 1 <= 0
      <4>1. PICK S : S = FreeFrames
        OBVIOUS
      <4>2. PushFree(f)
        BY SMTT(30), <2>3, <3>1, <3>4 DEF free_kpages_locked
      <4>3. used[f]
        <5>1. c \in Pending(f)
          BY SMTT(30), <3>1 DEF Pending
        <5>2. ref[f] > 0
          BY <3>2, <5>1, PendingCard DEF RefsAccounted, TypeOK
        <5> QED BY <3>2, <5>2 DEF RefsAccounted
      <4>4. f \notin S /\ f \notin Unlinked /\ S \in SUBSET Frame /\ Lists(S)
        BY <3>2, <4>1, <4>3 DEF FreeFrames, ListInv
      <4>5. Lists(S \cup {f})'
        BY SMTT(30), <3>2, <4>2, <4>4, ListPush
      <4>6. Unlinked' = Unlinked /\ \A g \in Frame : used'[g] = (g # f /\ used[g])
        BY ZenonT(30), <3>2, <4>2 DEF PushFree, TypeOK, Unlinked, LastLinked, freeframes
      <4>7. FreeFrames' = S \cup {f}
        BY ZenonT(30), <3>2, <4>1, <4>4, <4>6 DEF FreeFrames
      <4>8. \A g \in Unlinked' : ~used'[g]
        BY ZenonT(30), <3>2, <4>6 DEF ListInv, Unlinked
      <4> QED BY <4>5, <4>7, <4>8 DEF ListInv, Lists
    <3> QED BY <3>3, <3>4
  <2> QED BY <2>1, <2>2, <2>3
<1>6. CASE Share
  <2>1. PICK f \in Frame, modifier \in {1, -1} : frame_ref_mod(f, modifier)
    BY <1>6 DEF Share
  <2> QED BY <2>1, ListSame DEF frame_ref_mod
<1>7. CASE UNCHANGED vars
  BY <1>7, ListSame DEF vars
<1> QED
  BY <1>2, <1>3, <1>4, <1>5, <1>6, <1>7 DEF Next, Boot

(* For any number of frames and callers the chain of free frames visits    *)
(* every free frame that bootstrap linked exactly once, and ends: no frame *)
(* in use is ever handed out again, and no free one is lost.               *)
THEOREM FreeListCorrect == Spec => []FreeListSound
<1>1. Init => RefInv /\ ListInv
  BY TypeInit, RefInit DEF RefInv, ListInv, Init, Booted
<1>2. RefInv /\ ListInv /\ [Next]_vars => (RefInv /\ ListInv)'
  BY TypeNext, RefNext, ListNext DEF RefInv
<1>3. RefInv /\ ListInv => FreeListSound
  BY ListInvSound DEF RefInv
<1> QED BY <1>1, <1>2, <1>3, PTL DEF Spec
=============================================================================
