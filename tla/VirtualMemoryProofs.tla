------------------------ MODULE VirtualMemoryProofs -------------------------
(***************************************************************************)
(* Proofs about VirtualMemory, for any number of processes, address        *)
(* spaces, pages, frames and processors, and any hash function.            *)
(***************************************************************************)
EXTENDS VirtualMemory, FiniteSetTheorems, TLAPS

(* The leaves are mostly set reasoning: try Zenon first, then SMT.         *)
USE ZenonT(30), SMTT(30)

-----------------------------------------------------------------------------
(* Counting the entries of a page table that refer to a frame.             *)

PageTable == [AS -> [Page -> PTE \cup {Null}]]

MappersIn(pt, f) == {m \in AS \X Page : pt[m[1]][m[2]] # Null
                                        /\ pt[m[1]][m[2]].frame = f}

(* Two page tables translate page v of a alike.                            *)
Alike(pt, pt2, a, v) ==
  /\ pt[a][v] = Null <=> pt2[a][v] = Null
  /\ pt[a][v] # Null => pt2[a][v].frame = pt[a][v].frame

(* No two pages of an address space have the same frame.                   *)
Injective(pages) ==
  \A v, w \in Page : pages[v] # Null /\ pages[w] # Null /\ pages[v].frame = pages[w].frame
                       => v = w

Uses(pages, f) == \E v \in Page : pages[v] # Null /\ pages[v].frame = f

(* There are finitely many entries.                                        *)
LEMMA MappersFinite ==
  ASSUME NEW pt, NEW f
  PROVE  IsFiniteSet(MappersIn(pt, f))
<1>1. IsFiniteSet(AS \X Page)
  BY FS_Product, VMAssumption
<1>2. MappersIn(pt, f) \subseteq AS \X Page
  BY DEF MappersIn
<1> QED BY <1>1, <1>2, FS_Subset

(* Page tables that translate alike have the same mappers.                 *)
LEMMA SameMappers ==
  ASSUME NEW pt, NEW pt2, NEW f,
         \A a \in AS, v \in Page : Alike(pt, pt2, a, v)
  PROVE  MappersIn(pt2, f) = MappersIn(pt, f)
BY SMTT(60) DEF MappersIn, Alike

(* Filling an empty address space adds one mapper to the frames it uses.   *)
LEMMA OneSpaceMore ==
  ASSUME NEW pt, NEW pt2, NEW a \in AS, NEW f,
         \A b \in AS \ {a}, v \in Page : Alike(pt, pt2, b, v),
         \A v \in Page : pt[a][v] = Null,
         Injective(pt2[a])
  PROVE  Cardinality(MappersIn(pt2, f)) =
           Cardinality(MappersIn(pt, f)) + (IF Uses(pt2[a], f) THEN 1 ELSE 0)
<1>1. CASE Uses(pt2[a], f)
  <2>1. PICK v \in Page : pt2[a][v] # Null /\ pt2[a][v].frame = f
    BY <1>1 DEF Uses
  <2>2. \A w \in Page : pt2[a][w] # Null /\ pt2[a][w].frame = f => w = v
    BY <2>1 DEF Injective
  <2>3. <<a, v>> \notin MappersIn(pt, f)
    BY <2>1 DEF MappersIn
  <2>4. MappersIn(pt2, f) = MappersIn(pt, f) \cup {<<a, v>>}
    <3>1. ASSUME NEW m \in MappersIn(pt2, f), m # <<a, v>>
          PROVE  m \in MappersIn(pt, f)
      <4>1. m \in AS \X Page /\ pt2[m[1]][m[2]] # Null /\ pt2[m[1]][m[2]].frame = f
        BY DEF MappersIn
      <4>2. m[1] # a
        BY SMTT(60), <4>1, <3>1, <2>2
      <4> QED BY SMTT(60), <4>1, <4>2 DEF MappersIn, Alike
    <3>2. ASSUME NEW m \in MappersIn(pt, f) PROVE m \in MappersIn(pt2, f)
      BY SMTT(60) DEF MappersIn, Alike
    <3>3. <<a, v>> \in MappersIn(pt2, f)
      BY <2>1 DEF MappersIn
    <3> QED BY <3>1, <3>2, <3>3
  <2> QED BY <1>1, <2>3, <2>4, MappersFinite, FS_AddElement
<1>2. CASE ~Uses(pt2[a], f)
  <2>1. MappersIn(pt2, f) = MappersIn(pt, f)
    BY SMTT(60), <1>2 DEF MappersIn, Alike, Uses
  <2>2. Cardinality(MappersIn(pt, f)) \in Nat
    BY MappersFinite, FS_CardinalityType
  <2> QED BY <1>2, <2>1, <2>2
<1> QED BY <1>1, <1>2

(* Setting one entry.                                                      *)
LEMMA OneEntrySet ==
  ASSUME NEW pt, NEW pt2, NEW a \in AS, NEW v \in Page, NEW e \in PTE, NEW f,
         pt2[a][v] = e,
         \A b \in AS, w \in Page : <<b, w>> # <<a, v>> => pt2[b][w] = pt[b][w]
  PROVE  /\ e.frame = f => MappersIn(pt2, f) = MappersIn(pt, f) \cup {<<a, v>>}
         /\ e.frame # f => MappersIn(pt2, f) = MappersIn(pt, f) \ {<<a, v>>}
<1>1. e # Null
  BY VMAssumption
<1>3. \A m \in AS \X Page : m = <<m[1], m[2]>> /\ m[1] \in AS /\ m[2] \in Page
  OBVIOUS
<1>4. \A m \in AS \X Page : m # <<a, v>> => pt2[m[1]][m[2]] = pt[m[1]][m[2]]
  BY SMTT(60), <1>3
<1>5. \A m \in AS \X Page : m # <<a, v>> => (m \in MappersIn(pt2, f) <=> m \in MappersIn(pt, f))
  BY <1>4 DEF MappersIn
<1>6. <<a, v>> \in MappersIn(pt2, f) <=> e.frame = f
  BY <1>1 DEF MappersIn
<1>7. MappersIn(pt2, f) \subseteq AS \X Page /\ MappersIn(pt, f) \subseteq AS \X Page
  BY DEF MappersIn
<1> QED BY <1>5, <1>6, <1>7

-----------------------------------------------------------------------------
(* Type correctness.                                                       *)

(* The initial state is well typed.                                        *)
LEMMA TypeInit == Init => TypeOK
<1> SUFFICES ASSUME Init PROVE TypeOK
  OBVIOUS
<1>1. regions \in [AS -> Seq(Region)]
  BY DEF Init
<1>2. pte \in [AS -> [Page -> PTE \cup {Null}]]
  BY DEF Init, NoPages
<1> QED BY <1>1, <1>2 DEF Init, TypeOK

(* The frames of an address space are frames.                              *)
LEMMA FramesType ==
  ASSUME TypeOK, NEW a \in AS
  PROVE  FramesOf(a) \subseteq Frame
<1>1. \A v \in Mapped(a) : pte[a][v] \in PTE
  BY SMTT(60) DEF TypeOK, Mapped
<1> QED BY <1>1 DEF FramesOf, PTE

(* A frame that an entry refers to, or that is in the heap, has a count.   *)
LEMMA Counted ==
  ASSUME TypeOK, RefCountsExact, NEW f \in Frame, Mappers(f) # {} \/ f \in kheap
  PROVE  ref[f] \in Nat /\ ref[f] >= 1
<1>1. Mappers(f) = MappersIn(pte, f)
  BY DEF Mappers, MappersIn
<1>2. IsFiniteSet(Mappers(f))
  BY <1>1, MappersFinite
<1>3. Cardinality(Mappers(f)) \in Nat
  BY <1>2, FS_CardinalityType
<1>4. Mappers(f) # {} => Cardinality(Mappers(f)) # 0
  BY <1>2, FS_EmptySet
<1>5. ref[f] = Cardinality(Mappers(f)) + (IF f \in kheap THEN 1 ELSE 0)
  BY DEF RefCountsExact
<1> QED BY <1>3, <1>4, <1>5

(* Giving up counted references leaves no negative count.                  *)
LEMMA ReleasedType ==
  ASSUME TypeOK, RefCountsExact, NEW S \in SUBSET Frame,
         \A f \in S : Mappers(f) # {} \/ f \in kheap
  PROVE  Released(S) \in [Frame -> Nat]
<1>1. \A f \in S : ref[f] - 1 \in Nat
  BY Counted
<1>2. \A f \in Frame : ref[f] \in Nat
  BY DEF TypeOK
<1> QED BY <1>1, <1>2 DEF Released

(* A frame of an address space has an entry that refers to it.             *)
LEMMA FramesMapped ==
  ASSUME TypeOK, NEW a \in AS, NEW f \in FramesOf(a)
  PROVE  Mappers(f) # {} /\ f \in Frame
<1>1. PICK v \in Mapped(a) : f = pte[a][v].frame
  BY DEF FramesOf
<1>2. <<a, v>> \in Mappers(f)
  BY <1>1 DEF Mappers, Mapped
<1> QED BY <1>2, FramesType

(* Taking the dirty bits away leaves a page table.                         *)
LEMMA ReadOnlyType ==
  ASSUME NEW S \in SUBSET Page, NEW pages \in [Page -> PTE \cup {Null}],
         \A v \in S : pages[v] # Null
  PROVE  /\ ReadOnly(S, pages) \in [Page -> PTE \cup {Null}]
         /\ \A v \in Page : /\ ReadOnly(S, pages)[v] = Null <=> pages[v] = Null
                            /\ pages[v] # Null => ReadOnly(S, pages)[v].frame = pages[v].frame
                            /\ ReadOnly(S, pages)[v] # Null /\ ReadOnly(S, pages)[v].dirty
                                 => v \notin S /\ pages[v].dirty
<1> DEFINE r(v) == [pages[v] EXCEPT !.dirty = FALSE]
<1>1. \A v \in S : pages[v] \in PTE
  OBVIOUS
<1>2. \A v \in S : /\ r(v) \in PTE /\ r(v).frame = pages[v].frame /\ r(v).dirty = FALSE
  BY <1>1 DEF PTE
<1>3. \A v \in S : r(v) # Null
  BY <1>2, VMAssumption
<1>4. \A v \in Page : ReadOnly(S, pages)[v] = IF v \in S THEN r(v) ELSE pages[v]
  BY DEF ReadOnly
<1>5. ReadOnly(S, pages) = [v \in Page |-> IF v \in S THEN r(v) ELSE pages[v]]
  BY DEF ReadOnly
<1> HIDE DEF r
<1>6. ReadOnly(S, pages) \in [Page -> PTE \cup {Null}]
  BY <1>2, <1>5
<1> QED BY <1>2, <1>3, <1>4, <1>6

(* A copy of a list of regions is one.                                     *)
LEMMA CopyRegionsType ==
  ASSUME NEW list \in Seq(Region)
  PROVE  CopyRegions(list) \in Seq(Region)
<1>1. \A i \in 1 .. Len(list) : list[Len(list) + 1 - i] \in Region
  OBVIOUS
<1>2. \A i \in 1 .. Len(list) :
        LET r == list[Len(list) + 1 - i] IN [r EXCEPT !.perms = @ \ {"M"}] \in Region
  BY <1>1 DEF Region
<1> QED BY <1>2 DEF CopyRegions

(* The regions of the program.                                             *)
LEMMA LoadRegionsType == LoadRegions \in Seq(Region)
<1>1. \A i \in 1 .. Len(Segments) : Segments[Len(Segments) + 1 - i] \in Segment
  BY SMTT(60), VMAssumption
<1>2. \A s \in Segment : [pages |-> s.pages, perms |-> prepared(s.perms)] \in Region
  BY DEF Segment, Region, Perm, prepared
<1>3. Len(Segments) \in Nat
  BY SMTT(60), VMAssumption
<1> QED BY <1>1, <1>2, <1>3 DEF LoadRegions

(* The pages the loader writes.                                            *)
LEMMA LoadPagesType == LoadPages \subseteq Page
<1>1. \A i \in 1 .. Len(Segments) : Segments[i] \in Segment
  BY SMTT(60), VMAssumption
<1> QED BY SMTT(60), <1>1 DEF LoadPages, Segment

(* as_complete_load leaves a list of regions.                              *)
LEMMA RestoredRegionsType ==
  ASSUME TypeOK, NEW a \in AS
  PROVE  <<StackRegion>> \o RestoredRegions(a) \in Seq(Region)
<1>1. regions[a] \in Seq(Region)
  BY DEF TypeOK
<1>2. \A r \in Region : [r EXCEPT !.perms = restored(@)] \in Region
  BY DEF Region, restored
<1>3. RestoredRegions(a) \in Seq(Region)
  BY <1>1, <1>2 DEF RestoredRegions
<1>4. StackRegion \in Region
  BY VMAssumption DEF StackRegion, Region, Perm
<1> QED BY <1>3, <1>4

(* as_activate keeps the types of the TLBs.                                *)
LEMMA ActivateType ==
  ASSUME TypeOK, NEW c \in CPU, NEW a, as_activate(c, a)
  PROVE  tlb' \in [CPU -> SUBSET TLBEntry] /\ unflushed' \subseteq CPU
<1>1. CASE a = Null
  BY <1>1 DEF as_activate, TypeOK
<1>2. CASE a # Null
  BY <1>2 DEF as_activate, TypeOK
<1> QED BY <1>1, <1>2

(* as_destroy keeps the types.                                             *)
LEMMA DestroyType ==
  ASSUME TypeOK, RefCountsExact, NEW a \in AS, as_destroy(a)
  PROVE  /\ live' \subseteq AS /\ regions' \in [AS -> Seq(Region)]
         /\ pte' \in [AS -> [Page -> PTE \cup {Null}]]
         /\ free' \subseteq Frame /\ ref' \in [Frame -> Nat] /\ kheap' \subseteq Frame
<1>1. ref' \in [Frame -> Nat]
  BY FramesMapped, FramesType, ReleasedType DEF as_destroy
<1>2. free' \subseteq Frame /\ kheap' \subseteq Frame
  BY FramesType DEF as_destroy, Freed, TypeOK
<1>3. regions' \in [AS -> Seq(Region)]
  BY SMTT(60) DEF as_destroy, TypeOK
<1>4. NoPages \in [Page -> PTE \cup {Null}]
  BY DEF NoPages
<1>5. pte' \in [AS -> [Page -> PTE \cup {Null}]]
  BY <1>4 DEF as_destroy, TypeOK
<1>6. live' \subseteq AS
  BY DEF as_destroy, TypeOK
<1> QED BY <1>1, <1>2, <1>3, <1>5, <1>6

(* A fault keeps the types, whatever its outcome.                          *)
LEMMA FaultType ==
  ASSUME TypeOK, RefCountsExact, NEW c \in CPU, NEW p \in Proc, NEW v \in Page,
         NEW write \in BOOLEAN, vm_fault(c, p, v, write)
  PROVE  TypeOK'
<1> DEFINE a == as[p]
<1>1. a \in AS
  BY DEF vm_fault, TypeOK
<1> HIDE DEF a
<1>2. ASSUME NEW w \in Page, NEW e \in PTE, SetPTE(a, w, e)
      PROVE  pte' \in [AS -> [Page -> PTE \cup {Null}]]
  BY <1>1, <1>2 DEF TypeOK, SetPTE
<1>3. ASSUME NEW e \in PTE, Fill(p, v, e)
      PROVE  filling' \in [Proc -> TLBEntry \cup {Null}]
  <2>1. [page |-> v, frame |-> e.frame, dirty |-> e.dirty] \in TLBEntry
    BY DEF PTE, TLBEntry
  <2> QED BY <2>1, <1>3 DEF Fill, TypeOK
<1>4. ASSUME NEW w \in find_page(a, v)
      PROVE  w \in Page /\ pte[a][w] \in PTE /\ pte[a][w].frame \in Frame
             /\ ref[pte[a][w].frame] \in Nat /\ ref[pte[a][w].frame] >= 1
  <2>1. w \in Page /\ pte[a][w] # Null
    BY <1>4 DEF find_page, Mapped
  <2>2. pte[a][w] \in PTE
    BY SMTT(60), <2>1, <1>1 DEF TypeOK
  <2>3. pte[a][w].frame \in FramesOf(a)
    BY <1>4 DEF find_page, FramesOf
  <2> QED BY <2>1, <2>2, <2>3, <1>1, FramesMapped, Counted
<1>5. \A f \in Frame, d \in BOOLEAN : [frame |-> f, dirty |-> d] \in PTE
  BY DEF PTE
<1>6. /\ free' \subseteq Frame /\ ref' \in [Frame -> Nat]
      /\ pte' \in [AS -> [Page -> PTE \cup {Null}]]
      /\ filling' \in [Proc -> TLBEntry \cup {Null}]
  <2>1. CASE create_page(p, a, v)
    <3>1. PICK f \in Frame :
            LET e == [frame |-> f, dirty |-> "W" \in as_check_valid_addr(a, v).perms]
            IN  /\ alloc_kpages(f) /\ ref' = [ref EXCEPT ![f] = 1]
                /\ SetPTE(a, v, e) /\ Fill(p, v, e)
      BY <2>1 DEF create_page
    <3>2. [frame |-> f, dirty |-> "W" \in as_check_valid_addr(a, v).perms] \in PTE
      BY DEF PTE
    <3>3. free' \subseteq Frame /\ ref' \in [Frame -> Nat]
      BY <3>1 DEF alloc_kpages, TypeOK
    <3> QED BY <3>1, <3>2, <3>3, <1>2, <1>3
  <2>2. CASE use_page(p, a, v, write)
    BY <2>2, <1>3, <1>4 DEF use_page, TypeOK
  <2>3. CASE readonwrite(p, a, v)
    <3>1. PICK w \in find_page(a, v) :
            LET from == pte[a][w].frame
                e(f) == [frame |-> f, dirty |-> TRUE]
            IN  \/ /\ SetPTE(a, w, e(from)) /\ Fill(p, v, e(from))
                   /\ UNCHANGED <<free, ref>>
                \/ \E f \in Frame : /\ alloc_kpages(f) /\ MoveReference(from, f)
                                    /\ SetPTE(a, w, e(f)) /\ Fill(p, v, e(f))
      BY <2>3 DEF readonwrite
    <3>2. CASE /\ SetPTE(a, w, [frame |-> pte[a][w].frame, dirty |-> TRUE])
               /\ Fill(p, v, [frame |-> pte[a][w].frame, dirty |-> TRUE])
               /\ UNCHANGED <<free, ref>>
      BY <3>2, <1>2, <1>3, <1>4, <1>5 DEF TypeOK
    <3>3. CASE \E f \in Frame : /\ alloc_kpages(f) /\ MoveReference(pte[a][w].frame, f)
                                /\ SetPTE(a, w, [frame |-> f, dirty |-> TRUE])
                                /\ Fill(p, v, [frame |-> f, dirty |-> TRUE])
      <4>1. PICK f \in Frame : /\ alloc_kpages(f) /\ MoveReference(pte[a][w].frame, f)
                               /\ SetPTE(a, w, [frame |-> f, dirty |-> TRUE])
                               /\ Fill(p, v, [frame |-> f, dirty |-> TRUE])
        BY <3>3
      <4>2. free' \subseteq Frame /\ ref' \in [Frame -> Nat]
        <5>1. ref[pte[a][w].frame] - 1 \in Nat /\ pte[a][w].frame \in Frame
          BY <1>4
        <5>2. ref \in [Frame -> Nat] /\ free \subseteq Frame
          BY DEF TypeOK
        <5> QED BY <4>1, <5>1, <5>2 DEF alloc_kpages, MoveReference
      <4> QED BY <4>1, <4>2, <1>2, <1>3, <1>4, <1>5
    <3> QED BY <3>1, <3>2, <3>3
  <2> QED BY <2>1, <2>2, <2>3 DEF vm_fault, a
<1>7. UNCHANGED <<exe, live, regions, kheap, cpus, panicked>>
  BY DEF vm_fault
<1> QED BY <1>6, <1>7 DEF TypeOK, exe, cpus

(* fork keeps the types.                                                   *)
LEMMA ForkType ==
  ASSUME TypeOK, NEW c \in CPU, NEW p \in Proc, NEW child \in Proc, NEW new \in AS,
         as[p] # Null, sys_fork(c, p, child, new)
  PROVE  TypeOK'
<1> DEFINE old == as[p]
<1>1. old \in AS
  BY DEF TypeOK
<1> HIDE DEF old
<1>2. as_copy(old, new) /\ UNCHANGED <<oldas, todo, free, kheap, curproc, tlb, filling, panicked>>
  BY DEF sys_fork, old
<1>3. as' \in [Proc -> AS \cup {Null}] /\ mode' \in [Proc -> {"none", "new", "user", "load", "args"}]
  BY DEF sys_fork, TypeOK
<1>4. unflushed' \subseteq CPU /\ live' \subseteq AS
  BY DEF sys_fork, as_copy, TypeOK
<1>5. ref' \in [Frame -> Nat]
  BY SMTT(60), <1>2 DEF as_copy, TypeOK
<1>6. regions' \in [AS -> Seq(Region)]
  BY <1>1, <1>2, CopyRegionsType DEF as_copy, TypeOK
<1>7. pte' \in [AS -> [Page -> PTE \cup {Null}]]
  <2>1. ReadOnly(Mapped(old), pte[old]) \in [Page -> PTE \cup {Null}]
    BY <1>1, ReadOnlyType DEF TypeOK, Mapped
  <2>2. pte' = [pte EXCEPT ![old] = ReadOnly(Mapped(old), pte[old]),
                           ![new] = ReadOnly(Mapped(old), pte[old])]
    BY <1>2 DEF as_copy
  <2> QED BY <2>1, <2>2, <1>1 DEF TypeOK
<1> QED BY <1>2, <1>3, <1>4, <1>5, <1>6, <1>7 DEF TypeOK

(* What loadexec_commits does to the frame table and the page tables.      *)
LEMMA CommitType ==
  ASSUME TypeOK, RefCountsExact, NEW c \in CPU, NEW p \in Proc, as[p] # Null,
         loadexec_commits(c, p)
  PROVE  TypeOK'
<1> DEFINE a == as[p]
           o == oldas[p]
           gone == IF o = Null THEN {} ELSE FramesOf(o)
<1>1. a \in AS /\ o \in AS \cup {Null}
  BY DEF TypeOK
<1>2. gone \subseteq Frame /\ \A f \in gone : Mappers(f) # {}
  BY <1>1, FramesType, FramesMapped
<1>3. /\ ref' = Released(gone) /\ free' = free \cup Freed(gone)
      /\ pte' = [b \in AS |-> IF b = o THEN NoPages
                              ELSE [pte EXCEPT ![a] = ReadOnly(Restore(a), @)][b]]
      /\ regions' = [b \in AS |->
           IF b = o THEN <<>>
           ELSE [regions EXCEPT ![a] = <<StackRegion>> \o RestoredRegions(a)][b]]
      /\ live' = live \ {o} /\ as_activate(c, a)
      /\ oldas' = [oldas EXCEPT ![p] = Null]
      /\ mode' = [mode EXCEPT ![p] = "args"] /\ todo' = [todo EXCEPT ![p] = ArgPages]
      /\ UNCHANGED <<as, kheap, curproc, filling, panicked>>
  BY DEF loadexec_commits
<1> HIDE DEF gone, a, o
<1>4. ref' \in [Frame -> Nat]
  BY <1>2, <1>3, ReleasedType
<1>5. free' \subseteq Frame /\ live' \subseteq AS
  BY <1>2, <1>3 DEF Freed, TypeOK
<1>6. pte' \in [AS -> [Page -> PTE \cup {Null}]]
  <2>1. ReadOnly(Restore(a), pte[a]) \in [Page -> PTE \cup {Null}]
    BY <1>1, ReadOnlyType DEF TypeOK, Restore, Mapped
  <2>2. NoPages \in [Page -> PTE \cup {Null}]
    BY DEF NoPages
  <2> QED BY <2>1, <2>2, <1>1, <1>3 DEF TypeOK
<1>7. regions' \in [AS -> Seq(Region)]
  <2>1. <<StackRegion>> \o RestoredRegions(a) \in Seq(Region)
    BY <1>1, RestoredRegionsType
  <2>2. \A b \in AS : regions[b] \in Seq(Region) /\ regions \in [AS -> Seq(Region)]
    BY DEF TypeOK
  <2>3. << >> \in Seq(Region)
    OBVIOUS
  <2>4. \A b \in AS : [regions EXCEPT ![a] = <<StackRegion>> \o RestoredRegions(a)][b] \in Seq(Region)
    BY <1>1, <2>1, <2>2
  <2> QED BY <2>3, <2>4, <1>3
<1>8. tlb' \in [CPU -> SUBSET TLBEntry] /\ unflushed' \subseteq CPU
  BY <1>3, ActivateType
<1>9. /\ oldas' \in [Proc -> AS \cup {Null}]
      /\ mode' \in [Proc -> {"none", "new", "user", "load", "args"}]
      /\ todo' \in [Proc -> SUBSET Page]
  BY <1>3, VMAssumption DEF TypeOK
<1> QED BY <1>3, <1>4, <1>5, <1>6, <1>7, <1>8, <1>9 DEF TypeOK

(* Every step keeps the types.                                             *)
LEMMA TypeNext ==
  ASSUME TypeOK, RefCountsExact, AddressSpacesOwned, [Next]_vars
  PROVE  TypeOK'
<1>1. ASSUME NEW f \in Frame, kmalloc(f) PROVE TypeOK'
  BY <1>1 DEF kmalloc, alloc_kpages, TypeOK, exe, spc, cpus
<1>2. ASSUME NEW f \in Frame, kfree(f) PROVE TypeOK'
  <2>1. ref' \in [Frame -> Nat]
    BY <1>2, ReleasedType DEF kfree
  <2> QED BY <1>2, <2>1 DEF kfree, Freed, TypeOK, exe, spc, cpus
<1>3. ASSUME NEW p \in Proc, proc_create_runprogram(p) PROVE TypeOK'
  BY <1>3 DEF proc_create_runprogram, TypeOK, spc, mem, cpus
<1>4. ASSUME NEW c \in CPU, NEW p \in Proc \cup {Null}, thread_switch(c, p) PROVE TypeOK'
  <2>1. tlb' \in [CPU -> SUBSET TLBEntry] /\ unflushed' \subseteq CPU
    <3>1. CASE p = Null
      BY <1>4, <3>1 DEF thread_switch, TypeOK
    <3>2. CASE p # Null
      BY <1>4, <3>2, ActivateType DEF thread_switch
    <3> QED BY <3>1, <3>2
  <2> QED BY <1>4, <2>1 DEF thread_switch, TypeOK, exe, spc, mem
<1>5. ASSUME NEW c \in CPU, NEW p \in Proc, NEW v \in Page, NEW write \in BOOLEAN,
             access(c, p, v, write)
      PROVE  TypeOK'
  BY <1>5, FaultType DEF access
<1>6. ASSUME NEW c \in CPU, NEW p \in Proc, proc_exit(c, p) PROVE TypeOK'
  <2>1. as[p] \in AS
    BY <1>6 DEF proc_exit, AddressSpacesOwned, TypeOK
  <2>2. as_destroy(as[p])
    BY <1>6 DEF proc_exit
  <2>3. /\ as' \in [Proc -> AS \cup {Null}]
        /\ mode' \in [Proc -> {"none", "new", "user", "load", "args"}]
        /\ curproc' \in [CPU -> Proc \cup {Null}]
    BY <1>6 DEF proc_exit, TypeOK
  <2> QED BY <1>6, <2>1, <2>2, <2>3, DestroyType DEF proc_exit, TypeOK
<1>7. ASSUME NEW c \in CPU, NEW p \in Proc, NEW v \in Page, kernel_store(c, p, v)
      PROVE  TypeOK'
  BY <1>7 DEF kernel_store, TypeOK, spc, mem, cpus
<1>8. ASSUME NEW c \in CPU, NEW p \in Proc, NEW v \in Page, copyout_args_failed(c, p, v)
      PROVE  TypeOK'
  BY <1>8 DEF copyout_args_failed, TypeOK, exe, spc, mem, cpus
<1>9. ASSUME NEW c \in CPU, NEW p \in Proc, NEW child \in Proc, NEW new \in AS,
             sys_fork(c, p, child, new)
      PROVE  TypeOK'
  <2>1. as[p] # Null
    BY <1>9 DEF sys_fork, AddressSpacesOwned
  <2> QED BY <1>9, <2>1, ForkType
<1>10. ASSUME NEW c \in CPU, NEW p \in Proc, NEW S \in SUBSET Page, fork_fails(c, p, S)
       PROVE  TypeOK'
  <2>1. as[p] \in AS
    <3>1. mode[p] = "user"
      BY <1>10 DEF fork_fails
    <3>2. as[p] # Null
      BY <3>1 DEF AddressSpacesOwned
    <3> QED BY <3>2 DEF TypeOK
  <2>2. ReadOnly(S, pte[as[p]]) \in [Page -> PTE \cup {Null}]
    <3>1. pte[as[p]] \in [Page -> PTE \cup {Null}]
      BY <2>1 DEF TypeOK
    <3>2. \A v \in S : pte[as[p]][v] # Null
      BY <1>10 DEF fork_fails, Mapped
    <3> QED BY <3>1, <3>2, ReadOnlyType
  <2>3. pte' \in [AS -> [Page -> PTE \cup {Null}]]
    BY <1>10, <2>1, <2>2 DEF fork_fails, TypeOK
  <2>4. tlb' \in [CPU -> SUBSET TLBEntry] /\ unflushed' \subseteq CPU
    BY <1>10, ActivateType DEF fork_fails
  <2> QED BY <1>10, <2>3, <2>4 DEF fork_fails, TypeOK, exe, mem
<1>11. ASSUME NEW c \in CPU, NEW p \in Proc, NEW new \in AS, loadexec(c, p, new)
       PROVE  TypeOK'
  <2>1. tlb' \in [CPU -> SUBSET TLBEntry] /\ unflushed' \subseteq CPU
    BY <1>11, ActivateType DEF loadexec
  <2>2. regions' \in [AS -> Seq(Region)]
    BY <1>11, LoadRegionsType DEF loadexec, TypeOK
  <2>3. /\ as' \in [Proc -> AS \cup {Null}] /\ oldas' \in [Proc -> AS \cup {Null}]
        /\ mode' \in [Proc -> {"none", "new", "user", "load", "args"}]
        /\ todo' \in [Proc -> SUBSET Page] /\ live' \subseteq AS
    BY <1>11, LoadPagesType DEF loadexec, TypeOK
  <2> QED BY <1>11, <2>1, <2>2, <2>3 DEF loadexec, TypeOK, mem
<1>12. ASSUME NEW c \in CPU, NEW p \in Proc, tlb_random(c, p) PROVE TypeOK'
  <2>1. filling[p] \in TLBEntry
    BY <1>12 DEF tlb_random, TypeOK
  <2>2. tlb' \in [CPU -> SUBSET TLBEntry]
    BY SMTT(60), <1>12, <2>1 DEF tlb_random, TypeOK
  <2>3. filling' \in [Proc -> TLBEntry \cup {Null}]
    BY <1>12 DEF tlb_random, TypeOK
  <2> QED BY <1>12, <2>2, <2>3 DEF tlb_random, TypeOK, exe, spc, mem
<1>13. ASSUME NEW c \in CPU, NEW p \in Proc, loadexec_fails(c, p) PROVE TypeOK'
  <2>1. as[p] \in AS
    BY <1>13 DEF loadexec_fails, AddressSpacesOwned, TypeOK
  <2>2. as_destroy(as[p])
    BY <1>13 DEF loadexec_fails
  <2>3. tlb' \in [CPU -> SUBSET TLBEntry] /\ unflushed' \subseteq CPU
    BY <1>13, ActivateType DEF loadexec_fails
  <2>4. /\ as' \in [Proc -> AS \cup {Null}] /\ oldas' \in [Proc -> AS \cup {Null}]
        /\ mode' \in [Proc -> {"none", "new", "user", "load", "args"}]
        /\ curproc' \in [CPU -> Proc \cup {Null}]
        /\ todo' \in [Proc -> SUBSET Page]
    BY <1>13 DEF loadexec_fails, TypeOK
  <2> QED BY <1>13, <2>1, <2>2, <2>3, <2>4, DestroyType DEF loadexec_fails, TypeOK
<1>14. ASSUME NEW c \in CPU, NEW p \in Proc, loadexec_commits(c, p) PROVE TypeOK'
  <2>1. as[p] # Null
    BY <1>14 DEF loadexec_commits, AddressSpacesOwned
  <2> QED BY <1>14, <2>1, CommitType
<1>15. ASSUME NEW c \in CPU, NEW p \in Proc, enter_new_process(c, p) PROVE TypeOK'
  BY <1>15 DEF enter_new_process, TypeOK, spc, mem, cpus
<1>16. ASSUME NEW c \in CPU, NEW p \in Proc, runprogram_fails(c, p) PROVE TypeOK'
  BY <1>16 DEF runprogram_fails, TypeOK, spc, mem
<1>17. CASE UNCHANGED vars
  BY <1>17 DEF vars, TypeOK
<1> QED
  BY <1>1, <1>2, <1>3, <1>4, <1>5, <1>6, <1>7, <1>8, <1>9, <1>10, <1>11, <1>12, <1>13,
     <1>14, <1>15, <1>16, <1>17 DEF Next, kill_curthread

-----------------------------------------------------------------------------
(* Ownership of address spaces.                                            *)

Owned ==
  /\ live = UNION {Holds(p) : p \in Proc}
  /\ \A p, q \in Proc : p # q => Holds(p) \cap Holds(q) = {}
  /\ \A p \in Proc : /\ as[p] = Null <=> mode[p] \in {"none", "new"}
                     /\ oldas[p] # Null => mode[p] = "load" /\ oldas[p] # as[p]

DeadEmpty == \A a \in AS \ live : Mapped(a) = {} /\ regions[a] = <<>>

(* A process gets a new address space, or loses one it holds.              *)
LEMMA OwnedChange ==
  ASSUME TypeOK, Owned, NEW p \in Proc, NEW a \in AS \cup {Null}, NEW o \in AS \cup {Null},
         NEW m \in {"none", "new", "user", "load", "args"},
         as' = [as EXCEPT ![p] = a], oldas' = [oldas EXCEPT ![p] = o],
         mode' = [mode EXCEPT ![p] = m],
         \A b \in {a, o} \ {Null} : b \in Holds(p) \/ b \notin live,
         live' = (live \ Holds(p)) \cup ({a, o} \ {Null}),
         a = Null <=> m \in {"none", "new"},
         o # Null => m = "load" /\ o # a
  PROVE  Owned'
<1>1. Holds(p)' = {a, o} \ {Null}
  BY DEF Holds, TypeOK
<1>2. \A q \in Proc \ {p} : Holds(q)' = Holds(q)
  BY DEF Holds, TypeOK
<1>3. \A q \in Proc \ {p} : Holds(q) \subseteq live /\ Holds(q) \cap Holds(p) = {}
  BY DEF Owned
<1>4. live' = UNION {Holds(q)' : q \in Proc}
  <2>1. ASSUME NEW b \in live' PROVE \E q \in Proc : b \in Holds(q)'
    <3>1. CASE b \in {a, o} \ {Null}
      BY <3>1, <1>1
    <3>2. CASE b \in live \ Holds(p)
      <4>1. PICK q \in Proc : b \in Holds(q)
        BY SMTT(60), <3>2 DEF Owned
      <4> QED BY <4>1, <3>2, <1>2
    <3> QED BY <3>1, <3>2
  <2>2. ASSUME NEW q \in Proc, NEW b \in Holds(q)' PROVE b \in live'
    BY <1>1, <1>2, <1>3
  <2> QED BY SMTT(60), <2>1, <2>2
<1>5. \A q, r \in Proc : q # r => Holds(q)' \cap Holds(r)' = {}
  <2>1. \A q \in Proc \ {p} : Holds(q)' \cap Holds(p)' = {}
    BY <1>1, <1>2, <1>3
  <2>2. \A q, r \in Proc \ {p} : q # r => Holds(q)' \cap Holds(r)' = {}
    BY <1>2 DEF Owned
  <2> QED BY <2>1, <2>2
<1>6. \A q \in Proc : /\ as'[q] = Null <=> mode'[q] \in {"none", "new"}
                      /\ oldas'[q] # Null => mode'[q] = "load" /\ oldas'[q] # as'[q]
  BY ZenonT(60) DEF Owned, TypeOK
<1> QED BY <1>4, <1>5, <1>6 DEF Owned

(* An address space that is not changed to a dead one, and the live ones   *)
(* that stay alive, may have any pages.                                    *)
LEMMA DeadChange ==
  ASSUME TypeOK, DeadEmpty, NEW a \in AS \cup {Null},
         live \ {a} \subseteq live',
         a \in live' \/ a = Null \/ (regions'[a] = <<>> /\ \A v \in Page : pte'[a][v] = Null),
         \A b \in AS \ (live \cup {a}) : pte'[b] = pte[b] /\ regions'[b] = regions[b]
  PROVE  DeadEmpty'
<1> SUFFICES ASSUME NEW b \in AS \ live' PROVE Mapped(b)' = {} /\ regions'[b] = <<>>
  BY DEF DeadEmpty
<1>1. CASE b = a
  BY <1>1, VMAssumption DEF Mapped
<1>2. CASE b # a
  <2>1. b \in AS \ live
    BY <1>2
  <2> QED BY SMTT(60), <2>1, <1>2 DEF DeadEmpty, Mapped
<1> QED BY <1>1, <1>2

(* A process in user mode or in exec has an address space that exists.     *)
LEMMA HoldsLive ==
  ASSUME TypeOK, Owned, NEW p \in Proc
  PROVE  /\ as[p] # Null => as[p] \in live /\ as[p] \in AS
         /\ oldas[p] # Null => oldas[p] \in live /\ oldas[p] \in AS
         /\ Holds(p) \subseteq live
<1>1. Holds(p) \subseteq live
  BY DEF Owned
<1>2. live \subseteq AS
  BY DEF TypeOK
<1> QED BY <1>1, <1>2 DEF Holds

(* vm_fault changes only the entries of the process's own address space.   *)
LEMMA FaultPages ==
  ASSUME TypeOK, NEW c \in CPU, NEW p \in Proc, NEW v \in Page, NEW write \in BOOLEAN,
         vm_fault(c, p, v, write)
  PROVE  \A b \in AS \ {as[p]} : pte'[b] = pte[b]
<1>1. ASSUME NEW w, NEW e, SetPTE(as[p], w, e)
      PROVE  \A b \in AS \ {as[p]} : pte'[b] = pte[b]
  BY <1>1 DEF SetPTE, TypeOK
<1>2. CASE create_page(p, as[p], v)
  BY <1>1, <1>2 DEF create_page
<1>3. CASE use_page(p, as[p], v, write)
  BY <1>3 DEF use_page
<1>4. CASE readonwrite(p, as[p], v)
  BY <1>1, <1>4 DEF readonwrite
<1> QED BY <1>2, <1>3, <1>4 DEF vm_fault

(* Steps that leave processes and address spaces alone.                    *)
LEMMA OwnedSame ==
  ASSUME Owned, DeadEmpty, UNCHANGED <<as, oldas, mode, live, regions, pte>>
  PROVE  Owned' /\ DeadEmpty'
<1>1. \A p \in Proc : Holds(p)' = Holds(p)
  BY DEF Holds
<1>2. \A a \in AS : Mapped(a)' = Mapped(a)
  BY DEF Mapped
<1>3. Owned'
  BY <1>1 DEF Owned
<1> QED BY <1>2, <1>3 DEF DeadEmpty

(* Every step keeps address spaces owned and dead ones empty.              *)
LEMMA OwnedNext ==
  ASSUME TypeOK, Owned, DeadEmpty, [Next]_vars
  PROVE  Owned' /\ DeadEmpty'
<1>1. ASSUME NEW f \in Frame, kmalloc(f) \/ kfree(f) PROVE Owned' /\ DeadEmpty'
  BY <1>1, OwnedSame DEF kmalloc, kfree, exe, spc
<1>2. ASSUME NEW p \in Proc, proc_create_runprogram(p) PROVE Owned' /\ DeadEmpty'
  <2>1. as[p] = Null /\ oldas[p] = Null /\ Holds(p) = {}
    BY <1>2 DEF proc_create_runprogram, Owned, Holds
  <2>2. as' = [as EXCEPT ![p] = Null] /\ oldas' = [oldas EXCEPT ![p] = Null]
    BY <1>2, <2>1 DEF proc_create_runprogram, TypeOK
  <2>3. mode' = [mode EXCEPT ![p] = "new"] /\ live' = live
    BY <1>2 DEF proc_create_runprogram, spc
  <2>4. Owned'
    BY <2>1, <2>2, <2>3, OwnedChange
  <2>5. DeadEmpty'
    BY <1>2 DEF proc_create_runprogram, DeadEmpty, Mapped, spc
  <2> QED BY <2>4, <2>5
<1>3. ASSUME NEW c \in CPU, NEW p \in Proc \cup {Null}, thread_switch(c, p)
      PROVE  Owned' /\ DeadEmpty'
  BY <1>3, OwnedSame DEF thread_switch, exe, spc
<1>4. ASSUME NEW c \in CPU, NEW p \in Proc, NEW v \in Page, NEW write \in BOOLEAN,
             access(c, p, v, write)
      PROVE  Owned' /\ DeadEmpty'
  <2>1. vm_fault(c, p, v, write)
    BY <1>4 DEF access
  <2>2. Owned'
    BY <2>1 DEF vm_fault, Owned, Holds, exe
  <2>3. as[p] \in live /\ as[p] \in AS
    BY <2>1, HoldsLive DEF vm_fault
  <2>4. live' = live /\ regions' = regions
    BY <2>1 DEF vm_fault
  <2>5. \A b \in AS \ {as[p]} : pte'[b] = pte[b]
    BY ZenonT(60), <2>1, FaultPages
  <2>6. DeadEmpty'
    BY <2>3, <2>4, <2>5, DeadChange
  <2> QED BY <2>2, <2>6
<1>5. ASSUME NEW c \in CPU, NEW p \in Proc, proc_exit(c, p) PROVE Owned' /\ DeadEmpty'
  <2>1. as[p] # Null /\ oldas[p] = Null /\ Holds(p) = {as[p]} /\ as[p] \in AS
    BY <1>5 DEF proc_exit, Owned, Holds, TypeOK
  <2>2. oldas' = [oldas EXCEPT ![p] = Null] /\ live' = live \ {as[p]}
    BY <1>5, <2>1 DEF proc_exit, as_destroy, TypeOK
  <2>3. Owned'
    <3>1. as' = [as EXCEPT ![p] = Null] /\ mode' = [mode EXCEPT ![p] = "none"]
      BY <1>5 DEF proc_exit
    <3>2. live' = (live \ Holds(p)) \cup ({Null, Null} \ {Null})
      BY <2>1, <2>2
    <3> QED BY <2>2, <3>1, <3>2, OwnedChange
  <2>4. regions'[as[p]] = <<>> /\ \A v \in Page : pte'[as[p]][v] = Null
    BY <1>5, <2>1 DEF proc_exit, as_destroy, NoPages, TypeOK
  <2>5. \A b \in AS \ {as[p]} : pte'[b] = pte[b] /\ regions'[b] = regions[b]
    BY <1>5, <2>1 DEF proc_exit, as_destroy, TypeOK
  <2>6. DeadEmpty'
    BY <2>1, <2>2, <2>4, <2>5, DeadChange
  <2> QED BY <2>3, <2>6
<1>6. ASSUME NEW c \in CPU, NEW p \in Proc, NEW v \in Page,
             kernel_store(c, p, v) \/ copyout_args_failed(c, p, v)
      PROVE  Owned' /\ DeadEmpty'
  BY <1>6, OwnedSame DEF kernel_store, copyout_args_failed, exe, spc
<1>7. ASSUME NEW c \in CPU, NEW p \in Proc, NEW child \in Proc, NEW new \in AS,
             sys_fork(c, p, child, new)
      PROVE  Owned' /\ DeadEmpty'
  <2>1. as[child] = Null /\ oldas[child] = Null /\ Holds(child) = {} /\ new \notin live
    BY <1>7 DEF sys_fork, Owned, Holds
  <2>2. oldas' = [oldas EXCEPT ![child] = Null] /\ live' = live \cup {new}
    BY <1>7, <2>1 DEF sys_fork, as_copy, TypeOK
  <2>3. Owned'
    <3>1. as' = [as EXCEPT ![child] = new] /\ mode' = [mode EXCEPT ![child] = "user"]
      BY <1>7 DEF sys_fork
    <3>2. live' = (live \ Holds(child)) \cup ({new, Null} \ {Null})
      BY <2>1, <2>2, VMAssumption
    <3>3. \A b \in {new, Null} \ {Null} : b \in Holds(child) \/ b \notin live
      BY <2>1
    <3> QED BY <2>2, <3>1, <3>2, <3>3, VMAssumption, OwnedChange
  <2>4. as[p] \in live
    BY <1>7, HoldsLive DEF sys_fork, Owned
  <2>5. \A b \in AS \ (live \cup {new}) : pte'[b] = pte[b] /\ regions'[b] = regions[b]
    BY <1>7, <2>4 DEF sys_fork, as_copy, TypeOK
  <2>6. DeadEmpty'
    BY <2>2, <2>5, DeadChange
  <2> QED BY <2>3, <2>6
<1>8. ASSUME NEW c \in CPU, NEW p \in Proc, NEW S \in SUBSET Page, fork_fails(c, p, S)
      PROVE  Owned' /\ DeadEmpty'
  <2>1. Owned'
    BY ZenonT(60), <1>8 DEF fork_fails, Owned, Holds, exe
  <2>2. as[p] \in live /\ as[p] \in AS
    BY <1>8, HoldsLive DEF fork_fails, Owned
  <2>3. \A b \in AS \ {as[p]} : pte'[b] = pte[b] /\ regions'[b] = regions[b]
    BY <1>8 DEF fork_fails, TypeOK
  <2>4. DeadEmpty'
    BY <1>8, <2>2, <2>3, DeadChange DEF fork_fails
  <2> QED BY <2>1, <2>4
<1>9. ASSUME NEW c \in CPU, NEW p \in Proc, NEW new \in AS, loadexec(c, p, new)
      PROVE  Owned' /\ DeadEmpty'
  <2>1. oldas[p] = Null /\ Holds(p) = {as[p]} \ {Null} /\ new \notin live
    BY <1>9 DEF loadexec, Owned, Holds
  <2>2. live' = (live \ Holds(p)) \cup ({new, as[p]} \ {Null})
    BY <1>9, <2>1, HoldsLive, VMAssumption DEF loadexec
  <2>3. as[p] # new /\ new # Null /\ as[p] \in AS \cup {Null}
    BY <2>1, HoldsLive, VMAssumption DEF TypeOK
  <2>4. Owned'
    <3>1. /\ as' = [as EXCEPT ![p] = new] /\ oldas' = [oldas EXCEPT ![p] = as[p]]
          /\ mode' = [mode EXCEPT ![p] = "load"]
      BY <1>9 DEF loadexec
    <3>2. \A b \in {new, as[p]} \ {Null} : b \in Holds(p) \/ b \notin live
      BY <2>1
    <3> QED BY <2>2, <2>3, <3>1, <3>2, OwnedChange
  <2>5. DeadEmpty'
    BY <1>9, DeadChange DEF loadexec, TypeOK
  <2> QED BY <2>4, <2>5
<1>10. ASSUME NEW c \in CPU, NEW p \in Proc, tlb_random(c, p) PROVE Owned' /\ DeadEmpty'
  BY <1>10, OwnedSame DEF tlb_random, exe, spc
<1>11. ASSUME NEW c \in CPU, NEW p \in Proc, loadexec_fails(c, p) PROVE Owned' /\ DeadEmpty'
  <2>1. as[p] # Null /\ as[p] # oldas[p] /\ as[p] \in AS /\ as[p] \in live
    BY <1>11, HoldsLive DEF loadexec_fails, Owned
  <2>2. live' = (live \ Holds(p)) \cup ({oldas[p], Null} \ {Null})
    BY <1>11, <2>1, HoldsLive DEF loadexec_fails, as_destroy, Holds
  <2>3. oldas[p] \in AS \cup {Null} /\ \A b \in {oldas[p], Null} \ {Null} : b \in Holds(p)
    BY DEF Holds, TypeOK
  <2>4. Owned'
    <3>1. CASE oldas[p] = Null
      BY <1>11, <2>2, <2>3, <3>1, OwnedChange DEF loadexec_fails
    <3>2. CASE oldas[p] # Null
      BY <1>11, <2>2, <2>3, <3>2, OwnedChange DEF loadexec_fails
    <3> QED BY <3>1, <3>2
  <2>5. regions'[as[p]] = <<>> /\ \A v \in Page : pte'[as[p]][v] = Null
    BY <1>11, <2>1 DEF loadexec_fails, as_destroy, NoPages, TypeOK
  <2>6. \A b \in AS \ {as[p]} : pte'[b] = pte[b] /\ regions'[b] = regions[b]
    BY <1>11, <2>1 DEF loadexec_fails, as_destroy, TypeOK
  <2>7. live \ {as[p]} \subseteq live'
    BY <1>11 DEF loadexec_fails, as_destroy
  <2>8. DeadEmpty'
    BY <2>1, <2>5, <2>6, <2>7, DeadChange
  <2> QED BY <2>4, <2>8
<1>12. ASSUME NEW c \in CPU, NEW p \in Proc, loadexec_commits(c, p)
       PROVE  Owned' /\ DeadEmpty'
  <2> DEFINE a == as[p]
             o == oldas[p]
  <2>1. a # Null /\ a # o /\ a \in AS /\ a \in live /\ o \in AS \cup {Null}
    BY <1>12, HoldsLive DEF loadexec_commits, Owned, TypeOK
  <2>2. /\ as' = [as EXCEPT ![p] = a] /\ oldas' = [oldas EXCEPT ![p] = Null]
        /\ mode' = [mode EXCEPT ![p] = "args"] /\ live' = live \ {o}
    BY <1>12 DEF loadexec_commits, TypeOK
  <2>3. live' = (live \ Holds(p)) \cup ({a, Null} \ {Null}) /\ a \in Holds(p)
    <3>1. Holds(p) = {a, o} \ {Null} /\ live \subseteq AS
      BY DEF Holds, TypeOK
    <3> QED BY <2>1, <2>2, <3>1, VMAssumption
  <2>4. Owned'
    BY ZenonT(60), <2>1, <2>2, <2>3, OwnedChange
  <2>5. o = Null \/ (regions'[o] = <<>> /\ \A v \in Page : pte'[o][v] = Null)
    BY <1>12, <2>1 DEF loadexec_commits, NoPages
  <2>6. \A b \in AS \ {a, o} : pte'[b] = pte[b] /\ regions'[b] = regions[b]
    BY <1>12, <2>1 DEF loadexec_commits, TypeOK
  <2>7. \A b \in AS \ (live \cup {o}) : pte'[b] = pte[b] /\ regions'[b] = regions[b]
    BY <2>1, <2>6
  <2>8. live \ {o} \subseteq live'
    BY <2>2
  <2>9. DeadEmpty'
    BY <2>1, <2>5, <2>7, <2>8, DeadChange
  <2> QED BY <2>4, <2>9
<1>13. ASSUME NEW c \in CPU, NEW p \in Proc, NEW m \in {"none", "user"},
              Owned, mode[p] \notin {"load"}, m = "none" <=> as[p] = Null,
              mode' = [mode EXCEPT ![p] = m],
              UNCHANGED <<as, oldas, live, regions, pte>>
       PROVE  Owned' /\ DeadEmpty'
  <2>1. \A q \in Proc : Holds(q)' = Holds(q)
    BY <1>13 DEF Holds
  <2>2. live' = UNION {Holds(q)' : q \in Proc}
    BY <1>13, <2>1 DEF Owned
  <2>3. \A q, r \in Proc : q # r => Holds(q)' \cap Holds(r)' = {}
    BY <2>1 DEF Owned
  <2>4. \A q \in Proc : /\ as'[q] = Null <=> mode'[q] \in {"none", "new"}
                        /\ oldas'[q] # Null => mode'[q] = "load" /\ oldas'[q] # as'[q]
    BY <1>13 DEF Owned, TypeOK
  <2>5. DeadEmpty'
    BY <1>13 DEF DeadEmpty, Mapped
  <2> QED BY <2>2, <2>3, <2>4, <2>5 DEF Owned
<1>14. ASSUME NEW c \in CPU, NEW p \in Proc, enter_new_process(c, p) PROVE Owned' /\ DeadEmpty'
  BY <1>13, <1>14 DEF enter_new_process, Owned, spc
<1>15. ASSUME NEW c \in CPU, NEW p \in Proc, runprogram_fails(c, p) PROVE Owned' /\ DeadEmpty'
  BY <1>13, <1>15 DEF runprogram_fails, Owned, spc
<1>16. CASE UNCHANGED vars
  BY <1>16, OwnedSame DEF vars
<1> QED
  BY <1>1, <1>2, <1>3, <1>4, <1>5, <1>6, <1>7, <1>8, <1>9, <1>10, <1>11, <1>12,
     <1>14, <1>15, <1>16 DEF Next, kill_curthread

-----------------------------------------------------------------------------
(* Reference counts.                                                       *)

CountInv == PagesDistinct /\ RefCountsExact /\ WritableIsPrivate

Maps(pt, a, v, f) == pt[a][v] # Null /\ pt[a][v].frame = f

(* The entries that refer to a frame, one by one.                          *)
LEMMA MappersElement ==
  ASSUME NEW f, NEW a \in AS, NEW v \in Page
  PROVE  <<a, v>> \in Mappers(f) <=> Maps(pte, a, v, f)
BY DEF Mappers, Maps

(* They are those of the page table of this state ...                      *)
LEMMA MappersSame == ASSUME NEW f PROVE Mappers(f) = MappersIn(pte, f)
BY DEF Mappers, MappersIn

(* ... and of the next.                                                    *)
LEMMA MappersSamePrime == ASSUME NEW f PROVE Mappers(f)' = MappersIn(pte', f)
BY DEF Mappers, MappersIn

(* There are finitely many.                                                *)
LEMMA MappersCard ==
  ASSUME NEW f
  PROVE  /\ IsFiniteSet(Mappers(f)) /\ Cardinality(Mappers(f)) \in Nat
         /\ Cardinality(Mappers(f)) = 0 <=> Mappers(f) = {}
BY MappersSame, MappersFinite, FS_CardinalityType, FS_EmptySet

(* The type of an entry.                                                   *)
LEMMA EntryType ==
  ASSUME TypeOK, NEW a \in AS, NEW v \in Page, pte[a][v] # Null
  PROVE  pte[a][v] \in PTE /\ pte[a][v].frame \in Frame /\ pte[a][v].dirty \in BOOLEAN
BY SMTT(60) DEF TypeOK, PTE

(* A writable entry is the only one that refers to its frame.              *)
LEMMA WritableIsSole ==
  ASSUME TypeOK, CountInv, NEW a \in AS, NEW v \in Page, pte[a][v] # Null, pte[a][v].dirty,
         NEW b \in AS, NEW w \in Page, Maps(pte, b, w, pte[a][v].frame)
  PROVE  a = b /\ v = w
<1> DEFINE f == pte[a][v].frame
<1>1. f \in Frame
  BY EntryType
<1>2. ref[f] = 1
  BY DEF CountInv, WritableIsPrivate
<1>3. <<a, v>> \in Mappers(f) /\ <<b, w>> \in Mappers(f)
  BY MappersElement DEF Maps
<1> HIDE DEF f
<1>4. Cardinality(Mappers(f)) = 1
  BY <1>1, <1>2, <1>3, MappersCard DEF CountInv, RefCountsExact
<1>5. PICK m : Mappers(f) = {m}
  BY <1>4, MappersCard, FS_Singleton
<1> QED BY <1>3, <1>5

(* Nothing but permissions taken away.                                     *)
LEMMA CountSame ==
  ASSUME TypeOK, CountInv, UNCHANGED <<free, ref, kheap>>,
         \A a \in AS, v \in Page : /\ Alike(pte, pte', a, v)
                                   /\ pte'[a][v] # Null /\ pte'[a][v].dirty => pte[a][v].dirty
  PROVE  CountInv'
<1>1. PagesDistinct'
  BY SMTT(60) DEF CountInv, PagesDistinct, Mapped, Alike
<1>2. \A f : Mappers(f)' = Mappers(f)
  BY SameMappers, MappersSame, MappersSamePrime
<1>3. RefCountsExact'
  BY <1>2 DEF CountInv, RefCountsExact
<1>4. WritableIsPrivate'
  BY SMTT(60) DEF CountInv, WritableIsPrivate, Alike
<1> QED BY <1>1, <1>3, <1>4 DEF CountInv

(* An address space loses all its pages.                                   *)
LEMMA CountDestroy ==
  ASSUME TypeOK, CountInv, NEW o \in AS,
         \A a \in AS \ {o}, v \in Page :
           /\ Alike(pte, pte', a, v)
           /\ pte'[a][v] # Null /\ pte'[a][v].dirty => pte[a][v].dirty,
         \A v \in Page : pte'[o][v] = Null,
         ref' = Released(FramesOf(o)), free' = free \cup Freed(FramesOf(o)), kheap' = kheap
  PROVE  CountInv'
<1>1. PagesDistinct'
  <2> SUFFICES ASSUME NEW a \in AS, NEW v \in Mapped(a)', NEW w \in Mapped(a)',
                      pte'[a][v].frame = pte'[a][w].frame
               PROVE  v = w
    BY DEF PagesDistinct
  <2>1. a # o
    BY DEF Mapped
  <2> QED BY SMTT(60), <2>1 DEF CountInv, PagesDistinct, Mapped, Alike
<1>2. ASSUME NEW f
      PROVE  Cardinality(Mappers(f)) = Cardinality(Mappers(f)') + (IF f \in FramesOf(o) THEN 1 ELSE 0)
  <2>1. Injective(pte[o])
    BY SMTT(60) DEF CountInv, PagesDistinct, Mapped, Injective
  <2>2. \A b \in AS \ {o}, v \in Page : Alike(pte', pte, b, v)
    BY DEF Alike
  <2>3. Uses(pte[o], f) <=> f \in FramesOf(o)
    BY DEF Uses, FramesOf, Mapped
  <2>4. Cardinality(MappersIn(pte, f)) =
          Cardinality(MappersIn(pte', f)) + (IF Uses(pte[o], f) THEN 1 ELSE 0)
    BY ZenonT(60), <2>1, <2>2, OneSpaceMore
  <2> QED BY <2>3, <2>4, MappersSame, MappersSamePrime
<1>3. \A f \in Frame : ref'[f] = IF f \in FramesOf(o) THEN ref[f] - 1 ELSE ref[f]
  BY DEF Released
<1>4. \A f : Cardinality(Mappers(f)') \in Nat
  BY MappersSamePrime, MappersFinite, FS_CardinalityType
<1>5. RefCountsExact'
  <2>1. ASSUME NEW f \in Frame
        PROVE  ref'[f] = Cardinality(Mappers(f)') + (IF f \in kheap' THEN 1 ELSE 0)
    <3>1. ref[f] = Cardinality(Mappers(f)) + (IF f \in kheap THEN 1 ELSE 0)
      BY DEF CountInv, RefCountsExact
    <3> QED BY <3>1, <1>2, <1>3, <1>4
  <2>2. ASSUME NEW f \in Frame PROVE f \in free' <=> ref'[f] = 0
    <3>1. f \in FramesOf(o) => ref[f] \in Nat /\ ref[f] >= 1
      BY FramesMapped, Counted DEF CountInv
    <3>2. f \in free <=> ref[f] = 0
      BY DEF CountInv, RefCountsExact
    <3>3. f \in free' <=> f \in free \/ (f \in FramesOf(o) /\ ref[f] - 1 <= 0)
      BY DEF Freed
    <3> QED BY <3>1, <3>2, <3>3, <1>3
  <2> QED BY <2>1, <2>2 DEF RefCountsExact
<1>6. WritableIsPrivate'
  <2> SUFFICES ASSUME NEW a \in AS, NEW v \in Page, pte'[a][v] # Null, pte'[a][v].dirty
               PROVE  ref'[pte'[a][v].frame] = 1
    BY DEF WritableIsPrivate
  <2>1. a # o
    OBVIOUS
  <2>2. pte[a][v] # Null /\ pte[a][v].dirty /\ pte'[a][v].frame = pte[a][v].frame
    BY <2>1 DEF Alike
  <2>3. pte[a][v].frame \notin FramesOf(o)
    <3> SUFFICES ASSUME pte[a][v].frame \in FramesOf(o) PROVE FALSE
      OBVIOUS
    <3>1. PICK w \in Page : Maps(pte, o, w, pte[a][v].frame)
      BY DEF FramesOf, Mapped, Maps
    <3> QED BY <3>1, <2>1, <2>2, WritableIsSole
  <2>4. pte[a][v].frame \in Frame
    BY <2>2, EntryType
  <2>5. ref[pte[a][v].frame] = 1
    BY <2>2 DEF CountInv, WritableIsPrivate
  <2> QED BY <2>2, <2>3, <2>4, <2>5, <1>3
<1> QED BY <1>1, <1>5, <1>6 DEF CountInv

(* fork: a new address space shares every frame of the old one.            *)
LEMMA CountCopy ==
  ASSUME TypeOK, CountInv, NEW old \in AS, NEW new \in AS, Mapped(new) = {}, old # new,
         as_copy(old, new), UNCHANGED <<free, kheap>>
  PROVE  CountInv'
<1> DEFINE shared == ReadOnly(Mapped(old), pte[old])
<1>1. /\ \A v \in Page : Alike(pte, pte', old, v)
      /\ \A v \in Page : ~(pte'[old][v] # Null /\ pte'[old][v].dirty)
      /\ pte'[new] = pte'[old]
      /\ \A b \in AS \ {old, new} : pte'[b] = pte[b]
  <2>1. pte' = [pte EXCEPT ![old] = shared, ![new] = shared]
    BY DEF as_copy
  <2>2. pte[old] \in [Page -> PTE \cup {Null}] /\ pte \in PageTable
    BY DEF TypeOK, PageTable
  <2>3. Mapped(old) \subseteq Page /\ \A v \in Mapped(old) : pte[old][v] # Null
    BY DEF Mapped
  <2>4. \A v \in Page : /\ shared[v] = Null <=> pte[old][v] = Null
                        /\ pte[old][v] # Null => shared[v].frame = pte[old][v].frame
                        /\ ~(shared[v] # Null /\ shared[v].dirty /\ v \in Mapped(old))
    BY SMTT(60), <2>2, <2>3, ReadOnlyType
  <2>5. pte'[old] = shared /\ pte'[new] = shared /\ \A b \in AS \ {old, new} : pte'[b] = pte[b]
    BY <2>1, <2>2 DEF PageTable
  <2> HIDE DEF shared
  <2> QED BY <2>4, <2>5 DEF Alike, Mapped
<1>2. \A v \in Page : pte[new][v] = Null
  BY DEF Mapped
<1>3. PagesDistinct'
  <2> SUFFICES ASSUME NEW a \in AS, NEW v \in Page, NEW w \in Page,
                      pte'[a][v] # Null, pte'[a][w] # Null, pte'[a][v].frame = pte'[a][w].frame
               PROVE  v = w
    BY DEF PagesDistinct, Mapped
  <2>1. \A b \in AS : \A x, y \in Page :
           pte[b][x] # Null /\ pte[b][y] # Null /\ pte[b][x].frame = pte[b][y].frame => x = y
    BY SMTT(60) DEF CountInv, PagesDistinct, Mapped
  <2>2. CASE a \in {old, new}
    BY SMTT(60), <1>1, <2>1, <2>2 DEF Alike
  <2>3. CASE a \notin {old, new}
    BY SMTT(60), <1>1, <2>1, <2>3
  <2> QED BY <2>2, <2>3
<1>4. ASSUME NEW f
      PROVE  Cardinality(Mappers(f)') = Cardinality(Mappers(f)) + (IF f \in FramesOf(old) THEN 1 ELSE 0)
  <2>1. Injective(pte'[new])
    BY <1>3 DEF PagesDistinct, Mapped, Injective
  <2>2. \A b \in AS \ {new}, v \in Page : Alike(pte, pte', b, v)
    BY <1>1 DEF Alike
  <2>3. Uses(pte'[new], f) <=> f \in FramesOf(old)
    BY SMTT(60), <1>1 DEF Uses, FramesOf, Mapped, Alike
  <2>4. Cardinality(MappersIn(pte', f)) =
          Cardinality(MappersIn(pte, f)) + (IF Uses(pte'[new], f) THEN 1 ELSE 0)
    BY ZenonT(60), <1>2, <2>1, <2>2, OneSpaceMore
  <2> QED BY <2>3, <2>4, MappersSame, MappersSamePrime
<1>5. \A f \in Frame : ref'[f] = IF f \in FramesOf(old) THEN ref[f] + 1 ELSE ref[f]
  BY DEF as_copy
<1>6. RefCountsExact'
  <2>1. ASSUME NEW f \in Frame
        PROVE  ref'[f] = Cardinality(Mappers(f)') + (IF f \in kheap' THEN 1 ELSE 0)
    <3>1. ref[f] = Cardinality(Mappers(f)) + (IF f \in kheap THEN 1 ELSE 0)
      BY DEF CountInv, RefCountsExact
    <3> QED BY <3>1, <1>4, <1>5, MappersCard
  <2>2. ASSUME NEW f \in Frame PROVE f \in free' <=> ref'[f] = 0
    <3>1. f \in FramesOf(old) => ref[f] \in Nat /\ ref[f] >= 1
      BY FramesMapped, Counted DEF CountInv
    <3>2. f \in free <=> ref[f] = 0
      BY DEF CountInv, RefCountsExact
    <3> QED BY <3>1, <3>2, <1>5
  <2> QED BY <2>1, <2>2 DEF RefCountsExact
<1>7. WritableIsPrivate'
  <2> SUFFICES ASSUME NEW a \in AS, NEW v \in Page, pte'[a][v] # Null, pte'[a][v].dirty
               PROVE  ref'[pte'[a][v].frame] = 1
    BY DEF WritableIsPrivate
  <2>1. a # old /\ a # new /\ pte'[a][v] = pte[a][v]
    BY <1>1
  <2>2. pte[a][v].frame \notin FramesOf(old)
    <3> SUFFICES ASSUME pte[a][v].frame \in FramesOf(old) PROVE FALSE
      OBVIOUS
    <3>1. PICK w \in Page : Maps(pte, old, w, pte[a][v].frame)
      BY DEF FramesOf, Mapped, Maps
    <3> QED BY <3>1, <2>1, WritableIsSole
  <2>3. pte[a][v].frame \in Frame /\ ref[pte[a][v].frame] = 1
    BY <2>1, EntryType DEF CountInv, WritableIsPrivate
  <2> QED BY <2>1, <2>2, <2>3, <1>5
<1> QED BY <1>3, <1>6, <1>7 DEF CountInv

(* A page gets the free frame f, writable or not; the frame it had loses a *)
(* reference.  (create_page, and the copy in readonwrite.)                 *)
LEMMA CountNewFrame ==
  ASSUME TypeOK, CountInv, NEW a \in AS, NEW v \in Page, NEW e \in PTE, e.frame \in free,
         SetPTE(a, v, e), free' = free \ {e.frame}, kheap' = kheap,
         IF pte[a][v] = Null THEN ref' = [ref EXCEPT ![e.frame] = 1]
         ELSE ref[pte[a][v].frame] # 1 /\ MoveReference(pte[a][v].frame, e.frame)
  PROVE  CountInv'
<1> DEFINE f == e.frame
           from == pte[a][v].frame
<1>1. f \in Frame /\ pte \in PageTable /\ e # Null
  BY VMAssumption DEF TypeOK, PageTable
<1>2. ref[f] = 0 /\ Mappers(f) = {} /\ f \notin kheap
  <2>1. ref[f] = 0
    BY <1>1 DEF CountInv, RefCountsExact
  <2> QED BY <2>1, <1>1, Counted DEF CountInv
<1>3. /\ pte'[a][v] = e
      /\ \A b \in AS, w \in Page : <<b, w>> # <<a, v>> => pte'[b][w] = pte[b][w]
  BY <1>1 DEF SetPTE, PageTable
<1>4. \A b \in AS, w \in Page : ~Maps(pte, b, w, f)
  BY <1>2, MappersElement
<1>5. pte[a][v] # Null =>
        from # f /\ from \in Frame /\ ref[from] \in Nat /\ ref[from] > 1
  <2>1. SUFFICES ASSUME pte[a][v] # Null
                 PROVE from # f /\ from \in Frame /\ ref[from] \in Nat /\ ref[from] > 1
    OBVIOUS
  <2>2. from \in Frame /\ <<a, v>> \in Mappers(from)
    BY <2>1, EntryType, MappersElement DEF Maps
  <2>3. ref[from] \in Nat /\ ref[from] >= 1
    BY <2>2, Counted DEF CountInv
  <2> QED BY <2>1, <2>2, <2>3, <1>4 DEF Maps
<1>6. PagesDistinct'
  BY SMTT(60), <1>3, <1>4 DEF CountInv, PagesDistinct, Mapped, Maps
<1>7. \A g : /\ g = f => Mappers(g)' = Mappers(g) \cup {<<a, v>>}
             /\ g # f => Mappers(g)' = Mappers(g) \ {<<a, v>>}
  BY SMTT(60), <1>3, OneEntrySet, MappersSame, MappersSamePrime
<1>8. \A g : <<a, v>> \in Mappers(g) <=> pte[a][v] # Null /\ g = from
  BY SMTT(60), MappersElement DEF Maps
<1> HIDE DEF f, from
<1>9. RefCountsExact'
  <2>1. ASSUME NEW g \in Frame
        PROVE  /\ ref'[g] = Cardinality(Mappers(g)') + (IF g \in kheap' THEN 1 ELSE 0)
               /\ g \in free' <=> ref'[g] = 0
    <3>1. /\ ref[g] = Cardinality(Mappers(g)) + (IF g \in kheap THEN 1 ELSE 0)
          /\ g \in free <=> ref[g] = 0
      BY DEF CountInv, RefCountsExact
    <3>2. ref \in [Frame -> Nat]
      BY DEF TypeOK
    <3>3. CASE g = f
      <4>1. Mappers(g)' = {<<a, v>>}
        BY <3>3, <1>2, <1>7
      <4>2. Cardinality(Mappers(g)') = 1
        BY <4>1, FS_Singleton
      <4>3. ref'[g] = 1
        BY <3>2, <3>3, <1>1, <1>5 DEF MoveReference, f, from
      <4> QED BY <3>3, <4>2, <4>3, <1>2 DEF f
    <3>4. CASE g # f /\ pte[a][v] # Null /\ g = from
      <4> DEFINE M == Mappers(g)
      <4>1. Mappers(g)' = M \ {<<a, v>>} /\ <<a, v>> \in M
        BY <3>4, <1>7, <1>8
      <4>2. IsFiniteSet(M) /\ Cardinality(M) \in Nat
        BY MappersCard
      <4>3. ref[g] = Cardinality(M) + (IF g \in kheap THEN 1 ELSE 0) /\ (g \in free <=> ref[g] = 0)
        BY <3>1
      <4> HIDE DEF M
      <4>4. Cardinality(Mappers(g)') = Cardinality(M) - 1
        BY ZenonT(60), <4>1, <4>2, FS_RemoveElement
      <4>5. ref'[g] = ref[g] - 1
        BY <3>2, <3>4, <1>5 DEF MoveReference, f, from
      <4>6. ref[g] > 1
        BY <3>4, <1>5
      <4>7. g \in free' <=> g \in free
        BY <3>4 DEF f
      <4> QED BY <4>2, <4>3, <4>4, <4>5, <4>6, <4>7
    <3>5. CASE g # f /\ ~(pte[a][v] # Null /\ g = from)
      <4>1. Mappers(g)' = Mappers(g)
        BY <3>5, <1>7, <1>8
      <4>2. ref'[g] = ref[g]
        BY <3>2, <3>5, <1>1, <1>5 DEF MoveReference, f, from
      <4> QED BY <3>1, <3>5, <4>1, <4>2 DEF f
    <3> QED BY <3>3, <3>4, <3>5
  <2> QED BY <2>1 DEF RefCountsExact
<1>10. WritableIsPrivate'
  <2> SUFFICES ASSUME NEW b \in AS, NEW w \in Page, pte'[b][w] # Null, pte'[b][w].dirty
               PROVE  ref'[pte'[b][w].frame] = 1
    BY DEF WritableIsPrivate
  <2>1. ref \in [Frame -> Nat]
    BY DEF TypeOK
  <2>2. CASE <<b, w>> = <<a, v>>
    <3>1. pte'[b][w].frame = f
      BY <2>2, <1>3 DEF f
    <3> QED BY <3>1, <2>1, <1>1, <1>5 DEF MoveReference, f, from
  <2>3. CASE <<b, w>> # <<a, v>>
    <3>1. pte'[b][w] = pte[b][w]
      BY <2>3, <1>3
    <3>2. ref[pte[b][w].frame] = 1 /\ pte[b][w].frame \in Frame /\ pte[b][w].frame # f
      BY SMTT(60), <3>1, <1>4, EntryType DEF CountInv, WritableIsPrivate, Maps
    <3>3. pte[a][v] # Null => pte[b][w].frame # from
      BY <3>2, <1>5
    <3> QED BY SMTT(60), <3>1, <3>2, <3>3, <2>1, <1>1, <1>5 DEF MoveReference, f, from
  <2> QED BY <2>2, <2>3
<1> QED BY <1>6, <1>9, <1>10 DEF CountInv

(* The last page that refers to a frame becomes writable.                  *)
LEMMA CountLastReference ==
  ASSUME TypeOK, CountInv, NEW a \in AS, NEW v \in Page, pte[a][v] # Null,
         LastReference(pte[a][v].frame), UNCHANGED <<free, ref, kheap>>,
         SetPTE(a, v, [frame |-> pte[a][v].frame, dirty |-> TRUE])
  PROVE  CountInv'
<1> DEFINE e == [frame |-> pte[a][v].frame, dirty |-> TRUE]
<1>1. pte \in PageTable /\ e \in PTE /\ e # Null
  <2>1. pte \in PageTable
    BY DEF TypeOK, PageTable
  <2>2. pte[a][v].frame \in Frame
    BY EntryType
  <2>3. e \in PTE
    BY <2>2 DEF PTE
  <2> QED BY <2>1, <2>3, VMAssumption
<1>2. /\ pte'[a][v] = e
      /\ \A b \in AS, w \in Page : <<b, w>> # <<a, v>> => pte'[b][w] = pte[b][w]
  BY <1>1 DEF SetPTE, PageTable
<1>3. \A b \in AS, w \in Page : Alike(pte, pte', b, w)
  <2> SUFFICES ASSUME NEW b \in AS, NEW w \in Page PROVE Alike(pte, pte', b, w)
    OBVIOUS
  <2>1. CASE <<b, w>> = <<a, v>>
    BY SMTT(60), <1>1, <1>2, <2>1 DEF Alike
  <2>2. CASE <<b, w>> # <<a, v>>
    BY <1>2, <2>2 DEF Alike
  <2> QED BY <2>1, <2>2
<1>4. PagesDistinct'
  BY SMTT(60), <1>3 DEF CountInv, PagesDistinct, Mapped, Alike
<1>5. \A f : Mappers(f)' = Mappers(f)
  BY <1>3, SameMappers, MappersSame, MappersSamePrime
<1>6. RefCountsExact'
  BY <1>5 DEF CountInv, RefCountsExact
<1>7. WritableIsPrivate'
  <2> SUFFICES ASSUME NEW b \in AS, NEW w \in Page, pte'[b][w] # Null, pte'[b][w].dirty
               PROVE  ref'[pte'[b][w].frame] = 1
    BY DEF WritableIsPrivate
  <2>1. CASE <<b, w>> = <<a, v>>
    BY SMTT(60), <1>2, <2>1 DEF LastReference
  <2>2. CASE <<b, w>> # <<a, v>>
    BY SMTT(60), <1>2, <2>2 DEF CountInv, WritableIsPrivate
  <2> QED BY <2>1, <2>2
<1> QED BY <1>4, <1>6, <1>7 DEF CountInv

(* A fault keeps the counts exact.                                         *)
LEMMA CountFault ==
  ASSUME TypeOK, CountInv, NEW c \in CPU, NEW p \in Proc, NEW v \in Page,
         NEW write \in BOOLEAN, vm_fault(c, p, v, write)
  PROVE  CountInv'
<1> DEFINE a == as[p]
<1>1. a \in AS
  BY DEF vm_fault, TypeOK
<1>2. kheap' = kheap
  BY DEF vm_fault
<1>3. create_page(p, a, v) \/ use_page(p, a, v, write) \/ readonwrite(p, a, v)
  BY DEF vm_fault
<1> HIDE DEF a
<1>4. CASE create_page(p, a, v)
  <2>1. PICK f \in Frame :
          LET e == [frame |-> f, dirty |-> "W" \in as_check_valid_addr(a, v).perms]
          IN  /\ alloc_kpages(f) /\ ref' = [ref EXCEPT ![f] = 1]
              /\ SetPTE(a, v, e)
    BY <1>4 DEF create_page
  <2> DEFINE e == [frame |-> f, dirty |-> "W" \in as_check_valid_addr(a, v).perms]
  <2>2. e \in PTE /\ e.frame = f
    <3>1. ("W" \in as_check_valid_addr(a, v).perms) \in BOOLEAN
      OBVIOUS
    <3> QED BY <3>1 DEF PTE
  <2>3. pte[a][v] = Null
    BY <1>4 DEF create_page, find_page, Mapped
  <2>4. SetPTE(a, v, e) /\ f \in free /\ free' = free \ {f} /\ ref' = [ref EXCEPT ![f] = 1]
    BY <2>1 DEF alloc_kpages
  <2> HIDE DEF e
  <2> QED BY ZenonT(60), <1>1, <1>2, <2>2, <2>3, <2>4, CountNewFrame
<1>5. CASE use_page(p, a, v, write)
  <2>1. UNCHANGED <<free, ref, pte>>
    BY <1>5 DEF use_page
  <2> QED BY <1>2, <2>1, CountSame DEF Alike
<1>6. CASE readonwrite(p, a, v)
  <2>1. PICK w \in find_page(a, v) :
          \/ /\ LastReference(pte[a][w].frame)
             /\ SetPTE(a, w, [frame |-> pte[a][w].frame, dirty |-> TRUE])
             /\ UNCHANGED <<free, ref>>
          \/ \E f \in Frame : /\ ~LastReference(pte[a][w].frame)
                              /\ alloc_kpages(f) /\ MoveReference(pte[a][w].frame, f)
                              /\ SetPTE(a, w, [frame |-> f, dirty |-> TRUE])
    BY <1>6 DEF readonwrite
  <2>2. w \in Page /\ pte[a][w] # Null
    BY DEF find_page, Mapped
  <2>3. CASE /\ LastReference(pte[a][w].frame)
             /\ SetPTE(a, w, [frame |-> pte[a][w].frame, dirty |-> TRUE])
             /\ UNCHANGED <<free, ref>>
    BY <1>1, <1>2, <2>2, <2>3, CountLastReference
  <2>4. CASE \E f \in Frame : /\ ~LastReference(pte[a][w].frame)
                              /\ alloc_kpages(f) /\ MoveReference(pte[a][w].frame, f)
                              /\ SetPTE(a, w, [frame |-> f, dirty |-> TRUE])
    <3>1. PICK f \in Frame : /\ ~LastReference(pte[a][w].frame)
                             /\ alloc_kpages(f) /\ MoveReference(pte[a][w].frame, f)
                             /\ SetPTE(a, w, [frame |-> f, dirty |-> TRUE])
      BY <2>4
    <3> DEFINE e == [frame |-> f, dirty |-> TRUE]
    <3>2. e \in PTE /\ e.frame = f
      BY DEF PTE
    <3>3. /\ ref[pte[a][w].frame] # 1 /\ MoveReference(pte[a][w].frame, f)
          /\ SetPTE(a, w, e) /\ f \in free /\ free' = free \ {f}
      BY <3>1 DEF alloc_kpages, LastReference
    <3> HIDE DEF e
    <3> QED BY SMTT(60), <1>1, <1>2, <2>2, <3>2, <3>3, CountNewFrame
  <2> QED BY <2>1, <2>3, <2>4
<1> QED BY <1>3, <1>4, <1>5, <1>6

(* The kernel heap takes a frame, and gives one back.                      *)
LEMMA CountHeap ==
  ASSUME TypeOK, CountInv, NEW f \in Frame, kmalloc(f) \/ kfree(f)
  PROVE  CountInv'
<1>1. pte' = pte
  BY DEF kmalloc, kfree, spc
<1>2. \A g : Mappers(g)' = Mappers(g)
  BY <1>1 DEF Mappers
<1>3. PagesDistinct'
  BY <1>1 DEF CountInv, PagesDistinct, Mapped
<1>4. ref \in [Frame -> Nat]
  BY DEF TypeOK
<1>5. ASSUME NEW g \in Frame
      PROVE  /\ ref[g] = Cardinality(Mappers(g)) + (IF g \in kheap THEN 1 ELSE 0)
             /\ g \in free <=> ref[g] = 0
             /\ Cardinality(Mappers(g)) \in Nat
  BY MappersCard DEF CountInv, RefCountsExact
<1>6. CASE kmalloc(f)
  <2>1. /\ f \in free /\ free' = free \ {f} /\ ref' = [ref EXCEPT ![f] = 1]
        /\ kheap' = kheap \cup {f}
    BY <1>6 DEF kmalloc, alloc_kpages
  <2>2. ref[f] = 0 /\ Cardinality(Mappers(f)) = 0 /\ Mappers(f) = {}
    BY <2>1, <1>5, MappersCard
  <2>3. RefCountsExact'
    <3> SUFFICES ASSUME NEW g \in Frame
                 PROVE  /\ ref'[g] = Cardinality(Mappers(g)') + (IF g \in kheap' THEN 1 ELSE 0)
                        /\ g \in free' <=> ref'[g] = 0
      BY DEF RefCountsExact
    <3>1. CASE g = f
      BY <3>1, <2>1, <2>2, <1>2, <1>4
    <3>2. CASE g # f
      BY <3>2, <2>1, <1>2, <1>4, <1>5
    <3> QED BY <3>1, <3>2
  <2>4. \A a \in AS, v \in Page : ~Maps(pte, a, v, f)
    BY <2>2, MappersElement
  <2>5. WritableIsPrivate'
    BY SMTT(60), <1>1, <1>4, <2>1, <2>4, EntryType DEF CountInv, WritableIsPrivate, Maps
  <2> QED BY <1>3, <2>3, <2>5 DEF CountInv
<1>7. CASE kfree(f)
  <2>1. f \in kheap /\ ref' = Released({f}) /\ free' = free \cup Freed({f}) /\ kheap' = kheap \ {f}
    BY <1>7 DEF kfree
  <2>2. ref[f] = Cardinality(Mappers(f)) + 1
    BY <1>5, <2>1
  <2>3. RefCountsExact'
    <3> SUFFICES ASSUME NEW g \in Frame
                 PROVE  /\ ref'[g] = Cardinality(Mappers(g)') + (IF g \in kheap' THEN 1 ELSE 0)
                        /\ g \in free' <=> ref'[g] = 0
      BY DEF RefCountsExact
    <3>1. CASE g = f
      BY SMTT(60), <3>1, <2>1, <2>2, <1>2, <1>5 DEF Released, Freed
    <3>2. CASE g # f
      BY <3>2, <2>1, <1>2, <1>5 DEF Released, Freed
    <3> QED BY <3>1, <3>2
  <2>4. WritableIsPrivate'
    <3> SUFFICES ASSUME NEW a \in AS, NEW v \in Page, pte[a][v] # Null, pte[a][v].dirty
                 PROVE  ref'[pte[a][v].frame] = 1
      BY <1>1 DEF WritableIsPrivate
    <3>1. pte[a][v].frame \in Frame /\ ref[pte[a][v].frame] = 1
      BY EntryType DEF CountInv, WritableIsPrivate
    <3>2. <<a, v>> \in Mappers(pte[a][v].frame)
      BY MappersElement DEF Maps
    <3>3. Cardinality(Mappers(pte[a][v].frame)) # 0
      BY <3>2, MappersCard
    <3>4. pte[a][v].frame # f
      BY <3>1, <3>3, <2>2, <1>5
    <3> QED BY <3>1, <3>4, <2>1 DEF Released
  <2> QED BY <1>3, <2>3, <2>4 DEF CountInv
<1> QED BY <1>6, <1>7

(* Every step keeps the counts exact.                                      *)
LEMMA CountNext ==
  ASSUME TypeOK, CountInv, Owned, DeadEmpty, [Next]_vars
  PROVE  CountInv'
<1>1. ASSUME UNCHANGED <<pte, free, ref, kheap>> PROVE CountInv'
  BY <1>1, CountSame DEF Alike
<1>2. ASSUME NEW f \in Frame, kmalloc(f) \/ kfree(f) PROVE CountInv'
  BY <1>2, CountHeap
<1>3. ASSUME NEW p \in Proc, proc_create_runprogram(p) PROVE CountInv'
  BY <1>1, <1>3 DEF proc_create_runprogram, spc, mem
<1>4. ASSUME NEW c \in CPU, NEW p \in Proc \cup {Null}, thread_switch(c, p) PROVE CountInv'
  BY <1>1, <1>4 DEF thread_switch, spc, mem
<1>5. ASSUME NEW c \in CPU, NEW p \in Proc, NEW v \in Page, NEW write \in BOOLEAN,
             access(c, p, v, write)
      PROVE  CountInv'
  BY <1>5, CountFault DEF access
<1>6. ASSUME NEW o \in AS, as_destroy(o) PROVE CountInv'
  <2>1. \A a \in AS \ {o} : pte'[a] = pte[a]
    BY <1>6 DEF as_destroy, TypeOK
  <2>2. \A v \in Page : pte'[o][v] = Null
    BY <1>6 DEF as_destroy, TypeOK, NoPages
  <2>3. ref' = Released(FramesOf(o)) /\ free' = free \cup Freed(FramesOf(o)) /\ kheap' = kheap
    BY <1>6 DEF as_destroy
  <2> QED BY <2>1, <2>2, <2>3, CountDestroy DEF Alike
<1>7. ASSUME NEW c \in CPU, NEW p \in Proc, proc_exit(c, p) PROVE CountInv'
  <2>1. as[p] \in AS
    BY <1>7 DEF proc_exit, Owned, TypeOK
  <2> QED BY <1>6, <1>7, <2>1 DEF proc_exit
<1>8. ASSUME NEW c \in CPU, NEW p \in Proc, NEW v \in Page,
             kernel_store(c, p, v) \/ copyout_args_failed(c, p, v)
      PROVE  CountInv'
  BY <1>1, <1>8 DEF kernel_store, copyout_args_failed, spc, mem
<1>9. ASSUME NEW c \in CPU, NEW p \in Proc, NEW child \in Proc, NEW new \in AS,
             sys_fork(c, p, child, new)
      PROVE  CountInv'
  <2>1. as[p] \in live /\ as[p] \in AS
    BY <1>9, HoldsLive DEF sys_fork, Owned
  <2>2. new \notin live /\ Mapped(new) = {}
    BY <1>9 DEF sys_fork, DeadEmpty
  <2>3. as_copy(as[p], new) /\ UNCHANGED <<free, kheap>>
    BY <1>9 DEF sys_fork
  <2> QED BY <2>1, <2>2, <2>3, CountCopy
<1>10. ASSUME NEW a \in AS, NEW S \in SUBSET Mapped(a), NEW pt, pt = [pte EXCEPT ![a] = ReadOnly(S, @)]
       PROVE  \A b \in AS, v \in Page : /\ Alike(pte, pt, b, v)
                                        /\ pt[b][v] # Null /\ pt[b][v].dirty => pte[b][v].dirty
  <2>1. pte[a] \in [Page -> PTE \cup {Null}] /\ pte \in PageTable
    BY DEF TypeOK, PageTable
  <2>2. S \subseteq Page /\ \A v \in S : pte[a][v] # Null
    BY DEF Mapped
  <2>3. \A v \in Page :
          /\ ReadOnly(S, pte[a])[v] = Null <=> pte[a][v] = Null
          /\ pte[a][v] # Null => ReadOnly(S, pte[a])[v].frame = pte[a][v].frame
          /\ ReadOnly(S, pte[a])[v] # Null /\ ReadOnly(S, pte[a])[v].dirty => pte[a][v].dirty
    <3> DEFINE pages == pte[a]
    <3>1. pages \in [Page -> PTE \cup {Null}] /\ S \in SUBSET Page /\ \A v \in S : pages[v] # Null
      BY <2>1, <2>2
    <3> HIDE DEF pages
    <3>2. \A v \in Page :
            /\ ReadOnly(S, pages)[v] = Null <=> pages[v] = Null
            /\ pages[v] # Null => ReadOnly(S, pages)[v].frame = pages[v].frame
            /\ ReadOnly(S, pages)[v] # Null /\ ReadOnly(S, pages)[v].dirty => pages[v].dirty
      BY <3>1, ReadOnlyType
    <3> QED BY <3>2 DEF pages
  <2>4. pt[a] = ReadOnly(S, pte[a]) /\ \A b \in AS \ {a} : pt[b] = pte[b]
    BY <1>10, <2>1 DEF PageTable
  <2> QED BY SMTT(60), <2>3, <2>4 DEF Alike
<1>11. ASSUME NEW c \in CPU, NEW p \in Proc, NEW S \in SUBSET Page, fork_fails(c, p, S)
       PROVE  CountInv'
  <2>1. as[p] \in AS
    BY <1>11, HoldsLive DEF fork_fails, Owned
  <2>2. S \in SUBSET Mapped(as[p]) /\ pte' = [pte EXCEPT ![as[p]] = ReadOnly(S, @)]
        /\ UNCHANGED <<free, ref, kheap>>
    BY <1>11 DEF fork_fails, mem
  <2> QED BY <2>1, <2>2, <1>10, CountSame
<1>12. ASSUME NEW c \in CPU, NEW p \in Proc, NEW new \in AS, loadexec(c, p, new)
       PROVE  CountInv'
  BY <1>1, <1>12 DEF loadexec, mem
<1>13. ASSUME NEW c \in CPU, NEW p \in Proc, tlb_random(c, p) PROVE CountInv'
  BY <1>1, <1>13 DEF tlb_random, spc, mem
<1>14. ASSUME NEW c \in CPU, NEW p \in Proc, loadexec_fails(c, p) PROVE CountInv'
  <2>1. as[p] \in AS
    BY <1>14 DEF loadexec_fails, Owned, TypeOK
  <2> QED BY <1>6, <1>14, <2>1 DEF loadexec_fails
<1>15. ASSUME NEW c \in CPU, NEW p \in Proc, loadexec_commits(c, p) PROVE CountInv'
  <2> DEFINE a == as[p]
             o == oldas[p]
             done == [pte EXCEPT ![a] = ReadOnly(Restore(a), @)]
  <2>1. a # Null /\ a # o /\ a \in AS /\ o \in AS \cup {Null}
    BY <1>15, HoldsLive DEF loadexec_commits, Owned, TypeOK
  <2>2. pte' = [b \in AS |-> IF b = o THEN NoPages ELSE done[b]] /\ kheap' = kheap
    BY <1>15 DEF loadexec_commits
  <2>3. \A b \in AS, v \in Page : /\ Alike(pte, done, b, v)
                                  /\ done[b][v] # Null /\ done[b][v].dirty => pte[b][v].dirty
    BY <1>10, <2>1 DEF Restore
  <2> HIDE DEF done
  <2>4. \A b \in AS \ {o}, v \in Page :
           /\ Alike(pte, pte', b, v)
           /\ pte'[b][v] # Null /\ pte'[b][v].dirty => pte[b][v].dirty
    BY <2>2, <2>3 DEF Alike
  <2>5. CASE o = Null
    <3>1. ref' = Released({}) /\ free' = free \cup Freed({})
      BY <1>15, <2>5 DEF loadexec_commits
    <3>2. ref' = ref /\ free' = free
      BY <3>1 DEF Released, Freed, TypeOK
    <3>3. AS \ {o} = AS
      BY <2>5, VMAssumption
    <3> QED BY <2>2, <2>4, <3>2, <3>3, CountSame
  <2>6. CASE o # Null
    <3>1. ref' = Released(FramesOf(o)) /\ free' = free \cup Freed(FramesOf(o))
      BY <1>15, <2>6 DEF loadexec_commits
    <3>2. \A v \in Page : pte'[o][v] = Null
      BY <2>1, <2>2, <2>6 DEF NoPages
    <3> QED BY SMTT(60), <2>1, <2>2, <2>4, <2>6, <3>1, <3>2, CountDestroy
  <2> QED BY <2>5, <2>6
<1>16. ASSUME NEW c \in CPU, NEW p \in Proc, enter_new_process(c, p) \/ runprogram_fails(c, p)
       PROVE  CountInv'
  BY <1>1, <1>16 DEF enter_new_process, runprogram_fails, spc, mem
<1>17. CASE UNCHANGED vars
  BY <1>1, <1>17 DEF vars
<1> QED
  BY <1>2, <1>3, <1>4, <1>5, <1>7, <1>8, <1>9, <1>11, <1>12, <1>13, <1>14, <1>15, <1>16,
     <1>17 DEF Next, kill_curthread

-----------------------------------------------------------------------------
(* Nothing is mapped and nobody owns anything at first.                    *)
LEMMA CountInit == Init => CountInv /\ Owned /\ DeadEmpty
<1> SUFFICES ASSUME Init PROVE CountInv /\ Owned /\ DeadEmpty
  OBVIOUS
<1>1. \A a \in AS, v \in Page : pte[a][v] = Null
  BY DEF Init, NoPages
<1>2. \A f : Mappers(f) = {}
  BY <1>1 DEF Mappers
<1>3. RefCountsExact
  <2>1. \A f : Cardinality(Mappers(f)) = 0
    BY <1>2, MappersCard
  <2> QED BY <2>1 DEF Init, RefCountsExact
<1>4. PagesDistinct /\ WritableIsPrivate
  BY <1>1 DEF PagesDistinct, WritableIsPrivate, Mapped
<1>5. \A p \in Proc : Holds(p) = {} /\ as[p] = Null /\ oldas[p] = Null /\ mode[p] = "none"
  BY DEF Init, Holds
<1>6. Owned
  BY <1>5 DEF Init, Owned
<1>7. DeadEmpty
  BY <1>1 DEF Init, DeadEmpty, Mapped
<1> QED BY <1>3, <1>4, <1>6, <1>7 DEF CountInv

(* Every reachable state is well typed, every address space belongs to one *)
(* process, the reference count of every frame is the number of page table *)
(* entries that refer to it, and a writable page shares its frame with no  *)
(* other: fork, copy-on-write, exec and exit, in any order on any number   *)
(* of processors, neither leak a frame, nor free one in use, nor leave a   *)
(* shared page writable in a page table.                                   *)
THEOREM MemorySafe ==
  Spec => [](TypeOK /\ AddressSpacesOwned /\ RefCountsExact /\ WritableIsPrivate /\ PagesDistinct)
<1> DEFINE IInv == TypeOK /\ CountInv /\ Owned /\ DeadEmpty
<1>1. Init => IInv
  BY TypeInit, CountInit
<1>2. IInv => AddressSpacesOwned /\ RefCountsExact /\ WritableIsPrivate /\ PagesDistinct
  BY DEF CountInv, Owned, DeadEmpty, AddressSpacesOwned
<1>3. IInv /\ [Next]_vars => IInv'
  <2> SUFFICES ASSUME IInv, [Next]_vars PROVE IInv'
    OBVIOUS
  <2>1. TypeOK'
    BY <1>2, TypeNext
  <2>2. CountInv'
    BY CountNext
  <2>3. Owned' /\ DeadEmpty'
    BY OwnedNext
  <2> QED BY <2>1, <2>2, <2>3
<1>4. IInv => TypeOK
  OBVIOUS
<1> QED BY <1>1, <1>2, <1>3, <1>4, PTL DEF Spec

(* Every address space belongs to one process and shares no page that it   *)
(* or another can write to, through fork, copy-on-write, exec and exit.    *)
THEOREM AddressSpacesSafe == Spec => []AddressSpacesSound
BY MemorySafe, PTL DEF AddressSpacesSound

=============================================================================
