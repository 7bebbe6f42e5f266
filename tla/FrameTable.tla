----------------------------- MODULE FrameTable -----------------------------
(***************************************************************************)
(* The physical frame allocator: kern/vm/frametable.c on top of the bump   *)
(* allocator of kern/arch/mips/vm/ram.c.                                   *)
(*                                                                         *)
(* The frame table is an array of entries [used, ref, next_free]; the free *)
(* frames are chained through next_free from firstfreeframe.  Until        *)
(* vm_bootstrap publishes the table, alloc_kpages is served by             *)
(* ram_stealmem.  Physical addresses are frame numbers here.               *)
(*                                                                         *)
(* Every body between spinlock_acquire(&frametable_lock) and its release   *)
(* is one step.  free_kpages tests `used' before it takes the lock, so it  *)
(* is two steps and other callers run in between.                          *)
(***************************************************************************)
EXTENDS Integers, Sequences, FiniteSets

CONSTANTS
  NFrames,           \* ram_getsize() / PAGE_SIZE
  KernelFrames,      \* frames of the kernel image, in use when C code starts
  PageTableFrames,   \* frames vm_bootstrap's kmalloc(pagespace) takes
  FrameTableFrames,  \* frames frametable_bootstrap's kmalloc(framespace) takes
  Caller,            \* kernel threads that allocate and free frames
  MaxRequest,        \* bound on npages
  MaxRef             \* bound on the references to one frame

(* The image holds at least the exception page, frame 0, and is in memory. *)
ASSUME FrameAssumption ==
  /\ NFrames \in Nat /\ KernelFrames \in Nat \ {0}
  /\ PageTableFrames \in Nat \ {0} /\ FrameTableFrames \in Nat \ {0}
  /\ KernelFrames <= NFrames
  /\ MaxRequest \in Nat \ {0} /\ MaxRef \in Nat \ {0}

Frame == 0 .. NFrames - 1
Null  == -1
Idle  == -1

VARIABLES
  firstpaddr, lastpaddr,  \* ram.c: the memory the bump allocator has left
  boot,                   \* where the boot thread is in vm_bootstrap
  bumpallocated,          \* frametable_bootstrap's local of that name
  used, ref, next_free,   \* the entries of the frame table
  firstfreeframe,
  freeing,                \* per caller: the frame free_kpages is about to release
  owed,                   \* references the callers hold, per frame
  heap                    \* frames a caller may pass to free_kpages

ram   == <<firstpaddr, lastpaddr>>
table == <<used, ref, next_free, firstfreeframe>>
vars  == <<firstpaddr, lastpaddr, boot, bumpallocated, used, ref, next_free,
           firstfreeframe, freeing, owed, heap>>

Booted == boot = "up"   \* frametable != 0

TypeOK ==
  /\ firstpaddr \in 0 .. NFrames /\ lastpaddr \in 0 .. NFrames
  /\ boot \in {"early", "pagetable", "frametable", "build", "up", "panic"}
  /\ bumpallocated \in 0 .. NFrames
  /\ used \in [Frame -> BOOLEAN] /\ ref \in [Frame -> Int]
  /\ next_free \in [Frame -> Frame \cup {Null}]
  /\ firstfreeframe \in Frame \cup {Null}
  /\ freeing \in [Caller -> Frame \cup {Idle}]
  /\ owed \in [Frame -> Nat] /\ heap \subseteq Frame

Init ==
  /\ firstpaddr = KernelFrames /\ lastpaddr = NFrames
  /\ boot = "early" /\ bumpallocated = 0
  /\ used = [f \in Frame |-> FALSE] /\ ref = [f \in Frame |-> 0]
  /\ next_free = [f \in Frame |-> Null] /\ firstfreeframe = Null
  /\ freeing = [c \in Caller |-> Idle]
  /\ owed = [f \in Frame |-> IF f < KernelFrames THEN 1 ELSE 0]
  /\ heap = {}

-----------------------------------------------------------------------------
(* ram_stealmem: the bump allocator fails once it would pass lastpaddr.    *)
CanSteal(npages) == firstpaddr + npages <= lastpaddr
Stolen(npages)   == firstpaddr .. firstpaddr + npages - 1

ram_stealmem(npages) ==
  /\ CanSteal(npages)
  /\ firstpaddr' = firstpaddr + npages
  /\ owed' = [f \in Frame |-> IF f \in Stolen(npages) THEN owed[f] + 1 ELSE owed[f]]
  /\ UNCHANGED lastpaddr

(* alloc_kpages before the table is published.                             *)
alloc_kpages_early(npages) ==
  /\ ~Booted /\ boot # "panic"
  /\ ram_stealmem(npages)
  /\ heap' = heap \cup {firstpaddr}
  /\ UNCHANGED <<boot, bumpallocated, table, freeing>>

(* alloc_kpages on the frame table: nothing but one page is ever served,   *)
(* from the head of the free list.                                         *)
Available == firstfreeframe # Null /\ ~used[firstfreeframe]

TakeHead ==
  /\ used' = [used EXCEPT ![firstfreeframe] = TRUE]
  /\ ref' = [ref EXCEPT ![firstfreeframe] = 1]
  /\ firstfreeframe' = next_free[firstfreeframe]
  /\ UNCHANGED next_free

alloc_kpages(npages) ==
  /\ Booted
  /\ Available /\ npages = 1
  /\ TakeHead
  /\ owed' = [owed EXCEPT ![firstfreeframe] = @ + 1]
  /\ heap' = heap \cup {firstfreeframe}
  /\ UNCHANGED <<ram, boot, bumpallocated, freeing>>

(* free_kpages, up to the lock: nothing happens before the table exists,   *)
(* for address 0, or for a frame not marked used.  A caller passes only    *)
(* what it holds a reference to, and gives that reference up.              *)
free_kpages(c, f) ==
  /\ freeing[c] = Idle
  /\ f \in heap /\ owed[f] > 0
  /\ IF Booted /\ f # 0 /\ used[f]
       THEN /\ freeing' = [freeing EXCEPT ![c] = f]
            /\ owed' = [owed EXCEPT ![f] = @ - 1]
            /\ UNCHANGED heap
       ELSE /\ heap' = heap \ {f}
            /\ UNCHANGED <<freeing, owed>>
  /\ UNCHANGED <<ram, boot, bumpallocated, table>>

(* free_kpages, the locked part.                                           *)
PushFreeUnlinked(f) ==   \* mutant: the old head is not linked behind f
  /\ used' = [used EXCEPT ![f] = FALSE]
  /\ firstfreeframe' = f
  /\ UNCHANGED next_free

PushFree(f) ==
  /\ next_free' = [next_free EXCEPT ![f] = firstfreeframe]
  /\ used' = [used EXCEPT ![f] = FALSE]
  /\ firstfreeframe' = f

FreeWhileShared(c) ==   \* mutant: released with a reference left
  LET f == freeing[c] IN
  /\ f # Idle
  /\ ref' = [ref EXCEPT ![f] = @ - 1]
  /\ IF ref[f] - 1 <= 1
       THEN PushFree(f)
       ELSE UNCHANGED <<used, next_free, firstfreeframe>>
  /\ freeing' = [freeing EXCEPT ![c] = Idle]
  /\ UNCHANGED <<ram, boot, bumpallocated, owed, heap>>

free_kpages_locked(c) ==
  LET f == freeing[c] IN
  /\ f # Idle
  /\ ref' = [ref EXCEPT ![f] = @ - 1]
  /\ IF ref[f] - 1 <= 0
       THEN PushFree(f)
       ELSE UNCHANGED <<used, next_free, firstfreeframe>>
  /\ freeing' = [freeing EXCEPT ![c] = Idle]
  /\ UNCHANGED <<ram, boot, bumpallocated, owed, heap>>

(* frame_ref_mod: +1 from create_shared_page on a frame its page table     *)
(* entry holds, -1 from readonwrite, which has just seen a count above 1   *)
(* and holds pagetable_lock against every other release.                   *)
frame_ref_mod(f, modifier) ==
  /\ Booted
  /\ f \in heap
  /\ \/ modifier = 1 /\ owed[f] > 0 /\ ref[f] < MaxRef
     \/ modifier = -1 /\ owed[f] > 1
  /\ ref' = [ref EXCEPT ![f] = @ + modifier]
  /\ owed' = [owed EXCEPT ![f] = @ + modifier]
  /\ UNCHANGED <<ram, boot, bumpallocated, used, next_free, firstfreeframe,
                 freeing, heap>>

-----------------------------------------------------------------------------
(* vm_bootstrap: reserve the page table, then frametable_bootstrap         *)
(* reserves the frame table.  A failed kmalloc fails a KASSERT.            *)
BootReserve(from, to, npages) ==
  /\ boot = from
  /\ IF CanSteal(npages)
       THEN ram_stealmem(npages) /\ boot' = to
       ELSE boot' = "panic" /\ UNCHANGED <<ram, owed>>
  /\ UNCHANGED <<bumpallocated, table, freeing, heap>>

vm_bootstrap == BootReserve("early", "pagetable", PageTableFrames)

frametable_bootstrap ==
  BootReserve("pagetable", "frametable", FrameTableFrames)

(* ram_getfirstfree hands the rest to the VM system and disables           *)
(* ram_stealmem for good.                                                  *)
ram_getfirstfree ==
  /\ boot = "frametable"
  /\ bumpallocated' = firstpaddr
  /\ firstpaddr' = 0 /\ lastpaddr' = 0
  /\ boot' = "build"
  /\ UNCHANGED <<table, freeing, owed, heap>>

(* The two loops of frametable_bootstrap and the publication.  The second  *)
(* loop runs from the first free frame while i < freeframes, a count       *)
(* compared with an index; the entry it stops at ends the list.  Entries   *)
(* it never reaches keep the zeroes of memset.                             *)
AllFrames(base) == NFrames   \* mutant: the list runs past the last frame

freeframes(base) == NFrames - base - 1

LastLinked(base) ==
  IF base < freeframes(base) THEN freeframes(base) ELSE base

BuildFreeList ==
  LET base == bumpallocated
  IN  /\ boot = "build" /\ base < NFrames
      /\ used' = [f \in Frame |-> f < base]
      /\ ref' = [f \in Frame |-> IF f < base THEN 1 ELSE 0]
      /\ next_free' = [f \in Frame |->
           IF base <= f /\ f < LastLinked(base) THEN f + 1 ELSE Null]
      /\ firstfreeframe' = base
      /\ boot' = "up"
      /\ UNCHANGED <<ram, bumpallocated, freeing, owed, heap>>

(* When the kernel has taken the last frame already, freeframes is         *)
(* (0 / PAGE_SIZE) - 1 unsigned, and the second loop writes on from the    *)
(* end of the table until it leaves memory and the bus error panics.       *)
BuildRunsOff ==
  /\ boot = "build" /\ bumpallocated = NFrames
  /\ boot' = "panic"
  /\ UNCHANGED <<ram, bumpallocated, table, freeing, owed, heap>>

-----------------------------------------------------------------------------
Boot == vm_bootstrap \/ frametable_bootstrap \/ ram_getfirstfree \/ BuildFreeList \/ BuildRunsOff

Alloc == \E npages \in 1 .. MaxRequest :
           alloc_kpages_early(npages) \/ alloc_kpages(npages)

Free == \E c \in Caller :
          (\E f \in Frame : free_kpages(c, f)) \/ free_kpages_locked(c)

Share == \E f \in Frame : \E modifier \in {1, -1} : frame_ref_mod(f, modifier)

Next == Boot \/ Alloc \/ Free \/ Share

Spec == Init /\ [][Next]_vars

-----------------------------------------------------------------------------
(* Frames the list of BuildFreeList never reaches, and the frames that are *)
(* free and should be found on the list.                                   *)
Unlinked   == {f \in Frame : f > LastLinked(bumpallocated)}
FreeFrames == {f \in Frame : ~used[f]} \ Unlinked

(* s, of length n, is the chain from firstfreeframe along next_free.       *)
IsFreeList(s, n) ==
  /\ firstfreeframe = IF n = 0 THEN Null ELSE s[1]
  /\ \A i \in 1 .. n : next_free[s[i]] = IF i = n THEN Null ELSE s[i + 1]
  /\ \A i, j \in 1 .. n : s[i] = s[j] => i = j

(* The chain of free frames ends, visits no frame twice, and visits        *)
(* exactly the frames that are not in use (of those bootstrap linked):     *)
(* alloc_kpages hands out no frame that is in use and reports no memory    *)
(* only when every linked frame is in use.                                 *)
FreeListSound ==
  Booted =>
    \E n \in 0 .. NFrames : \E s \in [1 .. n -> FreeFrames] :
      /\ IsFreeList(s, n)
      /\ \A f \in FreeFrames : \E i \in 1 .. n : s[i] = f

(* Callers of free_kpages that have passed its test and not yet its lock.  *)
Pending(f) == {c \in Caller : freeing[c] = f}

(* The count in the table is the number of references really held, those   *)
(* of the callers and those being released, and a frame is marked used as  *)
(* long as there is one: neither a use after free nor a leak.              *)
RefsAccounted ==
  Booted => \A f \in Frame :
    /\ ref[f] = owed[f] + Cardinality(Pending(f))
    /\ used[f] <=> ref[f] > 0

(* What the comment on frametable_bootstrap says it does: "set all OS      *)
(* memory frames as used, and link all free frames".  It does not hold: the *)
(* number of free frames is used as the index of the last one.             *)
AllFreeLinked == Booted => FreeFrames = {f \in Frame : ~used[f]}

=============================================================================
