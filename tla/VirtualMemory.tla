--------------------------- MODULE VirtualMemory ----------------------------
(***************************************************************************)
(* The virtual memory system: the hashed page table and vm_fault           *)
(* (kern/vm/vm.c), address spaces (kern/vm/addrspace.c), the TLBs of the   *)
(* processors, and the calls that use them: fork, execv, runprogram,       *)
(* process exit and the context switch.                                    *)
(*                                                                         *)
(* Frames are taken from and returned to the frame table as FrameTable     *)
(* provides: any free frame, counted references.  The chain at a bucket is *)
(* the set of the entries whose page hashes there; an entry is known by    *)
(* its address space and page number.  Every entry is inserted with its    *)
(* valid bit set and none is ever invalidated, so the bit is left out.     *)
(*                                                                         *)
(* pagetable_lock makes copy_page_table, as_destroy, readonwrite and       *)
(* as_complete_load atomic with respect to each other, and only a          *)
(* process's own thread changes its entries, so each of these is one step. *)
(* vm_fault is two: a thread may lose its processor between the choice of  *)
(* the entry and the write to the TLB.  The walk of the chain, which takes *)
(* no lock, is one step too.                                               *)
(***************************************************************************)
EXTENDS Integers, Sequences, FiniteSets

CONSTANTS
  Proc,        \* processes (each has one thread)
  AS,          \* addresses of struct addrspace
  Page,        \* virtual page numbers of user space
  Frame,       \* physical frames the frame table hands out
  CPU,
  hpt_hash,    \* hpt_hash[a][v]: the page table index of page v of a
  Segments,    \* the program: its PT_LOAD segments in file order
  StackPages,  \* pages of as_define_stack
  ArgPages,    \* stack pages argbuf_copyout writes
  TLBSize,     \* NUM_TLB
  Null

Perm == {"R", "W", "X", "M"}   \* PF_R, PF_W, PF_X and OS_M

Segment == [pages : SUBSET Page, perms : SUBSET {"R", "W", "X"},
            loaded : SUBSET Page]   \* loaded: pages p_filesz reaches

PTE      == [frame : Frame, dirty : BOOLEAN]
TLBEntry == [page : Page, frame : Frame, dirty : BOOLEAN]
Region   == [pages : SUBSET Page, perms : SUBSET Perm]

ASSUME VMAssumption ==
  /\ IsFiniteSet(Proc) /\ IsFiniteSet(AS) /\ IsFiniteSet(Page) /\ IsFiniteSet(Frame)
  /\ Null \notin Proc /\ Null \notin AS /\ Null \notin PTE /\ Null \notin TLBEntry
  /\ hpt_hash \in [AS -> [Page -> Nat]]
  /\ Segments \in Seq(Segment)
  /\ StackPages \subseteq Page /\ ArgPages \subseteq StackPages
  /\ TLBSize \in Nat \ {0}

VARIABLES
  as,         \* p_addrspace of each process
  oldas,      \* loadexec's oldvm
  mode,       \* what each process is doing
  todo,       \* pages the kernel still has to write during exec
  live,       \* address spaces created and not yet destroyed
  regions,    \* per address space: the list as->regions
  pte,        \* per address space and page: its page table entry
  free, ref,  \* the frame table
  kheap,      \* frames in use by kmalloc
  curproc,    \* per processor
  tlb,        \* per processor: its valid entries
  filling,    \* per process: what vm_fault is about to write to the TLB
  unflushed,  \* processors whose process has forked since their last flush
  panicked

mem  == <<free, ref, kheap>>
spc  == <<live, regions, pte>>
exe  == <<as, oldas, mode, todo>>
cpus == <<curproc, tlb, unflushed>>
vars == <<as, oldas, mode, todo, live, regions, pte, free, ref, kheap,
          curproc, tlb, filling, unflushed, panicked>>

NoPages == [v \in Page |-> Null]

TypeOK ==
  /\ as \in [Proc -> AS \cup {Null}] /\ oldas \in [Proc -> AS \cup {Null}]
  /\ mode \in [Proc -> {"none", "new", "user", "load", "args"}]
  /\ todo \in [Proc -> SUBSET Page]
  /\ live \subseteq AS
  /\ regions \in [AS -> Seq(Region)]
  /\ pte \in [AS -> [Page -> PTE \cup {Null}]]
  /\ free \subseteq Frame /\ ref \in [Frame -> Nat] /\ kheap \subseteq Frame
  /\ curproc \in [CPU -> Proc \cup {Null}]
  /\ tlb \in [CPU -> SUBSET TLBEntry]
  /\ filling \in [Proc -> TLBEntry \cup {Null}]
  /\ unflushed \subseteq CPU
  /\ panicked \in BOOLEAN

Init ==
  /\ as = [p \in Proc |-> Null] /\ oldas = [p \in Proc |-> Null]
  /\ mode = [p \in Proc |-> "none"] /\ todo = [p \in Proc |-> {}]
  /\ live = {} /\ regions = [a \in AS |-> <<>>] /\ pte = [a \in AS |-> NoPages]
  /\ free = Frame /\ ref = [f \in Frame |-> 0] /\ kheap = {}
  /\ curproc = [c \in CPU |-> Null] /\ tlb = [c \in CPU |-> {}]
  /\ filling = [p \in Proc |-> Null] /\ unflushed = {}
  /\ panicked = FALSE

-----------------------------------------------------------------------------
(* Page table and frame table operators.                                   *)

Mapped(a) == {v \in Page : pte[a][v] # Null}
FramesOf(a) == {pte[a][v].frame : v \in Mapped(a)}

(* find_page compares the address space of the entries at the index, and   *)
(* nothing else: the pages whose entry it may return for page v.           *)
find_page(a, v) == {w \in Mapped(a) : hpt_hash[a][w] = hpt_hash[a][v]}

(* as_check_valid_addr: the first region on the list that holds the page.  *)
Covering(a, v) == {i \in 1 .. Len(regions[a]) : v \in regions[a][i].pages}
ValidAddr(a, v) == Covering(a, v) # {}
as_check_valid_addr(a, v) ==
  regions[a][CHOOSE i \in Covering(a, v) : \A j \in Covering(a, v) : i <= j]
Writable(a, v) == ValidAddr(a, v) /\ "W" \in as_check_valid_addr(a, v).perms

(* alloc_kpages(1) for a page of user memory.                              *)
alloc_kpages(f) ==
  /\ f \in free
  /\ free' = free \ {f}

(* free_kpages on every frame of the set: the last reference frees.        *)
Released(S) == [f \in Frame |-> IF f \in S THEN ref[f] - 1 ELSE ref[f]]
Freed(S) == {f \in S : ref[f] - 1 <= 0}

(* as_activate on processor c when its process has address space a.        *)
as_activate(c, a) ==
  IF a = Null THEN UNCHANGED <<tlb, unflushed>>
  ELSE /\ tlb' = [tlb EXCEPT ![c] = {}]
       /\ unflushed' = unflushed \ {c}

(* An as_destroy that returns early.                                       *)
Undestroyed(a) == UNCHANGED <<pte, ref, free, regions, live, kheap>>

(* as_destroy, but for the flush at its end.                               *)
as_destroy(a) ==
  /\ pte' = [pte EXCEPT ![a] = NoPages]
  /\ ref' = Released(FramesOf(a))
  /\ free' = free \cup Freed(FramesOf(a))
  /\ regions' = [regions EXCEPT ![a] = <<>>]
  /\ live' = live \ {a}
  /\ UNCHANGED kheap

Running(c, p) == curproc[c] = p /\ filling[p] = Null /\ ~panicked

-----------------------------------------------------------------------------
(* A switch that takes a TLB left by an idle processor to be still good.   *)
lazy_switch(c, p) ==
  /\ ~panicked /\ curproc[c] # p
  /\ p # Null => mode[p] # "none" /\ \A d \in CPU : curproc[d] # p
  /\ curproc' = [curproc EXCEPT ![c] = p]
  /\ IF p = Null \/ curproc[c] = Null THEN UNCHANGED <<tlb, unflushed>>
     ELSE as_activate(c, as[p])
  /\ UNCHANGED <<exe, spc, mem, filling, panicked>>

(* The scheduler gives processor c to process p, or to a kernel thread.    *)
thread_switch(c, p) ==
  /\ ~panicked /\ curproc[c] # p
  /\ p # Null => mode[p] # "none" /\ \A d \in CPU : curproc[d] # p
  /\ curproc' = [curproc EXCEPT ![c] = p]
  /\ IF p = Null THEN UNCHANGED <<tlb, unflushed>> ELSE as_activate(c, as[p])
  /\ UNCHANGED <<exe, spc, mem, filling, panicked>>

(* The menu thread makes a process with no address space for runprogram.   *)
proc_create_runprogram(p) ==
  /\ ~panicked /\ mode[p] = "none"
  /\ mode' = [mode EXCEPT ![p] = "new"]
  /\ UNCHANGED <<as, oldas, todo, spc, mem, cpus, filling, panicked>>

(* kmalloc takes a frame for its own use and gives it back.                *)
kmalloc(f) ==
  /\ ~panicked /\ alloc_kpages(f)
  /\ ref' = [ref EXCEPT ![f] = 1] /\ kheap' = kheap \cup {f}
  /\ UNCHANGED <<exe, spc, cpus, filling, panicked>>

kfree(f) ==
  /\ ~panicked /\ f \in kheap
  /\ ref' = Released({f}) /\ free' = free \cup Freed({f})
  /\ kheap' = kheap \ {f}
  /\ UNCHANGED <<exe, spc, cpus, filling, panicked>>

(* A kmalloc of a few bytes can fail only if it finds no frame.            *)
NoMemory == free = {}

-----------------------------------------------------------------------------
(* vm_fault, up to the TLB write, on a TLB miss for page v.  The outcome   *)
(* is an entry for the TLB or an error.                                    *)

(* A store to a read-only entry taken for a miss.                          *)
MissOrReadOnly(c, v) == \A e \in tlb[c] : e.page # v \/ ~e.dirty

Miss(c, v) == \A e \in tlb[c] : e.page # v

(* Every page loaded as writable.                                          *)
FillWritable(p, v, e) ==
  filling' = [filling EXCEPT ![p] = [page |-> v, frame |-> e.frame, dirty |-> TRUE]]

Fill(p, v, e) ==
  filling' = [filling EXCEPT ![p] = [page |-> v, frame |-> e.frame, dirty |-> e.dirty]]

SetPTE(a, v, e) == pte' = [pte EXCEPT ![a][v] = e]

(* No entry found: create_page and insert_page.                            *)
create_page(p, a, v) ==
  /\ find_page(a, v) = {}
  /\ ValidAddr(a, v)
  /\ \E f \in Frame :
       LET e == [frame |-> f, dirty |-> "W" \in as_check_valid_addr(a, v).perms]
       IN  /\ alloc_kpages(f)
           /\ ref' = [ref EXCEPT ![f] = 1]
           /\ SetPTE(a, v, e) /\ Fill(p, v, e)

(* An entry that will do: any on a read, a writable one on a write.        *)
use_page(p, a, v, write) ==
  \E w \in find_page(a, v) :
    /\ write => pte[a][w].dirty
    /\ Fill(p, v, pte[a][w])
    /\ UNCHANGED <<free, ref, pte>>

(* frame_ref_cnt off by one, and copying without dropping the reference.   *)
FewReferences(f) == ref[f] <= 2
KeepReference(from, f) == ref' = [ref EXCEPT ![f] = 1]

LastReference(f) == ref[f] = 1
MoveReference(from, f) == ref' = [ref EXCEPT ![f] = 1, ![from] = @ - 1]

(* A write to a read-only entry of a writable region: the last reference   *)
(* takes the frame, any other gets a copy.                                 *)
readonwrite(p, a, v) ==
  \E w \in find_page(a, v) :
    LET from == pte[a][w].frame IN
    /\ ~pte[a][w].dirty /\ Writable(a, v)
    /\ \/ LET e == [frame |-> from, dirty |-> TRUE]
          IN  /\ LastReference(from)
              /\ SetPTE(a, w, e) /\ Fill(p, v, e)
              /\ UNCHANGED <<free, ref>>
       \/ \E f \in Frame :
            LET e == [frame |-> f, dirty |-> TRUE]
            IN  /\ ~LastReference(from)
                /\ alloc_kpages(f) /\ MoveReference(from, f)
                /\ SetPTE(a, w, e) /\ Fill(p, v, e)

vm_fault(c, p, v, write) ==
  /\ Running(c, p) /\ as[p] # Null /\ Miss(c, v)
  /\ \/ create_page(p, as[p], v)
     \/ use_page(p, as[p], v, write)
     \/ write /\ readonwrite(p, as[p], v)
  /\ UNCHANGED <<exe, live, regions, kheap, cpus, panicked>>

(* The accesses vm_fault refuses: EFAULT or ENOMEM.  A store through a     *)
(* read-only TLB entry is VM_FAULT_READONLY and is always refused.         *)
BadAddress(a, v) == find_page(a, v) = {} /\ ~ValidAddr(a, v)
NoWrite(a, v) == \E w \in find_page(a, v) : ~pte[a][w].dirty /\ ~Writable(a, v)
NoFrame(a, v, write) ==
  /\ NoMemory
  /\ \/ find_page(a, v) = {} /\ ValidAddr(a, v)
     \/ /\ write /\ Writable(a, v)
        /\ \E w \in find_page(a, v) : ~pte[a][w].dirty /\ ~LastReference(pte[a][w].frame)
ReadOnlyHit(c, v) == \E e \in tlb[c] : e.page = v /\ ~e.dirty

Refused(c, p, v, write) ==
  \/ /\ Miss(c, v)
     /\ \/ as[p] = Null
        \/ /\ as[p] # Null
           /\ \/ BadAddress(as[p], v)
              \/ write /\ NoWrite(as[p], v)
              \/ NoFrame(as[p], v, write)
  \/ write /\ ReadOnlyHit(c, v)

(* The end of vm_fault: the entry replaces a random one.                   *)
tlb_random(c, p) ==
  /\ ~panicked /\ curproc[c] = p /\ filling[p] # Null
  /\ \E victim \in SUBSET tlb[c] :
       /\ Cardinality(victim) <= 1
       /\ Cardinality(tlb[c] \ victim) < TLBSize
       /\ tlb' = [tlb EXCEPT ![c] = (@ \ victim) \cup {filling[p]}]
  /\ filling' = [filling EXCEPT ![p] = Null]
  /\ UNCHANGED <<exe, spc, mem, curproc, unflushed, panicked>>

-----------------------------------------------------------------------------
(* fork: as_copy on the parent's processor.  The child's list is built by  *)
(* pushing copies, so it is reversed; OS_M is not copied.  copy_page_table *)
(* makes every entry of the parent read-only and shares its frame.         *)
ReadOnly(S, pages) ==
  [v \in Page |-> IF v \in S THEN [pages[v] EXCEPT !.dirty = FALSE] ELSE pages[v]]

CopyRegions(list) ==
  [i \in 1 .. Len(list) |->
     LET r == list[Len(list) + 1 - i]
     IN  [r EXCEPT !.perms = @ \ {"M"}]]

(* Sharing frames without counting the new references.                     *)
as_copy_uncounted(old, new) ==
  LET shared == ReadOnly(Mapped(old), pte[old])
  IN  /\ live' = live \cup {new}
      /\ regions' = [regions EXCEPT ![new] = CopyRegions(regions[old])]
      /\ pte' = [pte EXCEPT ![old] = shared, ![new] = shared]
      /\ UNCHANGED ref

as_copy(old, new) ==
  LET shared == ReadOnly(Mapped(old), pte[old])
  IN  /\ live' = live \cup {new}
      /\ regions' = [regions EXCEPT ![new] = CopyRegions(regions[old])]
      /\ pte' = [pte EXCEPT ![old] = shared, ![new] = shared]
      /\ ref' = [f \in Frame |-> IF f \in FramesOf(old) THEN ref[f] + 1 ELSE ref[f]]

(* sys_fork returns to the parent without touching its TLB.                *)
sys_fork(c, p, child, new) ==
  /\ Running(c, p) /\ mode[p] = "user"
  /\ mode[child] = "none" /\ new \in AS \ live
  /\ as_copy(as[p], new)
  /\ as' = [as EXCEPT ![child] = new]
  /\ mode' = [mode EXCEPT ![child] = "user"]
  /\ unflushed' = unflushed \cup {c}
  /\ UNCHANGED <<oldas, todo, free, kheap, curproc, tlb, filling, panicked>>

(* fork runs out of memory: copy_page_table after the entries of S, or     *)
(* filetable_copy or thread_fork after all of them.  as_destroy removes    *)
(* the copy and flushes; the entries of S stay read-only.                  *)
fork_fails(c, p, S) ==
  /\ Running(c, p) /\ mode[p] = "user" /\ NoMemory
  /\ S \subseteq Mapped(as[p])
  /\ pte' = [pte EXCEPT ![as[p]] = ReadOnly(S, @)]
  /\ as_activate(c, as[p])
  /\ UNCHANGED <<exe, live, regions, mem, curproc, filling, panicked>>

-----------------------------------------------------------------------------
(* loadexec: install the new address space and define the regions; up to   *)
(* as_prepare_load, which makes every region writable for the loader.      *)
prepared(perms) == IF "W" \in perms THEN perms ELSE perms \cup {"W", "M"}

LoadRegions ==
  [i \in 1 .. Len(Segments) |->
     LET s == Segments[Len(Segments) + 1 - i]
     IN  [pages |-> s.pages, perms |-> prepared(s.perms)]]

LoadPages == UNION {Segments[i].loaded : i \in 1 .. Len(Segments)}

loadexec(c, p, new) ==
  /\ Running(c, p) /\ mode[p] \in {"user", "new"}
  /\ new \in AS \ live
  /\ live' = live \cup {new}
  /\ regions' = [regions EXCEPT ![new] = LoadRegions]
  /\ as' = [as EXCEPT ![p] = new] /\ oldas' = [oldas EXCEPT ![p] = as[p]]
  /\ as_activate(c, new)
  /\ mode' = [mode EXCEPT ![p] = "load"] /\ todo' = [todo EXCEPT ![p] = LoadPages]
  /\ UNCHANGED <<pte, mem, curproc, filling, panicked>>

(* load_segment, and later argbuf_copyout, store to a page of the process. *)
kernel_store(c, p, v) ==
  /\ Running(c, p) /\ v \in todo[p]
  /\ \E e \in tlb[c] : e.page = v /\ e.dirty
  /\ todo' = [todo EXCEPT ![p] = @ \ {v}]
  /\ UNCHANGED <<as, oldas, mode, spc, mem, cpus, filling, panicked>>

(* load_elf or as_define_stack fails (a bad file, an I/O error, a store    *)
(* refused, no memory): the old address space is put back.  The process of *)
(* runprogram has none and exits.                                          *)
loadexec_fails(c, p) ==
  /\ Running(c, p) /\ mode[p] = "load"
  /\ as_destroy(as[p])
  /\ as' = [as EXCEPT ![p] = oldas[p]] /\ oldas' = [oldas EXCEPT ![p] = Null]
  /\ as_activate(c, oldas[p])
  /\ mode' = [mode EXCEPT ![p] = IF oldas[p] = Null THEN "none" ELSE "user"]
  /\ curproc' = [curproc EXCEPT ![c] = IF oldas[p] = Null THEN Null ELSE p]
  /\ todo' = [todo EXCEPT ![p] = {}]
  /\ UNCHANGED <<filling, panicked>>

(* as_complete_load: the walk over index 0 resets the entries it finds in  *)
(* regions marked OS_M and then the regions themselves, so that at every   *)
(* later index there is no marked region left.                             *)
Restore(a) ==
  {v \in Mapped(a) : /\ hpt_hash[a][v] = 0
                     /\ ValidAddr(a, v) /\ "M" \in as_check_valid_addr(a, v).perms}

restored(perms) == IF "M" \in perms THEN perms \ {"W", "M"} ELSE perms

RestoredRegions(a) ==
  [i \in 1 .. Len(regions[a]) |-> [regions[a][i] EXCEPT !.perms = restored(@)]]

StackRegion == [pages |-> StackPages, perms |-> {"R", "W"}]

(* The rest of loadexec when everything is loaded: as_complete_load,       *)
(* as_define_stack, and the end of the old address space.                  *)
loadexec_commits(c, p) ==
  LET a == as[p]
      o == oldas[p]
      gone == IF o = Null THEN {} ELSE FramesOf(o)
      done == [pte EXCEPT ![a] = ReadOnly(Restore(a), @)]
      list == [regions EXCEPT ![a] = <<StackRegion>> \o RestoredRegions(a)]
  IN  /\ Running(c, p) /\ mode[p] = "load" /\ todo[p] = {}
      /\ pte' = [b \in AS |-> IF b = o THEN NoPages ELSE done[b]]
      /\ regions' = [b \in AS |-> IF b = o THEN <<>> ELSE list[b]]
      /\ live' = live \ {o}
      /\ ref' = Released(gone) /\ free' = free \cup Freed(gone)
      /\ as_activate(c, a)
      /\ oldas' = [oldas EXCEPT ![p] = Null]
      /\ mode' = [mode EXCEPT ![p] = "args"] /\ todo' = [todo EXCEPT ![p] = ArgPages]
      /\ UNCHANGED <<as, kheap, curproc, filling, panicked>>

(* argbuf_copyout is done and the process enters user mode.                *)
enter_new_process(c, p) ==
  /\ Running(c, p) /\ mode[p] = "args" /\ todo[p] = {}
  /\ mode' = [mode EXCEPT ![p] = "user"]
  /\ UNCHANGED <<as, oldas, todo, spc, mem, cpus, filling, panicked>>

-----------------------------------------------------------------------------
(* proc_exit: the thread leaves the process for the kernel's, so the       *)
(* as_activate at the end of as_destroy finds no address space to flush.   *)
proc_exit(c, p) ==
  /\ Running(c, p) /\ mode[p] = "user"
  /\ as_destroy(as[p])
  /\ as' = [as EXCEPT ![p] = Null]
  /\ mode' = [mode EXCEPT ![p] = "none"]
  /\ curproc' = [curproc EXCEPT ![c] = Null]
  /\ UNCHANGED <<oldas, todo, tlb, filling, unflushed, panicked>>

(* runprogram fails before it has an address space: the process exits.     *)
runprogram_fails(c, p) ==
  /\ Running(c, p) /\ mode[p] = "new"
  /\ mode' = [mode EXCEPT ![p] = "none"]
  /\ curproc' = [curproc EXCEPT ![c] = Null]
  /\ UNCHANGED <<as, oldas, todo, spc, mem, tlb, filling, unflushed, panicked>>

(* An access the VM system refuses kills a user program; in argbuf_copyout *)
(* it panics, the old address space being gone.                            *)
kill_curthread(c, p, v, write) ==
  /\ Refused(c, p, v, write)
  /\ proc_exit(c, p)

copyout_args_failed(c, p, v) ==
  /\ Running(c, p) /\ mode[p] = "args" /\ v \in todo[p]
  /\ Refused(c, p, v, TRUE)
  /\ panicked' = TRUE
  /\ UNCHANGED <<exe, spc, mem, cpus, filling>>

(* A user process touches any page; the kernel, during exec, writes the    *)
(* pages it has to.                                                        *)
access(c, p, v, write) ==
  /\ mode[p] = "user" \/ (v \in todo[p] /\ write)
  /\ vm_fault(c, p, v, write)

-----------------------------------------------------------------------------
Next ==
  \/ \E f \in Frame : kmalloc(f) \/ kfree(f)
  \/ \E p \in Proc : proc_create_runprogram(p)
  \/ \E c \in CPU : \E p \in Proc \cup {Null} : thread_switch(c, p)
  \/ \E c \in CPU, p \in Proc :
       \/ \E v \in Page, write \in BOOLEAN :
            access(c, p, v, write) \/ kill_curthread(c, p, v, write)
       \/ \E v \in Page : kernel_store(c, p, v) \/ copyout_args_failed(c, p, v)
       \/ \E child \in Proc, new \in AS : sys_fork(c, p, child, new)
       \/ \E S \in SUBSET Page : fork_fails(c, p, S)
       \/ \E new \in AS : loadexec(c, p, new)
       \/ tlb_random(c, p) \/ loadexec_fails(c, p) \/ loadexec_commits(c, p)
       \/ enter_new_process(c, p) \/ runprogram_fails(c, p) \/ proc_exit(c, p)

Spec == Init /\ [][Next]_vars

-----------------------------------------------------------------------------
(* The page table entries that refer to a frame.                           *)
Mappers(f) == {m \in AS \X Page : pte[m[1]][m[2]] # Null
                                  /\ pte[m[1]][m[2]].frame = f}

(* The count of a frame is the number of page table entries that refer to  *)
(* it (one for a frame of the kernel heap), and a frame is free exactly    *)
(* when nothing refers to it: fork, copy-on-write, exec and exit neither   *)
(* leak a frame nor free one that is still mapped.                         *)
RefCountsExact ==
  /\ \A f \in Frame : ref[f] = Cardinality(Mappers(f)) + (IF f \in kheap THEN 1 ELSE 0)
  /\ \A f \in Frame : f \in free <=> ref[f] = 0

(* A frame whose page table entry allows writing has no other entry.       *)
WritableIsPrivate ==
  \A a \in AS, v \in Page :
    pte[a][v] # Null /\ pte[a][v].dirty => ref[pte[a][v].frame] = 1

(* No two pages of an address space are the same frame.                    *)
PagesDistinct ==
  \A a \in AS : \A v, w \in Mapped(a) : pte[a][v].frame = pte[a][w].frame => v = w

(* The TLB of a processor that runs a user process translates no page      *)
(* otherwise than the page table of that process does.                     *)
User(c) == curproc[c] # Null /\ as[curproc[c]] # Null

TLBMatchesPageTable ==
  \A c \in CPU : User(c) =>
    \A e \in tlb[c] :
      LET m == pte[as[curproc[c]]][e.page] IN m # Null /\ m.frame = e.frame

(* vm_fault never writes a page to a TLB that already holds it, even when  *)
(* its thread lost the processor between the miss and the write.           *)
NoDuplicateTLBEntry ==
  \A c \in CPU :
    /\ \A e1, e2 \in tlb[c] : e1.page = e2.page => e1 = e2
    /\ curproc[c] # Null /\ filling[curproc[c]] # Null
         => \A e \in tlb[c] : e.page # filling[curproc[c]].page

(* Unless its process has forked since the last flush, a processor can     *)
(* write only to frames that no other process maps.                        *)
TLBWritesPrivate ==
  \A c \in CPU : User(c) /\ c \notin unflushed =>
    \A e \in tlb[c] : e.dirty => ref[e.frame] = 1

(* Every address space in existence belongs to one process, as its own or  *)
(* as the one exec will go back to: none is lost, none is shared, a        *)
(* process in user mode has one, and a dead one has no pages or regions.   *)
Holds(p) == {as[p], oldas[p]} \ {Null}

AddressSpacesOwned ==
  /\ live = UNION {Holds(p) : p \in Proc}
  /\ \A p, q \in Proc : p # q => Holds(p) \cap Holds(q) = {}
  /\ \A p \in Proc : /\ as[p] = Null <=> mode[p] \in {"none", "new"}
                     /\ oldas[p] # Null => mode[p] = "load" /\ oldas[p] # as[p]
  /\ \A a \in AS \ live : Mapped(a) = {} /\ regions[a] = <<>>

(* Address spaces are whole: each belongs to one process, no page of one   *)
(* is another page of it or a page of another that either can write to     *)
(* (copy_page_table, copy_frame, loadexec, as_destroy).                    *)
AddressSpacesSound ==
  TypeOK /\ AddressSpacesOwned /\ WritableIsPrivate /\ PagesDistinct

(* What a processor translates is what the page table of its process says, *)
(* once, and writable only where no other process can tell; vm_fault and   *)
(* thread_switch see to it without a lock.                                 *)
TLBSound == TLBMatchesPageTable /\ NoDuplicateTLBEntry /\ TLBWritesPrivate

-----------------------------------------------------------------------------
(* What the documentation says of the code and the code does not do.       *)

(* vm.c on copy_page_table: "sets both pages to share the existing frame,  *)
(* and sets both pages to read only": no processor can write to a frame    *)
(* two processes share.                                                    *)
SharedIsReadOnly ==
  \A c \in CPU : User(c) => \A e \in tlb[c] : e.dirty => ref[e.frame] = 1

(* vm.c on vm_fault: "lookup pagetable for an existing entry and load it   *)
(* into the TLB, else allocate a new page and frame": two pages of a       *)
(* process are not the same memory.                                        *)
PagesNotAliased ==
  \A c \in CPU : User(c) => \A e1, e2 \in tlb[c] : e1.frame = e2.frame => e1 = e2
=============================================================================
