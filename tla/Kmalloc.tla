------------------------------ MODULE Kmalloc -------------------------------
(***************************************************************************)
(* The kernel heap (kern/vm/kmalloc.c): blocks of a few sizes cut from     *)
(* pages, a pageref for every such page, and pages of pagerefs.            *)
(*                                                                         *)
(* kmalloc_spinlock is not held while pages are allocated or freed, so a   *)
(* step is what is done under it in one go, or one call of alloc_kpages or *)
(* free_kpages.  The page allocator is that of FrameTable: it gives one    *)
(* page at a time and fails when there is none.  The debugging modes are   *)
(* off, as they are in the source.                                         *)
(***************************************************************************)
EXTENDS Integers, Sequences, SequencesExt, FiniteSets

CONSTANTS
  Thread, Page, Null,
  PAGE_SIZE, sizes, LARGEST_SUBPAGE_SIZE,
  NUM_PAGEREFPAGES, NPAGEREFS_PER_PAGE,
  Requests            \* the sizes asked for

BlockType == 1 .. Len(sizes)
Root == 1 .. NUM_PAGEREFPAGES
Index == 0 .. NPAGEREFS_PER_PAGE - 1
Pageref == Root \X Index

(* What the constants must satisfy.                                        *)
KmallocConstants ==
  /\ Null \notin Page /\ PAGE_SIZE \in Nat
  /\ \A b \in BlockType : sizes[b] > 0 /\ PAGE_SIZE % sizes[b] = 0 /\ sizes[b] < PAGE_SIZE
  /\ \A b, c \in BlockType : b < c => sizes[b] < sizes[c]
  /\ LARGEST_SUBPAGE_SIZE = sizes[Len(sizes)]
  /\ NUM_PAGEREFPAGES \in Nat /\ NPAGEREFS_PER_PAGE \in Nat
  /\ Requests \subseteq 1 .. PAGE_SIZE

VARIABLES
  free,          \* the pages alloc_kpages can give
  kheaproots,    \* per root: its page, the bits in use and their number
  refs,          \* the contents of the pagerefs
  sizebases,     \* per block type: the list of its pagerefs
  allbase,       \* the list of all
  call,          \* per thread: the kmalloc or kfree it is in
  held,          \* what has been allocated: page, offset and size asked for
  panicked       \* an assertion has failed

heap == <<kheaproots, refs, sizebases, allbase>>
vars == <<free, heap, call, held, panicked>>

Blocks(b) == PAGE_SIZE \div sizes[b]
NoCall == [op |-> "none", sz |-> 0, page |-> Null, ref |-> Null, va |-> Null]
NoRef == [page |-> Null, type |-> 0, freelist |-> <<>>, nfree |-> 0]

TypeOK ==
  /\ free \subseteq Page
  /\ kheaproots \in [Root -> [page : Page \cup {Null}, inuse : SUBSET Index,
                              numinuse : 0 .. NPAGEREFS_PER_PAGE]]
  /\ DOMAIN refs = Pageref
  /\ \A pr \in Pageref :
       /\ refs[pr].page \in Page \cup {Null} /\ refs[pr].type \in BlockType \cup {0}
       /\ refs[pr].nfree \in 0 .. PAGE_SIZE /\ refs[pr].freelist \in Seq(0 .. PAGE_SIZE - 1)
  /\ sizebases \in [BlockType -> Seq(Pageref)] /\ allbase \in Seq(Pageref)
  /\ DOMAIN call = Thread
  /\ \A t \in Thread :
       /\ call[t].op \in {"none", "page", "ref", "refpage", "gotrefpage", "extra", "free"}
       /\ call[t].page \in Page \cup {Null} /\ call[t].va \in Page \cup {Null}
       /\ call[t].ref \in Pageref \cup {Null} /\ call[t].sz \in Requests \cup {0}
  /\ held \subseteq [page : Page, offset : 0 .. PAGE_SIZE - 1, sz : Requests]
  /\ panicked \in BOOLEAN

Init ==
  /\ free = Page
  /\ kheaproots = [r \in Root |-> [page |-> Null, inuse |-> {}, numinuse |-> 0]]
  /\ refs = [pr \in Pageref |-> NoRef]
  /\ sizebases = [b \in BlockType |-> <<>>] /\ allbase = <<>>
  /\ call = [t \in Thread |-> NoCall]
  /\ held = {} /\ panicked = FALSE

At(t, op) == call[t].op = op
Goes(t, c) == call' = [call EXCEPT ![t] = c]

(* alloc_kpages(1).                                                        *)
alloc_kpages(page) ==
  \/ free = {} /\ page = Null /\ UNCHANGED free
  \/ page \in free /\ free' = free \ {page}

-----------------------------------------------------------------------------
(* The smallest block that will do.                                        *)
blocktype(sz) ==
  CHOOSE b \in BlockType : sz <= sizes[b] /\ \A c \in BlockType : sz <= sizes[c] => b <= c

(* Take the first free block of the page of pr, whose entry is ref.        *)
(* Mutant: it is not counted.                                              *)
doalloc_uncounted(t, pr, ref, sz) ==
  /\ refs' = [refs EXCEPT ![pr] = [ref EXCEPT !.freelist = Tail(@)]]
  /\ held' = held \cup {[page |-> ref.page, offset |-> Head(ref.freelist), sz |-> sz]}
  /\ Goes(t, NoCall)
doalloc(t, pr, ref, sz) ==
  /\ refs' = [refs EXCEPT ![pr] = [ref EXCEPT !.freelist = Tail(@), !.nfree = @ - 1]]
  /\ held' = held \cup {[page |-> ref.page, offset |-> Head(ref.freelist), sz |-> sz]}
  /\ Goes(t, NoCall)

(* The first page of the right size with a free block.                     *)
Usable(b) == SelectSeq(sizebases[b], LAMBDA pr : refs[pr].nfree > 0)

subpage_kmalloc(t, sz) ==
  LET some == Usable(blocktype(sz)) IN
  /\ At(t, "none") /\ sz < LARGEST_SUBPAGE_SIZE
  /\ \/ /\ some # <<>>
        /\ doalloc(t, Head(some), refs[Head(some)], sz)
     \/ /\ some = <<>>
        /\ Goes(t, [NoCall EXCEPT !.op = "page", !.sz = sz])
        /\ UNCHANGED <<refs, held>>
  /\ UNCHANGED <<free, kheaproots, sizebases, allbase, panicked>>

(* There was none: get a page, without the lock.                           *)
get_page(t) ==
  \E page \in Page \cup {Null} :
    /\ At(t, "page") /\ alloc_kpages(page)
    /\ Goes(t, IF page = Null THEN NoCall ELSE [call[t] EXCEPT !.op = "ref", !.page = page])
    /\ UNCHANGED <<heap, held, panicked>>

-----------------------------------------------------------------------------
(* The blocks of a fresh page, linked from the last to the first.  Mutant: *)
(* one too far.                                                            *)
FreshPast(b) == [k \in 1 .. Blocks(b) |-> (Blocks(b) - k + 1) * sizes[b]]
FreshList(b) == [k \in 1 .. Blocks(b) |-> (Blocks(b) - k) * sizes[b]]

(* The new page goes on both lists and the block is taken from it.         *)
new_page(t, pr) ==
  LET b == blocktype(call[t].sz) IN
  /\ sizebases' = [sizebases EXCEPT ![b] = <<pr>> \o @]
  /\ allbase' = <<pr>> \o allbase
  /\ doalloc(t, pr, [page |-> call[t].page, type |-> b, freelist |-> FreshList(b),
                     nfree |-> Blocks(b)], call[t].sz)

(* The roots that have a pageref left, and the first of those.             *)
RootsLeft == {r \in Root : kheaproots[r].numinuse < NPAGEREFS_PER_PAGE}
FirstLeft(r) ==
  LET left == Index \ kheaproots[r].inuse IN <<r, CHOOSE i \in left : \A j \in left : i <= j>>

MarkUsed(pr) ==
  kheaproots' = [kheaproots EXCEPT ![pr[1]].inuse = @ \cup {pr[2]}, ![pr[1]].numinuse = @ + 1]

no_pageref(t) == Goes(t, [call[t] EXCEPT !.op = "free", !.ref = Null])

allocpageref(t) ==
  /\ At(t, "ref")
  /\ \/ /\ RootsLeft = {}
        /\ no_pageref(t)
        /\ UNCHANGED <<heap, held>>
     \/ \E r \in RootsLeft :
          /\ \A s \in RootsLeft : r <= s
          /\ MarkUsed(FirstLeft(r))
          /\ IF kheaproots[r].page # Null THEN new_page(t, FirstLeft(r))
             ELSE /\ Goes(t, [call[t] EXCEPT !.op = "refpage", !.ref = FirstLeft(r)])
                  /\ UNCHANGED <<refs, sizebases, allbase, held>>
  /\ UNCHANGED <<free, panicked>>

(* allocpagerefpage gives up the lock to get a page, ...                   *)
get_refpage(t) ==
  \E va \in Page \cup {Null} :
    /\ At(t, "refpage") /\ alloc_kpages(va)
    /\ Goes(t, [call[t] EXCEPT !.op = "gotrefpage", !.va = va])
    /\ UNCHANGED <<heap, held, panicked>>

(* ... which somebody else may have done meanwhile.  Mutant: nobody looks. *)
NobodyElse(t) == TRUE
StillWanted(t) == kheaproots[call[t].ref[1]].page = Null

(* The bit stays set when there is no page.                                *)
allocpagerefpage(t) ==
  LET pr == call[t].ref
      va == call[t].va
  IN  /\ At(t, "gotrefpage")
      /\ \/ /\ va = Null /\ kheaproots[pr[1]].page = Null
            /\ no_pageref(t)
            /\ UNCHANGED <<heap, held>>
         \/ /\ va = Null /\ kheaproots[pr[1]].page # Null
            /\ new_page(t, pr)
            /\ UNCHANGED kheaproots
         \/ /\ va # Null /\ StillWanted(t)
            /\ kheaproots' = [kheaproots EXCEPT ![pr[1]].page = va]
            /\ new_page(t, pr)
         \/ /\ va # Null /\ ~StillWanted(t)
            /\ Goes(t, [call[t] EXCEPT !.op = "extra"])
            /\ UNCHANGED <<heap, held>>
      /\ UNCHANGED <<free, panicked>>

(* The page is given back, and the lock is taken for the rest.             *)
free_extra(t) ==
  /\ At(t, "extra")
  /\ free' = free \cup {call[t].va}
  /\ new_page(t, call[t].ref)
  /\ UNCHANGED <<kheaproots, panicked>>

free_kpages(t) ==
  /\ At(t, "free")
  /\ free' = free \cup {call[t].page}
  /\ Goes(t, NoCall)
  /\ UNCHANGED <<heap, held, panicked>>

-----------------------------------------------------------------------------
(* Big requests get a page of their own.                                   *)
kmalloc_page(t, sz) ==
  \E page \in Page \cup {Null} :
    /\ At(t, "none") /\ sz >= LARGEST_SUBPAGE_SIZE
    /\ alloc_kpages(page)
    /\ held' = IF page = Null THEN held ELSE held \cup {[page |-> page, offset |-> 0, sz |-> sz]}
    /\ UNCHANGED <<heap, call, panicked>>

(* The pageref whose page holds an address.                                *)
PagerefsOf(page) == {pr \in ToSet(allbase) : refs[pr].page = page}

Freed(pr, offset) == [refs[pr] EXCEPT !.freelist = <<offset>> \o @, !.nfree = @ + 1]

BecomesFree(pr) == refs[pr].nfree + 1 = Blocks(refs[pr].type)

remove_lists(pr) ==
  /\ sizebases' = [sizebases EXCEPT ![refs[pr].type] = SelectSeq(@, LAMBDA q : q # pr)]
  /\ allbase' = SelectSeq(allbase, LAMBDA q : q # pr)

(* freepageref looks through the roots up to the one pr is on, and asserts *)
(* that those without a page have nothing in use.  Mutant: the number is   *)
(* left alone.                                                             *)
freepageref_number(pr) == kheaproots' = [kheaproots EXCEPT ![pr[1]].inuse = @ \ {pr[2]}]
freepageref(pr) ==
  kheaproots' = [kheaproots EXCEPT ![pr[1]].inuse = @ \ {pr[2]}, ![pr[1]].numinuse = @ - 1]
PassesRoots(pr) ==
  \A r \in 1 .. pr[1] - 1 : kheaproots[r].page = Null => kheaproots[r].numinuse = 0

(* kfree of a block of a heap page.  What a pageref no longer in use holds *)
(* is written before it is read again; it is NoRef here.                   *)
subpage_kfree(t, x) ==
  \E pr \in PagerefsOf(x.page) :
    /\ At(t, "none") /\ x \in held
    /\ \/ /\ BecomesFree(pr) /\ PassesRoots(pr)
          /\ remove_lists(pr)
          /\ freepageref(pr)
          /\ refs' = [refs EXCEPT ![pr] = NoRef]
          /\ held' = held \ {x}
          /\ Goes(t, [NoCall EXCEPT !.op = "free", !.page = x.page])
          /\ UNCHANGED panicked
       \/ /\ BecomesFree(pr) /\ ~PassesRoots(pr)
          /\ panicked' = TRUE
          /\ UNCHANGED <<heap, call, held>>
       \/ /\ ~BecomesFree(pr)
          /\ refs' = [refs EXCEPT ![pr] = Freed(pr, x.offset)]
          /\ held' = held \ {x}
          /\ UNCHANGED <<kheaproots, sizebases, allbase, call, panicked>>
    /\ UNCHANGED free

(* kfree of anything else: it has to be a page.                            *)
kfree_page(t, x) ==
  /\ At(t, "none") /\ x \in held /\ PagerefsOf(x.page) = {}
  /\ held' = held \ {x}
  /\ Goes(t, [NoCall EXCEPT !.op = "free", !.page = x.page])
  /\ UNCHANGED <<free, heap, panicked>>

-----------------------------------------------------------------------------
Next ==
  /\ ~panicked
  /\ \E t \in Thread :
       \/ \E sz \in Requests : subpage_kmalloc(t, sz) \/ kmalloc_page(t, sz)
       \/ \E x \in held : subpage_kfree(t, x) \/ kfree_page(t, x)
       \/ get_page(t) \/ allocpageref(t) \/ get_refpage(t) \/ allocpagerefpage(t)
       \/ free_extra(t) \/ free_kpages(t)

Spec == Init /\ [][Next]_vars

-----------------------------------------------------------------------------
Listed == ToSet(allbase)
InHand(t) == {call[t].page, call[t].va} \ {Null}
HeapPages == {refs[pr].page : pr \in Listed}
RefPages == {kheaproots[r].page : r \in Root} \ {Null}
BigPages == {x.page : x \in {y \in held : y.sz >= LARGEST_SUBPAGE_SIZE}}

(* No two allocations overlap, and each lies in its page: every interleav- *)
(* ing of kmalloc and kfree, whole pages and blocks alike.                 *)
NoOverlap ==
  \A x \in held :
    /\ x.offset + x.sz <= PAGE_SIZE
    /\ \A y \in held \ {x} :
         x.page = y.page => x.offset + x.sz <= y.offset \/ y.offset + y.sz <= x.offset

(* A heap page's blocks are on its free list, once, or allocated; nfree    *)
(* counts the list; and the pageref is in use, on a root that has a page.  *)
HeapExact ==
  \A pr \in Listed :
    LET ref == refs[pr]
        out == {x.offset : x \in {y \in held : y.page = ref.page}}
    IN  /\ ref.nfree = Len(ref.freelist) /\ IsInjective(ref.freelist)
        /\ ToSet(ref.freelist) \cap out = {}
        /\ ToSet(ref.freelist) \cup out = {k * sizes[ref.type] : k \in 0 .. Blocks(ref.type) - 1}
        /\ pr[2] \in kheaproots[pr[1]].inuse /\ kheaproots[pr[1]].page # Null

(* Both lists have the same pagerefs, once each, and a root's number is    *)
(* that of its bits.                                                       *)
ListsAgree ==
  /\ IsInjective(allbase)
  /\ \A b \in BlockType : /\ IsInjective(sizebases[b])
                          /\ ToSet(sizebases[b]) = {pr \in Listed : refs[pr].type = b}
  /\ \A r \in Root : kheaproots[r].numinuse = Cardinality(kheaproots[r].inuse)

(* Every page is free, a heap page, a page of pagerefs, an allocation or   *)
(* in the hands of one thread, and only one of these: none is lost or used *)
(* twice, whatever fails and whoever gets in between.                      *)
PagesAccounted ==
  LET Uses == <<free, HeapPages, RefPages, BigPages>> IN
  \A page \in Page :
    Cardinality({k \in 1 .. 4 : page \in Uses[k]}) + Cardinality({t \in Thread : page \in InHand(t)}) = 1
=============================================================================
