-------------------------- MODULE MCVirtualMemory ---------------------------
(* Instances of VirtualMemory for TLC: a program with a text page that is  *)
(* not writable, a data page and a stack page.                             *)
EXTENDS VirtualMemory, TLC

MCPage == {"text", "data", "stack"}

MCSegments ==
  << [pages |-> {"text"}, perms |-> {"R", "X"}, loaded |-> {"text"}],
     [pages |-> {"data"}, perms |-> {"R", "W"}, loaded |-> {}] >>

Index == "text" :> 1 @@ "data" :> 2 @@ "stack" :> 3

(* A page table large enough for no two pages of a process to collide.     *)
NoCollision == [a \in AS |-> Index]

(* Text and data at the same index.                                        *)
Collision == [a \in AS |-> "text" :> 1 @@ "data" :> 1 @@ "stack" :> 0]

(* A smaller program, for two processors: its text and its stack.          *)
SmallPage == {"text", "stack"}
SmallSegments == SubSeq(MCSegments, 1, 1)
SmallNoCollision == [a \in AS |-> "text" :> 1 @@ "stack" :> 2]

Symmetry == Permutations(Proc) \cup Permutations(AS)
              \cup Permutations(Frame) \cup Permutations(CPU)

=============================================================================
