------------------------------ MODULE MCSynch -------------------------------
(* Threads are interchangeable, and so are locks.                          *)
EXTENDS Synch, TLC

Alike == Permutations(Thread) \cup Permutations(Lock)
=============================================================================
