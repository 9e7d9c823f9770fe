-------------------------- MODULE MCLockFreeQueue --------------------------
(* Small instances of LockFreeQueue for TLC. *)
EXTENDS LockFreeQueue, TLC

(* Addresses are interchangeable, and so are the threads of one kind. *)
NodeSymmetry == Permutations(Node)
ThreadSymmetry ==
    NodeSymmetry \cup Permutations(Producers) \cup Permutations(Consumers)
=============================================================================
