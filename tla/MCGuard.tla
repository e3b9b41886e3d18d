------------------------------- MODULE MCGuard -------------------------------
(* Model-checking instance of Guard: see MCGuard.cfg. *)
EXTENDS Guard, TLC

Symmetry == Permutations(Guards) \cup Permutations(Semaphores) \cup Permutations(Threads)

=============================================================================
