------------------------------ MODULE MCSession ------------------------------
(* Session on small instances. *)
EXTENDS Session, TLC

SessionSymmetry == Permutations(Sessions)

\* A state constraint: nothing is claimed of a buffer after a trespass.
BeforeTrespass == trespassed = {}
=============================================================================
