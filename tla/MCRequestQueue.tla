-------------------------- MODULE MCRequestQueue --------------------------
(* RequestQueue on small instances. *)
EXTENDS RequestQueue, TLC

AgentSymmetry == Permutations(Agents)
=============================================================================
