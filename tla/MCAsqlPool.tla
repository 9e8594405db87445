---- MODULE MCAsqlPool ----
(* Small instances of the pool of ASQL engines. *)
EXTENDS AsqlPool
====
