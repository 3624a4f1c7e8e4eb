---------------------------- MODULE MCEventServer ----------------------------
(* EventServer with sets of model values; connections are interchangeable. *)
EXTENDS EventServer

Symmetry == Permutations(Conn)
=============================================================================
