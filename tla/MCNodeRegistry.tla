--------------------------- MODULE MCNodeRegistry ---------------------------
(* NodeRegistry with sets of model values.  Objects are interchangeable,   *)
(* and so are the devices.                                                 *)
EXTENDS NodeRegistry, TLC

Symmetry == Permutations(Object) \cup Permutations(Udid)
=============================================================================
