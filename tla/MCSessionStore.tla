--------------------------- MODULE MCSessionStore ---------------------------
(* SessionStore for TLC.  Users, Ids and Callers are sets of model values    *)
(* that no operation tells apart, so permuting each is a symmetry.         *)
EXTENDS SessionStore, TLC

Symmetry == Permutations(Users) \cup Permutations(Ids) \cup Permutations(Callers)
=============================================================================
