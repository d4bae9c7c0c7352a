------------------------------ MODULE MCMedia ------------------------------
(***************************************************************************)
(* Instance of Media: two discs, which are alike, in lists of at most two  *)
(* entries.                                                                *)
(***************************************************************************)
EXTENDS Media

Alike == Permutations(Paths)
=============================================================================
