------------------------- MODULE MCGarbageCollect -------------------------
(* Model-checking instance of GarbageCollect. *)
EXTENDS GarbageCollect, TLC

\* Object names are interchangeable: no action or property tells one from
\* another, so the safety run may identify states that differ by a renaming.
NameSymmetry == Permutations(Names)
=============================================================================
