---------------------------- MODULE MCModelCache ----------------------------
(* Images for model checking ModelCache. *)
EXTENDS ModelCache

\* A clean image, and one with a file of its own at one of the paths.
MCImages ==
  {[p \in Paths |-> IF p = q THEN "foreign" ELSE "missing"] : q \in Paths \cup {0}}
=============================================================================
