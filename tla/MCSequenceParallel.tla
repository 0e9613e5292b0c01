------------------------- MODULE MCSequenceParallel -------------------------
(* Packed sequences for model checking SequenceParallel. *)
EXTENDS SequenceParallel

Segment(start, stop, row) == [start |-> start, stop |-> stop, row |-> row]

MCWorlds == {2, 3}
\* Five rows do not divide by two or three; the middle segment straddles a
\* border of the shards, the others end inside one.
MCLayouts == { << Segment(0, 1, 7), Segment(1, 4, 8), Segment(4, 5, 7) >> }
=============================================================================
