----------------------------- MODULE MCPasFile -----------------------------
(***************************************************************************)
(* PasFile on a small instance: two component values, a file of up to two. *)
(***************************************************************************)
EXTENDS PasFile

CONSTANTS one, two, junk

TwoComponents == {one, two}

\* A temporary direct-access file of an index-type with two values.
OneBoundedFile == {[direct |-> TRUE, named |-> FALSE, capacity |-> 2]}
=============================================================================
