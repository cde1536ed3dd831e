---------------------------- MODULE MCPasUnwind ----------------------------
(***************************************************************************)
(* PasUnwind on small instances, beside one heap variable.                 *)
(***************************************************************************)
EXTENDS PasUnwind

CONSTANTS cellA, stream1, empty

OneCell == {cellA}
OneStream == {stream1}
=============================================================================
