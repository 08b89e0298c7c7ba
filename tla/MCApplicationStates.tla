------------------------ MODULE MCApplicationStates ------------------------
(***************************************************************************)
(* Three states, of which two share a word of the bitmap, and two timeout  *)
(* slots, so that the slots run out.                                       *)
(***************************************************************************)
EXTENDS ApplicationStates

MCState == {1, 2, 3}
MCWordOf == [s \in MCState |-> IF s = 3 THEN 1 ELSE 0]
=============================================================================
