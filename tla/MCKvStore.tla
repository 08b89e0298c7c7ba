------------------------------ MODULE MCKvStore ------------------------------
(***************************************************************************)
(* Small instances of the key-value store, given in full by the            *)
(* configurations.                                                         *)
(***************************************************************************)
EXTENDS KvStore
=============================================================================
