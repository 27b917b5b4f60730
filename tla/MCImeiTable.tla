---------------------------- MODULE MCImeiTable -----------------------------
(* Small instances of ImeiTable. *)
EXTENDS ImeiTable
=============================================================================
