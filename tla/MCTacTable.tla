----------------------------- MODULE MCTacTable -----------------------------
(* Small instances of TacTable. *)
EXTENDS TacTable
=============================================================================
