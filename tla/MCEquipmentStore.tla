-------------------------- MODULE MCEquipmentStore --------------------------
(* Small instances of EquipmentStore. *)
EXTENDS EquipmentStore
=============================================================================
