-------------------------- MODULE MCEquipmentCache --------------------------
(* Small instances of EquipmentCache. *)
EXTENDS EquipmentCache
=============================================================================
