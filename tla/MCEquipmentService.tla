------------------------- MODULE MCEquipmentService -------------------------
(* Small instances of EquipmentService. *)
EXTENDS EquipmentService

\* A short IMEI and a full one that ImeiSampleData has a row for, and one that
\* is in no table.  In the order of the bounds 3534... comes first, then "9",
\* then 9123..., which lies in the range 91...-98... of TacSampleData.
MCImei == {
    [start |-> "9", end |-> " ", tac |-> 2, error |-> "ErrIMEITooShort"],
    [start |-> "91234567895264", end |-> " ", tac |-> 3, error |-> ""],
    [start |-> "35349006987336", end |-> "8", tac |-> 1, error |-> ""]}

MCSampleRange == <<3, 4>>
=============================================================================
