------------------------- MODULE MCSlotAccounting --------------------------
(* Small instances of slot accounting. *)
EXTENDS SlotAccounting

MCSlots == {1, 2, 3}
=============================================================================
