-------------------------- MODULE MCExcConsumption --------------------------
(* ExcConsumption on the programs of MCExceptions. *)
EXTENDS ExcConsumption, MCExceptions
=============================================================================
