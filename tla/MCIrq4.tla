------------------------------- MODULE MCIrq4 -------------------------------
(* The board has two requesters and no parameter: TLC explores it whole. *)
EXTENDS Irq4
=============================================================================
