--------------------------- MODULE MCInterrupt ---------------------------
(* Instances of Interrupt for model checking.                              *)
EXTENDS Interrupt
==========================================================================
