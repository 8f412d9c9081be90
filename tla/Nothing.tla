------------------------------- MODULE Nothing --------------------------------
(* What stands where there is no value.                                     *)
CONSTANT None
==============================================================================
