-------------------------- MODULE MCTwoPhaseApply --------------------------
(* Three applies, which two or three tasks may begin at the same time.     *)
EXTENDS TwoPhaseApply
=============================================================================
