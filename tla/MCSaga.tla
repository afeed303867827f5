------------------------------- MODULE MCSaga -------------------------------
(***************************************************************************)
(* Values for the constants of Saga.                                       *)
(***************************************************************************)
EXTENDS Saga

\* Like return_completion: the last step has no compensation.
MCCompensable == {1, 2}
=============================================================================
