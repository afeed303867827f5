------------------------------ MODULE MCOutbox ------------------------------
(***************************************************************************)
(* Values for the constants of Outbox.                                     *)
(***************************************************************************)
EXTENDS Outbox, TLC

CONSTANTS e1, e2, w1, w2

MCKeys    == {e1, e2}
MCWorkers == {w1, w2}

\* A topic with two handlers, one of which can fail with a SQL error, and a
\* topic without handlers.
MCNumHandlers == (e1 :> 2) @@ (e2 :> 0)
MCAbortKeys   == {e1}
=============================================================================
