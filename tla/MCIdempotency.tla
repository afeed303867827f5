--------------------------- MODULE MCIdempotency ---------------------------
(***************************************************************************)
(* Values for the constants of Idempotency.                                *)
(***************************************************************************)
EXTENDS Idempotency

CONSTANTS r1, r2, r3, r4, k1, b1, b2

MCRequests == {r1, r2, r3, r4}

\* One key: three attempts of one request, and one that reuses the key for
\* another body.
MCKeyOf  == [r \in MCRequests |-> k1]
MCBodyOf == [r \in MCRequests |-> IF r = r4 THEN b2 ELSE b1]
=============================================================================
