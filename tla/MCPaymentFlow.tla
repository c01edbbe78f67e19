--------------------------- MODULE MCPaymentFlow ---------------------------
(***************************************************************************)
(* Two concurrent requests of one process.  The deposit covers both or     *)
(* only one of them, depending on the configuration; one tick stands for   *)
(* the 30 seconds of the stale age and of the base backoff.                *)
(***************************************************************************)
EXTENDS PaymentFlow, TLC

CONSTANTS r1, r2

\* The challenges ask for different amounts, so the requests differ.
MCPrice == [r \in Requests |-> IF r = r1 THEN 2 ELSE 3]

=============================================================================
