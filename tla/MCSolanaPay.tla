---------------------------- MODULE MCSolanaPay -----------------------------
(***************************************************************************)
(* Two payments over one adapter with a backup endpoint, the two retries   *)
(* of the code, and a look at the balance that may move the endpoint under *)
(* them.                                                                   *)
(***************************************************************************)
EXTENDS SolanaPay, TLC

CONSTANTS a, b

=============================================================================
