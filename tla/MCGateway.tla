----------------------------- MODULE MCGateway ------------------------------
(***************************************************************************)
(* Three requests with one payment: a message, its duplicate (same nonce   *)
(* and stamp) and a later retry with a nonce of its own.  One tick is the  *)
(* replay window; the grace window and the pruning age are scaled down but *)
(* keep their order.                                                       *)
(***************************************************************************)
EXTENDS Gateway, TLC

CONSTANTS q1, q2, q3, t1, n1, n2

MCMessage ==
  [i \in Requests |->
     IF i = q3 THEN [tx |-> t1, nonce |-> n2, stamp |-> 4]
               ELSE [tx |-> t1, nonce |-> n1, stamp |-> 1]]

=============================================================================
