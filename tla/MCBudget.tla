------------------------------ MODULE MCBudget ------------------------------
(***************************************************************************)
(* A process with two calls of the middleware, and `ag402 pay` beside it:  *)
(* once in test mode, once in production.  One unit of funds, and limits   *)
(* that one payment reaches or nearly reaches.  The guard's threshold is   *)
(* below the literal of record_failure, so that the two disagree.          *)
(***************************************************************************)
EXTENDS Budget, TLC

CONSTANTS c1, c2, c3, p1, p2

MCHome   == c1 :> p1 @@ c2 :> p1 @@ c3 :> p2
MCEntries == [c \in Calls |-> IF c = c3 THEN {"cli_test", "cli_production"}
                                       ELSE {"middleware"}]
MCThreshold == p1 :> 2 @@ p2 :> 3
MCAmount == [c \in Calls |-> 1]

=============================================================================
