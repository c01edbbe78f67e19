------------------------- MODULE MCPrepaidPurchase --------------------------
(***************************************************************************)
(* Two purchases, whose records meet, and a recovery of either; any two    *)
(* posts between them, of one command or of two.                           *)
(***************************************************************************)
EXTENDS PrepaidPurchase, TLC

CONSTANTS b1, b2, c1

Alike == Permutations(Buys)

=============================================================================
