---------------------------- MODULE MCGatewayClocks ----------------------------
(***************************************************************************)
(* Three nonces in a table of two, stamps that lie behind and ahead of the *)
(* clock or are no number, time enough for an entry to be pruned and met   *)
(* again; three callers in a table of two, two windows and more; and one   *)
(* paid order with the windows and pauses the code has, counted in half    *)
(* minutes.                                                                *)
(***************************************************************************)
EXTENDS GatewayClocks, TLC

CONSTANTS n1, n2, n3, c1, c2, c3

MCStamps == (0..4) \union {NaN}

Alike == Permutations(Nonces) \union Permutations(Callers)
==============================================================================
