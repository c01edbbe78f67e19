------------------------------ MODULE MCTsFetch ------------------------------
(***************************************************************************)
(* Three calls: two on an instance with the Solana provider and one on an  *)
(* instance with the mock, over one wallet.  The offers: an amount that    *)
(* does not parse, 0.25, 0.75 and 2 micro-dollars, one over the call's     *)
(* limit, a chain that is accepted but not the provider's, and a token     *)
(* nobody accepts.                                                         *)
(***************************************************************************)
EXTENDS TsFetch, TLC

CONSTANTS c1, c2, c3, s, m

MCInstanceOf == (c1 :> s) @@ (c2 :> s) @@ (c3 :> m)
USDC(n) == [chain |-> "solana", token |-> "USDC", price |-> n]
MCOffers == {USDC(n) : n \in {0, 1, 3, 8, 9}}
              \union {[chain |-> "base", token |-> "USDC", price |-> 8],
                      [chain |-> "solana", token |-> "SOL", price |-> 8]}
==============================================================================
