--------------------------- MODULE MCPrepaidCalls ---------------------------
(***************************************************************************)
(* Two credentials of one package, good for two calls each.  The first     *)
(* expires early, so that calls taken from the second are put back into    *)
(* it; a usage row may be pruned as soon as both have expired.             *)
(***************************************************************************)
EXTENDS PrepaidCalls, TLC

CONSTANTS r1, r2, r3, p1

MCPackage   == [c \in Creds |-> p1]
MCCalls     == [p \in {p1} |-> 2]
MCExpiresAt == [c \in Creds |-> c]

Alike == Permutations(Requests)

=============================================================================
