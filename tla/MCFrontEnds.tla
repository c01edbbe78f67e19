------------------------------ MODULE MCFrontEnds ------------------------------
(***************************************************************************)
(* Three patched calls: a coroutine, a blocking call of its loop, and a    *)
(* third that is either blocking or a thread's own; or a proxy with two    *)
(* requests and a tunnel, started twice and stopped twice.                 *)
(***************************************************************************)
EXTENDS FrontEnds, TLC

CONSTANTS h, b, x, p1, p2, p3, s1, s2

MCKindsOf == (h :> {"coroutine"}) @@ (b :> {"blocking"}) @@ (x :> {"blocking", "thread"})
==============================================================================
