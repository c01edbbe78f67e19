---------------------------- MODULE MCHomeFiles ----------------------------
(***************************************************************************)
(* Four jobs in three processes: two commands of the skill, each in a      *)
(* process of its own, and two jobs of a third process, the bridge with    *)
(* the core's prepaid client.                                              *)
(***************************************************************************)
EXTENDS HomeFiles, TLC

CONSTANTS j1, j2, j3, j4

MCProcess    == (j1 :> "skill 1") @@ (j2 :> "skill 2") @@ (j3 :> "bridge") @@ (j4 :> "bridge")
MCCommandsOf == (j1 :> {"setup", "skill_add", "blocked_pay"})
                  @@ (j2 :> {"setup", "deposit", "pay", "status", "history", "doctor",
                            "skill_deduct", "skill_purge", "proxy"})
                  @@ (j3 :> {"proxy", "core_add", "free_proxy", "lost_proxy"})
                  @@ (j4 :> {"proxy", "core_deduct", "core_purge"})
==============================================================================
