------------------------------- MODULE FrontEnds -------------------------------
(***************************************************************************)
(* The two ways the package is put in front of an agent: a process that    *)
(* calls ag402.enable (Interception) or one that runs the forward proxy    *)
(* (ForwardProxy).  A process is one or the other, and front tells which.  *)
(***************************************************************************)
EXTENDS Integers, FiniteSets

CONSTANTS Calls, KindsOf, MaxDepth, MaxGenerations, MaxFailures,
          Requests, Tunnels, Starts, MaxStops, TopUp

ASSUME CallsAssumption ==
  IsFiniteSet(Calls) /\ KindsOf \in [Calls -> SUBSET {"coroutine", "blocking", "thread"}]
ASSUME BoundsAssumption ==
  {TopUp, MaxDepth, MaxGenerations} \subseteq Nat \ {0} /\ MaxFailures \in Nat
ASSUME ProxyAssumption == Tunnels \subseteq Requests /\ IsFiniteSet(Starts)
                          /\ TopUp \in Nat \ {0} /\ MaxStops \in Nat

VARIABLES
  front,
  depth, patched, middleware, made, flagged, ready, locks, queue, kind, pc, mine, lockOf,
  answer, crossings, failures, failed,
  running, serving, loop, alive, closable, startPc, stopPc, stops, reqPc, co, coLoop, stranded,
  overlapped,
  balance, paid, gaveUp, raised

Patches == INSTANCE Interception
Proxy   == INSTANCE ForwardProxy

FrontInit == front \in {"patches", "proxy"} /\ Patches!Init /\ Proxy!Init

FrontNext == /\ UNCHANGED front
        /\ \/ /\ front = "patches"
              /\ Patches!Next
              /\ UNCHANGED <<running, serving, loop, alive, closable, startPc, stopPc, stops,
                             reqPc, co, coLoop, stranded, overlapped>>
           \/ /\ front = "proxy"
              /\ Proxy!Next
              /\ UNCHANGED <<depth, patched, middleware, made, flagged, ready, locks, queue,
                             kind, pc, mine, lockOf, answer, crossings, failures, failed>>

frontVars == <<front, Patches!vars, Proxy!vars>>

FrontSpec == FrontInit /\ [][FrontNext]_frontVars

-----------------------------------------------------------------------------
Patching == front = "patches"

(* What the flags of a front end say is so: enabled is patched, a wallet   *)
(* taken for initialised is open and was funded once, a proxy that says it *)
(* runs can serve and one that does not can no longer pay, though a start  *)
(* whose bind failed leaves its loop running; but for an enable that       *)
(* raised and the overlaps the two modules name (monkey.enable,            *)
(* _get_initialized_middleware, X402ForwardProxy.start).                   *)
StateIsTrue ==
  IF Patching
  THEN Patches!TypeOK /\ Patches!PatchedWhileEnabled /\ Patches!FlagIsTrue /\ Patches!OneTopUp
  ELSE Proxy!TypeOK /\ Proxy!RunningIsTrue /\ Proxy!OneTopUp

(* Whoever was paid for is answered, through a disable and through a stop  *)
(* in the middle, except a caller whose 60 s were over and one whose paid  *)
(* retry raised, which neither front end tells from a failure to pay       *)
(* (monkey._patched_send, ProxyHandler._handle_request).                   *)
PaidIsAnswered ==
  IF Patching THEN Patches!PaidIsReturned
  ELSE Proxy!PaidIsAnswered /\ Proxy!DroppedWasAnswered

(* No patched call waits for ever, but on a loop that slept through the    *)
(* release of the init lock by another one (monkey.py:192).                *)
EveryWaitEnds == Patching => Patches!EveryWaitEnds
==============================================================================
