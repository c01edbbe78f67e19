--------------------------- MODULE OrderLifecycle ---------------------------
(***************************************************************************)
(* What a payment order promises: the strict, uni-directional state        *)
(* machine that payment_order.py documents and that transition_to          *)
(* enforces on one in-memory PaymentOrder.  It is stated here for the      *)
(* PERSISTED order, the row every reader of the order store sees, so that  *)
(* a component with several copies of an order can be shown to implement   *)
(* it or not.                                                              *)
(***************************************************************************)

CONSTANT Orders       \* the payment orders, one per paid request

VARIABLE state        \* the persisted state of each order

OrderState ==
  {"CREATED", "LOCAL_DEDUCTED", "CHAIN_BROADCASTED", "DELIVERING",
   "SUCCESS", "REFUNDED", "FAILED"}

\* An order that was never saved.
Absent == "ABSENT"

\* _ALLOWED_TRANSITIONS: the states each state may move to.
AllowedTransitions ==
  [s \in OrderState |->
     CASE s = "CREATED"           -> {"LOCAL_DEDUCTED"}
       [] s = "LOCAL_DEDUCTED"    -> {"CHAIN_BROADCASTED", "REFUNDED"}
       [] s = "CHAIN_BROADCASTED" -> {"DELIVERING", "REFUNDED"}
       [] s = "DELIVERING"        -> {"SUCCESS", "DELIVERING", "FAILED"}
       [] OTHER                   -> {}]

TerminalStates == {s \in OrderState : AllowedTransitions[s] = {}}

-----------------------------------------------------------------------------

Init == state = [o \in Orders |-> Absent]

\* PaymentOrder() followed by the store's first save.
Create(o) ==
  /\ state[o] = Absent
  /\ state' = [state EXCEPT ![o] = "CREATED"]

\* transition_to followed by the store's update.
Transition(o, s) ==
  /\ state[o] \in OrderState
  /\ s \in AllowedTransitions[state[o]]
  /\ state' = [state EXCEPT ![o] = s]

Next == \E o \in Orders :
  \/ Create(o)
  \/ \E s \in OrderState : Transition(o, s)

Spec == Init /\ [][Next]_state

TypeOK == state \in [Orders -> OrderState \cup {Absent}]

=============================================================================
