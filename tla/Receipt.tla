------------------------------ MODULE Receipt -------------------------------
(***************************************************************************)
(* What the gateway promises about the transactions it is paid with.  A    *)
(* receipt is fresh until it is first used, open while it may be used      *)
(* again (the first use may have failed), then closed for good.  Handlers  *)
(* see the receipt; what is written of it follows, and is what remains     *)
(* when the gateway dies or its database takes a change back.  A written   *)
(* receipt that is closed may be forgotten, after which it looks fresh; an *)
(* open one is never forgotten, a closed one never opened again.           *)
(***************************************************************************)

CONSTANT Txs          \* the transactions that buyers pay with

VARIABLES
  receipt,      \* what the gateway makes of each
  written       \* what it would make of it after a restart

Standing == {"fresh", "open", "closed"}

Moves == {<<"fresh", "open">>, <<"open", "closed">>}

Init ==
  /\ receipt = [t \in Txs |-> "fresh"]
  /\ written = [t \in Txs |-> "fresh"]

\* Time closes, and a commit writes, several receipts at once.
Onward ==
  /\ receipt' \in [Txs -> Standing] /\ written' \in [Txs -> Standing]
  /\ \A t \in Txs :
       /\ receipt'[t] # receipt[t] => <<receipt[t], receipt'[t]>> \in Moves
       /\ written'[t] \in {written[t], receipt'[t]}

\* A restart or a rollback.
Back ==
  /\ written' \in [Txs -> Standing]
  /\ receipt' = written'
  /\ \A t \in Txs :
       written'[t] # written[t] => <<written[t], written'[t]>> = <<"closed", "fresh">>

Next == Onward \/ Back

Spec == Init /\ [][Next]_<<receipt, written>>

=============================================================================
