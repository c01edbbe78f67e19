----------------------------- MODULE ForwardProxy -----------------------------
(***************************************************************************)
(* The forward proxy: start opens the wallet, gives it its money in test   *)
(* mode, and makes a loop thread and a server with one handler thread; the *)
(* handler submits a request to the loop and waits 60 s for it, and a      *)
(* CONNECT tunnel holds the handler for as long as it is open; stop waits  *)
(* for the handler, then stops the loop with what still runs on it.        *)
(*                                                                         *)
(* start and stop are coroutines of one application loop.  stop blocks     *)
(* that loop until it awaits the close of the middleware, so a start can   *)
(* go on only then, or before stop has begun.                              *)
(***************************************************************************)
EXTENDS Integers, FiniteSets

CONSTANTS
  Requests,
  Tunnels,        \* the requests that are CONNECT
  Starts,         \* calls of start
  TopUp,          \* the auto-fund, in payments
  MaxStops        \* bound: calls of stop

VARIABLES
  running,        \* _running
  serving,        \* a server listens, and _server is it
  loop,           \* _loop, numbered by the start that made it; {} is None
  alive,          \* the loops that run
  closable,       \* a middleware is there
  startPc, stopPc, stops,
  balance,
  reqPc,          \* a request, as its client and the handler see it
  co, coLoop,     \* its coroutine, and the loop it was submitted to
  paid,
  gaveUp,         \* history: the handler's 60 s were over
  raised,         \* history: the requests whose paid retry raised
  stranded,       \* history: the loops whose start could not bind its port
  overlapped      \* history: a start fell into another start, or into a stop

vars == <<running, serving, loop, alive, closable, startPc, stopPc, stops, balance,
          reqPc, co, coLoop, paid, gaveUp, raised, stranded, overlapped>>

requests == <<reqPc, co, coLoop, paid, gaveUp, raised>>
service  == <<running, serving, loop, alive, closable, stranded>>

Starting == {s \in Starts : startPc[s] \in {"init", "balance", "deposit", "up"}}
AppBlocked == stopPc \in {"shutdown", "loops"}
Handled  == {r \in Requests : reqPc[r] \in {"handled", "tunnel"}}
Live(r)  == co[r] \in {"running", "paid"} /\ coLoop[r] \subseteq alive

-----------------------------------------------------------------------------
BeginStart(s) ==
  /\ startPc[s] = "idle"
  /\ ~AppBlocked
  /\ startPc' = [startPc EXCEPT ![s] = IF running THEN "noop" ELSE "init"]
  /\ overlapped' = (overlapped \/ (~running /\ Starting # {}) \/ stopPc # "no")
  /\ UNCHANGED <<service, stopPc, stops, balance, requests>>

OpenWallet(s) ==
  /\ startPc[s] = "init"
  /\ ~AppBlocked
  /\ startPc' = [startPc EXCEPT ![s] = "balance"]
  /\ UNCHANGED <<service, stopPc, stops, balance, requests, overlapped>>

Poor_Always == TRUE

Poor == balance = 0

ReadBalance(s) ==
  /\ startPc[s] = "balance"
  /\ ~AppBlocked
  /\ startPc' = [startPc EXCEPT ![s] = IF Poor THEN "deposit" ELSE "up"]
  /\ UNCHANGED <<service, stopPc, stops, balance, requests, overlapped>>

Deposit(s) ==
  /\ startPc[s] = "deposit"
  /\ ~AppBlocked
  /\ balance' = balance + TopUp
  /\ startPc' = [startPc EXCEPT ![s] = "up"]
  /\ UNCHANGED <<service, stopPc, stops, requests, overlapped>>

\* The loop, then the server: a port that is in use, by this proxy or by any
\* other process, raises and leaves the new loop running.
ComeUp(s) ==
  /\ startPc[s] = "up"
  /\ ~AppBlocked
  /\ loop' = {s}
  /\ alive' = alive \union {s}
  /\ closable' = TRUE
  /\ \/ /\ ~serving
        /\ serving' = TRUE /\ running' = TRUE
        /\ startPc' = [startPc EXCEPT ![s] = "done"]
        /\ UNCHANGED stranded
     \/ /\ startPc' = [startPc EXCEPT ![s] = "raised"]
        /\ stranded' = stranded \union {s}
        /\ UNCHANGED <<serving, running>>
  /\ UNCHANGED <<stopPc, stops, balance, requests, overlapped>>

-----------------------------------------------------------------------------
(* stop: shutdown and join; the loop; the middleware.                      *)

BeginStop ==
  /\ stopPc = "no"
  /\ stops < MaxStops
  /\ stops' = stops + 1
  /\ stopPc' = "shutdown"
  /\ overlapped' = (overlapped \/ Starting # {})
  /\ UNCHANGED <<service, startPc, balance, requests>>

HandlerIsDone_Unasked == TRUE

\* serve_forever returns after the request it is in.
HandlerIsDone == Handled = {}

Shutdown ==
  /\ stopPc = "shutdown"
  /\ HandlerIsDone
  /\ serving' = FALSE
  /\ reqPc' = [r \in Requests |-> IF reqPc[r] = "queued" THEN "reset" ELSE reqPc[r]]
  /\ stopPc' = "loops"
  /\ UNCHANGED <<running, loop, alive, closable, startPc, stops, balance,
                 co, coLoop, paid, gaveUp, raised, stranded, overlapped>>

Stopped_None == {}

\* call_soon_threadsafe(loop.stop), join and close.
Stopped == loop

StopLoop ==
  /\ stopPc = "loops"
  /\ alive' = alive \ Stopped
  /\ co' = [r \in Requests |-> IF Live(r) /\ coLoop[r] \subseteq Stopped THEN "dropped" ELSE co[r]]
  /\ loop' = {}
  /\ stopPc' = "closing"
  /\ UNCHANGED <<running, serving, closable, startPc, stops, balance, reqPc, coLoop,
                 paid, gaveUp, raised, stranded, overlapped>>

RunningAtEnd_Kept == running

RunningAtEnd == FALSE

EndStop ==
  /\ stopPc = "closing"
  /\ closable' = FALSE
  /\ running' = RunningAtEnd
  /\ stopPc' = "no"
  /\ UNCHANGED <<serving, loop, alive, stranded, startPc, stops, balance, requests, overlapped>>

-----------------------------------------------------------------------------
(* A client and the handler thread                                         *)

Connect(r) ==
  /\ reqPc[r] = "idle"
  /\ reqPc' = [reqPc EXCEPT ![r] = IF serving THEN "queued" ELSE "reset"]
  /\ UNCHANGED <<service, startPc, stopPc, stops, balance, co, coLoop, paid, gaveUp, raised, overlapped>>

\* One handler thread; none after shutdown was asked for.
CanHandle_Always == TRUE

CanHandle == serving /\ Handled = {} /\ stopPc # "shutdown"

Accept(r) ==
  /\ reqPc[r] = "queued"
  /\ CanHandle
  /\ IF r \in Tunnels
     THEN /\ \E p \in {"tunnel", "refused"} : reqPc' = [reqPc EXCEPT ![r] = p]
          /\ UNCHANGED <<co, coLoop>>
     ELSE /\ reqPc' = [reqPc EXCEPT ![r] = IF loop = {} THEN "502" ELSE "handled"]
          /\ co' = [co EXCEPT ![r] = IF loop = {} THEN "none" ELSE "running"]
          /\ coLoop' = [coLoop EXCEPT ![r] = loop]
  /\ UNCHANGED <<service, startPc, stopPc, stops, balance, paid, gaveUp, raised, overlapped>>

CloseTunnel(r) ==
  /\ reqPc[r] = "tunnel"
  /\ reqPc' = [reqPc EXCEPT ![r] = "closed"]
  /\ UNCHANGED <<service, startPc, stopPc, stops, balance, co, coLoop, paid, gaveUp, raised, overlapped>>

Pay(r) ==
  /\ co[r] = "running" /\ Live(r)
  /\ balance > 0
  /\ balance' = balance - 1
  /\ paid' = paid \union {r}
  /\ co' = [co EXCEPT ![r] = "paid"]
  /\ UNCHANGED <<service, startPc, stopPc, stops, reqPc, coLoop, gaveUp, raised, overlapped>>

AnswerOf_Running(r, p) == IF running /\ stopPc = "no" THEN p ELSE "502"

AnswerOf(r, p) == p

\* The middleware answers, or raises, before or after it has paid; for a
\* handler that waits the request is over.
Finish(r) ==
  /\ Live(r)
  /\ co' = [co EXCEPT ![r] = "finished"]
  /\ \E p \in {"answered", "502"} :
       /\ reqPc' = [reqPc EXCEPT ![r] = IF @ = "handled" THEN AnswerOf(r, p) ELSE @]
       /\ raised' = IF p = "502" /\ co[r] = "paid" THEN raised \union {r} ELSE raised
  /\ UNCHANGED <<service, startPc, stopPc, stops, balance, coLoop, paid, gaveUp, overlapped>>

\* future.result(timeout=60): the coroutine is not cancelled.
GiveUp(r) ==
  /\ reqPc[r] = "handled"
  /\ reqPc' = [reqPc EXCEPT ![r] = "502"]
  /\ gaveUp' = gaveUp \union {r}
  /\ UNCHANGED <<service, startPc, stopPc, stops, balance, co, coLoop, paid, raised, overlapped>>

-----------------------------------------------------------------------------
Init ==
  /\ running = FALSE /\ serving = FALSE /\ loop = {} /\ alive = {} /\ closable = FALSE
  /\ startPc = [s \in Starts |-> "idle"]
  /\ stopPc = "no" /\ stops = 0
  /\ balance = 0
  /\ reqPc = [r \in Requests |-> "idle"]
  /\ co = [r \in Requests |-> "none"]
  /\ coLoop = [r \in Requests |-> {}]
  /\ paid = {} /\ gaveUp = {} /\ raised = {} /\ stranded = {} /\ overlapped = FALSE

Next == \/ \E s \in Starts : BeginStart(s) \/ OpenWallet(s) \/ ReadBalance(s)
                             \/ Deposit(s) \/ ComeUp(s)
        \/ BeginStop \/ Shutdown \/ StopLoop \/ EndStop
        \/ \E r \in Requests : \/ Connect(r) \/ Accept(r) \/ CloseTunnel(r)
                               \/ Pay(r) \/ Finish(r) \/ GiveUp(r)

Spec == Init /\ [][Next]_vars

-----------------------------------------------------------------------------
(* The types; there is one handler thread, and the loop that requests are  *)
(* given to runs.                                                          *)
TypeOK ==
  /\ {running, serving, closable, overlapped} \subseteq BOOLEAN
  /\ loop \subseteq Starts /\ alive \subseteq Starts /\ loop \subseteq alive
  /\ startPc \in [Starts -> {"idle", "noop", "init", "balance", "deposit", "up", "done", "raised"}]
  /\ stopPc \in {"no", "shutdown", "loops", "closing"}
  /\ stops \in 0 .. MaxStops /\ balance \in Nat
  /\ reqPc \in [Requests -> {"idle", "queued", "handled", "tunnel", "refused", "reset",
                             "closed", "answered", "502"}]
  /\ co \in [Requests -> {"none", "running", "paid", "finished", "dropped"}]
  /\ coLoop \in [Requests -> SUBSET Starts]
  /\ paid \subseteq Requests /\ gaveUp \subseteq Requests
  /\ raised \subseteq Requests /\ stranded \subseteq Starts
  /\ Cardinality(Handled) <= 1

(* A client whose request was paid for is told 502 only if the handler's   *)
(* 60 s were over or its paid retry raised (x402_middleware.py:291): a     *)
(* stop in the middle of a payment waits for the answer.                   *)
PaidIsAnswered == \A r \in paid : reqPc[r] = "502" => r \in gaveUp \union raised

(* A coroutine that stop drops at its await, maybe between its payment and *)
(* its answer, is one that nobody waits for: its client has its 502.       *)
DroppedWasAnswered == \A r \in Requests : co[r] = "dropped" => reqPc[r] = "502"

(* Unless a start fell into another start or into a stop, is_running tells *)
(* the truth: there is a server with a loop and a middleware, or there is  *)
(* none, and then nothing is left that could still pay; a loop that still  *)
(* runs is one a start left behind that could not bind its port.           *)
RunningIsTrue ==
  ~overlapped /\ stopPc = "no" =>
    /\ running <=> serving
    /\ running => loop # {} /\ closable
    /\ ~running => alive \subseteq stranded /\ \A r \in Requests : ~Live(r)

(* The wallet is given money only when it is empty, unless two starts      *)
(* overlap: between the balance and the deposit they wait for nobody.      *)
OneTopUp == ~overlapped => balance <= TopUp
==============================================================================
