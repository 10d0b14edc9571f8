------------------------------ MODULE ClientApi ------------------------------
(***************************************************************************)
(* What DlmsClient promises its user, without transport, stream or meter.  *)
(* A call is made, and returns a result; is_connected() goes up only when  *)
(* a connect() returns ok and goes down only with disconnect(); a service  *)
(* can succeed only while a connect() has left a link behind, and whatever *)
(* happens to it, it changes neither.  A failed connect() leaves           *)
(* is_connected() as it was: when the client was connected before, it      *)
(* still says so.  ClientSession implements this.                          *)
(***************************************************************************)
VARIABLES
    up,       \* what is_connected() says
    linked,   \* a connect() has left something to send on
    call,     \* the last call made, and its result or "pending"
    gone      \* the object was destroyed, or its process killed

vars == <<up, linked, call, gone>>

Services == {"get", "set", "action"}
Endings == {"disconnect", "destroy"}
ExchangeErrors == {"ConnectionError", "Timeout"}
ServiceResults(op) ==
    ExchangeErrors \union {"ok"}
        \union IF op = "set" THEN {} ELSE {"InvalidTag"}

Init ==
    /\ up = FALSE
    /\ linked = FALSE
    /\ call = [op |-> "disconnect", res |-> "ok"]
    /\ gone = FALSE

Ready == ~gone /\ call.res # "pending"
Pending(op) == ~gone /\ call = [op |-> op, res |-> "pending"]

Begins(op) == call' = [op |-> op, res |-> "pending"]
Returned(op, res) == call' = [op |-> op, res |-> res]

ConnectBegins ==
    /\ Ready
    /\ Begins("connect")
    /\ linked' = TRUE
    /\ UNCHANGED <<up, gone>>

ConnectFailsAtOnce ==
    /\ Ready
    /\ \/ linked' \in BOOLEAN /\ Returned("connect", "ConnectionError")
       \/ ~linked /\ ~up /\ linked' = linked /\ Returned("connect", "NotSupported")
    /\ UNCHANGED <<up, gone>>

ConnectReturns ==
    /\ Pending("connect")
    /\ \/ Returned("connect", "ok") /\ up' = TRUE
       \/ /\ \E err \in ExchangeErrors \union {"InvalidData"} :
                Returned("connect", err)
          /\ up' = up
    /\ UNCHANGED <<linked, gone>>

ServiceBegins(op) ==
    /\ Ready
    /\ linked
    /\ Begins(op)
    /\ UNCHANGED <<up, linked, gone>>

ServiceRefused(op) ==
    /\ Ready
    /\ ~linked
    /\ \E err \in {"ConnectionError", "NotSupported"} : Returned(op, err)
    /\ UNCHANGED <<up, linked, gone>>

ServiceReturns(op) ==
    /\ Pending(op)
    /\ \E res \in ServiceResults(op) : Returned(op, res)
    /\ UNCHANGED <<up, linked, gone>>

EndingBegins(op) ==
    /\ Ready
    /\ up /\ linked
    /\ Begins(op)
    /\ UNCHANGED <<up, linked, gone>>

Ends(op) ==
    /\ Returned(op, "ok")
    /\ up' = FALSE
    /\ linked' = FALSE
    /\ gone' = (op = "destroy")

EndsAtOnce(op) == Ready /\ ~(up /\ linked) /\ Ends(op)

EndingReturns(op) == Pending(op) /\ Ends(op)

Dies ==
    /\ ~gone
    /\ call.res = "pending"
    /\ gone' = TRUE
    /\ UNCHANGED <<up, linked, call>>

Returns ==
    \/ ConnectReturns
    \/ \E op \in Services : ServiceReturns(op)
    \/ \E op \in Endings : EndingReturns(op)

Next ==
    \/ ConnectBegins \/ ConnectFailsAtOnce
    \/ \E op \in Services : ServiceBegins(op) \/ ServiceRefused(op)
    \/ \E op \in Endings : EndingBegins(op) \/ EndsAtOnce(op)
    \/ Returns \/ Dies

Spec == Init /\ [][Next]_vars
=============================================================================
