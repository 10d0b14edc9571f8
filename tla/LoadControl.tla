----------------------------- MODULE LoadControl -----------------------------
(***************************************************************************)
(* The relays of a meter: DisconnectControl, whose methods move the        *)
(* control state and the output, and DirectDisconnect, which has the       *)
(* methods in its description only and whose output is an attribute that   *)
(* is written.  A state is the byte the code casts: 0 and 1 are            *)
(* disconnected and connected, above 3 nothing is defined.                 *)
(***************************************************************************)
EXTENDS Naturals

CONSTANT Bytes  \* the bytes that are written (0 .. 255)

Disconnected == 0
Connected == 1
Disabled == 0  \* a control state of DirectDisconnect

ASSUME ByteAssumption == {Disconnected, Connected} \subseteq Bytes

VARIABLES
    relay,     \* the class of the object
    control,   \* control_state_
    output,    \* output_state_, the load
    effective, \* effective_control_state_ (DirectDisconnect)
    ordered,   \* history: the output the last order asked for
    written    \* history: control was written since the last order

loadVars == <<relay, control, output, effective, ordered, written>>

-----------------------------------------------------------------------------
LoadInit ==
    /\ \/ relay = "DisconnectControl" /\ control = Connected
       \/ relay = "DirectDisconnect" /\ control = Disabled
    /\ output = Connected
    /\ effective = Disabled
    /\ ordered = Connected
    /\ written = FALSE

ForgetOutput(method) ==  \* mutation: only the control state is moved
    /\ relay = "DisconnectControl"
    /\ method \in {1, 2}
    /\ control' = IF method = 1 THEN Disconnected ELSE Connected
    /\ ordered' = control'
    /\ written' = FALSE
    /\ UNCHANGED <<relay, output, effective>>

ExecuteMethod(method) ==  \* remote_disconnect, remote_reconnect
    /\ relay = "DisconnectControl"
    /\ method \in {1, 2}
    /\ control' = IF method = 1 THEN Disconnected ELSE Connected
    /\ output' = control'
    /\ ordered' = control'
    /\ written' = FALSE
    /\ UNCHANGED <<relay, effective>>

(***************************************************************************)
(* set_attribute(2, byte) of the one class and (3, byte) of the other, and *)
(* set_control_state of both.                                              *)
(***************************************************************************)
SetControl(byte) ==
    /\ control' = byte
    /\ written' = TRUE
    /\ UNCHANGED <<relay, output, effective, ordered>>

SetOutput(byte) ==  \* set_attribute(2, byte), set_output_state
    /\ relay = "DirectDisconnect"
    /\ output' = byte
    /\ ordered' = byte
    /\ UNCHANGED <<relay, control, effective, written>>

Decline ==  \* NotSupported, AccessDenied, or a value of another type
    UNCHANGED loadVars

LoadNext ==
    \/ \E method \in {1, 2} : ExecuteMethod(method)
    \/ \E byte \in Bytes : SetControl(byte) \/ SetOutput(byte)
    \/ Decline

-----------------------------------------------------------------------------
(***************************************************************************)
(* The load is where the last order put it, an order being a method of     *)
(* DisconnectControl or a write to the output of DirectDisconnect; and     *)
(* control_state of DisconnectControl says the same unless it was written  *)
(* since: the two fields are moved together or not at all, and a write to  *)
(* control_state, which tells its reader a state the load is not in, lasts *)
(* until the next method.                                                  *)
(***************************************************************************)
LoadObeysOrders ==
    /\ output = ordered
    /\ relay = "DisconnectControl" =>
          /\ ~written => control = output
          /\ output \in {Disconnected, Connected}

LoadTypeOK ==
    /\ relay \in {"DisconnectControl", "DirectDisconnect"}
    /\ control \in Bytes /\ output \in Bytes /\ ordered \in Bytes
    /\ effective = Disabled
    /\ written \in BOOLEAN
=============================================================================
