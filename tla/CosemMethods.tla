----------------------------- MODULE CosemMethods -----------------------------
(***************************************************************************)
(* The objects of a meter that have operations beside their attributes: a  *)
(* list, a relay or an activity calendar.  They share no state and call    *)
(* each other nowhere, so the model follows one of them at a time.         *)
(***************************************************************************)
EXTENDS ObjectLists, LoadControl, TariffCalendar

VARIABLE object  \* the object that is used

vars == <<object, listVars, loadVars, calendarVars>>

Init ==
    /\ object \in {"list", "relay", "calendar"}
    /\ ListInit
    /\ LoadInit
    /\ CalendarInit

UseList ==
    /\ object = "list"
    /\ ListNext
    /\ UNCHANGED <<object, loadVars, calendarVars>>

UseRelay ==
    /\ object = "relay"
    /\ LoadNext
    /\ UNCHANGED <<object, listVars, calendarVars>>

UseCalendar ==
    /\ object = "calendar"
    /\ CalendarNext
    /\ UNCHANGED <<object, listVars, loadVars>>

Next == UseList \/ UseRelay \/ UseCalendar

Spec == Init /\ [][Next]_vars

-----------------------------------------------------------------------------
(***************************************************************************)
(* Every field keeps its type and every list and counter its bounds.       *)
(***************************************************************************)
TypeOK ==
    /\ object \in {"list", "relay", "calendar"}
    /\ ListTypeOK
    /\ LoadTypeOK
    /\ CalendarTypeOK
=============================================================================
