---------------------------- MODULE TariffCalendar ----------------------------
(***************************************************************************)
(* ActivityCalendar: an active and a passive calendar, each a name, season,*)
(* week and day profiles.  The passive one is prepared (by set_attribute,  *)
(* and through the public fields by the program that owns the object) while*)
(* the active one is in force, and activate_passive copies it.             *)
(***************************************************************************)
EXTENDS Naturals

CONSTANT MaxEdits  \* bound: changes of a part

ASSUME CalendarAssumption == MaxEdits \in Nat

Parts == {"name", "season", "week", "day"}

VARIABLES
    active,    \* part -> the edit it comes from
    passive,
    edits,     \* number of edits so far (bound)
    activated, \* history: the passive calendar when it was last activated
    touched    \* history: parts of the active calendar changed since

calendarVars == <<active, passive, edits, activated, touched>>

Blank == [p \in Parts |-> 0]

CalendarInit ==
    /\ active = Blank
    /\ passive = Blank
    /\ edits = 0
    /\ activated = Blank
    /\ touched = {}

Edit ==
    /\ edits < MaxEdits
    /\ edits' = edits + 1

Prepare(part) ==  \* set_attribute(6, ...), season_profile_passive_ and the like
    /\ Edit
    /\ passive' = [passive EXCEPT ![part] = edits + 1]
    /\ UNCHANGED <<active, activated, touched>>

Change(part) ==  \* set_attribute(2, ...), add_week_profile, add_day_profile
    /\ part # "season"
    /\ Edit
    /\ active' = [active EXCEPT ![part] = edits + 1]
    /\ touched' = touched \union {part}
    /\ UNCHANGED <<passive, activated>>

ActivateNamesAndDays ==  \* mutation: the weeks are forgotten
    /\ active' = [passive EXCEPT !["week"] = active["week"]]
    /\ activated' = passive
    /\ touched' = {}
    /\ UNCHANGED <<passive, edits>>

ActivatePassive ==
    /\ active' = passive
    /\ activated' = passive
    /\ touched' = {}
    /\ UNCHANGED <<passive, edits>>

CalendarNext ==
    \/ \E part \in Parts : Prepare(part) \/ Change(part)
    \/ ActivatePassive

-----------------------------------------------------------------------------
CalendarTypeOK ==
    /\ active \in [Parts -> 0 .. edits]
    /\ passive \in [Parts -> 0 .. edits]
    /\ activated \in [Parts -> 0 .. edits]
    /\ edits \in 0 .. MaxEdits
    /\ touched \in SUBSET (Parts \ {"season"})

(***************************************************************************)
(* The calendar in force is, part for part, the passive one as it was when *)
(* it was activated, whatever is prepared afterwards: no part of a calendar*)
(* that is still being written comes into force, and only the parts that   *)
(* were changed in the active calendar itself differ.                      *)
(***************************************************************************)
ActiveIsWhatWasActivated ==
    \A part \in Parts \ touched : active[part] = activated[part]
=============================================================================
