----------------------------- MODULE ObjectLists -----------------------------
(***************************************************************************)
(* The interface classes that keep a list: beside get_attribute and        *)
(* set_attribute they have methods that append, insert, delete and clear.  *)
(* The calls may come from several callers, in any order; each is atomic.  *)
(*                                                                         *)
(* An entry is the serial number of the call that made it and whether that *)
(* call appended it.                                                       *)
(***************************************************************************)
EXTENDS Integers, Sequences, SequencesExt

CONSTANTS
    MaxAdded, \* bound: entries made
    CountMod  \* number_of_mbus_clients_ counts modulo this (2^16)

ASSUME ListAssumption ==
    /\ MaxAdded \in Nat
    /\ CountMod \in Nat \ {0}

ListClass(name, inserts, deletes, clears, set, counts) ==
    [name |-> name, inserts |-> inserts, deletes |-> deletes,
     clears |-> clears, set |-> set, counts |-> counts]

SpecialDays == ListClass("SpecialDaysTable", TRUE, TRUE, TRUE, "dropped", FALSE)
Sensors     == ListClass("SensorManager", FALSE, TRUE, FALSE, "denied", FALSE)
MbusSlaves  == ListClass("MbusClient", FALSE, FALSE, TRUE, "denied", TRUE)
Thresholds  == ListClass("RegisterMonitor", FALSE, FALSE, FALSE, "stored", FALSE)
Objects     == ListClass("AssociationLN", FALSE, FALSE, FALSE, "denied", FALSE)
PushObjects == ListClass("PushSetup", FALSE, FALSE, FALSE, "denied", FALSE)
PdpContexts == ListClass("GprsModemSetup", FALSE, FALSE, FALSE, "denied", FALSE)

ListClasses ==
    {SpecialDays, Sensors, MbusSlaves, Thresholds, Objects, PushObjects, PdpContexts}

VARIABLES
    class,     \* the class of the object
    list,      \* its entries
    number,    \* number_of_mbus_clients_ (MbusClient)
    added,     \* entries made so far
    undefined  \* a call was made that C++ leaves undefined

listVars == <<class, list, number, added, undefined>>

Entry(n, appended) == [serial |-> n, appended |-> appended]

-----------------------------------------------------------------------------
ListInit ==
    /\ class \in ListClasses
    /\ list = <<>>
    /\ number = 0
    /\ added = 0
    /\ undefined = FALSE

CountedAbove(n) ==  \* mutation: no cast to 16 bits
    IF class.counts THEN n ELSE number

Counted(n) == IF class.counts THEN n % CountMod ELSE number

AddUncounted ==  \* mutation: the count is left to the caller
    /\ added < MaxAdded
    /\ added' = added + 1
    /\ list' = Append(list, Entry(added + 1, TRUE))
    /\ UNCHANGED <<class, number, undefined>>

Add ==
    /\ added < MaxAdded
    /\ added' = added + 1
    /\ list' = Append(list, Entry(added + 1, TRUE))
    /\ number' = Counted(Len(list) + 1)
    /\ UNCHANGED <<class, undefined>>

(***************************************************************************)
(* entries_.insert(entries_.begin() + index, ...): no comparison with the  *)
(* length, so an index beyond it is undefined, and nothing is said of what *)
(* follows.                                                                *)
(***************************************************************************)
Insert(index) ==
    /\ class.inserts
    /\ added < MaxAdded
    /\ added' = added + 1
    /\ undefined' = (index > Len(list))
    /\ list' = IF index > Len(list) THEN list
               ELSE InsertAt(list, index + 1, Entry(added + 1, FALSE))
    /\ UNCHANGED <<class, number>>

DeleteBySwap(index) ==  \* mutation: the last entry takes the place
    /\ class.deletes
    /\ index < Len(list)
    /\ list' = Front([list EXCEPT ![index + 1] = Last(list)])
    /\ UNCHANGED <<class, number, added, undefined>>

Delete(index) ==  \* execute_delete, remove_sensor
    /\ class.deletes
    /\ index < Len(list)
    /\ list' = RemoveAt(list, index + 1)
    /\ UNCHANGED <<class, number, added, undefined>>

Clear ==
    /\ class.clears
    /\ list' = <<>>
    /\ number' = Counted(0)
    /\ UNCHANGED <<class, added, undefined>>

SetList(n) ==  \* set_attribute with an array of n values
    /\ class.set = "stored"
    /\ added + n <= MaxAdded
    /\ added' = added + n
    /\ list' = [i \in 1 .. n |-> Entry(added + i, TRUE)]
    /\ UNCHANGED <<class, number, undefined>>

Refuse(index) ==  \* InvalidData, or false
    /\ class.deletes
    /\ index >= Len(list)
    /\ UNCHANGED listVars

DropList ==  \* set_attribute denies an array, or accepts and forgets it
    /\ class.set # "stored"
    /\ UNCHANGED listVars

ListStep ==
    \/ Add
    \/ Clear
    \/ DropList
    \/ \E index \in 0 .. MaxAdded :
         Insert(index) \/ Delete(index) \/ Refuse(index)
    \/ \E n \in 0 .. MaxAdded : SetList(n)

ListNext ==
    \/ ~undefined /\ ListStep
    \/ undefined /\ UNCHANGED listVars

-----------------------------------------------------------------------------
ListTypeOK ==
    /\ class \in ListClasses
    /\ list \in Seq([serial : 1 .. added, appended : BOOLEAN])
    /\ number \in 0 .. CountMod - 1
    /\ added \in 0 .. MaxAdded
    /\ undefined \in BOOLEAN

(***************************************************************************)
(* number_of_mbus_clients, which the class keeps beside the list, is the   *)
(* length of the list after any add_mbus_slave and clear_slaves, as far as *)
(* 16 bits hold it.                                                        *)
(***************************************************************************)
NumberIsLength == class.counts => number = Len(list) % CountMod

(***************************************************************************)
(* Entries that were appended are read in the order in which they came,    *)
(* none twice, whatever is inserted between them, deleted before them or   *)
(* replaced (add_*, execute_insert, execute_delete, remove_sensor).        *)
(***************************************************************************)
AppendedInOrder ==
    \A i, j \in DOMAIN list :
        /\ i # j => list[i].serial # list[j].serial
        /\ i < j /\ list[i].appended /\ list[j].appended
             => list[i].serial < list[j].serial
=============================================================================
