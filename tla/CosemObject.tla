----------------------------- MODULE CosemObject -----------------------------
(***************************************************************************)
(* One object of an interface class under any sequence of get_attribute    *)
(* and set_attribute, from any callers: what CosemClasses says of an       *)
(* attribute decides what a SET stores and what it answers.  The two are   *)
(* not the same thing: most classes acknowledge a value whose type they    *)
(* ignore, SpecialDaysTable acknowledges what it forgets.                  *)
(*                                                                         *)
(* A value is a type and a content, a content what the code can tell:      *)
(*   octets     "plain" is a date-time of 12 bytes, "spare" the same with  *)
(*              reserved bits of its status set, "short" another length;   *)
(*   structure  its elements, "p" and "q" numbers of 16 bits;              *)
(*   the others two values that differ.                                    *)
(***************************************************************************)
EXTENDS CosemClasses

CONSTANTS
    Classes, \* the interface classes, a set of tables
    MaxSets  \* bound: calls of set_attribute

SetKinds == {"denied", "typed", "any", "strict", "dropped", "time", "partners"}
Attributes ==
    {a \in [type : STRING, set : SetKinds, readable : BOOLEAN] :
       /\ a.set = "time" => a.type = "octets"
       /\ a.set = "partners" => a.type = "structure"}

ASSUME ClassAssumption ==
    /\ MaxSets \in Nat
    /\ \A c \in Classes : c.attributes \in Seq(Attributes)

VARIABLES
    class,    \* the class of the object
    values,   \* attribute id -> the value of its field
    sets,     \* number of SETs so far (bound)
    reply,    \* the answer to the last call
    intended  \* history: attribute id -> the value last acknowledged for it

vars == <<class, values, sets, reply, intended>>

-----------------------------------------------------------------------------
Ids(c) == {i + 1 : i \in DOMAIN c.attributes}
AttributeOf(c, id) == c.attributes[id - 1]
Asked(c) == 1 .. Len(c.attributes) + 2  \* the logical name, to one too many

Value(type, content) == [type |-> type, content |-> content]
Elements == {"p", "q", "none"}          \* "none": not a number of 16 bits
Structures == {<<>>} \union (Elements \X Elements)
Contents(type) ==
    CASE type = "structure" -> Structures
      [] type = "octets"    -> {"plain", "spare", "short"}
      [] OTHER              -> {"plain", "spare"}
Sent(c) ==
    UNION {{Value(t, x) : x \in Contents(t)} :
             t \in {"float"} \union {AttributeOf(c, i).type : i \in Ids(c)}}

Initial(attribute) ==
    Value(attribute.type,
          IF attribute.set = "partners" THEN <<"p", "q">> ELSE "initial")
Nothing == Value("nothing", "nothing")
LogicalName == Value("octets", "logical name")

-----------------------------------------------------------------------------
StoreUnchecked(attribute, old, v) == v  \* mutation: no std::get_if

AsDateTime(v) ==  \* from_bytes, to_bytes: reserved bits of the status are lost
    [v EXCEPT !.content = IF @ = "spare" THEN "plain" ELSE @]

MergeSwapped(old, v) ==  \* mutation: the client's number for the server's
    [old EXCEPT !.content =
       [k \in 1 .. 2 |-> IF v.content[3 - k] = "none" THEN @[k] ELSE v.content[3 - k]]]

Merge(old, v) ==  \* client_sap_ and server_sap_, each if it is a number
    [old EXCEPT !.content =
       [k \in 1 .. 2 |-> IF v.content[k] = "none" THEN @[k] ELSE v.content[k]]]

IsDateTime(v) == v.type = "octets" /\ v.content \in {"plain", "spare"}
IsPair(v) == v.type = "structure" /\ v.content # <<>>

Store(attribute, old, v) ==
    CASE attribute.set = "any" -> v
      [] attribute.set \in {"typed", "strict"} /\ v.type = attribute.type -> v
      [] attribute.set = "time" /\ IsDateTime(v) -> AsDateTime(v)
      [] attribute.set = "partners" /\ IsPair(v) -> Merge(old, v)
      [] OTHER -> old

Acknowledges(attribute, v) ==
    CASE attribute.set = "denied" -> FALSE
      [] attribute.set = "strict" -> v.type = attribute.type
      [] OTHER -> TRUE

(***************************************************************************)
(* The value is one the attribute can hold, or only a part of it is.       *)
(***************************************************************************)
Whole(attribute, v) ==
    CASE attribute.set = "any" -> TRUE
      [] attribute.set \in {"typed", "strict"} -> v.type = attribute.type
      [] attribute.set = "time" -> v.type = "octets" /\ v.content = "plain"
      [] attribute.set = "partners" ->
           v.type = "structure" /\ v.content \in {"p", "q"} \X {"p", "q"}
      [] OTHER -> FALSE

Partial(attribute, v) ==
    \/ attribute.set = "time" /\ v = Value("octets", "spare")
    \/ attribute.set = "partners" /\ IsPair(v) /\ ~Whole(attribute, v)

-----------------------------------------------------------------------------
Init ==
    /\ class \in Classes
    /\ values = [i \in Ids(class) |-> Initial(AttributeOf(class, i))]
    /\ sets = 0
    /\ reply = [result |-> "none", value |-> Nothing]
    /\ intended = [i \in Ids(class) |-> Nothing]

Reading(id) ==
    IF id = 1 THEN [result |-> "ok", value |-> LogicalName]
    ELSE IF id \in Ids(class) /\ AttributeOf(class, id).readable
         THEN [result |-> "ok", value |-> values[id]]
         ELSE [result |-> "ObjectUndefined", value |-> Nothing]

Get(id) ==
    /\ reply' = Reading(id)
    /\ UNCHANGED <<class, values, sets, intended>>

Remember(attribute, id, v) ==
    intended' = [intended EXCEPT ![id] =
                   IF ~Acknowledges(attribute, v) THEN @
                   ELSE IF Whole(attribute, v) THEN v
                   ELSE IF Partial(attribute, v) THEN Nothing
                   ELSE @]

RefuseAfterStoring(id, v) ==  \* mutation: the field is written, then refused
    /\ ~(id \in Ids(class) /\ Acknowledges(AttributeOf(class, id), v))
    /\ reply' = [result |-> "AccessDenied", value |-> Nothing]
    /\ values' = IF id \in Ids(class) THEN [values EXCEPT ![id] = v] ELSE values
    /\ UNCHANGED <<class, sets, intended>>

Refuse(id, v) ==
    /\ ~(id \in Ids(class) /\ Acknowledges(AttributeOf(class, id), v))
    /\ reply' = [result |-> "AccessDenied", value |-> Nothing]
    /\ UNCHANGED <<class, values, sets, intended>>

Acknowledge(id, v) ==
    /\ id \in Ids(class) /\ Acknowledges(AttributeOf(class, id), v)
    /\ sets < MaxSets
    /\ sets' = sets + 1
    /\ values' = [values EXCEPT ![id] = Store(AttributeOf(class, id), @, v)]
    /\ reply' = [result |-> "ok", value |-> Nothing]
    /\ Remember(AttributeOf(class, id), id, v)
    /\ UNCHANGED class

Set(id, v) == Refuse(id, v) \/ Acknowledge(id, v)

Next ==
    \E id \in Asked(class) :
        \/ Get(id)
        \/ \E v \in Sent(class) : Set(id, v)

Spec == Init /\ [][Next]_vars

-----------------------------------------------------------------------------
(***************************************************************************)
(* Whatever its callers write, an attribute is read as a value of the type *)
(* of its field, and only an attribute that is a DlmsValue itself takes a  *)
(* type from outside (the std::get_if of every set_attribute).             *)
(***************************************************************************)
TypeOK ==
    /\ class \in Classes
    /\ sets \in Nat
    /\ DOMAIN values = Ids(class) /\ DOMAIN intended = Ids(class)
    /\ reply.result \in {"none", "ok", "ObjectUndefined", "AccessDenied"}
    /\ \A i \in Ids(class) :
         AttributeOf(class, i).set # "any" =>
             values[i].type = AttributeOf(class, i).type

(***************************************************************************)
(* A value that was acknowledged, and that the attribute can hold, is the  *)
(* one read until another is acknowledged that it can hold, in whole or in *)
(* part: not changed by a write to a neighbour, nor by later values that   *)
(* are refused, or acknowledged and ignored (set_attribute, get_attribute).*)
(***************************************************************************)
AcknowledgedIsRead ==
    \A i \in Ids(class) :
        intended[i] # Nothing /\ AttributeOf(class, i).readable =>
            Reading(i) = [result |-> "ok", value |-> intended[i]]

(***************************************************************************)
(* The inductive invariant: a field holds a whole value, and what was last *)
(* acknowledged for it, also when it cannot be read.                       *)
(***************************************************************************)
IsValue(v) == v = Value(v.type, v.content)
HoldsIntended ==
    \A i \in Ids(class) : intended[i] # Nothing => values[i] = intended[i]

IndInv ==
    /\ TypeOK
    /\ \A i \in Ids(class) : IsValue(values[i])
    /\ HoldsIntended
=============================================================================
