-------------------------- MODULE CosemObject_proofs --------------------------
(***************************************************************************)
(* Proofs about CosemObject, for any set of class tables.                  *)
(***************************************************************************)
EXTENDS CosemObject, TLAPS

(***************************************************************************)
(* Every attribute of a class has an entry of its table.                   *)
(***************************************************************************)
LEMMA AttributeTyped ==
    ASSUME NEW c \in Classes, NEW id \in Ids(c)
    PROVE  AttributeOf(c, id) \in Attributes
<1>1. c.attributes \in Seq(Attributes)
  BY ClassAssumption
<1>2. PICK i \in DOMAIN c.attributes : id = i + 1
  BY DEF Ids
<1>3. i \in 1 .. Len(c.attributes) /\ c.attributes[i] \in Attributes
  BY <1>1, <1>2
<1>4. id - 1 = i
  BY <1>2, <1>3
<1> QED
  BY <1>3, <1>4 DEF AttributeOf

(***************************************************************************)
(* What Store leaves in a field: a value of the field's type; the value    *)
(* sent if the attribute can hold it, and the old one if it can hold no    *)
(* part of it.                                                             *)
(***************************************************************************)
LEMMA Stored ==
    ASSUME NEW a \in Attributes, NEW old, NEW v, IsValue(old), IsValue(v),
           a.set # "any" => old.type = a.type
    PROVE  /\ IsValue(Store(a, old, v))
           /\ a.set # "any" => Store(a, old, v).type = a.type
           /\ Whole(a, v) => Store(a, old, v) = v
           /\ ~Whole(a, v) /\ ~Partial(a, v) => Store(a, old, v) = old
<1> DEFINE s == Store(a, old, v)
<1>1. CASE a.set = "any"
  <2>1. s = v /\ Whole(a, v)
    BY <1>1 DEF Store, Whole
  <2> QED
    BY <1>1, <2>1
<1>2. CASE a.set \in {"typed", "strict"}
  <2>1. s = (IF v.type = a.type THEN v ELSE old)
    BY <1>2 DEF Store
  <2>2. Whole(a, v) <=> v.type = a.type
    BY <1>2 DEF Whole
  <2> QED
    BY <1>2, <2>1, <2>2
<1>3. CASE a.set = "time"
  <2>1. s = (IF IsDateTime(v) THEN AsDateTime(v) ELSE old)
    BY <1>3 DEF Store
  <2>2. Whole(a, v) <=> v.type = "octets" /\ v.content = "plain"
    BY <1>3 DEF Whole
  <2>3. a.type = "octets"
    BY <1>3 DEF Attributes
  <2>4. v = [type |-> v.type, content |-> v.content]
    BY DEF IsValue, Value
  <2>5. AsDateTime(v) = Value(v.type, IF v.content = "spare" THEN "plain" ELSE v.content)
    BY <2>4 DEF AsDateTime, Value
  <2>6. CASE IsDateTime(v)
    <3>1. s = Value("octets", "plain")
      BY <2>1, <2>5, <2>6 DEF IsDateTime
    <3>2. Whole(a, v) => s = v
      BY <3>1, <2>2, <2>4 DEF Value
    <3>3. Whole(a, v) \/ Partial(a, v)
      BY <1>3, <2>2, <2>4, <2>6 DEF IsDateTime, Partial, Value
    <3>4. IsValue(s) /\ s.type = "octets"
      BY <3>1 DEF IsValue, Value
    <3> QED
      BY <2>3, <3>2, <3>3, <3>4
  <2>7. CASE ~IsDateTime(v)
    <3>1. s = old /\ ~Whole(a, v)
      BY <2>1, <2>2, <2>7 DEF IsDateTime
    <3> QED
      BY <1>3, <3>1
  <2> QED
    BY <2>6, <2>7
<1>4. CASE a.set = "partners"
  <2>1. s = (IF IsPair(v) THEN Merge(old, v) ELSE old)
    BY <1>4 DEF Store
  <2>2. Whole(a, v) <=> v.type = "structure" /\ v.content \in {"p", "q"} \X {"p", "q"}
    BY <1>4 DEF Whole
  <2>3. a.type = "structure" /\ old.type = "structure"
    BY <1>4 DEF Attributes
  <2>4. old = [type |-> old.type, content |-> old.content]
    BY DEF IsValue, Value
  <2>5. DEFINE m == [k \in 1 .. 2 |-> IF v.content[k] = "none" THEN old.content[k]
                                                               ELSE v.content[k]]
  <2>6. Merge(old, v) = Value("structure", m)
    BY <2>3, <2>4 DEF Merge, Value
  <2>7. CASE IsPair(v)
    <3>1. s = Value("structure", m)
      BY <2>1, <2>6, <2>7
    <3>2. IsValue(s) /\ s.type = "structure"
      BY <3>1 DEF IsValue, Value
    <3>3. ASSUME Whole(a, v) PROVE s = v
      <4>1. v.content \in {"p", "q"} \X {"p", "q"}
        BY <2>2, <3>3
      <4>2. m = v.content
        BY <4>1
      <4>3. v = Value("structure", v.content)
        BY <2>2, <3>3 DEF IsValue
      <4> QED
        BY <3>1, <4>2, <4>3
    <3>4. Whole(a, v) \/ Partial(a, v)
      BY <1>4, <2>7 DEF Partial
    <3> QED
      BY <2>3, <3>2, <3>3, <3>4
  <2>8. CASE ~IsPair(v)
    <3>1. <<>> \notin {"p", "q"} \X {"p", "q"}
      OBVIOUS
    <3>2. ~Whole(a, v)
      BY <2>2, <2>8, <3>1 DEF IsPair
    <3> QED
      BY <1>4, <2>1, <2>8, <3>2
  <2> QED
    BY <2>7, <2>8
<1>5. CASE a.set \in {"denied", "dropped"}
  <2>1. s = old /\ ~Whole(a, v)
    BY <1>5 DEF Store, Whole
  <2> QED
    BY <1>5, <2>1
<1> QED
  BY <1>1, <1>2, <1>3, <1>4, <1>5 DEF Attributes, SetKinds

(***************************************************************************)
(* What callers send is a value.                                           *)
(***************************************************************************)
LEMMA SentValues == ASSUME NEW c, NEW v \in Sent(c) PROVE IsValue(v)
<1>1. PICK t, x : v = Value(t, x)
  BY DEF Sent
<1> QED
  BY <1>1 DEF IsValue, Value

(***************************************************************************)
(* The invariant holds when the object is constructed.                     *)
(***************************************************************************)
LEMMA Constructed == Init => IndInv
<1> SUFFICES ASSUME Init PROVE IndInv
  OBVIOUS
<1>1. TypeOK
  BY DEF Init, TypeOK, Initial, Value
<1>2. ASSUME NEW i \in Ids(class) PROVE IsValue(values[i])
  BY DEF Init, Initial, IsValue, Value
<1>3. HoldsIntended
  BY DEF Init, HoldsIntended
<1> QED
  BY <1>1, <1>2, <1>3 DEF IndInv

(***************************************************************************)
(* Every call preserves the invariant.                                     *)
(***************************************************************************)
LEMMA Preserved == IndInv /\ [Next]_vars => IndInv'
<1> SUFFICES ASSUME IndInv, [Next]_vars PROVE IndInv'
  OBVIOUS
<1>1. ASSUME NEW id \in Asked(class), Get(id) PROVE IndInv'
  <2>1. reply'.result \in {"ok", "ObjectUndefined"}
    BY <1>1 DEF Get, Reading
  <2> QED
    BY <1>1, <2>1 DEF Get, IndInv, TypeOK, HoldsIntended
<1>2. ASSUME NEW id \in Asked(class), NEW v \in Sent(class), Refuse(id, v)
      PROVE  IndInv'
  <2>1. reply'.result = "AccessDenied"
    BY <1>2 DEF Refuse
  <2> QED
    BY <1>2, <2>1 DEF Refuse, IndInv, TypeOK, HoldsIntended
<1>3. ASSUME NEW id \in Asked(class), NEW v \in Sent(class), Acknowledge(id, v)
      PROVE  IndInv'
  <2> DEFINE a == AttributeOf(class, id)
             s == Store(a, values[id], v)
  <2>1. id \in Ids(class) /\ class' = class /\ Acknowledges(a, v)
    BY <1>3 DEF Acknowledge
  <2>2. a \in Attributes
    BY <2>1, AttributeTyped DEF IndInv, TypeOK
  <2>3. DOMAIN values = Ids(class) /\ DOMAIN intended = Ids(class)
    BY DEF IndInv, TypeOK
  <2>4. IsValue(values[id]) /\ (a.set # "any" => values[id].type = a.type)
    BY <2>1 DEF IndInv, TypeOK
  <2>5. IsValue(v)
    BY SentValues
  <2>6. /\ IsValue(s)
        /\ a.set # "any" => s.type = a.type
        /\ Whole(a, v) => s = v
        /\ ~Whole(a, v) /\ ~Partial(a, v) => s = values[id]
    BY <2>2, <2>4, <2>5, Stored
  <2> HIDE DEF a, s
  <2>7. values' = [values EXCEPT ![id] = s]
    BY <1>3 DEF Acknowledge, a, s
  <2>8. intended' = [intended EXCEPT ![id] =
                       IF Whole(a, v) THEN v
                       ELSE IF Partial(a, v) THEN Nothing ELSE @]
    BY <1>3, <2>1 DEF Acknowledge, Remember, a
  <2>9. reply'.result = "ok" /\ sets' \in Nat
    BY <1>3 DEF Acknowledge, IndInv, TypeOK
  <2>10. TypeOK'
    BY <2>1, <2>3, <2>6, <2>7, <2>8, <2>9 DEF IndInv, TypeOK, a
  <2>11. \A i \in Ids(class') : IsValue(values'[i])
    BY <2>1, <2>3, <2>6, <2>7 DEF IndInv
  <2>12. HoldsIntended'
    BY <2>1, <2>3, <2>6, <2>7, <2>8 DEF IndInv, HoldsIntended
  <2> QED
    BY <2>10, <2>11, <2>12 DEF IndInv, IsValue
<1>4. CASE UNCHANGED vars
  BY <1>4 DEF vars, IndInv, TypeOK, HoldsIntended, IsValue
<1> QED
  BY <1>1, <1>2, <1>3, <1>4 DEF Next, Set

(***************************************************************************)
(* The invariant is inductive, so it holds in every reachable state.       *)
(***************************************************************************)
THEOREM Inductive == Spec => []IndInv
<1> QED
  BY Constructed, Preserved, PTL DEF Spec

(***************************************************************************)
(* Attributes keep the type of their field, whatever callers write.        *)
(***************************************************************************)
THEOREM TypeCorrect == Spec => []TypeOK
<1>1. IndInv => TypeOK
  BY DEF IndInv
<1> QED
  BY <1>1, Inductive, PTL

(***************************************************************************)
(* For any classes: what was acknowledged and fits is what is read.        *)
(***************************************************************************)
THEOREM AcknowledgedIsReadHolds == Spec => []AcknowledgedIsRead
<1>1. IndInv => AcknowledgedIsRead
  <2> SUFFICES ASSUME IndInv, NEW i \in Ids(class), intended[i] # Nothing,
                      AttributeOf(class, i).readable
               PROVE  Reading(i) = [result |-> "ok", value |-> intended[i]]
    BY DEF AcknowledgedIsRead
  <2>1. values[i] = intended[i]
    BY DEF IndInv, HoldsIntended
  <2>2. i # 1
    <3>1. class.attributes \in Seq(Attributes)
      BY ClassAssumption DEF IndInv, TypeOK
    <3>2. PICK k \in DOMAIN class.attributes : i = k + 1
      BY DEF Ids
    <3> QED
      BY <3>1, <3>2
  <2> QED
    BY <2>1, <2>2 DEF Reading
<1> QED
  BY <1>1, Inductive, PTL
=============================================================================
