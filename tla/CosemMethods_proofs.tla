------------------------- MODULE CosemMethods_proofs -------------------------
(***************************************************************************)
(* Proofs about CosemMethods, for any bytes and bounds.                    *)
(***************************************************************************)
EXTENDS CosemMethods, SequenceTheorems, TLAPS

Entries(n) == [serial : 1 .. n, appended : BOOLEAN]

(***************************************************************************)
(* What an insertion (execute_insert) makes of a list.                     *)
(***************************************************************************)
LEMMA Inserted ==
    ASSUME NEW S, NEW s \in Seq(S), NEW e \in S, NEW i \in 1 .. Len(s) + 1
    PROVE  /\ InsertAt(s, i, e) \in Seq(S)
           /\ Len(InsertAt(s, i, e)) = Len(s) + 1
           /\ \A j \in 1 .. Len(s) + 1 :
                InsertAt(s, i, e)[j] = IF j < i THEN s[j]
                                       ELSE IF j = i THEN e ELSE s[j - 1]
<1> DEFINE before == SubSeq(s, 1, i - 1)
           after  == SubSeq(s, i, Len(s))
           start  == before \o <<e>>
<1>1. /\ before \in Seq(S) /\ Len(before) = i - 1
      /\ \A j \in 1 .. i - 1 : before[j] = s[j]
  BY SubSeqProperties
<1>2. /\ after \in Seq(S) /\ Len(after) = Len(s) - i + 1
      /\ \A j \in 1 .. Len(s) - i + 1 : after[j] = s[i + j - 1]
  BY SubSeqProperties
<1>3. <<e>> \in Seq(S) /\ Len(<<e>>) = 1 /\ <<e>>[1] = e
  OBVIOUS
<1> HIDE DEF before, after
<1>4. /\ start \in Seq(S) /\ Len(start) = i
      /\ \A j \in 1 .. i : start[j] = IF j < i THEN s[j] ELSE e
  BY <1>1, <1>3, ConcatProperties
<1> HIDE DEF start
<1>5. /\ start \o after \in Seq(S) /\ Len(start \o after) = Len(s) + 1
      /\ \A j \in 1 .. Len(s) + 1 :
           (start \o after)[j] = IF j <= i THEN start[j] ELSE after[j - i]
  BY <1>2, <1>4, ConcatProperties
<1>6. InsertAt(s, i, e) = start \o after
  BY DEF InsertAt, start, before, after
<1> QED
  BY <1>2, <1>4, <1>5, <1>6

(***************************************************************************)
(* What a removal (execute_delete, remove_sensor) leaves of a list.        *)
(***************************************************************************)
LEMMA Removed ==
    ASSUME NEW S, NEW s \in Seq(S), NEW i \in 1 .. Len(s)
    PROVE  /\ RemoveAt(s, i) \in Seq(S)
           /\ Len(RemoveAt(s, i)) = Len(s) - 1
           /\ \A j \in 1 .. Len(s) - 1 :
                RemoveAt(s, i)[j] = IF j < i THEN s[j] ELSE s[j + 1]
<1> DEFINE before == SubSeq(s, 1, i - 1)
           after  == SubSeq(s, i + 1, Len(s))
<1>1. /\ before \in Seq(S) /\ Len(before) = i - 1
      /\ \A j \in 1 .. i - 1 : before[j] = s[j]
  BY SubSeqProperties
<1>2. /\ after \in Seq(S) /\ Len(after) = Len(s) - i
      /\ \A j \in 1 .. Len(s) - i : after[j] = s[i + j]
  BY SubSeqProperties
<1> HIDE DEF before, after
<1>3. /\ before \o after \in Seq(S) /\ Len(before \o after) = Len(s) - 1
      /\ \A j \in 1 .. Len(s) - 1 :
           (before \o after)[j] = IF j < i THEN before[j] ELSE after[j - i + 1]
  <2> DEFINE both == before \o after
  <2>1. /\ both \in Seq(S)
        /\ Len(both) = Len(before) + Len(after)
        /\ \A j \in 1 .. Len(before) + Len(after) :
             both[j] = IF j <= Len(before) THEN before[j]
                       ELSE after[j - Len(before)]
    BY <1>1, <1>2, ConcatProperties, Zenon
  <2> HIDE DEF both
  <2>2. Len(s) \in Nat /\ Len(before) = i - 1
        /\ Len(before) + Len(after) = Len(s) - 1
    BY <1>1, <1>2
  <2>3. both \in Seq(S) /\ Len(both) = Len(s) - 1
    BY <2>1, <2>2
  <2>4. ASSUME NEW j \in 1 .. Len(s) - 1
        PROVE  both[j] = IF j < i THEN before[j] ELSE after[j - i + 1]
    <3>1. both[j] = IF j <= Len(before) THEN before[j]
                    ELSE after[j - Len(before)]
      BY <2>1, <2>2
    <3>2. (j <= Len(before) <=> j < i) /\ j - Len(before) = j - i + 1
      BY <2>2
    <3> QED
      BY <3>1, <3>2
  <2> QED
    BY <2>3, <2>4 DEF both
<1>4. RemoveAt(s, i) = before \o after
  BY DEF RemoveAt, before, after
<1>5. ASSUME NEW j \in 1 .. Len(s) - 1
      PROVE  (before \o after)[j] = IF j < i THEN s[j] ELSE s[j + 1]
  <2>1. CASE j < i
    BY <1>1, <1>3, <2>1
  <2>2. CASE j >= i
    <3>1. PICK k \in 1 .. Len(s) - i : k = j - i + 1
      BY <2>2
    <3>2. after[k] = s[j + 1]
      <4>1. after[k] = s[i + k]
        BY <1>2
      <4> QED
        BY <3>1, <4>1
    <3>3. (before \o after)[j] = after[k]
      <4>1. ~(j < i)
        BY <2>2
      <4> QED
        BY <1>3, <3>1, <4>1
    <3> QED
      BY <2>2, <3>2, <3>3
  <2>3. j < i \/ j >= i
    OBVIOUS
  <2> QED
    BY <2>1, <2>2, <2>3
<1> QED
  BY <1>3, <1>4, <1>5

-----------------------------------------------------------------------------
(***************************************************************************)
(* What the properties of the lists lack to be inductive: no list is longer*)
(* than the number of entries made.                                        *)
(***************************************************************************)
NoLongerThanMade == Len(list) <= added

ListInv ==
    /\ ListTypeOK
    /\ NoLongerThanMade
    /\ NumberIsLength
    /\ AppendedInOrder

(***************************************************************************)
(* A count modulo 2^16 is one (number_of_mbus_clients_).                   *)
(***************************************************************************)
LEMMA CountInRange ==
    ASSUME NEW n \in Nat
    PROVE  n % CountMod \in 0 .. CountMod - 1
BY ListAssumption

(***************************************************************************)
(* Every object starts with an empty list.                                 *)
(***************************************************************************)
LEMMA ListStarts == ListInit => ListInv
<1> SUFFICES ASSUME ListInit PROVE ListInv
  OBVIOUS
<1> USE ListAssumption
<1>1. <<>> \in Seq([serial : 1 .. added, appended : BOOLEAN]) /\ Len(<<>>) = 0
  OBVIOUS
<1>2. 0 % CountMod = 0
  OBVIOUS
<1>3. ListTypeOK
  <2>1. number \in 0 .. CountMod - 1 /\ added \in 0 .. MaxAdded
    BY DEF ListInit
  <2>2. list \in Seq([serial : 1 .. added, appended : BOOLEAN])
    BY <1>1 DEF ListInit
  <2>3. class \in ListClasses /\ undefined \in BOOLEAN
    BY Zenon DEF ListInit
  <2> QED
    BY <2>1, <2>2, <2>3, Zenon DEF ListTypeOK
<1> QED
  BY <1>1, <1>2, <1>3
     DEF ListInit, ListInv, NoLongerThanMade, NumberIsLength, AppendedInOrder

(***************************************************************************)
(* Serial numbers keep their type while more entries are made.             *)
(***************************************************************************)
LEMMA EntriesGrow ==
    ASSUME NEW m \in Nat, NEW n \in Nat, m <= n, NEW s \in Seq(Entries(m))
    PROVE  s \in Seq(Entries(n))
<1>1. Entries(m) \subseteq Entries(n)
  BY DEF Entries
<1> QED
  BY <1>1, SeqMonotonic

(***************************************************************************)
(* The entries of a list have been made, and carry numbers.                *)
(***************************************************************************)
LEMMA EntriesAreMade ==
    ASSUME ListTypeOK, NEW i \in DOMAIN list
    PROVE  /\ i \in 1 .. Len(list)
           /\ list[i].serial \in 1 .. added
           /\ list[i].appended \in BOOLEAN
<1>1. list \in Seq(Entries(added)) /\ added \in Nat
  BY ListAssumption DEF ListTypeOK, Entries
<1>2. i \in 1 .. Len(list) /\ list[i] \in Entries(added)
  BY <1>1, ElementOfSeq, LenProperties
<1> QED
  BY <1>2 DEF Entries

(***************************************************************************)
(* Appending (add_entry, add_sensor, add_mbus_slave, add_threshold,        *)
(* add_object, add_push_object, add_pdp_context) preserves the invariant.  *)
(***************************************************************************)
LEMMA AddPreserves ==
    ASSUME ListInv, Add
    PROVE  ListInv'
<1> USE ListAssumption
<1> DEFINE e == Entry(added + 1, TRUE)
<1>1. added \in Nat /\ added' = added + 1 /\ added' \in 0 .. MaxAdded
      /\ list \in Seq(Entries(added)) /\ Len(list) <= added
  BY DEF ListInv, ListTypeOK, NoLongerThanMade, Add, Entries
<1>2. list \in Seq(Entries(added')) /\ e \in Entries(added')
  <2>1. e \in Entries(added')
    BY <1>1 DEF Entries, Entry
  <2>2. added' \in Nat /\ added <= added'
    BY <1>1
  <2> HIDE DEF e
  <2>3. list \in Seq(Entries(added'))
    BY <1>1, <2>2, EntriesGrow
  <2> QED
    BY <2>1, <2>3
<1>3. /\ list' \in Seq(Entries(added'))
      /\ Len(list') = Len(list) + 1
      /\ \A i \in 1 .. Len(list) : list'[i] = list[i]
      /\ list'[Len(list) + 1] = e
  <2>1. list' = Append(list, e)
    BY DEF Add
  <2> HIDE DEF e
  <2> QED
    BY <1>2, <2>1, AppendProperties
<1>4. number' = Counted(Len(list) + 1)
  BY DEF Add
<1>5. number' \in 0 .. CountMod - 1
  <2>1. Len(list) + 1 \in Nat
    BY <1>1
  <2>2. (Len(list) + 1) % CountMod \in 0 .. CountMod - 1
    BY <2>1, CountInRange
  <2> QED
    BY <1>4, <2>2 DEF Counted, ListInv, ListTypeOK
<1>6. ListTypeOK'
  BY <1>1, <1>3, <1>5 DEF Add, ListInv, ListTypeOK, Entries
<1>7. AppendedInOrder'
  <2> SUFFICES ASSUME NEW i \in DOMAIN list', NEW j \in DOMAIN list'
               PROVE  /\ i # j => list'[i].serial # list'[j].serial
                      /\ i < j /\ list'[i].appended /\ list'[j].appended
                           => list'[i].serial < list'[j].serial
    BY DEF AppendedInOrder
  <2>1. i \in 1 .. Len(list) + 1 /\ j \in 1 .. Len(list) + 1
    BY <1>3
  <2>2. \A k \in 1 .. Len(list) : list[k].serial \in 1 .. added
    BY <1>1, EntriesAreMade DEF ListInv
  <2>3. e.serial = added + 1 /\ e.appended
    BY DEF Entry
  <2> HIDE DEF e
  <2>4. CASE i \in 1 .. Len(list) /\ j \in 1 .. Len(list)
    BY <1>3, <2>4 DEF ListInv, AppendedInOrder
  <2>5. CASE i = Len(list) + 1
    BY <1>1, <1>3, <2>1, <2>2, <2>3, <2>5
  <2>6. CASE j = Len(list) + 1
    BY <1>1, <1>3, <2>1, <2>2, <2>3, <2>6
  <2> QED
    BY <2>1, <2>4, <2>5, <2>6
<1>8. NumberIsLength'
  BY <1>3, <1>4 DEF Add, Counted, NumberIsLength
<1>9. NoLongerThanMade'
  BY <1>1, <1>3 DEF NoLongerThanMade
<1> QED
  BY <1>6, <1>7, <1>8, <1>9 DEF ListInv

(***************************************************************************)
(* Inserting (execute_insert) preserves it, at any index.                  *)
(***************************************************************************)
LEMMA InsertPreserves ==
    ASSUME NEW index \in 0 .. MaxAdded, ListInv, Insert(index)
    PROVE  ListInv'
<1> USE ListAssumption
<1> DEFINE e == Entry(added + 1, FALSE)
           place == index + 1
<1>1. added \in Nat /\ added' = added + 1 /\ added' \in 0 .. MaxAdded
      /\ list \in Seq(Entries(added)) /\ Len(list) <= added
      /\ index \in Nat
      /\ class' = class /\ number' = number
  BY DEF ListInv, ListTypeOK, NoLongerThanMade, Insert, Entries
<1>2. list \in Seq(Entries(added')) /\ e \in Entries(added')
  <2>1. e \in Entries(added')
    BY <1>1 DEF Entries, Entry
  <2>2. added' \in Nat /\ added <= added'
    BY <1>1
  <2> HIDE DEF e
  <2>3. list \in Seq(Entries(added'))
    BY <1>1, <2>2, EntriesGrow
  <2> QED
    BY <2>1, <2>3
<1>3. ~class.counts /\ class.inserts
  BY DEF Insert, ListInv, ListTypeOK, ListClasses, ListClass, SpecialDays,
         Sensors, MbusSlaves, Thresholds, Objects, PushObjects, PdpContexts
<1>4. NumberIsLength'
  BY <1>1, <1>3 DEF ListInv, NumberIsLength
<1>5. undefined' \in BOOLEAN
  BY DEF Insert
<1>6. CASE index > Len(list)
  <2>1. list' = list
    BY <1>6 DEF Insert
  <2>2. ListTypeOK'
    BY <1>1, <1>2, <1>5, <2>1 DEF ListInv, ListTypeOK, Entries
  <2>3. AppendedInOrder' /\ NoLongerThanMade'
    BY <1>1, <2>1 DEF ListInv, AppendedInOrder, NoLongerThanMade
  <2> QED
    BY <1>4, <2>2, <2>3 DEF ListInv
<1>7. CASE index <= Len(list)
  <2>1. list' = InsertAt(list, place, e)
        /\ place \in 1 .. Len(list) + 1
    <3>1. ~(index > Len(list)) /\ place \in 1 .. Len(list) + 1
      BY <1>1, <1>7
    <3> QED
      BY <3>1, Zenon DEF Insert
  <2> HIDE DEF e, place
  <2>2. /\ list' \in Seq(Entries(added'))
        /\ Len(list') = Len(list) + 1
        /\ \A j \in 1 .. Len(list) + 1 :
             list'[j] = IF j < place THEN list[j]
                        ELSE IF j = place THEN e ELSE list[j - 1]
    <3> DEFINE S == Entries(added')
    <3>1. list \in Seq(S) /\ e \in S
      BY <1>2
    <3> HIDE DEF S
    <3>2. /\ InsertAt(list, place, e) \in Seq(S)
          /\ Len(InsertAt(list, place, e)) = Len(list) + 1
          /\ \A j \in 1 .. Len(list) + 1 :
               InsertAt(list, place, e)[j] =
                   IF j < place THEN list[j]
                   ELSE IF j = place THEN e ELSE list[j - 1]
      <4>1. ASSUME NEW i \in 1 .. Len(list) + 1
            PROVE  /\ InsertAt(list, i, e) \in Seq(S)
                   /\ Len(InsertAt(list, i, e)) = Len(list) + 1
                   /\ \A j \in 1 .. Len(list) + 1 :
                        InsertAt(list, i, e)[j] =
                            IF j < i THEN list[j]
                            ELSE IF j = i THEN e ELSE list[j - 1]
        BY <3>1, Inserted
      <4>2. place \in 1 .. Len(list) + 1
        BY <2>1
      <4> QED
        BY <4>1, <4>2
    <3> QED
      BY <2>1, <3>2, Zenon DEF S
  <2>3. ListTypeOK'
    <3>1. list' \in Seq([serial : 1 .. added', appended : BOOLEAN])
      BY <2>2, Zenon DEF Entries
    <3>2. class' \in ListClasses /\ number' \in 0 .. CountMod - 1
          /\ undefined' \in BOOLEAN
      BY <1>1, <1>5, Zenon DEF ListInv, ListTypeOK
    <3>3. added' \in 0 .. MaxAdded
      BY <1>1 DEF ListInv, ListTypeOK
    <3> QED
      BY <3>1, <3>2, <3>3, Zenon DEF ListTypeOK
  <2>4. NoLongerThanMade'
    BY <1>1, <2>2 DEF NoLongerThanMade
  <2>5. AppendedInOrder'
    <3> DEFINE old(j) == IF j < place THEN j ELSE j - 1
    <3>1. e.serial = added + 1 /\ ~e.appended
      BY DEF Entry, e
    <3>2. \A k \in 1 .. Len(list) : list[k].serial \in 1 .. added
      BY <1>1, EntriesAreMade DEF ListInv
    <3>3. ASSUME NEW j \in 1 .. Len(list) + 1, j # place
          PROVE  /\ old(j) \in 1 .. Len(list)
                 /\ list'[j] = list[old(j)]
      BY <1>1, <2>1, <2>2, <3>3
    <3>4. ASSUME NEW i \in 1 .. Len(list) + 1, NEW j \in 1 .. Len(list) + 1,
                 i # place, j # place
          PROVE  (i # j => old(i) # old(j)) /\ (i < j => old(i) < old(j))
      BY <1>1, <2>1, <3>4
    <3>5. list'[place] = e
      BY <2>1, <2>2
    <3> HIDE DEF old
    <3> SUFFICES ASSUME NEW i \in DOMAIN list', NEW j \in DOMAIN list'
                 PROVE  /\ i # j => list'[i].serial # list'[j].serial
                        /\ i < j /\ list'[i].appended /\ list'[j].appended
                             => list'[i].serial < list'[j].serial
      BY DEF AppendedInOrder
    <3>6. i \in 1 .. Len(list) + 1 /\ j \in 1 .. Len(list) + 1
      BY <2>2
    <3>7. CASE i # place /\ j # place
      <4>1. old(i) \in DOMAIN list /\ old(j) \in DOMAIN list
            /\ list'[i] = list[old(i)] /\ list'[j] = list[old(j)]
        BY <1>1, <3>3, <3>6, <3>7
      <4>2. (i # j => old(i) # old(j)) /\ (i < j => old(i) < old(j))
        BY <3>4, <3>6, <3>7
      <4> QED
        BY <4>1, <4>2 DEF ListInv, AppendedInOrder
    <3>8. CASE i = place
      BY <1>1, <3>1, <3>2, <3>3, <3>5, <3>6, <3>8, SMTT(40)
    <3>9. CASE j = place
      BY <1>1, <3>1, <3>2, <3>3, <3>5, <3>6, <3>9
    <3> QED
      BY <3>7, <3>8, <3>9
  <2> QED
    BY <1>4, <2>3, <2>4, <2>5 DEF ListInv
<1> QED
  BY <1>1, <1>6, <1>7

(***************************************************************************)
(* Deleting by position (execute_delete, remove_sensor) preserves the      *)
(* invariant.                                                              *)
(***************************************************************************)
LEMMA DeletePreserves ==
    ASSUME NEW index \in 0 .. MaxAdded, ListInv, Delete(index)
    PROVE  ListInv'
<1> USE ListAssumption
<1> DEFINE place == index + 1
<1>1. added \in Nat /\ list \in Seq(Entries(added)) /\ Len(list) <= added
      /\ Len(list) \in Nat
  BY DEF ListInv, ListTypeOK, NoLongerThanMade, Entries
<1>2. /\ place \in 1 .. Len(list)
      /\ class.deletes
      /\ class' = class /\ number' = number /\ added' = added
      /\ undefined' = undefined
  BY <1>1 DEF Delete
<1>3. list' = RemoveAt(list, place)
  BY DEF Delete
<1>4. ~class.counts
  BY <1>2 DEF ListInv, ListTypeOK, ListClasses, ListClass, SpecialDays,
         Sensors, MbusSlaves, Thresholds, Objects, PushObjects, PdpContexts
<1> HIDE DEF place
<1>5. /\ list' \in Seq(Entries(added))
      /\ Len(list') = Len(list) - 1
      /\ \A j \in 1 .. Len(list) - 1 :
           list'[j] = IF j < place THEN list[j] ELSE list[j + 1]
  <2> DEFINE S == Entries(added)
  <2>1. list \in Seq(S)
    BY <1>1
  <2> HIDE DEF S
  <2>2. /\ RemoveAt(list, place) \in Seq(S)
        /\ Len(RemoveAt(list, place)) = Len(list) - 1
        /\ \A j \in 1 .. Len(list) - 1 :
             RemoveAt(list, place)[j] =
                 IF j < place THEN list[j] ELSE list[j + 1]
    BY <1>2, <2>1, Removed
  <2> QED
    BY <1>3, <2>2, Zenon DEF S
<1>6. ListTypeOK'
  BY <1>1, <1>2, <1>5 DEF ListInv, ListTypeOK, Entries
<1>7. NoLongerThanMade' /\ NumberIsLength'
  BY <1>1, <1>2, <1>4, <1>5 DEF NoLongerThanMade, NumberIsLength
<1>8. AppendedInOrder'
  <2> DEFINE old(j) == IF j < place THEN j ELSE j + 1
  <2>1. ASSUME NEW j \in 1 .. Len(list) - 1
        PROVE  old(j) \in DOMAIN list /\ list'[j] = list[old(j)]
    BY <1>1, <1>2, <1>5
  <2>2. ASSUME NEW i \in 1 .. Len(list) - 1, NEW j \in 1 .. Len(list) - 1
        PROVE  (i # j => old(i) # old(j)) /\ (i < j => old(i) < old(j))
    BY <1>1, <1>2
  <2> HIDE DEF old
  <2> SUFFICES ASSUME NEW i \in DOMAIN list', NEW j \in DOMAIN list'
               PROVE  /\ i # j => list'[i].serial # list'[j].serial
                      /\ i < j /\ list'[i].appended /\ list'[j].appended
                           => list'[i].serial < list'[j].serial
    BY DEF AppendedInOrder
  <2>3. i \in 1 .. Len(list) - 1 /\ j \in 1 .. Len(list) - 1
    BY <1>5
  <2> QED
    BY <2>1, <2>2, <2>3 DEF ListInv, AppendedInOrder
<1> QED
  BY <1>6, <1>7, <1>8 DEF ListInv

(***************************************************************************)
(* Clearing (clear_entries, clear_slaves) preserves it.                    *)
(***************************************************************************)
LEMMA ClearPreserves ==
    ASSUME ListInv, Clear
    PROVE  ListInv'
<1> USE ListAssumption
<1>1. /\ list' = <<>> /\ Len(list') = 0
      /\ number' = Counted(0)
      /\ class' = class /\ added' = added /\ undefined' = undefined
  BY DEF Clear
<1>2. list' \in Seq([serial : 1 .. added', appended : BOOLEAN])
  BY <1>1
<1>3. 0 % CountMod \in 0 .. CountMod - 1
  BY CountInRange
<1>4. ListTypeOK'
  <2>1. number' \in 0 .. CountMod - 1
    BY <1>1, <1>3 DEF ListInv, ListTypeOK, Counted
  <2> QED
    BY <1>1, <1>2, <2>1 DEF ListInv, ListTypeOK
<1>5. NoLongerThanMade' /\ AppendedInOrder'
  BY <1>1 DEF ListInv, ListTypeOK, NoLongerThanMade, AppendedInOrder
<1>6. NumberIsLength'
  BY <1>1 DEF NumberIsLength, Counted
<1> QED
  BY <1>4, <1>5, <1>6 DEF ListInv

(***************************************************************************)
(* Replacing a list (set_attribute of RegisterMonitor) preserves it.       *)
(***************************************************************************)
LEMMA SetListPreserves ==
    ASSUME NEW n \in 0 .. MaxAdded, ListInv, SetList(n)
    PROVE  ListInv'
<1> USE ListAssumption
<1>1. /\ class.set = "stored"
      /\ class' = class /\ number' = number /\ undefined' = undefined
      /\ added \in Nat /\ n \in Nat
      /\ added' = added + n /\ added' \in 0 .. MaxAdded
      /\ list' = [i \in 1 .. n |-> Entry(added + i, TRUE)]
  BY DEF SetList, ListInv, ListTypeOK
<1>2. \A i \in 1 .. n : list'[i] \in Entries(added')
  BY <1>1 DEF Entries, Entry
<1>3. list' \in Seq(Entries(added')) /\ Len(list') = n
  <2> DEFINE S == Entries(added')
  <2>1. list' \in [1 .. n -> S] /\ DOMAIN list' = 1 .. n
    BY <1>1, <1>2
  <2> HIDE DEF S
  <2>2. list' \in Seq(S)
    BY <1>1, <2>1, SeqDef
  <2>3. Len(list') \in Nat /\ 1 .. n = 1 .. Len(list')
    BY <2>1, <2>2, LenProperties
  <2>4. Len(list') = n
    BY <1>1, <2>3
  <2> QED
    BY <2>2, <2>4 DEF S
<1>4. ~class.counts
  BY <1>1 DEF ListInv, ListTypeOK, ListClasses, ListClass, SpecialDays,
         Sensors, MbusSlaves, Thresholds, Objects, PushObjects, PdpContexts
<1>5. ListTypeOK'
  BY <1>1, <1>3 DEF ListInv, ListTypeOK, Entries
<1>6. NoLongerThanMade' /\ NumberIsLength'
  BY <1>1, <1>3, <1>4 DEF NoLongerThanMade, NumberIsLength
<1>7. AppendedInOrder'
  BY <1>1 DEF AppendedInOrder, Entry
<1> QED
  BY <1>5, <1>6, <1>7 DEF ListInv

(***************************************************************************)
(* Every call on a list preserves the invariant.                           *)
(***************************************************************************)
LEMMA ListPreserved == ListInv /\ [ListNext]_listVars => ListInv'
<1> SUFFICES ASSUME ListInv, [ListNext]_listVars PROVE ListInv'
  OBVIOUS
<1> USE ListAssumption
<1>1. CASE UNCHANGED listVars
  BY <1>1 DEF listVars, ListInv, ListTypeOK, NoLongerThanMade, NumberIsLength,
     AppendedInOrder
<1>2. CASE ListStep
  <2>1. CASE Add
    BY <2>1, AddPreserves
  <2>2. CASE Clear
    BY <2>2, ClearPreserves
  <2>3. CASE DropList
    BY <1>1, <2>3 DEF DropList
  <2>4. ASSUME NEW index \in 0 .. MaxAdded, Insert(index) PROVE ListInv'
    BY <2>4, InsertPreserves
  <2>5. ASSUME NEW index \in 0 .. MaxAdded, Delete(index) PROVE ListInv'
    BY <2>5, DeletePreserves
  <2>6. ASSUME NEW index \in 0 .. MaxAdded, Refuse(index) PROVE ListInv'
    BY <1>1, <2>6 DEF Refuse
  <2>7. ASSUME NEW n \in 0 .. MaxAdded, SetList(n) PROVE ListInv'
    BY <2>7, SetListPreserves
  <2> QED
    BY <1>2, <2>1, <2>2, <2>3, <2>4, <2>5, <2>6, <2>7 DEF ListStep
<1> QED
  BY <1>1, <1>2 DEF ListNext

-----------------------------------------------------------------------------
(***************************************************************************)
(* The relays keep their invariant: a method moves both states of          *)
(* DisconnectControl, a write to control_state is remembered as one.       *)
(***************************************************************************)
LoadInv == LoadTypeOK /\ LoadObeysOrders

LEMMA LoadStarts == LoadInit => LoadInv
BY ByteAssumption
   DEF LoadInit, LoadInv, LoadTypeOK, LoadObeysOrders, Connected, Disconnected,
       Disabled

LEMMA LoadPreserved == LoadInv /\ [LoadNext]_loadVars => LoadInv'
<1> SUFFICES ASSUME LoadInv, [LoadNext]_loadVars PROVE LoadInv'
  OBVIOUS
<1> USE ByteAssumption DEF LoadInv, LoadTypeOK, LoadObeysOrders
<1>1. ASSUME NEW method \in {1, 2}, ExecuteMethod(method) PROVE LoadInv'
  BY <1>1 DEF ExecuteMethod
<1>2. ASSUME NEW byte \in Bytes, SetControl(byte) PROVE LoadInv'
  BY <1>2 DEF SetControl
<1>3. ASSUME NEW byte \in Bytes, SetOutput(byte) PROVE LoadInv'
  BY <1>3 DEF SetOutput
<1>4. CASE UNCHANGED loadVars
  BY <1>4 DEF loadVars
<1> QED
  BY <1>1, <1>2, <1>3, <1>4 DEF LoadNext, Decline

-----------------------------------------------------------------------------
(***************************************************************************)
(* An activity calendar keeps its invariant: what is prepared afterwards   *)
(* touches only the passive one.                                           *)
(***************************************************************************)
CalendarInv == CalendarTypeOK /\ ActiveIsWhatWasActivated

LEMMA CalendarStarts == CalendarInit => CalendarInv
BY CalendarAssumption
   DEF CalendarInit, CalendarInv, CalendarTypeOK, ActiveIsWhatWasActivated, Blank

LEMMA CalendarPreserved == CalendarInv /\ [CalendarNext]_calendarVars => CalendarInv'
<1> SUFFICES ASSUME CalendarInv, [CalendarNext]_calendarVars PROVE CalendarInv'
  OBVIOUS
<1> USE CalendarAssumption
<1> USE DEF CalendarInv, CalendarTypeOK, ActiveIsWhatWasActivated
<1>1. ASSUME NEW part \in Parts, Prepare(part) PROVE CalendarInv'
  <2>1. 0 .. edits \subseteq 0 .. edits' /\ edits' \in 0 .. MaxEdits
        /\ edits + 1 \in 0 .. edits'
    BY <1>1 DEF Prepare, Edit
  <2>2. active' \in [Parts -> 0 .. edits'] /\ passive' \in [Parts -> 0 .. edits']
        /\ activated' \in [Parts -> 0 .. edits']
    BY <1>1, <2>1 DEF Prepare
  <2> QED
    BY <1>1, <2>1, <2>2 DEF Prepare
<1>2. ASSUME NEW part \in Parts, Change(part) PROVE CalendarInv'
  <2>1. 0 .. edits \subseteq 0 .. edits' /\ edits' \in 0 .. MaxEdits
        /\ edits + 1 \in 0 .. edits'
    BY <1>2 DEF Change, Edit
  <2>2. active' \in [Parts -> 0 .. edits'] /\ passive' \in [Parts -> 0 .. edits']
        /\ activated' \in [Parts -> 0 .. edits']
    BY <1>2, <2>1 DEF Change
  <2>3. touched' \in SUBSET (Parts \ {"season"})
    BY <1>2 DEF Change
  <2>4. \A p \in Parts \ touched' : active'[p] = activated'[p]
    BY <1>2 DEF Change
  <2> QED
    BY <2>1, <2>2, <2>3, <2>4
<1>3. CASE ActivatePassive
  BY <1>3 DEF ActivatePassive
<1>4. CASE UNCHANGED calendarVars
  BY <1>4 DEF calendarVars
<1> QED
  BY <1>1, <1>2, <1>3, <1>4 DEF CalendarNext

-----------------------------------------------------------------------------
IndInv ==
    /\ object \in {"list", "relay", "calendar"}
    /\ ListInv
    /\ LoadInv
    /\ CalendarInv

(***************************************************************************)
(* IndInv, the invariants of the three kinds of object together, is an     *)
(* invariant of every execution.                                           *)
(***************************************************************************)
THEOREM Inductive == Spec => []IndInv
<1>1. Init => IndInv
  BY ListStarts, LoadStarts, CalendarStarts DEF Init, IndInv
<1>2. IndInv /\ [Next]_vars => IndInv'
  <2> SUFFICES ASSUME IndInv, [Next]_vars PROVE IndInv'
    OBVIOUS
  <2>1. [ListNext]_listVars /\ [LoadNext]_loadVars /\ [CalendarNext]_calendarVars
        /\ object' = object
    BY DEF Next, UseList, UseRelay, UseCalendar, vars
  <2> QED
    BY <2>1, ListPreserved, LoadPreserved, CalendarPreserved DEF IndInv
<1> QED
  BY <1>1, <1>2, PTL DEF Spec

(***************************************************************************)
(* Every field keeps its type, for any bytes and bounds.          *)
(***************************************************************************)
THEOREM TypeCorrect == Spec => []TypeOK
<1>1. IndInv => TypeOK
  BY DEF IndInv, ListInv, LoadInv, CalendarInv, TypeOK
<1> QED
  BY <1>1, Inductive, PTL

(***************************************************************************)
(* The number kept beside the list of an MbusClient is its length modulo   *)
(* 2^16 (add_mbus_slave, clear_slaves).                                    *)
(***************************************************************************)
THEOREM NumberIsLengthHolds == Spec => []NumberIsLength
<1>1. IndInv => NumberIsLength
  BY DEF IndInv, ListInv
<1> QED
  BY <1>1, Inductive, PTL

(***************************************************************************)
(* Appended entries stay in the order in which they came, none twice.      *)
(***************************************************************************)
THEOREM AppendedInOrderHolds == Spec => []AppendedInOrder
<1>1. IndInv => AppendedInOrder
  BY DEF IndInv, ListInv
<1> QED
  BY <1>1, Inductive, PTL

(***************************************************************************)
(* The load is where the last order put it, and control_state says so      *)
(* unless it was written since (execute_method, set_attribute).            *)
(***************************************************************************)
THEOREM LoadObeysOrdersHolds == Spec => []LoadObeysOrders
<1>1. IndInv => LoadObeysOrders
  BY DEF IndInv, LoadInv
<1> QED
  BY <1>1, Inductive, PTL

(***************************************************************************)
(* The calendar in force is the passive one as it was when activated       *)
(* (activate_passive).                                                     *)
(***************************************************************************)
THEOREM ActiveIsWhatWasActivatedHolds == Spec => []ActiveIsWhatWasActivated
<1>1. IndInv => ActiveIsWhatWasActivated
  BY DEF IndInv, CalendarInv
<1> QED
  BY <1>1, Inductive, PTL
=============================================================================
