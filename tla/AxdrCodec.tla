------------------------------ MODULE AxdrCodec ------------------------------
(***************************************************************************)
(* The A-XDR codec (src/dlms/axdr): a value of DlmsValue to bytes and back.*)
(* A value is its type and its bytes, or its items; numbers are their bytes*)
(* and strings and octet strings differ by their type only.                *)
(***************************************************************************)
EXTENDS ByteBuffer

Scalar(type, bytes) == [type |-> type, bytes |-> bytes, items |-> <<>>]
Group(type, items) == [type |-> type, bytes |-> <<>>, items |-> items]
None == Scalar("none", <<>>)

Groups == {"array", "structure"}

(***************************************************************************)
(* Tags with a number of bytes that is fixed, with the type their value has*)
(* when it is decoded (22 is an enumeration, 26, 27 and 25 date, time and  *)
(* both); tags followed by a length; tags followed by nothing.             *)
(***************************************************************************)
FixedTags == {3, 5, 6, 15, 16, 17, 18, 20, 21, 22, 23, 24, 25, 26, 27}

FixedType(tag) ==
    CASE tag = 3 -> "bool"  [] tag = 15 -> "i8"  [] tag = 16 -> "i16"
      [] tag = 5 -> "i32"   [] tag = 20 -> "i64" [] tag \in {17, 22} -> "u8"
      [] tag = 18 -> "u16"  [] tag = 6 -> "u32"  [] tag = 21 -> "u64"
      [] tag = 23 -> "f32"  [] tag = 24 -> "f64"
      [] tag \in {25, 26, 27} -> "octets"

FixedWidth(tag) ==
    CASE tag \in {3, 15, 17, 22} -> 1
      [] tag \in {16, 18} -> 2
      [] tag \in {5, 6, 23, 27} -> 4
      [] tag = 26 -> 5
      [] tag \in {20, 21, 24} -> 8
      [] tag = 25 -> 12

SizedTags == {4, 9, 10, 12, 13}  \* bit, octet, visible, UTF-8 string, BCD
SizedType(tag) == IF tag \in {10, 12} THEN "string" ELSE "octets"

EmptyTags == {0, 19, 255}  \* null, compact array, don't care

GroupTags == {1, 2}
GroupType(tag) == IF tag = 1 THEN "array" ELSE "structure"

-----------------------------------------------------------------------------
(***************************************************************************)
(* The tag that encode_value, and the encode_* methods for the types that  *)
(* are not in DlmsValue, write for a type.                                 *)
(***************************************************************************)
TagOf ==
    [none |-> 0, bool |-> 3, i8 |-> 15, i16 |-> 16, i32 |-> 5, i64 |-> 20,
     u8 |-> 17, u16 |-> 18, u32 |-> 6, u64 |-> 21, f32 |-> 23, f64 |-> 24,
     octets |-> 9, string |-> 10, array |-> 1, structure |-> 2,
     enum |-> 22, date |-> 26, time |-> 27, datetime |-> 25, dontcare |-> 255]

Width ==
    [bool |-> 1, i8 |-> 1, i16 |-> 2, i32 |-> 4, i64 |-> 8, u8 |-> 1,
     u16 |-> 2, u32 |-> 4, u64 |-> 8, f32 |-> 4, f64 |-> 8,
     enum |-> 1, date |-> 5, time |-> 4, datetime |-> 12]

(***************************************************************************)
(* The values nested at most d deep, which have the bytes of their type.   *)
(***************************************************************************)
Fits(v) ==
    /\ v.type \in DOMAIN Width => Len(v.bytes) = Width[v.type]
    /\ v.type = "bool" => v.bytes \in {<<0>>, <<1>>}
    /\ v.type \in Groups \union {"none", "dontcare"} => v.bytes = <<>>
    /\ v.type \notin Groups => v.items = <<>>
    /\ Len(v.bytes) < Huge /\ Len(v.items) < Huge

Value[d \in Nat] ==
    {v \in [type : DOMAIN TagOf, bytes : Seq(Byte),
            items : IF d = 0 THEN {<<>>} ELSE Seq(Value[d - 1])] : Fits(v)}

Header(type, n) == <<TagOf[type]>> \o WriteVariableLength(n)

Encoding[d \in Nat] ==
    [v \in Value[d] |->
        IF v.type \in Groups
        THEN Header(v.type, Len(v.items))
               \o FlattenSeq([i \in DOMAIN v.items |->
                                  Encoding[d - 1][v.items[i]]])
        ELSE IF v.type \in {"octets", "string"}
        THEN Header(v.type, Len(v.bytes)) \o v.bytes
        ELSE <<TagOf[v.type]>> \o v.bytes]

-----------------------------------------------------------------------------
AsRead(type, bytes) ==  \* every byte but 0 is true
    IF type = "bool" /\ bytes # <<0>> THEN Scalar("bool", <<1>>)
    ELSE Scalar(type, bytes)

FixedClipped(data, pos, tag) ==  \* mutation: what is left will do
    LET end == Min({pos + FixedWidth(tag), Len(data)})
    IN  Got(AsRead(FixedType(tag), SubSeq(data, pos + 1, end)), end)

DecodeFixed(data, pos, tag) ==
    LET bytes == ReadBytes(data, pos, FixedWidth(tag))
    IN  IF ~bytes.ok THEN bytes
        ELSE Got(AsRead(FixedType(tag), bytes.val), bytes.pos)

SizedClipped(data, pos, type) ==  \* mutation: what is left will do
    LET length == ReadVariableLength(data, pos)
        end == Min({length.pos + length.val, Len(data)})
    IN  IF ~length.ok THEN length
        ELSE Got(Scalar(type, SubSeq(data, length.pos + 1, end)), end)

DecodeSized(data, pos, type) ==
    LET length == ReadVariableLength(data, pos)
        bytes == ReadBytes(data, length.pos, length.val)
    IN  IF ~length.ok THEN length
        ELSE IF ~bytes.ok THEN bytes
        ELSE Got(Scalar(type, bytes.val), bytes.pos)

(***************************************************************************)
(* The items of an array or structure: as many as announced, but no more   *)
(* than the buffer has.                                                    *)
(***************************************************************************)
DecodeGroup(data, pos, type, item) ==
    LET count == ReadVariableLength(data, pos)
        items == ReadMany(data, item, count.val, count.pos)
    IN  IF ~count.ok THEN count
        ELSE IF ~items.ok THEN items
        ELSE Got(Group(type, items.val), items.pos)

DecodeByTag(data, pos, tag, item) ==
    CASE tag \in EmptyTags -> Got(None, pos)
      [] tag \in FixedTags -> DecodeFixed(data, pos, tag)
      [] tag \in SizedTags -> DecodeSized(data, pos, SizedType(tag))
      [] tag \in GroupTags -> DecodeGroup(data, pos, GroupType(tag), item)
      [] OTHER -> Error("InvalidTag")

(***************************************************************************)
(* The value at each position.  Values are nested no deeper than there are *)
(* bytes: each tag of a group takes one, so d runs out after the data.     *)
(***************************************************************************)
DecodeOne(data) ==
    LET one[d \in Nat] ==
          [pos \in Nat |->
              LET tag == ReadBytes(data, pos, 1)
              IN  IF ~tag.ok \/ d = 0 THEN Error("BufferUnderflow")
                  ELSE DecodeByTag(data, tag.pos, tag.val[1], one[d - 1])]
    IN  one[Len(data)]

Decode(data) == DecodeOne(data)[0]  \* what follows it is not looked at
=============================================================================
