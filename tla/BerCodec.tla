------------------------------- MODULE BerCodec -------------------------------
(***************************************************************************)
(* ASN.1 BER (src/dlms/asn1): elements of a tag, a length and a value, and *)
(* the AARQ and AARE made of them.  An APDU maps the names of its fields to*)
(* their bytes; a field that is empty is not written.                      *)
(***************************************************************************)
EXTENDS ByteBuffer

Tlv(tag, value) == <<tag>> \o WriteVariableLength(Len(value)) \o value

ContextTag(context, constructed) ==  \* encode_context, contexts below 32
    128 + context + (IF constructed THEN 32 ELSE 0)

WriteAll(elements) ==
    FlattenSeq([i \in DOMAIN elements |->
                   Tlv(elements[i].tag, elements[i].value)])

ReadTlv(data, pos) ==
    LET tag == ReadBytes(data, pos, 1)
        length == ReadVariableLength(data, tag.pos)
        value == ReadBytes(data, length.pos, length.val)
    IN  IF ~tag.ok THEN tag
        ELSE IF ~length.ok THEN length
        ELSE IF ~value.ok THEN value
        ELSE Got([tag |-> tag.val[1], value |-> value.val], value.pos)

ReadAll(data) ==  \* no element is shorter than a byte
    ReadMany(data, [pos \in Nat |-> ReadTlv(data, pos)], Len(data), 0)

-----------------------------------------------------------------------------
(***************************************************************************)
(* AarqApdu and AareApdu: the tag of each field, in the order written.     *)
(***************************************************************************)
Field(tag, name) == [tag |-> tag, name |-> name]

AarqFields == <<Field(161, "context"), Field(167, "mechanism"),
                Field(136, "auth"), Field(190, "user")>>
AareFields == <<Field(130, "result"), Field(161, "context"),
                Field(137, "auth"), Field(190, "user")>>

Aarq == [tag |-> 96, fields |-> AarqFields,
         blank |-> [context |-> <<>>, mechanism |-> <<>>,
                    auth |-> <<>>, user |-> <<>>]]
Aare == [tag |-> 97, fields |-> AareFields,
         blank |-> [result |-> <<0>>, context |-> <<>>, mechanism |-> <<>>,
                    auth |-> <<>>, user |-> <<>>]]

EncodeField(value, field) ==
    IF value[field.name] = <<>> THEN <<>>
    ELSE Tlv(field.tag, value[field.name])

EncodeApdu(apdu, value) ==
    LET bytes(i) == EncodeField(value, apdu.fields[i])
    IN  Tlv(apdu.tag, bytes(1) \o bytes(2) \o bytes(3) \o bytes(4))

(***************************************************************************)
(* Fields are taken in any order, the last of two counts, elements with    *)
(* other tags are skipped; of the result only the first byte is read.      *)
(***************************************************************************)
TakeField(value, element, apdu) ==
    LET names == {field.name : field \in {f \in Range(apdu.fields) :
                                              f.tag = element.tag}}
    IN  [name \in DOMAIN value |->
            IF name \notin names THEN value[name]
            ELSE IF name # "result" THEN element.value
            ELSE IF element.value = <<>> THEN value[name]
            ELSE <<element.value[1]>>]

DecodeApdu(apdu, data) ==
    LET outer == ReadTlv(data, 0)
        inner == ReadAll(outer.val.value)
    IN  IF ~outer.ok THEN outer
        ELSE IF outer.val.tag # apdu.tag THEN Error("InvalidTag")
        ELSE IF ~inner.ok THEN inner
        ELSE Got(FoldLeft(LAMBDA v, e : TakeField(v, e, apdu),
                          apdu.blank, inner.val),
                 outer.pos)
=============================================================================
