--------------------------------- MODULE Wire ---------------------------------
(***************************************************************************)
(* What the codecs write goes to a reader through a stream that may end    *)
(* early, go on with other bytes or flip a bit.  The reader decodes what it*)
(* was given, as the client does with an answer.  Formats: an A-XDR value, *)
(* AARQ, AARE and a list of BER elements, a block and a message of the SM4 *)
(* class, the security control field, and the text of an OBIS code.        *)
(***************************************************************************)
EXTENDS AxdrCodec, BerCodec, Sm4, SecurityControl, ObisText

CONSTANTS
    MaxDepth, \* of groups in groups
    Values,   \* values of DlmsValue, and calls of the encoder's other methods
    Aarqs, Aares,
    Elements, \* sequences of [tag, value]
    Texts,    \* blocks: [key, text]
    Secrets,  \* messages: [key, nonce, aad, text, length]
    Controls, \* security control fields
    Codes,    \* OBIS codes
    Tails     \* bytes that follow a message on the stream

(***************************************************************************)
(* Messages are such as the program can write: values have the bytes of    *)
(* their types, keys are one block, a nonce is copied into one, a result   *)
(* is one byte; the tag of a message has at least one byte.                *)
(***************************************************************************)
ASSUME MessagesAssumption ==
    /\ MaxDepth \in Nat
    /\ Values \subseteq Value[MaxDepth]
    /\ Aarqs \subseteq [context : Seq(Byte), mechanism : Seq(Byte),
                        auth : Seq(Byte), user : Seq(Byte)]
    /\ Aares \subseteq [result : {<<b>> : b \in Byte}, context : Seq(Byte),
                        mechanism : Seq(Byte), auth : Seq(Byte),
                        user : Seq(Byte)]
    /\ Elements \subseteq Seq([tag : Byte, value : Seq(Byte)])
    /\ Texts \subseteq [key : Block, text : Block]
    /\ Secrets \subseteq [key : Block, nonce : Seq(Byte), aad : Seq(Byte),
                          text : Seq(Byte), length : Nat \ {0}]
    /\ \A m \in Secrets : Len(m.nonce) <= 16
    /\ Controls \subseteq [security_suite : 0 .. 15, flags : SUBSET DOMAIN Bit]
    /\ Codes \subseteq {c \in Seq(Byte) : Len(c) = 6}
    /\ Tails \subseteq Seq(Byte)

VARIABLES
    format,
    message, \* what was written
    whole,   \* the number of bytes that were written
    stream,  \* what is there to read
    damaged, \* a bit was flipped
    given,   \* what the reader was given
    got      \* what it made of it

vars == <<format, message, whole, stream, damaged, given, got>>

Nothing == Error("nothing read")

Written(f, m) ==
    CASE f = "axdr" -> Encoding[MaxDepth][m]
      [] f = "aarq" -> EncodeApdu(Aarq, m)
      [] f = "aare" -> EncodeApdu(Aare, m)
      [] f = "ber"  -> WriteAll(m)
      [] f = "block" -> EncryptBlock(RoundKeys(m.key), m.text)
      [] f = "sm4" -> GcmEncrypt(RoundKeys(m.key), m.nonce, m.aad,
                                 m.text, m.length)
      [] f = "control" -> <<ToByte(m)>>
      [] f = "obis" -> ToCanonical(m)

Readings(f, m, data) ==
    CASE f = "axdr" -> {Decode(data)}
      [] f = "aarq" -> {DecodeApdu(Aarq, data)}
      [] f = "aare" -> {DecodeApdu(Aare, data)}
      [] f = "ber"  -> {ReadAll(data)}
      [] f = "block" -> {Got(DecryptBlock(RoundKeys(m.key), data), 16)}
      [] f = "sm4" -> {GcmDecrypt(RoundKeys(m.key), m.nonce, m.aad,
                                  data, m.length)}
      [] f = "control" -> {Got(FromByte(data[1]), 1)}
      [] f = "obis" -> FromString(data)

(***************************************************************************)
(* Huge is beyond every length: messages, and what follows them, keep far  *)
(* below it.                                                               *)
(***************************************************************************)
Limit == Huge \div 16

ASSUME LengthsAssumption ==
    /\ \A m \in Values : Len(Written("axdr", m)) <= Limit
    /\ \A m \in Aarqs : Len(Written("aarq", m)) <= Limit
    /\ \A m \in Aares : Len(Written("aare", m)) <= Limit
    /\ \A m \in Elements : Len(Written("ber", m)) <= Limit
    /\ \A bytes \in Tails : Len(bytes) <= Limit

-----------------------------------------------------------------------------
Write(f, m) ==
    /\ format = f
    /\ message = m
    /\ stream = Written(f, m)

Init ==
    /\ \/ \E m \in Values : Write("axdr", m)
       \/ \E m \in Aarqs : Write("aarq", m)
       \/ \E m \in Aares : Write("aare", m)
       \/ \E m \in Elements : Write("ber", m)
       \/ \E m \in Texts : Write("block", m)
       \/ \E m \in Secrets : Write("sm4", m)
       \/ \E m \in Controls : Write("control", m)
       \/ \E m \in Codes : Write("obis", m)
    /\ whole = Len(stream)
    /\ damaged = FALSE
    /\ given = <<>>
    /\ got = Nothing

Follow(bytes) ==  \* something else comes after it
    /\ format \in {"axdr", "aarq", "aare"}
    /\ given = <<>> /\ got = Nothing
    /\ Len(stream) = whole /\ ~damaged
    /\ stream' = stream \o bytes
    /\ UNCHANGED <<format, message, whole, damaged, given, got>>

Weights == {1, 2, 4, 8, 16, 32, 64, 128}

Damage(i, weight) ==
    /\ format \in {"axdr", "aarq", "aare", "ber", "sm4"}
    /\ got = Nothing
    /\ Len(stream) = whole /\ ~damaged
    /\ stream' = [stream EXCEPT ![i] = FlipBit(@, weight)]
    /\ damaged' = TRUE
    /\ UNCHANGED <<format, message, whole, given, got>>

Read(n) ==
    /\ got = Nothing
    /\ damaged => n = whole
    /\ format \in {"block", "control"} => n = whole  \* they are taken whole
    /\ given' = SubSeq(stream, 1, n)
    /\ got' \in Readings(format, message, given')
    /\ UNCHANGED <<format, message, whole, stream, damaged>>

Next ==
    \/ \E bytes \in Tails : Follow(bytes)
    \/ \E i \in 1 .. whole, weight \in Weights : Damage(i, weight)
    \/ \E n \in 0 .. Len(stream) : Read(n)

Spec == Init /\ [][Next]_vars

-----------------------------------------------------------------------------
(***************************************************************************)
(* What is read of a message: types that DlmsValue has not (dates, times,  *)
(* enumerations, don't care) come back as those that hold their bytes, and *)
(* an AARE has no mechanism name on the wire.                              *)
(***************************************************************************)
ReadType(type) ==
    CASE type \in {"date", "time", "datetime"} -> "octets"
      [] type = "enum" -> "u8"
      [] type = "dontcare" -> "none"
      [] OTHER -> type

AsDecoded[d \in Nat] ==
    [v \in Value[d] |->
        [type |-> ReadType(v.type), bytes |-> v.bytes,
         items |-> [i \in DOMAIN v.items |-> AsDecoded[d - 1][v.items[i]]]]]

Expected ==
    CASE format = "axdr" -> AsDecoded[MaxDepth][message]
      [] format = "aare" -> [message EXCEPT !.mechanism = <<>>]
      [] format \in {"aarq", "ber", "control", "obis"} -> message
      [] format \in {"block", "sm4"} -> message.text

(***************************************************************************)
(* A message that arrived in full is read as it was written, whatever its  *)
(* types and lengths, and what follows it on the stream is not touched     *)
(* (decode, read_all, decrypt_block, gcm_decrypt, from_bytes, from_string). *)
(***************************************************************************)
WholeIsRead ==
    got # Nothing /\ ~damaged /\ Len(given) >= whole =>
        got = Got(Expected, whole)

(***************************************************************************)
(* Not every message that is cut is refused, but what is read of one is a  *)
(* beginning of it: of A-XDR items, at any depth, or BER elements, a list  *)
(* cut between two of its members; of a message of the counter mode, whose *)
(* tag is then compared with other bytes, which it may equal by chance, a  *)
(* shorter text; of an OBIS code, which may be cut in a number and has the *)
(* numbers that were not read from the stack, one whose text begins as what*)
(* arrived.  An APDU that is cut is always refused.                        *)
(***************************************************************************)
CutOf[d \in Nat] ==
    [pair \in Value[d] \X Value[d] |->
        LET part == pair[1]
            value == pair[2]
            n == Len(part.items)
        IN  /\ part.type = value.type /\ part.type \in Groups
            /\ n <= Len(value.items)
            /\ \A i \in 1 .. n - 1 : part.items[i] = value.items[i]
            /\ n > 0 => \/ part.items[n] = value.items[n]
                        \/ CutOf[d - 1][<<part.items[n], value.items[n]>>]]

CutIsABeginning ==
    ~damaged /\ Len(given) < whole /\ got.ok =>
        CASE format = "axdr" -> CutOf[MaxDepth][<<got.val, Expected>>]
          [] format \in {"ber", "sm4"} -> IsStrictPrefix(got.val, Expected)
          [] format = "obis" -> IsPrefix(given, ToCanonical(got.val))
          [] format \in {"aarq", "aare"} -> FALSE

(***************************************************************************)
(* Whatever bytes arrive, also with a bit flipped in a tag, a length or a  *)
(* count: what they are decoded to can be written and is then read the     *)
(* same, and it holds no more bytes and items than arrived, however many   *)
(* were announced.                                                         *)
(***************************************************************************)
DepthRead ==  \* no less than the depth of what was read: a level takes two bytes
    LET items == got.val.items
    IN  IF items = <<>> THEN 0
        ELSE IF \A i \in DOMAIN items : items[i].items = <<>> THEN 1
        ELSE Len(given) \div 2

Contents[d \in Nat] ==  \* its bytes and a mark for each item, as a sequence
    [v \in Value[d] |->
        v.bytes \o FlattenSeq([i \in DOMAIN v.items |->
                                  <<0>> \o Contents[d - 1][v.items[i]]])]

DecodedIsSound ==
    got.ok =>
        /\ format = "axdr" =>
              LET d == DepthRead
              IN  /\ Decode(Encoding[d][got.val]).val = got.val
                  /\ Len(Contents[d][got.val]) < Len(given)
        /\ format = "aarq" =>
              DecodeApdu(Aarq, EncodeApdu(Aarq, got.val)).val = got.val
        /\ format = "aare" =>
              DecodeApdu(Aare, EncodeApdu(Aare, got.val)).val = got.val

(***************************************************************************)
(* A message of the counter mode with one bit flipped, in the text or in   *)
(* the tag, is refused (tests: GcmDecryptTampered).                        *)
(***************************************************************************)
DamageRefused == damaged /\ format = "sm4" => ~got.ok

(***************************************************************************)
(* Block number i is encrypted with the nonce plus i, the sum being that of*)
(* the last four bytes, with every carry between them, and the other twelve*)
(* staying as they are.                                                    *)
(***************************************************************************)
CounterOfBlock(nonce, i) ==
    LET first == FirstCounter(nonce)
        low == first[16] + 256 * first[15] + i
        high == first[14] + 256 * first[13] + low \div 65536
    IN  SubSeq(first, 1, 12)
          \o <<(high \div 256) % 256, high % 256,
                (low \div 256) % 256, low % 256>>

CounterCarries ==
    format = "sm4" =>
        LET counters == Counters(message.nonce, BlocksOf(message.text))
        IN  \A i \in DOMAIN counters :
                counters[i] = CounterOfBlock(message.nonce, i - 1)

(***************************************************************************)
(* The standard vector of SM4, key and text 0123456789ABCDEFFEDCBA987654-  *)
(* 3210, gives the block 681EDF34D206965E86B3E94F536E4246 of GB/T 32907    *)
(* (tests/test_security.cpp:85 and 90, "Expected:").                       *)
(***************************************************************************)
StandardText ==
    <<1, 35, 69, 103, 137, 171, 205, 239, 254, 220, 186, 152, 118, 84, 50, 16>>

StandardBlock ==
    <<104, 30, 223, 52, 210, 6, 150, 94, 134, 179, 233, 79, 83, 110, 66, 70>>

Sm4TestVector ==
    format = "block" /\ message.key = StandardText /\ message.text = StandardText =>
        stream = StandardBlock

(***************************************************************************)
(* The reader answers with a value or with one of the errors of the code,  *)
(* and a value has the number of bytes of its type.                        *)
(***************************************************************************)
Errors == {"nothing read", "BufferUnderflow", "InvalidLength", "InvalidTag",
           "DecryptionError", "InvalidObis"}

TypeOK ==
    /\ damaged \in BOOLEAN
    /\ whole <= Len(stream)
    /\ IsPrefix(given, stream)
    /\ IF got.ok THEN format = "axdr" => got.val \in Value[DepthRead]
       ELSE got.err \in Errors
=============================================================================
