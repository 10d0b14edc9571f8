--------------------------------- MODULE Sm4 ---------------------------------
(***************************************************************************)
(* The block cipher of src/dlms/security/sm4.cpp and its counter mode, with*)
(* the tag that the code calls a simplified GHASH.  A word of 32 bits is   *)
(* four bytes, high byte first.  This is the code and not the standard it  *)
(* names: the two linear transforms are exchanged (the rotations by 13 and *)
(* 23 belong to the key schedule) and CK has bytes where the standard has  *)
(* words.                                                                  *)
(***************************************************************************)
EXTENDS ByteBuffer

SBox == <<
    214, 144, 233, 254, 204, 225, 61, 183, 22, 182, 20, 194, 40, 251, 44, 5,
    43, 103, 154, 118, 42, 190, 4, 195, 170, 68, 19, 38, 73, 134, 6, 153, 156,
    66, 80, 244, 145, 239, 152, 122, 51, 84, 11, 67, 237, 207, 172, 98, 228,
    179, 28, 169, 201, 8, 232, 149, 128, 223, 148, 250, 117, 143, 63, 166, 71,
    7, 167, 252, 243, 115, 23, 186, 131, 89, 60, 25, 230, 133, 79, 168, 104,
    107, 129, 178, 113, 100, 218, 139, 248, 235, 15, 75, 112, 86, 157, 53, 30,
    36, 14, 94, 99, 88, 209, 162, 37, 34, 124, 59, 1, 33, 120, 135, 212, 0, 70,
    87, 159, 211, 39, 82, 76, 54, 2, 231, 160, 196, 200, 158, 234, 191, 138,
    210, 64, 199, 56, 181, 163, 247, 242, 206, 249, 97, 21, 161, 224, 174, 93,
    164, 155, 52, 26, 85, 173, 147, 50, 48, 245, 140, 177, 227, 29, 246, 226,
    46, 130, 102, 202, 96, 192, 41, 35, 171, 13, 83, 78, 111, 213, 219, 55, 69,
    222, 253, 142, 47, 3, 255, 106, 114, 109, 108, 91, 81, 141, 27, 175, 146,
    187, 221, 188, 127, 17, 217, 92, 65, 31, 16, 90, 216, 10, 193, 49, 136,
    165, 205, 123, 189, 45, 116, 208, 18, 184, 229, 180, 176, 137, 105, 151,
    74, 12, 150, 119, 126, 101, 185, 241, 9, 197, 110, 198, 132, 24, 240, 125,
    236, 58, 220, 77, 32, 121, 238, 95, 62, 215, 203, 57, 72>>

CK == <<
    0, 14, 9, 0, 4, 1, 2, 4, 8, 3, 6, 1, 12, 5, 2, 7, 10, 8, 15, 9, 11, 14, 3,
    15, 7, 0, 9, 6, 13, 11, 5, 4>>

FK == <<<<163, 177, 186, 198>>, <<86, 170, 51, 80>>,
        <<103, 125, 145, 151>>, <<178, 112, 34, 220>>>>

-----------------------------------------------------------------------------
XorWord(v, w) == <<XorByte(v[1], w[1]), XorByte(v[2], w[2]),
                   XorByte(v[3], w[3]), XorByte(v[4], w[4])>>

(***************************************************************************)
(* rotl32 by a number of bytes and then of bits, given by their weight: a  *)
(* rotation by 10 is one byte and the weight 4.                            *)
(***************************************************************************)
Rotl(word, bytes, weight) ==
    LET byte(i) == word[((i - 1 + bytes) % 4) + 1]
        shifted(i) == ((byte(i) * weight) % 256)
                        + (byte(i + 1) \div (256 \div weight))
    IN  <<shifted(1), shifted(2), shifted(3), shifted(4)>>

Tau(word) == <<SBox[word[1] + 1], SBox[word[2] + 1],
               SBox[word[3] + 1], SBox[word[4] + 1]>>

LTransform(word) ==  \* rotations by 2, 10, 18 and 24
    LET b == Tau(word)
    IN  XorWord(XorWord(XorWord(b, Rotl(b, 0, 4)),
                        XorWord(Rotl(b, 1, 4), Rotl(b, 2, 4))),
                Rotl(b, 3, 1))

Feistel(word) ==  \* rotations by 13 and 23
    LET t == Tau(word)
    IN  XorWord(t, XorWord(Rotl(t, 1, 32), Rotl(t, 2, 128)))

Block == {b \in Seq(Byte) : Len(b) = 16}

Words(bytes) == <<SubSeq(bytes, 1, 4), SubSeq(bytes, 5, 8),
                  SubSeq(bytes, 9, 12), SubSeq(bytes, 13, 16)>>

(***************************************************************************)
(* key_expansion: the last four words and the round keys so far.           *)
(***************************************************************************)
Mix(x, word) == XorWord(XorWord(x[2], x[3]), XorWord(x[4], word))

ExpandKey(k, i) ==
    LET w == k.words
        next == XorWord(w[1], LTransform(Mix(w, <<0, 0, 0, CK[i]>>)))
    IN  [words |-> <<w[2], w[3], w[4], next>>, keys |-> Append(k.keys, next)]

RoundKeys(key) ==
    LET w == Words(key)
        start == [words |-> <<XorWord(w[1], FK[1]), XorWord(w[2], FK[2]),
                              XorWord(w[3], FK[3]), XorWord(w[4], FK[4])>>,
                  keys |-> <<>>]
    IN  FoldLeft(ExpandKey, start, [i \in 1 .. 32 |-> i]).keys

Round(x, roundKey) ==
    <<x[2], x[3], x[4], XorWord(x[1], Feistel(Mix(x, roundKey)))>>

Rounds(block, roundKeys) ==
    LET x == FoldLeft(Round, Words(block), roundKeys)
    IN  x[4] \o x[3] \o x[2] \o x[1]

EncryptBlock(roundKeys, block) == Rounds(block, roundKeys)

SameOrder(roundKeys, block) ==  \* mutation: the keys are not reversed
    Rounds(block, roundKeys)

DecryptBlock(roundKeys, block) == Rounds(block, Reverse(roundKeys))

-----------------------------------------------------------------------------
(***************************************************************************)
(* Counter mode: the counter starts as the nonce, which has at most 16     *)
(* bytes, filled up with zeros, and its last four bytes count.             *)
(***************************************************************************)
FirstCounter(nonce) ==
    [i \in 1 .. 16 |-> IF i <= Len(nonce) THEN nonce[i] ELSE 0]

IncrementLastByte(counter) ==  \* mutation: the carry is lost
    [counter EXCEPT ![16] = (@ + 1) % 256]

Increment(counter) ==
    SubSeq(counter, 1, 12)
      \o [i \in 1 .. 4 |->
            IF \A j \in 13 + i .. 16 : counter[j] = 255
            THEN (counter[12 + i] + 1) % 256 ELSE counter[12 + i]]

(***************************************************************************)
(* The counters of a text's blocks, and the stream they are encrypted to.  *)
(***************************************************************************)
BlocksOf(text) == (Len(text) + 15) \div 16

Counters(nonce, n) ==
    LET counter[i \in Nat] == IF i = 0 THEN FirstCounter(nonce)
                              ELSE Increment(counter[i - 1])
    IN  [i \in 1 .. n |-> counter[i - 1]]

Keystream(roundKeys, nonce, n) ==
    LET counters == Counters(nonce, n)
    IN  FlattenSeq([i \in 1 .. n |-> EncryptBlock(roundKeys, counters[i])])

CounterMode(roundKeys, nonce, text) ==
    LET stream == Keystream(roundKeys, nonce, BlocksOf(text))
    IN  <<>> \o [i \in DOMAIN text |-> XorByte(text[i], stream[i])]

(***************************************************************************)
(* The tag: a byte of the text goes to the place of its index, a byte of   *)
(* the additional data to the place of its value, modulo the length, which *)
(* is at least one.                                                        *)
(***************************************************************************)
XorAll(bytes) == FoldLeft(XorByte, 0, bytes)

Tag(text, aad, length) ==
    LET textAt(i, j) == IF (i - 1) % length = j - 1 THEN text[i] ELSE 0
        aadAt(i, j) == IF aad[i] % length = j - 1 THEN aad[i] ELSE 0
    IN  [j \in 1 .. length |->
            XorAll([i \in DOMAIN text |-> textAt(i, j)]
                     \o [i \in DOMAIN aad |-> aadAt(i, j)])]

GcmEncrypt(roundKeys, nonce, aad, text, length) ==
    CounterMode(roundKeys, nonce, text) \o Tag(text, aad, length)

AnyTag(text, aad, tag) == TRUE  \* mutation: the tag is not compared

TagMatches(text, aad, tag) == Tag(text, aad, Len(tag)) = tag

GcmDecrypt(roundKeys, nonce, aad, data, length) ==
    LET n == Len(data) - length
        text == CounterMode(roundKeys, nonce, SubSeq(data, 1, n))
    IN  IF Len(data) < length THEN Error("DecryptionError")
        ELSE IF ~TagMatches(text, aad, SubSeq(data, n + 1, Len(data)))
        THEN Error("DecryptionError")
        ELSE Got(text, Len(data))
=============================================================================
