--------------------------- MODULE HdlcLink_proofs ---------------------------
(***************************************************************************)
(* Proofs about HdlcLink, for any frames of any length: the types, that a  *)
(* frame is decoded to what was written, and that the CRC tells contents   *)
(* apart that differ in one byte.                                          *)
(***************************************************************************)
EXTENDS HdlcLink, Octets_proofs

-----------------------------------------------------------------------------
(***************************************************************************)
(* The CRC.  One shift: the highest bit of the result is the lowest of the *)
(* register, so registers whose shifts agree above a weight agree above    *)
(* twice that weight and in their lowest bit (ShiftBack); and registers    *)
(* that agree in their lowest bit and above a weight have shifts that agree*)
(* above half of it (ShiftOn).                                             *)
(***************************************************************************)
Splits(u, weight, q, r) ==
    q \in Nat /\ r \in Nat /\ r < weight /\ u = weight * q + r

BitsOf(u, q, a, n, b, m, c) ==
    /\ q \in 0 .. 15 /\ n \in 0 .. 63 /\ m \in 0 .. 7
    /\ a \in 0 .. 1 /\ b \in 0 .. 1 /\ c \in 0 .. 1
    /\ u = 4096 * q + 2048 * a + 32 * n + 16 * b + 2 * m + c

LEMMA WordBits ==
    ASSUME NEW u \in Word
    PROVE  \E q, a, n, b, m, c : BitsOf(u, q, a, n, b, m, c)
<1>1. PICK q, r : Splits(u, 4096, q, r)
    <2>1. Splits(u, 4096, u \div 4096, u % 4096) BY SMT DEF Splits, Word
    <2> QED BY <2>1, SMT
<1>2. PICK a, s : Splits(r, 2048, a, s)
    <2>1. r \in Nat BY <1>1, SMT DEF Splits
    <2>2. Splits(r, 2048, r \div 2048, r % 2048) BY <2>1, SMT DEF Splits
    <2> QED BY <2>2, SMT
<1>3. PICK n, t : Splits(s, 32, n, t)
    <2>1. s \in Nat BY <1>2, SMT DEF Splits
    <2>2. Splits(s, 32, s \div 32, s % 32) BY <2>1, SMT DEF Splits
    <2> QED BY <2>2, SMT
<1>4. PICK b, v : Splits(t, 16, b, v)
    <2>1. t \in Nat BY <1>3, SMT DEF Splits
    <2>2. Splits(t, 16, t \div 16, t % 16) BY <2>1, SMT DEF Splits
    <2> QED BY <2>2, SMT
<1>5. PICK m, c : Splits(v, 2, m, c)
    <2>1. v \in Nat BY <1>4, SMT DEF Splits
    <2>2. Splits(v, 2, v \div 2, v % 2) BY <2>1, SMT DEF Splits
    <2> QED BY <2>2, SMT
<1>6. BitsOf(u, q, a, n, b, m, c)
    BY <1>1, <1>2, <1>3, <1>4, <1>5, SMT DEF Splits, BitsOf, Word
<1> QED BY <1>6, SMT

(***************************************************************************)
(* What one shift does to a register.                                      *)
(***************************************************************************)
Shifted(u, w) ==
    /\ w \in Word
    /\ \/ u % 2 = 0 /\ w = u \div 2
       \/ /\ u % 2 = 1
          /\ w = u \div 2 + 32768 + (1024 - 2048 * ((u \div 2048) % 2))
                    + (8 - 16 * ((u \div 16) % 2))

LEMMA ShiftCases ==
    ASSUME NEW u \in Word
    PROVE  Shift[u] = IF u % 2 = 1
                      THEN u \div 2 + 32768 + Flip(u \div 2, 1024) + Flip(u \div 2, 8)
                      ELSE u \div 2
BY SMT DEF Shift

LEMMA ShiftShape ==
    ASSUME NEW u \in Word
    PROVE  Shifted(u, Shift[u])
<1>1. PICK q, a, n, b, m, c : BitsOf(u, q, a, n, b, m, c)
    BY WordBits, SMT
<1> DEFINE half == u \div 2
<1>0. /\ q \in 0 .. 15 /\ n \in 0 .. 63 /\ m \in 0 .. 7
      /\ a \in 0 .. 1 /\ b \in 0 .. 1 /\ c \in 0 .. 1 /\ u \in Nat
    BY <1>1, SMT DEF BitsOf, Word
<1>2. half = 2048 * q + 1024 * a + 16 * n + 8 * b + m /\ u % 2 = c
    BY <1>1, SMT DEF BitsOf
<1>3. (u \div 2048) % 2 = a
    <2>1. u \div 2048 = 2 * q + a BY <1>1, SMT DEF BitsOf
    <2> QED BY <1>0, <2>1, SMT
<1>4. (u \div 16) % 2 = b
    <2>1. u \div 16 = 256 * q + 128 * a + 2 * n + b BY <1>1, SMT DEF BitsOf
    <2> QED BY <1>0, <2>1, SMT
<1>5. Shift[u] = IF u % 2 = 1
                 THEN half + 32768 + Flip(half, 1024) + Flip(half, 8)
                 ELSE half
    BY <1>0, ShiftCases, SMT
<1>6. half \in Nat BY <1>0, SMT
<1> HIDE DEF half
<1>8. Flip(half, 1024) = 1024 - 2048 * a
    <2>1. half \div 1024 = 2 * q + a BY <1>0, <1>2, SMT
    <2>2. (half \div 1024) % 2 = a BY <1>0, <2>1, SMT
    <2> QED BY <1>0, <1>6, <2>2, SMT DEF Flip
<1>9. Flip(half, 8) = 8 - 16 * b
    <2>1. half \div 8 = 256 * q + 128 * a + 2 * n + b BY <1>0, <1>2, SMT
    <2>2. (half \div 8) % 2 = b BY <1>0, <2>1, SMT
    <2> QED BY <1>0, <1>6, <2>2, SMT DEF Flip
<1>10. CASE c = 1
    <2>1. Shift[u] = half + 32768 + (1024 - 2048 * a) + (8 - 16 * b)
        BY <1>2, <1>5, <1>8, <1>9, <1>10, SMT
    <2>2. Shift[u] \in Word BY <1>0, <1>2, <2>1, SMT DEF Word
    <2> QED BY <1>2, <1>3, <1>4, <1>10, <2>1, <2>2, SMT DEF half, Shifted
<1>11. CASE c = 0
    <2>1. Shift[u] = half BY <1>2, <1>5, <1>11, SMT
    <2>2. half \in Word BY <1>0, <1>2, SMT DEF Word
    <2> QED BY <1>2, <1>11, <2>1, <2>2, SMT DEF half, Shifted
<1> QED BY <1>0, <1>10, <1>11, SMT

SameParity(u, v) == u % 2 = v % 2
Agree(u, v, weight) == u \div weight = v \div weight

LEMMA ShiftBack ==
    ASSUME NEW u \in Nat, NEW v \in Nat, NEW x \in Nat, NEW y \in Nat,
           u < 65536, v < 65536, Shifted(u, x), Shifted(v, y)
    PROVE  /\ Agree(x, y, 256) => Agree(u, v, 512) /\ u % 2 = v % 2
           /\ Agree(x, y, 512) => Agree(u, v, 1024) /\ u % 2 = v % 2
           /\ Agree(x, y, 1024) => Agree(u, v, 2048) /\ u % 2 = v % 2
           /\ Agree(x, y, 2048) => Agree(u, v, 4096) /\ u % 2 = v % 2
           /\ Agree(x, y, 4096) => Agree(u, v, 8192) /\ u % 2 = v % 2
           /\ Agree(x, y, 8192) => Agree(u, v, 16384) /\ u % 2 = v % 2
           /\ Agree(x, y, 16384) => Agree(u, v, 32768) /\ u % 2 = v % 2
           /\ Agree(x, y, 32768) => Agree(u, v, 65536) /\ u % 2 = v % 2
<1>1. Agree(x, y, 256) => Agree(u, v, 512) /\ u % 2 = v % 2
    <2> SUFFICES ASSUME Agree(x, y, 256) PROVE Agree(u, v, 512) /\ u % 2 = v % 2
        OBVIOUS
    <2>1. u % 2 = v % 2 BY SMT DEF Shifted, Agree
    <2>2. (u \div 2048) % 2 = (v \div 2048) % 2 BY <2>1, SMT DEF Shifted, Agree
    <2>3. CASE u % 2 = 0 BY <2>1, <2>3, SMT DEF Shifted, Agree
    <2>4. CASE u % 2 = 1 BY <2>1, <2>2, <2>4, SMTT(30) DEF Shifted, Agree
    <2> QED BY <2>1, <2>3, <2>4, SMT
<1>2. Agree(x, y, 512) => Agree(u, v, 1024) /\ u % 2 = v % 2
    <2> SUFFICES ASSUME Agree(x, y, 512) PROVE Agree(u, v, 1024) /\ u % 2 = v % 2
        OBVIOUS
    <2>1. u % 2 = v % 2 BY SMT DEF Shifted, Agree
    <2>2. (u \div 2048) % 2 = (v \div 2048) % 2 BY <2>1, SMT DEF Shifted, Agree
    <2>3. CASE u % 2 = 0 BY <2>1, <2>3, SMT DEF Shifted, Agree
    <2>4. CASE u % 2 = 1 BY <2>1, <2>2, <2>4, SMTT(30) DEF Shifted, Agree
    <2> QED BY <2>1, <2>3, <2>4, SMT
<1>3. Agree(x, y, 1024) => Agree(u, v, 2048) /\ u % 2 = v % 2
    <2> SUFFICES ASSUME Agree(x, y, 1024) PROVE Agree(u, v, 2048) /\ u % 2 = v % 2
        OBVIOUS
    <2>1. u % 2 = v % 2 BY SMT DEF Shifted, Agree
    <2>2. (u \div 2048) % 2 = (v \div 2048) % 2 BY <2>1, SMT DEF Shifted, Agree
    <2>3. CASE u % 2 = 0 BY <2>1, <2>3, SMT DEF Shifted, Agree
    <2>4. CASE u % 2 = 1 BY <2>1, <2>2, <2>4, SMTT(30) DEF Shifted, Agree
    <2> QED BY <2>1, <2>3, <2>4, SMT
<1>4. Agree(x, y, 2048) => Agree(u, v, 4096) /\ u % 2 = v % 2
    <2> SUFFICES ASSUME Agree(x, y, 2048) PROVE Agree(u, v, 4096) /\ u % 2 = v % 2
        OBVIOUS
    <2>1. u % 2 = v % 2 BY SMT DEF Shifted, Agree
    <2>2. Agree(u, v, 4096) BY <2>1, SMTT(30) DEF Shifted, Agree
    <2> QED BY <2>1, <2>2
<1>5. Agree(x, y, 4096) => Agree(u, v, 8192) /\ u % 2 = v % 2
    <2> SUFFICES ASSUME Agree(x, y, 4096) PROVE Agree(u, v, 8192) /\ u % 2 = v % 2
        OBVIOUS
    <2>1. u % 2 = v % 2 BY SMT DEF Shifted, Agree
    <2>2. Agree(u, v, 8192) BY <2>1, SMTT(30) DEF Shifted, Agree
    <2> QED BY <2>1, <2>2
<1>6. Agree(x, y, 8192) => Agree(u, v, 16384) /\ u % 2 = v % 2
    <2> SUFFICES ASSUME Agree(x, y, 8192) PROVE Agree(u, v, 16384) /\ u % 2 = v % 2
        OBVIOUS
    <2>1. u % 2 = v % 2 BY SMT DEF Shifted, Agree
    <2>2. Agree(u, v, 16384) BY <2>1, SMTT(30) DEF Shifted, Agree
    <2> QED BY <2>1, <2>2
<1>7. Agree(x, y, 16384) => Agree(u, v, 32768) /\ u % 2 = v % 2
    <2> SUFFICES ASSUME Agree(x, y, 16384) PROVE Agree(u, v, 32768) /\ u % 2 = v % 2
        OBVIOUS
    <2>1. u % 2 = v % 2 BY SMT DEF Shifted, Agree
    <2>2. Agree(u, v, 32768) BY <2>1, SMTT(30) DEF Shifted, Agree
    <2> QED BY <2>1, <2>2
<1>8. Agree(x, y, 32768) => Agree(u, v, 65536) /\ u % 2 = v % 2
    <2> SUFFICES ASSUME Agree(x, y, 32768) PROVE Agree(u, v, 65536) /\ u % 2 = v % 2
        OBVIOUS
    <2>1. u % 2 = v % 2 BY SMT DEF Shifted, Agree
    <2>2. Agree(u, v, 65536) BY <2>1, SMTT(30) DEF Shifted, Agree
    <2> QED BY <2>1, <2>2
<1> QED BY <1>1, <1>2, <1>3, <1>4, <1>5, <1>6, <1>7, <1>8

LEMMA ShiftOn ==
    ASSUME NEW u \in Nat, NEW v \in Nat, NEW x \in Nat, NEW y \in Nat,
           u < 65536, v < 65536, Shifted(u, x), Shifted(v, y), SameParity(u, v)
    PROVE  /\ Agree(u, v, 256) => Agree(x, y, 128)
           /\ Agree(u, v, 128) => Agree(x, y, 64)
           /\ Agree(u, v, 64) => Agree(x, y, 32)
           /\ Agree(u, v, 32) => Agree(x, y, 16)
           /\ Agree(u, v, 16) => Agree(x, y, 8)
           /\ Agree(u, v, 8) => Agree(x, y, 4)
           /\ Agree(u, v, 4) => Agree(x, y, 2)
           /\ Agree(u, v, 2) => Agree(x, y, 1)
<1>1. Agree(u, v, 256) => Agree(x, y, 128) BY SMT DEF Shifted, Agree, SameParity
<1>2. Agree(u, v, 128) => Agree(x, y, 64) BY SMT DEF Shifted, Agree, SameParity
<1>3. Agree(u, v, 64) => Agree(x, y, 32) BY SMT DEF Shifted, Agree, SameParity
<1>4. Agree(u, v, 32) => Agree(x, y, 16) BY SMT DEF Shifted, Agree, SameParity
<1>5. Agree(u, v, 16) => Agree(x, y, 8)
    <2> SUFFICES ASSUME Agree(u, v, 16) PROVE Agree(x, y, 8)
        OBVIOUS
    <2>1. u \div 16 = v \div 16 BY SMT DEF Agree
    <2>2. u \div 2048 = v \div 2048 BY <2>1, SMT
    <2>3. (u \div 2) \div 8 = (v \div 2) \div 8 BY SMT DEF Agree
    <2>4. u % 2 = v % 2 BY DEF SameParity
    <2> QED BY <2>1, <2>2, <2>3, <2>4, SMT DEF Shifted, Agree
<1>6. Agree(u, v, 8) => Agree(x, y, 4)
    <2> SUFFICES ASSUME Agree(u, v, 8) PROVE Agree(x, y, 4)
        OBVIOUS
    <2>1. u \div 16 = v \div 16 BY SMT DEF Agree
    <2>2. u \div 2048 = v \div 2048 BY <2>1, SMT
    <2>3. (u \div 2) \div 4 = (v \div 2) \div 4 BY SMT DEF Agree
    <2>4. u % 2 = v % 2 BY DEF SameParity
    <2> QED BY <2>1, <2>2, <2>3, <2>4, SMT DEF Shifted, Agree
<1>7. Agree(u, v, 4) => Agree(x, y, 2)
    <2> SUFFICES ASSUME Agree(u, v, 4) PROVE Agree(x, y, 2)
        OBVIOUS
    <2>1. u \div 16 = v \div 16 BY SMT DEF Agree
    <2>2. u \div 2048 = v \div 2048 BY <2>1, SMT
    <2>3. (u \div 2) \div 2 = (v \div 2) \div 2 BY SMT DEF Agree
    <2>4. u % 2 = v % 2 BY DEF SameParity
    <2> QED BY <2>1, <2>2, <2>3, <2>4, SMT DEF Shifted, Agree
<1>8. Agree(u, v, 2) => Agree(x, y, 1)
    <2> SUFFICES ASSUME Agree(u, v, 2) PROVE Agree(x, y, 1)
        OBVIOUS
    <2>1. u \div 16 = v \div 16 BY SMT DEF Agree
    <2>2. u \div 2048 = v \div 2048 BY <2>1, SMT
    <2>3. (u \div 2) \div 1 = (v \div 2) \div 1 BY SMT DEF Agree
    <2>4. u % 2 = v % 2 BY DEF SameParity
    <2> QED BY <2>1, <2>2, <2>3, <2>4, SMT DEF Shifted, Agree
<1> QED BY <1>1, <1>2, <1>3, <1>4, <1>5, <1>6, <1>7, <1>8

(***************************************************************************)
(* The high bytes of the table's entries are all different.                *)
(***************************************************************************)
InWord(n) == n \in Nat /\ n < 65536

LEMMA ShiftSteps ==
    ASSUME NEW n, InWord(n)
    PROVE  InWord(Shift[n]) /\ Shifted(n, Shift[n])
<1>1. n \in Word BY SMT DEF InWord, Word
<1>2. Shifted(n, Shift[n]) BY <1>1, ShiftShape
<1>3. Shift[n] \in Word BY <1>2 DEF Shifted
<1>4. InWord(Shift[n]) BY <1>3, SMT DEF InWord, Word
<1> QED BY <1>2, <1>4

(***************************************************************************)
(* The same of two registers and what they are shifted to, unfolded no more*)
(* than the chain of eight shifts needs.                                   *)
(***************************************************************************)
Both(u, v, x, y) ==
    InWord(u) /\ InWord(v) /\ InWord(x) /\ InWord(y) /\ Shifted(u, x) /\ Shifted(v, y)

LEMMA BothBack ==
    ASSUME NEW u, NEW v, NEW x, NEW y, Both(u, v, x, y)
    PROVE  /\ Agree(x, y, 256) => Agree(u, v, 512) /\ SameParity(u, v)
           /\ Agree(x, y, 512) => Agree(u, v, 1024) /\ SameParity(u, v)
           /\ Agree(x, y, 1024) => Agree(u, v, 2048) /\ SameParity(u, v)
           /\ Agree(x, y, 2048) => Agree(u, v, 4096) /\ SameParity(u, v)
           /\ Agree(x, y, 4096) => Agree(u, v, 8192) /\ SameParity(u, v)
           /\ Agree(x, y, 8192) => Agree(u, v, 16384) /\ SameParity(u, v)
           /\ Agree(x, y, 16384) => Agree(u, v, 32768) /\ SameParity(u, v)
           /\ Agree(x, y, 32768) => Agree(u, v, 65536) /\ SameParity(u, v)
<1>1. /\ u \in Nat /\ v \in Nat /\ x \in Nat /\ y \in Nat
      /\ u < 65536 /\ v < 65536 /\ Shifted(u, x) /\ Shifted(v, y)
    BY SMT DEF Both, InWord
<1> QED BY <1>1, ShiftBack, SMT DEF SameParity

LEMMA BothOn ==
    ASSUME NEW u, NEW v, NEW x, NEW y, Both(u, v, x, y), SameParity(u, v)
    PROVE  /\ Agree(u, v, 256) => Agree(x, y, 128)
           /\ Agree(u, v, 128) => Agree(x, y, 64)
           /\ Agree(u, v, 64) => Agree(x, y, 32)
           /\ Agree(u, v, 32) => Agree(x, y, 16)
           /\ Agree(u, v, 16) => Agree(x, y, 8)
           /\ Agree(u, v, 8) => Agree(x, y, 4)
           /\ Agree(u, v, 4) => Agree(x, y, 2)
           /\ Agree(u, v, 2) => Agree(x, y, 1)
<1>1. /\ u \in Nat /\ v \in Nat /\ x \in Nat /\ y \in Nat
      /\ u < 65536 /\ v < 65536 /\ Shifted(u, x) /\ Shifted(v, y)
    BY SMT DEF Both, InWord
<1> QED BY <1>1, ShiftOn, SMT

LEMMA BothEqual ==
    ASSUME NEW u, NEW v, NEW x, Both(u, v, x, x)
    PROVE  u = v
<1>1. Agree(x, x, 32768) BY DEF Agree
<1>2. SameParity(u, v) BY <1>1, BothBack
<1>3. u \in Nat /\ v \in Nat /\ Shifted(u, x) /\ Shifted(v, x)
    BY SMT DEF Both, InWord
<1>4. u \div 2 = v \div 2 BY <1>2, <1>3, SMT DEF Shifted, SameParity
<1> QED BY <1>2, <1>3, <1>4, SMT DEF SameParity

Shifts(x, x1, x2, x3, x4, x5, x6, x7, x8) ==
    /\ InWord(x) /\ InWord(x1) /\ InWord(x2) /\ InWord(x3) /\ InWord(x4)
    /\ InWord(x5) /\ InWord(x6) /\ InWord(x7) /\ InWord(x8)
    /\ Shifted(x, x1) /\ Shifted(x1, x2) /\ Shifted(x2, x3) /\ Shifted(x3, x4)
    /\ Shifted(x4, x5) /\ Shifted(x5, x6) /\ Shifted(x6, x7) /\ Shifted(x7, x8)

LEMMA TableShifts ==
    ASSUME NEW x \in Byte
    PROVE  \E x1, x2, x3, x4, x5, x6, x7 : Shifts(x, x1, x2, x3, x4, x5, x6, x7, Table[x])
<1> DEFINE x1 == Shift[x]
           x2 == Shift[x1]
           x3 == Shift[x2]
           x4 == Shift[x3]
           x5 == Shift[x4]
           x6 == Shift[x5]
           x7 == Shift[x6]
           x8 == Shift[x7]
<1>1. Table[x] = x8 BY Zenon DEF Table
<1>2. InWord(x) BY SMT DEF Byte, InWord
<1> HIDE DEF x1, x2, x3, x4, x5, x6, x7, x8
<1>3. InWord(x1) /\ Shifted(x, x1) BY <1>2, ShiftSteps DEF x1
<1>4. InWord(x2) /\ Shifted(x1, x2) BY <1>3, ShiftSteps DEF x2
<1>5. InWord(x3) /\ Shifted(x2, x3) BY <1>4, ShiftSteps DEF x3
<1>6. InWord(x4) /\ Shifted(x3, x4) BY <1>5, ShiftSteps DEF x4
<1>7. InWord(x5) /\ Shifted(x4, x5) BY <1>6, ShiftSteps DEF x5
<1>8. InWord(x6) /\ Shifted(x5, x6) BY <1>7, ShiftSteps DEF x6
<1>9. InWord(x7) /\ Shifted(x6, x7) BY <1>8, ShiftSteps DEF x7
<1>10. InWord(x8) /\ Shifted(x7, x8) BY <1>9, ShiftSteps DEF x8
<1>11. Shifts(x, x1, x2, x3, x4, x5, x6, x7, x8)
    BY <1>2, <1>3, <1>4, <1>5, <1>6, <1>7, <1>8, <1>9, <1>10 DEF Shifts
<1> QED BY <1>1, <1>11

LEMMA TableType ==
    ASSUME NEW x \in Byte
    PROVE  Table[x] \in Word
<1>1. InWord(Table[x]) BY TableShifts DEF Shifts
<1> QED BY <1>1, SMT DEF InWord, Word

LEMMA TableInjective ==
    ASSUME NEW x \in Byte, NEW y \in Byte, HighByte(Table[x]) = HighByte(Table[y])
    PROVE  x = y
<1> DEFINE x8 == Table[x]
           y8 == Table[y]
<1>1. PICK x1, x2, x3, x4, x5, x6, x7 : Shifts(x, x1, x2, x3, x4, x5, x6, x7, x8)
    BY TableShifts
<1>2. PICK y1, y2, y3, y4, y5, y6, y7 : Shifts(y, y1, y2, y3, y4, y5, y6, y7, y8)
    BY TableShifts
<1> HIDE DEF x8, y8
<1>3. /\ Both(x, y, x1, y1) /\ Both(x1, y1, x2, y2) /\ Both(x2, y2, x3, y3)
      /\ Both(x3, y3, x4, y4) /\ Both(x4, y4, x5, y5) /\ Both(x5, y5, x6, y6)
      /\ Both(x6, y6, x7, y7) /\ Both(x7, y7, x8, y8)
    BY <1>1, <1>2 DEF Shifts, Both
<1>4. Agree(x8, y8, 256)
    <2>1. InWord(x8) /\ InWord(y8) BY <1>3 DEF Both
    <2>2. HighByte(x8) = HighByte(y8) BY DEF x8, y8
    <2> QED BY <2>1, <2>2, SMT DEF HighByte, InWord, Agree
<1>5. Agree(x7, y7, 512) /\ SameParity(x7, y7) BY <1>3, <1>4, BothBack, SMT
<1>6. Agree(x6, y6, 1024) /\ SameParity(x6, y6) BY <1>3, <1>5, BothBack, SMT
<1>7. Agree(x5, y5, 2048) /\ SameParity(x5, y5) BY <1>3, <1>6, BothBack, SMT
<1>8. Agree(x4, y4, 4096) /\ SameParity(x4, y4) BY <1>3, <1>7, BothBack, SMT
<1>9. Agree(x3, y3, 8192) /\ SameParity(x3, y3) BY <1>3, <1>8, BothBack, SMT
<1>10. Agree(x2, y2, 16384) /\ SameParity(x2, y2) BY <1>3, <1>9, BothBack, SMT
<1>11. Agree(x1, y1, 32768) /\ SameParity(x1, y1) BY <1>3, <1>10, BothBack, SMT
<1>12. Agree(x, y, 65536) /\ SameParity(x, y) BY <1>3, <1>11, BothBack, SMT
<1>13. Agree(x, y, 256) BY SMT DEF Agree, Byte
<1>14. Agree(x1, y1, 128) BY <1>3, <1>12, <1>13, BothOn, SMT
<1>15. Agree(x2, y2, 64) BY <1>3, <1>11, <1>14, BothOn, SMT
<1>16. Agree(x3, y3, 32) BY <1>3, <1>10, <1>15, BothOn, SMT
<1>17. Agree(x4, y4, 16) BY <1>3, <1>9, <1>16, BothOn, SMT
<1>18. Agree(x5, y5, 8) BY <1>3, <1>8, <1>17, BothOn, SMT
<1>19. Agree(x6, y6, 4) BY <1>3, <1>7, <1>18, BothOn, SMT
<1>20. Agree(x7, y7, 2) BY <1>3, <1>6, <1>19, BothOn, SMT
<1>21. x7 = y7
    <2>1. InWord(x7) /\ InWord(y7) BY <1>3 DEF Both
    <2> QED BY <1>5, <1>20, <2>1, SMT DEF Agree, InWord, SameParity
<1>22. x6 = y6 BY <1>3, <1>21, BothEqual, SMT
<1>23. x5 = y5 BY <1>3, <1>22, BothEqual, SMT
<1>24. x4 = y4 BY <1>3, <1>23, BothEqual, SMT
<1>25. x3 = y3 BY <1>3, <1>24, BothEqual, SMT
<1>26. x2 = y2 BY <1>3, <1>25, BothEqual, SMT
<1>27. x1 = y1 BY <1>3, <1>26, BothEqual, SMT
<1> QED BY <1>3, <1>27, BothEqual, SMT

LEMMA WordBytes ==
    ASSUME NEW w \in Word
    PROVE  /\ LowByte(w) \in Byte /\ HighByte(w) \in Byte
           /\ w = 256 * HighByte(w) + LowByte(w)
<1>1. w \in Nat /\ w < 65536 BY SMT DEF Word
<1>2. LowByte(w) \in Byte BY <1>1, SMT DEF LowByte, Byte
<1>3. HighByte(w) \in Byte BY <1>1, SMT DEF HighByte, Byte
<1>4. w = 256 * HighByte(w) + LowByte(w) BY <1>1, SMT DEF HighByte, LowByte
<1> QED BY <1>2, <1>3, <1>4

(***************************************************************************)
(* The register after one byte: registers that differ stay different, and  *)
(* bytes that differ make them different.                                  *)
(***************************************************************************)
LEMMA CrcOfByteParts ==
    ASSUME NEW r \in Word, NEW b \in Byte
    PROVE  LET e == Table[XorByte(LowByte(r), b)]
           IN  /\ LowByte(r) \in Byte /\ HighByte(r) \in Byte
               /\ r = 256 * HighByte(r) + LowByte(r)
               /\ XorByte(LowByte(r), b) \in Byte
               /\ e \in Word /\ LowByte(e) \in Byte /\ HighByte(e) \in Byte
               /\ CrcOfByte(r, b) \in Word
               /\ HighByte(CrcOfByte(r, b)) = HighByte(e)
               /\ LowByte(CrcOfByte(r, b)) = XorByte(HighByte(r), LowByte(e))
<1> DEFINE e == Table[XorByte(LowByte(r), b)]
           low == XorByte(HighByte(r), LowByte(e))
<1>1. \A w \in Word : /\ LowByte(w) \in Byte /\ HighByte(w) \in Byte
                      /\ w = 256 * HighByte(w) + LowByte(w)
    BY WordBytes
<1>2. XorByte(LowByte(r), b) \in Byte BY <1>1, XorUndoes
<1>3. e \in Word BY <1>2, TableType
<1> HIDE DEF e
<1>4. low \in Byte BY <1>1, <1>3, XorUndoes
<1>5. CrcOfByte(r, b) = 256 * HighByte(e) + low BY DEF CrcOfByte, e
<1> HIDE DEF low
<1>6. \A h, l \in Byte : /\ 256 * h + l \in Word
                         /\ HighByte(256 * h + l) = h /\ LowByte(256 * h + l) = l
    BY DEF Word, LowByte, HighByte, Byte
<1>7. HighByte(e) \in Byte /\ LowByte(e) \in Byte BY <1>1, <1>3
<1>8. /\ CrcOfByte(r, b) \in Word
      /\ HighByte(CrcOfByte(r, b)) = HighByte(e)
      /\ LowByte(CrcOfByte(r, b)) = low
    BY <1>4, <1>5, <1>6, <1>7
<1> QED BY <1>1, <1>2, <1>3, <1>7, <1>8 DEF e, low

LEMMA CrcOfByteInjective ==
    ASSUME NEW r \in Word, NEW q \in Word, NEW b \in Byte, NEW c \in Byte,
           CrcOfByte(r, b) = CrcOfByte(q, c), r = q \/ b = c
    PROVE  r = q /\ b = c
<1> DEFINE x == XorByte(LowByte(r), b)
           y == XorByte(LowByte(q), c)
<1>1. /\ LowByte(r) \in Byte /\ HighByte(r) \in Byte
      /\ r = 256 * HighByte(r) + LowByte(r) /\ x \in Byte
      /\ Table[x] \in Word /\ LowByte(Table[x]) \in Byte
      /\ HighByte(CrcOfByte(r, b)) = HighByte(Table[x])
      /\ LowByte(CrcOfByte(r, b)) = XorByte(HighByte(r), LowByte(Table[x]))
    BY CrcOfByteParts
<1>2. /\ LowByte(q) \in Byte /\ HighByte(q) \in Byte
      /\ q = 256 * HighByte(q) + LowByte(q) /\ y \in Byte
      /\ Table[y] \in Word /\ LowByte(Table[y]) \in Byte
      /\ HighByte(CrcOfByte(q, c)) = HighByte(Table[y])
      /\ LowByte(CrcOfByte(q, c)) = XorByte(HighByte(q), LowByte(Table[y]))
    BY CrcOfByteParts
<1>3. x = y
    <2> HIDE DEF x, y
    <2> QED BY <1>1, <1>2, TableInjective
<1>4. HighByte(r) = HighByte(q)
    <2> HIDE DEF x, y
    <2>1. XorByte(HighByte(r), LowByte(Table[x])) = XorByte(HighByte(q), LowByte(Table[x]))
        BY <1>1, <1>2, <1>3
    <2> QED BY <1>1, <1>2, <2>1, XorInjective
<1>5. XorByte(LowByte(r), b) = XorByte(LowByte(q), c) BY <1>3
<1>6. CASE r = q
    <2>1. b = c BY <1>1, <1>5, <1>6, XorInjective
    <2> QED BY <1>6, <2>1
<1>7. CASE b = c
    <2>1. LowByte(r) = LowByte(q) BY <1>1, <1>2, <1>5, <1>7, XorInjective
    <2> QED BY <1>1, <1>2, <1>4, <1>7, <2>1
<1> QED BY <1>6, <1>7

-----------------------------------------------------------------------------
(***************************************************************************)
(* The register along a sequence of bytes: a fold.                         *)
(***************************************************************************)
CrcStep == [p \in Word \X Byte |-> CrcOfByte(p[1], p[2])]

LEMMA CrcStepIs ==
    /\ CrcStep \in FoldSteps(Word, Byte)
    /\ \A r \in Word, b \in Byte : CrcStep[<<r, b>>] = CrcOfByte(r, b)
<1>1. \A r \in Word, b \in Byte : CrcOfByte(r, b) \in Word BY CrcOfByteParts
<1>2. ASSUME NEW p \in Word \X Byte PROVE CrcOfByte(p[1], p[2]) \in Word
    <2>1. p[1] \in Word /\ p[2] \in Byte OBVIOUS
    <2> QED BY <1>1, <2>1
<1>3. CrcStep \in [Word \X Byte -> Word] BY <1>2 DEF CrcStep
<1>4. \A r \in Word, b \in Byte : CrcStep[<<r, b>>] = CrcOfByte(r, b) BY DEF CrcStep
<1> QED BY <1>3, <1>4 DEF FoldSteps

LEMMA RegisterIsFold ==
    ASSUME NEW r \in Word, NEW s \in Seq(Byte)
    PROVE  Register(r, s) = Fold(CrcStep, r, s)
<1> DEFINE Eqn(it) ==
        it = [x \in SUBSET DOMAIN s |->
                IF x = {} THEN r ELSE CrcOfByte(it[x \ {Max(x)}], s[Max(x)])]
    jt == CHOOSE it : Eqn(it)
<1>1. Register(r, s) = jt[DOMAIN s]
    BY DEF Register, FoldLeft, MapThenFoldSet
<1>2. \E it : Eqn(it)
    <2>1. PICK it : /\ FoldsTo(it, CrcStep, r, s)
                    /\ \A x \in SUBSET DOMAIN s : it[x] \in Word
        BY CrcStepIs, FoldExists
    <2>2. ASSUME NEW x \in SUBSET DOMAIN s, x # {}
          PROVE  CrcStep[<<it[x \ {Max(x)}], s[Max(x)]>>]
                    = CrcOfByte(it[x \ {Max(x)}], s[Max(x)])
        <3>1. x \ {Max(x)} \in SUBSET DOMAIN s /\ s[Max(x)] \in Byte BY <2>2, PrefixSets
        <3>2. it[x \ {Max(x)}] \in Word BY <2>1, <3>1
        <3> QED BY CrcStepIs, <3>1, <3>2
    <2>3. Eqn(it) BY <2>1, <2>2 DEF FoldsTo
    <2> QED BY <2>3
<1>3. Eqn(jt) BY <1>2
<1> HIDE DEF jt
<1>4. \A x \in SUBSET DOMAIN s :
        jt[x] = IF x = {} THEN r ELSE CrcOfByte(jt[x \ {Max(x)}], s[Max(x)])
    BY <1>3
<1>5. jt[{}] = r BY <1>4
<1>6. ASSUME NEW x \in SUBSET DOMAIN s, x # {}, jt[x \ {Max(x)}] \in Word
      PROVE  jt[x] = CrcStep[<<jt[x \ {Max(x)}], s[Max(x)]>>]
    <2>1. s[Max(x)] \in Byte BY PrefixSets, <1>6
    <2> QED BY CrcStepIs, <1>4, <1>6, <2>1
<1> HIDE DEF Eqn
<1>7. Solves(jt, Word, CrcStep, r, s) BY <1>5, <1>6 DEF Solves
<1>8. jt[DOMAIN s] = Fold(CrcStep, r, s)
    BY CrcStepIs, <1>7, FoldSolution
<1> QED BY <1>1, <1>8

LEMMA RegisterAlong ==
    ASSUME NEW r \in Word, NEW s \in Seq(Byte)
    PROVE  /\ Register(r, s) \in Word
           /\ Register(r, <<>>) = r
           /\ \A b \in Byte : Register(r, Append(s, b)) = CrcOfByte(Register(r, s), b)
           /\ \A t \in Seq(Byte) : Register(r, s \o t) = Register(Register(r, s), t)
<1>1. Register(r, s) = Fold(CrcStep, r, s) BY RegisterIsFold
<1>2. Register(r, s) \in Word BY <1>1, CrcStepIs, FoldType
<1>3. Register(r, <<>>) = r
    <2>1. <<>> \in Seq(Byte) OBVIOUS
    <2>2. Register(r, <<>>) = Fold(CrcStep, r, <<>>) BY <2>1, RegisterIsFold
    <2> QED BY <2>2, CrcStepIs, FoldEmpty
<1>4. ASSUME NEW b \in Byte
      PROVE  Register(r, Append(s, b)) = CrcOfByte(Register(r, s), b)
    <2>1. Append(s, b) \in Seq(Byte) OBVIOUS
    <2>2. Register(r, Append(s, b)) = Fold(CrcStep, r, Append(s, b))
        BY <2>1, RegisterIsFold
    <2>3. Fold(CrcStep, r, Append(s, b)) = CrcStep[<<Fold(CrcStep, r, s), b>>]
        BY CrcStepIs, FoldAppend
    <2> QED BY <1>1, <1>2, <2>2, <2>3, CrcStepIs
<1>5. ASSUME NEW t \in Seq(Byte)
      PROVE  Register(r, s \o t) = Register(Register(r, s), t)
    <2>1. s \o t \in Seq(Byte) OBVIOUS
    <2>2. Register(r, s \o t) = Fold(CrcStep, r, s \o t) BY <2>1, RegisterIsFold
    <2>3. Fold(CrcStep, r, s \o t) = Fold(CrcStep, Fold(CrcStep, r, s), t)
        BY CrcStepIs, FoldConcat
    <2>4. Register(Register(r, s), t) = Fold(CrcStep, Register(r, s), t)
        BY <1>2, RegisterIsFold
    <2> QED BY <1>1, <2>2, <2>3, <2>4
<1> QED BY <1>2, <1>3, <1>4, <1>5

(***************************************************************************)
(* Whatever follows, two registers that differ stay different.             *)
(***************************************************************************)
LEMMA RegistersStayApart ==
    ASSUME NEW r \in Word, NEW q \in Word, NEW s \in Seq(Byte)
    PROVE  Register(r, s) = Register(q, s) => r = q
<1> DEFINE T == {t \in Seq(Byte) : Register(r, t) = Register(q, t) => r = q}
<1>1. <<>> \in T
    <2>1. <<>> \in Seq(Byte) OBVIOUS
    <2>2. Register(r, <<>>) = r /\ Register(q, <<>>) = q BY <2>1, RegisterAlong
    <2> QED BY <2>1, <2>2
<1>2. ASSUME NEW t \in Seq(Byte), NEW b \in Byte, t \in T PROVE Append(t, b) \in T
    <2>1. Append(t, b) \in Seq(Byte) OBVIOUS
    <2>2. /\ Register(r, t) \in Word /\ Register(q, t) \in Word
          /\ Register(r, Append(t, b)) = CrcOfByte(Register(r, t), b)
          /\ Register(q, Append(t, b)) = CrcOfByte(Register(q, t), b)
        BY RegisterAlong
    <2>3. CrcOfByte(Register(r, t), b) = CrcOfByte(Register(q, t), b)
             => Register(r, t) = Register(q, t)
        <3> DEFINE x == Register(r, t)
                   y == Register(q, t)
        <3>1. x \in Word /\ y \in Word BY <2>2
        <3> HIDE DEF x, y
        <3>2. CrcOfByte(x, b) = CrcOfByte(y, b) => x = y BY <3>1, CrcOfByteInjective
        <3> QED BY <3>2 DEF x, y
    <2> QED BY <1>2, <2>1, <2>2, <2>3
<1> HIDE DEF T
<1>3. s \in T BY <1>1, <1>2, SeqSetInduction
<1> QED BY <1>3 DEF T

(***************************************************************************)
(* The CRC tells apart sequences that differ in one byte only.             *)
(***************************************************************************)
LEMMA CrcIsRegister ==
    ASSUME NEW s \in Seq(Byte), NEW t \in Seq(Byte)
    PROVE  /\ Crc(s) \in Seq(Byte) /\ Len(Crc(s)) = 2
           /\ Crc(s) = Crc(t) => Register(65535, s) = Register(65535, t)
<1>1. 65535 \in Word BY SMT DEF Word
<1>2. \A u \in Seq(Byte) : Register(65535, u) \in Word BY <1>1, RegisterAlong
<1> DEFINE r == Register(65535, s)
           q == Register(65535, t)
<1>3. r \in Word /\ q \in Word BY <1>2
<1>4. /\ Crc(s) = <<255 - HighByte(r), 255 - LowByte(r)>>
      /\ Crc(t) = <<255 - HighByte(q), 255 - LowByte(q)>>
    BY DEF Crc
<1> HIDE DEF r, q
<1>5. \A w \in Word : /\ HighByte(w) \in Byte /\ LowByte(w) \in Byte
                      /\ w = 256 * HighByte(w) + LowByte(w)
    BY WordBytes
<1>6. \A b \in Byte : 255 - b \in Byte /\ b = 255 - (255 - b) BY SMT DEF Byte
<1>7. Crc(s) \in Seq(Byte) /\ Len(Crc(s)) = 2
    <2>1. 255 - HighByte(r) \in Byte /\ 255 - LowByte(r) \in Byte BY <1>3, <1>5, <1>6
    <2> QED BY <1>4, <2>1
<1>8. ASSUME Crc(s) = Crc(t) PROVE r = q
    <2>1. 255 - HighByte(r) = 255 - HighByte(q) /\ 255 - LowByte(r) = 255 - LowByte(q)
        BY <1>4, <1>8
    <2>2. HighByte(r) = HighByte(q) /\ LowByte(r) = LowByte(q)
        BY <1>3, <1>5, <1>6, <2>1
    <2> QED BY <1>3, <1>5, <2>2
<1> QED BY <1>7, <1>8 DEF r, q

LEMMA CrcTellsApart ==
    ASSUME NEW s \in Seq(Byte), NEW t \in Seq(Byte), Len(s) = Len(t),
           NEW i \in DOMAIN s, \A j \in DOMAIN s \ {i} : s[j] = t[j],
           Crc(s) = Crc(t)
    PROVE  s[i] = t[i]
<1> DEFINE n == Len(s)
           a == SubSeq(s, 1, i - 1)
           b == SubSeq(s, i + 1, n)
           h == Append(a, s[i])
           k == Append(a, t[i])
           r == Register(65535, a)
<1>1. i \in 1 .. n /\ n \in Nat /\ s[i] \in Byte /\ t[i] \in Byte
    OBVIOUS
<1>2. a \in Seq(Byte) /\ b \in Seq(Byte) /\ h \in Seq(Byte) /\ k \in Seq(Byte)
    OBVIOUS
<1>3. s = h \o b
    BY <1>1, SplitAt
<1>4. t = k \o b
    <2>1. SubSeq(t, 1, i - 1) = a
        <3>1. \A j \in 1 .. i - 1 : s[j] = t[j] BY <1>1
        <3> QED BY <1>1, <3>1
    <2>2. SubSeq(t, i + 1, n) = b
        <3>1. \A j \in i + 1 .. n : s[j] = t[j] BY <1>1
        <3> QED BY <1>1, <3>1
    <2>3. t = Append(SubSeq(t, 1, i - 1), t[i]) \o SubSeq(t, i + 1, n)
        BY <1>1, SplitAt
    <2> QED BY <2>1, <2>2, <2>3
<1>5. 65535 \in Word BY SMT DEF Word
<1> HIDE DEF a, b, h, k
<1>6. Register(65535, s) = Register(65535, t) BY CrcIsRegister
<1>7. /\ Register(65535, h \o b) = Register(Register(65535, h), b)
      /\ Register(65535, k \o b) = Register(Register(65535, k), b)
      /\ Register(65535, h) \in Word /\ Register(65535, k) \in Word
      /\ r \in Word
    BY <1>2, <1>5, RegisterAlong
<1>8. Register(65535, h) = Register(65535, k)
    BY <1>2, <1>3, <1>4, <1>6, <1>7, RegistersStayApart
<1>9. Register(65535, h) = CrcOfByte(r, s[i]) /\ Register(65535, k) = CrcOfByte(r, t[i])
    BY <1>1, <1>2, <1>5, RegisterAlong DEF h, k
<1> HIDE DEF r
<1> QED BY <1>1, <1>7, <1>8, <1>9, CrcOfByteInjective

LEMMA CheckTellsApart ==
    ASSUME NEW x \in Seq(Byte), NEW y \in Seq(Byte), Len(x) >= 2,
           FcsMatches(x), FcsMatches(y)
    PROVE  ~OneByteApart(x, y)
<1> SUFFICES ASSUME OneByteApart(x, y) PROVE FALSE
    OBVIOUS
<1>1. Len(x) = Len(y) BY DEF OneByteApart
<1>2. PICK i \in DOMAIN x : x[i] # y[i] /\ \A j \in DOMAIN x \ {i} : x[j] = y[j]
    BY DEF OneByteApart
<1> DEFINE n == Len(x)
           s == SubSeq(x, 1, n - 2)
           t == SubSeq(y, 1, n - 2)
<1>3. n \in Nat /\ n >= 2 /\ i \in 1 .. n OBVIOUS
<1>4. /\ s \in Seq(Byte) /\ t \in Seq(Byte) /\ Len(s) = n - 2 /\ Len(t) = n - 2
      /\ DOMAIN s = 1 .. n - 2 /\ DOMAIN t = 1 .. n - 2
      /\ \A j \in 1 .. n - 2 : s[j] = x[j] /\ t[j] = y[j]
    BY <1>1
<1>5. Crc(s) = SubSeq(x, n - 1, n) /\ Crc(t) = SubSeq(y, n - 1, n)
    BY <1>1 DEF FcsMatches
<1>6. /\ SubSeq(x, n - 1, n)[1] = x[n - 1] /\ SubSeq(x, n - 1, n)[2] = x[n]
      /\ SubSeq(y, n - 1, n)[1] = y[n - 1] /\ SubSeq(y, n - 1, n)[2] = y[n]
    BY <1>1, <1>3
<1> HIDE DEF s, t
<1>7. CASE i <= n - 2
    <2>1. n - 1 \in DOMAIN x \ {i} /\ n \in DOMAIN x \ {i} BY <1>3, <1>7
    <2>2. x[n - 1] = y[n - 1] /\ x[n] = y[n] BY <1>2, <2>1
    <2>3. SubSeq(x, n - 1, n) = SubSeq(y, n - 1, n) BY <1>1, <1>3, <2>2
    <2>4. i \in DOMAIN s /\ \A j \in DOMAIN s \ {i} : s[j] = t[j]
        BY <1>2, <1>3, <1>4, <1>7, SMTT(40)
    <2>5. Len(s) = Len(t) /\ Crc(s) = Crc(t) BY <1>4, <1>5, <2>3
    <2>6. s[i] = t[i]
        <3>1. s \in Seq(Byte) /\ t \in Seq(Byte) BY <1>4
        <3> QED BY <3>1, <2>4, <2>5, CrcTellsApart
    <2>7. i \in 1 .. n - 2 BY <1>3, <1>7
    <2>8. s[i] = x[i] /\ t[i] = y[i] BY <1>4, <2>7
    <2> QED BY <1>2, <2>6, <2>8
<1>8. CASE i > n - 2
    <2>1. \A j \in 1 .. n - 2 : s[j] = t[j] BY <1>2, <1>3, <1>4, <1>8, SMTT(40)
    <2>2. s = t BY <1>4, <2>1
    <2>3. i = n - 1 \/ i = n BY <1>3, <1>8
    <2> QED BY <1>2, <1>5, <1>6, <2>2, <2>3
<1> QED BY <1>3, <1>7, <1>8

-----------------------------------------------------------------------------
(***************************************************************************)
(* Byte stuffing: two folds, of which the second undoes the first.         *)
(***************************************************************************)
StuffStep == [p \in Seq(Byte) \X Byte |-> StuffByte(p[1], p[2])]

Stuffed(b) == IF b \in Escaped THEN <<Escape, XorByte(b, 32)>> ELSE <<b>>

LEMMA StuffStepIs ==
    /\ StuffStep \in FoldSteps(Seq(Byte), Byte)
    /\ \A b \in Byte : Stuffed(b) \in Seq(Byte) /\ Len(Stuffed(b)) >= 1
    /\ \A s \in Seq(Byte), b \in Byte :
          /\ StuffStep[<<s, b>>] = StuffByte(s, b)
          /\ StuffByte(s, b) = s \o Stuffed(b)
<1>1. ASSUME NEW b \in Byte PROVE Stuffed(b) \in Seq(Byte) /\ Len(Stuffed(b)) >= 1
    <2>1. 32 \in Byte /\ Escape \in Byte BY DEF Byte, Escape
    <2>2. XorByte(b, 32) \in Byte BY <2>1, XorUndoes
    <2> QED BY <2>1, <2>2 DEF Stuffed
<1>2. \A s \in Seq(Byte), b \in Byte : StuffByte(s, b) = s \o Stuffed(b)
    BY DEF StuffByte, Stuffed
<1>3. ASSUME NEW p \in Seq(Byte) \X Byte PROVE StuffByte(p[1], p[2]) \in Seq(Byte)
    <2>1. p[1] \in Seq(Byte) /\ p[2] \in Byte OBVIOUS
    <2>2. StuffByte(p[1], p[2]) = p[1] \o Stuffed(p[2]) BY <1>2, <2>1
    <2>3. Stuffed(p[2]) \in Seq(Byte) BY <1>1, <2>1
    <2> QED BY <2>1, <2>2, <2>3
<1>4. StuffStep \in [Seq(Byte) \X Byte -> Seq(Byte)] BY <1>3 DEF StuffStep
<1>5. \A s \in Seq(Byte), b \in Byte : StuffStep[<<s, b>>] = StuffByte(s, b)
    BY DEF StuffStep
<1> QED BY <1>1, <1>2, <1>4, <1>5 DEF FoldSteps

NoBytes == <<>>

LEMMA StuffIsFold ==
    ASSUME NEW s \in Seq(Byte)
    PROVE  Stuff(s) = Fold(StuffStep, NoBytes, s)
<1> DEFINE Eqn(it) ==
        it = [x \in SUBSET DOMAIN s |->
                IF x = {} THEN NoBytes ELSE StuffByte(it[x \ {Max(x)}], s[Max(x)])]
    jt == CHOOSE it : Eqn(it)
<1>0. NoBytes \in Seq(Byte)
    BY DEF NoBytes
<1>1. Stuff(s) = jt[DOMAIN s]
    BY DEF Stuff, NoBytes, FoldLeft, MapThenFoldSet
<1>2. \E it : Eqn(it)
    <2>1. PICK it : /\ FoldsTo(it, StuffStep, NoBytes, s)
                    /\ \A x \in SUBSET DOMAIN s : it[x] \in Seq(Byte)
        BY <1>0, StuffStepIs, FoldExists
    <2>2. ASSUME NEW x \in SUBSET DOMAIN s, x # {}
          PROVE  StuffStep[<<it[x \ {Max(x)}], s[Max(x)]>>]
                    = StuffByte(it[x \ {Max(x)}], s[Max(x)])
        <3>1. x \ {Max(x)} \in SUBSET DOMAIN s /\ s[Max(x)] \in Byte BY <2>2, PrefixSets
        <3>2. it[x \ {Max(x)}] \in Seq(Byte) BY <2>1, <3>1
        <3> QED BY StuffStepIs, <3>1, <3>2
    <2>3. Eqn(it) BY <2>1, <2>2 DEF FoldsTo
    <2> QED BY <2>3
<1>3. Eqn(jt) BY <1>2
<1> HIDE DEF jt
<1>4. \A x \in SUBSET DOMAIN s :
        jt[x] = IF x = {} THEN NoBytes ELSE StuffByte(jt[x \ {Max(x)}], s[Max(x)])
    BY <1>3
<1>5. jt[{}] = NoBytes BY <1>4
<1>6. ASSUME NEW x \in SUBSET DOMAIN s, x # {}, jt[x \ {Max(x)}] \in Seq(Byte)
      PROVE  jt[x] = StuffStep[<<jt[x \ {Max(x)}], s[Max(x)]>>]
    <2>1. s[Max(x)] \in Byte BY PrefixSets, <1>6
    <2> QED BY StuffStepIs, <1>4, <1>6, <2>1
<1> HIDE DEF Eqn
<1>7. Solves(jt, Seq(Byte), StuffStep, NoBytes, s) BY <1>5, <1>6 DEF Solves
<1>8. jt[DOMAIN s] = Fold(StuffStep, NoBytes, s)
    BY <1>0, StuffStepIs, <1>7, FoldSolution
<1> QED BY <1>1, <1>8

LEMMA StuffAlong ==
    /\ Stuff(NoBytes) = NoBytes
    /\ \A s \in Seq(Byte), b \in Byte :
          /\ Stuff(s) \in Seq(Byte)
          /\ Stuff(Append(s, b)) = Stuff(s) \o Stuffed(b)
<1>0. NoBytes \in Seq(Byte) /\ Len(NoBytes) = 0 BY DEF NoBytes
<1>1. Stuff(NoBytes) = NoBytes
    <2>1. Stuff(NoBytes) = Fold(StuffStep, NoBytes, NoBytes) BY <1>0, StuffIsFold
    <2> QED BY <1>0, <2>1, StuffStepIs, FoldNothing
<1>2. ASSUME NEW s \in Seq(Byte), NEW b \in Byte
      PROVE  Stuff(s) \in Seq(Byte) /\ Stuff(Append(s, b)) = Stuff(s) \o Stuffed(b)
    <2>1. Stuff(s) = Fold(StuffStep, NoBytes, s) BY StuffIsFold
    <2>2. Stuff(s) \in Seq(Byte) BY <1>0, <2>1, StuffStepIs, FoldType
    <2>3. Append(s, b) \in Seq(Byte) OBVIOUS
    <2>4. Stuff(Append(s, b)) = Fold(StuffStep, NoBytes, Append(s, b))
        BY <2>3, StuffIsFold
    <2>5. Fold(StuffStep, NoBytes, Append(s, b)) = StuffStep[<<Fold(StuffStep, NoBytes, s), b>>]
        <3>1. NoBytes \in Seq(Byte) /\ StuffStep \in FoldSteps(Seq(Byte), Byte)
            BY <1>0, StuffStepIs
        <3> QED BY <3>1, FoldAppend
    <2>6. StuffStep[<<Stuff(s), b>>] = Stuff(s) \o Stuffed(b) BY <2>2, StuffStepIs
    <2> QED BY <2>1, <2>2, <2>4, <2>5, <2>6
<1> QED BY <1>1, <1>2

(***************************************************************************)
(* Stuffing makes nothing shorter.                                         *)
(***************************************************************************)
LEMMA StuffType ==
    ASSUME NEW s \in Seq(Byte)
    PROVE  Stuff(s) \in Seq(Byte) /\ Len(Stuff(s)) >= Len(s)
<1> DEFINE T == {t \in Seq(Byte) : Stuff(t) \in Seq(Byte) /\ Len(Stuff(t)) >= Len(t)}
<1>1. NoBytes \in T
    <2>1. NoBytes \in Seq(Byte) /\ Len(NoBytes) = 0 BY DEF NoBytes
    <2>2. Stuff(NoBytes) = NoBytes BY StuffAlong
    <2>3. Len(Stuff(NoBytes)) = 0 BY <2>1, <2>2, Zenon
    <2>4. Len(Stuff(NoBytes)) >= Len(NoBytes) BY <2>1, <2>3
    <2> QED BY <2>1, <2>2, <2>4, Zenon
<1>2. ASSUME NEW t \in Seq(Byte), NEW b \in Byte, t \in T PROVE Append(t, b) \in T
    <2>1. /\ Stuff(t) \in Seq(Byte) /\ Stuffed(b) \in Seq(Byte) /\ Len(Stuffed(b)) >= 1
          /\ Stuff(Append(t, b)) = Stuff(t) \o Stuffed(b)
        BY StuffAlong, StuffStepIs
    <2> DEFINE u == Stuff(t)
               v == Stuffed(b)
    <2>2. Len(u) >= Len(t) BY <1>2
    <2> HIDE DEF u, v
    <2>3. u \in Seq(Byte) /\ v \in Seq(Byte) /\ Len(v) >= 1 BY <2>1 DEF u, v
    <2>4. u \o v \in Seq(Byte) /\ Len(u \o v) >= Len(Append(t, b)) BY <2>2, <2>3
    <2>5. Append(t, b) \in Seq(Byte) OBVIOUS
    <2> QED BY <2>1, <2>4, <2>5 DEF u, v
<1> HIDE DEF T
<1>3. s \in T BY <1>1, <1>2, SeqSetInduction DEF NoBytes
<1> QED BY <1>3 DEF T

Unstuffing == [out : Seq(Byte), escaping : BOOLEAN]
Begun == [out |-> <<>>, escaping |-> FALSE]
UnstuffStep == [p \in Unstuffing \X Byte |-> UnstuffByte(p[1], p[2])]

LEMMA UnstuffStepIs ==
    /\ UnstuffStep \in FoldSteps(Unstuffing, Byte)
    /\ Begun \in Unstuffing
    /\ \A u \in Unstuffing, b \in Byte : UnstuffStep[<<u, b>>] = UnstuffByte(u, b)
<1>1. ASSUME NEW u \in Unstuffing, NEW b \in Byte PROVE UnstuffByte(u, b) \in Unstuffing
    <2>1. 32 \in Byte BY DEF Byte
    <2>2. XorByte(b, 32) \in Byte BY <2>1, XorUndoes
    <2>3. /\ u.out \in Seq(Byte) /\ Append(u.out, b) \in Seq(Byte)
          /\ Append(u.out, XorByte(b, 32)) \in Seq(Byte)
        BY <2>2 DEF Unstuffing
    <2> QED BY <2>3 DEF UnstuffByte, Unstuffing
<1>2. ASSUME NEW p \in Unstuffing \X Byte PROVE UnstuffByte(p[1], p[2]) \in Unstuffing
    <2>1. p[1] \in Unstuffing /\ p[2] \in Byte OBVIOUS
    <2> QED BY <1>1, <2>1
<1>3. UnstuffStep \in [Unstuffing \X Byte -> Unstuffing] BY <1>2 DEF UnstuffStep
<1>4. \A u \in Unstuffing, b \in Byte : UnstuffStep[<<u, b>>] = UnstuffByte(u, b)
    BY DEF UnstuffStep
<1>5. Begun \in Unstuffing BY DEF Begun, Unstuffing
<1> QED BY <1>3, <1>4, <1>5 DEF FoldSteps

LEMMA UnstuffIsFold ==
    ASSUME NEW s \in Seq(Byte)
    PROVE  FoldLeft(UnstuffByte, Begun, s) = Fold(UnstuffStep, Begun, s)
<1> DEFINE Eqn(it) ==
        it = [x \in SUBSET DOMAIN s |->
                IF x = {} THEN Begun ELSE UnstuffByte(it[x \ {Max(x)}], s[Max(x)])]
    jt == CHOOSE it : Eqn(it)
<1>0. Begun \in Unstuffing
    BY UnstuffStepIs
<1>1. FoldLeft(UnstuffByte, Begun, s) = jt[DOMAIN s]
    BY DEF FoldLeft, MapThenFoldSet
<1>2. \E it : Eqn(it)
    <2>1. PICK it : /\ FoldsTo(it, UnstuffStep, Begun, s)
                    /\ \A x \in SUBSET DOMAIN s : it[x] \in Unstuffing
        BY <1>0, UnstuffStepIs, FoldExists
    <2>2. ASSUME NEW x \in SUBSET DOMAIN s, x # {}
          PROVE  UnstuffStep[<<it[x \ {Max(x)}], s[Max(x)]>>]
                    = UnstuffByte(it[x \ {Max(x)}], s[Max(x)])
        <3>1. x \ {Max(x)} \in SUBSET DOMAIN s /\ s[Max(x)] \in Byte BY <2>2, PrefixSets
        <3>2. it[x \ {Max(x)}] \in Unstuffing BY <2>1, <3>1
        <3> QED BY UnstuffStepIs, <3>1, <3>2
    <2>3. Eqn(it) BY <2>1, <2>2 DEF FoldsTo
    <2> QED BY <2>3
<1>3. Eqn(jt) BY <1>2
<1> HIDE DEF jt
<1>4. \A x \in SUBSET DOMAIN s :
        jt[x] = IF x = {} THEN Begun ELSE UnstuffByte(jt[x \ {Max(x)}], s[Max(x)])
    BY <1>3
<1>5. jt[{}] = Begun BY <1>4
<1>6. ASSUME NEW x \in SUBSET DOMAIN s, x # {}, jt[x \ {Max(x)}] \in Unstuffing
      PROVE  jt[x] = UnstuffStep[<<jt[x \ {Max(x)}], s[Max(x)]>>]
    <2>1. s[Max(x)] \in Byte BY PrefixSets, <1>6
    <2> QED BY UnstuffStepIs, <1>4, <1>6, <2>1
<1> HIDE DEF Eqn
<1>7. Solves(jt, Unstuffing, UnstuffStep, Begun, s) BY <1>5, <1>6 DEF Solves
<1>8. jt[DOMAIN s] = Fold(UnstuffStep, Begun, s)
    BY <1>0, UnstuffStepIs, <1>7, FoldSolution
<1> QED BY <1>1, <1>8

LEMMA UnstuffAlong ==
    ASSUME NEW s \in Seq(Byte)
    PROVE  /\ Fold(UnstuffStep, Begun, s) \in Unstuffing
           /\ Fold(UnstuffStep, Begun, NoBytes) = Begun
           /\ \A b \in Byte : Fold(UnstuffStep, Begun, Append(s, b))
                                = UnstuffByte(Fold(UnstuffStep, Begun, s), b)
<1>1. Fold(UnstuffStep, Begun, s) \in Unstuffing BY UnstuffStepIs, FoldType
<1>2. NoBytes \in Seq(Byte) /\ Len(NoBytes) = 0 BY DEF NoBytes
<1>3. Fold(UnstuffStep, Begun, NoBytes) = Begun BY <1>2, UnstuffStepIs, FoldNothing
<1>4. ASSUME NEW b \in Byte
      PROVE  Fold(UnstuffStep, Begun, Append(s, b))
                = UnstuffByte(Fold(UnstuffStep, Begun, s), b)
    <2>1. Fold(UnstuffStep, Begun, Append(s, b))
             = UnstuffStep[<<Fold(UnstuffStep, Begun, s), b>>]
        BY UnstuffStepIs, FoldAppend
    <2> QED BY <1>1, <2>1, UnstuffStepIs
<1> QED BY <1>1, <1>3, <1>4

LEMMA UnstuffType ==
    ASSUME NEW s \in Seq(Byte)
    PROVE  Unstuff(s) \in Seq(Byte)
<1> DEFINE end == FoldLeft(UnstuffByte, Begun, s)
<1>1. end \in Unstuffing BY UnstuffAlong, UnstuffIsFold
<1>2. Unstuff(s) = IF end.escaping THEN Append(end.out, Escape) ELSE end.out
    BY DEF Unstuff, Begun
<1> HIDE DEF end
<1>3. Escape \in Byte BY DEF Escape, Byte
<1> QED BY <1>1, <1>2, <1>3 DEF Unstuffing

(***************************************************************************)
(* hdlc_unescape undoes hdlc_escape.                                       *)
(***************************************************************************)
Undone(s) == [out |-> s, escaping |-> FALSE]

LEMMA UnstuffOne ==
    ASSUME NEW s \in Seq(Byte), NEW b \in Byte, NEW z \in Seq(Byte),
           Fold(UnstuffStep, Begun, z) = Undone(s)
    PROVE  Fold(UnstuffStep, Begun, z \o Stuffed(b)) = Undone(Append(s, b))
<1>1. CASE b \in Escaped
    <2> DEFINE x == XorByte(b, 32)
               y == Append(z, Escape)
    <2>1. 32 \in Byte /\ Escape \in Byte BY DEF Byte, Escape
    <2>2. x \in Byte /\ XorByte(x, 32) = b BY <2>1, XorUndoes
    <2>3. z \o Stuffed(b) = Append(y, x) /\ y \in Seq(Byte)
        BY <1>1, <2>1, <2>2 DEF Stuffed
    <2>4. Fold(UnstuffStep, Begun, y) = UnstuffByte(Undone(s), Escape)
        BY <2>1, UnstuffAlong
    <2>5. UnstuffByte(Undone(s), Escape) = [out |-> s, escaping |-> TRUE]
        BY DEF UnstuffByte, Undone
    <2> HIDE DEF x, y
    <2>6. Fold(UnstuffStep, Begun, Append(y, x))
             = UnstuffByte(Fold(UnstuffStep, Begun, y), x)
        BY <2>2, <2>3, UnstuffAlong
    <2>7. UnstuffByte([out |-> s, escaping |-> TRUE], x) = Undone(Append(s, b))
        BY <2>2 DEF UnstuffByte, Undone
    <2> QED BY <2>3, <2>4, <2>5, <2>6, <2>7
<1>2. CASE b \notin Escaped
    <2>1. z \o Stuffed(b) = Append(z, b) BY <1>2 DEF Stuffed
    <2>2. b # Escape BY <1>2 DEF Escaped
    <2>3. UnstuffByte(Undone(s), b) = Undone(Append(s, b)) BY <2>2 DEF UnstuffByte, Undone
    <2> QED BY <2>1, <2>3, UnstuffAlong
<1> QED BY <1>1, <1>2

LEMMA UnstuffUndoesStuff ==
    ASSUME NEW s \in Seq(Byte)
    PROVE  Unstuff(Stuff(s)) = s
<1> DEFINE T == {t \in Seq(Byte) : Fold(UnstuffStep, Begun, Stuff(t)) = Undone(t)}
<1>1. NoBytes \in T
    <2>1. NoBytes \in Seq(Byte) /\ Begun = Undone(NoBytes) BY DEF NoBytes, Begun, Undone
    <2> QED BY <2>1, StuffAlong, UnstuffAlong
<1>2. ASSUME NEW t \in Seq(Byte), NEW b \in Byte, t \in T PROVE Append(t, b) \in T
    <2>1. Append(t, b) \in Seq(Byte) OBVIOUS
    <2>2. Stuff(t) \in Seq(Byte) /\ Stuff(Append(t, b)) = Stuff(t) \o Stuffed(b)
        BY StuffAlong
    <2>3. Fold(UnstuffStep, Begun, Stuff(t) \o Stuffed(b)) = Undone(Append(t, b))
        BY <1>2, <2>2, UnstuffOne
    <2> QED BY <2>1, <2>2, <2>3
<1> HIDE DEF T
<1>3. s \in T BY <1>1, <1>2, SeqSetInduction DEF NoBytes
<1>4. Stuff(s) \in Seq(Byte) BY StuffType
<1>5. FoldLeft(UnstuffByte, Begun, Stuff(s)) = Undone(s)
    BY <1>3, <1>4, UnstuffIsFold DEF T
<1> QED BY <1>5 DEF Unstuff, Begun, Undone

-----------------------------------------------------------------------------
(***************************************************************************)
(* The bytes of a frame, and what stands between its flags.                *)
(***************************************************************************)
Header(frame) ==
    FormatToBytes(frame.format) \o AddressToBytes(frame.dest)
        \o AddressToBytes(frame.source) \o <<ControlToByte(frame.control)>>

Body(frame) ==
    IF frame.information = <<>> THEN Header(frame)
    ELSE Header(frame) \o Crc(Header(frame)) \o frame.information

LEMMA FormatIsWritten ==
    ASSUME NEW format \in [length : Nat, segmented : BOOLEAN]
    PROVE  FormatToBytes(format) \in Seq(Byte)
<1>1. format.length \in Nat OBVIOUS
<1>2. \A w \in Nat : HighByte(w) \in Byte /\ LowByte(w) \in Byte
    BY SMT DEF HighByte, LowByte, Byte
<1>3. \A n \in Nat : 40960 + (n % 2048) + 2048 \in Nat /\ 40960 + (n % 2048) + 0 \in Nat
    BY SMT
<1>4. PICK w \in Nat : FormatToBytes(format) = <<HighByte(w), LowByte(w)>>
    BY <1>1, <1>3 DEF FormatToBytes
<1> QED BY <1>2, <1>4

LEMMA AddressIsWritten ==
    ASSUME NEW address \in HdlcAddress
    PROVE  AddressToBytes(address) \in Seq(Byte)
<1>1. \A n \in Word : /\ (n \div 128) % 256 \in Byte /\ (n % 128) * 2 + 1 \in Byte
                      /\ (n % 128) * 2 + 0 \in Byte /\ (2 * n + 1) % 256 \in Byte
    <2> SUFFICES ASSUME NEW n \in Nat
                 PROVE  /\ (n \div 128) % 256 \in Byte /\ (n % 128) * 2 + 1 \in Byte
                        /\ (n % 128) * 2 + 0 \in Byte /\ (2 * n + 1) % 256 \in Byte
        BY DEF Word
    <2>1. (n \div 128) % 256 \in Byte BY SMT DEF Byte
    <2>2. (n % 128) * 2 + 1 \in Byte /\ (n % 128) * 2 + 0 \in Byte BY SMT DEF Byte
    <2>3. (2 * n + 1) % 256 \in Byte BY SMT DEF Byte
    <2> QED BY <2>1, <2>2, <2>3
<1>2. /\ address.type \in {"Client", "Server"} /\ address.logical \in Word
      /\ address.physical = <<>> \/ address.physical \in [1 .. 1 -> Word]
    BY DEF HdlcAddress
<1> DEFINE high(n) == IF (n \div 128) % 256 # 0 THEN <<(n \div 128) % 256>> ELSE <<>>
<1>3. \A n \in Word : /\ high(n) \in Seq(Byte) /\ <<(n % 128) * 2 + 1>> \in Seq(Byte)
                      /\ <<(n % 128) * 2 + 0>> \in Seq(Byte)
                      /\ <<(2 * n + 1) % 256>> \in Seq(Byte)
    BY <1>1
<1> HIDE DEF high
<1>4. CASE address.type = "Client"
    <2>1. AddressToBytes(address) = <<(2 * address.logical + 1) % 256>>
        BY <1>4 DEF AddressToBytes
    <2> QED BY <1>2, <1>3, <2>1
<1>5. CASE address.type = "Server" /\ address.physical = <<>>
    <2>1. AddressToBytes(address)
             = high(address.logical) \o <<(address.logical % 128) * 2 + 1>>
        BY <1>5 DEF AddressToBytes, high
    <2> QED BY <1>2, <1>3, <2>1
<1>6. CASE address.type = "Server" /\ address.physical # <<>>
    <2>1. address.physical[1] \in Word BY <1>2, <1>6
    <2>2. AddressToBytes(address)
             = high(address.logical) \o <<(address.logical % 128) * 2 + 0>>
                 \o high(address.physical[1]) \o <<(address.physical[1] % 128) * 2 + 1>>
        BY <1>6 DEF AddressToBytes, high
    <2> DEFINE p == address.physical[1]
               l == address.logical
               a == high(l)
               b == <<(l % 128) * 2 + 0>>
               c == high(p)
               d == <<(p % 128) * 2 + 1>>
    <2>3. a \in Seq(Byte) /\ b \in Seq(Byte) /\ c \in Seq(Byte) /\ d \in Seq(Byte)
        BY <1>2, <1>3, <2>1
    <2>4. AddressToBytes(address) = a \o b \o c \o d BY <2>2
    <2> HIDE DEF a, b, c, d
    <2> QED BY <2>3, <2>4
<1> QED BY <1>2, <1>4, <1>5, <1>6

FinalBit == {0, 16}

LEMMA ControlBytes ==
    ASSUME NEW ns \in Nat, NEW nr \in Nat, NEW final \in FinalBit
    PROVE  /\ (ns % 8) * 2 + final + (nr % 8) * 32 \in Byte
           /\ (1 + nr * 32 + final) % 256 \in Byte
           /\ 131 + final \in Byte /\ 99 + final \in Byte
           /\ 67 + final \in Byte /\ 3 + final \in Byte
<1>1. (ns % 8) * 2 + final + (nr % 8) * 32 \in Byte BY SMT DEF Byte, FinalBit
<1>2. (1 + nr * 32 + final) % 256 \in Byte BY SMT DEF Byte, FinalBit
<1>3. /\ 131 + final \in Byte /\ 99 + final \in Byte
      /\ 67 + final \in Byte /\ 3 + final \in Byte
    BY SMT DEF Byte, FinalBit
<1> QED BY <1>1, <1>2, <1>3

LEMMA ControlIsWritten ==
    ASSUME NEW control \in [type : ControlType, ns : Nat, nr : Nat, final : BOOLEAN]
    PROVE  ControlToByte(control) \in Byte
<1> DEFINE final == IF control.final THEN 16 ELSE 0
<1>1. /\ control.type \in ControlType /\ control.ns \in Nat /\ control.nr \in Nat
      /\ final \in FinalBit
    BY DEF FinalBit
<1> HIDE DEF final
<1>2. /\ (control.ns % 8) * 2 + final + (control.nr % 8) * 32 \in Byte
      /\ (1 + control.nr * 32 + final) % 256 \in Byte
      /\ 131 + final \in Byte /\ 99 + final \in Byte
      /\ 67 + final \in Byte /\ 3 + final \in Byte
    <2> DEFINE ns == control.ns
               nr == control.nr
    <2>1. ns \in Nat /\ nr \in Nat /\ final \in FinalBit BY <1>1
    <2> HIDE DEF ns, nr
    <2>2. /\ (ns % 8) * 2 + final + (nr % 8) * 32 \in Byte
          /\ (1 + nr * 32 + final) % 256 \in Byte
          /\ 131 + final \in Byte /\ 99 + final \in Byte
          /\ 67 + final \in Byte /\ 3 + final \in Byte
        BY <2>1, ControlBytes
    <2> QED BY <2>2 DEF ns, nr
<1>3. DOMAIN UCode = {"SNRM", "UA", "Disconnect", "UI"}
      /\ UCode["SNRM"] = 131 /\ UCode["UA"] = 99 /\ UCode["Disconnect"] = 67
      /\ UCode["UI"] = 3
    BY DEF UCode
<1>4. CASE control.type = "Information"
    <2>1. ControlToByte(control) = (control.ns % 8) * 2 + final + (control.nr % 8) * 32
        BY <1>3, <1>4 DEF ControlToByte, final
    <2> QED BY <1>2, <2>1
<1>5. CASE control.type \in {"SNRM", "UA", "Disconnect", "UI"}
    <2>1. ControlToByte(control) = UCode[control.type] + final
        BY <1>3, <1>5 DEF ControlToByte, final
    <2> QED BY <1>2, <1>3, <1>5, <2>1
<1>6. CASE control.type = "RR"
    <2>1. ControlToByte(control) = (1 + control.nr * 32 + final) % 256
        BY <1>3, <1>6 DEF ControlToByte, final
    <2> QED BY <1>2, <2>1
<1>7. CASE control.type = "Unknown"
    <2>1. ControlToByte(control) = 0
        BY <1>3, <1>7 DEF ControlToByte, final
    <2> QED BY <2>1 DEF Byte
<1> QED BY <1>1, <1>4, <1>5, <1>6, <1>7 DEF ControlType

LEMMA FrameIsWritten ==
    ASSUME NEW frame \in HdlcFrame
    PROVE  /\ Header(frame) \in Seq(Byte) /\ Body(frame) \in Seq(Byte)
           /\ Body(frame) \o Crc(Body(frame)) \in Seq(Byte)
           /\ ToBytes(frame) = <<Flag>> \o Stuff(Body(frame) \o Crc(Body(frame))) \o <<Flag>>
           /\ ToBytes(frame) \in Seq(Byte)
<1>1. /\ frame.format \in [length : Nat, segmented : BOOLEAN]
      /\ frame.dest \in HdlcAddress /\ frame.source \in HdlcAddress
      /\ frame.control \in [type : ControlType, ns : Nat, nr : Nat, final : BOOLEAN]
      /\ frame.information \in Seq(Byte)
    BY DEF HdlcFrame
<1>2. /\ FormatToBytes(frame.format) \in Seq(Byte)
      /\ AddressToBytes(frame.dest) \in Seq(Byte) /\ AddressToBytes(frame.source) \in Seq(Byte)
      /\ ControlToByte(frame.control) \in Byte
    BY <1>1, FormatIsWritten, AddressIsWritten, ControlIsWritten
<1>3. Header(frame) \in Seq(Byte) BY <1>2 DEF Header
<1>4. Crc(Header(frame)) \in Seq(Byte) BY <1>3, CrcIsRegister
<1>5. Body(frame) \in Seq(Byte) BY <1>1, <1>3, <1>4 DEF Body
<1>6. Crc(Body(frame)) \in Seq(Byte) BY <1>5, CrcIsRegister
<1>7. Body(frame) \o Crc(Body(frame)) \in Seq(Byte) BY <1>5, <1>6
<1>8. ToBytes(frame) = <<Flag>> \o Stuff(Body(frame) \o Crc(Body(frame))) \o <<Flag>>
    BY DEF ToBytes, Body, Header
<1>9. Stuff(Body(frame) \o Crc(Body(frame))) \in Seq(Byte) BY <1>7, StuffType
<1>10. Flag \in Byte BY DEF Flag, Byte
<1>11. ToBytes(frame) \in Seq(Byte) BY <1>8, <1>9, <1>10
<1> QED BY <1>3, <1>5, <1>7, <1>8, <1>11

LEMMA BetweenFlags ==
    ASSUME NEW m \in Seq(Byte), NEW a \in Byte, NEW b \in Byte
    PROVE  LET bytes == <<a>> \o m \o <<b>>
           IN  /\ bytes \in Seq(Byte) /\ Len(bytes) = Len(m) + 2
               /\ bytes[1] = a /\ bytes[Len(bytes)] = b
               /\ SubSeq(bytes, 2, Len(bytes) - 1) = m
<1> DEFINE h == <<a>> \o m
           bytes == h \o <<b>>
<1>1. h \in Seq(Byte) /\ Len(h) = Len(m) + 1 /\ h[1] = a
      /\ \A i \in 1 .. Len(m) : h[i + 1] = m[i]
    OBVIOUS
<1> HIDE DEF h
<1>2. /\ bytes \in Seq(Byte) /\ Len(bytes) = Len(m) + 2 /\ bytes[Len(m) + 2] = b
      /\ \A i \in 1 .. Len(m) + 1 : bytes[i] = h[i]
    BY <1>1
<1> HIDE DEF bytes
<1>3. Len(m) \in Nat /\ 1 \in 1 .. Len(m) + 1 OBVIOUS
<1>4. bytes[1] = a BY <1>1, <1>2, <1>3
<1> DEFINE k == SubSeq(bytes, 2, Len(bytes) - 1)
<1>5. k \in Seq(Byte) /\ Len(k) = Len(m) /\ \A i \in 1 .. Len(m) : k[i] = bytes[i + 1]
    BY <1>2, <1>3
<1>6. \A i \in 1 .. Len(m) : i + 1 \in 1 .. Len(m) + 1 BY <1>3
<1>7. \A i \in 1 .. Len(m) : k[i] = m[i] BY <1>1, <1>2, <1>5, <1>6
<1> HIDE DEF k
<1>8. k = m BY <1>5, <1>7
<1> QED BY <1>2, <1>4, <1>8 DEF k, bytes, h

LEMMA ContentIsBody ==
    ASSUME NEW frame \in HdlcFrame
    PROVE  LET bytes == ToBytes(frame)
           IN  /\ Content(bytes) = Body(frame) \o Crc(Body(frame))
               /\ bytes[1] = Flag /\ bytes[Len(bytes)] = Flag
               /\ Len(bytes) >= Len(Body(frame)) + 4
<1> DEFINE content == Body(frame) \o Crc(Body(frame))
           m == Stuff(content)
           bytes == ToBytes(frame)
<1>1. content \in Seq(Byte) /\ bytes = <<Flag>> \o m \o <<Flag>> BY FrameIsWritten
<1>2. Len(content) = Len(Body(frame)) + 2
    <2>1. Body(frame) \in Seq(Byte) BY FrameIsWritten
    <2>2. Crc(Body(frame)) \in Seq(Byte) /\ Len(Crc(Body(frame))) = 2
        BY <2>1, CrcIsRegister
    <2>3. Len(content) = Len(Body(frame)) + Len(Crc(Body(frame)))
        BY <2>1, <2>2, Joined
    <2> QED BY <2>2, <2>3
<1> HIDE DEF content, bytes
<1>3. m \in Seq(Byte) /\ Len(m) >= Len(content) /\ Unstuff(m) = content
    BY <1>1, StuffType, UnstuffUndoesStuff
<1> HIDE DEF m
<1>4. Flag \in Byte BY DEF Flag, Byte
<1>5. /\ Len(bytes) = Len(m) + 2 /\ bytes[1] = Flag /\ bytes[Len(bytes)] = Flag
      /\ SubSeq(bytes, 2, Len(bytes) - 1) = m
    BY <1>1, <1>3, <1>4, BetweenFlags
<1>6. Content(bytes) = content BY <1>3, <1>5 DEF Content
<1>7. Len(bytes) >= Len(Body(frame)) + 4
    <2>1. Len(Body(frame)) \in Nat BY FrameIsWritten
    <2>2. Len(m) \in Nat /\ Len(content) \in Nat BY <1>1, <1>3
    <2> QED BY <1>2, <1>3, <1>5, <2>1, <2>2
<1> QED BY <1>5, <1>6, <1>7 DEF content, bytes

LEMMA WrittenMatches ==
    ASSUME NEW s \in Seq(Byte)
    PROVE  LET c == s \o Crc(s)
           IN  /\ c \in Seq(Byte) /\ Len(c) = Len(s) + 2 /\ FcsMatches(c)
               /\ \A i \in 1 .. Len(s) : c[i] = s[i]
<1> DEFINE k == Crc(s)
           c == s \o k
           n == Len(c)
<1>1. k \in Seq(Byte) /\ Len(k) = 2 BY CrcIsRegister
<1> HIDE DEF k
<1>2. c \in Seq(Byte) /\ n = Len(s) + Len(k) /\ (\A i \in 1 .. Len(s) : c[i] = s[i])
    BY <1>1, Joined, ZenonT(60)
<1>3. SubSeq(c, 1, Len(s)) = s BY <1>1, FirstPart
<1>4. SubSeq(c, Len(s) + 1, Len(s) + Len(k)) = k BY <1>1, LastPart
<1> HIDE DEF c, n
<1>5. Len(s) \in Nat /\ n - 2 = Len(s) /\ n - 1 = Len(s) + 1 /\ n = Len(s) + Len(k)
    BY <1>1, <1>2
<1>6. FcsMatches(c) BY <1>3, <1>4, <1>5 DEF FcsMatches, n, k
<1> QED BY <1>1, <1>2, <1>6 DEF c, n, k

(***************************************************************************)
(* Bytes that from_bytes accepts have a content of two bytes at least, and *)
(* its check sequence matches.                                             *)
(***************************************************************************)
LEMMA AcceptedMatches ==
    ASSUME NEW bytes \in Seq(Byte), FromBytes(bytes).ok
    PROVE  FcsMatches(Content(bytes))
<1>1. ~ Error("InvalidData").ok /\ ~ Error("BufferUnderflow").ok /\ ~ Error("CrcError").ok
    BY DEF Error
<1>2. FromBytes(bytes) = ContentToFrame(Content(bytes)) BY <1>1 DEF FromBytes
<1> DEFINE content == Content(bytes)
<1>3. ContentToFrame(content).ok BY <1>2
<1>4. FcsMatches(content)
    <2> HIDE DEF content
    <2> QED BY <1>1, <1>3 DEF ContentToFrame
<1> QED BY <1>4

LEMMA WrongByteRefused ==
    ASSUME NEW frame \in HdlcFrame, NEW bytes \in Seq(Byte),
           OneByteApart(Content(ToBytes(frame)), Content(bytes))
    PROVE  ~FromBytes(bytes).ok
<1> SUFFICES ASSUME FromBytes(bytes).ok PROVE FALSE
    OBVIOUS
<1> DEFINE b == Body(frame)
           x == b \o Crc(b)
           y == Content(bytes)
<1>1. b \in Seq(Byte) BY FrameIsWritten
<1>2. x \in Seq(Byte) /\ Len(x) = Len(b) + 2 /\ FcsMatches(x)
    <2> HIDE DEF b
    <2> QED BY <1>1, WrittenMatches
<1>3. OneByteApart(x, y) BY ContentIsBody
<1>4. y \in Seq(Byte)
    <2>1. SubSeq(bytes, 2, Len(bytes) - 1) \in Seq(Byte) OBVIOUS
    <2> QED BY <2>1, UnstuffType DEF Content
<1>5. FcsMatches(y) BY AcceptedMatches
<1> HIDE DEF b, x, y
<1>6. Len(x) >= 2
    <2>1. Len(b) \in Nat BY <1>1
    <2> QED BY <1>2, <2>1
<1> QED BY <1>2, <1>3, <1>4, <1>5, <1>6, CheckTellsApart

-----------------------------------------------------------------------------
(***************************************************************************)
(* One byte changed on the line.  Unstuffing is led by the escape bytes    *)
(* alone, so where they agree the two unstuffings keep in step; from the   *)
(* changed byte on their outputs are one byte apart (Alike).               *)
(***************************************************************************)
LEMMA ApartAppend ==
    ASSUME NEW x \in Seq(Byte), NEW y \in Seq(Byte), NEW b \in Byte, OneByteApart(x, y)
    PROVE  OneByteApart(Append(x, b), Append(y, b))
<1>1. PICK i \in DOMAIN x : x[i] # y[i] /\ \A j \in DOMAIN x \ {i} : x[j] = y[j]
    BY DEF OneByteApart
<1>2. Len(x) = Len(y) /\ Len(x) \in Nat /\ i \in 1 .. Len(x) BY DEF OneByteApart
<1> DEFINE u == Append(x, b)
           v == Append(y, b)
<1>3. /\ u \in Seq(Byte) /\ v \in Seq(Byte)
      /\ Len(u) = Len(x) + 1 /\ Len(v) = Len(x) + 1
      /\ DOMAIN u = 1 .. Len(x) + 1
      /\ u[Len(x) + 1] = b /\ v[Len(x) + 1] = b
      /\ \A j \in 1 .. Len(x) : u[j] = x[j] /\ v[j] = y[j]
    BY <1>2
<1> HIDE DEF u, v
<1>4. i \in DOMAIN u /\ u[i] # v[i] BY <1>1, <1>2, <1>3
<1>5. ASSUME NEW j \in DOMAIN u \ {i} PROVE u[j] = v[j]
    <2>1. j = Len(x) + 1 \/ j \in DOMAIN x \ {i} BY <1>2, <1>3, <1>5
    <2> QED BY <1>1, <1>2, <1>3, <2>1
<1>6. OneByteApart(u, v) BY <1>3, <1>4, <1>5 DEF OneByteApart
<1> QED BY <1>6 DEF u, v

LEMMA ApartAtEnd ==
    ASSUME NEW x \in Seq(Byte), NEW b \in Byte, NEW c \in Byte, b # c
    PROVE  OneByteApart(Append(x, b), Append(x, c))
<1> DEFINE u == Append(x, b)
           v == Append(x, c)
           n == Len(x) + 1
<1>1. /\ n \in Nat /\ Len(u) = n /\ Len(v) = n /\ DOMAIN u = 1 .. n /\ n \in 1 .. n
      /\ u[n] = b /\ v[n] = c /\ \A j \in (1 .. n) \ {n} : u[j] = v[j]
    OBVIOUS
<1> HIDE DEF u, v, n
<1>2. OneByteApart(u, v) BY <1>1 DEF OneByteApart
<1> QED BY <1>2 DEF u, v

Alike(u, v) == u.escaping = v.escaping /\ OneByteApart(u.out, v.out)

LEMMA SameByteKeepsAlike ==
    ASSUME NEW u \in Unstuffing, NEW v \in Unstuffing, NEW b \in Byte, Alike(u, v)
    PROVE  Alike(UnstuffByte(u, b), UnstuffByte(v, b))
<1>1. /\ u.out \in Seq(Byte) /\ v.out \in Seq(Byte)
      /\ u.escaping = v.escaping /\ OneByteApart(u.out, v.out)
    BY DEF Unstuffing, Alike
<1>2. XorByte(b, 32) \in Byte
    <2>1. 32 \in Byte BY DEF Byte
    <2> QED BY <2>1, XorUndoes
<1>3. OneByteApart(Append(u.out, b), Append(v.out, b)) BY <1>1, ApartAppend
<1>4. OneByteApart(Append(u.out, XorByte(b, 32)), Append(v.out, XorByte(b, 32)))
    BY <1>1, <1>2, ApartAppend
<1>5. CASE u.escaping
    <2>1. /\ UnstuffByte(u, b).escaping = FALSE /\ UnstuffByte(v, b).escaping = FALSE
          /\ UnstuffByte(u, b).out = Append(u.out, XorByte(b, 32))
          /\ UnstuffByte(v, b).out = Append(v.out, XorByte(b, 32))
        BY <1>1, <1>5 DEF UnstuffByte
    <2> QED BY <1>4, <2>1 DEF Alike
<1>6. CASE ~u.escaping /\ b = Escape
    <2>1. /\ UnstuffByte(u, b).escaping = TRUE /\ UnstuffByte(v, b).escaping = TRUE
          /\ UnstuffByte(u, b).out = u.out /\ UnstuffByte(v, b).out = v.out
        BY <1>1, <1>6 DEF UnstuffByte, Unstuffing
    <2> QED BY <1>1, <2>1 DEF Alike
<1>7. CASE ~u.escaping /\ b # Escape
    <2>1. /\ UnstuffByte(u, b).escaping = u.escaping
          /\ UnstuffByte(v, b).escaping = v.escaping
          /\ UnstuffByte(u, b).out = Append(u.out, b)
          /\ UnstuffByte(v, b).out = Append(v.out, b)
        BY <1>1, <1>7 DEF UnstuffByte, Unstuffing
    <2> QED BY <1>1, <1>3, <2>1 DEF Alike
<1> QED BY <1>5, <1>6, <1>7

LEMMA OtherByteMakesAlike ==
    ASSUME NEW u \in Unstuffing, NEW b \in Byte, NEW c \in Byte, b # c,
           b = Escape <=> c = Escape
    PROVE  Alike(UnstuffByte(u, b), UnstuffByte(u, c))
<1>1. u.out \in Seq(Byte) /\ b # Escape /\ c # Escape BY DEF Unstuffing
<1>2. 32 \in Byte BY DEF Byte
<1> DEFINE x == XorByte(b, 32)
           y == XorByte(c, 32)
<1>3. x \in Byte /\ y \in Byte /\ XorByte(x, 32) = b /\ XorByte(y, 32) = c
    BY <1>2, XorUndoes
<1> HIDE DEF x, y
<1>4. x # y BY <1>3
<1>5. CASE u.escaping
    <2>1. /\ UnstuffByte(u, b).escaping = FALSE /\ UnstuffByte(u, c).escaping = FALSE
          /\ UnstuffByte(u, b).out = Append(u.out, x)
          /\ UnstuffByte(u, c).out = Append(u.out, y)
        BY <1>5 DEF UnstuffByte, x, y
    <2>2. OneByteApart(Append(u.out, x), Append(u.out, y))
        BY <1>1, <1>3, <1>4, ApartAtEnd
    <2> QED BY <2>1, <2>2 DEF Alike
<1>6. CASE ~u.escaping
    <2>1. /\ UnstuffByte(u, b).escaping = u.escaping
          /\ UnstuffByte(u, c).escaping = u.escaping
          /\ UnstuffByte(u, b).out = Append(u.out, b)
          /\ UnstuffByte(u, c).out = Append(u.out, c)
        BY <1>1, <1>6 DEF UnstuffByte, Unstuffing
    <2>2. OneByteApart(Append(u.out, b), Append(u.out, c)) BY <1>1, ApartAtEnd
    <2> QED BY <2>1, <2>2 DEF Alike
<1> QED BY <1>5, <1>6

LEMMA StaysAlike ==
    ASSUME NEW h \in Seq(Byte), NEW k \in Seq(Byte), NEW z \in Seq(Byte),
           Alike(Fold(UnstuffStep, Begun, h), Fold(UnstuffStep, Begun, k))
    PROVE  Alike(Fold(UnstuffStep, Begun, h \o z), Fold(UnstuffStep, Begun, k \o z))
<1> DEFINE T == {t \in Seq(Byte) :
                    Alike(Fold(UnstuffStep, Begun, h \o t),
                          Fold(UnstuffStep, Begun, k \o t))}
<1>1. NoBytes \in T
    <2>1. NoBytes \in Seq(Byte) /\ h \o NoBytes = h /\ k \o NoBytes = k BY DEF NoBytes
    <2> QED BY <2>1
<1>2. ASSUME NEW t \in Seq(Byte), NEW b \in Byte, t \in T PROVE Append(t, b) \in T
    <2>1. /\ Append(t, b) \in Seq(Byte) /\ h \o t \in Seq(Byte) /\ k \o t \in Seq(Byte)
          /\ h \o Append(t, b) = Append(h \o t, b)
          /\ k \o Append(t, b) = Append(k \o t, b)
        OBVIOUS
    <2> DEFINE u == Fold(UnstuffStep, Begun, h \o t)
               v == Fold(UnstuffStep, Begun, k \o t)
    <2>2. Fold(UnstuffStep, Begun, Append(h \o t, b)) = UnstuffByte(u, b)
        BY <2>1, UnstuffAlong
    <2>3. Fold(UnstuffStep, Begun, Append(k \o t, b)) = UnstuffByte(v, b)
        BY <2>1, UnstuffAlong
    <2>4. u \in Unstuffing /\ v \in Unstuffing BY <2>1, UnstuffAlong
    <2>5. Alike(u, v) BY <1>2
    <2> HIDE DEF u, v
    <2>6. Alike(UnstuffByte(u, b), UnstuffByte(v, b)) BY <2>4, <2>5, SameByteKeepsAlike
    <2> QED BY <2>1, <2>2, <2>3, <2>6
<1> HIDE DEF T
<1>3. z \in T BY <1>1, <1>2, SeqSetInduction DEF NoBytes
<1> QED BY <1>3 DEF T

LEMMA UnstuffKeepsApart ==
    ASSUME NEW s \in Seq(Byte), NEW t \in Seq(Byte),
           OneByteApart(s, t), EscapesAgree(s, t)
    PROVE  OneByteApart(Unstuff(s), Unstuff(t))
<1>1. PICK i \in DOMAIN s : s[i] # t[i] /\ \A j \in DOMAIN s \ {i} : s[j] = t[j]
    BY DEF OneByteApart
<1> DEFINE n == Len(s)
           a == SubSeq(s, 1, i - 1)
           z == SubSeq(s, i + 1, n)
           h == Append(a, s[i])
           k == Append(a, t[i])
<1>2. /\ i \in 1 .. n /\ n \in Nat /\ Len(t) = n /\ s[i] \in Byte /\ t[i] \in Byte
      /\ (s[i] = Escape <=> t[i] = Escape)
    BY DEF OneByteApart, EscapesAgree
<1>3. a \in Seq(Byte) /\ z \in Seq(Byte) /\ h \in Seq(Byte) /\ k \in Seq(Byte)
    BY <1>2
<1>4. s = h \o z BY <1>2, SplitAt
<1>5. t = k \o z
    <2>1. SubSeq(t, 1, i - 1) = a
        <3>1. \A j \in 1 .. i - 1 : s[j] = t[j] BY <1>1, <1>2
        <3> QED BY <1>2, <3>1
    <2>2. SubSeq(t, i + 1, n) = z
        <3>1. \A j \in i + 1 .. n : s[j] = t[j] BY <1>1, <1>2
        <3> QED BY <1>2, <3>1
    <2>3. t = Append(SubSeq(t, 1, i - 1), t[i]) \o SubSeq(t, i + 1, n)
        BY <1>2, SplitAt
    <2> QED BY <2>1, <2>2, <2>3
<1> DEFINE r == Fold(UnstuffStep, Begun, a)
           u == Fold(UnstuffStep, Begun, s)
           v == Fold(UnstuffStep, Begun, t)
<1>6. Fold(UnstuffStep, Begun, h) = UnstuffByte(r, s[i])
    BY <1>2, <1>3, UnstuffAlong
<1>7. Fold(UnstuffStep, Begun, k) = UnstuffByte(r, t[i])
    BY <1>2, <1>3, UnstuffAlong
<1> HIDE DEF a, z, h, k
<1>8. r \in Unstuffing BY <1>3, UnstuffAlong
<1>9. Alike(Fold(UnstuffStep, Begun, h), Fold(UnstuffStep, Begun, k))
    <2> HIDE DEF r
    <2>1. Alike(UnstuffByte(r, s[i]), UnstuffByte(r, t[i]))
        BY <1>1, <1>2, <1>8, OtherByteMakesAlike
    <2> QED BY <1>6, <1>7, <2>1
<1>10. Alike(u, v) BY <1>3, <1>4, <1>5, <1>9, StaysAlike
<1>11. u \in Unstuffing /\ v \in Unstuffing BY UnstuffAlong
<1>12. /\ Unstuff(s) = IF u.escaping THEN Append(u.out, Escape) ELSE u.out
       /\ Unstuff(t) = IF v.escaping THEN Append(v.out, Escape) ELSE v.out
    <2>1. FoldLeft(UnstuffByte, Begun, s) = u /\ FoldLeft(UnstuffByte, Begun, t) = v
        BY UnstuffIsFold
    <2> QED BY <2>1 DEF Unstuff, Begun
<1> HIDE DEF u, v
<1>13. Escape \in Byte BY DEF Escape, Byte
<1>14. u.out \in Seq(Byte) /\ v.out \in Seq(Byte) BY <1>11 DEF Unstuffing
<1>15. u.escaping = v.escaping /\ OneByteApart(u.out, v.out) BY <1>10 DEF Alike
<1>16. OneByteApart(Append(u.out, Escape), Append(v.out, Escape))
    BY <1>13, <1>14, <1>15, ApartAppend
<1> QED BY <1>12, <1>15, <1>16

LEMMA WrongByteOnWireRefused ==
    ASSUME NEW frame \in HdlcFrame, NEW bytes \in Seq(Byte),
           OneByteApart(ToBytes(frame), bytes), EscapesAgree(ToBytes(frame), bytes)
    PROVE  ~FromBytes(bytes).ok
<1> DEFINE w == ToBytes(frame)
           n == Len(w)
<1>1. w \in Seq(Byte) BY FrameIsWritten
<1>2. PICK i \in DOMAIN w : w[i] # bytes[i] /\ \A j \in DOMAIN w \ {i} : w[j] = bytes[j]
    BY DEF OneByteApart
<1>3. w[1] = Flag /\ w[n] = Flag BY ContentIsBody
<1>4. Len(bytes) = n BY DEF OneByteApart
<1>5. \A j \in DOMAIN w : w[j] = Escape <=> bytes[j] = Escape BY DEF EscapesAgree
<1>6. i \in 1 .. n /\ n \in Nat BY <1>1
<1>7. CASE i = 1 \/ i = n
    <2>1. bytes[1] # Flag \/ bytes[Len(bytes)] # Flag BY <1>2, <1>3, <1>4, <1>7
    <2>2. FromBytes(bytes) = Error("InvalidData") BY <2>1 DEF FromBytes
    <2> QED BY <2>2 DEF Error
<1>8. CASE i # 1 /\ i # n
    <2> HIDE DEF w
    <2> DEFINE s == SubSeq(w, 2, n - 1)
               t == SubSeq(bytes, 2, n - 1)
    <2>1. /\ s \in Seq(Byte) /\ t \in Seq(Byte) /\ Len(s) = n - 2 /\ Len(t) = n - 2
          /\ DOMAIN s = 1 .. n - 2 /\ DOMAIN t = 1 .. n - 2
          /\ \A j \in 1 .. n - 2 : s[j] = w[j + 1] /\ t[j] = bytes[j + 1]
        BY <1>1, <1>4, <1>6, <1>8
    <2> HIDE DEF s, t
    <2>2. i - 1 \in 1 .. n - 2 /\ (i - 1) + 1 = i BY <1>6, <1>8
    <2>3. s[i - 1] # t[i - 1] BY <1>2, <2>1, <2>2
    <2>4. ASSUME NEW j \in 1 .. n - 2 PROVE j + 1 \in DOMAIN w
        BY <1>1, <1>6, <2>4
    <2>5. ASSUME NEW j \in (1 .. n - 2) \ {i - 1} PROVE s[j] = t[j]
        <3>1. j + 1 \in DOMAIN w /\ j + 1 # i BY <1>6, <2>4, <2>5
        <3> QED BY <1>2, <2>1, <3>1
    <2>6. OneByteApart(s, t) BY <2>1, <2>2, <2>3, <2>5 DEF OneByteApart
    <2>7. EscapesAgree(s, t) BY <1>5, <2>1, <2>4 DEF EscapesAgree
    <2>8. OneByteApart(Unstuff(s), Unstuff(t)) BY <2>1, <2>6, <2>7, UnstuffKeepsApart
    <2>9. Content(w) = Unstuff(s) /\ Content(bytes) = Unstuff(t)
        BY <1>4 DEF Content, s, t
    <2>10. OneByteApart(Content(w), Content(bytes)) BY <2>8, <2>9
    <2> QED BY <2>10, WrongByteRefused DEF w
<1> QED BY <1>7, <1>8

(***************************************************************************)
(* What from_bytes answers: the fields of a frame it decodes fit in their  *)
(* bits, and otherwise it gives one of the errors of the code.             *)
(***************************************************************************)
LEMMA AddressBytesType ==
    ASSUME NEW s \in Seq(Byte)
    PROVE  /\ AddressBytes(s) \in Seq(Byte)
           /\ Len(AddressBytes(s)) <= Len(s)
           /\ Len(s) > 0 /\ s[1] % 2 = 1 => AddressBytes(s) = <<s[1]>>
<1> DEFINE ends == {i \in DOMAIN s : s[i] % 2 = 1}
           first == CHOOSE i \in ends : \A j \in ends : i <= j
           last == IF ends = {} THEN Len(s) ELSE first
<1>1. AddressBytes(s) = SubSeq(s, 1, last) BY DEF AddressBytes
<1>2. ends \subseteq 1 .. Len(s) /\ Len(s) \in Nat OBVIOUS
<1>3. ASSUME ends # {} PROVE first \in ends /\ \A j \in ends : first <= j
    <2>1. ends \subseteq Nat BY <1>2
    <2> HIDE DEF ends
    <2>2. \E i \in ends : \A j \in ends : i <= j BY <1>3, <2>1, LeastExists
    <2> QED BY <2>2
<1>4. last \in 0 .. Len(s) BY <1>2, <1>3
<1>5. ASSUME Len(s) > 0, s[1] % 2 = 1 PROVE last = 1
    <2>1. 1 \in ends BY <1>5
    <2> HIDE DEF first
    <2> QED BY <1>2, <1>3, <2>1
<1> HIDE DEF last
<1>6. SubSeq(s, 1, last) \in Seq(Byte) /\ Len(SubSeq(s, 1, last)) = last
    BY <1>2, <1>4
<1>7. ASSUME Len(s) > 0 PROVE SubSeq(s, 1, 1) = <<s[1]>>
    <2> DEFINE p == SubSeq(s, 1, 1)
               q == <<s[1]>>
    <2>1. s[1] \in Byte BY <1>2, <1>7
    <2>2. q \in Seq(Byte) /\ Len(q) = 1 /\ q[1] = s[1] BY <2>1
    <2>3. p \in Seq(Byte) /\ Len(p) = 1 /\ p[1] = s[1] BY <1>2, <1>7
    <2> HIDE DEF p, q
    <2>4. \A i \in 1 .. Len(p) : p[i] = q[i] BY <2>2, <2>3
    <2>5. p = q BY <2>2, <2>3, <2>4, SameElements
    <2> QED BY <2>5 DEF p, q
<1> QED BY <1>1, <1>2, <1>4, <1>5, <1>6, <1>7

LEMMA AddressIsRead ==
    ASSUME NEW s \in Seq(Byte)
    PROVE  /\ AddressParse(s, "Client").logical \in 0 .. 127
           /\ AddressParse(s, "Server").logical \in Nat
           /\ AddressParse(s, "Server").logical < 16384
<1>1. \A b \in Byte : b \div 2 \in 0 .. 127 BY SMT DEF Byte
<1>2. \A x, y \in 0 .. 127 : x + 128 * y \in Nat /\ x + 128 * y < 16384 BY SMT
<1>3. Len(s) \in Nat /\ \A i \in 1 .. Len(s) : s[i] \in Byte OBVIOUS
<1>4. Len(s) > 0 => s[1] \div 2 \in 0 .. 127
    <2>1. Len(s) > 0 => s[1] \in Byte BY <1>3
    <2> QED BY <1>1, <2>1
<1>5. Len(s) > 1 => s[2] \div 2 \in 0 .. 127
    <2>1. Len(s) > 1 => s[2] \in Byte BY <1>3
    <2> QED BY <1>1, <2>1
<1>6. AddressParse(s, "Client").logical \in 0 .. 127
    <2>1. AddressParse(s, "Client").logical = IF Len(s) = 0 THEN 0 ELSE s[1] \div 2
        BY DEF AddressParse
    <2>2. Len(s) # 0 => Len(s) > 0 BY <1>3
    <2>3. 0 \in 0 .. 127 OBVIOUS
    <2> QED BY <1>4, <2>1, <2>2, <2>3
<1>7. /\ AddressParse(s, "Server").logical \in Nat
      /\ AddressParse(s, "Server").logical < 16384
    <2> DEFINE l == AddressParse(s, "Server").logical
               x == s[1] \div 2
               y == s[2] \div 2
    <2>1. l = IF Len(s) = 0 THEN 0
              ELSE IF ~(s[1] % 2 = 1) /\ Len(s) > 1 THEN x + 128 * y ELSE x
        BY DEF AddressParse
    <2>2. \/ l = 0
          \/ Len(s) > 0 /\ l = x
          \/ Len(s) > 0 /\ Len(s) > 1 /\ l = x + 128 * y
        BY <1>3, <2>1
    <2> HIDE DEF l, x, y
    <2>3. \/ l = 0
          \/ x \in 0 .. 127 /\ l = x
          \/ x \in 0 .. 127 /\ y \in 0 .. 127 /\ l = x + 128 * y
        BY <1>4, <1>5, <2>2 DEF x, y
    <2>4. ASSUME x \in 0 .. 127, l = x PROVE l \in Nat /\ l < 16384 BY <2>4, SMT
    <2>5. ASSUME x \in 0 .. 127, y \in 0 .. 127, l = x + 128 * y
          PROVE  l \in Nat /\ l < 16384
        BY <2>5, <1>2
    <2>6. ASSUME l = 0 PROVE l \in Nat /\ l < 16384 BY <2>6, SMT
    <2>7. l \in Nat /\ l < 16384 BY <2>3, <2>4, <2>5, <2>6
    <2> QED BY <2>7 DEF l
<1> QED BY <1>6, <1>7

LEMMA ControlIsRead ==
    ASSUME NEW b \in Byte
    PROVE  /\ ControlFromByte(b).ns \in 0 .. 7 /\ ControlFromByte(b).nr \in 0 .. 7
           /\ ControlFromByte(b).type \in ControlType
<1>1. SendNumber(b) \in 0 .. 7 /\ b \div 32 \in 0 .. 7 BY SMT DEF SendNumber, Byte
<1> DEFINE final == (b \div 16) % 2 = 1
           code == IF final THEN b - 16 ELSE b
           named == {t \in DOMAIN UCode : UCode[t] = code}
           t == CHOOSE t \in named : TRUE
           control(u, s, r) == [type |-> u, ns |-> s, nr |-> r, final |-> final]
<1>2. DOMAIN UCode \subseteq ControlType BY DEF UCode, ControlType
<1>3. named # {} => t \in ControlType BY <1>2
<1>4. \/ ControlFromByte(b) = control("Information", SendNumber(b), b \div 32)
      \/ named # {} /\ ControlFromByte(b) = control(t, 0, 0)
      \/ ControlFromByte(b) = control("RR", 0, b \div 32)
      \/ ControlFromByte(b) = control("Unknown", 0, 0)
    BY DEF ControlFromByte
<1> HIDE DEF final, named, t
<1> QED BY <1>1, <1>3, <1>4 DEF ControlType

LEMMA ErrorsAreOfTheCode ==
    /\ Decoded(Error("InvalidData")) /\ Decoded(Error("BufferUnderflow"))
    /\ Decoded(Error("CrcError")) /\ Decoded(Nothing)
BY DEF Decoded, Error, Nothing

LEMMA ContentIsRead ==
    ASSUME NEW content \in Seq(Byte)
    PROVE  Decoded(ContentToFrame(content))
<1> DEFINE n == Len(content)
           format == FormatFromBytes(content)
           u == SubSeq(content, 3, n)
           dest == AddressBytes(u)
           v == SubSeq(content, 3 + Len(dest), n)
           source == AddressBytes(v)
           at == 3 + Len(dest) + Len(source)
           control == ControlFromByte(content[at])
           hasHcs == control.type \in {"Information", "UI"}
           information == SubSeq(content, IF hasHcs THEN at + 3 ELSE at + 1, n - 2)
<1>1. n \in Nat /\ u \in Seq(Byte) OBVIOUS
<1>2. dest \in Seq(Byte) /\ Len(dest) \in Nat
    <2> HIDE DEF u
    <2> QED BY <1>1, AddressBytesType
<1>3. v \in Seq(Byte)
    <2> HIDE DEF dest
    <2> QED BY <1>2
<1>4. source \in Seq(Byte) /\ Len(source) \in Nat
    <2> HIDE DEF v
    <2> QED BY <1>3, AddressBytesType
<1>5. \/ ~format.ok /\ ContentToFrame(content) = format
      \/ ContentToFrame(content) = Error("BufferUnderflow")
      \/ ContentToFrame(content) = Error("CrcError")
      \/ /\ at <= n
         /\ ContentToFrame(content) =
                Ok([format |-> format.val, dest |-> AddressParse(dest, "Client"),
                    source |-> AddressParse(source, "Server"), control |-> control,
                    information |-> information])
    <2>1. \/ ~format.ok /\ ContentToFrame(content) = format
          \/ ContentToFrame(content) = Error("BufferUnderflow")
          \/ ContentToFrame(content) = Error("CrcError")
          \/ /\ ~(at > n)
             /\ ContentToFrame(content) =
                    Ok([format |-> format.val, dest |-> AddressParse(dest, "Client"),
                        source |-> AddressParse(source, "Server"), control |-> control,
                        information |-> information])
        BY DEF ContentToFrame
    <2> HIDE DEF n, u, dest, v, source, format, control, information
    <2>2. at \in Nat BY <1>2, <1>4
    <2> QED BY <1>1, <2>1, <2>2
<1>6. CASE ~format.ok /\ ContentToFrame(content) = format
    <2>1. \/ format = Error("BufferUnderflow") \/ format = Error("InvalidData")
        BY <1>6 DEF FormatFromBytes, Ok
    <2> QED BY <1>6, <2>1, ErrorsAreOfTheCode
<1>7. CASE ContentToFrame(content) \in {Error("BufferUnderflow"), Error("CrcError")}
    BY <1>7, ErrorsAreOfTheCode
<1>8. CASE /\ at <= n
           /\ ContentToFrame(content) =
                Ok([format |-> format.val, dest |-> AddressParse(dest, "Client"),
                    source |-> AddressParse(source, "Server"), control |-> control,
                    information |-> information])
    <2>1. AddressParse(dest, "Client").logical \in 0 .. 127
        <3> HIDE DEF dest
        <3> QED BY <1>2, AddressIsRead
    <2>2. /\ AddressParse(source, "Server").logical \in Nat
          /\ AddressParse(source, "Server").logical < 16384
        <3> HIDE DEF source
        <3> QED BY <1>4, AddressIsRead
    <2> HIDE DEF dest, source, format
    <2>3. at \in 1 .. n BY <1>1, <1>2, <1>4, <1>8
    <2>4. content[at] \in Byte BY <2>3
    <2>5. control.ns \in 0 .. 7 /\ control.nr \in 0 .. 7 BY <2>4, ControlIsRead
    <2> HIDE DEF control
    <2>6. information \in Seq(Byte)
        <3>1. at \in Nat BY <2>3
        <3> HIDE DEF at
        <3> QED BY <1>1, <3>1
    <2> HIDE DEF information, n
    <2> QED BY <1>8, <2>1, <2>2, <2>5, <2>6 DEF Decoded, Ok
<1> HIDE DEF n, format, dest, source, at, control, information
<1> QED BY <1>5, <1>6, <1>7, <1>8

LEMMA FromBytesType ==
    ASSUME NEW bytes \in Seq(Byte)
    PROVE  Decoded(FromBytes(bytes))
<1>1. SubSeq(bytes, 2, Len(bytes) - 1) \in Seq(Byte) OBVIOUS
<1>2. Content(bytes) \in Seq(Byte) BY <1>1, UnstuffType DEF Content
<1>3. \/ FromBytes(bytes) = Error("InvalidData")
      \/ FromBytes(bytes) = ContentToFrame(Content(bytes))
    BY DEF FromBytes
<1> QED BY <1>2, <1>3, ErrorsAreOfTheCode, ContentIsRead

(***************************************************************************)
(* A frame that a meter answers with is read as it was written: the format,*)
(* the addresses and the control field come back from their bytes ...      *)
(***************************************************************************)
SegmentBit == {0, 2048}
WordOf(l, seg) == 40960 + (l % 2048) + seg

LEMMA FormatWord ==
    ASSUME NEW l \in Nat, l < 2048, NEW seg \in SegmentBit,
           NEW w \in Nat, w = WordOf(l, seg)
    PROVE  /\ HighByte(w) \in Byte /\ LowByte(w) \in Byte
           /\ HighByte(w) \div 16 = 10
           /\ (HighByte(w) % 8) * 256 + LowByte(w) = l
           /\ (HighByte(w) \div 8) % 2 = 1 <=> seg = 2048
<1>1. /\ w = 40960 + l + seg /\ w \in Nat BY SMT DEF SegmentBit, WordOf
<1>2. HighByte(w) = w \div 256
    BY <1>1, SMT DEF HighByte, SegmentBit
<1>3. LowByte(w) = w % 256 BY DEF LowByte
<1>4. w \div 256 \in Byte /\ w % 256 \in Byte BY <1>1, SMT DEF Byte, SegmentBit
<1>5. (w \div 256) \div 16 = 10 BY <1>1, SMT DEF SegmentBit
<1>6. ((w \div 256) % 8) * 256 + (w % 256) = l BY <1>1, SMT DEF SegmentBit
<1>7. ((w \div 256) \div 8) % 2 = 1 <=> seg = 2048 BY <1>1, SMT DEF SegmentBit
<1> QED BY <1>2, <1>3, <1>4, <1>5, <1>6, <1>7

LEMMA FirstTwo ==
    ASSUME NEW a \in Byte, NEW b \in Byte, NEW rest \in Seq(Byte)
    PROVE  LET bytes == <<a, b>> \o rest
           IN  bytes[1] = a /\ bytes[2] = b /\ ~(Len(bytes) < 2)
<1> DEFINE t == <<a, b>>
<1>1. t \in Seq(Byte) /\ Len(t) = 2 /\ t[1] = a /\ t[2] = b OBVIOUS
<1> HIDE DEF t
<1>2. Len(t \o rest) = Len(t) + Len(rest)
      /\ \A i \in 1 .. Len(t) : (t \o rest)[i] = t[i]
    BY <1>1, Joined, ZenonT(60)
<1>3. Len(rest) \in Nat OBVIOUS
<1>4. (t \o rest)[1] = a /\ (t \o rest)[2] = b /\ ~(Len(t \o rest) < 2)
    BY <1>1, <1>2, <1>3
<1> QED BY <1>4 DEF t

LEMMA FormatBytesComeBack ==
    ASSUME NEW l \in Nat, l < 2048, NEW seg \in SegmentBit,
           NEW w \in Nat, w = WordOf(l, seg), NEW rest \in Seq(Byte)
    PROVE  /\ FormatFromBytes(<<HighByte(w), LowByte(w)>> \o rest)
                 = Ok([length |-> l, segmented |-> seg = 2048])
           /\ <<HighByte(w), LowByte(w)>> \in Seq(Byte)
           /\ Len(<<HighByte(w), LowByte(w)>>) = 2
<1> DEFINE a == HighByte(w)
           b == LowByte(w)
           bytes == <<a, b>> \o rest
<1>1. /\ a \in Byte /\ b \in Byte /\ a \div 16 = 10 /\ (a % 8) * 256 + b = l
      /\ (a \div 8) % 2 = 1 <=> seg = 2048
    BY FormatWord
<1> HIDE DEF a, b
<1>2. bytes[1] = a /\ bytes[2] = b /\ ~(Len(bytes) < 2) BY <1>1, FirstTwo
<1> HIDE DEF bytes
<1>3. FormatFromBytes(bytes) = Ok([length |-> l, segmented |-> seg = 2048])
    <2>1. FormatFromBytes(bytes)
             = Ok([length |-> (a % 8) * 256 + b, segmented |-> (a \div 8) % 2 = 1])
        BY <1>1, <1>2 DEF FormatFromBytes
    <2>2. ((a \div 8) % 2 = 1) = (seg = 2048) BY <1>1
    <2> QED BY <1>1, <2>1, <2>2
<1>4. <<a, b>> \in Seq(Byte) /\ Len(<<a, b>>) = 2 BY <1>1
<1> QED BY <1>3, <1>4 DEF bytes, a, b

LEMMA FormatComesBack ==
    ASSUME NEW format \in [length : Nat, segmented : BOOLEAN], format.length < 2048,
           NEW rest \in Seq(Byte)
    PROVE  /\ FormatFromBytes(FormatToBytes(format) \o rest) = Ok(format)
           /\ FormatToBytes(format) \in Seq(Byte) /\ Len(FormatToBytes(format)) = 2
<1> DEFINE l == format.length
           seg == IF format.segmented THEN 2048 ELSE 0
           w == WordOf(l, seg)
<1>1. l \in Nat /\ l < 2048 /\ seg \in SegmentBit BY DEF SegmentBit
<1>2. (seg = 2048) = format.segmented OBVIOUS
<1>3. FormatToBytes(format) = <<HighByte(w), LowByte(w)>> BY DEF FormatToBytes, WordOf
<1>4. format = [length |-> l, segmented |-> format.segmented] OBVIOUS
<1> HIDE DEF l, seg
<1>5. w \in Nat BY <1>1, SMT DEF SegmentBit, WordOf
<1>6. /\ FormatFromBytes(<<HighByte(w), LowByte(w)>> \o rest)
             = Ok([length |-> l, segmented |-> seg = 2048])
      /\ <<HighByte(w), LowByte(w)>> \in Seq(Byte)
      /\ Len(<<HighByte(w), LowByte(w)>>) = 2
    <2>1. w = WordOf(l, seg) OBVIOUS
    <2> HIDE DEF w
    <2> QED BY <1>1, <1>5, <2>1, FormatBytesComeBack
<1> QED BY <1>2, <1>3, <1>4, <1>6

LEMMA AddressByte ==
    ASSUME NEW l \in Nat, l < 128
    PROVE  /\ (2 * l + 1) % 256 \in Byte /\ (2 * l + 1) % 256 = 2 * l + 1
           /\ (l % 128) * 2 + 1 = 2 * l + 1
           /\ (2 * l + 1) % 2 = 1 /\ (2 * l + 1) \div 2 = l
           /\ ~((l \div 128) % 256 # 0)
<1>1. (2 * l + 1) % 256 = 2 * l + 1 /\ 2 * l + 1 \in Byte BY SMT DEF Byte
<1>2. (l % 128) * 2 + 1 = 2 * l + 1 BY SMT
<1>3. (2 * l + 1) % 2 = 1 /\ (2 * l + 1) \div 2 = l BY SMT
<1>4. ~((l \div 128) % 256 # 0) BY SMT
<1> QED BY <1>1, <1>2, <1>3, <1>4

LEMMA ClientComesBack ==
    ASSUME NEW address \in HdlcAddress, OneByteAddress("Client", address)
    PROVE  \E b \in Byte : /\ AddressToBytes(address) = <<b>> /\ b % 2 = 1
                           /\ AddressParse(<<b>>, "Client") = address
<1>1. /\ address.type = "Client" /\ address.logical \in Nat /\ address.logical < 128
      /\ address.physical = <<>>
    BY DEF OneByteAddress, HdlcAddress, Word
<1> DEFINE l == address.logical
           b == (2 * l + 1) % 256
<1>2. AddressToBytes(address) = <<b>> BY <1>1 DEF AddressToBytes
<1>3. b \in Byte /\ b % 2 = 1 /\ b \div 2 = l BY <1>1, AddressByte
<1> HIDE DEF b
<1>4. AddressParse(<<b>>, "Client") = [type |-> "Client", logical |-> l, physical |-> <<>>]
    BY <1>3 DEF AddressParse
<1>5. address = [type |-> "Client", logical |-> l, physical |-> <<>>]
    BY <1>1 DEF HdlcAddress
<1> QED BY <1>2, <1>3, <1>4, <1>5

LEMMA ServerComesBack ==
    ASSUME NEW address \in HdlcAddress, OneByteAddress("Server", address)
    PROVE  \E b \in Byte : /\ AddressToBytes(address) = <<b>> /\ b % 2 = 1
                           /\ AddressParse(<<b>>, "Server") = address
<1>1. /\ address.type = "Server" /\ address.logical \in Nat /\ address.logical < 128
      /\ address.physical = <<>>
    BY DEF OneByteAddress, HdlcAddress, Word
<1> DEFINE l == address.logical
           b == (l % 128) * 2 + 1
<1>2. AddressToBytes(address) = <<b>>
    <2>1. ~((l \div 128) % 256 # 0) BY <1>1, AddressByte
    <2>2. AddressToBytes(address) = <<>> \o <<b>> BY <1>1, <2>1 DEF AddressToBytes
    <2>3. b \in Int BY <1>1, SMT
    <2> HIDE DEF b
    <2>4. <<>> \o <<b>> = <<b>> BY <2>3
    <2> QED BY <2>2, <2>4
<1>3. b \in Byte /\ b % 2 = 1 /\ b \div 2 = l BY <1>1, AddressByte, SMTT(40)
<1> HIDE DEF b
<1>4. AddressParse(<<b>>, "Server") = [type |-> "Server", logical |-> l, physical |-> <<>>]
    <2>1. Len(<<b>>) = 1 /\ <<b>>[1] = b OBVIOUS
    <2> QED BY <1>3, <2>1 DEF AddressParse
<1>5. address = [type |-> "Server", logical |-> l, physical |-> <<>>]
    BY <1>1 DEF HdlcAddress
<1> QED BY <1>2, <1>3, <1>4, <1>5

Numbered(ns, nr, final) == ns * 2 + final + nr * 32

LEMMA InformationByte ==
    ASSUME NEW ns \in 0 .. 7, NEW nr \in 0 .. 7, NEW final \in FinalBit,
           NEW b \in Nat, b = Numbered(ns, nr, final)
    PROVE  /\ b % 2 = 0 /\ SendNumber(b) = ns /\ b \div 32 = nr
           /\ (b \div 16) % 2 = 1 <=> final = 16
           /\ (ns % 8) * 2 + final + (nr % 8) * 32 = b
<1>1. b % 2 = 0 BY SMT DEF Numbered, FinalBit
<1>2. SendNumber(b) = ns BY SMT DEF Numbered, FinalBit, SendNumber
<1>3. b \div 32 = nr BY SMT DEF Numbered, FinalBit
<1>4. (b \div 16) % 2 = 1 <=> final = 16 BY SMT DEF Numbered, FinalBit
<1>5. ns % 8 = ns /\ nr % 8 = nr BY SMT
<1>6. (ns % 8) * 2 + final + (nr % 8) * 32 = b BY <1>5 DEF Numbered
<1> QED BY <1>1, <1>2, <1>3, <1>4, <1>6

Received(nr, final) == 1 + nr * 32 + final

LEMMA ReceiveByte ==
    ASSUME NEW nr \in 0 .. 7, NEW final \in FinalBit, NEW b \in Nat, b = Received(nr, final)
    PROVE  /\ b % 256 = b /\ b % 2 = 1 /\ b % 4 = 1 /\ b \div 32 = nr
           /\ (b \div 16) % 2 = 1 <=> final = 16
           /\ b - final \notin {131, 99, 67, 3}
<1>1. b % 256 = b BY SMT DEF Received, FinalBit
<1>2. b % 2 = 1 /\ b % 4 = 1 BY SMT DEF Received, FinalBit
<1>3. b \div 32 = nr BY SMT DEF Received, FinalBit
<1>4. (b \div 16) % 2 = 1 <=> final = 16 BY SMT DEF Received, FinalBit
<1>5. b - final \notin {131, 99, 67, 3} BY SMT DEF Received, FinalBit
<1> QED BY <1>1, <1>2, <1>3, <1>4, <1>5

UnnumberedCode == {131, 99, 67, 3}

LEMMA UnnumberedByte ==
    ASSUME NEW code \in UnnumberedCode, NEW final \in FinalBit
    PROVE  /\ code + final \in Nat /\ (code + final) % 2 = 1
           /\ ((code + final) \div 16) % 2 = 1 <=> final = 16
<1>1. code + final \in Nat /\ (code + final) % 2 = 1 BY SMT DEF UnnumberedCode, FinalBit
<1>2. ((code + final) \div 16) % 2 = 1 <=> final = 16 BY SMT DEF UnnumberedCode, FinalBit
<1> QED BY <1>1, <1>2

LEMMA ControlComesBack ==
    ASSUME NEW control \in [type : ControlType, ns : Nat, nr : Nat, final : BOOLEAN],
           control.ns < 8, control.nr < 8, control.type # "Unknown",
           control.type # "Information" => control.ns = 0,
           control.type \notin {"Information", "RR"} => control.nr = 0
    PROVE  ControlFromByte(ControlToByte(control)) = control
<1> DEFINE final == IF control.final THEN 16 ELSE 0
           ns == control.ns
           nr == control.nr
           record(t, s, r) == [type |-> t, ns |-> s, nr |-> r, final |-> control.final]
<1>1. /\ ns \in 0 .. 7 /\ nr \in 0 .. 7 /\ final \in FinalBit
      /\ (final = 16) = control.final /\ control.type \in ControlType
    BY DEF FinalBit, Byte
<1>2. control = record(control.type, ns, nr) OBVIOUS
<1>3. /\ DOMAIN UCode = {"SNRM", "UA", "Disconnect", "UI"}
      /\ UCode["SNRM"] = 131 /\ UCode["UA"] = 99 /\ UCode["Disconnect"] = 67
      /\ UCode["UI"] = 3
    BY DEF UCode
<1>4. CASE control.type = "Information"
    <2> DEFINE b == Numbered(ns, nr, final)
    <2>1. ControlToByte(control) = (ns % 8) * 2 + final + (nr % 8) * 32
        BY <1>3, <1>4 DEF ControlToByte
    <2> HIDE DEF ns, nr, final
    <2>2. b \in Nat BY <1>1, SMT DEF Numbered, FinalBit
    <2>3. b = Numbered(ns, nr, final) OBVIOUS
    <2> HIDE DEF b
    <2>4. /\ b % 2 = 0 /\ SendNumber(b) = ns /\ b \div 32 = nr
          /\ (b \div 16) % 2 = 1 <=> final = 16
          /\ (ns % 8) * 2 + final + (nr % 8) * 32 = b
        BY <1>1, <2>2, <2>3, InformationByte
    <2>5. ((b \div 16) % 2 = 1) = control.final BY <1>1, <2>4
    <2>6. ControlFromByte(b) = record("Information", ns, nr)
        BY <2>4, <2>5 DEF ControlFromByte
    <2> QED BY <1>2, <1>4, <2>1, <2>4, <2>6
<1>5. CASE control.type \in {"SNRM", "UA", "Disconnect", "UI"}
    <2> DEFINE code == UCode[control.type]
               b == code + final
    <2>1. ControlToByte(control) = b BY <1>3, <1>5 DEF ControlToByte
    <2>2. code \in UnnumberedCode BY <1>3, <1>5 DEF UnnumberedCode
    <2>3. \A t \in DOMAIN UCode : UCode[t] = code <=> t = control.type
        BY <1>3, <1>5
    <2>4. ns = 0 /\ nr = 0 BY <1>5
    <2> HIDE DEF code, ns, nr, final
    <2>5. b \in Nat /\ b % 2 = 1 /\ ((b \div 16) % 2 = 1 <=> final = 16)
        BY <1>1, <2>2, UnnumberedByte
    <2>6. ((b \div 16) % 2 = 1) = control.final BY <1>1, <2>5
    <2>7. (IF control.final THEN b - 16 ELSE b) = code
        BY <1>1, <2>2, SMT DEF UnnumberedCode, FinalBit
    <2> HIDE DEF b
    <2>8. {t \in DOMAIN UCode : UCode[t] = code} = {control.type} BY <1>3, <1>5, <2>3
    <2>9. b % 2 # 0 BY <2>5
    <2>10. ControlFromByte(b) = record(control.type, 0, 0)
        <3> DEFINE named == {t \in DOMAIN UCode : UCode[t] = code}
        <3>1. named # {} /\ (CHOOSE t \in named : TRUE) = control.type BY <2>8
        <3> HIDE DEF record
        <3> QED BY <2>6, <2>7, <2>9, <3>1 DEF ControlFromByte, record
    <2> QED BY <1>2, <2>1, <2>4, <2>10
<1>6. CASE control.type = "RR"
    <2> DEFINE b == Received(nr, final)
    <2>1. ControlToByte(control) = b % 256
        BY <1>3, <1>6 DEF ControlToByte, Received
    <2>2. ns = 0 BY <1>6
    <2> HIDE DEF ns, nr, final
    <2>3. b \in Nat BY <1>1, SMT DEF Received, FinalBit
    <2>4. b = Received(nr, final) OBVIOUS
    <2> HIDE DEF b
    <2>5. /\ b % 256 = b /\ b % 2 = 1 /\ b % 4 = 1 /\ b \div 32 = nr
          /\ (b \div 16) % 2 = 1 <=> final = 16
          /\ b - final \notin {131, 99, 67, 3}
        BY <1>1, <2>3, <2>4, ReceiveByte
    <2>6. ((b \div 16) % 2 = 1) = control.final BY <1>1, <2>5
    <2>7. (IF control.final THEN b - 16 ELSE b) = b - final
        BY <1>1, <2>3, SMT DEF FinalBit
    <2>8. {t \in DOMAIN UCode : UCode[t] = b - final} = {} BY <1>3, <2>5
    <2>9. b % 2 # 0 BY <2>5
    <2>10. ControlFromByte(b) = record("RR", 0, nr)
        BY <2>5, <2>6, <2>7, <2>8, <2>9 DEF ControlFromByte
    <2> QED BY <1>2, <1>6, <2>1, <2>2, <2>5, <2>10
<1> QED BY <1>1, <1>4, <1>5, <1>6 DEF ControlType

(***************************************************************************)
(* ... and so does the frame, the check sequences and the flags taken off. *)
(***************************************************************************)
LEMMA OneMore ==
    ASSUME NEW s \in Seq(Byte), NEW b \in Byte
    PROVE  /\ s \o <<b>> \in Seq(Byte) /\ Len(s \o <<b>>) = Len(s) + 1
           /\ \A i \in 1 .. Len(s) : (s \o <<b>>)[i] = s[i]
           /\ (s \o <<b>>)[Len(s) + 1] = b
OBVIOUS

LEMMA FiveBytes ==
    ASSUME NEW f \in Seq(Byte), Len(f) = 2, NEW c \in Byte, NEW d \in Byte, NEW k \in Byte
    PROVE  LET h == f \o <<c>> \o <<d>> \o <<k>>
           IN  /\ h \in Seq(Byte) /\ Len(h) = 5 /\ h[1] = f[1] /\ h[2] = f[2]
               /\ h[3] = c /\ h[4] = d /\ h[5] = k
<1> DEFINE h1 == f \o <<c>>
           h2 == h1 \o <<d>>
           h3 == h2 \o <<k>>
<1>1. h1 \in Seq(Byte) /\ Len(h1) = 3 /\ h1[1] = f[1] /\ h1[2] = f[2] /\ h1[3] = c
    <2>1. 1 \in 1 .. Len(f) /\ 2 \in 1 .. Len(f) OBVIOUS
    <2>2. /\ h1 \in Seq(Byte) /\ Len(h1) = Len(f) + 1 /\ h1[Len(f) + 1] = c
          /\ \A i \in 1 .. Len(f) : h1[i] = f[i]
        BY OneMore
    <2> HIDE DEF h1
    <2> QED BY <2>1, <2>2
<1> HIDE DEF h1
<1>2. /\ h2 \in Seq(Byte) /\ Len(h2) = 4
      /\ h2[1] = h1[1] /\ h2[2] = h1[2] /\ h2[3] = h1[3] /\ h2[4] = d
    <2>1. 1 \in 1 .. Len(h1) /\ 2 \in 1 .. Len(h1) /\ 3 \in 1 .. Len(h1) BY <1>1
    <2>2. /\ h2 \in Seq(Byte) /\ Len(h2) = Len(h1) + 1 /\ h2[Len(h1) + 1] = d
          /\ \A i \in 1 .. Len(h1) : h2[i] = h1[i]
        BY <1>1, OneMore
    <2> HIDE DEF h2
    <2> QED BY <1>1, <2>1, <2>2
<1> HIDE DEF h2
<1>3. /\ h3 \in Seq(Byte) /\ Len(h3) = 5
      /\ h3[1] = h2[1] /\ h3[2] = h2[2] /\ h3[3] = h2[3] /\ h3[4] = h2[4] /\ h3[5] = k
    <2>1. /\ 1 \in 1 .. Len(h2) /\ 2 \in 1 .. Len(h2) /\ 3 \in 1 .. Len(h2)
          /\ 4 \in 1 .. Len(h2)
        BY <1>2
    <2>2. /\ h3 \in Seq(Byte) /\ Len(h3) = Len(h2) + 1 /\ h3[Len(h2) + 1] = k
          /\ \A i \in 1 .. Len(h2) : h3[i] = h2[i]
        BY <1>2, OneMore
    <2> HIDE DEF h3
    <2> QED BY <1>2, <2>1, <2>2
<1> HIDE DEF h3
<1>4. h3 = f \o <<c>> \o <<d>> \o <<k>> BY DEF h1, h2, h3
<1> QED BY <1>1, <1>2, <1>3, <1>4

LEMMA SameFormat ==
    ASSUME NEW s \in Seq(Byte), NEW t \in Seq(Byte), Len(s) >= 2, Len(t) >= 2,
           s[1] = t[1], s[2] = t[2]
    PROVE  FormatFromBytes(s) = FormatFromBytes(t)
<1>1. ~(Len(s) < 2) /\ ~(Len(t) < 2) OBVIOUS
<1> QED BY <1>1 DEF FormatFromBytes

LEMMA AnswerFields ==
    ASSUME NEW frame \in Answer
    PROVE  /\ frame \in HdlcFrame
           /\ frame.format \in [length : Nat, segmented : BOOLEAN]
           /\ frame.format.length < 2048
           /\ frame.dest \in HdlcAddress /\ OneByteAddress("Client", frame.dest)
           /\ frame.source \in HdlcAddress /\ OneByteAddress("Server", frame.source)
           /\ frame.control \in [type : ControlType, ns : Nat, nr : Nat, final : BOOLEAN]
           /\ frame.information \in Seq(Byte)
           /\ frame.information # <<>> => frame.control.type \in {"Information", "UI"}
           /\ frame = [format |-> frame.format, dest |-> frame.dest, source |-> frame.source,
                       control |-> frame.control, information |-> frame.information]
           /\ ControlFromByte(ControlToByte(frame.control)) = frame.control
<1>1. frame \in HdlcFrame BY DEF Answer
<1>2. /\ frame.format \in [length : Nat, segmented : BOOLEAN]
      /\ frame.dest \in HdlcAddress /\ frame.source \in HdlcAddress
      /\ frame.control \in [type : ControlType, ns : Nat, nr : Nat, final : BOOLEAN]
      /\ frame.information \in Seq(Byte)
      /\ frame = [format |-> frame.format, dest |-> frame.dest, source |-> frame.source,
                  control |-> frame.control, information |-> frame.information]
    BY <1>1 DEF HdlcFrame
<1>3. /\ frame.format.length < 2048
      /\ OneByteAddress("Client", frame.dest) /\ OneByteAddress("Server", frame.source)
      /\ frame.information # <<>> => frame.control.type \in {"Information", "UI"}
    BY DEF Answer
<1>4. /\ frame.control.ns < 8 /\ frame.control.nr < 8
      /\ frame.control.type # "Unknown"
      /\ frame.control.type # "Information" => frame.control.ns = 0
      /\ frame.control.type \notin {"Information", "RR"} => frame.control.nr = 0
    BY DEF Answer
<1>5. ControlFromByte(ControlToByte(frame.control)) = frame.control
    BY <1>2, <1>4, ControlComesBack
<1> QED BY <1>1, <1>2, <1>3, <1>5

LEMMA HeaderIsRead ==
    ASSUME NEW frame \in Answer
    PROVE  /\ Header(frame) \in Seq(Byte) /\ Len(Header(frame)) = 5
           /\ FormatFromBytes(Header(frame)) = Ok(frame.format)
           /\ Header(frame)[3] % 2 = 1 /\ Header(frame)[4] % 2 = 1
           /\ AddressParse(<<Header(frame)[3]>>, "Client") = frame.dest
           /\ AddressParse(<<Header(frame)[4]>>, "Server") = frame.source
           /\ ControlFromByte(Header(frame)[5]) = frame.control
<1> DEFINE f == FormatToBytes(frame.format)
           k == ControlToByte(frame.control)
           h == Header(frame)
<1>1. f \in Seq(Byte) /\ Len(f) = 2 /\ FormatFromBytes(f) = Ok(frame.format)
    <2> DEFINE none == <<>>
    <2>1. none \in Seq(Byte) OBVIOUS
    <2> HIDE DEF none
    <2>2. FormatFromBytes(f \o none) = Ok(frame.format) /\ f \in Seq(Byte) /\ Len(f) = 2
        BY <2>1, AnswerFields, FormatComesBack
    <2> HIDE DEF f
    <2>3. f \o none = f BY <2>2 DEF none
    <2> QED BY <2>2, <2>3
<1>2. PICK c \in Byte : /\ AddressToBytes(frame.dest) = <<c>> /\ c % 2 = 1
                        /\ AddressParse(<<c>>, "Client") = frame.dest
    <2>1. frame.dest \in HdlcAddress /\ OneByteAddress("Client", frame.dest) BY AnswerFields
    <2> QED BY <2>1, ClientComesBack
<1>3. PICK d \in Byte : /\ AddressToBytes(frame.source) = <<d>> /\ d % 2 = 1
                        /\ AddressParse(<<d>>, "Server") = frame.source
    <2>1. frame.source \in HdlcAddress /\ OneByteAddress("Server", frame.source) BY AnswerFields
    <2> QED BY <2>1, ServerComesBack
<1>4. k \in Byte /\ ControlFromByte(k) = frame.control BY AnswerFields, ControlIsWritten
<1>5. h = f \o <<c>> \o <<d>> \o <<k>> BY <1>2, <1>3 DEF Header
<1> HIDE DEF f, k, h
<1>6. /\ h \in Seq(Byte) /\ Len(h) = 5 /\ h[1] = f[1] /\ h[2] = f[2]
      /\ h[3] = c /\ h[4] = d /\ h[5] = k
    BY <1>1, <1>4, <1>5, FiveBytes
<1>7. FormatFromBytes(h) = FormatFromBytes(f)
    <2>1. Len(h) >= 2 /\ Len(f) >= 2 BY <1>1, <1>6
    <2> QED BY <1>1, <1>6, <2>1, SameFormat
<1>8. /\ h \in Seq(Byte) /\ Len(h) = 5 /\ FormatFromBytes(h) = Ok(frame.format)
      /\ h[3] % 2 = 1 /\ h[4] % 2 = 1
      /\ AddressParse(<<h[3]>>, "Client") = frame.dest
      /\ AddressParse(<<h[4]>>, "Server") = frame.source
      /\ ControlFromByte(h[5]) = frame.control
    BY <1>1, <1>2, <1>3, <1>4, <1>6, <1>7
<1> QED BY <1>8 DEF h

HasHcs(frame) == frame.control.type \in {"Information", "UI"}

LEMMA HeaderDecides ==
    ASSUME NEW frame \in Answer, NEW content \in Seq(Byte), Len(content) >= 7,
           FcsMatches(content), \A i \in 1 .. 5 : content[i] = Header(frame)[i]
    PROVE  ContentToFrame(content) =
               Ok([format |-> frame.format, dest |-> frame.dest, source |-> frame.source,
                   control |-> frame.control,
                   information |-> SubSeq(content, IF HasHcs(frame) THEN 8 ELSE 6,
                                          Len(content) - 2)])
<1> DEFINE n == Len(content)
           h == Header(frame)
           u == SubSeq(content, 3, n)
           v == SubSeq(content, 4, n)
<1>1. /\ h \in Seq(Byte) /\ Len(h) = 5
      /\ FormatFromBytes(h) = Ok(frame.format)
      /\ h[3] % 2 = 1 /\ h[4] % 2 = 1
      /\ AddressParse(<<h[3]>>, "Client") = frame.dest
      /\ AddressParse(<<h[4]>>, "Server") = frame.source
      /\ ControlFromByte(h[5]) = frame.control
    BY HeaderIsRead
<1> HIDE DEF h
<1>2. /\ content[1] = h[1] /\ content[2] = h[2] /\ content[3] = h[3]
      /\ content[4] = h[4] /\ content[5] = h[5]
    BY DEF h
<1>3. FormatFromBytes(content) = Ok(frame.format)
    <2>1. Len(content) >= 2 /\ Len(h) >= 2 BY <1>1
    <2>2. FormatFromBytes(content) = FormatFromBytes(h) BY <1>1, <1>2, <2>1, SameFormat
    <2> QED BY <1>1, <2>2
<1>4. n \in Nat /\ n >= 7 OBVIOUS
<1>5. u \in Seq(Byte) /\ Len(u) = n - 2 /\ u[1] = content[3] BY <1>4
<1>6. v \in Seq(Byte) /\ Len(v) = n - 3 /\ v[1] = content[4] BY <1>4
<1>7. AddressBytes(u) = <<h[3]>>
    <2> HIDE DEF u, n
    <2>1. Len(u) > 0 /\ u[1] = h[3] BY <1>2, <1>4, <1>5
    <2> QED BY <1>1, <1>5, <2>1, AddressBytesType
<1>8. AddressBytes(v) = <<h[4]>>
    <2> HIDE DEF v, n
    <2>1. Len(v) > 0 /\ v[1] = h[4] BY <1>2, <1>4, <1>6
    <2> QED BY <1>1, <1>6, <2>1, AddressBytesType
<1> DEFINE dest == AddressBytes(u)
           source == AddressBytes(SubSeq(content, 3 + Len(dest), n))
           at == 3 + Len(dest) + Len(source)
           control == ControlFromByte(content[at])
           hasHcs == control.type \in {"Information", "UI"}
<1>9. Len(dest) = 1 BY <1>7
<1>10. source = <<h[4]>>
    <2>1. 3 + Len(dest) = 4
        <3> HIDE DEF dest
        <3> QED BY <1>9
    <2> QED BY <1>8, <2>1
<1>11. at = 5
    <2>1. Len(source) = 1 BY <1>10
    <2> HIDE DEF dest, source
    <2> QED BY <1>9, <2>1
<1>12. control = frame.control /\ (hasHcs <=> HasHcs(frame))
    BY <1>1, <1>2, <1>11 DEF HasHcs
<1>13. ~(at > n) /\ ~(at + 2 > n) BY <1>4, <1>11
<1>14. ContentToFrame(content) =
         Ok([format |-> FormatFromBytes(content).val,
             dest |-> AddressParse(dest, "Client"),
             source |-> AddressParse(source, "Server"),
             control |-> control,
             information |-> SubSeq(content, IF hasHcs THEN at + 3 ELSE at + 1, n - 2)])
    <2>1. FormatFromBytes(content).ok BY <1>3 DEF Ok
    <2> QED BY <1>13, <2>1 DEF ContentToFrame
<1>15. FormatFromBytes(content).val = frame.format BY <1>3 DEF Ok
<1>16. AddressParse(dest, "Client") = frame.dest BY <1>1, <1>7
<1>17. AddressParse(source, "Server") = frame.source BY <1>1, <1>10
<1>18. (IF hasHcs THEN at + 3 ELSE at + 1) = IF HasHcs(frame) THEN 8 ELSE 6
    BY <1>11, <1>12
<1> HIDE DEF dest, source, at, control, hasHcs
<1> QED BY <1>12, <1>14, <1>15, <1>16, <1>17, <1>18

LEMMA BodyIsRead ==
    ASSUME NEW frame \in Answer
    PROVE  LET content == Body(frame) \o Crc(Body(frame))
           IN  ContentToFrame(content) = Ok(frame)
<1> DEFINE b == Body(frame)
           h == Header(frame)
           info == frame.information
           content == b \o Crc(b)
           n == Len(content)
           from == IF HasHcs(frame) THEN 8 ELSE 6
<1>1. h \in Seq(Byte) /\ Len(h) = 5 BY HeaderIsRead
<1>2. b \in Seq(Byte) /\ info \in Seq(Byte)
    <2>1. frame \in HdlcFrame /\ info \in Seq(Byte) BY AnswerFields
    <2> QED BY <2>1, FrameIsWritten
<1>3. /\ content \in Seq(Byte) /\ n = Len(b) + 2 /\ FcsMatches(content)
      /\ \A i \in 1 .. Len(b) : content[i] = b[i]
    <2> HIDE DEF b
    <2> QED BY <1>2, WrittenMatches
<1>4. CASE info = <<>>
    <2>1. b = h BY <1>4 DEF Body
    <2> HIDE DEF b, h, info, content
    <2>2. Len(b) = 5 /\ (\A i \in 1 .. 5 : content[i] = h[i]) BY <1>1, <1>3, <2>1
    <2>3. n = 7 /\ n >= 7 /\ n - 2 = 5
        <3> HIDE DEF n
        <3> QED BY <1>3, <2>2
    <2>4. SubSeq(content, from, n - 2) = <<>>
        <3>1. from \in {6, 8} OBVIOUS
        <3> HIDE DEF from, n
        <3>2. SubSeq(content, 6, 5) = <<>> /\ SubSeq(content, 8, 5) = <<>> BY <1>3
        <3> QED BY <2>3, <3>1, <3>2
    <2>5. ContentToFrame(content) =
              Ok([format |-> frame.format, dest |-> frame.dest, source |-> frame.source,
                  control |-> frame.control,
                  information |-> SubSeq(content, from, n - 2)])
        BY <1>3, <2>2, <2>3, HeaderDecides DEF h
    <2>6. frame = [format |-> frame.format, dest |-> frame.dest, source |-> frame.source,
                   control |-> frame.control, information |-> <<>>]
        BY <1>4, AnswerFields DEF info
    <2> QED BY <2>4, <2>5, <2>6 DEF content, b
<1>5. CASE info # <<>>
    <2> DEFINE k == Crc(h)
               hk == h \o k
    <2>1. b = hk \o info BY <1>5 DEF Body
    <2>2. k \in Seq(Byte) /\ Len(k) = 2 BY <1>1, CrcIsRegister
    <2>3. HasHcs(frame) BY <1>5, AnswerFields DEF HasHcs
    <2> HIDE DEF b, h, info, content, k, n
    <2>4. hk \in Seq(Byte) /\ Len(hk) = 7 /\ \A i \in 1 .. 5 : hk[i] = h[i]
        <3>1. /\ hk \in Seq(Byte) /\ Len(hk) = Len(h) + Len(k)
              /\ \A i \in 1 .. Len(h) : hk[i] = h[i]
            BY <1>1, <2>2, Joined, ZenonT(60)
        <3> HIDE DEF hk
        <3> QED BY <1>1, <2>2, <3>1
    <2> HIDE DEF hk
    <2>5. Len(b) = 7 + Len(info) /\ (\A i \in 1 .. 7 : b[i] = hk[i]) /\ Len(info) \in Nat
        <3>1. hk \in Seq(Byte) /\ info \in Seq(Byte) BY <1>2, <2>4
        <3>2. /\ Len(hk \o info) = Len(hk) + Len(info)
              /\ \A i \in 1 .. Len(hk) : (hk \o info)[i] = hk[i]
            BY <3>1, Joined
        <3> QED BY <1>2, <2>1, <2>4, <3>2
    <2>6. n >= 7 /\ n - 2 = Len(b) /\ \A i \in 1 .. 5 : content[i] = h[i]
        <3>1. \A i \in 1 .. 5 : i \in 1 .. 7 /\ i \in 1 .. Len(b) BY <2>5
        <3> QED BY <1>3, <2>4, <2>5, <3>1
    <2>7. SubSeq(content, 8, Len(b)) = SubSeq(b, 8, Len(b))
        <3>1. Crc(b) \in Seq(Byte) BY <1>2, CrcIsRegister
        <3>2. 8 \in Nat /\ 8 >= 1 OBVIOUS
        <3> QED BY <1>2, <3>1, <3>2, PartOfFirst DEF content
    <2>8. SubSeq(b, 8, Len(b)) = info
        <3>1. SubSeq(hk \o info, Len(hk) + 1, Len(hk) + Len(info)) = info
            BY <1>2, <2>4, LastPart
        <3>2. Len(hk) + 1 = 8 /\ Len(hk) + Len(info) = Len(b) BY <2>4, <2>5
        <3> QED BY <2>1, <3>1, <3>2
    <2>9. ContentToFrame(content) =
              Ok([format |-> frame.format, dest |-> frame.dest, source |-> frame.source,
                  control |-> frame.control,
                  information |-> SubSeq(content, from, Len(content) - 2)])
        <3>1. Len(content) >= 7 BY <2>6 DEF n
        <3>2. \A i \in 1 .. 5 : content[i] = Header(frame)[i] BY <2>6 DEF h
        <3> QED BY <1>3, <3>1, <3>2, HeaderDecides
    <2>10. SubSeq(content, from, Len(content) - 2) = info
        BY <2>3, <2>6, <2>7, <2>8 DEF n
    <2>11. frame = [format |-> frame.format, dest |-> frame.dest, source |-> frame.source,
                    control |-> frame.control, information |-> info]
        BY AnswerFields DEF info
    <2> QED BY <2>9, <2>10, <2>11 DEF content, b
<1> QED BY <1>4, <1>5

LEMMA AnswerIsRead ==
    ASSUME NEW frame \in Answer
    PROVE  FromBytes(ToBytes(frame)) = Ok(frame)
<1> DEFINE bytes == ToBytes(frame)
           b == Body(frame)
           n == Len(bytes)
<1>1. frame \in HdlcFrame BY AnswerFields
<1>2. /\ Content(bytes) = b \o Crc(b) /\ bytes[1] = Flag /\ bytes[n] = Flag
      /\ n >= Len(b) + 4
    BY <1>1, ContentIsBody
<1>3. b \in Seq(Byte) /\ bytes \in Seq(Byte) BY <1>1, FrameIsWritten
<1>4. Len(b) >= 2
    <2> DEFINE h == Header(frame)
               info == frame.information
    <2>1. h \in Seq(Byte) /\ Len(h) = 5 BY HeaderIsRead
    <2>2. info \in Seq(Byte) BY AnswerFields
    <2>3. Crc(h) \in Seq(Byte) BY <2>1, CrcIsRegister
    <2>4. b = h \/ b = (h \o Crc(h)) \o info BY DEF Body
    <2> HIDE DEF h, info, b
    <2>5. Len((h \o Crc(h)) \o info) >= 5
        <3>1. h \o Crc(h) \in Seq(Byte) /\ Len(h \o Crc(h)) = Len(h) + Len(Crc(h))
            BY <2>1, <2>3, Joined
        <3>2. Len((h \o Crc(h)) \o info) = Len(h \o Crc(h)) + Len(info)
            BY <2>2, <3>1, Joined
        <3>3. Len(Crc(h)) \in Nat /\ Len(info) \in Nat BY <2>2, <2>3
        <3> QED BY <2>1, <3>1, <3>2, <3>3
    <2>6. Len(h) >= 2 /\ Len((h \o Crc(h)) \o info) >= 2
        <3>1. Len((h \o Crc(h)) \o info) \in Nat BY <2>1, <2>2, <2>3
        <3> QED BY <2>1, <2>5, <3>1
    <2> QED BY <2>4, <2>6
<1>5. ~(n < 6)
    <2>1. Len(b) \in Nat /\ n \in Nat BY <1>3
    <2> QED BY <1>2, <1>4, <2>1
<1>6. FromBytes(bytes) = ContentToFrame(b \o Crc(b)) BY <1>2, <1>5 DEF FromBytes
<1>7. ContentToFrame(b \o Crc(b)) = Ok(frame) BY BodyIsRead
<1> QED BY <1>6, <1>7

-----------------------------------------------------------------------------
(***************************************************************************)
(* The link.  What was read is bytes, and got is what from_bytes makes of  *)
(* them and of nothing else; with what the lemmas say of from_bytes this   *)
(* is inductive and gives every property below.                            *)
(***************************************************************************)
LinkInv ==
    /\ sent \in Seq(Frames)
    /\ wire \in Seq(Byte)
    /\ chunk \in Seq(Byte)
    /\ damaged \in BOOLEAN
    /\ got = IF chunk = <<>> THEN Nothing ELSE FromBytes(chunk)

LEMMA InitIsLinkInv == Init => LinkInv
<1> SUFFICES ASSUME Init PROVE LinkInv
    OBVIOUS
<1>1. sent \in Seq(Frames) /\ wire \in Seq(Byte) /\ chunk \in Seq(Byte) BY DEF Init
<1>2. damaged \in BOOLEAN /\ chunk = <<>> /\ got = Nothing BY DEF Init
<1> QED BY <1>1, <1>2 DEF LinkInv

LEMMA NextKeepsLinkInv == LinkInv /\ [Next]_vars => LinkInv'
<1> SUFFICES ASSUME LinkInv, [Next]_vars PROVE LinkInv'
    OBVIOUS
<1>1. /\ sent \in Seq(Frames) /\ wire \in Seq(Byte) /\ chunk \in Seq(Byte)
      /\ damaged \in BOOLEAN
      /\ got = IF chunk = <<>> THEN Nothing ELSE FromBytes(chunk)
    BY DEF LinkInv
<1>2. ASSUME NEW frame \in Frames, Write(frame) PROVE LinkInv'
    <2>1. ToBytes(frame) \in Seq(Byte) BY FramesAssumption, FrameIsWritten
    <2>2. sent' \in Seq(Frames) /\ wire' \in Seq(Byte) BY <1>1, <1>2, <2>1 DEF Write
    <2> QED BY <1>1, <1>2, <2>2 DEF Write, LinkInv
<1>3. ASSUME NEW i \in 1 .. Len(wire), NEW w \in {1, 2, 4, 8, 16, 32, 64, 128}, Damage(i, w)
      PROVE  LinkInv'
    <2>1. wire[i] \in Byte BY <1>1
    <2>2. FlipBit(wire[i], w) \in Byte BY <2>1, FlippedIsByte
    <2>3. wire' = [wire EXCEPT ![i] = FlipBit(wire[i], w)] BY <1>3 DEF Damage
    <2>4. wire' \in Seq(Byte) BY <1>1, <2>2, <2>3
    <2> QED BY <1>1, <1>3, <2>4 DEF Damage, LinkInv
<1>4. ASSUME NEW n \in 1 .. Len(wire), Read(n) PROVE LinkInv'
    <2>1. chunk' = SubSeq(wire, 1, n) /\ wire' = SubSeq(wire, n + 1, Len(wire))
        BY <1>4 DEF Read
    <2>2. Len(wire) \in Nat BY <1>1
    <2>3. chunk' \in Seq(Byte) /\ wire' \in Seq(Byte) /\ Len(chunk') = n
        BY <1>1, <2>1, <2>2
    <2>4. chunk' # <<>> BY <2>3
    <2>5. got' = FromBytes(chunk') BY <1>4, <2>1 DEF Read
    <2> QED BY <1>1, <1>4, <2>3, <2>4, <2>5 DEF Read, LinkInv
<1>5. CASE UNCHANGED vars BY <1>1, <1>5 DEF LinkInv, vars
<1> QED BY <1>2, <1>3, <1>4, <1>5 DEF Next

THEOREM LinkInvHolds == Spec => []LinkInv
BY InitIsLinkInv, NextKeepsLinkInv, PTL DEF Spec

(***************************************************************************)
(* Type correctness: whatever arrives, from_bytes answers it by a frame    *)
(* whose fields have the widths they can have, or by one of its errors.    *)
(***************************************************************************)
THEOREM TypeCorrect == Spec => []TypeOK
<1>1. LinkInv => TypeOK
    <2> SUFFICES ASSUME LinkInv PROVE TypeOK
        OBVIOUS
    <2>1. Decoded(got)
        BY FromBytesType, ErrorsAreOfTheCode DEF LinkInv
    <2> QED BY <2>1 DEF LinkInv, TypeOK
<1> QED BY <1>1, LinkInvHolds, PTL

(***************************************************************************)
(* Bytes that differ in one byte from a frame written, wherever it is and  *)
(* however long the frame, are refused (WrongByteDetected): the CRC of two *)
(* sequences that differ in one place only is never the same.              *)
(***************************************************************************)
THEOREM WrongBytesAreDetected == Spec => []WrongByteDetected
<1>1. LinkInv => WrongByteDetected
    <2> SUFFICES ASSUME LinkInv, chunk # <<>>, NEW i \in DOMAIN sent,
                        OneByteApart(Content(ToBytes(sent[i])), Content(chunk))
                 PROVE  ~got.ok
        BY DEF WrongByteDetected
    <2>1. sent[i] \in HdlcFrame /\ chunk \in Seq(Byte) /\ got = FromBytes(chunk)
        BY FramesAssumption DEF LinkInv
    <2> QED BY <2>1, WrongByteRefused
<1> QED BY <1>1, LinkInvHolds, PTL

(***************************************************************************)
(* A frame with one byte changed on the line, a flag included, is refused  *)
(* whatever the frame holds, unless an escape byte is made or unmade       *)
(* (WrongByteOnWireDetected): the part of DamageDetected that holds for    *)
(* every frame, and for every change of a byte.                            *)
(***************************************************************************)
THEOREM WrongBytesOnWireAreDetected == Spec => []WrongByteOnWireDetected
<1>1. LinkInv => WrongByteOnWireDetected
    <2> SUFFICES ASSUME LinkInv, chunk # <<>>, NEW i \in DOMAIN sent,
                        OneByteApart(ToBytes(sent[i]), chunk),
                        EscapesAgree(ToBytes(sent[i]), chunk)
                 PROVE  ~got.ok
        BY DEF WrongByteOnWireDetected
    <2>1. sent[i] \in HdlcFrame /\ chunk \in Seq(Byte) /\ got = FromBytes(chunk)
        BY FramesAssumption DEF LinkInv
    <2> QED BY <2>1, WrongByteOnWireRefused
<1> QED BY <1>1, LinkInvHolds, PTL

(***************************************************************************)
(* A frame that a meter answers with, read in a chunk of its own, is       *)
(* decoded to the frame that was written, every field of it, whatever its  *)
(* addresses, numbers and information are (FrameIsRead).                   *)
(***************************************************************************)
THEOREM FramesAreRead == Spec => []FrameIsRead
<1>1. LinkInv => FrameIsRead
    <2> SUFFICES ASSUME LinkInv, chunk # <<>>, NEW i \in SentAs(chunk), sent[i] \in Answer
                 PROVE  got = Ok(sent[i])
        BY DEF FrameIsRead
    <2>1. got = FromBytes(chunk) /\ chunk = ToBytes(sent[i]) BY DEF LinkInv, SentAs
    <2> QED BY <2>1, AnswerIsRead
<1> QED BY <1>1, LinkInvHolds, PTL

==============================================================================
