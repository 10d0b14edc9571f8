----------------------------- MODULE Wire_proofs ----------------------------
(***************************************************************************)
(* Theorems about what is read of a message: of every message, whole or    *)
(* cut, and of any bytes at all.                                           *)
(***************************************************************************)
EXTENDS Wire, Codec_proofs

(***************************************************************************)
(* Messages are far shorter than Huge.                                     *)
(***************************************************************************)
LEMMA LimitIs ==
    /\ Huge \in Nat /\ Limit \in Nat
    /\ Huge \div 8 = 2 * Limit /\ Huge \div 8 < Huge
BY SMT DEF Huge, Limit

(***************************************************************************)
(* The counter of a block: nonce plus number, in its last four bytes.      *)
(***************************************************************************)
Low(first, n) == first[16] + 256 * first[15] + n
High(first, n) == first[14] + 256 * first[13] + Low(first, n) \div 65536

CounterIs(c, first, n) ==
    /\ \A j \in 1 .. 12 : c[j] = first[j]
    /\ c[16] = Low(first, n) % 256
    /\ c[15] = (Low(first, n) \div 256) % 256
    /\ c[14] = High(first, n) % 256
    /\ c[13] = (High(first, n) \div 256) % 256

NextLast(l, m) ==
    /\ m % 256 = ((l % 256) + 1) % 256
    /\ m \div 256 = IF l % 256 = 255 THEN (l \div 256) + 1 ELSE l \div 256

LEMMA Carries ==
    ASSUME NEW l \in Nat
    PROVE  NextLast(l, l + 1)
<1> DEFINE q == l \div 256
           d == l % 256
<1>1. q \in Nat /\ d \in 0 .. 255 /\ l = 256 * q + d BY SMT
<1> HIDE DEF q, d
<1>2. CASE d = 255
    <2>1. l + 1 = 256 * (q + 1) /\ q + 1 \in Nat BY <1>1, <1>2
    <2>2. (l + 1) \div 256 = q + 1 /\ (l + 1) % 256 = 0 BY <2>1
    <2>3. (d + 1) % 256 = 0 BY <1>2
    <2> QED BY <1>2, <2>2, <2>3 DEF NextLast, q, d
<1>3. CASE d # 255
    <2>1. l + 1 = 256 * q + (d + 1) /\ d + 1 \in 0 .. 255 BY <1>1, <1>3
    <2>2. (l + 1) \div 256 = q /\ (l + 1) % 256 = d + 1 BY <1>1, <2>1
    <2>3. (d + 1) % 256 = d + 1 BY <2>1
    <2> QED BY <1>3, <2>2, <2>3 DEF NextLast, q, d
<1> QED BY <1>2, <1>3

NextHalf(l, m) ==
    /\ m % 256 = ((l % 256) + 1) % 256
    /\ (m \div 256) % 256
         = IF l % 256 = 255 THEN (((l \div 256) % 256) + 1) % 256 ELSE (l \div 256) % 256
    /\ m \div 65536 = IF l % 256 = 255 /\ (l \div 256) % 256 = 255
                      THEN (l \div 65536) + 1 ELSE l \div 65536

LEMMA DivTwice ==
    ASSUME NEW n \in Nat
    PROVE  n \div 65536 = (n \div 256) \div 256
<1> DEFINE q == n \div 256
           r == q \div 256
<1>1. q \in Nat /\ n - 256 * q \in 0 .. 255 BY SMT
<1>2. r \in Nat /\ q - 256 * r \in 0 .. 255 BY <1>1, SMT
<1> HIDE DEF q, r
<1>3. n - 65536 * r >= 0 /\ n - 65536 * r < 65536 BY <1>1, <1>2, SMT
<1>4. n \div 65536 = r BY <1>2, <1>3, SMT
<1> QED BY <1>4 DEF q, r

LEMMA HalfCarries ==
    ASSUME NEW l \in Nat
    PROVE  NextHalf(l, l + 1)
<1> DEFINE q == l \div 256
           m == l + 1
           p == m \div 256
<1>1. q \in Nat /\ m \in Nat BY SMT
<1>2. NextLast(l, m) BY Carries
<1>3. NextLast(q, q + 1) BY <1>1, Carries
<1>4. l \div 65536 = q \div 256 /\ m \div 65536 = p \div 256 BY <1>1, DivTwice
<1>5. /\ m % 256 = ((l % 256) + 1) % 256
      /\ p = IF l % 256 = 255 THEN q + 1 ELSE q
    BY <1>2 DEF NextLast
<1>6. /\ (q + 1) % 256 = ((q % 256) + 1) % 256
      /\ (q + 1) \div 256 = IF q % 256 = 255 THEN (q \div 256) + 1 ELSE q \div 256
    BY <1>3 DEF NextLast
<1> DEFINE L == l % 256
           Q == q % 256
           D == q \div 256
           A == (q + 1) % 256
           B == (q + 1) \div 256
           X == l \div 65536
           Y == m \div 65536
           Z == m % 256
           W == (L + 1) % 256
           V == (Q + 1) % 256
<1>7. /\ A = V
      /\ B = IF Q = 255 THEN D + 1 ELSE D
      /\ Z = W /\ X = D
      /\ p = IF L = 255 THEN q + 1 ELSE q
    BY <1>4, <1>5, <1>6
<1>8. p % 256 = IF L = 255 THEN V ELSE Q
    <2>1. CASE L = 255
        <3>1. p = q + 1 BY <1>7, <2>1
        <3> QED BY <1>7, <2>1, <3>1
    <2>2. CASE L # 255
        <3>1. p = q BY <1>7, <2>2
        <3> QED BY <2>2, <3>1
    <2> QED BY <2>1, <2>2
<1>9. Y = IF L = 255 /\ Q = 255 THEN X + 1 ELSE X
    <2>1. CASE L = 255
        <3>1. Y = B BY <1>4, <1>7, <2>1
        <3> QED BY <1>7, <2>1, <3>1
    <2>2. CASE L # 255
        <3>1. Y = D BY <1>4, <1>7, <2>2
        <3> QED BY <1>7, <2>2, <3>1
    <2> QED BY <2>1, <2>2
<1> QED BY <1>7, <1>8, <1>9 DEF NextHalf

LEMMA BlockBytes ==
    ASSUME NEW b \in Block
    PROVE  \A i \in 1 .. 16 : b[i] \in Byte
<1>1. b \in Seq(Byte) /\ Len(b) = 16 BY DEF Block
<1>2. TAKE i \in 1 .. 16
<1>3. i \in 1 .. Len(b) BY <1>1
<1> QED BY <1>1, <1>3, ElementType

LEMMA LastBytes ==
    ASSUME NEW b \in Block
    PROVE  /\ b[13] \in Byte /\ b[14] \in Byte /\ b[15] \in Byte /\ b[16] \in Byte
           /\ b[13] \in 0 .. 255 /\ b[14] \in 0 .. 255 /\ b[15] \in 0 .. 255
           /\ b[16] \in 0 .. 255
<1>1. 13 \in 1 .. 16 /\ 14 \in 1 .. 16 /\ 15 \in 1 .. 16 /\ 16 \in 1 .. 16 OBVIOUS
<1>2. b[13] \in Byte /\ b[14] \in Byte /\ b[15] \in Byte /\ b[16] \in Byte
    BY <1>1, BlockBytes
<1> QED BY <1>2 DEF Byte

LEMMA CounterNext ==
    ASSUME NEW first \in Block, NEW c \in Block, NEW n \in Nat, CounterIs(c, first, n)
    PROVE  CounterIs(Increment(c), first, n + 1)
<1> DEFINE l == Low(first, n)
           h == High(first, n)
           k == Low(first, n + 1)
           g == High(first, n + 1)
           x == first[16] + 256 * first[15]
           y == first[14] + 256 * first[13]
           d == Increment(c)
<1>1. x \in Nat /\ y \in Nat
    <2> DEFINE t == first[13]
               u == first[14]
               v == first[15]
               w == first[16]
    <2>1. t \in 0 .. 255 /\ u \in 0 .. 255 /\ v \in 0 .. 255 /\ w \in 0 .. 255
        BY LastBytes
    <2> HIDE DEF t, u, v, w
    <2>2. w + 256 * v \in Nat /\ u + 256 * t \in Nat BY <2>1
    <2> QED BY <2>2 DEF t, u, v, w
<1>2. l = x + n /\ k = x + (n + 1) /\ h = y + (l \div 65536) /\ g = y + (k \div 65536)
    BY DEF Low, High
<1> HIDE DEF x, y, l, k, h, g
<1>3. l \in Nat /\ k = l + 1 BY <1>1, <1>2
<1>4. l \div 65536 \in Nat BY <1>3, SMT
<1>5. h \in Nat BY <1>1, <1>2, <1>4
<1>6. NextHalf(l, k) BY <1>3, HalfCarries
<1>7. /\ k % 256 = ((l % 256) + 1) % 256
      /\ (k \div 256) % 256
           = IF l % 256 = 255 THEN (((l \div 256) % 256) + 1) % 256 ELSE (l \div 256) % 256
      /\ k \div 65536 = IF l % 256 = 255 /\ (l \div 256) % 256 = 255
                        THEN (l \div 65536) + 1 ELSE l \div 65536
    BY <1>6 DEF NextHalf
<1>8. NextHalf(h, h + 1) BY <1>5, HalfCarries
<1>9. /\ (h + 1) % 256 = ((h % 256) + 1) % 256
      /\ ((h + 1) \div 256) % 256
           = IF h % 256 = 255 THEN (((h \div 256) % 256) + 1) % 256 ELSE (h \div 256) % 256
    BY <1>8 DEF NextHalf
<1>10. /\ \A j \in 1 .. 12 : c[j] = first[j]
       /\ c[16] = l % 256 /\ c[15] = (l \div 256) % 256
       /\ c[14] = h % 256 /\ c[13] = (h \div 256) % 256
    BY DEF CounterIs, l, h
<1>11. /\ \A j \in 1 .. 12 : d[j] = c[j]
       /\ d[16] = (c[16] + 1) % 256
       /\ d[15] = IF c[16] = 255 THEN (c[15] + 1) % 256 ELSE c[15]
       /\ d[14] = IF c[16] = 255 /\ c[15] = 255 THEN (c[14] + 1) % 256 ELSE c[14]
       /\ d[13] = IF c[16] = 255 /\ c[15] = 255 /\ c[14] = 255
                  THEN (c[13] + 1) % 256 ELSE c[13]
    BY IncrementIs
<1> HIDE DEF d
<1> DEFINE full == c[16] = 255 /\ c[15] = 255
<1>12. g = IF full THEN h + 1 ELSE h
    <2> DEFINE u == l \div 65536
               v == k \div 65536
    <2>1. u \in Nat /\ h = y + u /\ g = y + v BY <1>2, <1>4
    <2>2. v = IF full THEN u + 1 ELSE u BY <1>7, <1>10
    <2> HIDE DEF u, v, full
    <2> QED BY <1>1, <2>1, <2>2
<1>13. d[16] = k % 256 BY <1>7, <1>10, <1>11
<1>14. d[15] = (k \div 256) % 256 BY <1>7, <1>10, <1>11
<1>15. d[14] = g % 256
    <2>1. CASE full
        <3>1. g = h + 1 BY <1>12, <2>1
        <3> QED BY <1>9, <1>10, <1>11, <2>1, <3>1
    <2>2. CASE ~full
        <3>1. g = h BY <1>12, <2>2
        <3> QED BY <1>10, <1>11, <2>2, <3>1
    <2> QED BY <2>1, <2>2
<1>16. d[13] = (g \div 256) % 256
    <2>1. CASE full
        <3>1. g = h + 1 BY <1>12, <2>1
        <3> QED BY <1>9, <1>10, <1>11, <2>1, <3>1
    <2>2. CASE ~full
        <3>1. g = h BY <1>12, <2>2
        <3> QED BY <1>10, <1>11, <2>2, <3>1
    <2> QED BY <2>1, <2>2
<1> QED BY <1>10, <1>11, <1>13, <1>14, <1>15, <1>16 DEF CounterIs, k, g, d

LEMMA CounterFirst ==
    ASSUME NEW first \in Block
    PROVE  CounterIs(first, first, 0)
<1> DEFINE a == first[13]
           b == first[14]
           c == first[15]
           d == first[16]
           l == Low(first, 0)
           h == High(first, 0)
<1>1. a \in 0 .. 255 /\ b \in 0 .. 255 /\ c \in 0 .. 255 /\ d \in 0 .. 255
    BY LastBytes
<1>2. l = d + 256 * c + 0 /\ h = b + 256 * a + l \div 65536 BY DEF Low, High
<1> HIDE DEF a, b, c, d, l, h
<1>3. l = 256 * c + d BY <1>1, <1>2
<1>4. l \div 65536 = 0 BY <1>1, <1>3, SMT
<1>5. h = 256 * a + b BY <1>1, <1>2, <1>4
<1>6. l % 256 = d /\ (l \div 256) = c BY <1>1, <1>3, SMT
<1>7. h % 256 = b /\ (h \div 256) = a BY <1>1, <1>5, SMT
<1>8. c % 256 = c /\ a % 256 = a BY <1>1
<1> QED BY <1>6, <1>7, <1>8 DEF CounterIs, a, b, c, d, l, h

LEMMA SameCounter ==
    ASSUME NEW first \in Block, NEW c \in Block, NEW n \in Nat, CounterIs(c, first, n),
           NEW nonce \in Seq(Byte), first = FirstCounter(nonce)
    PROVE  c = CounterOfBlock(nonce, n)
<1> DEFINE l == Low(first, n)
           h == High(first, n)
           p == SubSeq(first, 1, 12)
           q == <<(h \div 256) % 256, h % 256, (l \div 256) % 256, l % 256>>
           s == p \o q
<1>1. /\ \A j \in 1 .. 12 : c[j] = first[j]
      /\ c[16] = l % 256 /\ c[15] = (l \div 256) % 256
      /\ c[14] = h % 256 /\ c[13] = (h \div 256) % 256
    BY DEF CounterIs
<1>2. CounterOfBlock(nonce, n) = s BY DEF CounterOfBlock, Low, High
<1>3. c \in Seq(Byte) /\ Len(c) = 16 /\ first \in Seq(Byte) /\ Len(first) = 16
    BY DEF Block
<1> HIDE DEF l, h
<1>4. q[1] = c[13] /\ q[2] = c[14] /\ q[3] = c[15] /\ q[4] = c[16] /\ Len(q) = 4
    BY <1>1
<1>5. q \in Seq(Byte)
    <2>1. c[13] \in Byte /\ c[14] \in Byte /\ c[15] \in Byte /\ c[16] \in Byte
        BY LastBytes
    <2>2. q = <<c[13], c[14], c[15], c[16]>> BY <1>1
    <2> HIDE DEF q
    <2> QED BY <2>1, <2>2
<1> HIDE DEF q
<1>6. p \in Seq(Byte) /\ Len(p) = 12 /\ \A j \in 1 .. 12 : p[j] = first[j]
    <2>1. 0 + 12 <= Len(first) /\ 0 \in Nat /\ 12 \in Nat BY <1>3
    <2>2. /\ SubSeq(first, 0 + 1, 0 + 12) \in Seq(Byte)
          /\ Len(SubSeq(first, 0 + 1, 0 + 12)) = 12
          /\ \A j \in 1 .. 12 : SubSeq(first, 0 + 1, 0 + 12)[j] = first[0 + j]
        BY <1>3, <2>1, Part, ZenonT(60)
    <2>3. 0 + 1 = 1 /\ 0 + 12 = 12 /\ \A j \in 1 .. 12 : 0 + j = j OBVIOUS
    <2> QED BY <2>2, <2>3
<1> HIDE DEF p
<1>7. IsJoin(s, Byte, p, q) BY <1>5, <1>6, JoinIs
<1> HIDE DEF s
<1>8. s \in Seq(Byte) /\ Len(s) = 16 BY <1>4, <1>6, <1>7 DEF IsJoin
<1>9. ASSUME NEW i \in 1 .. Len(c) PROVE c[i] = s[i]
    <2>1. CASE i \in 1 .. 12
        <3>1. i \in 1 .. Len(p) BY <1>6, <2>1
        <3>2. s[i] = p[i] BY <1>7, <3>1 DEF IsJoin
        <3> QED BY <1>1, <1>6, <2>1, <3>2, ZenonT(60)
    <2>2. CASE i \notin 1 .. 12
        <3>1. i \in {12 + 1, 12 + 2, 12 + 3, 12 + 4} BY <1>3, <2>2
        <3>2. \A j \in 1 .. 4 : s[12 + j] = q[j] BY <1>4, <1>6, <1>7 DEF IsJoin
        <3>3. /\ 1 \in 1 .. 4 /\ 2 \in 1 .. 4 /\ 3 \in 1 .. 4 /\ 4 \in 1 .. 4
              /\ 12 + 1 = 13 /\ 12 + 2 = 14 /\ 12 + 3 = 15 /\ 12 + 4 = 16
            OBVIOUS
        <3>4. s[13] = c[13] /\ s[14] = c[14] /\ s[15] = c[15] /\ s[16] = c[16]
            BY <1>4, <3>2, <3>3
        <3> QED BY <3>1, <3>3, <3>4
    <2> QED BY <2>1, <2>2
<1>10. c = s BY <1>3, <1>8, <1>9, SameElements
<1> QED BY <1>2, <1>10

LEMMA CountersCarry ==
    ASSUME NEW nonce \in Seq(Byte), NEW n \in Nat
    PROVE  \A i \in DOMAIN Counters(nonce, n) :
               Counters(nonce, n)[i] = CounterOfBlock(nonce, i - 1)
<1> DEFINE c == Counters(nonce, n)
           first == FirstCounter(nonce)
           T == {i \in Nat : i < n => CounterIs(c[i + 1], first, i)}
<1>1. /\ c \in Seq(Block) /\ Len(c) = n
      /\ \A i \in 1 .. n : c[i] = IF i = 1 THEN first ELSE Increment(c[i - 1])
    BY CountersAre
<1>2. first \in Block BY FirstCounterIs
<1>10. first = FirstCounter(nonce) OBVIOUS
<1> HIDE DEF c, first
<1>3. 0 \in T
    <2>1. SUFFICES ASSUME 0 < n PROVE CounterIs(c[0 + 1], first, 0)
        OBVIOUS
    <2>2. 0 + 1 = 1 /\ 1 \in 1 .. n BY <2>1
    <2>3. c[1] = first BY <1>1, <2>2
    <2> QED BY <1>2, <2>2, <2>3, CounterFirst
<1>4. ASSUME NEW i \in Nat, i \in T PROVE i + 1 \in T
    <2>1. SUFFICES ASSUME i + 1 < n PROVE CounterIs(c[(i + 1) + 1], first, i + 1)
        OBVIOUS
    <2>2. i < n /\ i + 1 \in 1 .. n /\ (i + 1) + 1 \in 1 .. n /\ (i + 1) + 1 # 1
          /\ ((i + 1) + 1) - 1 = i + 1
        BY <2>1
    <2>3. CounterIs(c[i + 1], first, i) BY <1>4, <2>2
    <2>4. c[i + 1] \in Block BY <1>1, <2>2
    <2>5. c[(i + 1) + 1] = Increment(c[i + 1]) BY <1>1, <2>2
    <2> QED BY <1>2, <2>3, <2>4, <2>5, CounterNext
<1> HIDE DEF T
<1>5. Nat \subseteq T BY <1>3, <1>4, NatSetInduction
<1>6. ASSUME NEW i \in 1 .. n PROVE c[i] = CounterOfBlock(nonce, i - 1)
    <2>1. i - 1 \in Nat /\ i - 1 < n /\ (i - 1) + 1 = i BY <1>6
    <2>2. i - 1 \in T BY <1>5, <2>1
    <2>3. CounterIs(c[i], first, i - 1) BY <2>1, <2>2 DEF T
    <2>4. c[i] \in Block BY <1>1
    <2> QED BY <1>2, <1>10, <2>1, <2>3, <2>4, SameCounter
<1>7. DOMAIN c = 1 .. n BY <1>1
<1> QED BY <1>6, <1>7 DEF c

(***************************************************************************)
(* The security control field: its suite and its flags in one byte.        *)
(***************************************************************************)
Protections == {"authenticated", "encrypted", "broadcast_key", "compressed"}

Control == [security_suite : 0 .. 15, flags : SUBSET Protections]

LEMMA BitIs ==
    /\ DOMAIN Bit = Protections
    /\ Bit["authenticated"] = 16 /\ Bit["encrypted"] = 32
    /\ Bit["broadcast_key"] = 64 /\ Bit["compressed"] = 128
BY DEF Bit, Protections

LEMMA BitsOfByte ==
    ASSUME NEW n \in 0 .. 15, NEW p \in {0, 1}, NEW q \in {0, 1}, NEW r \in {0, 1},
           NEW s \in {0, 1}, NEW b, b = n + 16 * p + 32 * q + 64 * r + 128 * s
    PROVE  /\ b \in 0 .. 255 /\ b % 16 = n
           /\ (b \div 16) % 2 = p /\ (b \div 32) % 2 = q
           /\ (b \div 64) % 2 = r /\ (b \div 128) % 2 = s
<1>1. b \in 0 .. 255 OBVIOUS
<1>2. b = 16 * (p + 2 * q + 4 * r + 8 * s) + n OBVIOUS
<1>3. b % 16 = n /\ b \div 16 = 2 * (q + 2 * r + 4 * s) + p BY <1>2
<1>4. b = 32 * (q + 2 * r + 4 * s) + (n + 16 * p) OBVIOUS
<1>5. b \div 32 = 2 * (r + 2 * s) + q BY <1>4
<1>6. b = 64 * (r + 2 * s) + (n + 16 * p + 32 * q) OBVIOUS
<1>7. b \div 64 = 2 * s + r BY <1>6
<1>8. b = 128 * s + (n + 16 * p + 32 * q + 64 * r) OBVIOUS
<1>9. b \div 128 = s BY <1>8
<1> QED BY <1>1, <1>3, <1>5, <1>7, <1>9

(***************************************************************************)
(* The field is read from the byte as it was written (from_bytes, to_byte).*)
(***************************************************************************)
THEOREM ControlIsRead ==
    ASSUME NEW field \in Control
    PROVE  ToByte(field) \in Byte /\ FromByte(ToByte(field)) = field
<1> DEFINE n == field.security_suite
           F == field.flags
           p == IF "authenticated" \in F THEN 1 ELSE 0
           q == IF "encrypted" \in F THEN 1 ELSE 0
           r == IF "broadcast_key" \in F THEN 1 ELSE 0
           s == IF "compressed" \in F THEN 1 ELSE 0
           b == ToByte(field)
<1>1. n \in 0 .. 15 /\ F \subseteq Protections BY DEF Control
<1>2. field = [security_suite |-> n, flags |-> F] BY DEF Control
<1>3. n % 16 = n BY <1>1
<1>4. b = (n % 16) + (IF "authenticated" \in F THEN Bit["authenticated"] ELSE 0)
            + (IF "encrypted" \in F THEN Bit["encrypted"] ELSE 0)
            + (IF "broadcast_key" \in F THEN Bit["broadcast_key"] ELSE 0)
            + (IF "compressed" \in F THEN Bit["compressed"] ELSE 0)
    BY DEF ToByte
<1>5. p \in {0, 1} /\ q \in {0, 1} /\ r \in {0, 1} /\ s \in {0, 1} OBVIOUS
<1>6. /\ p = 1 <=> "authenticated" \in F
      /\ q = 1 <=> "encrypted" \in F
      /\ r = 1 <=> "broadcast_key" \in F
      /\ s = 1 <=> "compressed" \in F
    OBVIOUS
<1>7. /\ (IF "authenticated" \in F THEN Bit["authenticated"] ELSE 0) = 16 * p
      /\ (IF "encrypted" \in F THEN Bit["encrypted"] ELSE 0) = 32 * q
      /\ (IF "broadcast_key" \in F THEN Bit["broadcast_key"] ELSE 0) = 64 * r
      /\ (IF "compressed" \in F THEN Bit["compressed"] ELSE 0) = 128 * s
    BY BitIs
<1> HIDE DEF n, p, q, r, s, b
<1>8. b = n + 16 * p + 32 * q + 64 * r + 128 * s BY <1>3, <1>4, <1>7, SMTT(40)
<1>9. /\ b \in 0 .. 255 /\ b % 16 = n
      /\ (b \div 16) % 2 = p /\ (b \div 32) % 2 = q
      /\ (b \div 64) % 2 = r /\ (b \div 128) % 2 = s
    BY <1>1, <1>5, <1>8, BitsOfByte
<1> HIDE DEF F
<1>10. FlagsOf(b) = F
    <2>1. \A flag \in Protections : flag \in F <=> (b \div Bit[flag]) % 2 = 1
        <3>1. "authenticated" \in F <=> (b \div Bit["authenticated"]) % 2 = 1
            BY <1>6, <1>9, BitIs
        <3>2. "encrypted" \in F <=> (b \div Bit["encrypted"]) % 2 = 1
            BY <1>6, <1>9, BitIs
        <3>3. "broadcast_key" \in F <=> (b \div Bit["broadcast_key"]) % 2 = 1
            BY <1>6, <1>9, BitIs
        <3>4. "compressed" \in F <=> (b \div Bit["compressed"]) % 2 = 1
            BY <1>6, <1>9, BitIs
        <3> QED BY <3>1, <3>2, <3>3, <3>4 DEF Protections
    <2>2. FlagsOf(b) = {flag \in Protections : (b \div Bit[flag]) % 2 = 1}
        BY BitIs DEF FlagsOf
    <2> QED BY <1>1, <2>1, <2>2
<1>11. FromByte(b) = field BY <1>2, <1>9, <1>10 DEF FromByte
<1>12. b \in Byte BY <1>9 DEF Byte
<1> QED BY <1>11, <1>12 DEF b

(***************************************************************************)
(* The text of an OBIS code: its characters, and what the loop of          *)
(* from_string has after each of them.                                     *)
(***************************************************************************)
ObisCodes == {c \in Seq(Byte) : Len(c) = 6}

Char == 0 .. 10

ScanState == [at : {"due", "number", "end", "error"}, numbers : Seq(Nat), number : Nat]

Unread == [at |-> "due", numbers |-> <<>>, number |-> 0]

ScanStep == [p \in ScanState \X Char |-> Scanned(p[1], p[2])]

LEMMA ScannedType ==
    ASSUME NEW s \in ScanState, NEW c \in Char
    PROVE  Scanned(s, c) \in ScanState
<1>1. s.numbers \in Seq(Nat) /\ s.number \in Nat /\ c \in Nat
    BY DEF ScanState, Char
<1>2. Append(s.numbers, s.number) \in Seq(Nat) /\ 10 * s.number + c \in Nat BY <1>1
<1>3. [s EXCEPT !.at = "number", !.number = 10 * @ + c] \in ScanState
    BY <1>2 DEF ScanState
<1>4. [s EXCEPT !.at = "error"] \in ScanState BY DEF ScanState
<1>5. [s EXCEPT !.at = "end"] \in ScanState BY DEF ScanState
<1>6. [at |-> "due", numbers |-> Append(s.numbers, s.number), number |-> 0] \in ScanState
    BY <1>2 DEF ScanState
<1> QED BY <1>3, <1>4, <1>5, <1>6 DEF Scanned

LEMMA ScanStepIs ==
    /\ ScanStep \in FoldSteps(ScanState, Char)
    /\ \A s \in ScanState, c \in Char : ScanStep[<<s, c>>] = Scanned(s, c)
<1>1. ASSUME NEW p \in ScanState \X Char PROVE Scanned(p[1], p[2]) \in ScanState
    <2>1. p[1] \in ScanState /\ p[2] \in Char OBVIOUS
    <2> QED BY <2>1, ScannedType
<1>2. ScanStep \in [ScanState \X Char -> ScanState] BY <1>1 DEF ScanStep
<1>3. \A s \in ScanState, c \in Char : ScanStep[<<s, c>>] = Scanned(s, c)
    BY DEF ScanStep
<1> QED BY <1>2, <1>3 DEF FoldSteps

LEMMA ScanIsFold ==
    ASSUME NEW s \in Seq(Char)
    PROVE  /\ Unread \in ScanState
           /\ Scan(s) = Fold(ScanStep, Unread, s) /\ Scan(s) \in ScanState
<1> DEFINE Eqn(it) ==
        it = [x \in SUBSET DOMAIN s |->
                IF x = {} THEN Unread ELSE Scanned(it[x \ {Max(x)}], s[Max(x)])]
    jt == CHOOSE it : Eqn(it)
<1>0. Unread \in ScanState BY DEF Unread, ScanState
<1>1. Scan(s) = jt[DOMAIN s]
    BY DEF Scan, Unread, FoldLeft, MapThenFoldSet
<1>2. \E it : Eqn(it)
    <2>1. PICK it : /\ FoldsTo(it, ScanStep, Unread, s)
                    /\ \A x \in SUBSET DOMAIN s : it[x] \in ScanState
        BY <1>0, ScanStepIs, FoldExists
    <2>2. ASSUME NEW x \in SUBSET DOMAIN s, x # {}
          PROVE  ScanStep[<<it[x \ {Max(x)}], s[Max(x)]>>]
                    = Scanned(it[x \ {Max(x)}], s[Max(x)])
        <3>1. x \ {Max(x)} \in SUBSET DOMAIN s /\ s[Max(x)] \in Char BY <2>2, PrefixSets
        <3>2. it[x \ {Max(x)}] \in ScanState BY <2>1, <3>1
        <3> QED BY ScanStepIs, <3>1, <3>2
    <2>3. Eqn(it) BY <2>1, <2>2 DEF FoldsTo
    <2> QED BY <2>3
<1>3. Eqn(jt) BY <1>2
<1> HIDE DEF jt
<1>4. \A x \in SUBSET DOMAIN s :
        jt[x] = IF x = {} THEN Unread ELSE Scanned(jt[x \ {Max(x)}], s[Max(x)])
    BY <1>3
<1>5. jt[{}] = Unread BY <1>4
<1>6. ASSUME NEW x \in SUBSET DOMAIN s, x # {}, jt[x \ {Max(x)}] \in ScanState
      PROVE  jt[x] = ScanStep[<<jt[x \ {Max(x)}], s[Max(x)]>>]
    <2>1. s[Max(x)] \in Char BY PrefixSets, <1>6
    <2> QED BY ScanStepIs, <1>4, <1>6, <2>1
<1> HIDE DEF Eqn
<1>7. Solves(jt, ScanState, ScanStep, Unread, s) BY <1>5, <1>6 DEF Solves
<1>8. jt[DOMAIN s] = Fold(ScanStep, Unread, s)
    BY <1>0, ScanStepIs, <1>7, FoldSolution
<1>9. Fold(ScanStep, Unread, s) \in ScanState BY <1>0, ScanStepIs, FoldType
<1> QED BY <1>0, <1>1, <1>8, <1>9

LEMMA ScanNext ==
    ASSUME NEW s \in Seq(Char), NEW c \in Char
    PROVE  Scan(Append(s, c)) = Scanned(Scan(s), c)
<1>1. Append(s, c) \in Seq(Char) OBVIOUS
<1>2. /\ Scan(s) = Fold(ScanStep, Unread, s) /\ Scan(s) \in ScanState
      /\ Unread \in ScanState
      /\ Scan(Append(s, c)) = Fold(ScanStep, Unread, Append(s, c))
    BY <1>1, ScanIsFold
<1>3. Fold(ScanStep, Unread, Append(s, c)) = ScanStep[<<Fold(ScanStep, Unread, s), c>>]
    BY <1>2, ScanStepIs, FoldAppend
<1> QED BY <1>2, <1>3, ScanStepIs

LEMMA ScanNothing == Scan(<<>>) = Unread
<1>1. <<>> \in Seq(Char) OBVIOUS
<1>2. Scan(<<>>) = Fold(ScanStep, Unread, <<>>) /\ Unread \in ScanState
    BY <1>1, ScanIsFold
<1> QED BY <1>2, ScanStepIs, FoldEmpty

(***************************************************************************)
(* The first m digits of a number are those of a smaller one.              *)
(***************************************************************************)
Leading(n, m) ==
    IF m = Len(Digits(n)) THEN n
    ELSE IF m = Len(Digits(n)) - 1 THEN n \div 10
    ELSE n \div 100

LEMMA DigitsAre ==
    ASSUME NEW n \in Byte
    PROVE  /\ Digits(n) \in Seq(Char) /\ Len(Digits(n)) \in 1 .. 3
           /\ \A m \in 1 .. Len(Digits(n)) :
                /\ Digits(n)[m] \in Digit
                /\ Leading(n, m) \in Byte
                /\ Digits(Leading(n, m)) = SubSeq(Digits(n), 1, m)
                /\ Leading(n, m) = 10 * (IF m = 1 THEN 0 ELSE Leading(n, m - 1))
                                     + Digits(n)[m]
<1> DEFINE a == n \div 100
           b == (n \div 10) % 10
           c == n % 10
           q == n \div 10
<1>1. /\ n \in 0 .. 255 /\ a \in 0 .. 2 /\ b \in 0 .. 9 /\ c \in 0 .. 9 /\ q \in 0 .. 25
      /\ n = 10 * q + c /\ q = 10 * a + b /\ q \div 10 = a /\ q % 10 = b
      /\ n < 10 => n \div 10 = 0
      /\ n < 10 <=> q = 0
      /\ n < 100 <=> a = 0
    BY DEF Byte
<1>2. Byte = 0 .. 255 BY DEF Byte
<1>3. CASE n < 10
    <2> DEFINE d == Digits(n)
    <2>1. d = <<n>> BY <1>3 DEF Digits
    <2>2. n \in Char /\ n \in Digit BY <1>1, <1>3 DEF Char, Digit
    <2>3. d \in Seq(Char) /\ Len(d) = 1 /\ d[1] = n BY <2>1, <2>2
    <2>6. d = Digits(n) OBVIOUS
    <2> HIDE DEF d
    <2>7. SubSeq(d, 1, 1) = d BY <2>3, BeginningIs
    <2>4. Leading(n, 1) = n BY <2>3 DEF Leading, d
    <2>5. ASSUME NEW m \in 1 .. Len(d)
          PROVE  /\ d[m] \in Digit /\ Leading(n, m) \in Byte
                 /\ Digits(Leading(n, m)) = SubSeq(d, 1, m)
                 /\ Leading(n, m) = 10 * (IF m = 1 THEN 0 ELSE Leading(n, m - 1)) + d[m]
        <3>1. m = 1 BY <2>3, <2>5
        <3>2. n \in Byte /\ n = 10 * 0 + n BY <1>1
        <3> QED BY <2>2, <2>3, <2>4, <2>6, <2>7, <3>1, <3>2
    <2> QED BY <2>3, <2>5 DEF d
<1>4. CASE n >= 10 /\ n < 100
    <2> DEFINE d == Digits(n)
    <2>1. d = <<q, c>> BY <1>1, <1>4 DEF Digits
    <2>2. /\ q \in Char /\ c \in Char /\ q \in Digit /\ c \in Digit
        BY <1>1, <1>4 DEF Char, Digit
    <2> HIDE DEF q, c
    <2>3. d \in Seq(Char) /\ Len(d) = 2 /\ d[1] = q /\ d[2] = c BY <2>1, <2>2
    <2>7. d = Digits(n) OBVIOUS
    <2> HIDE DEF d
    <2> DEFINE one == <<q>>
    <2>8. one \in Seq(Char) /\ Len(one) = 1 /\ one[1] = q BY <2>2
    <2> HIDE DEF one
    <2>9. SubSeq(d, 1, 1) = one BY <2>3, <2>8, BeginningIs
    <2>10. SubSeq(d, 1, 2) = d BY <2>3, BeginningIs
    <2>4. Leading(n, 1) = q /\ Leading(n, 2) = n BY <2>3 DEF Leading, d, q
    <2>5. Digits(q) = one
        <3>1. q < 10 BY <1>1, <1>4 DEF q
        <3> QED BY <3>1 DEF Digits, one
    <2>11. 2 - 1 = 1 /\ 1 # 2 /\ q \in Byte /\ n \in Byte /\ n = 10 * q + c
           /\ q = 10 * 0 + q
        BY <1>1, <1>2, <1>4 DEF q, c
    <2>6. ASSUME NEW m \in 1 .. Len(d)
          PROVE  /\ d[m] \in Digit /\ Leading(n, m) \in Byte
                 /\ Digits(Leading(n, m)) = SubSeq(d, 1, m)
                 /\ Leading(n, m) = 10 * (IF m = 1 THEN 0 ELSE Leading(n, m - 1)) + d[m]
        <3>1. CASE m = 1 BY <2>2, <2>3, <2>4, <2>5, <2>9, <2>11, <3>1
        <3>2. CASE m = 2 BY <2>2, <2>3, <2>4, <2>7, <2>10, <2>11, <3>2
        <3> QED BY <2>3, <2>6, <3>1, <3>2
    <2> QED BY <2>3, <2>6 DEF d
<1>5. CASE n >= 100
    <2> DEFINE d == Digits(n)
    <2>1. d = <<a, b, c>> BY <1>1, <1>5 DEF Digits
    <2>2. /\ a \in Char /\ b \in Char /\ c \in Char
          /\ a \in Digit /\ b \in Digit /\ c \in Digit
        BY <1>1 DEF Char, Digit
    <2> DEFINE one == <<a>>
               two == <<a, b>>
    <2>0. Digits(a) = one /\ Digits(q) = two
        <3>1. a < 10 /\ q >= 10 /\ q < 100 BY <1>1, <1>5
        <3>2. q \div 10 = a /\ q % 10 = b BY <1>1
        <3> HIDE DEF a, b, q
        <3> QED BY <1>1, <3>1, <3>2 DEF Digits
    <2>8. /\ 3 - 1 = 2 /\ 2 - 1 = 1 /\ 1 # 2 /\ 1 # 3 /\ 2 # 3
          /\ a \in Byte /\ q \in Byte /\ n \in Byte
          /\ n = 10 * q + c /\ q = 10 * a + b /\ a = 10 * 0 + a
        BY <1>1, <1>2
    <2> HIDE DEF a, b, c, q
    <2>3. d \in Seq(Char) /\ Len(d) = 3 /\ d[1] = a /\ d[2] = b /\ d[3] = c
        BY <2>1, <2>2
    <2>9. /\ one \in Seq(Char) /\ Len(one) = 1 /\ one[1] = a
          /\ two \in Seq(Char) /\ Len(two) = 2 /\ two[1] = a /\ two[2] = b
        BY <2>2
    <2>10. d = Digits(n) OBVIOUS
    <2> HIDE DEF d, one, two
    <2>11. SubSeq(d, 1, 1) = one BY <2>3, <2>9, BeginningIs
    <2>12. SubSeq(d, 1, 2) = two
        <3>1. \A i \in 1 .. 2 : two[i] = d[i] BY <2>3, <2>9
        <3> QED BY <2>3, <2>9, <3>1, BeginningIs
    <2>13. SubSeq(d, 1, 3) = d BY <2>3, BeginningIs
    <2>4. Leading(n, 1) = a /\ Leading(n, 2) = q /\ Leading(n, 3) = n
        BY <2>3 DEF Leading, d, q, a
    <2>6. ASSUME NEW m \in 1 .. Len(d)
          PROVE  /\ d[m] \in Digit /\ Leading(n, m) \in Byte
                 /\ Digits(Leading(n, m)) = SubSeq(d, 1, m)
                 /\ Leading(n, m) = 10 * (IF m = 1 THEN 0 ELSE Leading(n, m - 1)) + d[m]
        <3>1. CASE m = 1 BY <2>0, <2>2, <2>3, <2>4, <2>8, <2>11, <3>1
        <3>2. CASE m = 2 BY <2>0, <2>2, <2>3, <2>4, <2>8, <2>12, <3>2
        <3>3. CASE m = 3 BY <2>2, <2>3, <2>4, <2>8, <2>10, <2>13, <3>3
        <3> QED BY <2>3, <2>6, <3>1, <3>2, <3>3
    <2> QED BY <2>3, <2>6 DEF d
<1> QED BY <1>1, <1>3, <1>4, <1>5

(***************************************************************************)
(* The numbers of a code, and its text as six steps.                       *)
(***************************************************************************)
LEMMA ObisCodeIs ==
    ASSUME NEW code \in ObisCodes
    PROVE  /\ code \in Seq(Byte) /\ code \in Seq(Nat) /\ Len(code) = 6
           /\ \A j \in 1 .. 6 : code[j] \in Byte /\ code[j] \in Nat
<1>1. code \in Seq(Byte) /\ Len(code) = 6 BY DEF ObisCodes
<1>2. code \in Seq(Nat) BY <1>1, ByteSeqIsNat
<1>3. \A j \in 1 .. 6 : j \in 1 .. Len(code) BY <1>1
<1> QED BY <1>1, <1>2, <1>3, ElementType

LEMMA UpToSteps ==
    ASSUME NEW code \in ObisCodes
    PROVE  /\ UpTo(code)[1] = Digits(code[1])
           /\ \A j \in 2 .. 6 :
                 UpTo(code)[j] = Append(UpTo(code)[j - 1], Separator) \o Digits(code[j])
<1> DEFINE Longer(text, j) == Append(text, Separator) \o Digits(code[j])
           Eqn(u) == u = [k \in 1 .. 6 |->
                            IF k = 1 THEN Digits(code[1]) ELSE Longer(u[k - 1], k)]
           ut == CHOOSE u : Eqn(u)
<1>1. UpTo(code) = ut BY DEF UpTo
<1>2. \E u : Eqn(u)
    <2> DEFINE t1 == Digits(code[1])
               t2 == Longer(t1, 2)
               t3 == Longer(t2, 3)
               t4 == Longer(t3, 4)
               t5 == Longer(t4, 5)
               t6 == Longer(t5, 6)
               u == [k \in 1 .. 6 |-> IF k = 1 THEN t1 ELSE IF k = 2 THEN t2
                                      ELSE IF k = 3 THEN t3 ELSE IF k = 4 THEN t4
                                      ELSE IF k = 5 THEN t5 ELSE t6]
               v == [k \in 1 .. 6 |-> IF k = 1 THEN t1 ELSE Longer(u[k - 1], k)]
    <2>1. t2 = Longer(t1, 2) /\ t3 = Longer(t2, 3) /\ t4 = Longer(t3, 4)
          /\ t5 = Longer(t4, 5) /\ t6 = Longer(t5, 6)
        OBVIOUS
    <2> HIDE DEF t1, t2, t3, t4, t5, t6, Longer
    <2>2. u[1] = t1 /\ u[2] = t2 /\ u[3] = t3 /\ u[4] = t4 /\ u[5] = t5 /\ u[6] = t6
        OBVIOUS
    <2>3. DOMAIN u = 1 .. 6 /\ u = [k \in 1 .. 6 |-> u[k]] OBVIOUS
    <2> HIDE DEF u
    <2>4. ASSUME NEW k \in 1 .. 6
          PROVE  u[k] = IF k = 1 THEN t1 ELSE Longer(u[k - 1], k)
        <3>1. CASE k = 1 BY <2>2, <3>1
        <3>2. CASE k = 2 BY <2>1, <2>2, <3>2
        <3>3. CASE k = 3 BY <2>1, <2>2, <3>3
        <3>4. CASE k = 4 BY <2>1, <2>2, <3>4
        <3>5. CASE k = 5 BY <2>1, <2>2, <3>5
        <3>6. CASE k = 6 BY <2>1, <2>2, <3>6
        <3> QED BY <3>1, <3>2, <3>3, <3>4, <3>5, <3>6
    <2>5. u = v BY <2>3, <2>4
    <2>6. Eqn(u) BY <2>5 DEF t1
    <2> QED BY <2>6
<1> HIDE DEF Longer
<1>3. Eqn(ut) BY <1>2
<1> HIDE DEF ut
<1>4. \A k \in 1 .. 6 : ut[k] = IF k = 1 THEN Digits(code[1]) ELSE Longer(ut[k - 1], k)
    BY <1>3
<1> HIDE DEF Eqn
<1>5. ut[1] = Digits(code[1]) BY <1>4
<1>6. ASSUME NEW j \in 2 .. 6 PROVE ut[j] = Longer(ut[j - 1], j)
    <2>1. j \in 1 .. 6 /\ j # 1 OBVIOUS
    <2> QED BY <1>4, <2>1
<1> QED BY <1>1, <1>5, <1>6 DEF Longer

(***************************************************************************)
(* The text before the j-th number, and the numbers as parts of the text.  *)
(***************************************************************************)
TextBefore(code, j) == IF j = 1 THEN <<>> ELSE Append(UpTo(code)[j - 1], Separator)

LEMMA UpToIs ==
    ASSUME NEW code \in ObisCodes
    PROVE  \A j \in 1 .. 6 :
             /\ TextBefore(code, j) \in Seq(Char) /\ UpTo(code)[j] \in Seq(Char)
             /\ Digits(code[j]) \in Seq(Char)
             /\ UpTo(code)[j] = TextBefore(code, j) \o Digits(code[j])
<1> DEFINE P(j) == /\ TextBefore(code, j) \in Seq(Char) /\ UpTo(code)[j] \in Seq(Char)
                   /\ Digits(code[j]) \in Seq(Char)
                   /\ UpTo(code)[j] = TextBefore(code, j) \o Digits(code[j])
           T == {k \in Nat : k + 1 \in 1 .. 6 => P(k + 1)}
<1>1. \A j \in 1 .. 6 : Digits(code[j]) \in Seq(Char) BY ObisCodeIs, DigitsAre
<1>2. 0 \in T
    <2> DEFINE d == Digits(code[1])
    <2>0. 1 \in 1 .. 6 OBVIOUS
    <2>1. d \in Seq(Char) BY <1>1, <2>0
    <2>6. UpTo(code)[1] = d BY UpToSteps
    <2> HIDE DEF d
    <2>2. <<>> \o d = d /\ <<>> \in Seq(Char) BY <2>1
    <2>3. TextBefore(code, 1) = <<>> BY DEF TextBefore
    <2>4. P(1) BY <2>1, <2>2, <2>3, <2>6 DEF d
    <2>5. 0 + 1 = 1 OBVIOUS
    <2> HIDE DEF P
    <2> QED BY <2>4, <2>5
<1>3. ASSUME NEW k \in Nat, k \in T PROVE k + 1 \in T
    <2> SUFFICES ASSUME (k + 1) + 1 \in 1 .. 6 PROVE P((k + 1) + 1)
        BY <1>3
    <2> DEFINE j == (k + 1) + 1
               u == UpTo(code)[j - 1]
               d == Digits(code[j])
    <2>1. j \in 2 .. 6 /\ j - 1 = k + 1 /\ j - 1 \in 1 .. 6 /\ j # 1 /\ j \in 1 .. 6
        BY <1>3
    <2>2. P(k + 1) BY <1>3, <2>1
    <2>3. u \in Seq(Char) BY <2>1, <2>2
    <2>4. d \in Seq(Char) BY <1>1, <2>1
    <2>5. UpTo(code)[j] = Append(u, Separator) \o d BY <2>1, UpToSteps
    <2>6. TextBefore(code, j) = Append(u, Separator) BY <2>1 DEF TextBefore
    <2> HIDE DEF u, d, j
    <2>7. Separator \in Char BY DEF Separator, Char
    <2>8. Append(u, Separator) \in Seq(Char) BY <2>3, <2>7
    <2> DEFINE b == Append(u, Separator)
    <2> HIDE DEF b
    <2>9. b \o d \in Seq(Char) BY <2>4, <2>8 DEF b
    <2>10. P(j) BY <2>4, <2>5, <2>6, <2>8, <2>9 DEF b, d
    <2> QED BY <2>10 DEF j
<1> HIDE DEF T
<1>4. Nat \subseteq T BY <1>2, <1>3, NatSetInduction
<1>5. ASSUME NEW j \in 1 .. 6 PROVE P(j)
    <2>1. j - 1 \in Nat /\ (j - 1) + 1 = j OBVIOUS
    <2>2. j - 1 \in T BY <1>4, <2>1
    <2> HIDE DEF P
    <2> QED BY <2>1, <2>2 DEF T
<1> QED BY <1>5

(***************************************************************************)
(* Codes that begin the same have texts that do.                           *)
(***************************************************************************)
LEMMA UpToSame ==
    ASSUME NEW c \in ObisCodes, NEW d \in ObisCodes, NEW j \in 1 .. 6,
           \A i \in 1 .. j - 1 : c[i] = d[i]
    PROVE  TextBefore(c, j) = TextBefore(d, j)
<1> DEFINE T == {k \in Nat : k \in 1 .. j - 1 => UpTo(c)[k] = UpTo(d)[k]}
<1>1. 0 \in T OBVIOUS
<1>2. ASSUME NEW k \in Nat, k \in T PROVE k + 1 \in T
    <2> SUFFICES ASSUME k + 1 \in 1 .. j - 1 PROVE UpTo(c)[k + 1] = UpTo(d)[k + 1]
        OBVIOUS
    <2>1. c[k + 1] = d[k + 1] OBVIOUS
    <2>2. CASE k = 0
        <3>1. k + 1 = 1 BY <2>2
        <3>2. UpTo(c)[1] = Digits(c[1]) /\ UpTo(d)[1] = Digits(d[1]) BY UpToSteps
        <3> QED BY <2>1, <3>1, <3>2
    <2>3. CASE k # 0
        <3>1. UpTo(c)[k] = UpTo(d)[k] BY <1>2, <2>3
        <3>2. k + 1 \in 2 .. 6 /\ (k + 1) - 1 = k BY <2>3
        <3> QED BY <2>1, <3>1, <3>2, UpToSteps
    <2> QED BY <2>2, <2>3
<1> HIDE DEF T
<1>3. Nat \subseteq T BY <1>1, <1>2, NatSetInduction
<1>4. CASE j = 1 BY <1>4 DEF TextBefore
<1>5. CASE j # 1
    <2>1. j - 1 \in Nat /\ j - 1 \in 1 .. j - 1 BY <1>5
    <2>2. UpTo(c)[j - 1] = UpTo(d)[j - 1] BY <1>3, <2>1 DEF T
    <2> QED BY <1>5, <2>2 DEF TextBefore
<1> QED BY <1>4, <1>5

(***************************************************************************)
(* A sequence of two parts is cut in the first or in the second.           *)
(***************************************************************************)
LEMMA CutJoin ==
    ASSUME NEW E, NEW s \in Seq(E), NEW t \in Seq(E), NEW n \in 0 .. Len(s \o t)
    PROVE  /\ n <= Len(s) => SubSeq(s \o t, 1, n) = SubSeq(s, 1, n)
           /\ n > Len(s) => /\ n - Len(s) \in 1 .. Len(t)
                            /\ SubSeq(s \o t, 1, n) = s \o SubSeq(t, 1, n - Len(s))
<1> DEFINE w == s \o t
           p == SubSeq(w, 1, n)
<1>1. /\ w \in Seq(E) /\ Len(w) = Len(s) + Len(t)
      /\ \A i \in 1 .. Len(s) : w[i] = s[i]
      /\ \A i \in 1 .. Len(t) : w[Len(s) + i] = t[i]
      /\ Len(s) \in Nat /\ Len(t) \in Nat /\ n \in Nat /\ n <= Len(w)
    BY Joined
<1> HIDE DEF w
<1>2. p \in Seq(E) /\ Len(p) = n /\ \A i \in 1 .. n : p[i] = w[i] BY <1>1
<1> HIDE DEF p
<1>3. ASSUME n <= Len(s) PROVE p = SubSeq(s, 1, n)
    <2> DEFINE q == SubSeq(s, 1, n)
    <2>1. q \in Seq(E) /\ Len(q) = n /\ \A i \in 1 .. n : q[i] = s[i] BY <1>1, <1>3
    <2> HIDE DEF q
    <2>2. ASSUME NEW i \in 1 .. n PROVE p[i] = q[i]
        <3>1. i \in 1 .. Len(s) BY <1>1, <1>3
        <3> QED BY <1>1, <1>2, <2>1, <3>1
    <2>3. p = q BY <1>2, <2>1, <2>2, SameElements
    <2> QED BY <2>3 DEF q
<1>4. ASSUME n > Len(s)
      PROVE  n - Len(s) \in 1 .. Len(t) /\ p = s \o SubSeq(t, 1, n - Len(s))
    <2> DEFINE m == n - Len(s)
               q == SubSeq(t, 1, m)
    <2>1. m \in 1 .. Len(t) /\ n = Len(s) + m BY <1>1, <1>4
    <2> HIDE DEF m
    <2>2. q \in Seq(E) /\ Len(q) = m /\ \A i \in 1 .. m : q[i] = t[i] BY <1>1, <2>1
    <2> HIDE DEF q
    <2> DEFINE r == s \o q
    <2>3. /\ r \in Seq(E) /\ Len(r) = Len(s) + Len(q)
          /\ \A i \in 1 .. Len(s) : r[i] = s[i]
          /\ \A i \in 1 .. Len(q) : r[Len(s) + i] = q[i]
        <3>1. q \in Seq(E) BY <2>2
        <3> QED BY <3>1, Joined
    <2> HIDE DEF r
    <2>4. ASSUME NEW i \in 1 .. n PROVE p[i] = r[i]
        <3>1. CASE i <= Len(s) BY <1>1, <1>2, <2>3, <3>1
        <3>2. CASE i > Len(s)
            <4> DEFINE k == i - Len(s)
            <4>1. k \in 1 .. m /\ k \in 1 .. Len(t) /\ i = Len(s) + k BY <1>1, <2>1, <3>2
            <4> HIDE DEF k
            <4>2. w[i] = t[k] BY <1>1, <4>1
            <4>3. r[i] = q[k] BY <2>2, <2>3, <4>1
            <4> QED BY <1>2, <2>2, <4>1, <4>2, <4>3
        <3> QED BY <1>1, <3>1, <3>2
    <2>5. p = r BY <1>2, <2>1, <2>2, <2>3, <2>4, SameElements
    <2> QED BY <2>1, <2>5 DEF r, q, m
<1> QED BY <1>3, <1>4 DEF p, w

(***************************************************************************)
(* What the loop has before the j-th number and in it: the numbers before  *)
(* it, and the number that the digits so far make.                         *)
(***************************************************************************)
AtDue(p, code, j) ==
    /\ p = TextBefore(code, j)
    /\ Scan(p) = [at |-> "due", numbers |-> SubSeq(code, 1, j - 1), number |-> 0]

AtNumber(p, code, j, v) ==
    /\ v \in Byte /\ p = TextBefore(code, j) \o Digits(v)
    /\ Scan(p) = [at |-> "number", numbers |-> SubSeq(code, 1, j - 1), number |-> v]

LEMMA DigitScanned ==
    ASSUME NEW s, NEW numbers, NEW number \in Nat, NEW c \in Digit,
           NEW at \in {"due", "number"},
           s = [at |-> at, numbers |-> numbers, number |-> number]
    PROVE  Scanned(s, c) = [at |-> "number", numbers |-> numbers, number |-> 10 * number + c]
BY DEF Scanned

LEMMA NumberScanned ==
    ASSUME NEW code \in ObisCodes, NEW j \in 1 .. 6, AtDue(TextBefore(code, j), code, j),
           NEW m \in 1 .. Len(Digits(code[j]))
    PROVE  AtNumber(TextBefore(code, j) \o SubSeq(Digits(code[j]), 1, m), code, j,
                    Leading(code[j], m))
<1> DEFINE n == code[j]
           d == Digits(n)
           b == TextBefore(code, j)
           numbers == SubSeq(code, 1, j - 1)
           Reached(k) == Scan(b \o SubSeq(d, 1, k))
                           = [at |-> "number", numbers |-> numbers, number |-> Leading(n, k)]
           T == {k \in Nat : k + 1 \in 1 .. Len(d) => Reached(k + 1)}
<1>1. n \in Byte BY ObisCodeIs
<1> HIDE DEF n
<1>2. /\ d \in Seq(Char) /\ Len(d) \in 1 .. 3
      /\ \A k \in 1 .. Len(d) :
            /\ d[k] \in Digit /\ Leading(n, k) \in Byte
            /\ Digits(Leading(n, k)) = SubSeq(d, 1, k)
            /\ Leading(n, k) = 10 * (IF k = 1 THEN 0 ELSE Leading(n, k - 1)) + d[k]
    BY <1>1, DigitsAre
<1>3. b \in Seq(Char) BY UpToIs
<1>4. Scan(b) = [at |-> "due", numbers |-> numbers, number |-> 0] BY DEF AtDue
<1>5. m \in 1 .. Len(d) BY DEF n
<1> HIDE DEF d, b, numbers
<1>6. ASSUME NEW k \in 0 .. 2, k + 1 <= Len(d)
      PROVE  /\ SubSeq(d, 1, k) \in Seq(Char) /\ d[k + 1] \in Char
             /\ b \o SubSeq(d, 1, k) \in Seq(Char)
             /\ Scan(b \o SubSeq(d, 1, k + 1))
                  = Scanned(Scan(b \o SubSeq(d, 1, k)), d[k + 1])
    <2> DEFINE p == SubSeq(d, 1, k)
               q == SubSeq(d, 1, k + 1)
               x == d[k + 1]
    <2>1. x \in Char
        <3>1. k + 1 \in 1 .. Len(d) BY <1>2, <1>6
        <3> QED BY <1>2, <3>1, ElementType
    <2>2. p \in Seq(Char) /\ Len(p) = k /\ \A i \in 1 .. k : p[i] = d[i] BY <1>2, <1>6
    <2>3. q \in Seq(Char) /\ Len(q) = k + 1 /\ \A i \in 1 .. k + 1 : q[i] = d[i]
        BY <1>2, <1>6
    <2>4. b \o p \in Seq(Char) BY <1>3, <2>2
    <2> HIDE DEF p, q, x
    <2>5. q = Append(p, x)
        <3> DEFINE r == Append(p, x)
        <3>1. /\ r \in Seq(Char) /\ Len(r) = k + 1 /\ r[k + 1] = x
              /\ \A i \in 1 .. k : r[i] = p[i]
            BY <2>1, <2>2
        <3> HIDE DEF r
        <3>2. ASSUME NEW i \in 1 .. k + 1 PROVE q[i] = r[i]
            <4>1. CASE i = k + 1 BY <2>3, <3>1, <4>1 DEF x
            <4>2. CASE i # k + 1
                <5>1. i \in 1 .. k BY <4>2
                <5> QED BY <2>2, <2>3, <3>1, <5>1
            <4> QED BY <4>1, <4>2
        <3>3. q = r BY <2>3, <3>1, <3>2, SameElements
        <3> QED BY <3>3 DEF r
    <2>6. b \o q = Append(b \o p, x) BY <1>3, <2>1, <2>2, <2>5
    <2>7. Scan(Append(b \o p, x)) = Scanned(Scan(b \o p), x) BY <2>1, <2>4, ScanNext
    <2> QED BY <2>1, <2>2, <2>4, <2>6, <2>7 DEF p, q, x
<1>7. 0 \in T
    <2> SUFFICES Reached(0 + 1) OBVIOUS
    <2>1. 0 + 1 = 1 /\ 0 \in 0 .. 2 /\ 0 + 1 <= Len(d) /\ 1 \in 1 .. Len(d) BY <1>2
    <2>2. b \o SubSeq(d, 1, 0) = b BY <1>2, <1>3
    <2>3. Scan(b \o SubSeq(d, 1, 0 + 1)) = Scanned(Scan(b \o SubSeq(d, 1, 0)), d[0 + 1])
        BY <1>6, <2>1
    <2>4. Scan(b \o SubSeq(d, 1, 1)) = Scanned(Scan(b), d[1]) BY <2>1, <2>2, <2>3
    <2>5. d[1] \in Digit /\ Leading(n, 1) = 10 * 0 + d[1] BY <1>2, <2>1
    <2> DEFINE x == d[1]
               s == Scan(b)
    <2>8. x \in Digit BY <2>5
    <2>9. s = [at |-> "due", numbers |-> numbers, number |-> 0] BY <1>4
    <2> HIDE DEF x, s
    <2>10. 0 \in Nat /\ "due" \in {"due", "number"} OBVIOUS
    <2>6. Scanned(s, x) = [at |-> "number", numbers |-> numbers, number |-> 10 * 0 + x]
        BY <2>8, <2>9, <2>10, DigitScanned
    <2>7. Reached(1) BY <2>4, <2>5, <2>6 DEF x, s
    <2> HIDE DEF Reached
    <2> QED BY <2>1, <2>7
<1>8. ASSUME NEW k \in Nat, k \in T PROVE k + 1 \in T
    <2> SUFFICES ASSUME (k + 1) + 1 \in 1 .. Len(d) PROVE Reached((k + 1) + 1)
        OBVIOUS
    <2>1. k + 1 \in 0 .. 2 /\ (k + 1) + 1 <= Len(d) /\ k + 1 \in 1 .. Len(d)
          /\ ((k + 1) + 1) - 1 = k + 1 /\ (k + 1) + 1 # 1
        BY <1>2
    <2>2. Reached(k + 1) BY <1>8, <2>1
    <2> DEFINE h == k + 1
               o == Leading(n, h)
               x == d[h + 1]
    <2>3. x \in Digit /\ Leading(n, h + 1) = 10 * o + x /\ o \in Byte BY <1>2, <2>1
    <2>4. Scan(b \o SubSeq(d, 1, h + 1)) = Scanned(Scan(b \o SubSeq(d, 1, h)), x)
        BY <1>6, <2>1
    <2> HIDE DEF x, o, h
    <2>5. Scan(b \o SubSeq(d, 1, h))
            = [at |-> "number", numbers |-> numbers, number |-> o]
        BY <2>2 DEF h, o
    <2>6. o \in Nat BY <2>3 DEF Byte
    <2>7. Scanned(Scan(b \o SubSeq(d, 1, h)), x)
            = [at |-> "number", numbers |-> numbers, number |-> 10 * o + x]
        BY <2>3, <2>5, <2>6, DigitScanned
    <2>8. Reached(h + 1) BY <2>3, <2>4, <2>7
    <2> QED BY <2>8 DEF h
<1> HIDE DEF T
<1>9. Nat \subseteq T BY <1>7, <1>8, NatSetInduction
<1>10. Reached(m)
    <2>1. m - 1 \in Nat /\ (m - 1) + 1 = m BY <1>2, <1>5
    <2>2. m - 1 \in T BY <1>9, <2>1
    <2> HIDE DEF Reached
    <2> QED BY <1>5, <2>1, <2>2 DEF T
<1>11. Leading(n, m) \in Byte /\ Digits(Leading(n, m)) = SubSeq(d, 1, m)
    BY <1>2, <1>5
<1>12. AtNumber(b \o SubSeq(d, 1, m), code, j, Leading(n, m))
    BY <1>10, <1>11 DEF AtNumber, b, numbers
<1> QED BY <1>12 DEF b, d, n

LEMMA DueReached ==
    ASSUME NEW code \in ObisCodes
    PROVE  \A j \in 1 .. 6 : AtDue(TextBefore(code, j), code, j)
<1> DEFINE P(j) == AtDue(TextBefore(code, j), code, j)
           T == {k \in Nat : k + 1 \in 1 .. 6 => P(k + 1)}
<1>1. 0 \in T
    <2>1. 0 + 1 = 1 /\ 1 - 1 = 0 OBVIOUS
    <2>2. TextBefore(code, 1) = <<>> BY DEF TextBefore
    <2>3. SubSeq(code, 1, 0) = <<>> BY ObisCodeIs
    <2>4. Scan(<<>>) = [at |-> "due", numbers |-> <<>>, number |-> 0]
        BY ScanNothing DEF Unread
    <2>5. P(1) BY <2>1, <2>2, <2>3, <2>4 DEF AtDue
    <2> HIDE DEF P
    <2> QED BY <2>1, <2>5
<1>2. ASSUME NEW k \in Nat, k \in T PROVE k + 1 \in T
    <2> SUFFICES ASSUME (k + 1) + 1 \in 1 .. 6 PROVE P((k + 1) + 1)
        OBVIOUS
    <2> DEFINE j == k + 1
               n == code[j]
               d == Digits(n)
               m == Len(d)
               b == TextBefore(code, j)
               numbers == SubSeq(code, 1, j - 1)
               u == UpTo(code)[j]
    <2>1. j \in 1 .. 5 /\ j \in 1 .. 6 /\ (j + 1) - 1 = j /\ j + 1 # 1 OBVIOUS
    <2>2. P(j) BY <1>2, <2>1
    <2> HIDE DEF P
    <2>3. n \in Byte BY <2>1, ObisCodeIs
    <2> HIDE DEF n
    <2>4. d \in Seq(Char) /\ m \in 1 .. m /\ Leading(n, m) = n /\ SubSeq(d, 1, m) = d
        <3>1. d \in Seq(Char) /\ m \in 1 .. 3 BY <2>3, DigitsAre
        <3>2. SubSeq(d, 1, m) = d BY <3>1, BeginningIs
        <3> QED BY <3>1, <3>2 DEF Leading
    <2>5. AtNumber(b \o SubSeq(d, 1, m), code, j, Leading(n, m))
        BY <2>1, <2>2, <2>4, NumberScanned DEF P, n
    <2> HIDE DEF d, m
    <2>6. Scan(b \o d) = [at |-> "number", numbers |-> numbers, number |-> n]
        BY <2>4, <2>5 DEF AtNumber
    <2>7. u = b \o d /\ u \in Seq(Char) BY <2>1, UpToIs DEF d, n
    <2> DEFINE t == Append(u, Separator)
    <2>8. TextBefore(code, j + 1) = t BY <2>1 DEF TextBefore
    <2>9. Scan(t) = Scanned(Scan(u), Separator)
        <3>1. Separator \in Char BY DEF Separator, Char
        <3> HIDE DEF u
        <3> QED BY <2>7, <3>1, ScanNext
    <2>10. numbers \in Seq(Byte) /\ Len(numbers) = j - 1
           /\ \A i \in 1 .. j - 1 : numbers[i] = code[i]
        <3>1. code \in Seq(Byte) /\ Len(code) = 6 BY ObisCodeIs
        <3>2. j - 1 \in Nat /\ j - 1 <= Len(code) BY <2>1, <3>1
        <3> DEFINE h == j - 1
        <3> HIDE DEF h, u, d, m, b
        <3>3. h \in Nat /\ h <= Len(code) /\ numbers = SubSeq(code, 1, h) BY <3>2 DEF h
        <3> HIDE DEF numbers
        <3>4. numbers \in Seq(Byte) /\ Len(numbers) = h
              /\ \A i \in 1 .. h : numbers[i] = code[i]
            BY <3>1, <3>3
        <3> QED BY <3>4 DEF h
    <2> HIDE DEF u, t, b, numbers, j
    <2>11. Len(numbers) # 5 BY <2>1, <2>10
    <2>12. ~ (Separator \in Digit) BY DEF Separator, Digit
    <2>13. Scan(t) = [at |-> "due", numbers |-> Append(numbers, n), number |-> 0]
        BY <2>6, <2>7, <2>9, <2>11, <2>12 DEF Scanned
    <2>14. Append(numbers, n) = SubSeq(code, 1, j)
        <3> DEFINE r == Append(numbers, n)
        <3>1. /\ r \in Seq(Byte) /\ Len(r) = j /\ r[j] = n
              /\ \A i \in 1 .. j - 1 : r[i] = numbers[i]
            BY <2>1, <2>3, <2>10
        <3> HIDE DEF r
        <3>2. ASSUME NEW i \in 1 .. Len(r) PROVE r[i] = code[i]
            <4>1. CASE i = j BY <3>1, <4>1 DEF n
            <4>2. CASE i # j
                <5>1. i \in 1 .. j - 1 BY <2>1, <3>1, <4>2
                <5> QED BY <2>10, <3>1, <5>1
            <4> QED BY <4>1, <4>2
        <3>3. code \in Seq(Byte) /\ Len(code) = 6 BY ObisCodeIs
        <3>4. Len(r) <= Len(code) BY <2>1, <3>1, <3>3
        <3>5. SubSeq(code, 1, Len(r)) = r BY <3>1, <3>2, <3>3, <3>4, BeginningIs
        <3> QED BY <3>1, <3>5 DEF r
    <2>15. AtDue(t, code, j + 1) BY <2>1, <2>8, <2>13, <2>14 DEF AtDue
    <2>16. P(j + 1) BY <2>8, <2>15 DEF P
    <2> QED BY <2>16 DEF j
<1> HIDE DEF T
<1>3. Nat \subseteq T BY <1>1, <1>2, NatSetInduction
<1>4. ASSUME NEW j \in 1 .. 6 PROVE P(j)
    <2>1. j - 1 \in Nat /\ (j - 1) + 1 = j OBVIOUS
    <2>2. j - 1 \in T BY <1>3, <2>1
    <2> HIDE DEF P
    <2> QED BY <2>1, <2>2 DEF T
<1> QED BY <1>4

(***************************************************************************)
(* A cut text ends before a number, or in one or after it.                 *)
(***************************************************************************)
Reaches(p, code, k, ended) ==
    \E j \in 1 .. k :
        \/ AtDue(p, code, j) /\ ~ended
        \/ \E v \in Byte : AtNumber(p, code, j, v) /\ (ended => j = k /\ v = code[k])

LEMMA CutReached ==
    ASSUME NEW code \in ObisCodes
    PROVE  \A k \in 1 .. 6 : \A n \in 0 .. Len(UpTo(code)[k]) :
             Reaches(SubSeq(UpTo(code)[k], 1, n), code, k, n = Len(UpTo(code)[k]))
<1> DEFINE C(k) == \A n \in 0 .. Len(UpTo(code)[k]) :
                     Reaches(SubSeq(UpTo(code)[k], 1, n), code, k, n = Len(UpTo(code)[k]))
           T == {k \in Nat : k \in 1 .. 6 => C(k)}
<1>1. 0 \in T OBVIOUS
<1>2. ASSUME NEW h \in Nat, h \in T PROVE h + 1 \in T
    <2> DEFINE k == h + 1
    <2> SUFFICES ASSUME k \in 1 .. 6, NEW n \in 0 .. Len(UpTo(code)[k])
                 PROVE  Reaches(SubSeq(UpTo(code)[k], 1, n), code, k,
                                n = Len(UpTo(code)[k]))
        OBVIOUS
    <2> DEFINE x == code[k]
               d == Digits(x)
               b == TextBefore(code, k)
               u == UpTo(code)[k]
               p == SubSeq(u, 1, n)
    <2>1. k \in 1 .. 6 /\ h = k - 1 OBVIOUS
    <2>2. x \in Byte BY <2>1, ObisCodeIs
    <2>3. b \in Seq(Char) /\ d \in Seq(Char) /\ u = b \o d BY <2>1, UpToIs
    <2>4. AtDue(b, code, k) BY <2>1, DueReached
    <2>5. n \in 0 .. Len(u) OBVIOUS
    <2>6. ASSUME NEW m \in 1 .. Len(d)
          PROVE  AtNumber(b \o SubSeq(d, 1, m), code, k, Leading(x, m))
        BY <2>1, <2>4, NumberScanned
    <2>7. Len(d) \in 1 .. 3 /\ \A m \in 1 .. Len(d) : Leading(x, m) \in Byte
        <3> HIDE DEF x
        <3> QED BY <2>2, DigitsAre
    <2>8. Leading(x, Len(d)) = x BY DEF Leading
    <2>9. k # 1 => h \in 1 .. 6 /\ C(h) /\ b = Append(UpTo(code)[h], Separator)
                   /\ UpTo(code)[h] \in Seq(Char)
        <3> SUFFICES ASSUME k # 1
                     PROVE  h \in 1 .. 6 /\ C(h) /\ b = Append(UpTo(code)[h], Separator)
                            /\ UpTo(code)[h] \in Seq(Char)
            OBVIOUS
        <3>1. h \in 1 .. 6 BY <2>1
        <3>2. C(h) BY <1>2, <3>1
        <3>3. b = Append(UpTo(code)[h], Separator) BY <2>1 DEF TextBefore
        <3>4. UpTo(code)[h] \in Seq(Char) BY <3>1, UpToIs
        <3> QED BY <3>1, <3>2, <3>3, <3>4
    <2>10. k = 1 => b = <<>> BY DEF TextBefore
    <2>11. Len(u) = Len(b) + Len(d) /\ Len(b) \in Nat BY <2>3
    <2>12. /\ n <= Len(b) => p = SubSeq(b, 1, n)
           /\ n > Len(b) => /\ n - Len(b) \in 1 .. Len(d)
                            /\ p = b \o SubSeq(d, 1, n - Len(b))
        <3> HIDE DEF b, d, u
        <3>1. n \in 0 .. Len(b \o d) BY <2>3, <2>5
        <3>2. /\ n <= Len(b) => SubSeq(b \o d, 1, n) = SubSeq(b, 1, n)
              /\ n > Len(b) => /\ n - Len(b) \in 1 .. Len(d)
                               /\ SubSeq(b \o d, 1, n) = b \o SubSeq(d, 1, n - Len(b))
            BY <2>3, <3>1, CutJoin
        <3> QED BY <2>3, <3>2
    <2> HIDE DEF x, d, b, u, p, C
    <2>13. CASE n > Len(b)
        <3> DEFINE m == n - Len(b)
                   v == Leading(x, m)
        <3>1. m \in 1 .. Len(d) /\ p = b \o SubSeq(d, 1, m) BY <2>12, <2>13
        <3>2. n = Len(u) => m = Len(d) BY <2>7, <2>11
        <3> HIDE DEF m
        <3>3. AtNumber(p, code, k, v) /\ v \in Byte BY <2>6, <2>7, <3>1
        <3>4. n = Len(u) => v = x BY <2>8, <3>2
        <3> HIDE DEF v
        <3>5. k \in 1 .. k BY <2>1
        <3>6. Reaches(p, code, k, n = Len(u)) BY <3>3, <3>4, <3>5 DEF Reaches, x
        <3> QED BY <3>6 DEF p, u
    <2>14. CASE n = Len(b)
        <3>1. p = b
            <4>1. p = SubSeq(b, 1, Len(b)) BY <2>12, <2>14
            <4>2. SubSeq(b, 1, Len(b)) = b BY <2>3, BeginningIs
            <4> QED BY <4>1, <4>2
        <3>2. n # Len(u)
            <4>1. Len(d) \in 1 .. 3 BY <2>7
            <4> DEFINE x1 == Len(d)
                       y1 == Len(b)
            <4>2. x1 \in 1 .. 3 /\ y1 \in Nat /\ Len(u) = y1 + x1 /\ n = y1
                BY <2>11, <2>14, <4>1
            <4> HIDE DEF x1, y1
            <4>3. y1 + x1 # y1 BY <4>2
            <4> QED BY <4>2, <4>3
        <3>3. k \in 1 .. k BY <2>1
        <3>4. Reaches(p, code, k, n = Len(u)) BY <2>4, <3>1, <3>2, <3>3 DEF Reaches
        <3> QED BY <3>4 DEF p, u
    <2>15. CASE n < Len(b)
        <3> DEFINE o == UpTo(code)[h]
        <3>1. k # 1
            <4>1. Len(<<>>) = 0 OBVIOUS
            <4>2. k = 1 => Len(b) = 0 BY <2>10, <4>1
            <4> QED BY <2>5, <2>15, <4>2
        <3>2. C(h) /\ b = Append(o, Separator) /\ o \in Seq(Char) BY <2>9, <3>1
        <3>3. C(h) => (n \in 0 .. Len(o) => Reaches(SubSeq(o, 1, n), code, h, n = Len(o)))
            BY DEF C
        <3> HIDE DEF o
        <3>4. Len(b) = Len(o) + 1 BY <3>2
        <3>5. n \in 0 .. Len(o) BY <2>5, <2>15, <3>2, <3>4
        <3>6. Reaches(SubSeq(o, 1, n), code, h, n = Len(o)) BY <3>2, <3>3, <3>5
        <3>7. SubSeq(b, 1, n) = SubSeq(o, 1, n)
            <4> DEFINE one == <<Separator>>
            <4>1. Separator \in Char BY DEF Separator, Char
            <4>2. one \in Seq(Char) /\ b = o \o one BY <3>2, <4>1
            <4>3. Len(o) <= Len(b) BY <3>2, <3>4
            <4> HIDE DEF one
            <4>4. n \in 0 .. Len(o \o one) /\ n <= Len(o)
                BY <2>5, <2>15, <3>2, <3>5, <4>2
            <4>5. SubSeq(o \o one, 1, n) = SubSeq(o, 1, n) BY <3>2, <4>2, <4>4, CutJoin
            <4> QED BY <4>2, <4>5
        <3>8. p = SubSeq(o, 1, n) BY <2>12, <2>15, <3>7
        <3>9. n # Len(u) BY <2>11, <2>15, <2>5, <2>7
        <3>10. \A j \in 1 .. h : j \in 1 .. k BY <2>1
        <3>11. PICK j \in 1 .. h : AtDue(p, code, j) \/ \E v \in Byte : AtNumber(p, code, j, v)
            BY <3>6, <3>8 DEF Reaches
        <3>12. Reaches(p, code, k, n = Len(u)) BY <3>9, <3>10, <3>11 DEF Reaches
        <3> QED BY <3>12 DEF p, u
    <2>16. n > Len(b) \/ n = Len(b) \/ n < Len(b) BY <2>5, <2>11
    <2> QED BY <2>13, <2>14, <2>15, <2>16
<1> HIDE DEF T
<1>3. Nat \subseteq T BY <1>1, <1>2, NatSetInduction
<1>4. ASSUME NEW k \in 1 .. 6 PROVE C(k)
    <2>1. k \in Nat OBVIOUS
    <2> HIDE DEF C
    <2> QED BY <1>3, <2>1 DEF T
<1> QED BY <1>4

LEMMA CanonicalType ==
    ASSUME NEW code \in ObisCodes
    PROVE  ToCanonical(code) \in Seq(Char)
<1>1. 6 \in 1 .. 6 OBVIOUS
<1>2. UpTo(code)[6] \in Seq(Char) BY <1>1, UpToIs
<1> QED BY <1>2 DEF ToCanonical

(***************************************************************************)
(* The text up to a number is a beginning of the text of the code.         *)
(***************************************************************************)
LEMMA UpToBegins ==
    ASSUME NEW c \in ObisCodes, NEW j \in 1 .. 6
    PROVE  IsPrefix(UpTo(c)[j], ToCanonical(c))
<1> DEFINE s == UpTo(c)[j]
           B(t) == Len(s) <= Len(t) /\ \A i \in 1 .. Len(s) : t[i] = s[i]
           T == {k \in Nat : j + k <= 6 => B(UpTo(c)[j + k])}
<1>1. s \in Seq(Char) BY UpToIs
<1>2. 0 \in T
    <2>1. j + 0 = j OBVIOUS
    <2>2. B(s) BY <1>1
    <2> HIDE DEF B
    <2> QED BY <2>1, <2>2
<1>3. ASSUME NEW k \in Nat, k \in T PROVE k + 1 \in T
    <2> DEFINE h == j + k
               u == UpTo(c)[h]
               d == Digits(c[h + 1])
               a == Append(u, Separator)
               t == a \o d
    <2> SUFFICES ASSUME j + (k + 1) <= 6 PROVE B(UpTo(c)[j + (k + 1)])
        OBVIOUS
    <2>1. /\ h \in 1 .. 6 /\ h + 1 \in 1 .. 6 /\ h + 1 \in 2 .. 6 /\ h <= 6
          /\ (h + 1) - 1 = h /\ j + (k + 1) = h + 1
        OBVIOUS
    <2>2. B(u) BY <1>3, <2>1
    <2>3. u \in Seq(Char) /\ d \in Seq(Char) BY <2>1, UpToIs
    <2>4. UpTo(c)[h + 1] = t BY <2>1, UpToSteps
    <2> HIDE DEF s, u, d, h
    <2>5. Separator \in Char BY DEF Separator, Char
    <2>6. /\ a \in Seq(Char) /\ Len(a) = Len(u) + 1
          /\ \A i \in 1 .. Len(u) : a[i] = u[i]
        BY <2>3, <2>5
    <2> HIDE DEF a
    <2>7. /\ t \in Seq(Char) /\ Len(t) = Len(a) + Len(d)
          /\ \A i \in 1 .. Len(a) : t[i] = a[i]
        BY <2>3, <2>6, Joined
    <2> HIDE DEF t
    <2>8. Len(s) \in Nat /\ Len(u) \in Nat /\ Len(d) \in Nat BY <1>1, <2>3
    <2>9. ASSUME NEW i \in 1 .. Len(s) PROVE t[i] = s[i]
        <3>1. i \in 1 .. Len(u) /\ i \in 1 .. Len(a) BY <2>2, <2>6, <2>8
        <3> QED BY <2>2, <2>6, <2>7, <3>1
    <2>10. Len(s) <= Len(t) BY <2>2, <2>6, <2>7, <2>8
    <2> QED BY <2>1, <2>4, <2>9, <2>10
<1> HIDE DEF T
<1>4. Nat \subseteq T BY <1>2, <1>3, NatSetInduction
<1>5. 6 - j \in Nat /\ j + (6 - j) = 6 OBVIOUS
<1> DEFINE t == UpTo(c)[6]
<1>6. B(t)
    <2>1. 6 - j \in T BY <1>4, <1>5
    <2> HIDE DEF B, s
    <2> QED BY <1>5, <2>1 DEF T
<1>7. t \in Seq(Char) BY UpToIs
<1>8. ToCanonical(c) = t BY DEF ToCanonical
<1> HIDE DEF s, t
<1>9. SubSeq(t, 1, Len(s)) = s BY <1>1, <1>6, <1>7, BeginningIs
<1>10. SubSeq(s, 1, Len(s)) = s BY <1>1, BeginningIs
<1>11. IsPrefix(s, t) BY <1>6, <1>9, <1>10 DEF IsPrefix
<1> QED BY <1>8, <1>11 DEF s

(***************************************************************************)
(* A text that is cut anywhere, also in a number, is refused or gives a    *)
(* code whose text begins as it does, and the whole text gives the code    *)
(* (to_canonical, from_string).                                            *)
(***************************************************************************)
THEOREM ObisIsRead ==
    ASSUME NEW code \in ObisCodes, NEW n \in 0 .. Len(ToCanonical(code)),
           NEW r \in FromString(SubSeq(ToCanonical(code), 1, n))
    PROVE  /\ r.ok => IsPrefix(SubSeq(ToCanonical(code), 1, n), ToCanonical(r.val))
           /\ ~r.ok => r.err = "InvalidObis"
           /\ n = Len(ToCanonical(code)) => r = Got(code, n)
<1> DEFINE full == ToCanonical(code)
           text == SubSeq(full, 1, n)
           s == Scan(text)
           read == Append(s.numbers, s.number)
           Rest == [1 .. 6 - Len(read) -> Leftovers]
           Taking(numbers) == IF \A i \in 1 .. 6 : numbers[i] \in Byte
                              THEN Got(numbers, Len(text)) ELSE Error("InvalidObis")
<1>1. /\ code \in Seq(Byte) /\ code \in Seq(Nat) /\ Len(code) = 6
      /\ \A j \in 1 .. 6 : code[j] \in Byte /\ code[j] \in Nat
    BY ObisCodeIs
<1>2. FromString(text) = IF s.at \in {"due", "error"} THEN {Error("InvalidObis")}
                         ELSE {Taking(read \o rest) : rest \in Rest}
    BY DEF FromString
<1>3. r \in FromString(text) OBVIOUS
<1>4. full = UpTo(code)[6] /\ 6 \in 1 .. 6 BY DEF ToCanonical
<1>5. n \in 0 .. Len(UpTo(code)[6]) BY <1>4
<1>6. Reaches(text, code, 6, n = Len(full))
    <2>1. Reaches(SubSeq(UpTo(code)[6], 1, n), code, 6, n = Len(UpTo(code)[6]))
        BY <1>4, <1>5, CutReached
    <2> HIDE DEF Reaches
    <2> QED BY <1>4, <2>1
<1>7. full \in Seq(Char) BY <1>4, UpToIs
<1> HIDE DEF full
<1>8. n \in 0 .. Len(full) BY DEF full
<1>9. Len(text) = n BY <1>7, <1>8
<1> HIDE DEF text
<1>10. PICK j \in 1 .. 6 :
         \/ AtDue(text, code, j) /\ n # Len(full)
         \/ \E v \in Byte : AtNumber(text, code, j, v)
                            /\ (n = Len(full) => j = 6 /\ v = code[6])
    BY <1>6 DEF Reaches
<1>11. CASE AtDue(text, code, j) /\ n # Len(full)
    <2>1. s.at = "due" BY <1>11 DEF AtDue
    <2>2. r = Error("InvalidObis") BY <1>2, <1>3, <2>1
    <2>3. ~r.ok /\ r.err = "InvalidObis" BY <2>2, ErrorIs
    <2> QED BY <1>11, <2>3 DEF full
<1>12. CASE \E v \in Byte : AtNumber(text, code, j, v)
                            /\ (n = Len(full) => j = 6 /\ v = code[6])
    <2>1. PICK v \in Byte : AtNumber(text, code, j, v)
                            /\ (n = Len(full) => j = 6 /\ v = code[6])
        BY <1>12
    <2> DEFINE before == SubSeq(code, 1, j - 1)
    <2>2. s = [at |-> "number", numbers |-> before, number |-> v]
        BY <2>1 DEF AtNumber
    <2>3. text = TextBefore(code, j) \o Digits(v) BY <2>1 DEF AtNumber
    <2>4. s.at = "number" /\ s.numbers = before /\ s.number = v BY <2>2
    <2>5. before \in Seq(Nat) /\ Len(before) = j - 1
          /\ \A i \in 1 .. j - 1 : before[i] = code[i]
        <3> DEFINE h == j - 1
        <3>1. h \in Nat /\ h <= Len(code) BY <1>1
        <3> HIDE DEF h
        <3>2. SubSeq(code, 1, h) \in Seq(Nat) /\ Len(SubSeq(code, 1, h)) = h
              /\ \A i \in 1 .. h : SubSeq(code, 1, h)[i] = code[i]
            BY <1>1, <3>1
        <3> QED BY <3>2 DEF h
    <2>6. read = Append(before, v) BY <2>4
    <2>7. PICK rest \in Rest : r = Taking(read \o rest)
        <3>1. ~ (s.at \in {"due", "error"}) BY <2>4
        <3>2. r \in {Taking(read \o rest) : rest \in Rest} BY <1>2, <1>3, <3>1
        <3> HIDE DEF Rest, Taking, read
        <3> QED BY <3>2
    <2> HIDE DEF before, s
    <2>8. v \in Nat BY DEF Byte
    <2>9. /\ read \in Seq(Nat) /\ Len(read) = j /\ read[j] = v
          /\ \A i \in 1 .. j - 1 : read[i] = code[i]
        <3>1. Append(before, v) \in Seq(Nat) /\ Len(Append(before, v)) = j
              /\ Append(before, v)[j] = v
              /\ \A i \in 1 .. j - 1 : Append(before, v)[i] = before[i]
            BY <2>5, <2>8
        <3> HIDE DEF read
        <3> QED BY <2>5, <2>6, <3>1
    <2> HIDE DEF read
    <2>10. rest \in Seq(Nat) /\ Len(rest) = 6 - j
        <3>1. Leftovers \subseteq Nat BY DEF Leftovers
        <3> DEFINE k == 6 - j
        <3>2. k \in Nat OBVIOUS
        <3>3. rest \in [1 .. k -> Leftovers] BY <2>9
        <3> HIDE DEF Rest, k
        <3>4. rest \in [1 .. k -> Nat] BY <3>1, <3>3
        <3>5. rest \in Seq(Nat) /\ Len(rest) = k BY <3>2, <3>4
        <3> QED BY <3>5 DEF k
    <2> HIDE DEF Rest
    <2> DEFINE numbers == read \o rest
    <2>11. /\ numbers \in Seq(Nat) /\ Len(numbers) = 6
           /\ \A i \in 1 .. j : numbers[i] = read[i]
        <3>1. /\ numbers \in Seq(Nat) /\ Len(numbers) = Len(read) + Len(rest)
              /\ \A i \in 1 .. Len(read) : numbers[i] = read[i]
            BY <2>9, <2>10, Joined
        <3> HIDE DEF numbers
        <3> QED BY <2>9, <2>10, <3>1
    <2>12. r = Taking(numbers) BY <2>7
    <2> HIDE DEF numbers
    <2>13. numbers[j] = v /\ \A i \in 1 .. j - 1 : numbers[i] = code[i]
        <3>1. j \in 1 .. j /\ \A i \in 1 .. j - 1 : i \in 1 .. j OBVIOUS
        <3> QED BY <2>9, <2>11, <3>1
    <2>14. CASE \A i \in 1 .. 6 : numbers[i] \in Byte
        <3>1. r = Got(numbers, n) BY <1>9, <2>12, <2>14
        <3>2. r.ok /\ r.val = numbers BY <3>1, GotIs
        <3>3. numbers \in ObisCodes
            <4>1. numbers = [i \in 1 .. 6 |-> numbers[i]] BY <2>11
            <4>2. numbers \in [1 .. 6 -> Byte] BY <2>14, <4>1
            <4> DEFINE k == 6
            <4>4. k \in Nat /\ numbers \in [1 .. k -> Byte] BY <4>2
            <4> HIDE DEF k
            <4>3. numbers \in Seq(Byte) BY <4>4
            <4> QED BY <2>11, <4>3 DEF ObisCodes
        <3>4. TextBefore(numbers, j) = TextBefore(code, j)
            BY <2>13, <3>3, UpToSame
        <3>5. UpTo(numbers)[j] = TextBefore(numbers, j) \o Digits(numbers[j])
            BY <3>3, UpToIs
        <3>6. UpTo(numbers)[j] = text BY <2>3, <2>13, <3>4, <3>5
        <3>7. IsPrefix(text, ToCanonical(numbers)) BY <3>3, <3>6, UpToBegins
        <3>8. ASSUME n = Len(full) PROVE numbers = code
            <4>1. j = 6 /\ v = code[6] BY <2>1, <3>8
            <4>2. ASSUME NEW i \in 1 .. 6 PROVE numbers[i] = code[i]
                <5>1. CASE i = 6 BY <2>13, <4>1, <5>1
                <5>2. CASE i # 6
                    <6>1. i \in 1 .. j - 1 BY <4>1, <5>2
                    <6> QED BY <2>13, <6>1
                <5> QED BY <5>1, <5>2
            <4> QED BY <1>1, <2>11, <4>2, SameElements
        <3> QED BY <3>1, <3>2, <3>7, <3>8 DEF text, full
    <2>15. CASE ~ \A i \in 1 .. 6 : numbers[i] \in Byte
        <3>1. r = Error("InvalidObis") BY <2>12, <2>15
        <3>2. ~r.ok /\ r.err = "InvalidObis" BY <3>1, ErrorIs
        <3>3. n # Len(full)
            <4> SUFFICES ASSUME n = Len(full) PROVE FALSE
                OBVIOUS
            <4>1. j = 6 /\ v = code[6] BY <2>1
            <4>2. ASSUME NEW i \in 1 .. 6 PROVE numbers[i] \in Byte
                <5>1. CASE i = 6 BY <1>1, <2>13, <4>1, <5>1
                <5>2. CASE i # 6
                    <6>1. i \in 1 .. j - 1 BY <4>1, <5>2
                    <6>2. numbers[i] = code[i] BY <2>13, <6>1
                    <6> QED BY <1>1, <6>2
                <5> QED BY <5>1, <5>2
            <4> QED BY <2>15, <4>2
        <3> QED BY <3>2, <3>3 DEF full
    <2> QED BY <2>14, <2>15
<1> QED BY <1>10, <1>11, <1>12

(***************************************************************************)
(* The values of each depth.                                               *)
(***************************************************************************)
Having(E) == {v \in [type : DOMAIN TagOf, bytes : Seq(Byte), items : E] : Fits(v)}

Layer(f, k) == Having(IF k = 0 THEN {<<>>} ELSE Seq(f[k - 1]))

LayersTo(f, n) == f = [k \in 0 .. n |-> Layer(f, k)]

LEMMA LayersToExist ==
    \A n \in Nat : \E f : LayersTo(f, n)
<1> DEFINE T == {n \in Nat : \E f : LayersTo(f, n)}
<1>1. 0 \in T
    <2> DEFINE f == [k \in 0 .. 0 |-> Having({<<>>})]
    <2>1. \A k \in 0 .. 0 : Layer(f, k) = Having({<<>>}) BY DEF Layer
    <2>2. f = [k \in 0 .. 0 |-> Layer(f, k)] BY <2>1
    <2> HIDE DEF f
    <2>3. LayersTo(f, 0) BY <2>2 DEF LayersTo
    <2> QED BY <2>3
<1>2. ASSUME NEW n \in Nat, n \in T PROVE n + 1 \in T
    <2>1. PICK f : LayersTo(f, n) BY <1>2
    <2> DEFINE top == Having(Seq(f[n]))
               g == [k \in 0 .. n + 1 |-> IF k = n + 1 THEN top ELSE f[k]]
    <2>2. \A k \in 0 .. n : f[k] = Layer(f, k) BY <2>1 DEF LayersTo
    <2> HIDE DEF top
    <2>3. \A k \in 0 .. n : g[k] = f[k] OBVIOUS
    <2>4. g[n + 1] = top OBVIOUS
    <2>5. g = [k \in 0 .. n + 1 |-> g[k]] OBVIOUS
    <2> HIDE DEF g
    <2>6. ASSUME NEW k \in 0 .. n + 1 PROVE g[k] = Layer(g, k)
        <3>1. CASE k = n + 1
            <4>1. k # 0 /\ k - 1 = n /\ n \in 0 .. n BY <3>1
            <4>2. Layer(g, k) = Having(Seq(g[n])) BY <4>1 DEF Layer
            <4>3. g[n] = f[n] BY <2>3, <4>1
            <4> QED BY <2>4, <3>1, <4>2, <4>3 DEF top
        <3>2. CASE k # n + 1
            <4>1. k \in 0 .. n BY <3>2
            <4>2. Layer(g, k) = Layer(f, k)
                <5>1. CASE k = 0 BY <5>1 DEF Layer
                <5>2. CASE k # 0
                    <6>1. k - 1 \in 0 .. n BY <4>1, <5>2
                    <6>2. g[k - 1] = f[k - 1] BY <2>3, <6>1
                    <6> QED BY <5>2, <6>2 DEF Layer
                <5> QED BY <5>1, <5>2
            <4> QED BY <2>2, <2>3, <4>1, <4>2
        <3> QED BY <3>1, <3>2
    <2>7. LayersTo(g, n + 1) BY <2>5, <2>6 DEF LayersTo
    <2> QED BY <2>7
<1> HIDE DEF T
<1>3. Nat \subseteq T BY <1>1, <1>2, NatSetInduction
<1> QED BY <1>3 DEF T

LEMMA LayersAgree ==
    ASSUME NEW n \in Nat, NEW m \in Nat, NEW f, NEW g, LayersTo(f, n), LayersTo(g, m)
    PROVE  \A k \in Nat : k <= n /\ k <= m => f[k] = g[k]
<1> DEFINE T == {k \in Nat : k <= n /\ k <= m => f[k] = g[k]}
<1>1. /\ \A k \in 0 .. n : f[k] = Layer(f, k)
      /\ \A k \in 0 .. m : g[k] = Layer(g, k)
    BY DEF LayersTo
<1>2. 0 \in T
    <2>1. 0 \in 0 .. n /\ 0 \in 0 .. m OBVIOUS
    <2>2. Layer(f, 0) = Layer(g, 0) BY DEF Layer
    <2> QED BY <1>1, <2>1, <2>2
<1>3. ASSUME NEW k \in Nat, k \in T PROVE k + 1 \in T
    <2>1. SUFFICES ASSUME k + 1 <= n, k + 1 <= m PROVE f[k + 1] = g[k + 1]
        OBVIOUS
    <2>2. k + 1 \in 0 .. n /\ k + 1 \in 0 .. m /\ k <= n /\ k <= m /\ k + 1 # 0
          /\ (k + 1) - 1 = k
        BY <2>1
    <2>3. f[k] = g[k] BY <1>3, <2>2
    <2>4. Layer(f, k + 1) = Layer(g, k + 1) BY <2>2, <2>3 DEF Layer
    <2> QED BY <1>1, <2>2, <2>4
<1> HIDE DEF T
<1>4. Nat \subseteq T BY <1>2, <1>3, NatSetInduction
<1> QED BY <1>4 DEF T

ValueEq(f) == f = [d \in Nat |-> Layer(f, d)]

LEMMA LayersExist ==
    \E f : ValueEq(f)
<1> DEFINE a == [n \in Nat |-> CHOOSE f : LayersTo(f, n)]
           h == [n \in Nat |-> a[n][n]]
<1>1. \A n \in Nat : LayersTo(a[n], n) BY LayersToExist
<1>2. \A n \in Nat : h[n] = a[n][n] OBVIOUS
<1>3. h = [n \in Nat |-> h[n]] OBVIOUS
<1> HIDE DEF a, h
<1>4. ASSUME NEW n \in Nat PROVE h[n] = Layer(h, n)
    <2>1. LayersTo(a[n], n) /\ n \in 0 .. n BY <1>1
    <2>2. a[n][n] = Layer(a[n], n) BY <2>1 DEF LayersTo
    <2>3. Layer(a[n], n) = Layer(h, n)
        <3>1. CASE n = 0 BY <3>1 DEF Layer
        <3>2. CASE n # 0
            <4>1. n - 1 \in Nat /\ n - 1 <= n /\ n - 1 <= n - 1 BY <3>2
            <4>2. LayersTo(a[n - 1], n - 1) BY <1>1, <4>1
            <4>3. a[n][n - 1] = a[n - 1][n - 1] BY <2>1, <4>1, <4>2, LayersAgree
            <4>4. h[n - 1] = a[n - 1][n - 1] BY <1>2, <4>1
            <4> QED BY <3>2, <4>3, <4>4 DEF Layer
        <3> QED BY <3>1, <3>2
    <2> QED BY <1>2, <2>2, <2>3
<1>5. ValueEq(h) BY <1>3, <1>4 DEF ValueEq
<1> QED BY <1>5

LEMMA ValueIs ==
    /\ Value[0] = Having({<<>>})
    /\ \A d \in Nat : Value[d + 1] = Having(Seq(Value[d]))
<1>1. Value = CHOOSE f : ValueEq(f) BY DEF Value, ValueEq, Layer, Having
<1>2. ValueEq(Value) BY <1>1, LayersExist
<1>3. \A d \in Nat : Value[d] = Layer(Value, d) BY <1>2 DEF ValueEq
<1>4. Layer(Value, 0) = Having({<<>>}) BY DEF Layer
<1>5. ASSUME NEW d \in Nat PROVE Value[d + 1] = Having(Seq(Value[d]))
    <2>1. d + 1 \in Nat /\ d + 1 # 0 /\ (d + 1) - 1 = d OBVIOUS
    <2>2. Value[d + 1] = Layer(Value, d + 1) BY <1>3, <2>1
    <2> QED BY <2>1, <2>2 DEF Layer
<1> QED BY <1>3, <1>4, <1>5

(***************************************************************************)
(* What the items of a value of a depth are values of.                     *)
(***************************************************************************)
Below(d) == IF d = 0 THEN {} ELSE Value[d - 1]

Triple(type, bytes, items) == [type |-> type, bytes |-> bytes, items |-> items]

IsValue(v, d) ==
    /\ v = Triple(v.type, v.bytes, v.items)
    /\ v.type \in DOMAIN TagOf
    /\ v.bytes \in Seq(Byte)
    /\ v.items \in Seq(Below(d))
    /\ Fits(v)

LEMMA BelowIs ==
    Below(0) = {} /\ \A d \in Nat : Below(d + 1) = Value[d]
<1>1. \A d \in Nat : d + 1 # 0 /\ (d + 1) - 1 = d OBVIOUS
<1> QED BY <1>1 DEF Below

LEMMA NoItems ==
    Seq({}) = {<<>>}
<1>1. ASSUME NEW s \in Seq({}) PROVE s = <<>>
    <2>1. Len(s) = 0
        <3>1. SUFFICES ASSUME Len(s) # 0 PROVE FALSE OBVIOUS
        <3>2. 1 \in 1 .. Len(s) BY <3>1
        <3>3. s[1] \in {} BY <3>2
        <3> QED BY <3>3
    <2> QED BY <2>1
<1>2. <<>> \in Seq({}) OBVIOUS
<1> QED BY <1>1, <1>2

LEMMA ValueIsHaving ==
    ASSUME NEW d \in Nat
    PROVE  Value[d] = Having(Seq(Below(d)))
<1>1. CASE d = 0
    <2>1. Below(0) = {} BY BelowIs
    <2> QED BY <1>1, <2>1, NoItems, ValueIs
<1>2. CASE d # 0
    <2>1. d - 1 \in Nat /\ (d - 1) + 1 = d BY <1>2
    <2>2. Value[(d - 1) + 1] = Having(Seq(Value[d - 1])) BY <2>1, ValueIs
    <2> QED BY <1>2, <2>1, <2>2 DEF Below
<1> QED BY <1>1, <1>2

LEMMA ValueHas ==
    ASSUME NEW d \in Nat, NEW v \in Value[d]
    PROVE  IsValue(v, d)
<1> DEFINE E == Seq(Below(d))
<1>1. v \in Having(E) BY ValueIsHaving
<1>2. v \in [type : DOMAIN TagOf, bytes : Seq(Byte), items : E] /\ Fits(v)
    BY <1>1 DEF Having
<1> DEFINE D == DOMAIN TagOf
<1> HIDE DEF D
<1>3. v \in [type : D, bytes : Seq(Byte), items : E] BY <1>2 DEF D
<1> HIDE DEF E
<1>4. /\ v = Triple(v.type, v.bytes, v.items)
      /\ v.type \in D /\ v.bytes \in Seq(Byte) /\ v.items \in E
    BY <1>3 DEF Triple
<1> QED BY <1>2, <1>4 DEF IsValue, D, E

LEMMA ValueFrom ==
    ASSUME NEW d \in Nat, NEW type \in DOMAIN TagOf, NEW bytes \in Seq(Byte),
           NEW items \in Seq(Below(d)), Fits(Triple(type, bytes, items))
    PROVE  Triple(type, bytes, items) \in Value[d]
<1> DEFINE E == Seq(Below(d))
           D == DOMAIN TagOf
           v == Triple(type, bytes, items)
<1>1. type \in D /\ items \in E OBVIOUS
<1> HIDE DEF E, D
<1>2. v \in [type : D, bytes : Seq(Byte), items : E] BY <1>1 DEF Triple
<1> HIDE DEF v
<1>3. v \in Having(E) BY <1>2 DEF Having, D, v
<1> QED BY <1>3, ValueIsHaving DEF E, v

LEMMA TripleIs ==
    ASSUME NEW type, NEW bytes, NEW items
    PROVE  /\ Triple(type, bytes, items).type = type
           /\ Triple(type, bytes, items).bytes = bytes
           /\ Triple(type, bytes, items).items = items
BY DEF Triple

LEMMA SeqOfMore ==
    ASSUME NEW A, NEW B, A \subseteq B
    PROVE  Seq(A) \subseteq Seq(B)
<1>1. ASSUME NEW s \in Seq(A) PROVE s \in Seq(B)
    <2>1. \A i \in 1 .. Len(s) : s[i] \in B
        <3> TAKE i \in 1 .. Len(s)
        <3>1. s[i] \in A BY ElementType
        <3> QED BY <3>1
    <2>2. s = [i \in 1 .. Len(s) |-> s[i]] /\ Len(s) \in Nat OBVIOUS
    <2> QED BY <2>1, <2>2
<1> QED BY <1>1

LEMMA ValueGrows ==
    \A d \in Nat : Below(d) \subseteq Value[d] /\ Value[d] \subseteq Value[d + 1]
<1> DEFINE T == {d \in Nat : Value[d] \subseteq Value[d + 1]}
<1>1. 0 \in T
    <2>1. {} \subseteq Value[0] OBVIOUS
    <2>2. ASSUME NEW v \in Value[0] PROVE v \in Value[0 + 1]
        <3>1. IsValue(v, 0) BY ValueHas
        <3>2. v.items \in Seq({}) BY <3>1, BelowIs DEF IsValue
        <3>3. Below(0 + 1) = Value[0] BY BelowIs
        <3>4. v.items \in Seq(Below(0 + 1)) BY <3>2, <3>3, <2>1, SeqOfMore
        <3>5. 0 + 1 \in Nat OBVIOUS
        <3> DEFINE w == Triple(v.type, v.bytes, v.items)
        <3>6. v = w /\ Fits(w) BY <3>1 DEF IsValue
        <3>7. w \in Value[0 + 1] BY <3>1, <3>4, <3>5, <3>6, ValueFrom DEF IsValue
        <3> QED BY <3>6, <3>7
    <2> QED BY <2>2
<1>2. ASSUME NEW d \in Nat, d \in T PROVE d + 1 \in T
    <2>1. Value[d] \subseteq Value[d + 1] BY <1>2
    <2>2. ASSUME NEW v \in Value[d + 1] PROVE v \in Value[(d + 1) + 1]
        <3>1. d + 1 \in Nat /\ (d + 1) + 1 \in Nat OBVIOUS
        <3>2. IsValue(v, d + 1) BY <3>1, ValueHas
        <3>3. Below(d + 1) = Value[d] /\ Below((d + 1) + 1) = Value[d + 1]
            BY <3>1, BelowIs
        <3>4. v.items \in Seq(Below((d + 1) + 1))
            BY <2>1, <3>2, <3>3, SeqOfMore DEF IsValue
        <3> DEFINE w == Triple(v.type, v.bytes, v.items)
        <3>6. v = w /\ Fits(w) BY <3>2 DEF IsValue
        <3>7. w \in Value[(d + 1) + 1] BY <3>1, <3>2, <3>4, <3>6, ValueFrom DEF IsValue
        <3> QED BY <3>6, <3>7
    <2> QED BY <2>2
<1> HIDE DEF T
<1>3. Nat \subseteq T BY <1>1, <1>2, NatSetInduction
<1>4. \A d \in Nat : Value[d] \subseteq Value[d + 1] BY <1>3 DEF T
<1>5. ASSUME NEW d \in Nat PROVE Below(d) \subseteq Value[d]
    <2>1. CASE d = 0 BY <2>1, BelowIs
    <2>2. CASE d # 0
        <3>1. d - 1 \in Nat /\ (d - 1) + 1 = d BY <2>2
        <3>2. Below(d) = Value[d - 1] BY <2>2 DEF Below
        <3>3. Value[d - 1] \subseteq Value[(d - 1) + 1] BY <1>4, <3>1
        <3> QED BY <3>1, <3>2, <3>3
    <2> QED BY <2>1, <2>2
<1> QED BY <1>4, <1>5

LEMMA ValueGrowsTo ==
    ASSUME NEW d \in Nat, NEW e \in Nat, d <= e
    PROVE  Value[d] \subseteq Value[e]
<1> DEFINE T == {n \in Nat : Value[d] \subseteq Value[d + n]}
<1>1. 0 \in T
    <2>1. d + 0 = d OBVIOUS
    <2> QED BY <2>1
<1>2. ASSUME NEW n \in Nat, n \in T PROVE n + 1 \in T
    <2>1. d + n \in Nat /\ d + (n + 1) = (d + n) + 1 OBVIOUS
    <2>2. Value[d + n] \subseteq Value[(d + n) + 1] BY <2>1, ValueGrows
    <2> QED BY <1>2, <2>1, <2>2
<1> HIDE DEF T
<1>3. Nat \subseteq T BY <1>1, <1>2, NatSetInduction
<1>4. e - d \in Nat /\ d + (e - d) = e OBVIOUS
<1>5. e - d \in T BY <1>3, <1>4
<1>6. Value[d] \subseteq Value[d + (e - d)] BY <1>5 DEF T
<1> QED BY <1>4, <1>6

(***************************************************************************)
(* The tables of the types and their tags.                                 *)
(***************************************************************************)
Widths == {"bool", "i8", "i16", "i32", "i64", "u8", "u16", "u32", "u64", "f32", "f64",
           "enum", "date", "time", "datetime"}

Sizeds == {"octets", "string"}
Empties == {"none", "dontcare"}

Types == Widths \union Sizeds \union Empties \union Groups

LEMMA TypesAre ==
    /\ DOMAIN TagOf = Types
    /\ DOMAIN Width = Widths
BY DEF TagOf, Width, Types, Widths, Sizeds, Empties, Groups

FixedTagIs(type, tag) ==
    /\ tag \in Byte /\ tag \in FixedTags /\ tag \notin EmptyTags
    /\ FixedType(tag) = ReadType(type)
    /\ FixedWidth(tag) = Width[type]
    /\ type \notin Groups /\ type \notin Sizeds /\ type \notin Empties
    /\ Width[type] \in Nat /\ Width[type] < 256
    /\ ReadType(type) \in Types /\ ReadType(type) \notin Groups
    /\ ReadType(type) \notin Empties
    /\ ReadType(type) \in Widths => Width[ReadType(type)] = Width[type]
    /\ ReadType(type) = "bool" <=> type = "bool"
    /\ ReadType(ReadType(type)) = ReadType(type)

LEMMA TagsOfWidths ==
    \A type \in Widths : FixedTagIs(type, TagOf[type])
<1>1. FixedTagIs("bool", TagOf["bool"])
    <2>1. TagOf["bool"] = 3 /\ Width["bool"] = 1 BY DEF TagOf, Width
    <2>2. ReadType("bool") = "bool" /\ ReadType("bool") = "bool" BY DEF ReadType
    <2> QED BY <2>1, <2>2 DEF FixedTagIs, Byte, FixedTags, EmptyTags, FixedType, FixedWidth, Groups, Sizeds, Empties, Types, Widths
<1>2. FixedTagIs("i8", TagOf["i8"])
    <2>1. TagOf["i8"] = 15 /\ Width["i8"] = 1 BY DEF TagOf, Width
    <2>2. ReadType("i8") = "i8" /\ ReadType("i8") = "i8" BY DEF ReadType
    <2> QED BY <2>1, <2>2 DEF FixedTagIs, Byte, FixedTags, EmptyTags, FixedType, FixedWidth, Groups, Sizeds, Empties, Types, Widths
<1>3. FixedTagIs("i16", TagOf["i16"])
    <2>1. TagOf["i16"] = 16 /\ Width["i16"] = 2 BY DEF TagOf, Width
    <2>2. ReadType("i16") = "i16" /\ ReadType("i16") = "i16" BY DEF ReadType
    <2> QED BY <2>1, <2>2 DEF FixedTagIs, Byte, FixedTags, EmptyTags, FixedType, FixedWidth, Groups, Sizeds, Empties, Types, Widths
<1>4. FixedTagIs("i32", TagOf["i32"])
    <2>1. TagOf["i32"] = 5 /\ Width["i32"] = 4 BY DEF TagOf, Width
    <2>2. ReadType("i32") = "i32" /\ ReadType("i32") = "i32" BY DEF ReadType
    <2> QED BY <2>1, <2>2 DEF FixedTagIs, Byte, FixedTags, EmptyTags, FixedType, FixedWidth, Groups, Sizeds, Empties, Types, Widths
<1>5. FixedTagIs("i64", TagOf["i64"])
    <2>1. TagOf["i64"] = 20 /\ Width["i64"] = 8 BY DEF TagOf, Width
    <2>2. ReadType("i64") = "i64" /\ ReadType("i64") = "i64" BY DEF ReadType
    <2> QED BY <2>1, <2>2 DEF FixedTagIs, Byte, FixedTags, EmptyTags, FixedType, FixedWidth, Groups, Sizeds, Empties, Types, Widths
<1>6. FixedTagIs("u8", TagOf["u8"])
    <2>1. TagOf["u8"] = 17 /\ Width["u8"] = 1 BY DEF TagOf, Width
    <2>2. ReadType("u8") = "u8" /\ ReadType("u8") = "u8" BY DEF ReadType
    <2> QED BY <2>1, <2>2 DEF FixedTagIs, Byte, FixedTags, EmptyTags, FixedType, FixedWidth, Groups, Sizeds, Empties, Types, Widths
<1>7. FixedTagIs("u16", TagOf["u16"])
    <2>1. TagOf["u16"] = 18 /\ Width["u16"] = 2 BY DEF TagOf, Width
    <2>2. ReadType("u16") = "u16" /\ ReadType("u16") = "u16" BY DEF ReadType
    <2> QED BY <2>1, <2>2 DEF FixedTagIs, Byte, FixedTags, EmptyTags, FixedType, FixedWidth, Groups, Sizeds, Empties, Types, Widths
<1>8. FixedTagIs("u32", TagOf["u32"])
    <2>1. TagOf["u32"] = 6 /\ Width["u32"] = 4 BY DEF TagOf, Width
    <2>2. ReadType("u32") = "u32" /\ ReadType("u32") = "u32" BY DEF ReadType
    <2> QED BY <2>1, <2>2 DEF FixedTagIs, Byte, FixedTags, EmptyTags, FixedType, FixedWidth, Groups, Sizeds, Empties, Types, Widths
<1>9. FixedTagIs("u64", TagOf["u64"])
    <2>1. TagOf["u64"] = 21 /\ Width["u64"] = 8 BY DEF TagOf, Width
    <2>2. ReadType("u64") = "u64" /\ ReadType("u64") = "u64" BY DEF ReadType
    <2> QED BY <2>1, <2>2 DEF FixedTagIs, Byte, FixedTags, EmptyTags, FixedType, FixedWidth, Groups, Sizeds, Empties, Types, Widths
<1>10. FixedTagIs("f32", TagOf["f32"])
    <2>1. TagOf["f32"] = 23 /\ Width["f32"] = 4 BY DEF TagOf, Width
    <2>2. ReadType("f32") = "f32" /\ ReadType("f32") = "f32" BY DEF ReadType
    <2> QED BY <2>1, <2>2 DEF FixedTagIs, Byte, FixedTags, EmptyTags, FixedType, FixedWidth, Groups, Sizeds, Empties, Types, Widths
<1>11. FixedTagIs("f64", TagOf["f64"])
    <2>1. TagOf["f64"] = 24 /\ Width["f64"] = 8 BY DEF TagOf, Width
    <2>2. ReadType("f64") = "f64" /\ ReadType("f64") = "f64" BY DEF ReadType
    <2> QED BY <2>1, <2>2 DEF FixedTagIs, Byte, FixedTags, EmptyTags, FixedType, FixedWidth, Groups, Sizeds, Empties, Types, Widths
<1>12. FixedTagIs("enum", TagOf["enum"])
    <2>1. TagOf["enum"] = 22 /\ Width["enum"] = 1 BY DEF TagOf, Width
    <2>2. ReadType("enum") = "u8" /\ ReadType("u8") = "u8" /\ Width["u8"] = 1
        BY DEF ReadType, Width
    <2> QED BY <2>1, <2>2 DEF FixedTagIs, Byte, FixedTags, EmptyTags, FixedType, FixedWidth, Groups, Sizeds, Empties, Types, Widths
<1>13. FixedTagIs("date", TagOf["date"])
    <2>1. TagOf["date"] = 26 /\ Width["date"] = 5 BY DEF TagOf, Width
    <2>2. ReadType("date") = "octets" /\ ReadType("octets") = "octets" BY DEF ReadType
    <2> QED BY <2>1, <2>2 DEF FixedTagIs, Byte, FixedTags, EmptyTags, FixedType, FixedWidth, Groups, Sizeds, Empties, Types, Widths
<1>14. FixedTagIs("time", TagOf["time"])
    <2>1. TagOf["time"] = 27 /\ Width["time"] = 4 BY DEF TagOf, Width
    <2>2. ReadType("time") = "octets" /\ ReadType("octets") = "octets" BY DEF ReadType
    <2> QED BY <2>1, <2>2 DEF FixedTagIs, Byte, FixedTags, EmptyTags, FixedType, FixedWidth, Groups, Sizeds, Empties, Types, Widths
<1>15. FixedTagIs("datetime", TagOf["datetime"])
    <2>1. TagOf["datetime"] = 25 /\ Width["datetime"] = 12 BY DEF TagOf, Width
    <2>2. ReadType("datetime") = "octets" /\ ReadType("octets") = "octets" BY DEF ReadType
    <2> QED BY <2>1, <2>2 DEF FixedTagIs, Byte, FixedTags, EmptyTags, FixedType, FixedWidth, Groups, Sizeds, Empties, Types, Widths
<1> QED BY <1>1, <1>2, <1>3, <1>4, <1>5, <1>6, <1>7, <1>8, <1>9, <1>10, <1>11, <1>12, <1>13, <1>14, <1>15 DEF Widths

LEMMA OtherTags ==
    /\ \A type \in Sizeds :
          /\ TagOf[type] \in Byte /\ TagOf[type] \in SizedTags
          /\ TagOf[type] \notin FixedTags /\ TagOf[type] \notin EmptyTags
          /\ SizedType(TagOf[type]) = type /\ ReadType(type) = type
          /\ type \notin Groups /\ type \notin Widths /\ type \notin Empties
          /\ type # "bool" /\ type \in Types
    /\ \A type \in Empties :
          /\ TagOf[type] \in Byte /\ TagOf[type] \in EmptyTags /\ ReadType(type) = "none"
          /\ type \notin Groups /\ type \notin Widths /\ type \notin Sizeds
          /\ type # "bool" /\ type \in Types
    /\ \A type \in Groups :
          /\ TagOf[type] \in Byte /\ TagOf[type] \in GroupTags
          /\ TagOf[type] \notin FixedTags /\ TagOf[type] \notin EmptyTags
          /\ TagOf[type] \notin SizedTags
          /\ GroupType(TagOf[type]) = type /\ ReadType(type) = type
          /\ type \notin Sizeds /\ type \notin Widths /\ type \notin Empties
          /\ type # "bool" /\ type \in Types
<1>1. /\ TagOf["octets"] = 9 /\ TagOf["string"] = 10 /\ TagOf["none"] = 0
      /\ TagOf["dontcare"] = 255 /\ TagOf["array"] = 1 /\ TagOf["structure"] = 2
    BY DEF TagOf
<1>2. /\ ReadType("octets") = "octets" /\ ReadType("string") = "string"
      /\ ReadType("none") = "none" /\ ReadType("dontcare") = "none"
      /\ ReadType("array") = "array" /\ ReadType("structure") = "structure"
    BY DEF ReadType
<1>3. /\ SizedType(9) = "octets" /\ SizedType(10) = "string"
      /\ GroupType(1) = "array" /\ GroupType(2) = "structure"
    BY DEF SizedType, GroupType
<1>4. /\ 9 \in Byte /\ 10 \in Byte /\ 0 \in Byte /\ 255 \in Byte /\ 1 \in Byte /\ 2 \in Byte
    BY SMT DEF Byte
<1>5. \A type \in Sizeds :
          /\ TagOf[type] \in Byte /\ TagOf[type] \in SizedTags
          /\ TagOf[type] \notin FixedTags /\ TagOf[type] \notin EmptyTags
          /\ SizedType(TagOf[type]) = type /\ ReadType(type) = type
          /\ type \notin Groups /\ type \notin Widths /\ type \notin Empties
          /\ type # "bool" /\ type \in Types
    BY <1>1, <1>2, <1>3, <1>4
       DEF Sizeds, SizedTags, FixedTags, EmptyTags, Groups, Widths, Empties, Types
<1>6. \A type \in Empties :
          /\ TagOf[type] \in Byte /\ TagOf[type] \in EmptyTags /\ ReadType(type) = "none"
          /\ type \notin Groups /\ type \notin Widths /\ type \notin Sizeds
          /\ type # "bool" /\ type \in Types
    BY <1>1, <1>2, <1>4 DEF Sizeds, EmptyTags, Groups, Widths, Empties, Types
<1>7. \A type \in Groups :
          /\ TagOf[type] \in Byte /\ TagOf[type] \in GroupTags
          /\ TagOf[type] \notin FixedTags /\ TagOf[type] \notin EmptyTags
          /\ TagOf[type] \notin SizedTags
          /\ GroupType(TagOf[type]) = type /\ ReadType(type) = type
          /\ type \notin Sizeds /\ type \notin Widths /\ type \notin Empties
          /\ type # "bool" /\ type \in Types
    BY <1>1, <1>2, <1>3, <1>4
       DEF Sizeds, SizedTags, FixedTags, EmptyTags, Groups, GroupTags, Widths, Empties, Types
<1> QED BY <1>5, <1>6, <1>7

(***************************************************************************)
(* The type that a tag is read as.                                         *)
(***************************************************************************)
ReadAsFixed(tag, type, width) ==
    /\ type \in Types /\ type \notin Groups /\ type \notin Empties
    /\ type \in Widths => Width[type] = width
    /\ width \in Nat /\ width < 256
    /\ ReadType(type) = type

LEMMA FixedTagsRead ==
    \A tag \in FixedTags : ReadAsFixed(tag, FixedType(tag), FixedWidth(tag))
<1>1. ReadAsFixed(3, FixedType(3), FixedWidth(3))
    <2>1. FixedType(3) = "bool" /\ FixedWidth(3) = 1 BY DEF FixedType, FixedWidth
    <2>2. ReadType("bool") = "bool" /\ Width["bool"] = 1 BY DEF ReadType, Width
    <2> QED BY <2>1, <2>2 DEF ReadAsFixed, Groups, Sizeds, Empties, Types, Widths
<1>2. ReadAsFixed(15, FixedType(15), FixedWidth(15))
    <2>1. FixedType(15) = "i8" /\ FixedWidth(15) = 1 BY DEF FixedType, FixedWidth
    <2>2. ReadType("i8") = "i8" /\ Width["i8"] = 1 BY DEF ReadType, Width
    <2> QED BY <2>1, <2>2 DEF ReadAsFixed, Groups, Sizeds, Empties, Types, Widths
<1>3. ReadAsFixed(16, FixedType(16), FixedWidth(16))
    <2>1. FixedType(16) = "i16" /\ FixedWidth(16) = 2 BY DEF FixedType, FixedWidth
    <2>2. ReadType("i16") = "i16" /\ Width["i16"] = 2 BY DEF ReadType, Width
    <2> QED BY <2>1, <2>2 DEF ReadAsFixed, Groups, Sizeds, Empties, Types, Widths
<1>4. ReadAsFixed(5, FixedType(5), FixedWidth(5))
    <2>1. FixedType(5) = "i32" /\ FixedWidth(5) = 4 BY DEF FixedType, FixedWidth
    <2>2. ReadType("i32") = "i32" /\ Width["i32"] = 4 BY DEF ReadType, Width
    <2> QED BY <2>1, <2>2 DEF ReadAsFixed, Groups, Sizeds, Empties, Types, Widths
<1>5. ReadAsFixed(20, FixedType(20), FixedWidth(20))
    <2>1. FixedType(20) = "i64" /\ FixedWidth(20) = 8 BY DEF FixedType, FixedWidth
    <2>2. ReadType("i64") = "i64" /\ Width["i64"] = 8 BY DEF ReadType, Width
    <2> QED BY <2>1, <2>2 DEF ReadAsFixed, Groups, Sizeds, Empties, Types, Widths
<1>6. ReadAsFixed(17, FixedType(17), FixedWidth(17))
    <2>1. FixedType(17) = "u8" /\ FixedWidth(17) = 1 BY DEF FixedType, FixedWidth
    <2>2. ReadType("u8") = "u8" /\ Width["u8"] = 1 BY DEF ReadType, Width
    <2> QED BY <2>1, <2>2 DEF ReadAsFixed, Groups, Sizeds, Empties, Types, Widths
<1>7. ReadAsFixed(22, FixedType(22), FixedWidth(22))
    <2>1. FixedType(22) = "u8" /\ FixedWidth(22) = 1 BY DEF FixedType, FixedWidth
    <2>2. ReadType("u8") = "u8" /\ Width["u8"] = 1 BY DEF ReadType, Width
    <2> QED BY <2>1, <2>2 DEF ReadAsFixed, Groups, Sizeds, Empties, Types, Widths
<1>8. ReadAsFixed(18, FixedType(18), FixedWidth(18))
    <2>1. FixedType(18) = "u16" /\ FixedWidth(18) = 2 BY DEF FixedType, FixedWidth
    <2>2. ReadType("u16") = "u16" /\ Width["u16"] = 2 BY DEF ReadType, Width
    <2> QED BY <2>1, <2>2 DEF ReadAsFixed, Groups, Sizeds, Empties, Types, Widths
<1>9. ReadAsFixed(6, FixedType(6), FixedWidth(6))
    <2>1. FixedType(6) = "u32" /\ FixedWidth(6) = 4 BY DEF FixedType, FixedWidth
    <2>2. ReadType("u32") = "u32" /\ Width["u32"] = 4 BY DEF ReadType, Width
    <2> QED BY <2>1, <2>2 DEF ReadAsFixed, Groups, Sizeds, Empties, Types, Widths
<1>10. ReadAsFixed(21, FixedType(21), FixedWidth(21))
    <2>1. FixedType(21) = "u64" /\ FixedWidth(21) = 8 BY DEF FixedType, FixedWidth
    <2>2. ReadType("u64") = "u64" /\ Width["u64"] = 8 BY DEF ReadType, Width
    <2> QED BY <2>1, <2>2 DEF ReadAsFixed, Groups, Sizeds, Empties, Types, Widths
<1>11. ReadAsFixed(23, FixedType(23), FixedWidth(23))
    <2>1. FixedType(23) = "f32" /\ FixedWidth(23) = 4 BY DEF FixedType, FixedWidth
    <2>2. ReadType("f32") = "f32" /\ Width["f32"] = 4 BY DEF ReadType, Width
    <2> QED BY <2>1, <2>2 DEF ReadAsFixed, Groups, Sizeds, Empties, Types, Widths
<1>12. ReadAsFixed(24, FixedType(24), FixedWidth(24))
    <2>1. FixedType(24) = "f64" /\ FixedWidth(24) = 8 BY DEF FixedType, FixedWidth
    <2>2. ReadType("f64") = "f64" /\ Width["f64"] = 8 BY DEF ReadType, Width
    <2> QED BY <2>1, <2>2 DEF ReadAsFixed, Groups, Sizeds, Empties, Types, Widths
<1>13. ReadAsFixed(25, FixedType(25), FixedWidth(25))
    <2>1. FixedType(25) = "octets" /\ FixedWidth(25) = 12 BY DEF FixedType, FixedWidth
    <2>2. ReadType("octets") = "octets" BY DEF ReadType
    <2> QED BY <2>1, <2>2 DEF ReadAsFixed, Groups, Sizeds, Empties, Types, Widths
<1>14. ReadAsFixed(26, FixedType(26), FixedWidth(26))
    <2>1. FixedType(26) = "octets" /\ FixedWidth(26) = 5 BY DEF FixedType, FixedWidth
    <2>2. ReadType("octets") = "octets" BY DEF ReadType
    <2> QED BY <2>1, <2>2 DEF ReadAsFixed, Groups, Sizeds, Empties, Types, Widths
<1>15. ReadAsFixed(27, FixedType(27), FixedWidth(27))
    <2>1. FixedType(27) = "octets" /\ FixedWidth(27) = 4 BY DEF FixedType, FixedWidth
    <2>2. ReadType("octets") = "octets" BY DEF ReadType
    <2> QED BY <2>1, <2>2 DEF ReadAsFixed, Groups, Sizeds, Empties, Types, Widths
<1> QED BY <1>1, <1>2, <1>3, <1>4, <1>5, <1>6, <1>7, <1>8, <1>9, <1>10, <1>11, <1>12, <1>13, <1>14, <1>15 DEF FixedTags

LEMMA OtherTagsRead ==
    /\ \A tag : SizedType(tag) \in Sizeds
    /\ \A tag : GroupType(tag) \in Groups
    /\ "none" \in Empties
BY DEF SizedType, GroupType, Sizeds, Groups, Empties

(***************************************************************************)
(* What Fits asks of the values of each kind.                              *)
(***************************************************************************)
FitsIs(v) ==
    /\ v.type \in Widths => Len(v.bytes) = Width[v.type]
    /\ v.type = "bool" => v.bytes \in {<<0>>, <<1>>}
    /\ v.type \in Groups \/ v.type \in Empties => v.bytes = <<>>
    /\ v.type \notin Groups => v.items = <<>>
    /\ Len(v.bytes) < Huge /\ Len(v.items) < Huge

LEMMA FitsMeans ==
    ASSUME NEW v
    PROVE  Fits(v) <=> FitsIs(v)
<1>1. v.type \in Groups \union {"none", "dontcare"} <=> v.type \in Groups \/ v.type \in Empties
    BY DEF Empties
<1> DEFINE G == Groups \union {"none", "dontcare"}
<1>2. v.type \in G <=> v.type \in Groups \/ v.type \in Empties BY <1>1
<1>3. Fits(v) <=> /\ v.type \in DOMAIN Width => Len(v.bytes) = Width[v.type]
                  /\ v.type = "bool" => v.bytes \in {<<0>>, <<1>>}
                  /\ v.type \in G => v.bytes = <<>>
                  /\ v.type \notin Groups => v.items = <<>>
                  /\ Len(v.bytes) < Huge /\ Len(v.items) < Huge
    BY DEF Fits
<1> HIDE DEF G
<1>4. DOMAIN Width = Widths BY TypesAre
<1> QED BY <1>2, <1>3, <1>4 DEF FitsIs

(***************************************************************************)
(* The items of a value, each mapped by a function of the level below.     *)
(***************************************************************************)
Mapped(s, g) == [i \in DOMAIN s |-> g[s[i]]]

LEMMA MappedIs ==
    ASSUME NEW A, NEW B, NEW s \in Seq(A), NEW g, \A x \in A : g[x] \in B
    PROVE  /\ Mapped(s, g) \in Seq(B) /\ Len(Mapped(s, g)) = Len(s)
           /\ \A i \in 1 .. Len(s) : Mapped(s, g)[i] = g[s[i]]
<1> DEFINE n == Len(s)
           m == Mapped(s, g)
<1>1. n \in Nat /\ DOMAIN s = 1 .. n OBVIOUS
<1>2. \A i \in 1 .. n : s[i] \in A BY ElementType
<1>3. m = [i \in 1 .. n |-> g[s[i]]] BY <1>1 DEF Mapped
<1>4. \A i \in 1 .. n : m[i] = g[s[i]] /\ m[i] \in B BY <1>2, <1>3
<1>5. m = [i \in 1 .. n |-> m[i]] BY <1>3
<1> HIDE DEF m, n
<1>6. m \in Seq(B) /\ Len(m) = n BY <1>1, <1>4, <1>5
<1> QED BY <1>4, <1>6 DEF m, n

LEMMA MappedSame ==
    ASSUME NEW A, NEW s \in Seq(A), NEW g, NEW h, \A x \in A : g[x] = h[x]
    PROVE  Mapped(s, g) = Mapped(s, h)
<1>1. \A i \in DOMAIN s : s[i] \in A
    <2>1. DOMAIN s = 1 .. Len(s) OBVIOUS
    <2> QED BY <2>1, ElementType
<1> QED BY <1>1 DEF Mapped

(***************************************************************************)
(* The encoding of a value, from those of its items.                       *)
(***************************************************************************)
CodeOf(v, codes) ==
    IF v.type \in Groups THEN Header(v.type, Len(v.items)) \o FlattenSeq(codes)
    ELSE IF v.type \in Sizeds THEN Header(v.type, Len(v.bytes)) \o v.bytes
    ELSE <<TagOf[v.type]>> \o v.bytes

LEMMA TagIsByte ==
    \A type \in Types : TagOf[type] \in Byte
<1>1. \A type \in Widths : TagOf[type] \in Byte
    <2> TAKE type \in Widths
    <2>1. FixedTagIs(type, TagOf[type]) BY TagsOfWidths
    <2> QED BY <2>1 DEF FixedTagIs
<1> QED BY <1>1, OtherTags DEF Types

LEMMA HeaderIs ==
    ASSUME NEW type \in Types, NEW n \in Nat, n < Huge
    PROVE  /\ Header(type, n) \in Seq(Byte)
           /\ Len(Header(type, n)) = 1 + Len(WriteVariableLength(n))
           /\ Len(Header(type, n)) >= 2
<1> DEFINE t == TagOf[type]
           l == WriteVariableLength(n)
           one == <<t>>
<1>1. t \in Byte BY TagIsByte
<1>2. l \in Seq(Byte) /\ Len(l) >= 1 BY LengthIsWritten
<1>3. Header(type, n) = one \o l BY DEF Header
<1> HIDE DEF t, l
<1>4. one \in Seq(Byte) /\ Len(one) = 1 BY <1>1
<1> HIDE DEF one
<1>5. IsJoin(one \o l, Byte, one, l) BY <1>2, <1>4, JoinIs
<1>6. one \o l \in Seq(Byte) /\ Len(one \o l) = 1 + Len(l) BY <1>4, <1>5 DEF IsJoin
<1>7. Len(l) \in Nat BY <1>2, LenIs
<1>8. Len(one \o l) >= 2 BY <1>2, <1>6, <1>7
<1> QED BY <1>3, <1>6, <1>8 DEF l

CodeIs(c, v, codes) ==
    /\ c \in Seq(Byte) /\ Len(c) >= 1
    /\ v.type \in Groups => Len(c) >= 2 + Len(FlattenSeq(codes))

LEMMA CodeType ==
    ASSUME NEW d \in Nat, NEW v, IsValue(v, d), NEW codes \in Seq(Seq(Byte))
    PROVE  CodeIs(CodeOf(v, codes), v, codes)
<1>1. v.type \in Types /\ v.bytes \in Seq(Byte) /\ FitsIs(v)
    BY TypesAre, FitsMeans DEF IsValue
<1>2. Len(v.bytes) \in Nat BY <1>1, LenIs
<1>3. Len(v.items) \in Nat
    <2>1. v.items \in Seq(Below(d)) BY DEF IsValue
    <2> QED BY <2>1, LenIs
<1>4. Len(v.bytes) < Huge /\ Len(v.items) < Huge BY <1>1 DEF FitsIs
<1>5. CASE v.type \in Groups
    <2> DEFINE h == Header(v.type, Len(v.items))
               f == FlattenSeq(codes)
    <2>1. h \in Seq(Byte) /\ Len(h) >= 2 BY <1>1, <1>3, <1>4, HeaderIs
    <2>2. f \in Seq(Byte) BY FlatType
    <2>3. CodeOf(v, codes) = h \o f BY <1>5 DEF CodeOf
    <2> HIDE DEF h, f
    <2>4. IsJoin(h \o f, Byte, h, f) BY <2>1, <2>2, JoinIs
    <2>5. h \o f \in Seq(Byte) /\ Len(h \o f) = Len(h) + Len(f) BY <2>4 DEF IsJoin
    <2>6. Len(h) \in Nat /\ Len(f) \in Nat BY <2>1, <2>2, LenIs
    <2>7. Len(h \o f) >= 2 + Len(f) /\ Len(h \o f) >= 1 BY <2>1, <2>5, <2>6
    <2> QED BY <2>3, <2>5, <2>7 DEF CodeIs, f
<1>6. CASE v.type \in Sizeds
    <2> DEFINE h == Header(v.type, Len(v.bytes))
               f == v.bytes
    <2>1. h \in Seq(Byte) /\ Len(h) >= 2 BY <1>1, <1>2, <1>4, HeaderIs
    <2>2. f \in Seq(Byte) /\ v.type \notin Groups BY <1>1, <1>6, OtherTags
    <2>3. CodeOf(v, codes) = h \o f BY <1>6, <2>2 DEF CodeOf
    <2> HIDE DEF h, f
    <2>4. IsJoin(h \o f, Byte, h, f) BY <2>1, <2>2, JoinIs
    <2>5. h \o f \in Seq(Byte) /\ Len(h \o f) = Len(h) + Len(f) BY <2>4 DEF IsJoin
    <2>6. Len(h) \in Nat /\ Len(f) \in Nat BY <2>1, <2>2, LenIs
    <2>7. Len(h \o f) >= 1 BY <2>1, <2>5, <2>6
    <2> QED BY <2>2, <2>3, <2>5, <2>7 DEF CodeIs
<1>7. CASE v.type \notin Groups /\ v.type \notin Sizeds
    <2> DEFINE t == TagOf[v.type]
               h == <<t>>
               f == v.bytes
    <2>1. t \in Byte BY <1>1, TagIsByte
    <2>2. f \in Seq(Byte) BY <1>1
    <2>3. CodeOf(v, codes) = h \o f BY <1>7 DEF CodeOf
    <2> HIDE DEF t
    <2>8. h \in Seq(Byte) /\ Len(h) = 1 BY <2>1
    <2> HIDE DEF h, f
    <2>4. IsJoin(h \o f, Byte, h, f) BY <2>2, <2>8, JoinIs
    <2>5. h \o f \in Seq(Byte) /\ Len(h \o f) = Len(h) + Len(f) BY <2>4 DEF IsJoin
    <2>6. Len(f) \in Nat BY <2>2, LenIs
    <2>7. Len(h \o f) >= 1 BY <2>5, <2>6, <2>8
    <2> QED BY <1>7, <2>3, <2>5, <2>7 DEF CodeIs
<1> QED BY <1>5, <1>6, <1>7

(***************************************************************************)
(* The encodings of the values of each depth.                              *)
(***************************************************************************)
EncodedBy(v, g) == CodeOf(v, Mapped(v.items, g))

EncodingLayer(d, g) == [v \in Value[d] |-> EncodedBy(v, g)]

EncodingEq(f) == f = [d \in Nat |-> EncodingLayer(d, f[d - 1])]

EncodingGood(d, g) == \A x \in Below(d) : g[x] \in Seq(Byte)

LEMMA EncodedByType ==
    ASSUME NEW d \in Nat, NEW v \in Value[d], NEW g, EncodingGood(d, g)
    PROVE  EncodedBy(v, g) \in Seq(Byte)
<1> DEFINE m == Mapped(v.items, g)
<1>1. IsValue(v, d) BY ValueHas
<1>2. \A x \in Below(d) : g[x] \in Seq(Byte) BY DEF EncodingGood
<1>3. m \in Seq(Seq(Byte)) BY <1>1, <1>2, MappedIs DEF IsValue
<1> HIDE DEF m
<1>4. CodeIs(CodeOf(v, m), v, m) BY <1>1, <1>3, CodeType
<1> QED BY <1>4 DEF CodeIs, EncodedBy, m

LEMMA EncodedBySame ==
    ASSUME NEW d \in Nat, NEW v \in Value[d], NEW g, NEW h,
           \A x \in Below(d) : g[x] = h[x]
    PROVE  EncodedBy(v, g) = EncodedBy(v, h)
<1>1. IsValue(v, d) BY ValueHas
<1>2. Mapped(v.items, g) = Mapped(v.items, h) BY <1>1, MappedSame DEF IsValue
<1> QED BY <1>2 DEF EncodedBy

EncodingAt(d) ==
    /\ EncodingGood(d, Encoding[d - 1])
    /\ \A v \in Value[d] : Encoding[d][v] = EncodedBy(v, Encoding[d - 1])
    /\ \A v \in Value[d] : Encoding[d][v] \in Seq(Byte)

LEMMA EncodingIs ==
    ASSUME NEW d0 \in Nat
    PROVE  EncodingAt(d0)
<1> DEFINE R(d) == Seq(Byte)
           D == [n \in Nat |-> [Value[n] -> R(n)]]
           base == EncodingLayer(0, <<>>)
           step == [n \in Nat |-> [g \in D[n] |-> EncodingLayer(n + 1, g)]]
<1>1. \A n \in Nat : D[n] = [Value[n] -> R(n)] OBVIOUS
<1>2. ASSUME NEW n \in Nat, NEW g, EncodingGood(n, g) PROVE EncodingLayer(n, g) \in D[n]
    <2>1. \A v \in Value[n] : EncodedBy(v, g) \in R(n) BY <1>2, EncodedByType
    <2> HIDE DEF R
    <2>2. EncodingLayer(n, g) \in [Value[n] -> R(n)] BY <2>1 DEF EncodingLayer
    <2> QED BY <1>1, <2>2
<1>3. base \in D[0]
    <2>1. EncodingGood(0, <<>>) BY BelowIs DEF EncodingGood
    <2> HIDE DEF D
    <2> QED BY <1>2, <2>1
<1>4. ASSUME NEW n \in Nat, NEW g \in D[n] PROVE EncodingGood(n + 1, g)
    <2>1. g \in [Value[n] -> R(n)] BY <1>1
    <2>2. Below(n + 1) = Value[n] BY BelowIs
    <2> HIDE DEF R, D
    <2>3. ASSUME NEW x \in Below(n + 1) PROVE g[x] \in R(n)
        BY <2>1, <2>2
    <2> QED BY <2>2, <2>3 DEF EncodingGood, R
<1>5. ASSUME NEW n \in Nat, NEW g \in D[n]
      PROVE  step[n][g] = EncodingLayer(n + 1, g) /\ step[n][g] \in D[n + 1]
    <2>1. EncodingGood(n + 1, g) /\ n + 1 \in Nat BY <1>4
    <2> HIDE DEF D
    <2>2. step[n][g] = EncodingLayer(n + 1, g) OBVIOUS
    <2>3. EncodingLayer(n + 1, g) \in D[n + 1] BY <1>2, <2>1
    <2> QED BY <2>2, <2>3
<1> HIDE DEF step, base, D, R
<1>6. PICK f : RecursAlong(f, D, base, step) BY <1>3, <1>5, RecursionAlong
<1>7. /\ f = [n \in Nat |-> f[n]] /\ f[0] = base
      /\ \A n \in Nat : f[n] \in D[n] /\ f[n + 1] = step[n][f[n]]
    BY <1>6 DEF RecursAlong
<1>8. ASSUME NEW n \in Nat PROVE f[n] = EncodingLayer(n, f[n - 1])
    <2>1. CASE n = 0
        <3> DEFINE g == <<>>
                   h == f[0 - 1]
        <3>1. 0 \in Nat /\ \A x \in Below(0) : g[x] = h[x] BY BelowIs
        <3> HIDE DEF g, h
        <3>2. \A v \in Value[0] : EncodedBy(v, g) = EncodedBy(v, h)
            BY <3>1, EncodedBySame
        <3>3. EncodingLayer(0, g) = EncodingLayer(0, h) BY <3>2 DEF EncodingLayer
        <3> QED BY <1>7, <2>1, <3>3 DEF base, g, h
    <2>2. CASE n # 0
        <3>1. n - 1 \in Nat /\ (n - 1) + 1 = n BY <2>2
        <3>2. f[n - 1] \in D[n - 1] /\ f[(n - 1) + 1] = step[n - 1][f[n - 1]]
            BY <1>7, <3>1
        <3>3. step[n - 1][f[n - 1]] = EncodingLayer((n - 1) + 1, f[n - 1])
            BY <1>5, <3>1, <3>2
        <3> QED BY <3>1, <3>2, <3>3
    <2> QED BY <2>1, <2>2
<1>9. EncodingEq(f) BY <1>7, <1>8 DEF EncodingEq
<1>10. Encoding = CHOOSE f1 : EncodingEq(f1)
    BY DEF Encoding, EncodingEq, EncodingLayer, EncodedBy, CodeOf, Mapped, Sizeds
<1>11. EncodingEq(Encoding) BY <1>9, <1>10
<1>12. \A n \in Nat : Encoding[n] = EncodingLayer(n, Encoding[n - 1]) BY <1>11 DEF EncodingEq
<1> DEFINE T == {n \in Nat : Encoding[n] \in D[n]}
<1>13. 0 \in T
    <2>1. EncodingGood(0, Encoding[0 - 1]) BY BelowIs DEF EncodingGood
    <2>2. Encoding[0] = EncodingLayer(0, Encoding[0 - 1]) BY <1>12
    <2> QED BY <1>2, <2>1, <2>2
<1>14. ASSUME NEW n \in Nat, n \in T PROVE n + 1 \in T
    <2>1. n + 1 \in Nat /\ (n + 1) - 1 = n /\ Encoding[n] \in D[n] BY <1>14
    <2>2. EncodingGood(n + 1, Encoding[n]) BY <1>4, <2>1
    <2>3. Encoding[n + 1] = EncodingLayer(n + 1, Encoding[n]) BY <1>12, <2>1
    <2>4. Encoding[n + 1] \in D[n + 1] BY <1>2, <2>1, <2>2, <2>3
    <2> QED BY <2>1, <2>4
<1> HIDE DEF T
<1>15. Nat \subseteq T BY <1>13, <1>14, NatSetInduction
<1>16. \A n \in Nat : Encoding[n] \in D[n] BY <1>15 DEF T
<1>17. EncodingGood(d0, Encoding[d0 - 1])
    <2>1. CASE d0 = 0 BY <2>1, BelowIs DEF EncodingGood
    <2>2. CASE d0 # 0
        <3>1. d0 - 1 \in Nat /\ (d0 - 1) + 1 = d0 BY <2>2
        <3>2. Encoding[d0 - 1] \in D[d0 - 1] BY <1>16, <3>1
        <3>3. EncodingGood((d0 - 1) + 1, Encoding[d0 - 1]) BY <1>4, <3>1, <3>2
        <3> QED BY <3>1, <3>3
    <2> QED BY <2>1, <2>2
<1>18. Encoding[d0] \in [Value[d0] -> R(d0)] BY <1>1, <1>16 DEF D
<1>19. Encoding[d0] = EncodingLayer(d0, Encoding[d0 - 1]) BY <1>12
<1>20. \A v \in Value[d0] : Encoding[d0][v] = EncodedBy(v, Encoding[d0 - 1])
    BY <1>19 DEF EncodingLayer
<1>21. \A v \in Value[d0] : Encoding[d0][v] \in R(d0) BY <1>18
<1> QED BY <1>17, <1>20, <1>21 DEF EncodingAt, R

(***************************************************************************)
(* What is read of the values of each depth.                               *)
(***************************************************************************)
DecodedBy(v, g) == Triple(ReadType(v.type), v.bytes, Mapped(v.items, g))

AsDecodedLayer(d, g) == [v \in Value[d] |-> DecodedBy(v, g)]

AsDecodedEq(f) == f = [d \in Nat |-> AsDecodedLayer(d, f[d - 1])]

AsDecodedGood(d, g) == \A x \in Below(d) : g[x] \in Below(d)

LEMMA DecodedByType ==
    ASSUME NEW d \in Nat, NEW v \in Value[d], NEW g, AsDecodedGood(d, g)
    PROVE  DecodedBy(v, g) \in Value[d]
<1> DEFINE m == Mapped(v.items, g)
           w == DecodedBy(v, g)
           t == ReadType(v.type)
<1>1. IsValue(v, d) BY ValueHas
<1>2. \A x \in Below(d) : g[x] \in Below(d) BY DEF AsDecodedGood
<1>3. m \in Seq(Below(d)) /\ Len(m) = Len(v.items) BY <1>1, <1>2, MappedIs DEF IsValue
<1>4. w = Triple(t, v.bytes, m) BY DEF DecodedBy
<1>5. v.type \in Types /\ v.bytes \in Seq(Byte) /\ FitsIs(v)
    BY <1>1, TypesAre, FitsMeans DEF IsValue
<1> HIDE DEF m, w
<1>6. w.type = t /\ w.bytes = v.bytes /\ w.items = m BY <1>4, TripleIs
<1>7. v.items = <<>> => m = <<>>
    <2>1. ASSUME v.items = <<>> PROVE m = <<>>
        <3>1. Len(m) = 0 BY <1>3, <2>1
        <3> QED BY <1>3, <3>1
    <2> QED BY <2>1
<1>8. /\ v.type \in Widths => Len(v.bytes) = Width[v.type]
      /\ v.type = "bool" => v.bytes \in {<<0>>, <<1>>}
      /\ v.type \in Groups \/ v.type \in Empties => v.bytes = <<>>
      /\ v.type \notin Groups => v.items = <<>>
      /\ Len(v.bytes) < Huge /\ Len(v.items) < Huge
    BY <1>5 DEF FitsIs
<1>9. t \in Types /\ FitsIs(w)
    <2>1. CASE v.type \in Widths
        <3>1. FixedTagIs(v.type, TagOf[v.type]) BY <2>1, TagsOfWidths
        <3>2. /\ v.type \notin Groups /\ t \in Types /\ t \notin Groups /\ t \notin Empties
              /\ t \in Widths => Width[t] = Width[v.type]
              /\ t = "bool" <=> v.type = "bool"
            BY <3>1 DEF FixedTagIs
        <3> HIDE DEF t
        <3>3. FitsIs(w) BY <1>3, <1>6, <1>7, <1>8, <2>1, <3>2 DEF FitsIs
        <3> QED BY <3>2, <3>3
    <2>2. CASE v.type \in Empties
        <3>1. t = "none" /\ "none" \in Empties BY <2>2, OtherTags, OtherTagsRead
        <3>2. /\ t \in Empties /\ v.type \notin Groups /\ t \notin Groups /\ t \notin Widths
              /\ t # "bool" /\ t \in Types
            BY <2>2, <3>1, OtherTags
        <3> HIDE DEF t
        <3>3. FitsIs(w) BY <1>3, <1>6, <1>7, <1>8, <2>2, <3>2 DEF FitsIs
        <3> QED BY <3>2, <3>3
    <2>3. CASE v.type \in Sizeds \/ v.type \in Groups
        <3>1. t = v.type BY <2>3, OtherTags
        <3> HIDE DEF t
        <3>2. FitsIs(w) BY <1>3, <1>6, <1>7, <1>8, <3>1 DEF FitsIs
        <3> QED BY <1>5, <3>1, <3>2
    <2> QED BY <1>5, <2>1, <2>2, <2>3 DEF Types
<1>10. Fits(w) /\ t \in DOMAIN TagOf BY <1>9, FitsMeans, TypesAre
<1> HIDE DEF t
<1>11. w \in Value[d] BY <1>3, <1>4, <1>5, <1>10, ValueFrom
<1> QED BY <1>11 DEF w

LEMMA DecodedBySame ==
    ASSUME NEW d \in Nat, NEW v \in Value[d], NEW g, NEW h,
           \A x \in Below(d) : g[x] = h[x]
    PROVE  DecodedBy(v, g) = DecodedBy(v, h)
<1>1. IsValue(v, d) BY ValueHas
<1>2. Mapped(v.items, g) = Mapped(v.items, h) BY <1>1, MappedSame DEF IsValue
<1> QED BY <1>2 DEF DecodedBy

AsDecodedAt(d) ==
    /\ AsDecodedGood(d, AsDecoded[d - 1])
    /\ \A v \in Value[d] : AsDecoded[d][v] = DecodedBy(v, AsDecoded[d - 1])
    /\ \A v \in Value[d] : AsDecoded[d][v] \in Value[d]

LEMMA AsDecodedIs ==
    ASSUME NEW d0 \in Nat
    PROVE  AsDecodedAt(d0)
<1> DEFINE R(d) == Value[d]
           D == [n \in Nat |-> [Value[n] -> R(n)]]
           base == AsDecodedLayer(0, <<>>)
           step == [n \in Nat |-> [g \in D[n] |-> AsDecodedLayer(n + 1, g)]]
<1>1. \A n \in Nat : D[n] = [Value[n] -> R(n)] OBVIOUS
<1>2. ASSUME NEW n \in Nat, NEW g, AsDecodedGood(n, g) PROVE AsDecodedLayer(n, g) \in D[n]
    <2>1. \A v \in Value[n] : DecodedBy(v, g) \in R(n) BY <1>2, DecodedByType
    <2> HIDE DEF R
    <2>2. AsDecodedLayer(n, g) \in [Value[n] -> R(n)] BY <2>1 DEF AsDecodedLayer
    <2> QED BY <1>1, <2>2
<1>3. base \in D[0]
    <2>1. AsDecodedGood(0, <<>>) BY BelowIs DEF AsDecodedGood
    <2> HIDE DEF D
    <2> QED BY <1>2, <2>1
<1>4. ASSUME NEW n \in Nat, NEW g \in D[n] PROVE AsDecodedGood(n + 1, g)
    <2>1. g \in [Value[n] -> R(n)] BY <1>1
    <2>2. Below(n + 1) = Value[n] BY BelowIs
    <2> HIDE DEF R, D
    <2>3. ASSUME NEW x \in Below(n + 1) PROVE g[x] \in R(n)
        BY <2>1, <2>2
    <2>4. R(n) = Below(n + 1) BY <2>2 DEF R
    <2> QED BY <2>3, <2>4 DEF AsDecodedGood
<1>5. ASSUME NEW n \in Nat, NEW g \in D[n]
      PROVE  step[n][g] = AsDecodedLayer(n + 1, g) /\ step[n][g] \in D[n + 1]
    <2>1. AsDecodedGood(n + 1, g) /\ n + 1 \in Nat BY <1>4
    <2> HIDE DEF D
    <2>2. step[n][g] = AsDecodedLayer(n + 1, g) OBVIOUS
    <2>3. AsDecodedLayer(n + 1, g) \in D[n + 1] BY <1>2, <2>1
    <2> QED BY <2>2, <2>3
<1> HIDE DEF step, base, D, R
<1>6. PICK f : RecursAlong(f, D, base, step) BY <1>3, <1>5, RecursionAlong
<1>7. /\ f = [n \in Nat |-> f[n]] /\ f[0] = base
      /\ \A n \in Nat : f[n] \in D[n] /\ f[n + 1] = step[n][f[n]]
    BY <1>6 DEF RecursAlong
<1>8. ASSUME NEW n \in Nat PROVE f[n] = AsDecodedLayer(n, f[n - 1])
    <2>1. CASE n = 0
        <3> DEFINE g == <<>>
                   h == f[0 - 1]
        <3>1. 0 \in Nat /\ \A x \in Below(0) : g[x] = h[x] BY BelowIs
        <3> HIDE DEF g, h
        <3>2. \A v \in Value[0] : DecodedBy(v, g) = DecodedBy(v, h)
            BY <3>1, DecodedBySame
        <3>3. AsDecodedLayer(0, g) = AsDecodedLayer(0, h) BY <3>2 DEF AsDecodedLayer
        <3> QED BY <1>7, <2>1, <3>3 DEF base, g, h
    <2>2. CASE n # 0
        <3>1. n - 1 \in Nat /\ (n - 1) + 1 = n BY <2>2
        <3>2. f[n - 1] \in D[n - 1] /\ f[(n - 1) + 1] = step[n - 1][f[n - 1]]
            BY <1>7, <3>1
        <3>3. step[n - 1][f[n - 1]] = AsDecodedLayer((n - 1) + 1, f[n - 1])
            BY <1>5, <3>1, <3>2
        <3> QED BY <3>1, <3>2, <3>3
    <2> QED BY <2>1, <2>2
<1>9. AsDecodedEq(f) BY <1>7, <1>8 DEF AsDecodedEq
<1>10. AsDecoded = CHOOSE f1 : AsDecodedEq(f1)
    BY DEF AsDecoded, AsDecodedEq, AsDecodedLayer, DecodedBy, Triple, Mapped
<1>11. AsDecodedEq(AsDecoded) BY <1>9, <1>10
<1>12. \A n \in Nat : AsDecoded[n] = AsDecodedLayer(n, AsDecoded[n - 1]) BY <1>11 DEF AsDecodedEq
<1> DEFINE T == {n \in Nat : AsDecoded[n] \in D[n]}
<1>13. 0 \in T
    <2>1. AsDecodedGood(0, AsDecoded[0 - 1]) BY BelowIs DEF AsDecodedGood
    <2>2. AsDecoded[0] = AsDecodedLayer(0, AsDecoded[0 - 1]) BY <1>12
    <2> QED BY <1>2, <2>1, <2>2
<1>14. ASSUME NEW n \in Nat, n \in T PROVE n + 1 \in T
    <2>1. n + 1 \in Nat /\ (n + 1) - 1 = n /\ AsDecoded[n] \in D[n] BY <1>14
    <2>2. AsDecodedGood(n + 1, AsDecoded[n]) BY <1>4, <2>1
    <2>3. AsDecoded[n + 1] = AsDecodedLayer(n + 1, AsDecoded[n]) BY <1>12, <2>1
    <2>4. AsDecoded[n + 1] \in D[n + 1] BY <1>2, <2>1, <2>2, <2>3
    <2> QED BY <2>1, <2>4
<1> HIDE DEF T
<1>15. Nat \subseteq T BY <1>13, <1>14, NatSetInduction
<1>16. \A n \in Nat : AsDecoded[n] \in D[n] BY <1>15 DEF T
<1>17. AsDecodedGood(d0, AsDecoded[d0 - 1])
    <2>1. CASE d0 = 0 BY <2>1, BelowIs DEF AsDecodedGood
    <2>2. CASE d0 # 0
        <3>1. d0 - 1 \in Nat /\ (d0 - 1) + 1 = d0 BY <2>2
        <3>2. AsDecoded[d0 - 1] \in D[d0 - 1] BY <1>16, <3>1
        <3>3. AsDecodedGood((d0 - 1) + 1, AsDecoded[d0 - 1]) BY <1>4, <3>1, <3>2
        <3> QED BY <3>1, <3>3
    <2> QED BY <2>1, <2>2
<1>18. AsDecoded[d0] \in [Value[d0] -> R(d0)] BY <1>1, <1>16 DEF D
<1>19. AsDecoded[d0] = AsDecodedLayer(d0, AsDecoded[d0 - 1]) BY <1>12
<1>20. \A v \in Value[d0] : AsDecoded[d0][v] = DecodedBy(v, AsDecoded[d0 - 1])
    BY <1>19 DEF AsDecodedLayer
<1>21. \A v \in Value[d0] : AsDecoded[d0][v] \in R(d0) BY <1>18
<1> QED BY <1>17, <1>20, <1>21 DEF AsDecodedAt, R

(***************************************************************************)
(* The contents of the values of each depth.                               *)
(***************************************************************************)
Marks(s, g) == [i \in DOMAIN s |-> <<0>> \o g[s[i]]]

HeldBy(v, g) == v.bytes \o FlattenSeq(Marks(v.items, g))

MarksGood(m, s, g) ==
    /\ m \in Seq(Seq(Byte)) /\ Len(m) = Len(s)
    /\ \A i \in 1 .. Len(s) : m[i] \in Seq(Byte) /\ Len(m[i]) = 1 + Len(g[s[i]])

LEMMA MarksAre ==
    ASSUME NEW A, NEW s \in Seq(A), NEW g, \A x \in A : g[x] \in Seq(Byte)
    PROVE  MarksGood(Marks(s, g), s, g)
<1> DEFINE n == Len(s)
           S == Seq(Byte)
           m == Marks(s, g)
           zero == <<0>>
<1>1. n \in Nat /\ DOMAIN s = 1 .. n OBVIOUS
<1>2. \A i \in 1 .. n : s[i] \in A BY ElementType
<1>3. m = [i \in 1 .. n |-> zero \o g[s[i]]] BY <1>1 DEF Marks
<1>4. zero \in Seq(Byte) /\ Len(zero) = 1
    <2>1. 0 \in Byte BY SMT DEF Byte
    <2> QED BY <2>1
<1> HIDE DEF zero
<1>5. ASSUME NEW i \in 1 .. n PROVE m[i] \in S /\ Len(m[i]) = 1 + Len(g[s[i]])
    <2> DEFINE c == g[s[i]]
    <2>1. c \in Seq(Byte) BY <1>2
    <2>2. m[i] = zero \o c BY <1>3
    <2> HIDE DEF c, m
    <2>3. IsJoin(zero \o c, Byte, zero, c) BY <1>4, <2>1, JoinIs
    <2>4. zero \o c \in Seq(Byte) /\ Len(zero \o c) = 1 + Len(c)
        BY <1>4, <2>3 DEF IsJoin
    <2> QED BY <2>2, <2>4 DEF c
<1>6. m = [i \in 1 .. n |-> m[i]] BY <1>3
<1> HIDE DEF m, n, S
<1>7. m \in Seq(S) /\ Len(m) = n BY <1>1, <1>5, <1>6
<1> QED BY <1>5, <1>7 DEF MarksGood, m, n, S

ContentsLayer(d, g) == [v \in Value[d] |-> HeldBy(v, g)]

ContentsEq(f) == f = [d \in Nat |-> ContentsLayer(d, f[d - 1])]

ContentsGood(d, g) == \A x \in Below(d) : g[x] \in Seq(Byte)

LEMMA HeldByType ==
    ASSUME NEW d \in Nat, NEW v \in Value[d], NEW g, ContentsGood(d, g)
    PROVE  HeldBy(v, g) \in Seq(Byte)
<1> DEFINE m == Marks(v.items, g)
           b == v.bytes
           f == FlattenSeq(m)
<1>1. IsValue(v, d) BY ValueHas
<1>2. \A x \in Below(d) : g[x] \in Seq(Byte) BY DEF ContentsGood
<1>8. MarksGood(m, v.items, g) BY <1>1, <1>2, MarksAre DEF IsValue
<1> HIDE DEF m
<1>3. m \in Seq(Seq(Byte)) BY <1>8 DEF MarksGood
<1>4. f \in Seq(Byte) BY <1>3, FlatType
<1>5. b \in Seq(Byte) BY <1>1 DEF IsValue
<1>6. HeldBy(v, g) = b \o f BY DEF HeldBy, m
<1> HIDE DEF b, f
<1>7. b \o f \in Seq(Byte) BY <1>4, <1>5
<1> QED BY <1>6, <1>7

LEMMA HeldBySame ==
    ASSUME NEW d \in Nat, NEW v \in Value[d], NEW g, NEW h,
           \A x \in Below(d) : g[x] = h[x]
    PROVE  HeldBy(v, g) = HeldBy(v, h)
<1>1. IsValue(v, d) BY ValueHas
<1>2. \A i \in DOMAIN v.items : v.items[i] \in Below(d)
    <2>1. v.items \in Seq(Below(d)) BY <1>1 DEF IsValue
    <2>2. DOMAIN v.items = 1 .. Len(v.items) BY <2>1
    <2> QED BY <2>1, <2>2, ElementType
<1>3. Marks(v.items, g) = Marks(v.items, h) BY <1>2 DEF Marks
<1> QED BY <1>3 DEF HeldBy

ContentsAt(d) ==
    /\ ContentsGood(d, Contents[d - 1])
    /\ \A v \in Value[d] : Contents[d][v] = HeldBy(v, Contents[d - 1])
    /\ \A v \in Value[d] : Contents[d][v] \in Seq(Byte)

LEMMA ContentsIs ==
    ASSUME NEW d0 \in Nat
    PROVE  ContentsAt(d0)
<1> DEFINE R(d) == Seq(Byte)
           D == [n \in Nat |-> [Value[n] -> R(n)]]
           base == ContentsLayer(0, <<>>)
           step == [n \in Nat |-> [g \in D[n] |-> ContentsLayer(n + 1, g)]]
<1>1. \A n \in Nat : D[n] = [Value[n] -> R(n)] OBVIOUS
<1>2. ASSUME NEW n \in Nat, NEW g, ContentsGood(n, g) PROVE ContentsLayer(n, g) \in D[n]
    <2>1. \A v \in Value[n] : HeldBy(v, g) \in R(n) BY <1>2, HeldByType
    <2> HIDE DEF R
    <2>2. ContentsLayer(n, g) \in [Value[n] -> R(n)] BY <2>1 DEF ContentsLayer
    <2> QED BY <1>1, <2>2
<1>3. base \in D[0]
    <2>1. ContentsGood(0, <<>>) BY BelowIs DEF ContentsGood
    <2> HIDE DEF D
    <2> QED BY <1>2, <2>1
<1>4. ASSUME NEW n \in Nat, NEW g \in D[n] PROVE ContentsGood(n + 1, g)
    <2>1. g \in [Value[n] -> R(n)] BY <1>1
    <2>2. Below(n + 1) = Value[n] BY BelowIs
    <2> HIDE DEF R, D
    <2>3. ASSUME NEW x \in Below(n + 1) PROVE g[x] \in R(n)
        BY <2>1, <2>2
    <2> QED BY <2>2, <2>3 DEF ContentsGood, R
<1>5. ASSUME NEW n \in Nat, NEW g \in D[n]
      PROVE  step[n][g] = ContentsLayer(n + 1, g) /\ step[n][g] \in D[n + 1]
    <2>1. ContentsGood(n + 1, g) /\ n + 1 \in Nat BY <1>4
    <2> HIDE DEF D
    <2>2. step[n][g] = ContentsLayer(n + 1, g) OBVIOUS
    <2>3. ContentsLayer(n + 1, g) \in D[n + 1] BY <1>2, <2>1
    <2> QED BY <2>2, <2>3
<1> HIDE DEF step, base, D, R
<1>6. PICK f : RecursAlong(f, D, base, step) BY <1>3, <1>5, RecursionAlong
<1>7. /\ f = [n \in Nat |-> f[n]] /\ f[0] = base
      /\ \A n \in Nat : f[n] \in D[n] /\ f[n + 1] = step[n][f[n]]
    BY <1>6 DEF RecursAlong
<1>8. ASSUME NEW n \in Nat PROVE f[n] = ContentsLayer(n, f[n - 1])
    <2>1. CASE n = 0
        <3> DEFINE g == <<>>
                   h == f[0 - 1]
        <3>1. 0 \in Nat /\ \A x \in Below(0) : g[x] = h[x] BY BelowIs
        <3> HIDE DEF g, h
        <3>2. \A v \in Value[0] : HeldBy(v, g) = HeldBy(v, h)
            BY <3>1, HeldBySame
        <3>3. ContentsLayer(0, g) = ContentsLayer(0, h) BY <3>2 DEF ContentsLayer
        <3> QED BY <1>7, <2>1, <3>3 DEF base, g, h
    <2>2. CASE n # 0
        <3>1. n - 1 \in Nat /\ (n - 1) + 1 = n BY <2>2
        <3>2. f[n - 1] \in D[n - 1] /\ f[(n - 1) + 1] = step[n - 1][f[n - 1]]
            BY <1>7, <3>1
        <3>3. step[n - 1][f[n - 1]] = ContentsLayer((n - 1) + 1, f[n - 1])
            BY <1>5, <3>1, <3>2
        <3> QED BY <3>1, <3>2, <3>3
    <2> QED BY <2>1, <2>2
<1>9. ContentsEq(f) BY <1>7, <1>8 DEF ContentsEq
<1>10. Contents = CHOOSE f1 : ContentsEq(f1)
    BY DEF Contents, ContentsEq, ContentsLayer, HeldBy, Marks
<1>11. ContentsEq(Contents) BY <1>9, <1>10
<1>12. \A n \in Nat : Contents[n] = ContentsLayer(n, Contents[n - 1]) BY <1>11 DEF ContentsEq
<1> DEFINE T == {n \in Nat : Contents[n] \in D[n]}
<1>13. 0 \in T
    <2>1. ContentsGood(0, Contents[0 - 1]) BY BelowIs DEF ContentsGood
    <2>2. Contents[0] = ContentsLayer(0, Contents[0 - 1]) BY <1>12
    <2> QED BY <1>2, <2>1, <2>2
<1>14. ASSUME NEW n \in Nat, n \in T PROVE n + 1 \in T
    <2>1. n + 1 \in Nat /\ (n + 1) - 1 = n /\ Contents[n] \in D[n] BY <1>14
    <2>2. ContentsGood(n + 1, Contents[n]) BY <1>4, <2>1
    <2>3. Contents[n + 1] = ContentsLayer(n + 1, Contents[n]) BY <1>12, <2>1
    <2>4. Contents[n + 1] \in D[n + 1] BY <1>2, <2>1, <2>2, <2>3
    <2> QED BY <2>1, <2>4
<1> HIDE DEF T
<1>15. Nat \subseteq T BY <1>13, <1>14, NatSetInduction
<1>16. \A n \in Nat : Contents[n] \in D[n] BY <1>15 DEF T
<1>17. ContentsGood(d0, Contents[d0 - 1])
    <2>1. CASE d0 = 0 BY <2>1, BelowIs DEF ContentsGood
    <2>2. CASE d0 # 0
        <3>1. d0 - 1 \in Nat /\ (d0 - 1) + 1 = d0 BY <2>2
        <3>2. Contents[d0 - 1] \in D[d0 - 1] BY <1>16, <3>1
        <3>3. ContentsGood((d0 - 1) + 1, Contents[d0 - 1]) BY <1>4, <3>1, <3>2
        <3> QED BY <3>1, <3>3
    <2> QED BY <2>1, <2>2
<1>18. Contents[d0] \in [Value[d0] -> R(d0)] BY <1>1, <1>16 DEF D
<1>19. Contents[d0] = ContentsLayer(d0, Contents[d0 - 1]) BY <1>12
<1>20. \A v \in Value[d0] : Contents[d0][v] = HeldBy(v, Contents[d0 - 1])
    BY <1>19 DEF ContentsLayer
<1>21. \A v \in Value[d0] : Contents[d0][v] \in R(d0) BY <1>18
<1> QED BY <1>17, <1>20, <1>21 DEF ContentsAt, R

(***************************************************************************)
(* When a value is another one, cut.                                       *)
(***************************************************************************)
CutBy(part, value, g) ==
    LET n == Len(part.items)
    IN  /\ part.type = value.type /\ part.type \in Groups
        /\ n <= Len(value.items)
        /\ \A i \in 1 .. n - 1 : part.items[i] = value.items[i]
        /\ n > 0 => \/ part.items[n] = value.items[n]
                    \/ g[<<part.items[n], value.items[n]>>]

CutLayer(d, g) == [pair \in Value[d] \X Value[d] |-> CutBy(pair[1], pair[2], g)]

CutEq(f) == f = [d \in Nat |-> CutLayer(d, f[d - 1])]

LEMMA CutBySame ==
    ASSUME NEW d \in Nat, NEW part \in Value[d], NEW value \in Value[d], NEW g, NEW h,
           \A x \in Below(d), y \in Below(d) : g[<<x, y>>] = h[<<x, y>>]
    PROVE  CutBy(part, value, g) <=> CutBy(part, value, h)
<1> DEFINE n == Len(part.items)
<1>1. part.items \in Seq(Below(d)) /\ value.items \in Seq(Below(d))
    BY ValueHas DEF IsValue
<1>2. ASSUME n <= Len(value.items), n > 0
      PROVE  g[<<part.items[n], value.items[n]>>] = h[<<part.items[n], value.items[n]>>]
    <2>3. n \in Nat /\ Len(value.items) \in Nat BY <1>1, LenIs
    <2>1. n \in 1 .. Len(part.items) /\ n \in 1 .. Len(value.items) BY <1>2, <2>3
    <2>2. part.items[n] \in Below(d) /\ value.items[n] \in Below(d)
        BY <1>1, <2>1, ElementType
    <2> QED BY <2>2
<1> DEFINE A == part.type = value.type /\ part.type \in Groups
           B == n <= Len(value.items)
           C == \A i \in 1 .. n - 1 : part.items[i] = value.items[i]
           E == part.items[n] = value.items[n]
           G == g[<<part.items[n], value.items[n]>>]
           H == h[<<part.items[n], value.items[n]>>]
<1>3. /\ CutBy(part, value, g) <=> A /\ B /\ C /\ (n > 0 => E \/ G)
      /\ CutBy(part, value, h) <=> A /\ B /\ C /\ (n > 0 => E \/ H)
    BY DEF CutBy
<1>4. B /\ n > 0 => G = H BY <1>2
<1> HIDE DEF A, B, C, E, G, H
<1> QED BY <1>3, <1>4

LEMMA CutOfIs ==
    ASSUME NEW d0 \in Nat, NEW part0 \in Value[d0], NEW value0 \in Value[d0]
    PROVE  CutOf[d0][<<part0, value0>>] <=> CutBy(part0, value0, CutOf[d0 - 1])
<1> DEFINE D == [n \in Nat |-> [Value[n] \X Value[n] -> BOOLEAN]]
           base == CutLayer(0, <<>>)
           step == [n \in Nat |-> [g \in D[n] |-> CutLayer(n + 1, g)]]
<1>1. \A n \in Nat : D[n] = [Value[n] \X Value[n] -> BOOLEAN] OBVIOUS
<1>2. ASSUME NEW n \in Nat, NEW g PROVE CutLayer(n, g) \in D[n]
    <2>1. \A p \in Value[n], v \in Value[n] : CutBy(p, v, g) \in BOOLEAN
        BY DEF CutBy
    <2>2. CutLayer(n, g) \in [Value[n] \X Value[n] -> BOOLEAN]
        BY <2>1 DEF CutLayer
    <2> QED BY <1>1, <2>2
<1> HIDE DEF D
<1>3. base \in D[0] BY <1>2
<1>5. ASSUME NEW n \in Nat, NEW g \in D[n]
      PROVE  step[n][g] = CutLayer(n + 1, g) /\ step[n][g] \in D[n + 1]
    <2>2. step[n][g] = CutLayer(n + 1, g) OBVIOUS
    <2>3. CutLayer(n + 1, g) \in D[n + 1] BY <1>2
    <2> QED BY <2>2, <2>3
<1> HIDE DEF step, base
<1>6. PICK f : RecursAlong(f, D, base, step) BY <1>3, <1>5, RecursionAlong
<1>7. /\ f = [n \in Nat |-> f[n]] /\ f[0] = base
      /\ \A n \in Nat : f[n] \in D[n] /\ f[n + 1] = step[n][f[n]]
    BY <1>6 DEF RecursAlong
<1>8. ASSUME NEW n \in Nat PROVE f[n] = CutLayer(n, f[n - 1])
    <2>1. CASE n = 0
        <3> DEFINE g == <<>>
                   h == f[0 - 1]
        <3>1. 0 \in Nat /\ \A x \in Below(0), y \in Below(0) : g[<<x, y>>] = h[<<x, y>>] BY BelowIs
        <3> HIDE DEF g, h
        <3>2. ASSUME NEW p \in Value[0], NEW v \in Value[0]
              PROVE  CutBy(p, v, g) = CutBy(p, v, h)
            <4>1. CutBy(p, v, g) <=> CutBy(p, v, h) BY <3>1, CutBySame
            <4> QED BY <4>1 DEF CutBy
        <3>3. CutLayer(0, g) = CutLayer(0, h) BY <3>2 DEF CutLayer
        <3> QED BY <1>7, <2>1, <3>3 DEF base, g, h
    <2>2. CASE n # 0
        <3>1. n - 1 \in Nat /\ (n - 1) + 1 = n BY <2>2
        <3>2. f[n - 1] \in D[n - 1] /\ f[(n - 1) + 1] = step[n - 1][f[n - 1]]
            BY <1>7, <3>1
        <3>3. step[n - 1][f[n - 1]] = CutLayer((n - 1) + 1, f[n - 1])
            BY <1>5, <3>1, <3>2
        <3> QED BY <3>1, <3>2, <3>3
    <2> QED BY <2>1, <2>2
<1>9. CutEq(f) BY <1>7, <1>8 DEF CutEq
<1>10. CutOf = CHOOSE f1 : CutEq(f1)
    BY DEF CutOf, CutEq, CutLayer, CutBy
<1>11. CutEq(CutOf) BY <1>9, <1>10
<1>12. CutOf[d0] = CutLayer(d0, CutOf[d0 - 1]) BY <1>11 DEF CutEq
<1>13. CutOf[d0][<<part0, value0>>] = CutBy(part0, value0, CutOf[d0 - 1])
    BY <1>12 DEF CutLayer
<1> QED BY <1>13

(***************************************************************************)
(* What is decoded at a position: an error, a value without items, or a    *)
(* group of what is read by the level below.                               *)
(***************************************************************************)
Failed(r) == r.ok = FALSE /\ r.err \in Failures /\ r = Error(r.err)

Plain(v) ==
    /\ v = Triple(v.type, v.bytes, <<>>)
    /\ v.type \in Types /\ v.type \notin Groups
    /\ v.bytes \in Seq(Byte) /\ FitsIs(v)
    /\ ReadType(v.type) = v.type

PlainRead(r, data, pos) ==
    /\ r = Got(r.val, r.pos) /\ r.ok = TRUE
    /\ r.pos \in Nat /\ r.pos > pos /\ r.pos <= Len(data)
    /\ Plain(r.val) /\ Len(r.val.bytes) < r.pos - pos

GroupRead(r, data, pos, item) ==
    LET count == ReadVariableLength(data, pos + 1)
        items == ReadMany(data, item, count.val, count.pos)
    IN  /\ count.ok /\ items.ok
        /\ r.val.type \in Groups
        /\ r = Got(Triple(r.val.type, <<>>, items.val), items.pos)

WasDecoded(r, data, pos, item) ==
    Failed(r) \/ PlainRead(r, data, pos) \/ GroupRead(r, data, pos, item)

OneAt(data, item, pos) ==
    LET tag == ReadBytes(data, pos, 1)
    IN  IF ~tag.ok THEN Error("BufferUnderflow")
        ELSE DecodeByTag(data, tag.pos, tag.val[1], item)

LEMMA ErrorFails ==
    ASSUME NEW e \in Failures, NEW r, r = Error(e)
    PROVE  Failed(r)
BY ErrorIs DEF Failed

LEMMA ResultFails ==
    ASSUME NEW V, NEW r \in Result(V), ~r.ok
    PROVE  Failed(r)
<1>1. r = Error(r.err) /\ r.err \in Failures BY ResultIs
<1>2. r.ok = FALSE
    <2>1. r.ok \in BOOLEAN BY ResultIs
    <2> QED BY <2>1
<1> QED BY <1>1, <1>2 DEF Failed

LEMMA NothingIs ==
    <<>> \in Seq(Byte) /\ Len(<<>>) = 0
OBVIOUS

IsTruth(bytes) == bytes \in {<<0>>, <<1>>}

LEMMA PlainIs ==
    ASSUME NEW type \in Types, type \notin Groups, ReadType(type) = type,
           NEW bytes \in Seq(Byte), Len(bytes) < Huge,
           type \in Widths => Len(bytes) = Width[type],
           type = "bool" => IsTruth(bytes),
           type \in Empties => bytes = <<>>
    PROVE  Plain(Triple(type, bytes, <<>>))
<1> DEFINE v == Triple(type, bytes, <<>>)
<1>1. v.type = type /\ v.bytes = bytes /\ v.items = <<>> BY TripleIs
<1>2. v = Triple(v.type, v.bytes, <<>>) BY <1>1
<1>3. Len(v.items) < Huge
    <2>1. Len(v.items) = 0 BY <1>1
    <2> QED BY <2>1, HugeIs
<1> HIDE DEF v
<1>4. FitsIs(v) BY <1>1, <1>3 DEF FitsIs, IsTruth
<1>5. Plain(v) BY <1>1, <1>2, <1>4 DEF Plain
<1> QED BY <1>5 DEF v

LEMMA AsReadIs ==
    ASSUME NEW tag, NEW type, NEW width, ReadAsFixed(tag, type, width),
           NEW bytes \in Seq(Byte), Len(bytes) = width
    PROVE  Plain(AsRead(type, bytes)) /\ Len(AsRead(type, bytes).bytes) = width
<1>1. /\ type \in Types /\ type \notin Groups /\ type \notin Empties
      /\ type \in Widths => Width[type] = width
      /\ width \in Nat /\ width < 256 /\ ReadType(type) = type
    BY DEF ReadAsFixed
<1> DEFINE x == Huge
<1>2. width < x
    <2>1. x \in Nat /\ 256 <= x BY SMT DEF Huge
    <2> HIDE DEF x
    <2> QED BY <1>1, <2>1
<1> HIDE DEF x
<1>3. CASE type = "bool" /\ bytes # <<0>>
    <2> DEFINE b == <<1>>
    <2>1. AsRead(type, bytes) = Triple(type, b, <<>>) BY <1>3 DEF AsRead, Scalar, Triple
    <2>2. width = 1
        <3>1. "bool" \in Widths /\ Width["bool"] = 1 BY DEF Widths, Width
        <3> QED BY <1>1, <1>3, <3>1
    <2>3. b \in Seq(Byte) /\ Len(b) = 1 /\ IsTruth(b)
        <3>1. 1 \in Byte BY SMT DEF Byte
        <3> QED BY <3>1 DEF IsTruth
    <2> HIDE DEF b
    <2>4. Plain(Triple(type, b, <<>>)) BY <1>1, <1>2, <2>2, <2>3, PlainIs DEF x
    <2> QED BY <2>1, <2>2, <2>3, <2>4, TripleIs
<1>4. CASE ~(type = "bool" /\ bytes # <<0>>)
    <2>1. AsRead(type, bytes) = Triple(type, bytes, <<>>) BY <1>4 DEF AsRead, Scalar, Triple
    <2>2. type = "bool" => IsTruth(bytes) BY <1>4 DEF IsTruth
    <2>3. Plain(Triple(type, bytes, <<>>)) BY <1>1, <1>2, <2>2, PlainIs DEF x
    <2> QED BY <2>1, <2>3, TripleIs
<1> QED BY <1>3, <1>4

LEMMA FixedRead ==
    ASSUME NEW data \in Seq(Byte), NEW pos \in Nat, NEW tag \in FixedTags
    PROVE  \/ Failed(DecodeFixed(data, pos + 1, tag))
           \/ PlainRead(DecodeFixed(data, pos + 1, tag), data, pos)
<1> DEFINE r == DecodeFixed(data, pos + 1, tag)
           w == FixedWidth(tag)
           b == ReadBytes(data, pos + 1, w)
           v == AsRead(FixedType(tag), b.val)
<1>1. ReadAsFixed(tag, FixedType(tag), w) BY FixedTagsRead
<1>2. w \in Nat /\ pos + 1 \in Nat BY <1>1 DEF ReadAsFixed
<1>3. WasRead(b, data, pos + 1, w) BY <1>2, ReadBytesIs
<1>4. r = IF ~b.ok THEN b ELSE Got(v, b.pos) BY DEF DecodeFixed
<1> HIDE DEF w, b, r
<1>5. CASE (pos + 1) + w > Len(data)
    <2>1. b = Error("BufferUnderflow") /\ b.ok = FALSE BY <1>3, <1>5 DEF WasRead
    <2>2. r = Error("BufferUnderflow") /\ "BufferUnderflow" \in Failures
        BY <1>4, <2>1 DEF Failures
    <2> QED BY <2>2, ErrorFails DEF r
<1>6. CASE ~((pos + 1) + w > Len(data))
    <2>1. Len(data) \in Nat BY LenIs
    <2>2. (pos + 1) + w <= Len(data) BY <1>2, <1>6, <2>1
    <2>3. b.ok = TRUE /\ b.pos = (pos + 1) + w /\ b.val \in Seq(Byte) /\ Len(b.val) = w
        BY <1>3, <2>2 DEF WasRead
    <2>4. Plain(v) /\ Len(v.bytes) = w BY <1>1, <2>3, AsReadIs
    <2>5. r = Got(v, b.pos) BY <1>4, <2>3
    <2> HIDE DEF v
    <2>6. r.ok = TRUE /\ r.val = v /\ r.pos = (pos + 1) + w BY <2>3, <2>5 DEF Got
    <2>7. r = Got(r.val, r.pos) BY <2>3, <2>5, <2>6
    <2>8. r.pos \in Nat /\ r.pos > pos /\ r.pos <= Len(data) /\ w < r.pos - pos
        BY <1>2, <2>2, <2>6
    <2>9. PlainRead(r, data, pos) BY <2>4, <2>6, <2>7, <2>8 DEF PlainRead
    <2> QED BY <2>9 DEF r
<1> QED BY <1>5, <1>6

LEMMA SizedRead ==
    ASSUME NEW data \in Seq(Byte), Len(data) < Huge, NEW pos \in Nat, NEW type \in Sizeds
    PROVE  \/ Failed(DecodeSized(data, pos + 1, type))
           \/ PlainRead(DecodeSized(data, pos + 1, type), data, pos)
<1> DEFINE r == DecodeSized(data, pos + 1, type)
           l == ReadVariableLength(data, pos + 1)
           b == ReadBytes(data, l.pos, l.val)
           v == Scalar(type, b.val)
<1>1. LengthWasRead(l, data, pos + 1) BY LengthType
<1>2. l \in Result(Size) /\ (l.ok => l.pos > pos + 1 /\ l.pos <= Len(data))
    BY <1>1 DEF LengthWasRead
<1>3. r = IF ~l.ok THEN l ELSE IF ~b.ok THEN b ELSE Got(v, b.pos) BY DEF DecodeSized
<1>4. Len(data) \in Nat /\ Huge \in Nat BY LenIs, HugeIs
<1> HIDE DEF l, b, r
<1>5. CASE ~l.ok
    <2>1. Failed(l) BY <1>2, <1>5, ResultFails
    <2>2. r = l BY <1>3, <1>5
    <2> QED BY <2>1, <2>2 DEF r
<1>6. CASE l.ok
    <2>1. l.val \in Size /\ l.pos \in Nat BY <1>2, <1>6, ResultIs
    <2>2. l.val \in Nat BY <2>1 DEF Size
    <2>3. WasRead(b, data, l.pos, l.val) BY <2>1, <2>2, ReadBytesIs DEF b
    <2> DEFINE p == l.pos
               n == l.val
    <2>4. p \in Nat /\ n \in Nat /\ p > pos + 1 /\ p <= Len(data) BY <1>2, <1>6, <2>1, <2>2
    <2>5. WasRead(b, data, p, n) BY <2>3
    <2> HIDE DEF p, n
    <2>6. CASE p + n > Len(data)
        <3>1. b = Error("BufferUnderflow") /\ b.ok = FALSE BY <2>5, <2>6 DEF WasRead
        <3>2. r = Error("BufferUnderflow") /\ "BufferUnderflow" \in Failures
            BY <1>3, <1>6, <3>1 DEF Failures
        <3> QED BY <3>2, ErrorFails DEF r
    <2>7. CASE ~(p + n > Len(data))
        <3>1. p + n <= Len(data) BY <1>4, <2>4, <2>7
        <3>2. b.ok = TRUE /\ b.pos = p + n /\ b.val \in Seq(Byte) /\ Len(b.val) = n
            BY <2>5, <3>1 DEF WasRead
        <3> DEFINE x == b.val
        <3>3. x \in Seq(Byte) /\ Len(x) = n BY <3>2
        <3>4. v = Triple(type, x, <<>>) BY DEF Scalar, Triple
        <3>5. Len(x) < Huge BY <1>4, <2>4, <3>1, <3>3
        <3> HIDE DEF x
        <3>6. /\ type \in Types /\ type \notin Groups /\ ReadType(type) = type
              /\ type \notin Widths /\ type \notin Empties /\ type # "bool"
            BY OtherTags
        <3>7. Plain(Triple(type, x, <<>>)) BY <3>3, <3>5, <3>6, PlainIs
        <3>8. r = Got(v, b.pos) BY <1>3, <1>6, <3>2
        <3>9. v.bytes = x BY <3>4, TripleIs
        <3> HIDE DEF v
        <3>10. r.ok = TRUE /\ r.val = v /\ r.pos = p + n BY <3>2, <3>8 DEF Got
        <3>11. r = Got(r.val, r.pos) BY <3>2, <3>8, <3>10
        <3>12. r.pos \in Nat /\ r.pos > pos /\ r.pos <= Len(data) /\ n < r.pos - pos
            BY <2>4, <3>1, <3>10
        <3>13. PlainRead(r, data, pos)
            BY <3>3, <3>4, <3>7, <3>9, <3>10, <3>11, <3>12 DEF PlainRead
        <3> QED BY <3>13 DEF r
    <2> QED BY <2>6, <2>7
<1> QED BY <1>5, <1>6

LEMMA EmptyRead ==
    ASSUME NEW data \in Seq(Byte), NEW pos \in Nat, pos < Len(data),
           NEW r, r = Got(None, pos + 1)
    PROVE  PlainRead(r, data, pos)
<1> DEFINE nil == <<>>
           v == None
<1>1. nil \in Seq(Byte) /\ Len(nil) = 0 OBVIOUS
<1>2. v = Triple("none", nil, <<>>) BY DEF None, Scalar, Triple
<1>3. "none" \in Empties BY DEF Empties
<1>4. /\ "none" \in Types /\ "none" \notin Groups /\ ReadType("none") = "none"
      /\ "none" \notin Widths /\ "none" # "bool"
    BY <1>3, OtherTags
<1>5. Len(nil) < Huge BY <1>1, HugeIs
<1>10. nil = <<>> OBVIOUS
<1> HIDE DEF nil, v
<1>6. Plain(Triple("none", nil, <<>>)) BY <1>1, <1>4, <1>5, <1>10, PlainIs
<1>7. r = Got(v, pos + 1) BY DEF v
<1>8. r.ok = TRUE /\ r.val = v /\ r.pos = pos + 1 BY <1>7 DEF Got
<1>9. v.bytes = nil BY <1>2, TripleIs
<1>11. Len(data) \in Nat BY LenIs
<1>12. r.pos \in Nat /\ r.pos > pos /\ r.pos <= Len(data) /\ 0 < r.pos - pos
    BY <1>8, <1>11
<1> QED BY <1>1, <1>2, <1>6, <1>7, <1>8, <1>9, <1>12 DEF PlainRead

LEMMA GroupForm ==
    ASSUME NEW data \in Seq(Byte), NEW pos \in Nat, NEW V, NEW item \in [Nat -> Result(V)],
           NEW type \in Groups
    PROVE  \/ Failed(DecodeGroup(data, pos + 1, type, item))
           \/ GroupRead(DecodeGroup(data, pos + 1, type, item), data, pos, item)
<1> DEFINE count == ReadVariableLength(data, pos + 1)
           items == ReadMany(data, item, count.val, count.pos)
           r == DecodeGroup(data, pos + 1, type, item)
<1>1. LengthWasRead(count, data, pos + 1) BY LengthType
<1>2. count \in Result(Size) BY <1>1 DEF LengthWasRead
<1>3. r = IF ~count.ok THEN count ELSE IF ~items.ok THEN items
          ELSE Got(Triple(type, <<>>, items.val), items.pos)
    BY DEF DecodeGroup, Group, Triple
<1>4. GroupRead(r, data, pos, item) <=>
          /\ count.ok /\ items.ok /\ r.val.type \in Groups
          /\ r = Got(Triple(r.val.type, <<>>, items.val), items.pos)
    BY DEF GroupRead
<1> HIDE DEF count, r
<1>5. CASE ~count.ok
    <2>1. Failed(count) BY <1>2, <1>5, ResultFails
    <2>2. r = count BY <1>3, <1>5
    <2> QED BY <2>1, <2>2 DEF r
<1>6. CASE count.ok
    <2>1. count.val \in Size /\ count.pos \in Nat BY <1>2, <1>6, ResultIs
    <2>2. count.val \in Nat BY <2>1 DEF Size
    <2>3. items \in Result(Seq(V)) BY <2>1, <2>2, ManyType
    <2> HIDE DEF items
    <2>4. CASE ~items.ok
        <3>1. Failed(items) BY <2>3, <2>4, ResultFails
        <3>2. r = items BY <1>3, <1>6, <2>4
        <3> QED BY <3>1, <3>2 DEF r
    <2>5. CASE items.ok
        <3> DEFINE v == Triple(type, <<>>, items.val)
        <3>1. r = Got(v, items.pos) BY <1>3, <1>6, <2>5
        <3>2. v.type = type BY TripleIs
        <3> HIDE DEF v
        <3>3. r.val = v BY <3>1 DEF Got
        <3>4. r.val.type = type BY <3>2, <3>3
        <3>5. r = Got(Triple(r.val.type, <<>>, items.val), items.pos)
            BY <3>1, <3>4 DEF v
        <3>6. GroupRead(r, data, pos, item) BY <1>4, <1>6, <2>5, <3>4, <3>5
        <3> QED BY <3>6 DEF r
    <2> QED BY <2>4, <2>5
<1> QED BY <1>5, <1>6

ByTag(r, data, pos, t, item) ==
    /\ t \in EmptyTags => r = Got(None, pos)
    /\ t \in FixedTags => r = DecodeFixed(data, pos, t)
    /\ t \in SizedTags => r = DecodeSized(data, pos, SizedType(t))
    /\ t \in GroupTags => r = DecodeGroup(data, pos, GroupType(t), item)
    /\ \/ t \in EmptyTags
       \/ t \in FixedTags
       \/ t \in SizedTags
       \/ t \in GroupTags
       \/ r = Error("InvalidTag")

LEMMA ByTagIs ==
    ASSUME NEW data, NEW pos, NEW t, NEW item
    PROVE  ByTag(DecodeByTag(data, pos, t, item), data, pos, t, item)
<1> DEFINE e == Got(None, pos)
           f == DecodeFixed(data, pos, t)
           s == DecodeSized(data, pos, SizedType(t))
           g == DecodeGroup(data, pos, GroupType(t), item)
           o == Error("InvalidTag")
           r == DecodeByTag(data, pos, t, item)
<1>1. r = CASE t \in EmptyTags -> e [] t \in FixedTags -> f [] t \in SizedTags -> s
            [] t \in GroupTags -> g [] OTHER -> o
    BY DEF DecodeByTag
<1>2. /\ t \in EmptyTags => t \notin FixedTags /\ t \notin SizedTags /\ t \notin GroupTags
      /\ t \in FixedTags => t \notin SizedTags /\ t \notin GroupTags
      /\ t \in SizedTags => t \notin GroupTags
    BY DEF EmptyTags, FixedTags, SizedTags, GroupTags
<1> HIDE DEF e, f, s, g, o, r
<1>3. /\ t \in EmptyTags => r = e
      /\ t \in FixedTags => r = f
      /\ t \in SizedTags => r = s
      /\ t \in GroupTags => r = g
      /\ \/ t \in EmptyTags
         \/ t \in FixedTags
         \/ t \in SizedTags
         \/ t \in GroupTags
         \/ r = o
    BY <1>1, <1>2
<1> QED BY <1>3 DEF ByTag, e, f, s, g, o, r

LEMMA OneForms ==
    ASSUME NEW data \in Seq(Byte), Len(data) < Huge, NEW pos \in Nat, NEW V,
           NEW item \in [Nat -> Result(V)]
    PROVE  WasDecoded(OneAt(data, item, pos), data, pos, item)
<1> DEFINE a == ReadBytes(data, pos, 1)
           r == OneAt(data, item, pos)
           t == a.val[1]
<1>1. /\ a.ok \in BOOLEAN
      /\ a.ok <=> pos < Len(data)
      /\ a.ok => a.val[1] \in Byte /\ a.pos = pos + 1
    BY FirstByte
<1>2. r = IF ~a.ok THEN Error("BufferUnderflow") ELSE DecodeByTag(data, a.pos, t, item)
    BY DEF OneAt
<1>3. "BufferUnderflow" \in Failures /\ "InvalidTag" \in Failures BY DEF Failures
<1> HIDE DEF a, r, t
<1>4. CASE ~a.ok
    <2>1. r = Error("BufferUnderflow") BY <1>2, <1>4
    <2> QED BY <1>3, <2>1, ErrorFails DEF WasDecoded, r
<1>5. CASE a.ok
    <2>1. r = DecodeByTag(data, pos + 1, t, item) /\ pos < Len(data)
        BY <1>1, <1>2, <1>5 DEF t
    <2>7. ByTag(r, data, pos + 1, t, item) BY <2>1, ByTagIs
    <2>2. CASE t \in EmptyTags
        <3>1. r = Got(None, pos + 1) BY <2>2, <2>7 DEF ByTag
        <3>2. PlainRead(r, data, pos) BY <2>1, <3>1, EmptyRead
        <3> QED BY <3>2 DEF WasDecoded, r
    <2>3. CASE t \in FixedTags
        <3>1. r = DecodeFixed(data, pos + 1, t) BY <2>3, <2>7 DEF ByTag
        <3> QED BY <2>3, <3>1, FixedRead DEF WasDecoded, r
    <2>4. CASE t \in SizedTags
        <3>1. r = DecodeSized(data, pos + 1, SizedType(t)) BY <2>4, <2>7 DEF ByTag
        <3>2. SizedType(t) \in Sizeds BY OtherTagsRead
        <3> QED BY <3>1, <3>2, SizedRead DEF WasDecoded, r
    <2>5. CASE t \in GroupTags
        <3>1. r = DecodeGroup(data, pos + 1, GroupType(t), item) BY <2>5, <2>7 DEF ByTag
        <3>2. GroupType(t) \in Groups BY OtherTagsRead
        <3> QED BY <3>1, <3>2, GroupForm DEF WasDecoded, r
    <2>6. CASE /\ t \notin EmptyTags /\ t \notin FixedTags
               /\ t \notin SizedTags /\ t \notin GroupTags
        <3>1. r = Error("InvalidTag") BY <2>6, <2>7 DEF ByTag
        <3> QED BY <1>3, <3>1, ErrorFails DEF WasDecoded, r
    <2> QED BY <2>2, <2>3, <2>4, <2>5, <2>6
<1> QED BY <1>4, <1>5

(***************************************************************************)
(* The readers of the values of each depth.                                *)
(***************************************************************************)
Readers(n, data) == {g \in [Nat -> Result(Below(n))] : Advances(g, data)}

LEMMA PlainHas ==
    ASSUME NEW v, Plain(v), NEW d \in Nat
    PROVE  v \in Value[d]
<1> DEFINE w == Triple(v.type, v.bytes, <<>>)
<1>1. /\ v = w /\ v.type \in Types /\ v.bytes \in Seq(Byte) /\ FitsIs(v)
    BY DEF Plain
<1>2. Fits(w) BY <1>1, FitsMeans
<1>3. v.type \in DOMAIN TagOf BY <1>1, TypesAre
<1>4. <<>> \in Seq(Below(d)) OBVIOUS
<1>5. w \in Value[d] BY <1>1, <1>2, <1>3, <1>4, ValueFrom
<1> QED BY <1>1, <1>5

OneGood(r, n, data, pos) ==
    /\ r \in Result(Value[n])
    /\ r.ok => r.pos > pos /\ r.pos <= Len(data)

LEMMA OneType ==
    ASSUME NEW data \in Seq(Byte), Len(data) < Huge, NEW n \in Nat,
           NEW item \in Readers(n, data), NEW pos \in Nat
    PROVE  OneGood(OneAt(data, item, pos), n, data, pos)
<1> DEFINE r == OneAt(data, item, pos)
           B == Below(n)
<1>1. item \in [Nat -> Result(B)] /\ Advances(item, data) BY DEF Readers
<1> HIDE DEF B
<1>2. WasDecoded(r, data, pos, item) BY <1>1, OneForms
<1> HIDE DEF r
<1>3. CASE Failed(r)
    <2>1. r = Error(r.err) /\ r.err \in Failures /\ r.ok = FALSE BY <1>3 DEF Failed
    <2>2. Error(r.err) \in Result(Value[n]) BY <2>1, ErrorType
    <2>3. OneGood(r, n, data, pos) BY <2>1, <2>2 DEF OneGood
    <2> QED BY <2>3 DEF r
<1>4. CASE PlainRead(r, data, pos)
    <2>1. /\ r = Got(r.val, r.pos) /\ r.pos \in Nat /\ r.pos > pos /\ r.pos <= Len(data)
          /\ Plain(r.val)
        BY <1>4 DEF PlainRead
    <2>2. r.val \in Value[n] BY <2>1, PlainHas
    <2>3. Got(r.val, r.pos) \in Result(Value[n]) BY <2>1, <2>2, GotType
    <2>4. OneGood(r, n, data, pos) BY <2>1, <2>3 DEF OneGood
    <2> QED BY <2>4 DEF r
<1>5. CASE GroupRead(r, data, pos, item)
    <2> DEFINE count == ReadVariableLength(data, pos + 1)
               items == ReadMany(data, item, count.val, count.pos)
               v == Triple(r.val.type, <<>>, items.val)
    <2>1. count.ok /\ items.ok /\ r.val.type \in Groups /\ r = Got(v, items.pos)
        BY <1>5 DEF GroupRead
    <2>2. LengthWasRead(count, data, pos + 1) BY LengthType
    <2> HIDE DEF count
    <2>3. /\ count \in Result(Size) /\ count.pos > pos + 1 /\ count.pos <= Len(data)
        BY <2>1, <2>2 DEF LengthWasRead
    <2>4. count.val \in Size /\ count.pos \in Nat BY <2>1, <2>3, ResultIs
    <2>5. count.val \in Nat BY <2>4 DEF Size
    <2>6. items \in Result(Seq(B)) BY <1>1, <2>4, <2>5, ManyType
    <2>7. Bounded(items, data, count.val, count.pos) BY <1>1, <2>4, <2>5, ManyBounds
    <2> HIDE DEF items
    <2>8. items.val \in Seq(B) /\ items.pos \in Nat BY <2>1, <2>6, ResultIs
    <2>9. Len(items.val) \in Nat /\ Len(data) \in Nat /\ Huge \in Nat
        BY <2>8, LenIs, HugeIs
    <2> DEFINE l == Len(items.val)
               p == items.pos
               q == count.pos
               m == Len(data)
               h == Huge
    <2>10. p >= q /\ (p = q \/ p <= m) /\ l <= p - q BY <2>1, <2>7 DEF Bounded
    <2>11. l \in Nat /\ m \in Nat /\ h \in Nat /\ p \in Nat /\ q \in Nat /\ m < h
           /\ q > pos + 1 /\ q <= m
        BY <2>3, <2>4, <2>8, <2>9
    <2> HIDE DEF l, p, q, m, h
    <2>12. l < h /\ p > pos /\ p <= m BY <2>10, <2>11
    <2> DEFINE t == r.val.type
               s == items.val
               nil == <<>>
    <2>13. /\ t \in Groups /\ t \in Types /\ t \notin Widths /\ t # "bool" /\ s \in Seq(B)
        BY <2>1, <2>8, OtherTags
    <2>14. nil \in Seq(Byte) /\ Len(nil) = 0 /\ nil = <<>> OBVIOUS
    <2>15. v = Triple(t, nil, s) BY DEF v, nil
    <2>16. Len(s) < Huge BY <2>12 DEF l, h
    <2> HIDE DEF t, s, nil, v
    <2>17. v.type = t /\ v.bytes = nil /\ v.items = s BY <2>15, TripleIs
    <2>18. Len(nil) < Huge BY <2>14, HugeIs
    <2>19. FitsIs(v) BY <2>13, <2>14, <2>16, <2>17, <2>18 DEF FitsIs
    <2>20. Fits(Triple(t, nil, s)) BY <2>15, <2>19, FitsMeans
    <2>21. t \in DOMAIN TagOf BY <2>13, TypesAre
    <2>22. v \in Value[n] BY <2>13, <2>14, <2>15, <2>20, <2>21, ValueFrom DEF B
    <2>23. r = Got(v, p) BY <2>1 DEF p
    <2>24. r \in Result(Value[n]) BY <2>11, <2>22, <2>23, GotType
    <2>25. r.pos = p BY <2>23 DEF Got
    <2>26. OneGood(r, n, data, pos) BY <2>12, <2>24, <2>25 DEF OneGood, m
    <2> QED BY <2>26 DEF r
<1> QED BY <1>2, <1>3, <1>4, <1>5 DEF WasDecoded

(***************************************************************************)
(* The readers of DecodeOne: each depth reads its items by the one before. *)
(***************************************************************************)
OneBy(data, d, g, pos) ==
    LET tag == ReadBytes(data, pos, 1)
    IN  IF ~tag.ok \/ d = 0 THEN Error("BufferUnderflow")
        ELSE DecodeByTag(data, tag.pos, tag.val[1], g)

OneLayer(data, d, g) == [pos \in Nat |-> OneBy(data, d, g, pos)]

OnesEq(f, data) == f = [d \in Nat |-> OneLayer(data, d, f[d - 1])]

LEMMA OneByIs ==
    ASSUME NEW data, NEW d \in Nat, NEW g, NEW pos
    PROVE  OneBy(data, d, g, pos) =
              IF d = 0 THEN Error("BufferUnderflow") ELSE OneAt(data, g, pos)
BY DEF OneBy, OneAt

LEMMA OneLayerIs ==
    ASSUME NEW data, NEW g
    PROVE  /\ \A p \in Nat : OneLayer(data, 0, g)[p] = Error("BufferUnderflow")
           /\ \A d \in Nat : d # 0 =>
                 \A p \in Nat : OneLayer(data, d, g)[p] = OneAt(data, g, p)
<1>1. \A d \in Nat, p \in Nat : OneLayer(data, d, g)[p] = OneBy(data, d, g, p)
    BY DEF OneLayer
<1>2. \A d \in Nat, p \in Nat : OneBy(data, d, g, p) =
              IF d = 0 THEN Error("BufferUnderflow") ELSE OneAt(data, g, p)
    BY OneByIs
<1>3. 0 \in Nat OBVIOUS
<1> QED BY <1>1, <1>2, <1>3

LEMMA NoReaders ==
    ASSUME NEW data, NEW g
    PROVE  OneLayer(data, 0, g) \in Readers(0, data)
<1> DEFINE f == OneLayer(data, 0, g)
           R == Result(Below(0))
<1>1. \A p \in Nat : f[p] = Error("BufferUnderflow") BY OneLayerIs
<1>2. f = [p \in Nat |-> f[p]] BY DEF OneLayer
<1>3. Error("BufferUnderflow") \in R
    <2>1. "BufferUnderflow" \in Failures BY DEF Failures
    <2> QED BY <2>1, ErrorType
<1>4. Error("BufferUnderflow").ok = FALSE BY ErrorIs
<1> HIDE DEF f, R
<1>5. f \in [Nat -> R] BY <1>1, <1>2, <1>3
<1>6. Advances(f, data) BY <1>1, <1>4 DEF Advances
<1> QED BY <1>5, <1>6 DEF Readers, f, R

LEMMA NextReaders ==
    ASSUME NEW data \in Seq(Byte), Len(data) < Huge, NEW n \in Nat,
           NEW g \in Readers(n, data)
    PROVE  OneLayer(data, n + 1, g) \in Readers(n + 1, data)
<1> DEFINE f == OneLayer(data, n + 1, g)
           R == Result(Below(n + 1))
<1>1. \A p \in Nat : f[p] = OneAt(data, g, p)
    <2>1. n + 1 \in Nat /\ n + 1 # 0 OBVIOUS
    <2> QED BY <2>1, OneLayerIs
<1>2. f = [p \in Nat |-> f[p]] BY DEF OneLayer
<1>3. Below(n + 1) = Value[n] BY BelowIs
<1>4. \A p \in Nat : OneGood(OneAt(data, g, p), n, data, p) BY OneType
<1> HIDE DEF f
<1>5. \A p \in Nat : f[p] \in R BY <1>1, <1>3, <1>4 DEF OneGood
<1> HIDE DEF R
<1>6. f \in [Nat -> R] BY <1>2, <1>5
<1>7. Advances(f, data) BY <1>1, <1>4 DEF Advances, OneGood
<1> QED BY <1>6, <1>7 DEF Readers, f, R

Ones(f, data) ==
    /\ \A n \in Nat : f[n] \in Readers(n, data)
    /\ \A p \in Nat : f[0][p] = Error("BufferUnderflow")
    /\ \A n \in Nat : \A p \in Nat : f[n + 1][p] = OneAt(data, f[n], p)
    /\ DecodeOne(data) = f[Len(data)]

LEMMA OnesExist ==
    ASSUME NEW data \in Seq(Byte), Len(data) < Huge
    PROVE  \E f : Ones(f, data)
<1> DEFINE D == [n \in Nat |-> Readers(n, data)]
           base == OneLayer(data, 0, <<>>)
           step == [n \in Nat |-> [g \in D[n] |-> OneLayer(data, n + 1, g)]]
<1>1. \A n \in Nat : D[n] = Readers(n, data) OBVIOUS
<1>2. base \in D[0]
    <2>1. base \in Readers(0, data) BY NoReaders
    <2> HIDE DEF base
    <2> QED BY <2>1
<1>3. ASSUME NEW n \in Nat, NEW g \in D[n]
      PROVE  step[n][g] = OneLayer(data, n + 1, g) /\ step[n][g] \in D[n + 1]
    <2>1. g \in Readers(n, data) BY <1>1
    <2>2. OneLayer(data, n + 1, g) \in Readers(n + 1, data) BY <2>1, NextReaders
    <2>3. n + 1 \in Nat OBVIOUS
    <2>4. D[n + 1] = Readers(n + 1, data) BY <1>1, <2>3
    <2> HIDE DEF D
    <2>5. step[n][g] = OneLayer(data, n + 1, g) OBVIOUS
    <2> HIDE DEF step
    <2> QED BY <2>2, <2>4, <2>5
<1> HIDE DEF step, base, D
<1>6. PICK f : RecursAlong(f, D, base, step) BY <1>2, <1>3, RecursionAlong
<1>7. /\ f = [n \in Nat |-> f[n]] /\ f[0] = base
      /\ \A n \in Nat : f[n] \in D[n] /\ f[n + 1] = step[n][f[n]]
    BY <1>6 DEF RecursAlong
<1>8. ASSUME NEW n \in Nat PROVE f[n] = OneLayer(data, n, f[n - 1])
    <2>1. CASE n = 0
        <3> DEFINE g == <<>>
                   h == f[0 - 1]
        <3> HIDE DEF g, h
        <3>1. \A p \in Nat : OneBy(data, 0, g, p) = OneBy(data, 0, h, p)
            <4>1. 0 \in Nat OBVIOUS
            <4> QED BY <4>1, OneByIs
        <3>3. OneLayer(data, 0, g) = OneLayer(data, 0, h) BY <3>1 DEF OneLayer
        <3> QED BY <1>7, <2>1, <3>3 DEF base, g, h
    <2>2. CASE n # 0
        <3>1. n - 1 \in Nat /\ (n - 1) + 1 = n BY <2>2
        <3>2. f[n - 1] \in D[n - 1] /\ f[(n - 1) + 1] = step[n - 1][f[n - 1]]
            BY <1>7, <3>1
        <3>3. step[n - 1][f[n - 1]] = OneLayer(data, (n - 1) + 1, f[n - 1])
            BY <1>3, <3>1, <3>2
        <3> QED BY <3>1, <3>2, <3>3
    <2> QED BY <2>1, <2>2
<1>9. OnesEq(f, data) BY <1>7, <1>8 DEF OnesEq
<1> DEFINE o == CHOOSE f1 : OnesEq(f1, data)
<1>10. DecodeOne(data) = o[Len(data)]
    BY DEF DecodeOne, OnesEq, OneLayer, OneBy
<1>11. OnesEq(o, data) BY <1>9
<1> HIDE DEF o
<1>12. \A n \in Nat : o[n] = OneLayer(data, n, o[n - 1]) BY <1>11 DEF OnesEq
<1> DEFINE T == {n \in Nat : o[n] \in Readers(n, data)}
<1>13. 0 \in T
    <2>1. o[0] = OneLayer(data, 0, o[0 - 1]) BY <1>12
    <2>2. o[0] \in Readers(0, data) BY <2>1, NoReaders
    <2> QED BY <2>2
<1>14. ASSUME NEW n \in Nat, n \in T PROVE n + 1 \in T
    <2>1. n + 1 \in Nat /\ (n + 1) - 1 = n /\ o[n] \in Readers(n, data) BY <1>14
    <2>2. o[n + 1] = OneLayer(data, n + 1, o[n]) BY <1>12, <2>1
    <2>3. o[n + 1] \in Readers(n + 1, data) BY <2>1, <2>2, NextReaders
    <2> QED BY <2>1, <2>3
<1> HIDE DEF T
<1>15. Nat \subseteq T BY <1>13, <1>14, NatSetInduction
<1>16. \A n \in Nat : o[n] \in Readers(n, data) BY <1>15 DEF T
<1>17. \A p \in Nat : o[0][p] = Error("BufferUnderflow")
    <2>1. o[0] = OneLayer(data, 0, o[0 - 1]) BY <1>12
    <2> QED BY <2>1, OneLayerIs
<1>18. \A n \in Nat : \A p \in Nat : o[n + 1][p] = OneAt(data, o[n], p)
    <2> TAKE n \in Nat
    <2> TAKE p \in Nat
    <2>1. n + 1 \in Nat /\ (n + 1) - 1 = n /\ n + 1 # 0 OBVIOUS
    <2>2. o[n + 1] = OneLayer(data, n + 1, o[n]) BY <1>12, <2>1
    <2> QED BY <2>1, <2>2, OneLayerIs, ZenonT(60)
<1>19. Ones(o, data) BY <1>10, <1>16, <1>17, <1>18 DEF Ones
<1> QED BY <1>19

(***************************************************************************)
(* What a loop read was laid one after the other.                          *)
(***************************************************************************)
WasLaid(r, item, p) ==
    \E e : /\ e \in [Nat -> Nat] /\ e[0] = p /\ e[Len(r.val)] = r.pos
           /\ Laid(item, r.val, e)

LEMMA ManyLaid ==
    ASSUME NEW V, NEW data \in Seq(Byte), NEW item \in [Nat -> Result(V)],
           NEW n \in Nat, NEW p \in Nat, ReadMany(data, item, n, p).ok
    PROVE  WasLaid(ReadMany(data, item, n, p), item, p)
<1> DEFINE R(k, q) == ReadMany(data, item, k, q)
           T == {k \in Nat : \A q \in Nat : R(k, q).ok => WasLaid(R(k, q), item, q)}
<1>1. ASSUME NEW k \in Nat, NEW q \in Nat, k = 0 \/ q >= Len(data)
      PROVE  WasLaid(R(k, q), item, q)
    <2> DEFINE r == R(k, q)
               e == [i \in Nat |-> q]
    <2>1. Ended(r, q) BY <1>1, NoMore
    <2> HIDE DEF r, T
    <2>2. r.val = <<>> /\ r.pos = q BY <2>1 DEF Ended
    <2>3. Len(r.val) = 0 BY <2>2
    <2>4. e \in [Nat -> Nat] /\ e[0] = q OBVIOUS
    <2> HIDE DEF e
    <2>5. Laid(item, r.val, e) BY <2>3 DEF Laid
    <2>6. WasLaid(r, item, q) BY <2>2, <2>3, <2>4, <2>5 DEF WasLaid
    <2> QED BY <2>6 DEF r
<1>2. 0 \in T BY <1>1
<1>3. ASSUME NEW k \in Nat, k \in T PROVE k + 1 \in T
    <2> SUFFICES ASSUME NEW q \in Nat, R(k + 1, q).ok
                 PROVE  WasLaid(R(k + 1, q), item, q)
        OBVIOUS
    <2>1. Len(data) \in Nat /\ k + 1 \in Nat OBVIOUS
    <2>2. CASE q >= Len(data) BY <1>1, <2>1, <2>2
    <2>3. CASE q < Len(data)
        <3> DEFINE r == R(k + 1, q)
                   a == item[q]
                   m == R(k, a.pos)
        <3>1. OneMore(r, a, m) BY <2>3, OneMoreIs
        <3>2. a \in Result(V) OBVIOUS
        <3>3. a.ok => a.val \in V /\ a.pos \in Nat BY <3>2, ResultIs
        <3>4. a.ok => m \in Result(Seq(V)) BY <3>3, ManyType
        <3>5. a.ok /\ m.ok => WasLaid(m, item, a.pos) BY <1>3, <3>3
        <3>6. r.ok OBVIOUS
        <3>7. a = item[q] OBVIOUS
        <3> HIDE DEF r, a, m, R
        <3>8. a.ok /\ m.ok
            <4>1. a.ok \in BOOLEAN BY <3>2, ResultIs
            <4>2. a.ok BY <3>1, <3>6, <4>1 DEF OneMore
            <4>3. m.ok \in BOOLEAN BY <3>4, <4>2, ResultIs
            <4> QED BY <3>1, <3>6, <4>2, <4>3 DEF OneMore
        <3>9. PICK e : /\ e \in [Nat -> Nat] /\ e[0] = a.pos /\ e[Len(m.val)] = m.pos
                       /\ Laid(item, m.val, e)
            BY <3>5, <3>8 DEF WasLaid
        <3> DEFINE x == a.val
                   s == m.val
                   h == <<x>>
                   c == h \o s
        <3>10. r = Got(c, m.pos) BY <3>1, <3>8 DEF OneMore
        <3>11. s \in Seq(V) /\ m.pos \in Nat /\ x \in V
            BY <3>3, <3>4, <3>8, ResultIs
        <3>12. a = Got(x, a.pos) BY <3>2, <3>8, ResultIs
        <3>13. \A i \in 1 .. Len(s) : item[e[i - 1]] = Got(s[i], e[i])
            BY <3>9 DEF Laid
        <3>23. e[Len(s)] = m.pos BY <3>9
        <3> HIDE DEF x, s
        <3>14. h \in Seq(V) /\ Len(h) = 1 /\ h[1] = x BY <3>11
        <3> HIDE DEF h
        <3>15. IsJoin(c, V, h, s) BY <3>11, <3>14, JoinIs
        <3>16. r.val = c /\ r.pos = m.pos BY <3>10 DEF Got
        <3> HIDE DEF c
        <3>17. /\ Len(c) = 1 + Len(s) /\ c[1] = x
               /\ \A i \in 1 .. Len(s) : c[1 + i] = s[i]
            BY <3>14, <3>15 DEF IsJoin
        <3>18. Len(s) \in Nat BY <3>11, LenIs
        <3> DEFINE g == [i \in Nat |-> IF i = 0 THEN q ELSE e[i - 1]]
        <3>19. /\ g \in [Nat -> Nat] /\ g[0] = q
               /\ \A i \in Nat : i # 0 => g[i] = e[i - 1]
            <4>1. \A i \in Nat : i # 0 => i - 1 \in Nat OBVIOUS
            <4>2. \A i \in Nat : i # 0 => e[i - 1] \in Nat BY <3>9, <4>1
            <4> QED BY <4>2
        <3> HIDE DEF g
        <3>20. g[Len(c)] = m.pos
            <4>1. Len(c) \in Nat /\ Len(c) # 0 /\ Len(c) - 1 = Len(s) BY <3>17, <3>18
            <4> QED BY <3>19, <3>23, <4>1
        <3>21. ASSUME NEW i \in 1 .. Len(c) PROVE item[g[i - 1]] = Got(c[i], g[i])
            <4>1. CASE i = 1
                <5>2. i - 1 = 0 /\ i \in Nat /\ i # 0 BY <4>1
                <5>3. g[i] = e[i - 1] /\ g[i - 1] = q BY <3>19, <5>2
                <5>1. g[i - 1] = q /\ g[i] = a.pos /\ c[i] = x
                    BY <3>9, <3>17, <4>1, <5>2, <5>3
                <5> QED BY <3>7, <3>12, <5>1
            <4>2. CASE i # 1
                <5>1. /\ i - 1 \in 1 .. Len(s) /\ i - 1 \in Nat /\ i - 1 # 0 /\ i \in Nat
                      /\ i # 0 /\ 1 + (i - 1) = i
                    BY <3>17, <3>18, <4>2
                <5>2. c[1 + (i - 1)] = s[i - 1] BY <3>17, <5>1
                <5>3. item[e[(i - 1) - 1]] = Got(s[i - 1], e[i - 1]) BY <3>13, <5>1
                <5>4. g[i - 1] = e[(i - 1) - 1] /\ g[i] = e[i - 1] BY <3>19, <5>1
                <5> QED BY <5>1, <5>2, <5>3, <5>4
            <4> QED BY <4>1, <4>2
        <3>22. Laid(item, c, g) BY <3>21 DEF Laid
        <3>24. WasLaid(r, item, q) BY <3>16, <3>19, <3>20, <3>22 DEF WasLaid
        <3> QED BY <3>24 DEF r
    <2> QED BY <2>1, <2>2, <2>3
<1> HIDE DEF T
<1>4. Nat \subseteq T BY <1>2, <1>3, NatSetInduction
<1>5. n \in T BY <1>4
<1> QED BY <1>5 DEF T

(***************************************************************************)
(* Sequences that fit between positions, joined, fit between the outermost.*)
(***************************************************************************)
Appended(t, E, s, c) ==
    /\ t \in Seq(E) /\ Len(t) = Len(s) + 1 /\ Len(s) \in Nat /\ t[Len(s) + 1] = c
    /\ \A i \in 1 .. Len(s) : t[i] = s[i]

LEMMA AppendedIs ==
    ASSUME NEW E, NEW s \in Seq(E), NEW c \in E
    PROVE  Appended(Append(s, c), E, s, c)
BY DEF Appended

Between(e, seqs) ==
    \A i \in 1 .. Len(seqs) : e[i - 1] + Len(seqs[i]) <= e[i]

LEMMA FlatBetween ==
    ASSUME NEW e \in [Nat -> Nat], NEW seqs \in Seq(Seq(Byte)), Between(e, seqs)
    PROVE  e[0] + Len(FlattenSeq(seqs)) <= e[Len(seqs)]
<1> DEFINE S == Seq(Byte)
           T == {s \in Seq(S) : Between(e, s) =>
                                    e[0] + Len(FlattenSeq(s)) <= e[Len(s)]}
<1>1. <<>> \in T
    <2> DEFINE nil == <<>>
    <2>1. nil \in Seq(S) /\ Len(nil) = 0 OBVIOUS
    <2>2. FlattenSeq(nil) = <<>> BY <2>1, FlatType
    <2>3. Len(FlattenSeq(nil)) = 0 BY <2>2
    <2> DEFINE x == e[0]
    <2>4. x \in Nat OBVIOUS
    <2>5. x + 0 <= x BY <2>4
    <2>6. nil \in T BY <2>1, <2>3, <2>5
    <2> QED BY <2>6
<1>2. ASSUME NEW s \in Seq(S), NEW c \in S, s \in T PROVE Append(s, c) \in T
    <2> DEFINE t == Append(s, c)
               n == Len(s)
               fs == FlattenSeq(s)
    <2>20. s \in T BY <1>2
    <2> HIDE DEF T
    <2>1. /\ t \in Seq(S) /\ Len(t) = n + 1 /\ n \in Nat /\ t[n + 1] = c
          /\ \A i \in 1 .. n : t[i] = s[i]
        BY AppendedIs DEF Appended
    <2> HIDE DEF t
    <2>2. FlattenSeq(t) = fs \o t[Len(t)] BY <2>1, FlatAlong
    <2>3. fs \in Seq(Byte) /\ FlattenSeq(t) = fs \o c BY <2>1, <2>2, FlatType
    <2> SUFFICES ASSUME Between(e, t)
                 PROVE  e[0] + Len(FlattenSeq(t)) <= e[Len(t)]
        BY <2>1 DEF t, T
    <2>4. Len(FlattenSeq(t)) = Len(fs) + Len(c) BY <2>3, Joined
    <2>5. Between(e, s)
        <3> SUFFICES ASSUME NEW i \in 1 .. Len(s) PROVE e[i - 1] + Len(s[i]) <= e[i]
            BY DEF Between
        <3>1. i \in 1 .. Len(t) /\ t[i] = s[i] BY <2>1
        <3> QED BY <3>1 DEF Between
    <2>6. e[0] + Len(fs) <= e[n] BY <2>5, <2>20 DEF T
    <2>7. e[n] + Len(c) <= e[n + 1]
        <3>1. n + 1 \in 1 .. Len(t) /\ (n + 1) - 1 = n BY <2>1
        <3>2. e[(n + 1) - 1] + Len(t[n + 1]) <= e[n + 1] BY <3>1 DEF Between
        <3> QED BY <2>1, <3>1, <3>2
    <2> DEFINE x == e[0]
               y == e[n]
               z == e[n + 1]
               l == Len(fs)
               k == Len(c)
    <2>8. n \in Nat /\ n + 1 \in Nat BY <2>1
    <2>9. x \in Nat /\ y \in Nat /\ z \in Nat /\ l \in Nat /\ k \in Nat
        BY <2>3, <2>8, LenIs
    <2>10. x + l <= y /\ y + k <= z BY <2>6, <2>7
    <2>11. e[Len(t)] = z /\ Len(FlattenSeq(t)) = l + k BY <2>1, <2>4
    <2> HIDE DEF y, z, l, k
    <2>12. x + (l + k) <= z
        <3> HIDE DEF x
        <3> QED BY <2>9, <2>10
    <2> QED BY <2>11, <2>12
<1> HIDE DEF T, S
<1>3. Seq(S) \subseteq T BY <1>1, <1>2, SeqSetInduction
<1>4. seqs \in T BY <1>3 DEF S
<1> QED BY <1>4 DEF T

Rising(e, n) ==
    \A i \in Nat : i <= n => e[0] <= e[i] /\ e[i] <= e[n]

LEMMA RisingIs ==
    ASSUME NEW e \in [Nat -> Nat], NEW n \in Nat, \A i \in 1 .. n : e[i - 1] <= e[i]
    PROVE  Rising(e, n)
<1> DEFINE T == {k \in Nat : k <= n => Rising(e, k)}
<1>1. 0 \in T
    <2> DEFINE x == e[0]
    <2>1. x \in Nat OBVIOUS
    <2>2. x <= x BY <2>1
    <2>3. Rising(e, 0)
        <3> SUFFICES ASSUME NEW i \in Nat, i <= 0 PROVE x <= e[i] /\ e[i] <= x
            BY DEF Rising
        <3>1. i = 0 OBVIOUS
        <3> QED BY <2>2, <3>1
    <2> QED BY <2>3
<1>2. ASSUME NEW k \in Nat, k \in T PROVE k + 1 \in T
    <2> SUFFICES ASSUME k + 1 <= n PROVE Rising(e, k + 1)
        OBVIOUS
    <2>1. Rising(e, k) /\ k + 1 \in 1 .. n /\ (k + 1) - 1 = k BY <1>2
    <2> DEFINE x == e[0]
               y == e[k]
               z == e[k + 1]
    <2>2. y <= z BY <2>1
    <2>3. x \in Nat /\ y \in Nat /\ z \in Nat OBVIOUS
    <2>4. ASSUME NEW i \in Nat, i <= k + 1 PROVE x <= e[i] /\ e[i] <= z
        <3> DEFINE w == e[i]
        <3>1. w \in Nat OBVIOUS
        <3>2. CASE i = k + 1
            <4>1. x <= y
                <5>1. k <= k OBVIOUS
                <5> QED BY <2>1, <5>1 DEF Rising
            <4>2. w = z BY <3>2
            <4> HIDE DEF x, y, z, w
            <4>3. x <= w /\ w <= z BY <2>2, <2>3, <4>1, <4>2
            <4> QED BY <4>3 DEF w
        <3>3. CASE i # k + 1
            <4>1. i <= k BY <3>3, <2>4
            <4>2. x <= w /\ w <= y BY <2>1, <4>1 DEF Rising
            <4> HIDE DEF x, y, z, w
            <4>3. x <= w /\ w <= z BY <2>2, <2>3, <3>1, <4>2
            <4> QED BY <4>3 DEF w
        <3> QED BY <3>2, <3>3
    <2> QED BY <2>4 DEF Rising
<1> HIDE DEF T
<1>3. Nat \subseteq T BY <1>1, <1>2, NatSetInduction
<1>4. n \in T BY <1>3
<1>5. n <= n OBVIOUS
<1> QED BY <1>4, <1>5 DEF T

(***************************************************************************)
(* A value that was decoded of m bytes: how deep it is, how much it holds, *)
(* and that it is read as itself.                                          *)
(***************************************************************************)
Keeps(v, m, k) == Len(Contents[k][v]) < m /\ AsDecoded[k][v] = v

Sound(v, m) ==
    /\ v \in Value[m \div 2]
    /\ \A k \in Nat : v \in Value[k] => Keeps(v, m, k)

SoundRead(r, p) == r.ok => Sound(r.val, r.pos - p)

LEMMA PlainParts ==
    ASSUME NEW v, v.items = <<>>, v.bytes \in Seq(Byte), NEW g
    PROVE  /\ HeldBy(v, g) = v.bytes
           /\ Mapped(v.items, g) = <<>>
<1> DEFINE nil == <<>>
           b == v.bytes
<1>1. nil \in Seq(Byte) /\ nil \in Seq(Seq(Byte)) /\ Len(nil) = 0 OBVIOUS
<1>2. Marks(nil, g) = nil /\ Mapped(nil, g) = nil BY DEF Marks, Mapped
<1>3. FlattenSeq(nil) = nil BY <1>1, FlatType
<1>4. HeldBy(v, g) = b \o nil BY <1>2, <1>3 DEF HeldBy
<1>5. b \in Seq(Byte) OBVIOUS
<1> HIDE DEF b
<1>6. b \o nil = b BY <1>5
<1> QED BY <1>2, <1>4, <1>6 DEF b

LEMMA PlainSound ==
    ASSUME NEW data \in Seq(Byte), NEW pos \in Nat, NEW r, PlainRead(r, data, pos)
    PROVE  Sound(r.val, r.pos - pos)
<1> DEFINE v == r.val
           m == r.pos - pos
<1>1. /\ r.pos \in Nat /\ r.pos > pos /\ Plain(v) /\ Len(v.bytes) < m
    BY DEF PlainRead
<1>2. m \in Nat /\ m \div 2 \in Nat BY <1>1
<1>3. v = Triple(v.type, v.bytes, <<>>) /\ ReadType(v.type) = v.type /\ v.bytes \in Seq(Byte)
    BY <1>1 DEF Plain
<1> HIDE DEF v, m
<1>4. v.items = <<>> BY <1>3, TripleIs
<1>5. v \in Value[m \div 2] BY <1>1, <1>2, PlainHas
<1>6. ASSUME NEW k \in Nat, v \in Value[k] PROVE Keeps(v, m, k)
    <2>1. Contents[k][v] = HeldBy(v, Contents[k - 1]) BY <1>6, ContentsIs DEF ContentsAt
    <2>2. AsDecoded[k][v] = DecodedBy(v, AsDecoded[k - 1])
        BY <1>6, AsDecodedIs DEF AsDecodedAt
    <2>3. Contents[k][v] = v.bytes BY <1>3, <1>4, <2>1, PlainParts
    <2>4. Mapped(v.items, AsDecoded[k - 1]) = <<>> BY <1>3, <1>4, PlainParts
    <2>5. AsDecoded[k][v] = v BY <1>3, <2>2, <2>4 DEF DecodedBy
    <2> QED BY <1>1, <2>3, <2>5 DEF Keeps
<1> QED BY <1>5, <1>6 DEF Sound, v, m

SoundAlong(s, e) ==
    \A i \in 1 .. Len(s) : e[i - 1] < e[i] /\ Sound(s[i], e[i] - e[i - 1])

LEMMA LaidSound ==
    ASSUME NEW data \in Seq(Byte), NEW n \in Nat, NEW item \in Readers(n, data),
           \A p \in Nat : SoundRead(item[p], p),
           NEW V, NEW s \in Seq(V), NEW e \in [Nat -> Nat], Laid(item, s, e)
    PROVE  SoundAlong(s, e)
<1> SUFFICES ASSUME NEW i \in 1 .. Len(s)
             PROVE  e[i - 1] < e[i] /\ Sound(s[i], e[i] - e[i - 1])
    BY DEF SoundAlong
<1> DEFINE p == e[i - 1]
           q == e[i]
           r == item[p]
<1>1. r = Got(s[i], q) BY DEF Laid
<1>2. p \in Nat
    <2>1. i - 1 \in Nat OBVIOUS
    <2> QED BY <2>1
<1>3. Advances(item, data) BY DEF Readers
<1>4. SoundRead(r, p) BY <1>2
<1>5. r.ok => r.pos > p BY <1>2, <1>3 DEF Advances
<1> HIDE DEF r
<1>6. r.ok = TRUE /\ r.val = s[i] /\ r.pos = q BY <1>1 DEF Got
<1>7. q > p /\ q \in Nat
    <2>1. i \in Nat OBVIOUS
    <2> QED BY <1>5, <1>6, <2>1
<1> HIDE DEF p, q
<1>8. p < q BY <1>2, <1>7
<1>9. Sound(s[i], q - p) BY <1>4, <1>6 DEF SoundRead
<1> QED BY <1>8, <1>9 DEF p, q

LEMMA AlongRises ==
    ASSUME NEW s, NEW n \in Nat, n = Len(s), NEW e \in [Nat -> Nat], SoundAlong(s, e)
    PROVE  Rising(e, n)
<1>1. ASSUME NEW i \in 1 .. n PROVE e[i - 1] <= e[i]
    <2> DEFINE x == e[i - 1]
               y == e[i]
    <2>1. i - 1 \in Nat /\ i \in Nat OBVIOUS
    <2>2. x \in Nat /\ y \in Nat BY <2>1
    <2>3. x < y BY DEF SoundAlong
    <2> HIDE DEF x, y
    <2>4. x <= y BY <2>2, <2>3
    <2> QED BY <2>4 DEF x, y
<1> QED BY <1>1, RisingIs

LEMMA HalfOfLess ==
    ASSUME NEW a \in Nat, NEW b \in Nat, NEW x \in Nat, NEW y \in Nat, NEW h \in Nat,
           a <= x, x <= y, y <= b, b - a <= 2 * h + 1
    PROVE  (y - x) \div 2 \in Nat /\ (y - x) \div 2 <= h
OBVIOUS

LEMMA SeqFrom ==
    ASSUME NEW V, NEW s \in Seq(V), NEW W, \A i \in 1 .. Len(s) : s[i] \in W
    PROVE  s \in Seq(W)
<1>1. s = [i \in 1 .. Len(s) |-> s[i]] /\ Len(s) \in Nat OBVIOUS
<1> QED BY <1>1

LEMMA AlongFits ==
    ASSUME NEW V, NEW s \in Seq(V), NEW e \in [Nat -> Nat], SoundAlong(s, e),
           NEW h \in Nat, e[Len(s)] - e[0] <= 2 * h + 1
    PROVE  s \in Seq(Value[h])
<1> DEFINE n == Len(s)
<1>1. n \in Nat BY LenIs
<1>2. Rising(e, n) BY <1>1, AlongRises
<1>3. ASSUME NEW i \in 1 .. n PROVE s[i] \in Value[h]
    <2> DEFINE x == e[i - 1]
               y == e[i]
               a == e[0]
               b == e[n]
    <2>1. i - 1 \in Nat /\ i \in Nat /\ i - 1 <= n /\ i <= n /\ 0 \in Nat BY <1>1
    <2>2. a <= x /\ y <= b BY <1>2, <2>1 DEF Rising
    <2>3. x < y /\ Sound(s[i], y - x) BY DEF SoundAlong
    <2>4. a \in Nat /\ b \in Nat /\ x \in Nat /\ y \in Nat BY <1>1, <2>1
    <2>5. b - a <= 2 * h + 1 OBVIOUS
    <2> HIDE DEF a, b, x, y
    <2>6. x <= y BY <2>3, <2>4
    <2> DEFINE d == (y - x) \div 2
    <2>7. d \in Nat /\ d <= h BY <2>2, <2>4, <2>5, <2>6, HalfOfLess
    <2>8. s[i] \in Value[d] BY <2>3 DEF Sound
    <2> HIDE DEF d
    <2>9. Value[d] \subseteq Value[h] BY <2>7, ValueGrowsTo
    <2> QED BY <2>8, <2>9
<1> DEFINE W == Value[h]
<1>4. \A i \in 1 .. Len(s) : s[i] \in W BY <1>3
<1> HIDE DEF W
<1> QED BY <1>4, SeqFrom DEF W

LEMMA AlongKeeps ==
    ASSUME NEW k \in Nat, NEW s \in Seq(Below(k)), NEW e, SoundAlong(s, e),
           NEW i \in 1 .. Len(s)
    PROVE  s[i] \in Below(k) /\ Keeps(s[i], e[i] - e[i - 1], k - 1)
<1>1. s[i] \in Below(k) BY ElementType
<1>2. k # 0 BY <1>1, BelowIs
<1>3. k - 1 \in Nat /\ Below(k) = Value[k - 1] BY <1>2 DEF Below
<1>4. Sound(s[i], e[i] - e[i - 1]) BY DEF SoundAlong
<1> QED BY <1>1, <1>3, <1>4 DEF Sound

LEMMA ContentsBetween ==
    ASSUME NEW k \in Nat, NEW s \in Seq(Below(k)), NEW e \in [Nat -> Nat], SoundAlong(s, e)
    PROVE  e[0] + Len(FlattenSeq(Marks(s, Contents[k - 1]))) <= e[Len(s)]
<1> DEFINE g == Contents[k - 1]
           m == Marks(s, g)
           n == Len(s)
<1>1. \A x \in Below(k) : g[x] \in Seq(Byte) BY ContentsIs DEF ContentsAt, ContentsGood
<1>2. /\ m \in Seq(Seq(Byte)) /\ Len(m) = n
      /\ \A i \in 1 .. n : m[i] \in Seq(Byte) /\ Len(m[i]) = 1 + Len(g[s[i]])
    <2>1. MarksGood(m, s, g) BY <1>1, MarksAre
    <2> HIDE DEF m, g
    <2> QED BY <2>1 DEF MarksGood
<1>3. ASSUME NEW i \in 1 .. n PROVE e[i - 1] + Len(m[i]) <= e[i]
    <2> DEFINE x == e[i - 1]
               y == e[i]
               l == Len(g[s[i]])
               t == Len(m[i])
    <2>1. s[i] \in Below(k) /\ Keeps(s[i], y - x, k - 1) BY AlongKeeps
    <2>2. l < y - x BY <2>1 DEF Keeps
    <2>3. t = 1 + l BY <1>2
    <2>4. l \in Nat
        <3>1. g[s[i]] \in Seq(Byte) BY <1>1, <2>1
        <3> QED BY <3>1, LenIs
    <2>5. x \in Nat /\ y \in Nat
        <3>1. i - 1 \in Nat /\ i \in Nat OBVIOUS
        <3> QED BY <3>1
    <2> HIDE DEF x, y, l, t
    <2>6. x + t <= y BY <2>2, <2>3, <2>4, <2>5
    <2> QED BY <2>6 DEF x, y, t
<1> HIDE DEF m
<1>4. Between(e, m) BY <1>2, <1>3 DEF Between
<1>5. e[0] + Len(FlattenSeq(m)) <= e[Len(m)] BY <1>2, <1>4, FlatBetween
<1> QED BY <1>2, <1>5 DEF m

LEMMA AsDecodedKeeps ==
    ASSUME NEW k \in Nat, NEW s \in Seq(Below(k)), NEW e, SoundAlong(s, e)
    PROVE  Mapped(s, AsDecoded[k - 1]) = s
<1> DEFINE g == AsDecoded[k - 1]
           n == Len(s)
<1>1. DOMAIN s = 1 .. n /\ s = [i \in 1 .. n |-> s[i]] OBVIOUS
<1>2. ASSUME NEW i \in 1 .. n PROVE g[s[i]] = s[i]
    <2>1. Keeps(s[i], e[i] - e[i - 1], k - 1) BY AlongKeeps
    <2> QED BY <2>1 DEF Keeps
<1> HIDE DEF n, g
<1>3. [i \in 1 .. n |-> g[s[i]]] = [i \in 1 .. n |-> s[i]] BY <1>2
<1> QED BY <1>1, <1>3 DEF Mapped, g

LEMMA GroupSound ==
    ASSUME NEW data \in Seq(Byte), Len(data) < Huge, NEW n \in Nat,
           NEW item \in Readers(n, data), \A p \in Nat : SoundRead(item[p], p),
           NEW pos \in Nat, NEW r, GroupRead(r, data, pos, item),
           OneGood(r, n, data, pos)
    PROVE  Sound(r.val, r.pos - pos)
<1> DEFINE B == Below(n)
           count == ReadVariableLength(data, pos + 1)
           items == ReadMany(data, item, count.val, count.pos)
           s == items.val
           v == r.val
           w == Triple(v.type, <<>>, s)
<1>1. item \in [Nat -> Result(B)] /\ Advances(item, data) BY DEF Readers
<1> HIDE DEF B
<1>2. count.ok /\ items.ok /\ v.type \in Groups /\ r = Got(w, items.pos)
    BY DEF GroupRead
<1>3. LengthWasRead(count, data, pos + 1) BY LengthType
<1> HIDE DEF count
<1>4. /\ count \in Result(Size) /\ count.pos > pos + 1 /\ count.pos <= Len(data)
    BY <1>2, <1>3 DEF LengthWasRead
<1>5. count.val \in Size /\ count.pos \in Nat BY <1>2, <1>4, ResultIs
<1>6. count.val \in Nat BY <1>5 DEF Size
<1>7. items \in Result(Seq(B)) BY <1>1, <1>5, <1>6, ManyType
<1>8. WasLaid(items, item, count.pos) BY <1>1, <1>2, <1>5, <1>6, ManyLaid
<1> HIDE DEF items
<1>9. s \in Seq(B) /\ items.pos \in Nat BY <1>2, <1>7, ResultIs
<1>10. PICK e : /\ e \in [Nat -> Nat] /\ e[0] = count.pos /\ e[Len(s)] = items.pos
                /\ Laid(item, s, e)
    BY <1>8 DEF WasLaid
<1> HIDE DEF s
<1>11. SoundAlong(s, e) BY <1>9, <1>10, LaidSound
<1>12. Len(s) \in Nat BY <1>9, LenIs
<1>13. Rising(e, Len(s)) BY <1>10, <1>11, <1>12, AlongRises
<1> HIDE DEF w
<1>14. r.ok = TRUE /\ v = w /\ r.pos = items.pos BY <1>2 DEF Got, v
<1> DEFINE q == count.pos
           t == items.pos
           m == t - pos
           h == (m - 2) \div 2
<1>15. q <= t
    <2>1. 0 \in Nat /\ 0 <= Len(s) BY <1>12
    <2>2. e[0] <= e[Len(s)] BY <1>12, <1>13, <2>1 DEF Rising
    <2> QED BY <1>10, <2>2
<1>16. q \in Nat /\ t \in Nat /\ q > pos + 1 /\ e[0] = q /\ e[Len(s)] = t
    BY <1>4, <1>5, <1>9, <1>10
<1> HIDE DEF q, t
<1>17. m \in Nat /\ m >= 2 /\ h \in Nat /\ t - q <= 2 * h + 1 /\ m \div 2 = h + 1 /\ t - q < m
    BY <1>15, <1>16
<1>18. s \in Seq(Value[h])
    <2>1. e[Len(s)] - e[0] <= 2 * h + 1 BY <1>16, <1>17
    <2> HIDE DEF h, m
    <2> QED BY <1>9, <1>10, <1>11, <1>17, <2>1, AlongFits
<1> HIDE DEF h
<1>19. v \in Value[n] BY <1>14, ResultIs DEF OneGood
<1>20. v.type \in DOMAIN TagOf /\ Fits(v) BY <1>19, ValueHas DEF IsValue
<1> HIDE DEF v
<1>21. v = Triple(v.type, <<>>, s) BY <1>14 DEF w
<1>22. v \in Value[h + 1]
    <2>1. Below(h + 1) = Value[h] /\ h + 1 \in Nat BY <1>17, BelowIs
    <2>2. s \in Seq(Below(h + 1)) /\ <<>> \in Seq(Byte) BY <1>18, <2>1
    <2> DEFINE y == Triple(v.type, <<>>, s)
    <2>3. Fits(y) BY <1>20, <1>21
    <2>4. y \in Value[h + 1] BY <1>20, <2>1, <2>2, <2>3, ValueFrom
    <2> QED BY <1>21, <2>4
<1>23. v.items = s /\ v.bytes = <<>> BY <1>21, TripleIs
<1>24. ASSUME NEW k \in Nat, v \in Value[k] PROVE Keeps(v, m, k)
    <2>1. Contents[k][v] = HeldBy(v, Contents[k - 1]) BY <1>24, ContentsIs DEF ContentsAt
    <2>2. AsDecoded[k][v] = DecodedBy(v, AsDecoded[k - 1])
        BY <1>24, AsDecodedIs DEF AsDecodedAt
    <2>3. s \in Seq(Below(k))
        <3>1. IsValue(v, k) BY <1>24, ValueHas
        <3> QED BY <1>23, <3>1 DEF IsValue
    <2> DEFINE g == Contents[k - 1]
               ms == Marks(s, g)
               fs == FlattenSeq(ms)
    <2>4. e[0] + Len(fs) <= e[Len(s)] BY <1>10, <1>11, <2>3, ContentsBetween
    <2>5. fs \in Seq(Byte)
        <3>1. \A x \in Below(k) : g[x] \in Seq(Byte) BY ContentsIs DEF ContentsAt, ContentsGood
        <3> HIDE DEF g
        <3>2. MarksGood(ms, s, g) BY <2>3, <3>1, MarksAre
        <3> HIDE DEF ms
        <3>3. ms \in Seq(Seq(Byte)) BY <3>2 DEF MarksGood
        <3> QED BY <3>3, FlatType
    <2>6. HeldBy(v, g) = <<>> \o fs BY <1>23 DEF HeldBy
    <2> HIDE DEF fs
    <2>7. <<>> \o fs = fs BY <2>5
    <2>8. Len(fs) \in Nat BY <2>5, LenIs
    <2>9. Len(fs) < m
        <3> DEFINE l == Len(fs)
        <3>1. q + l <= t /\ l \in Nat BY <1>16, <2>4, <2>8
        <3> HIDE DEF l, m
        <3>2. t - q < m BY <1>17
        <3>3. m \in Nat BY <1>17
        <3>4. l < m BY <1>16, <3>1, <3>2, <3>3
        <3> QED BY <3>4 DEF l
    <2>10. Len(Contents[k][v]) < m BY <2>1, <2>6, <2>7, <2>9
    <2>11. Mapped(s, AsDecoded[k - 1]) = s BY <1>11, <2>3, AsDecodedKeeps
    <2>12. ReadType(v.type) = v.type BY <1>2, OtherTags DEF v
    <2>13. AsDecoded[k][v] = Triple(v.type, <<>>, s)
        BY <1>23, <2>2, <2>11, <2>12 DEF DecodedBy
    <2>14. AsDecoded[k][v] = v BY <1>21, <2>13
    <2> QED BY <2>10, <2>14 DEF Keeps
<1> HIDE DEF m
<1>25. v \in Value[m \div 2] BY <1>17, <1>22
<1>26. Sound(v, m) BY <1>24, <1>25 DEF Sound
<1>27. m = r.pos - pos BY <1>14 DEF m, t
<1> QED BY <1>26, <1>27 DEF v

LEMMA OnesSound ==
    ASSUME NEW data \in Seq(Byte), Len(data) < Huge, NEW f, Ones(f, data)
    PROVE  \A n \in Nat : \A p \in Nat : SoundRead(f[n][p], p)
<1> DEFINE T == {n \in Nat : \A p \in Nat : SoundRead(f[n][p], p)}
<1>1. 0 \in T
    <2>1. \A p \in Nat : f[0][p] = Error("BufferUnderflow") BY DEF Ones
    <2>2. Error("BufferUnderflow").ok = FALSE BY ErrorIs
    <2> QED BY <2>1, <2>2 DEF SoundRead
<1>2. ASSUME NEW n \in Nat, n \in T PROVE n + 1 \in T
    <2> SUFFICES ASSUME NEW p \in Nat, f[n + 1][p].ok
                 PROVE  Sound(f[n + 1][p].val, f[n + 1][p].pos - p)
        BY DEF SoundRead
    <2> DEFINE g == f[n]
               r == f[n + 1][p]
    <2>1. g \in Readers(n, data) /\ r = OneAt(data, g, p) BY DEF Ones
    <2>2. \A q \in Nat : SoundRead(g[q], q) BY <1>2
    <2>3. r.ok OBVIOUS
    <2> HIDE DEF T, g, r
    <2>4. OneGood(r, n, data, p) BY <2>1, OneType
    <2>5. WasDecoded(r, data, p, g)
        <3> DEFINE B == Below(n)
        <3>1. g \in [Nat -> Result(B)] BY <2>1 DEF Readers
        <3> HIDE DEF B
        <3> QED BY <2>1, <3>1, OneForms
    <2>6. ~ Failed(r) BY <2>3 DEF Failed
    <2>7. CASE PlainRead(r, data, p)
        <3>1. Sound(r.val, r.pos - p) BY <2>7, PlainSound
        <3> QED BY <3>1 DEF r
    <2>8. CASE GroupRead(r, data, p, g)
        <3>1. Sound(r.val, r.pos - p) BY <2>1, <2>2, <2>4, <2>8, GroupSound
        <3> QED BY <3>1 DEF r
    <2> QED BY <2>5, <2>6, <2>7, <2>8 DEF WasDecoded
<1> HIDE DEF T
<1>3. Nat \subseteq T BY <1>1, <1>2, NatSetInduction
<1> QED BY <1>3 DEF T

(***************************************************************************)
(* What is written for a value without items is read of any data holding   *)
(* it.                                                                     *)
(***************************************************************************)
LEMMA TagIsRead ==
    ASSUME NEW data \in Seq(Byte), NEW pos \in Nat, NEW t \in Byte, NEW item,
           Holds(data, pos, <<t>>)
    PROVE  OneAt(data, item, pos) = DecodeByTag(data, pos + 1, t, item)
<1> DEFINE one == <<t>>
           a == ReadBytes(data, pos, 1)
<1>1. one \in Seq(Byte) /\ Len(one) = 1 /\ one[1] = t OBVIOUS
<1>2. Holds(data, pos, one) OBVIOUS
<1> HIDE DEF one
<1>3. ReadBytes(data, pos, Len(one)) = Got(one, pos + Len(one)) BY <1>1, <1>2, HeldIsRead
<1>4. a = Got(one, pos + 1) BY <1>1, <1>3
<1> HIDE DEF a
<1>5. a.ok = TRUE /\ a.val = one /\ a.pos = pos + 1 BY <1>4 DEF Got
<1>6. OneAt(data, item, pos) = IF ~a.ok THEN Error("BufferUnderflow")
                               ELSE DecodeByTag(data, a.pos, a.val[1], item)
    BY DEF OneAt, a
<1> QED BY <1>1, <1>5, <1>6

HeldTag(data, pos, c, t, b, item) ==
    /\ OneAt(data, item, pos) = DecodeByTag(data, pos + 1, t, item)
    /\ Len(c) = 1 + Len(b)
    /\ Holds(data, pos + 1, b)

LEMMA TagIsHeld ==
    ASSUME NEW data \in Seq(Byte), NEW pos \in Nat, NEW t \in Byte, NEW b \in Seq(Byte),
           NEW item, Holds(data, pos, <<t>> \o b)
    PROVE  HeldTag(data, pos, <<t>> \o b, t, b, item)
<1> DEFINE one == <<t>>
<1>1. one \in Seq(Byte) /\ Len(one) = 1 OBVIOUS
<1>2. Holds(data, pos, one \o b) OBVIOUS
<1>3. Holds(data, pos, one) => OneAt(data, item, pos) = DecodeByTag(data, pos + 1, t, item)
    BY TagIsRead
<1>6. one = <<t>> OBVIOUS
<1> HIDE DEF one
<1>4. Holds(data, pos, one) /\ Holds(data, pos + Len(one), b) BY <1>1, <1>2, HoldsBoth
<1>5. Len(one \o b) = Len(one) + Len(b) BY <1>1, Joined
<1> QED BY <1>1, <1>3, <1>4, <1>5, <1>6 DEF HeldTag

HeldHeader(data, pos, c, t, n, b, item) ==
    LET l == WriteVariableLength(n)
    IN  /\ OneAt(data, item, pos) = DecodeByTag(data, pos + 1, t, item)
        /\ Len(c) = (1 + Len(l)) + Len(b)
        /\ ReadVariableLength(data, pos + 1) = Got(n, (pos + 1) + Len(l))
        /\ Holds(data, (pos + 1) + Len(l), b)

LEMMA HeaderIsHeld ==
    ASSUME NEW data \in Seq(Byte), NEW pos \in Nat, NEW type \in Types,
           NEW n \in Nat, n < Huge, NEW b \in Seq(Byte), NEW item,
           Holds(data, pos, Header(type, n) \o b)
    PROVE  HeldHeader(data, pos, Header(type, n) \o b, TagOf[type], n, b, item)
<1> DEFINE t == TagOf[type]
           h == Header(type, n)
           l == WriteVariableLength(n)
           one == <<t>>
<1>1. t \in Byte BY TagIsByte
<1>2. l \in Seq(Byte) /\ Len(l) \in Nat
    <2>1. l \in Seq(Byte) BY LengthIsWritten
    <2> QED BY <2>1, LenIs
<1>3. h = one \o l BY DEF Header
<1>4. h \in Seq(Byte) /\ Len(h) = 1 + Len(l) BY HeaderIs
<1>5. Holds(data, pos, h \o b) OBVIOUS
<1>6. Holds(data, pos, one \o l) => HeldTag(data, pos, one \o l, t, l, item)
    BY <1>1, <1>2, TagIsHeld
<1>7. Holds(data, pos + 1, l) => ReadVariableLength(data, pos + 1) = Got(n, (pos + 1) + Len(l))
    <2>1. pos + 1 \in Nat OBVIOUS
    <2> QED BY <2>1, LengthIsRead
<1> HIDE DEF t, h, l, one
<1>8. Holds(data, pos, h) /\ Holds(data, pos + Len(h), b) BY <1>4, <1>5, HoldsBoth
<1>9. HeldTag(data, pos, h, t, l, item) BY <1>3, <1>6, <1>8
<1>10. /\ OneAt(data, item, pos) = DecodeByTag(data, pos + 1, t, item)
       /\ Holds(data, pos + 1, l)
    BY <1>9 DEF HeldTag
<1>11. Len(h \o b) = Len(h) + Len(b) BY <1>4, Joined
<1>12. pos + Len(h) = (pos + 1) + Len(l) BY <1>2, <1>4
<1> QED BY <1>4, <1>7, <1>8, <1>10, <1>11, <1>12 DEF HeldHeader, l, h, t

LEMMA FixedIsRead ==
    ASSUME NEW data \in Seq(Byte), NEW pos \in Nat, NEW v, NEW d \in Nat, IsValue(v, d),
           v.type \in Widths, NEW item, Holds(data, pos, <<TagOf[v.type]>> \o v.bytes)
    PROVE  OneAt(data, item, pos) =
              Got(Triple(ReadType(v.type), v.bytes, <<>>),
                  pos + Len(<<TagOf[v.type]>> \o v.bytes))
<1> DEFINE t == TagOf[v.type]
           b == v.bytes
           c == <<t>> \o b
           q == ReadType(v.type)
           r == OneAt(data, item, pos)
           a == ReadBytes(data, pos + 1, FixedWidth(t))
<1>1. b \in Seq(Byte) /\ FitsIs(v) BY FitsMeans DEF IsValue
<1>2. FixedTagIs(v.type, t) BY TagsOfWidths
<1>3. /\ t \in Byte /\ t \in FixedTags /\ FixedType(t) = q /\ FixedWidth(t) = Width[v.type]
      /\ q = "bool" <=> v.type = "bool"
    BY <1>2 DEF FixedTagIs
<1>4. Len(b) = FixedWidth(t) /\ (q = "bool" => b \in {<<0>>, <<1>>})
    BY <1>1, <1>3 DEF FitsIs
<1>5. HeldTag(data, pos, c, t, b, item) BY <1>1, <1>3, TagIsHeld
<1> HIDE DEF c, q, r, t, b
<1>6. r = DecodeByTag(data, pos + 1, t, item) /\ Len(c) = 1 + Len(b) /\ Holds(data, pos + 1, b)
    BY <1>5 DEF HeldTag, r
<1>7. ByTag(r, data, pos + 1, t, item) BY <1>6, ByTagIs
<1>8. r = DecodeFixed(data, pos + 1, t) BY <1>3, <1>7 DEF ByTag
<1>9. pos + 1 \in Nat OBVIOUS
<1>10. ReadBytes(data, pos + 1, Len(b)) = Got(b, (pos + 1) + Len(b)) BY <1>1, <1>6, <1>9, HeldIsRead
<1>11. a = Got(b, (pos + 1) + Len(b)) BY <1>4, <1>10
<1>12. r = IF ~a.ok THEN a ELSE Got(AsRead(FixedType(t), a.val), a.pos)
    BY <1>8 DEF DecodeFixed
<1> HIDE DEF a
<1>13. a.ok = TRUE /\ a.val = b /\ a.pos = (pos + 1) + Len(b) BY <1>11 DEF Got
<1>14. r = Got(AsRead(q, b), (pos + 1) + Len(b)) BY <1>3, <1>12, <1>13
<1>15. AsRead(q, b) = Triple(q, b, <<>>)
    <2>1. CASE q = "bool" /\ b # <<0>>
        <3>1. b = <<1>> BY <1>4, <2>1
        <3> QED BY <2>1, <3>1 DEF AsRead, Scalar, Triple
    <2>2. CASE ~(q = "bool" /\ b # <<0>>)
        BY <2>2 DEF AsRead, Scalar, Triple
    <2> QED BY <2>1, <2>2
<1>16. pos + Len(c) = (pos + 1) + Len(b)
    <2>1. Len(b) \in Nat BY <1>1, LenIs
    <2> QED BY <1>6, <2>1
<1> QED BY <1>14, <1>15, <1>16 DEF r, q, b, c, t

LEMMA EmptyIsRead ==
    ASSUME NEW data \in Seq(Byte), NEW pos \in Nat, NEW v, NEW d \in Nat, IsValue(v, d),
           v.type \in Empties, NEW item, Holds(data, pos, <<TagOf[v.type]>> \o v.bytes)
    PROVE  OneAt(data, item, pos) =
              Got(Triple(ReadType(v.type), v.bytes, <<>>),
                  pos + Len(<<TagOf[v.type]>> \o v.bytes))
<1> DEFINE t == TagOf[v.type]
           b == v.bytes
           c == <<t>> \o b
           q == ReadType(v.type)
           r == OneAt(data, item, pos)
<1>1. b \in Seq(Byte) /\ FitsIs(v) BY FitsMeans DEF IsValue
<1>3. t \in Byte /\ t \in EmptyTags /\ q = "none" BY OtherTags
<1>4. b = <<>> BY <1>1 DEF FitsIs
<1>5. HeldTag(data, pos, c, t, b, item) BY <1>1, <1>3, TagIsHeld
<1> HIDE DEF c, q, r, t, b
<1>6. r = DecodeByTag(data, pos + 1, t, item) /\ Len(c) = 1 + Len(b)
    BY <1>5 DEF HeldTag, r
<1>7. ByTag(r, data, pos + 1, t, item) BY <1>6, ByTagIs
<1>8. r = Got(None, pos + 1) BY <1>3, <1>7 DEF ByTag
<1>9. None = Triple(q, b, <<>>) BY <1>3, <1>4 DEF None, Scalar, Triple
<1>10. pos + Len(c) = pos + 1
    <2>1. Len(b) = 0 BY <1>4
    <2> QED BY <1>6, <2>1
<1> QED BY <1>8, <1>9, <1>10 DEF r, q, b, c, t

LEMMA SizedIsRead ==
    ASSUME NEW data \in Seq(Byte), NEW pos \in Nat, NEW v, NEW d \in Nat, IsValue(v, d),
           v.type \in Sizeds, NEW item, Holds(data, pos, Header(v.type, Len(v.bytes)) \o v.bytes)
    PROVE  OneAt(data, item, pos) =
              Got(Triple(ReadType(v.type), v.bytes, <<>>),
                  pos + Len(Header(v.type, Len(v.bytes)) \o v.bytes))
<1> DEFINE t == TagOf[v.type]
           b == v.bytes
           n == Len(b)
           c == Header(v.type, n) \o b
           q == ReadType(v.type)
           r == OneAt(data, item, pos)
           l == WriteVariableLength(n)
           count == ReadVariableLength(data, pos + 1)
           k == (pos + 1) + Len(l)
           a == ReadBytes(data, count.pos, count.val)
<1>1. b \in Seq(Byte) /\ FitsIs(v) BY FitsMeans DEF IsValue
<1>2. n \in Nat /\ n < Huge BY <1>1, LenIs DEF FitsIs
<1>3. t \in SizedTags /\ q = v.type /\ SizedType(t) = q /\ v.type \in Types BY OtherTags
<1>4. HeldHeader(data, pos, c, t, n, b, item) BY <1>1, <1>2, <1>3, HeaderIsHeld
<1>5. Len(l) \in Nat
    <2>1. l \in Seq(Byte) BY <1>2, LengthIsWritten
    <2> QED BY <2>1, LenIs
<1>16. n = Len(b) OBVIOUS
<1> HIDE DEF c, q, r, t, b, n
<1>6. /\ r = DecodeByTag(data, pos + 1, t, item) /\ Len(c) = (1 + Len(l)) + Len(b)
      /\ count = Got(n, k) /\ Holds(data, k, b)
    BY <1>4 DEF HeldHeader, r
<1>7. ByTag(r, data, pos + 1, t, item) BY <1>6, ByTagIs
<1>8. r = DecodeSized(data, pos + 1, q) BY <1>3, <1>7 DEF ByTag
<1>9. r = IF ~count.ok THEN count ELSE IF ~a.ok THEN a ELSE Got(Scalar(q, a.val), a.pos)
    BY <1>8 DEF DecodeSized
<1> HIDE DEF l
<1>10. k \in Nat BY <1>5
<1>11. ReadBytes(data, k, Len(b)) = Got(b, k + Len(b)) BY <1>1, <1>6, <1>10, HeldIsRead
<1> HIDE DEF count, k
<1>12. count.ok = TRUE /\ count.val = n /\ count.pos = k BY <1>6 DEF Got
<1>13. a = Got(b, k + n) BY <1>11, <1>12, <1>16
<1> HIDE DEF a
<1>14. a.ok = TRUE /\ a.val = b /\ a.pos = k + n BY <1>13 DEF Got
<1>15. r = Got(Triple(q, b, <<>>), k + n) BY <1>9, <1>12, <1>14 DEF Scalar, Triple
<1>17. pos + Len(c) = k + n
    <2> DEFINE x == Len(l)
    <2>1. x \in Nat /\ Len(c) = (1 + x) + n /\ k = (pos + 1) + x BY <1>5, <1>6, <1>16 DEF k
    <2> HIDE DEF x
    <2> QED BY <1>2, <2>1
<1> QED BY <1>15, <1>17 DEF r, q, b, c, n

(***************************************************************************)
(* What is written for an array or a structure is read of any data holding *)
(* it, when its items are.                                                 *)
(***************************************************************************)
ReadsItems(data, item, codes, vals) ==
    \A i \in 1 .. Len(codes) : \A p \in Nat :
        Holds(data, p, codes[i]) => item[p] = Got(vals[i], p + Len(codes[i]))

Coded(codes, vals) ==
    /\ codes \in Seq(Seq(Byte)) /\ Len(codes) = Len(vals)
    /\ \A i \in 1 .. Len(codes) : Len(codes[i]) >= 1

LEMMA ItemsAreRead ==
    ASSUME NEW data \in Seq(Byte), NEW V, NEW item \in [Nat -> Result(V)],
           NEW vals \in Seq(V), NEW codes, Coded(codes, vals),
           ReadsItems(data, item, codes, vals), NEW p \in Nat,
           Holds(data, p, FlattenSeq(codes)), NEW n, n = Len(vals)
    PROVE  ReadMany(data, item, n, p) = Got(vals, p + Len(FlattenSeq(codes)))
<1> DEFINE z == p + Len(FlattenSeq(codes))
<1>1. codes \in Seq(Seq(Byte)) /\ Len(codes) = n /\ \A i \in 1 .. n : Len(codes[i]) >= 1
    BY DEF Coded
<1>2. n \in Nat BY LenIs
<1>3. PICK e : Ends(e, data, p, codes) BY <1>1, EndsExist
<1>4. /\ e \in [Nat -> Nat] /\ e[0] = p /\ e[n] = z
      /\ \A i \in 1 .. n : Holds(data, e[i - 1], codes[i]) /\ e[i] = e[i - 1] + Len(codes[i])
    BY <1>1, <1>3 DEF Ends
<1> HIDE DEF z
<1>5. ASSUME NEW i \in 1 .. n
      PROVE  item[e[i - 1]] = Got(vals[i], e[i]) /\ e[i - 1] < Len(data)
    <2> DEFINE x == e[i - 1]
               c == codes[i]
               k == Len(c)
               m == Len(data)
    <2>1. x \in Nat
        <3>1. i - 1 \in Nat OBVIOUS
        <3> QED BY <1>4, <3>1
    <2>2. Holds(data, x, c) /\ e[i] = x + k /\ k >= 1 BY <1>1, <1>4
    <2>3. i \in 1 .. Len(codes) BY <1>1
    <2>4. item[x] = Got(vals[i], x + k) BY <2>1, <2>2, <2>3 DEF ReadsItems
    <2>5. c \in Seq(Byte) BY <1>1, <2>3, ElementType
    <2>6. k \in Nat /\ m \in Nat BY <2>5, LenIs
    <2>7. x + k <= m BY <2>2 DEF Holds
    <2> HIDE DEF x, k, m
    <2>8. x < m BY <2>1, <2>2, <2>6, <2>7
    <2> QED BY <2>2, <2>4, <2>8 DEF x, m
<1>6. Laid(item, vals, e) BY <1>5 DEF Laid
<1>7. \A i \in 1 .. Len(vals) : e[i - 1] < Len(data) BY <1>5
<1>8. n >= Len(vals) /\ n = Len(vals) BY <1>2
<1>9. ReadMany(data, item, n, e[0]) = Got(vals, e[Len(vals)])
    <2> HIDE <1>5
    <2> QED BY <1>2, <1>4, <1>6, <1>7, <1>8, ManyAreRead, ZenonT(60)
<1>10. ReadMany(data, item, n, p) = Got(vals, z) BY <1>4, <1>9
<1> QED BY <1>10 DEF z

LEMMA ReadGroup ==
    ASSUME NEW data, NEW pos, NEW t \in GroupTags, NEW item, NEW n, NEW k,
           ReadVariableLength(data, pos) = Got(n, k)
    PROVE  DecodeByTag(data, pos, t, item) =
              IF ReadMany(data, item, n, k).ok
              THEN Got(Triple(GroupType(t), <<>>, ReadMany(data, item, n, k).val),
                       ReadMany(data, item, n, k).pos)
              ELSE ReadMany(data, item, n, k)
<1> DEFINE count == ReadVariableLength(data, pos)
           items(x, y) == ReadMany(data, item, x, y)
           r == DecodeByTag(data, pos, t, item)
           T == GroupType(t)
<1>1. ByTag(r, data, pos, t, item) BY ByTagIs
<1>2. r = DecodeGroup(data, pos, T, item) BY <1>1 DEF ByTag
<1>3. r = IF ~count.ok THEN count
          ELSE IF ~items(count.val, count.pos).ok THEN items(count.val, count.pos)
          ELSE Got(Triple(T, <<>>, items(count.val, count.pos).val),
                   items(count.val, count.pos).pos)
    BY <1>2 DEF DecodeGroup, Group, Triple
<1>4. count = Got(n, k) OBVIOUS
<1> HIDE DEF count, r, items, T
<1>5. count.ok = TRUE /\ count.val = n /\ count.pos = k BY <1>4 DEF Got
<1>6. r = IF ~items(n, k).ok THEN items(n, k)
          ELSE Got(Triple(T, <<>>, items(n, k).val), items(n, k).pos)
    BY <1>3, <1>5
<1>7. r = IF items(n, k).ok THEN Got(Triple(T, <<>>, items(n, k).val), items(n, k).pos)
          ELSE items(n, k)
    BY <1>6
<1> QED BY <1>7 DEF r, items, T

LEMMA GroupIsRead ==
    ASSUME NEW data \in Seq(Byte), NEW pos \in Nat, NEW v, NEW d \in Nat, IsValue(v, d),
           v.type \in Groups, NEW V, NEW item \in [Nat -> Result(V)],
           NEW vals \in Seq(V), NEW codes, Coded(codes, vals), Len(vals) = Len(v.items),
           ReadsItems(data, item, codes, vals), Holds(data, pos, CodeOf(v, codes))
    PROVE  OneAt(data, item, pos) =
              Got(Triple(ReadType(v.type), v.bytes, vals), pos + Len(CodeOf(v, codes)))
<1> DEFINE t == TagOf[v.type]
           n == Len(v.items)
           b == FlattenSeq(codes)
           c == Header(v.type, n) \o b
           q == ReadType(v.type)
           r == OneAt(data, item, pos)
           l == WriteVariableLength(n)
           k == (pos + 1) + Len(l)
           m == ReadMany(data, item, n, k)
<1>1. FitsIs(v) /\ v.items \in Seq(Below(d)) BY FitsMeans DEF IsValue
<1>2. n \in Nat /\ n < Huge /\ v.bytes = <<>> BY <1>1, LenIs DEF FitsIs
<1>3. t \in GroupTags /\ q = v.type /\ GroupType(t) = q /\ v.type \in Types BY OtherTags
<1>4. CodeOf(v, codes) = c BY DEF CodeOf
<1>5. b \in Seq(Byte) BY FlatType DEF Coded
<1>6. Holds(data, pos, c) BY <1>4
<1> HIDE DEF b
<1>7. HeldHeader(data, pos, c, t, n, b, item) BY <1>2, <1>3, <1>5, <1>6, HeaderIsHeld
<1>8. Len(l) \in Nat
    <2>1. l \in Seq(Byte) BY <1>2, LengthIsWritten
    <2> QED BY <2>1, LenIs
<1>18. n = Len(vals) OBVIOUS
<1>9. /\ r = DecodeByTag(data, pos + 1, t, item) /\ Len(c) = (1 + Len(l)) + Len(b)
      /\ ReadVariableLength(data, pos + 1) = Got(n, k) /\ Holds(data, k, b)
    BY <1>7 DEF HeldHeader
<1>10. k \in Nat BY <1>8
<1> HIDE DEF c, q, r, t, n, l, k
<1>11. m = Got(vals, k + Len(b)) BY <1>2, <1>9, <1>10, <1>18, ItemsAreRead DEF b
<1>12. r = IF m.ok THEN Got(Triple(q, <<>>, m.val), m.pos) ELSE m BY <1>3, <1>9, ReadGroup
<1> HIDE DEF m
<1>13. m.ok = TRUE /\ m.val = vals /\ m.pos = k + Len(b) BY <1>11 DEF Got
<1>14. r = Got(Triple(q, v.bytes, vals), k + Len(b)) BY <1>2, <1>12, <1>13
<1>15. pos + Len(c) = k + Len(b)
    <2> DEFINE x == Len(l)
               y == Len(b)
    <2>1. x \in Nat /\ y \in Nat /\ Len(c) = (1 + x) + y /\ k = (pos + 1) + x
        BY <1>5, <1>8, <1>9, LenIs DEF k
    <2> HIDE DEF x, y
    <2>2. pos + Len(c) = k + y BY <2>1
    <2> QED BY <2>2 DEF y
<1> QED BY <1>4, <1>14, <1>15 DEF r, q

(***************************************************************************)
(* What is written for a value is read of any data holding it.             *)
(***************************************************************************)
EncodedAs(c, v, codes) ==
    /\ c = CodeOf(v, codes) /\ c \in Seq(Byte) /\ Len(c) \in Nat /\ Len(c) >= 1
    /\ v.type \in Groups => Len(c) >= 2 + Len(FlattenSeq(codes))

LEMMA EncodingOf ==
    ASSUME NEW d \in Nat, NEW v \in Value[d]
    PROVE  EncodedAs(Encoding[d][v], v, Mapped(v.items, Encoding[d - 1]))
<1> DEFINE g == Encoding[d - 1]
           m == Mapped(v.items, g)
           c == Encoding[d][v]
<1>1. EncodingAt(d) BY EncodingIs
<1>2. c = EncodedBy(v, g) /\ c \in Seq(Byte) /\ \A x \in Below(d) : g[x] \in Seq(Byte)
    BY <1>1 DEF EncodingAt, EncodingGood
<1>3. IsValue(v, d) BY ValueHas
<1> HIDE DEF g
<1>4. m \in Seq(Seq(Byte)) BY <1>2, <1>3, MappedIs DEF IsValue
<1>5. c = CodeOf(v, m) BY <1>2 DEF EncodedBy
<1> HIDE DEF c, m
<1>6. CodeIs(c, v, m) BY <1>3, <1>4, <1>5, CodeType
<1>7. Len(c) \in Nat BY <1>2, LenIs
<1>8. EncodedAs(c, v, m) BY <1>5, <1>6, <1>7 DEF CodeIs, EncodedAs
<1> QED BY <1>8 DEF c, m, g

BelowHas(x, d) == d - 1 \in Nat /\ x \in Value[d - 1]

LEMMA BelowMeans ==
    ASSUME NEW d \in Nat, NEW x \in Below(d)
    PROVE  BelowHas(x, d)
<1>1. d # 0 BY BelowIs
<1> QED BY <1>1 DEF Below, BelowHas

ItemsAs(codes, vals, s, d) ==
    /\ Coded(codes, vals) /\ vals \in Seq(Below(d)) /\ Len(vals) = Len(s)
    /\ \A i \in 1 .. Len(codes) :
          /\ s[i] \in Below(d)
          /\ codes[i] = Encoding[d - 1][s[i]]
          /\ vals[i] = AsDecoded[d - 1][s[i]]
          /\ Len(codes[i]) <= Len(FlattenSeq(codes))

LEMMA ItemsOf ==
    ASSUME NEW d \in Nat, NEW v, IsValue(v, d)
    PROVE  ItemsAs(Mapped(v.items, Encoding[d - 1]), Mapped(v.items, AsDecoded[d - 1]),
                   v.items, d)
<1> DEFINE g == Encoding[d - 1]
           h == AsDecoded[d - 1]
           s == v.items
           codes == Mapped(s, g)
           vals == Mapped(s, h)
           n == Len(s)
<1>1. s \in Seq(Below(d)) BY DEF IsValue
<1>2. \A x \in Below(d) : g[x] \in Seq(Byte) /\ h[x] \in Below(d)
    BY EncodingIs, AsDecodedIs DEF EncodingAt, EncodingGood, AsDecodedAt, AsDecodedGood
<1>3. ASSUME NEW x \in Below(d) PROVE Len(g[x]) >= 1
    <2>1. BelowHas(x, d) BY BelowMeans
    <2>2. EncodedAs(Encoding[d - 1][x], x, Mapped(x.items, Encoding[(d - 1) - 1]))
        BY <2>1, EncodingOf DEF BelowHas
    <2> QED BY <2>2 DEF EncodedAs
<1>11. g = Encoding[d - 1] /\ h = AsDecoded[d - 1] OBVIOUS
<1> HIDE DEF g, h, s
<1>4. codes \in Seq(Seq(Byte)) /\ Len(codes) = n
    <2> DEFINE S == Seq(Byte)
    <2>1. \A x \in Below(d) : g[x] \in S BY <1>2
    <2> HIDE DEF S
    <2>2. Mapped(s, g) \in Seq(S) /\ Len(Mapped(s, g)) = Len(s) BY <1>1, <2>1, MappedIs
    <2> QED BY <2>2 DEF S
<1>5. vals \in Seq(Below(d)) /\ Len(vals) = n BY <1>1, <1>2, MappedIs
<1>6. DOMAIN s = 1 .. n BY <1>1
<1>7. \A i \in 1 .. n : codes[i] = g[s[i]] /\ vals[i] = h[s[i]]
    BY <1>6 DEF Mapped
<1>8. \A i \in 1 .. n : s[i] \in Below(d) BY <1>1, ElementType
<1> HIDE DEF codes, vals, n
<1>9. PartsFit(codes) BY <1>4, PartsFitIn
<1>10. \A i \in 1 .. n : Len(codes[i]) <= Len(FlattenSeq(codes))
    BY <1>4, <1>9 DEF PartsFit
<1>12. Coded(codes, vals) BY <1>3, <1>4, <1>5, <1>7, <1>8 DEF Coded
<1>13. ItemsAs(codes, vals, s, d)
    BY <1>4, <1>5, <1>7, <1>8, <1>10, <1>11, <1>12 DEF ItemsAs, n
<1> QED BY <1>13 DEF codes, vals, s, g, h

ReadBack(x, k, f, data) ==
    \A n \in Nat : \A p \in Nat :
        Holds(data, p, Encoding[k][x]) /\ Len(Encoding[k][x]) <= n =>
            f[n][p] = Got(AsDecoded[k][x], p + Len(Encoding[k][x]))

LEMMA LayerReadBack ==
    ASSUME NEW data \in Seq(Byte), Len(data) < Huge, NEW f, Ones(f, data),
           NEW d \in Nat, \A x \in Below(d) : ReadBack(x, d - 1, f, data),
           NEW v \in Value[d]
    PROVE  ReadBack(v, d, f, data)
<1> DEFINE c == Encoding[d][v]
           codes == Mapped(v.items, Encoding[d - 1])
           vals == Mapped(v.items, AsDecoded[d - 1])
           w == Triple(ReadType(v.type), v.bytes, vals)
<1>1. IsValue(v, d) BY ValueHas
<1>2. EncodedAs(c, v, codes) BY EncodingOf
<1>3. ItemsAs(codes, vals, v.items, d) BY <1>1, ItemsOf
<1>4. AsDecoded[d][v] = w BY AsDecodedIs DEF AsDecodedAt, DecodedBy
<1>5. v.type \notin Groups => vals = <<>>
    <2>1. ASSUME v.type \notin Groups PROVE vals = <<>>
        <3>1. v.items = <<>> BY <1>1, <2>1, FitsMeans DEF IsValue, FitsIs
        <3> QED BY <3>1 DEF Mapped
    <2> QED BY <2>1
<1>6. CodeOf(v, codes) =
          IF v.type \in Groups THEN Header(v.type, Len(v.items)) \o FlattenSeq(codes)
          ELSE IF v.type \in Sizeds THEN Header(v.type, Len(v.bytes)) \o v.bytes
          ELSE <<TagOf[v.type]>> \o v.bytes
    BY DEF CodeOf
<1>7. v.type \in Types BY <1>1, TypesAre DEF IsValue
<1> HIDE DEF c, codes, vals
<1>8. SUFFICES ASSUME NEW n \in Nat, NEW p \in Nat, Holds(data, p, c), Len(c) <= n
               PROVE  f[n][p] = Got(w, p + Len(c))
    BY <1>4 DEF ReadBack, c
<1> DEFINE item == f[n - 1]
           r == f[n][p]
<1>9. n - 1 \in Nat
    <2>1. Len(c) >= 1 /\ Len(c) \in Nat BY <1>2 DEF EncodedAs
    <2> QED BY <1>8, <2>1
<1>10. r = OneAt(data, item, p) /\ item \in Readers(n - 1, data)
    <2>1. f[(n - 1) + 1][p] = OneAt(data, f[n - 1], p) BY <1>9 DEF Ones
    <2>2. (n - 1) + 1 = n OBVIOUS
    <2> QED BY <1>9, <2>1, <2>2 DEF Ones
<1>11. c = CodeOf(v, codes) BY <1>2 DEF EncodedAs
<1>12. CASE v.type \in Groups
    <2> DEFINE A == Below(n - 1)
               B == Below(d)
               V == A \union B
    <2>1. item \in [Nat -> Result(A)] BY <1>10 DEF Readers
    <2>2. Coded(codes, vals) /\ vals \in Seq(B) /\ Len(vals) = Len(v.items)
        BY <1>3 DEF ItemsAs
    <2>3. ReadsItems(data, item, codes, vals)
        <3> SUFFICES ASSUME NEW i \in 1 .. Len(codes), NEW q \in Nat,
                            Holds(data, q, codes[i])
                     PROVE  item[q] = Got(vals[i], q + Len(codes[i]))
            BY DEF ReadsItems
        <3> DEFINE x == v.items[i]
        <3>1. /\ x \in Below(d) /\ codes[i] = Encoding[d - 1][x]
              /\ vals[i] = AsDecoded[d - 1][x]
              /\ Len(codes[i]) <= Len(FlattenSeq(codes))
            BY <1>3 DEF ItemsAs
        <3>2. ReadBack(x, d - 1, f, data) BY <3>1
        <3>3. Len(c) >= 2 + Len(FlattenSeq(codes)) BY <1>2, <1>12 DEF EncodedAs
        <3>4. Len(codes[i]) <= n - 1
            <4> DEFINE y == Len(codes[i])
                       z == Len(FlattenSeq(codes))
                       l == Len(c)
            <4>1. codes \in Seq(Seq(Byte)) BY <2>2 DEF Coded
            <4>2. codes[i] \in Seq(Byte) /\ FlattenSeq(codes) \in Seq(Byte)
                BY <4>1, ElementType, FlatType
            <4>3. y \in Nat /\ z \in Nat /\ l \in Nat BY <1>2, <4>2, LenIs DEF EncodedAs
            <4>4. y <= z /\ l >= 2 + z /\ l <= n BY <1>8, <3>1, <3>3
            <4> HIDE DEF y, z, l
            <4>5. y <= n - 1 BY <4>3, <4>4
            <4> QED BY <4>5 DEF y
        <3> HIDE DEF x
        <3>5. Holds(data, q, Encoding[d - 1][x]) /\ Len(Encoding[d - 1][x]) <= n - 1
            BY <3>1, <3>4
        <3>6. f[n - 1][q] = Got(AsDecoded[d - 1][x], q + Len(Encoding[d - 1][x]))
            BY <1>9, <3>2, <3>5 DEF ReadBack
        <3> QED BY <3>1, <3>6
    <2> HIDE DEF A, B
    <2>4. item \in [Nat -> Result(V)]
        <3>1. Result(A) \subseteq Result(V) BY DEF Result
        <3> DEFINE RA == Result(A)
                   RV == Result(V)
        <3>2. RA \subseteq RV /\ item \in [Nat -> RA] BY <2>1, <3>1
        <3> HIDE DEF RA, RV, item
        <3>3. item \in [Nat -> RV] BY <3>2
        <3> QED BY <3>3 DEF RV
    <2>5. vals \in Seq(V) BY <2>2, SeqOfMore
    <2> HIDE DEF V
    <2>6. Holds(data, p, CodeOf(v, codes)) BY <1>8, <1>11
    <2> HIDE DEF item
    <2>7. OneAt(data, item, p) = Got(w, p + Len(CodeOf(v, codes)))
        BY <1>1, <1>12, <2>2, <2>3, <2>4, <2>5, <2>6, GroupIsRead
    <2> QED BY <1>10, <1>11, <2>7
<1>13. CASE v.type \in Sizeds
    <2>1. v.type \notin Groups BY <1>13, OtherTags
    <2>2. c = Header(v.type, Len(v.bytes)) \o v.bytes BY <1>6, <1>11, <1>13, <2>1
    <2>3. w = Triple(ReadType(v.type), v.bytes, <<>>) BY <1>5, <2>1
    <2> HIDE DEF w, item
    <2> QED BY <1>1, <1>8, <1>10, <1>13, <2>2, <2>3, SizedIsRead
<1>14. CASE v.type \in Widths \union Empties
    <2>1. v.type \notin Groups /\ v.type \notin Sizeds
        <3>1. CASE v.type \in Widths
            <4>1. FixedTagIs(v.type, TagOf[v.type]) BY <3>1, TagsOfWidths
            <4> QED BY <4>1 DEF FixedTagIs
        <3>2. CASE v.type \in Empties BY <3>2, OtherTags
        <3> QED BY <1>14, <3>1, <3>2
    <2>2. c = <<TagOf[v.type]>> \o v.bytes BY <1>6, <1>11, <2>1
    <2>3. w = Triple(ReadType(v.type), v.bytes, <<>>) BY <1>5, <2>1
    <2> HIDE DEF w, item
    <2>4. CASE v.type \in Widths
        BY <1>1, <1>8, <1>10, <2>2, <2>3, <2>4, FixedIsRead
    <2>5. CASE v.type \in Empties
        BY <1>1, <1>8, <1>10, <2>2, <2>3, <2>5, EmptyIsRead
    <2> QED BY <1>14, <2>4, <2>5
<1> QED BY <1>7, <1>12, <1>13, <1>14 DEF Types

LEMMA ValuesReadBack ==
    ASSUME NEW data \in Seq(Byte), Len(data) < Huge, NEW f, Ones(f, data)
    PROVE  \A d \in Nat : \A v \in Value[d] : ReadBack(v, d, f, data)
<1> DEFINE T == {d \in Nat : \A v \in Value[d] : ReadBack(v, d, f, data)}
<1>1. 0 \in T
    <2>1. \A x \in Below(0) : ReadBack(x, 0 - 1, f, data) BY BelowIs
    <2> QED BY <2>1, LayerReadBack
<1>2. ASSUME NEW d \in Nat, d \in T PROVE d + 1 \in T
    <2>1. d + 1 \in Nat /\ (d + 1) - 1 = d /\ Below(d + 1) = Value[d] BY BelowIs
    <2>2. \A x \in Below(d + 1) : ReadBack(x, (d + 1) - 1, f, data) BY <1>2, <2>1
    <2> QED BY <2>1, <2>2, LayerReadBack
<1> HIDE DEF T
<1>3. Nat \subseteq T BY <1>1, <1>2, NatSetInduction
<1> QED BY <1>3 DEF T

(***************************************************************************)
(* What is read of data that is cut, of a value without items, is what is  *)
(* read of the whole.                                                      *)
(***************************************************************************)
LEMMA TagOnCut ==
    ASSUME NEW data \in Seq(Byte), NEW part \in Seq(Byte), CutTo(part, data),
           NEW pos \in Nat, NEW t \in Byte, NEW item, Holds(data, pos, <<t>>),
           OneAt(part, item, pos).ok
    PROVE  OneAt(part, item, pos) = DecodeByTag(part, pos + 1, t, item)
<1> DEFINE one == <<t>>
           a == ReadBytes(part, pos, 1)
           r == OneAt(part, item, pos)
<1>1. one \in Seq(Byte) /\ Len(one) = 1 /\ one[1] = t OBVIOUS
<1>2. Holds(data, pos, one) /\ r.ok OBVIOUS
<1>3. r = IF ~a.ok THEN Error("BufferUnderflow") ELSE DecodeByTag(part, a.pos, a.val[1], item)
    BY DEF OneAt
<1>4. a.ok => ReadBytes(data, pos, 1) = a BY ReadBytesOnCut
<1> HIDE DEF one, r, a
<1>5. ReadBytes(data, pos, Len(one)) = Got(one, pos + Len(one)) BY <1>1, <1>2, HeldIsRead
<1>6. a.ok BY <1>2, <1>3, ErrorIs
<1>7. a = Got(one, pos + 1) BY <1>1, <1>4, <1>5, <1>6
<1>8. a.val = one /\ a.pos = pos + 1 BY <1>7 DEF Got
<1> QED BY <1>1, <1>3, <1>6, <1>8 DEF r

LEMMA FixedOnCut ==
    ASSUME NEW data \in Seq(Byte), NEW part \in Seq(Byte), CutTo(part, data),
           NEW pos \in Nat, NEW t \in FixedTags, DecodeFixed(part, pos, t).ok
    PROVE  DecodeFixed(data, pos, t) = DecodeFixed(part, pos, t)
<1> DEFINE w == FixedWidth(t)
           a == ReadBytes(part, pos, w)
           b == ReadBytes(data, pos, w)
           T == FixedType(t)
           r == DecodeFixed(part, pos, t)
           s == DecodeFixed(data, pos, t)
<1>1. ReadAsFixed(t, T, w) BY FixedTagsRead
<1>2. w \in Nat BY <1>1 DEF ReadAsFixed
<1>3. /\ r = IF ~a.ok THEN a ELSE Got(AsRead(T, a.val), a.pos)
      /\ s = IF ~b.ok THEN b ELSE Got(AsRead(T, b.val), b.pos)
      /\ r.ok
    BY DEF DecodeFixed
<1>4. a.ok => b = a BY <1>2, ReadBytesOnCut
<1> HIDE DEF a, b, r, s, T
<1>5. a.ok BY <1>3
<1> QED BY <1>3, <1>4, <1>5 DEF r, s

LEMMA SizedOnCut ==
    ASSUME NEW data \in Seq(Byte), NEW part \in Seq(Byte), CutTo(part, data),
           NEW pos \in Nat, NEW T, DecodeSized(part, pos, T).ok
    PROVE  DecodeSized(data, pos, T) = DecodeSized(part, pos, T)
<1> DEFINE l == ReadVariableLength(part, pos)
           k == ReadVariableLength(data, pos)
           a(p, n) == ReadBytes(part, p, n)
           b(p, n) == ReadBytes(data, p, n)
           r == DecodeSized(part, pos, T)
           s == DecodeSized(data, pos, T)
<1>1. /\ r = IF ~l.ok THEN l ELSE IF ~a(l.pos, l.val).ok THEN a(l.pos, l.val)
             ELSE Got(Scalar(T, a(l.pos, l.val).val), a(l.pos, l.val).pos)
      /\ s = IF ~k.ok THEN k ELSE IF ~b(k.pos, k.val).ok THEN b(k.pos, k.val)
             ELSE Got(Scalar(T, b(k.pos, k.val).val), b(k.pos, k.val).pos)
      /\ r.ok
    BY DEF DecodeSized
<1>2. l.ok => k = l BY LengthOnCut
<1>3. LengthWasRead(l, part, pos) BY LengthType
<1>4. \A p \in Nat, n \in Nat : a(p, n).ok => b(p, n) = a(p, n) BY ReadBytesOnCut
<1> HIDE DEF a, b, r, s, l, k
<1>5. l.ok BY <1>1
<1>6. l.pos \in Nat /\ l.val \in Nat
    <2>1. l \in Result(Size) BY <1>3 DEF LengthWasRead
    <2>2. l.val \in Size /\ l.pos \in Nat BY <1>5, <2>1, ResultIs
    <2> QED BY <2>2 DEF Size
<1>7. a(l.pos, l.val).ok BY <1>1, <1>5
<1>8. b(l.pos, l.val) = a(l.pos, l.val) BY <1>4, <1>6, <1>7
<1> QED BY <1>1, <1>2, <1>5, <1>7, <1>8 DEF r, s

LEMMA PlainOnCut ==
    ASSUME NEW data \in Seq(Byte), NEW part \in Seq(Byte), CutTo(part, data),
           NEW pos \in Nat, NEW t, t \notin GroupTags, NEW item,
           DecodeByTag(part, pos, t, item).ok
    PROVE  DecodeByTag(data, pos, t, item) = DecodeByTag(part, pos, t, item)
<1> DEFINE r == DecodeByTag(part, pos, t, item)
           s == DecodeByTag(data, pos, t, item)
<1>1. ByTag(r, part, pos, t, item) /\ ByTag(s, data, pos, t, item) BY ByTagIs
<1>2. r.ok OBVIOUS
<1> HIDE DEF r, s
<1>3. CASE t \in EmptyTags
    <2>1. r = Got(None, pos) /\ s = Got(None, pos) BY <1>1, <1>3 DEF ByTag
    <2> QED BY <2>1 DEF r, s
<1>4. CASE t \in FixedTags
    <2>1. r = DecodeFixed(part, pos, t) /\ s = DecodeFixed(data, pos, t)
        BY <1>1, <1>4 DEF ByTag
    <2>2. DecodeFixed(data, pos, t) = DecodeFixed(part, pos, t)
        BY <1>2, <1>4, <2>1, FixedOnCut
    <2> QED BY <2>1, <2>2 DEF r, s
<1>5. CASE t \in SizedTags
    <2>1. r = DecodeSized(part, pos, SizedType(t)) /\ s = DecodeSized(data, pos, SizedType(t))
        BY <1>1, <1>5 DEF ByTag
    <2>2. DecodeSized(data, pos, SizedType(t)) = DecodeSized(part, pos, SizedType(t))
        BY <1>2, <2>1, SizedOnCut
    <2> QED BY <2>1, <2>2 DEF r, s
<1>6. CASE r = Error("InvalidTag") BY <1>2, <1>6, ErrorIs
<1> QED BY <1>1, <1>3, <1>4, <1>5, <1>6 DEF ByTag

(***************************************************************************)
(* A group that is read of data that is cut: its count is that of the      *)
(* whole.                                                                  *)
(***************************************************************************)
GroupOnCutIs(r, part, t, item, n, k) ==
    LET m == ReadMany(part, item, n, k)
    IN  m.ok /\ r = Got(Triple(GroupType(t), <<>>, m.val), m.pos)

LEMMA GroupOnCut ==
    ASSUME NEW data \in Seq(Byte), NEW part \in Seq(Byte), CutTo(part, data),
           NEW pos \in Nat, NEW t \in GroupTags, NEW item, NEW n, NEW k,
           ReadVariableLength(data, pos) = Got(n, k), DecodeByTag(part, pos, t, item).ok
    PROVE  GroupOnCutIs(DecodeByTag(part, pos, t, item), part, t, item, n, k)
<1> DEFINE l == ReadVariableLength(part, pos)
           r == DecodeByTag(part, pos, t, item)
           m == ReadMany(part, item, n, k)
           T == GroupType(t)
<1>1. ByTag(r, part, pos, t, item) BY ByTagIs
<1>2. r = DecodeGroup(part, pos, T, item) BY <1>1 DEF ByTag
<1>3. ~l.ok => r = l BY <1>2 DEF DecodeGroup
<1>4. r.ok OBVIOUS
<1>5. l.ok BY <1>3, <1>4
<1>6. l = Got(n, k) BY <1>5, LengthOnCut
<1>7. r = IF m.ok THEN Got(Triple(T, <<>>, m.val), m.pos) ELSE m BY <1>6, ReadGroup
<1> HIDE DEF r, m, T
<1>8. m.ok BY <1>4, <1>7
<1> QED BY <1>7, <1>8 DEF GroupOnCutIs, r, m, T

(***************************************************************************)
(* Of a value that is cut, nothing is read, or a value cut between two of  *)
(* its items.                                                              *)
(***************************************************************************)
CutPairs(d) == {x \in Value[d] \X Value[d] : CutOf[d][x]}

LEMMA CutPairsHave ==
    ASSUME NEW d, NEW x, NEW y, <<x, y>> \in CutPairs(d)
    PROVE  x \in Value[d] /\ y \in Value[d] /\ CutOf[d][<<x, y>>]
<1> DEFINE V == Value[d]
           g == CutOf[d]
<1>1. <<x, y>> \in {z \in V \X V : g[z]} BY DEF CutPairs
<1> HIDE DEF V, g
<1>2. x \in V /\ y \in V /\ g[<<x, y>>] BY <1>1
<1> QED BY <1>2 DEF V, g

LEMMA CutIsCut ==
    ASSUME NEW d \in Nat, NEW type \in Groups, NEW vals \in Seq(Below(d)),
           NEW V, NEW s \in Seq(V), Triple(type, <<>>, vals) \in Value[d],
           Fits(Triple(type, <<>>, s)), Len(s) <= Len(vals),
           \A i \in 1 .. Len(s) - 1 : s[i] = vals[i],
           Len(s) > 0 => \/ s[Len(s)] = vals[Len(s)]
                         \/ <<s[Len(s)], vals[Len(s)]>> \in CutPairs(d - 1)
    PROVE  <<Triple(type, <<>>, s), Triple(type, <<>>, vals)>> \in CutPairs(d)
<1> DEFINE l == Len(s)
           v == Triple(type, <<>>, s)
           w == Triple(type, <<>>, vals)
           g == CutOf[d - 1]
           C == CutPairs(d - 1)
           B == Below(d)
<1>1. l \in Nat /\ Len(vals) \in Nat BY LenIs
<1>2. v.type = type /\ v.items = s /\ w.type = type /\ w.items = vals BY TripleIs
<1>3. ASSUME NEW i \in 1 .. l PROVE s[i] \in B
    <2>1. i \in 1 .. Len(vals) BY <1>1
    <2>2. vals[i] \in B BY <2>1, ElementType
    <2>3. CASE i = l
        <3>1. l > 0 BY <1>1, <2>3
        <3>2. s[l] = vals[l] \/ <<s[l], vals[l]>> \in C BY <3>1
        <3>3. CASE s[l] = vals[l] BY <2>2, <2>3, <3>3
        <3>4. CASE <<s[l], vals[l]>> \in C
            <4>1. s[l] \in Value[d - 1] BY <3>4, CutPairsHave
            <4>2. d # 0 BY <2>2, BelowIs
            <4> QED BY <2>3, <4>1, <4>2 DEF Below
        <3> QED BY <3>2, <3>3, <3>4
    <2>4. CASE i # l
        <3>1. i \in 1 .. l - 1 BY <1>1, <2>4
        <3> QED BY <2>2, <3>1
    <2> QED BY <2>3, <2>4
<1>4. s \in Seq(B) BY <1>3, SeqFrom
<1>5. v \in Value[d]
    <2>1. type \in Types BY OtherTags
    <2>2. type \in DOMAIN TagOf BY <2>1, TypesAre
    <2>3. <<>> \in Seq(Byte) OBVIOUS
    <2> QED BY <1>4, <2>2, <2>3, ValueFrom
<1>6. l > 0 => s[l] = vals[l] \/ g[<<s[l], vals[l]>>]
    <2>1. l > 0 => s[l] = vals[l] \/ <<s[l], vals[l]>> \in C OBVIOUS
    <2>2. <<s[l], vals[l]>> \in C => g[<<s[l], vals[l]>>] BY CutPairsHave
    <2> QED BY <2>1, <2>2
<1>7. l <= Len(vals) /\ \A i \in 1 .. l - 1 : s[i] = vals[i] OBVIOUS
<1>8. w \in Value[d] OBVIOUS
<1> HIDE DEF v, w, g
<1>9. CutBy(v, w, g) BY <1>2, <1>6, <1>7 DEF CutBy
<1>10. CutOf[d][<<v, w>>] BY <1>5, <1>8, <1>9, CutOfIs DEF g
<1>11. <<v, w>> \in CutPairs(d)
    <2> DEFINE D == Value[d]
               h == CutOf[d]
    <2>1. v \in D /\ w \in D /\ h[<<v, w>>] BY <1>5, <1>8, <1>10
    <2> HIDE DEF D, h
    <2>2. <<v, w>> \in {z \in D \X D : h[z]} BY <2>1
    <2> QED BY <2>2 DEF D, h, CutPairs
<1> QED BY <1>11 DEF v, w

CutBack(x, k, f, part, data) ==
    \A n \in Nat : \A p \in Nat :
        Holds(data, p, Encoding[k][x]) =>
            ItemCut(f[n][p], part, AsDecoded[k][x], p + Len(Encoding[k][x]), CutPairs(k))

LEMMA ItemsOnCut ==
    ASSUME NEW data \in Seq(Byte), NEW part \in Seq(Byte), NEW f, NEW d \in Nat,
           \A x \in Below(d) : CutBack(x, d - 1, f, part, data),
           NEW s, NEW codes, NEW vals, ItemsAs(codes, vals, s, d),
           NEW n \in Nat, NEW e, NEW p \in Nat, Ends(e, data, p, codes)
    PROVE  LaidCut(f[n], part, vals, e, CutPairs(d - 1))
<1> DEFINE C == CutPairs(d - 1)
           item == f[n]
<1> SUFFICES ASSUME NEW i \in 1 .. Len(vals)
             PROVE  ItemCut(item[e[i - 1]], part, vals[i], e[i], C)
    BY DEF LaidCut
<1>1. Len(codes) = Len(vals) BY DEF ItemsAs, Coded
<1>2. i \in 1 .. Len(codes) BY <1>1
<1> DEFINE x == s[i]
           q == e[i - 1]
<1>3. x \in Below(d) /\ codes[i] = Encoding[d - 1][x] /\ vals[i] = AsDecoded[d - 1][x]
    BY <1>2 DEF ItemsAs
<1>4. Holds(data, q, codes[i]) /\ e[i] = q + Len(codes[i]) BY <1>2 DEF Ends
<1>5. q \in Nat
    <2>1. e \in [Nat -> Nat] BY DEF Ends
    <2>2. i - 1 \in Nat OBVIOUS
    <2> QED BY <2>1, <2>2
<1>6. CutBack(x, d - 1, f, part, data) BY <1>3
<1> HIDE DEF x, q, C
<1>7. ItemCut(f[n][q], part, AsDecoded[d - 1][x], q + Len(Encoding[d - 1][x]), C)
    BY <1>3, <1>4, <1>5, <1>6 DEF CutBack, C
<1> QED BY <1>3, <1>4, <1>7 DEF q

PlainHeld(data, pos, v, c, item) ==
    /\ OneAt(data, item, pos) =
          Got(Triple(ReadType(v.type), v.bytes, <<>>), pos + Len(c))
    /\ Holds(data, pos, <<TagOf[v.type]>>) /\ TagOf[v.type] \notin GroupTags

LEMMA PlainTagsAlone ==
    ASSUME NEW t, t \in FixedTags \/ t \in EmptyTags \/ t \in SizedTags
    PROVE  t \notin GroupTags
BY DEF FixedTags, EmptyTags, SizedTags, GroupTags

LEMMA SizedOneIs ==
    ASSUME NEW data \in Seq(Byte), NEW pos \in Nat, NEW v, NEW d \in Nat, IsValue(v, d),
           v.type \in Sizeds, NEW codes, NEW item, Holds(data, pos, CodeOf(v, codes))
    PROVE  OneAt(data, item, pos) =
              Got(Triple(ReadType(v.type), v.bytes, <<>>), pos + Len(CodeOf(v, codes)))
<1>1. CodeOf(v, codes) = Header(v.type, Len(v.bytes)) \o v.bytes
    <2>1. v.type \notin Groups BY DEF Sizeds, Groups
    <2> QED BY <2>1 DEF CodeOf
<1>2. Holds(data, pos, Header(v.type, Len(v.bytes)) \o v.bytes) BY <1>1
<1>3. OneAt(data, item, pos) = Got(Triple(ReadType(v.type), v.bytes, <<>>),
                                   pos + Len(Header(v.type, Len(v.bytes)) \o v.bytes))
    BY <1>2, SizedIsRead
<1> QED BY <1>1, <1>3

LEMMA PlainIsHeld ==
    ASSUME NEW data \in Seq(Byte), NEW pos \in Nat, NEW v, NEW d \in Nat, IsValue(v, d),
           v.type \notin Groups, NEW codes, NEW item, Holds(data, pos, CodeOf(v, codes))
    PROVE  PlainHeld(data, pos, v, CodeOf(v, codes), item)
<1> DEFINE t == TagOf[v.type]
           b == v.bytes
           one == <<t>>
<1>1. v.type \in Types /\ b \in Seq(Byte) /\ FitsIs(v)
    BY TypesAre, FitsMeans DEF IsValue
<1>2. one \in Seq(Byte)
    <2>1. t \in Byte BY <1>1, TagIsByte
    <2> QED BY <2>1
<1>3. CASE v.type \in Sizeds
    <2> DEFINE n == Len(b)
               h == Header(v.type, n)
               l == WriteVariableLength(n)
    <2>1. CodeOf(v, codes) = Header(v.type, Len(v.bytes)) \o v.bytes BY <1>3 DEF CodeOf
    <2>2. OneAt(data, item, pos) =
              Got(Triple(ReadType(v.type), v.bytes, <<>>), pos + Len(CodeOf(v, codes)))
        BY <1>3, SizedOneIs
    <2>3. n \in Nat /\ n < Huge BY <1>1, LenIs DEF FitsIs
    <2>4. h \in Seq(Byte) /\ l \in Seq(Byte) /\ h = one \o l
        BY <1>1, <2>3, HeaderIs, LengthIsWritten DEF Header
    <2>5. Holds(data, pos, h \o b) BY <2>1
    <2>6. t \in SizedTags BY <1>3, OtherTags
    <2> HIDE DEF h, l, one, b, t, n
    <2>7. t \notin GroupTags BY <2>6 DEF SizedTags, GroupTags
    <2>8. Holds(data, pos, h) BY <1>1, <2>4, <2>5, HoldsBoth
    <2>9. Holds(data, pos, one) BY <1>2, <2>4, <2>8, HoldsBoth
    <2> QED BY <2>2, <2>7, <2>9 DEF PlainHeld, one, t
<1>4. CASE v.type \notin Sizeds
    <2>1. CodeOf(v, codes) = <<TagOf[v.type]>> \o v.bytes BY <1>4 DEF CodeOf
    <2>2. v.type \in Widths \/ v.type \in Empties BY <1>1, <1>4 DEF Types
    <2>3. t \in FixedTags \/ t \in EmptyTags
        <3>1. CASE v.type \in Widths
            <4>1. FixedTagIs(v.type, t) BY <3>1, TagsOfWidths
            <4> QED BY <4>1 DEF FixedTagIs
        <3>2. CASE v.type \in Empties BY <3>2, OtherTags
        <3> QED BY <2>2, <3>1, <3>2
    <2>4. Holds(data, pos, <<TagOf[v.type]>> \o v.bytes) BY <2>1
    <2>5. OneAt(data, item, pos) =
              Got(Triple(ReadType(v.type), v.bytes, <<>>), pos + Len(<<TagOf[v.type]>> \o v.bytes))
        BY <2>2, <2>4, FixedIsRead, EmptyIsRead
    <2>6. OneAt(data, item, pos) =
              Got(Triple(ReadType(v.type), v.bytes, <<>>), pos + Len(CodeOf(v, codes)))
        BY <2>1, <2>5
    <2>7. Holds(data, pos, one \o b) BY <2>4
    <2> HIDE DEF one, b, t
    <2>8. t \notin GroupTags BY <2>3, PlainTagsAlone
    <2>9. Holds(data, pos, one) BY <1>1, <1>2, <2>7, HoldsBoth
    <2> QED BY <2>6, <2>8, <2>9 DEF PlainHeld, one, t
<1> QED BY <1>3, <1>4

LEMMA LayerCutBack ==
    ASSUME NEW data \in Seq(Byte), NEW part \in Seq(Byte), CutTo(part, data),
           Len(part) < Huge, NEW f, Ones(f, part),
           NEW d \in Nat, \A x \in Below(d) : CutBack(x, d - 1, f, part, data),
           NEW v \in Value[d]
    PROVE  CutBack(v, d, f, part, data)
<1> DEFINE c == Encoding[d][v]
           codes == Mapped(v.items, Encoding[d - 1])
           vals == Mapped(v.items, AsDecoded[d - 1])
           w == Triple(ReadType(v.type), v.bytes, vals)
           C == CutPairs(d)
           D == CutPairs(d - 1)
<1>1. IsValue(v, d) BY ValueHas
<1>2. EncodedAs(c, v, codes) BY EncodingOf
<1>3. ItemsAs(codes, vals, v.items, d) BY <1>1, ItemsOf
<1>4. AsDecoded[d][v] = w /\ w \in Value[d] BY AsDecodedIs DEF AsDecodedAt, DecodedBy
<1>5. v.type \notin Groups => vals = <<>>
    <2>1. ASSUME v.type \notin Groups PROVE vals = <<>>
        <3>1. v.items = <<>> BY <1>1, <2>1, FitsMeans DEF IsValue, FitsIs
        <3> QED BY <3>1 DEF Mapped
    <2> QED BY <2>1
<1>6. CodeOf(v, codes) =
          IF v.type \in Groups THEN Header(v.type, Len(v.items)) \o FlattenSeq(codes)
          ELSE IF v.type \in Sizeds THEN Header(v.type, Len(v.bytes)) \o v.bytes
          ELSE <<TagOf[v.type]>> \o v.bytes
    BY DEF CodeOf
<1>7. v.type \in Types /\ FitsIs(v) BY <1>1, TypesAre, FitsMeans DEF IsValue
<1> HIDE DEF c, codes, vals, C, D
<1>8. SUFFICES ASSUME NEW n \in Nat, NEW p \in Nat, Holds(data, p, c), f[n][p].ok
               PROVE  ItemCut(f[n][p], part, w, p + Len(c), C)
    BY <1>4 DEF CutBack, ItemCut, c, C
<1> DEFINE item == f[n - 1]
           r == f[n][p]
           t == TagOf[v.type]
<1>9. n - 1 \in Nat
    <2>1. CASE n = 0
        <3>1. f[0][p] = Error("BufferUnderflow") BY DEF Ones
        <3> QED BY <1>8, <2>1, <3>1, ErrorIs
    <2>2. CASE n # 0 BY <2>2
    <2> QED BY <2>1, <2>2
<1>10. r = OneAt(part, item, p) /\ item \in Readers(n - 1, part)
    <2>1. f[(n - 1) + 1][p] = OneAt(part, f[n - 1], p) BY <1>9 DEF Ones
    <2>2. (n - 1) + 1 = n OBVIOUS
    <2> QED BY <1>9, <2>1, <2>2 DEF Ones
<1>11. c = CodeOf(v, codes) BY <1>2 DEF EncodedAs
<1>12. t \in Byte BY <1>7, TagIsByte
<1>13. r.ok BY <1>8
<1>21. r = f[n][p] OBVIOUS
<1>14. CASE v.type \notin Groups
    <2>1. w = Triple(ReadType(v.type), v.bytes, <<>>) BY <1>5, <1>14
    <2> HIDE DEF w, item, r
    <2>8. Holds(data, p, CodeOf(v, codes)) BY <1>8, <1>11
    <2>9. PlainHeld(data, p, v, CodeOf(v, codes), item) BY <1>1, <1>14, <2>8, PlainIsHeld
    <2>2. OneAt(data, item, p) = Got(w, p + Len(c)) /\ Holds(data, p, <<t>>) /\ t \notin GroupTags
        BY <1>11, <2>1, <2>9 DEF PlainHeld
    <2> HIDE DEF t
    <2>3. OneAt(part, item, p) = DecodeByTag(part, p + 1, t, item)
        BY <1>10, <1>12, <1>13, <2>2, TagOnCut
    <2>4. OneAt(data, item, p) = DecodeByTag(data, p + 1, t, item)
        BY <1>12, <2>2, TagIsRead
    <2>5. p + 1 \in Nat OBVIOUS
    <2>6. DecodeByTag(data, p + 1, t, item) = DecodeByTag(part, p + 1, t, item)
        BY <1>10, <1>13, <2>2, <2>3, <2>5, PlainOnCut
    <2>7. r = Got(w, p + Len(c)) BY <1>10, <2>2, <2>3, <2>4, <2>6
    <2> QED BY <2>7 DEF ItemCut, r
<1>15. CASE v.type \in Groups
    <2> DEFINE b == FlattenSeq(codes)
               N == Len(v.items)
               h == Header(v.type, N)
               l == WriteVariableLength(N)
               one == <<t>>
               k == (p + 1) + Len(l)
    <2>1. c = h \o b BY <1>6, <1>11, <1>15
    <2>2. codes \in Seq(Seq(Byte)) /\ Len(codes) = Len(vals) /\ vals \in Seq(Below(d))
          /\ Len(vals) = N
        BY <1>3 DEF ItemsAs, Coded
    <2>3. b \in Seq(Byte) BY <2>2, FlatType
    <2>4. N \in Nat /\ N < Huge BY <1>7, <2>2, LenIs DEF FitsIs
    <2>5. h \in Seq(Byte) /\ l \in Seq(Byte) /\ one \in Seq(Byte) /\ h = one \o l
        BY <1>7, <1>12, <2>4, HeaderIs, LengthIsWritten DEF Header
    <2>6. HeldHeader(data, p, h \o b, t, N, b, item)
        BY <1>7, <1>8, <2>1, <2>3, <2>4, HeaderIsHeld
    <2>7. t \in GroupTags /\ ReadType(v.type) = v.type /\ GroupType(t) = v.type BY <1>15, OtherTags
    <2>8. v.bytes = <<>> BY <1>7, <1>15 DEF FitsIs
    <2>9. Len(l) \in Nat /\ Len(b) \in Nat BY <2>3, <2>5, LenIs
    <2>10. k \in Nat BY <2>9
    <2> HIDE DEF b, h, one, t
    <2>11. /\ ReadVariableLength(data, p + 1) = Got(N, k) /\ Holds(data, k, b)
           /\ Len(c) = (1 + Len(l)) + Len(b)
        BY <2>1, <2>6 DEF HeldHeader
    <2>12. Holds(data, p, h) BY <1>8, <2>1, <2>3, <2>5, HoldsBoth
    <2>13. Holds(data, p, one) BY <2>5, <2>12, HoldsBoth
    <2> HIDE DEF w, item, r, N, l, k
    <2>14. r = DecodeByTag(part, p + 1, t, item)
        BY <1>10, <1>12, <1>13, <2>13, TagOnCut DEF one
    <2>15. p + 1 \in Nat OBVIOUS
    <2>16. GroupOnCutIs(r, part, t, item, N, k)
        BY <1>13, <2>7, <2>11, <2>14, <2>15, GroupOnCut
    <2> DEFINE m == ReadMany(part, item, N, k)
               s == m.val
    <2>17. m.ok /\ r = Got(Triple(v.type, <<>>, s), m.pos)
        BY <2>7, <2>16 DEF GroupOnCutIs
    <2>18. PICK e : Ends(e, data, k, codes) BY <2>2, <2>10, <2>11, EndsExist DEF b
    <2>19. e \in [Nat -> Nat] /\ e[0] = k /\ e[N] = k + Len(b)
        BY <2>2, <2>18 DEF Ends, b
    <2>20. LaidCut(item, part, vals, e, D)
        BY <1>3, <1>9, <2>10, <2>18, ItemsOnCut DEF item, D
    <2> DEFINE A == Below(n - 1)
               B == Below(d)
               V == A \union B
    <2>21. item \in [Nat -> Result(A)] BY <1>10 DEF Readers
    <2>22. vals \in Seq(B) BY <2>2
    <2> HIDE DEF A, B
    <2>23. item \in [Nat -> Result(V)]
        <3>1. Result(A) \subseteq Result(V) BY DEF Result
        <3> DEFINE RA == Result(A)
                   RV == Result(V)
        <3>2. RA \subseteq RV /\ item \in [Nat -> RA] BY <2>21, <3>1
        <3> HIDE DEF RA, RV
        <3>3. item \in [Nat -> RV] BY <3>2
        <3> QED BY <3>3 DEF RV
    <2>24. vals \in Seq(V) BY <2>22, SeqOfMore
    <2> HIDE DEF V
    <2>25. ListCut(ReadMany(part, item, N, e[0]), part, vals, e, D, 0, N)
        <3>1. N <= Len(vals) BY <2>2, <2>4
        <3> QED BY <2>4, <2>19, <2>20, <2>23, <2>24, <3>1, CutManyAreRead
    <2>26. ListCut(m, part, vals, e, D, 0, N) BY <2>19, <2>25
    <2>27. m \in Result(Seq(V)) BY <2>4, <2>10, <2>23, ManyType
    <2> HIDE DEF m
    <2>28. s \in Seq(V) /\ m.pos \in Nat BY <2>17, <2>27, ResultIs
    <2> HIDE DEF s
    <2> DEFINE j == Len(s)
    <2>29. j \in Nat BY <2>28, LenIs
    <2>30. /\ 0 + j <= N
           /\ \A i \in 1 .. j - 1 : s[i] = vals[0 + i]
           /\ j > 0 => \/ s[j] = vals[0 + j] /\ m.pos = e[0 + j]
                       \/ <<s[j], vals[0 + j]>> \in D /\ m.pos >= Len(part)
           /\ j = 0 => m.pos = e[0]
           /\ j = N \/ m.pos >= Len(part)
        BY <2>2, <2>17, <2>26 DEF ListCut, s
    <2>31. r.val = Triple(v.type, <<>>, s) /\ r.pos = m.pos BY <2>17 DEF Got
    <2>32. w = Triple(v.type, <<>>, vals) BY <2>7, <2>8 DEF w
    <2> HIDE DEF j
    <2>33. 0 + j = j /\ \A i \in 1 .. j - 1 : 0 + i = i BY <2>29
    <2>34. /\ j <= N
           /\ \A i \in 1 .. j - 1 : s[i] = vals[i]
           /\ j > 0 => \/ s[j] = vals[j] /\ m.pos = e[j]
                       \/ <<s[j], vals[j]>> \in D /\ m.pos >= Len(part)
           /\ j = 0 => m.pos = e[0]
           /\ j = N \/ m.pos >= Len(part)
        BY <2>30, <2>33
    <2>35. CASE j = N /\ (j = 0 \/ (s[j] = vals[j] /\ m.pos = e[j]))
        <3>1. \A i \in 1 .. Len(s) : s[i] = vals[i]
            <4> SUFFICES ASSUME NEW i \in 1 .. j PROVE s[i] = vals[i] BY DEF j
            <4>1. CASE i = j BY <2>29, <2>35, <4>1
            <4>2. CASE i # j
                <5>1. i \in 1 .. j - 1 BY <2>29, <4>2
                <5> QED BY <2>34, <5>1
            <4> QED BY <4>1, <4>2
        <3>2. Len(s) = Len(vals) BY <2>2, <2>35 DEF j
        <3>3. s = vals BY <2>24, <2>28, <3>1, <3>2, SameElements
        <3>4. m.pos = e[N] BY <2>34, <2>35
        <3>5. m.pos = p + Len(c)
            <4> DEFINE x == Len(l)
                       y == Len(b)
            <4>1. x \in Nat /\ y \in Nat /\ Len(c) = (1 + x) + y /\ k = (p + 1) + x
                  /\ m.pos = k + y
                BY <2>9, <2>11, <2>19, <3>4 DEF k
            <4> HIDE DEF x, y
            <4> QED BY <4>1
        <3>6. r = Got(w, p + Len(c)) BY <2>17, <2>32, <3>3, <3>5
        <3> QED BY <3>6 DEF ItemCut, r
    <2>36. CASE ~ (j = N /\ (j = 0 \/ (s[j] = vals[j] /\ m.pos = e[j])))
        <3>1. m.pos >= Len(part) BY <2>29, <2>34, <2>36
        <3>2. j > 0 => s[j] = vals[j] \/ <<s[j], vals[j]>> \in D BY <2>34
        <3>3. OneGood(r, n - 1, part, p) BY <1>9, <1>10, OneType
        <3>4. r.val \in Value[n - 1] BY <1>13, <3>3, ResultIs DEF OneGood
        <3>5. Fits(r.val) BY <1>9, <3>4, ValueHas DEF IsValue
        <3>6. Fits(Triple(v.type, <<>>, s)) BY <2>31, <3>5
        <3>7. Triple(v.type, <<>>, vals) \in Value[d] BY <1>4, <2>32
        <3>8. Len(s) <= Len(vals) BY <2>2, <2>34 DEF j
        <3>9. \A i \in 1 .. Len(s) - 1 : s[i] = vals[i] BY <2>34 DEF j
        <3>10. Len(s) > 0 => s[Len(s)] = vals[Len(s)]
                             \/ <<s[Len(s)], vals[Len(s)]>> \in CutPairs(d - 1)
            BY <3>2 DEF j, D
        <3>11. <<Triple(v.type, <<>>, s), Triple(v.type, <<>>, vals)>> \in CutPairs(d)
            BY <1>15, <2>2, <2>28, <3>6, <3>7, <3>8, <3>9, <3>10, CutIsCut
        <3>12. <<r.val, w>> \in C /\ r.pos >= Len(part) BY <2>31, <2>32, <3>1, <3>11 DEF C
        <3> QED BY <3>12 DEF ItemCut, r
    <2> QED BY <2>35, <2>36
<1> QED BY <1>14, <1>15

LEMMA ValuesCutBack ==
    ASSUME NEW data \in Seq(Byte), NEW part \in Seq(Byte), CutTo(part, data),
           Len(part) < Huge, NEW f, Ones(f, part)
    PROVE  \A d \in Nat : \A v \in Value[d] : CutBack(v, d, f, part, data)
<1> DEFINE T == {d \in Nat : \A v \in Value[d] : CutBack(v, d, f, part, data)}
<1>1. 0 \in T
    <2>1. \A x \in Below(0) : CutBack(x, 0 - 1, f, part, data) BY BelowIs
    <2> QED BY <2>1, LayerCutBack
<1>2. ASSUME NEW d \in Nat, d \in T PROVE d + 1 \in T
    <2>1. d + 1 \in Nat /\ (d + 1) - 1 = d /\ Below(d + 1) = Value[d] BY BelowIs
    <2>2. \A x \in Below(d + 1) : CutBack(x, (d + 1) - 1, f, part, data) BY <1>2, <2>1
    <2> QED BY <2>1, <2>2, LayerCutBack
<1> HIDE DEF T
<1>3. Nat \subseteq T BY <1>1, <1>2, NatSetInduction
<1> QED BY <1>3 DEF T

(***************************************************************************)
(* What is written for a value is no longer than five bytes for it and for *)
(* each item, beside the bytes it has.                                     *)
(***************************************************************************)
Within(codes, marks) ==
    /\ Len(codes) = Len(marks)
    /\ \A i \in 1 .. Len(codes) : Len(codes[i]) <= 5 * Len(marks[i])

LEMMA FlatWithin ==
    ASSUME NEW codes \in Seq(Seq(Byte)), NEW marks \in Seq(Seq(Byte)), Within(codes, marks)
    PROVE  Len(FlattenSeq(codes)) <= 5 * Len(FlattenSeq(marks))
<1> DEFINE fm == FlattenSeq(marks)
           fc == FlattenSeq(codes)
           n == Len(codes)
<1>1. fm \in Seq(Byte) /\ fc \in Seq(Byte) BY FlatType
<1>2. Holds(fm, 0, fm) BY <1>1, HoldsItself
<1>3. PICK e : Ends(e, fm, 0, marks) BY <1>1, <1>2, EndsExist
<1>4. n \in Nat /\ Len(marks) = n BY DEF Within
<1>5. e \in [Nat -> Nat] /\ e[0] = 0 /\ e[n] = 0 + Len(fm)
    BY <1>3, <1>4 DEF Ends
<1> DEFINE w == [i \in Nat |-> 5 * e[i]]
<1>6. w \in [Nat -> Nat]
    <2>1. ASSUME NEW i \in Nat PROVE 5 * e[i] \in Nat
        <3> DEFINE x == e[i]
        <3>1. x \in Nat BY <1>5
        <3> HIDE DEF x
        <3>2. 5 * x \in Nat BY <3>1
        <3> QED BY <3>2 DEF x
    <2> QED BY <2>1
<1>7. \A i \in Nat : w[i] = 5 * e[i] OBVIOUS
<1> HIDE DEF w
<1>8. Between(w, codes)
    <2> SUFFICES ASSUME NEW i \in 1 .. n PROVE w[i - 1] + Len(codes[i]) <= w[i]
        BY DEF Between
    <2> DEFINE x == e[i - 1]
               y == e[i]
               c == Len(codes[i])
               m == Len(marks[i])
    <2>1. i - 1 \in Nat /\ i \in Nat /\ i \in 1 .. Len(marks) BY <1>4
    <2>2. w[i - 1] = 5 * x /\ w[i] = 5 * y /\ x \in Nat /\ y \in Nat BY <1>5, <1>7, <2>1
    <2>3. y = x + m BY <1>3, <2>1 DEF Ends
    <2>4. c <= 5 * m BY DEF Within
    <2>5. c \in Nat /\ m \in Nat
        <3>1. codes[i] \in Seq(Byte) BY ElementType
        <3>2. marks[i] \in Seq(Byte) BY <2>1, ElementType
        <3> QED BY <3>1, <3>2, LenIs
    <2> HIDE DEF x, y, c, m
    <2>6. 5 * x + c <= 5 * y BY <2>2, <2>3, <2>4, <2>5
    <2> QED BY <2>2, <2>6 DEF c
<1>9. w[0] + Len(fc) <= w[n] BY <1>6, <1>8, FlatBetween
<1>10. w[0] = 5 * e[0] /\ w[n] = 5 * e[n] BY <1>4, <1>7
<1> DEFINE a == Len(fc)
           b == Len(fm)
<1>11. a \in Nat /\ b \in Nat BY <1>1, LenIs
<1>12. w[0] = 0 /\ w[n] = 5 * b BY <1>5, <1>10, <1>11
<1>13. w[0] + a <= w[n] BY <1>9
<1> HIDE DEF a, b
<1>14. a <= 5 * b BY <1>11, <1>12, <1>13
<1> QED BY <1>14 DEF a, b

LEMMA CodeIsBrief ==
    ASSUME NEW d \in Nat, NEW v, IsValue(v, d), NEW codes \in Seq(Seq(Byte))
    PROVE  Len(CodeOf(v, codes)) <= 5 + Len(v.bytes) + Len(FlattenSeq(codes))
<1> DEFINE b == v.bytes
           fc == FlattenSeq(codes)
           t == TagOf[v.type]
           one == <<t>>
<1>1. v.type \in Types /\ b \in Seq(Byte) /\ FitsIs(v)
    BY TypesAre, FitsMeans DEF IsValue
<1>2. v.items \in Seq(Below(d)) BY DEF IsValue
<1>3. Len(v.items) \in Nat /\ Len(v.items) < Huge /\ Len(b) \in Nat /\ Len(b) < Huge
    BY <1>1, <1>2, LenIs DEF FitsIs
<1>4. fc \in Seq(Byte) /\ Len(fc) \in Nat
    <2>1. fc \in Seq(Byte) BY FlatType
    <2> QED BY <2>1, LenIs
<1>5. ASSUME NEW n \in Nat, n < Huge
      PROVE  Header(v.type, n) \in Seq(Byte) /\ Len(Header(v.type, n)) <= 5
    <2> DEFINE l == Len(WriteVariableLength(n))
               h == Header(v.type, n)
    <2>1. h \in Seq(Byte) /\ Len(h) = 1 + l BY <1>1, <1>5, HeaderIs
    <2>2. WriteVariableLength(n) \in Seq(Byte) BY <1>5, LengthIsWritten
    <2>3. l \in Nat /\ l <= 4 BY <1>5, <2>2, LengthIsBrief, LenIs
    <2> HIDE DEF l, h
    <2>4. Len(h) <= 5 BY <2>1, <2>3
    <2> QED BY <2>1, <2>4 DEF h
<1>6. one \in Seq(Byte) /\ Len(one) = 1
    <2>1. t \in Byte BY <1>1, TagIsByte
    <2> QED BY <2>1
<1>7. CASE v.type \in Groups
    <2> DEFINE h == Header(v.type, Len(v.items))
    <2>1. h \in Seq(Byte) /\ Len(h) <= 5 BY <1>3, <1>5
    <2>2. CodeOf(v, codes) = h \o fc BY <1>7 DEF CodeOf
    <2> HIDE DEF h, fc, b
    <2>3. IsJoin(h \o fc, Byte, h, fc) BY <1>4, <2>1, JoinIs
    <2>4. Len(h \o fc) = Len(h) + Len(fc) BY <2>3 DEF IsJoin
    <2>5. Len(h) \in Nat BY <2>1, LenIs
    <2>6. Len(h \o fc) <= 5 + Len(b) + Len(fc) BY <1>3, <1>4, <2>1, <2>4, <2>5
    <2> QED BY <2>2, <2>6 DEF b, fc
<1>8. CASE v.type \notin Groups /\ v.type \in Sizeds
    <2> DEFINE h == Header(v.type, Len(v.bytes))
    <2>1. h \in Seq(Byte) /\ Len(h) <= 5 BY <1>3, <1>5
    <2>2. CodeOf(v, codes) = h \o b BY <1>8 DEF CodeOf
    <2> HIDE DEF h, fc, b
    <2>3. IsJoin(h \o b, Byte, h, b) BY <1>1, <2>1, JoinIs
    <2>4. Len(h \o b) = Len(h) + Len(b) BY <2>3 DEF IsJoin
    <2>5. Len(h) \in Nat BY <2>1, LenIs
    <2>6. Len(h \o b) <= 5 + Len(b) + Len(fc) BY <1>3, <1>4, <2>1, <2>4, <2>5
    <2> QED BY <2>2, <2>6 DEF b, fc
<1>9. CASE v.type \notin Groups /\ v.type \notin Sizeds
    <2>1. CodeOf(v, codes) = one \o b BY <1>9 DEF CodeOf
    <2> HIDE DEF one, fc, b
    <2>2. IsJoin(one \o b, Byte, one, b) BY <1>1, <1>6, JoinIs
    <2>3. Len(one \o b) = Len(one) + Len(b) BY <2>2 DEF IsJoin
    <2>4. Len(one \o b) <= 5 + Len(b) + Len(fc) BY <1>3, <1>4, <1>6, <2>3
    <2> QED BY <2>1, <2>4 DEF b, fc
<1> QED BY <1>7, <1>8, <1>9

Brief(v, d) == Len(Encoding[d][v]) <= 5 + 5 * Len(Contents[d][v])

LEMMA LayerIsBrief ==
    ASSUME NEW d \in Nat, \A x \in Below(d) : Brief(x, d - 1), NEW v \in Value[d]
    PROVE  Brief(v, d)
<1> DEFINE g == Encoding[d - 1]
           h == Contents[d - 1]
           s == v.items
           codes == Mapped(s, g)
           marks == Marks(s, h)
           n == Len(s)
           b == v.bytes
           fc == FlattenSeq(codes)
           fm == FlattenSeq(marks)
<1>1. IsValue(v, d) BY ValueHas
<1>2. s \in Seq(Below(d)) /\ b \in Seq(Byte) BY <1>1 DEF IsValue
<1>3. EncodedAs(Encoding[d][v], v, codes) BY EncodingOf
<1>4. Contents[d][v] = b \o fm BY ContentsIs DEF ContentsAt, HeldBy
<1>5. \A x \in Below(d) : g[x] \in Seq(Byte) BY EncodingIs DEF EncodingAt, EncodingGood
<1>6. \A x \in Below(d) : h[x] \in Seq(Byte) BY ContentsIs DEF ContentsAt, ContentsGood
<1>7. \A x \in Below(d) : Len(g[x]) <= 5 + 5 * Len(h[x]) BY DEF Brief
<1> HIDE DEF g, h, s
<1>8. codes \in Seq(Seq(Byte)) /\ Len(codes) = n
    <2> DEFINE S == Seq(Byte)
    <2>1. \A x \in Below(d) : g[x] \in S BY <1>5
    <2> HIDE DEF S
    <2>2. Mapped(s, g) \in Seq(S) /\ Len(Mapped(s, g)) = Len(s) BY <1>2, <2>1, MappedIs
    <2> QED BY <2>2 DEF S
<1>9. MarksGood(marks, s, h) BY <1>2, <1>6, MarksAre
<1>10. DOMAIN s = 1 .. n /\ n \in Nat BY <1>2
<1>11. \A i \in 1 .. n : codes[i] = g[s[i]] BY <1>10 DEF Mapped
<1>12. \A i \in 1 .. n : s[i] \in Below(d) BY <1>2, ElementType
<1> HIDE DEF codes, marks, n
<1>13. /\ marks \in Seq(Seq(Byte)) /\ Len(marks) = n
       /\ \A i \in 1 .. n : Len(marks[i]) = 1 + Len(h[s[i]])
    BY <1>9 DEF MarksGood, n
<1>14. ASSUME NEW i \in 1 .. n PROVE Len(codes[i]) <= 5 * Len(marks[i])
    <2> DEFINE x == s[i]
               p == Len(g[x])
               q == Len(h[x])
    <2>1. x \in Below(d) BY <1>12
    <2>2. g[x] \in Seq(Byte) /\ h[x] \in Seq(Byte) /\ p <= 5 + 5 * q BY <1>5, <1>6, <1>7, <2>1
    <2>3. p \in Nat /\ q \in Nat BY <2>2, LenIs
    <2>4. Len(codes[i]) = p /\ Len(marks[i]) = 1 + q BY <1>11, <1>13
    <2> HIDE DEF x, p, q
    <2>5. p <= 5 * (1 + q) BY <2>2, <2>3
    <2> QED BY <2>4, <2>5
<1>15. Within(codes, marks) BY <1>8, <1>13, <1>14 DEF Within
<1>16. Len(fc) <= 5 * Len(fm) BY <1>8, <1>13, <1>15, FlatWithin
<1>17. Len(Encoding[d][v]) <= 5 + Len(b) + Len(fc)
    <2>1. Encoding[d][v] = CodeOf(v, codes) BY <1>3 DEF EncodedAs
    <2>2. Len(CodeOf(v, codes)) <= 5 + Len(v.bytes) + Len(FlattenSeq(codes))
        BY <1>1, <1>8, CodeIsBrief
    <2> QED BY <2>1, <2>2
<1>18. fm \in Seq(Byte) /\ fc \in Seq(Byte) BY <1>8, <1>13, FlatType
<1>19. Len(Encoding[d][v]) \in Nat BY <1>3 DEF EncodedAs
<1> HIDE DEF fm, fc, b
<1>20. IsJoin(b \o fm, Byte, b, fm) BY <1>2, <1>18, JoinIs
<1>21. Len(Contents[d][v]) = Len(b) + Len(fm) BY <1>4, <1>20 DEF IsJoin
<1> DEFINE w == Len(Encoding[d][v])
           c == Len(Contents[d][v])
           i == Len(b)
           j == Len(fm)
           k == Len(fc)
<1>22. i \in Nat /\ j \in Nat /\ k \in Nat BY <1>2, <1>18, LenIs
<1>23. w \in Nat /\ c = i + j /\ k <= 5 * j /\ w <= 5 + i + k BY <1>16, <1>17, <1>19, <1>21
<1> HIDE DEF w, c, i, j, k
<1>24. w <= 5 + 5 * c BY <1>22, <1>23
<1> QED BY <1>24 DEF Brief, w, c

LEMMA EncodingIsBrief ==
    \A d \in Nat : \A v \in Value[d] : Brief(v, d)
<1> DEFINE T == {d \in Nat : \A v \in Value[d] : Brief(v, d)}
<1>1. 0 \in T
    <2>1. \A x \in Below(0) : Brief(x, 0 - 1) BY BelowIs
    <2> QED BY <2>1, LayerIsBrief
<1>2. ASSUME NEW d \in Nat, d \in T PROVE d + 1 \in T
    <2>1. d + 1 \in Nat /\ (d + 1) - 1 = d /\ Below(d + 1) = Value[d] BY BelowIs
    <2>2. \A x \in Below(d + 1) : Brief(x, (d + 1) - 1) BY <1>2, <2>1
    <2> QED BY <2>1, <2>2, LayerIsBrief
<1> HIDE DEF T
<1>3. Nat \subseteq T BY <1>1, <1>2, NatSetInduction
<1> QED BY <1>3 DEF T

(***************************************************************************)
(* A value that arrived in full is read as it was written, whatever its    *)
(* type, its lengths, its depth and whatever follows it (encode, decode).  *)
(***************************************************************************)
THEOREM ValueIsRead ==
    ASSUME NEW d \in Nat, NEW v \in Value[d], NEW data \in Seq(Byte), Len(data) < Huge,
           Holds(data, 0, Encoding[d][v])
    PROVE  Decode(data) = Got(AsDecoded[d][v], Len(Encoding[d][v]))
<1> DEFINE c == Encoding[d][v]
           l == Len(c)
           n == Len(data)
<1>1. PICK f : Ones(f, data) BY OnesExist
<1>2. ReadBack(v, d, f, data) BY <1>1, ValuesReadBack
<1>3. n \in Nat BY LenIs
<1>4. EncodedAs(c, v, Mapped(v.items, Encoding[d - 1])) BY EncodingOf
<1>5. l \in Nat BY <1>4 DEF EncodedAs
<1>6. Holds(data, 0, c) OBVIOUS
<1> HIDE DEF l
<1>7. l <= n
    <2>1. 0 + Len(c) <= Len(data) BY <1>6 DEF Holds
    <2> QED BY <1>5, <2>1 DEF l
<1>8. f[n][0] = Got(AsDecoded[d][v], 0 + Len(Encoding[d][v]))
    BY <1>2, <1>3, <1>6, <1>7 DEF ReadBack, l
<1>9. DecodeOne(data) = f[n] BY <1>1 DEF Ones
<1>10. Decode(data) = f[n][0] BY <1>9 DEF Decode
<1>11. 0 + Len(Encoding[d][v]) = Len(Encoding[d][v]) BY <1>5 DEF l
<1> QED BY <1>8, <1>10, <1>11

(***************************************************************************)
(* A value that is cut is refused, or it is a list, at any depth, which is *)
(* read as its first items.                                                *)
(***************************************************************************)
THEOREM ValueOnCut ==
    ASSUME NEW d \in Nat, NEW v \in Value[d], NEW part \in Seq(Byte),
           CutTo(part, Encoding[d][v]), Len(part) < Len(Encoding[d][v]), Len(part) < Huge,
           Decode(part).ok
    PROVE  CutOf[d][<<Decode(part).val, AsDecoded[d][v]>>]
<1> DEFINE c == Encoding[d][v]
           l == Len(c)
           n == Len(part)
           w == AsDecoded[d][v]
           C == CutPairs(d)
<1>1. PICK f : Ones(f, part) BY OnesExist
<1>2. c \in Seq(Byte) BY EncodingIs DEF EncodingAt
<1>3. CutBack(v, d, f, part, c) BY <1>1, <1>2, ValuesCutBack
<1>4. n \in Nat BY LenIs
<1>5. l \in Nat BY <1>2, LenIs
<1>6. Holds(c, 0, c) BY <1>2, HoldsItself
<1> DEFINE r == f[n][0]
<1>7. ItemCut(r, part, w, 0 + l, C) BY <1>3, <1>4, <1>6 DEF CutBack
<1>8. Decode(part) = r BY <1>1 DEF Ones, Decode
<1>9. r.ok BY <1>8
<1>10. r.pos <= n
    <2>1. Advances(f[n], part) BY <1>1, <1>4 DEF Ones, Readers
    <2> QED BY <1>9, <2>1 DEF Advances
<1>11. n < l OBVIOUS
<1> HIDE DEF r, w, C, l, n
<1>12. r # Got(w, 0 + l)
    <2>1. ASSUME r = Got(w, 0 + l) PROVE FALSE
        <3>1. r.pos = 0 + l BY <2>1 DEF Got
        <3> QED BY <1>4, <1>5, <1>10, <1>11, <3>1
    <2> QED BY <2>1
<1>13. <<r.val, w>> \in C BY <1>7, <1>9, <1>12 DEF ItemCut
<1>14. CutOf[d][<<r.val, w>>] BY <1>13, CutPairsHave DEF C
<1> QED BY <1>8, <1>14 DEF w

(***************************************************************************)
(* Whatever bytes are decoded, the value is no deeper than half of them,   *)
(* has its bytes and items from them, and is read again as itself when it  *)
(* is written.                                                             *)
(***************************************************************************)
DecodesTo(r, data) ==
    /\ r.ok \in BOOLEAN
    /\ ~r.ok => r.err \in Failures
    /\ r.ok => Sound(r.val, r.pos) /\ r.pos \in Nat /\ r.pos <= Len(data)

LEMMA DecodeType ==
    ASSUME NEW data \in Seq(Byte), Len(data) < Huge
    PROVE  DecodesTo(Decode(data), data)
<1> DEFINE n == Len(data)
<1>1. PICK f : Ones(f, data) BY OnesExist
<1>2. n \in Nat BY LenIs
<1> DEFINE r == f[n][0]
           B == Below(n)
<1>3. Decode(data) = r BY <1>1 DEF Ones, Decode
<1>4. f[n] \in [Nat -> Result(B)] /\ Advances(f[n], data)
    <2>1. f[n] \in Readers(n, data) BY <1>1, <1>2 DEF Ones
    <2> QED BY <2>1 DEF Readers
<1>5. SoundRead(r, 0) BY <1>1, <1>2, OnesSound
<1>6. r.ok => r.pos <= n BY <1>4 DEF Advances
<1> HIDE DEF B, n
<1>7. r \in Result(B) BY <1>4
<1> HIDE DEF r
<1>8. /\ r.ok \in BOOLEAN
      /\ r.ok => r.pos \in Nat
      /\ ~r.ok => r = Error(r.err) /\ r.err \in Failures
    BY <1>7, ResultIs
<1>9. r.ok => Sound(r.val, r.pos)
    <2>1. ASSUME r.ok PROVE Sound(r.val, r.pos)
        <3>1. r.pos - 0 = r.pos BY <1>8, <2>1
        <3>2. Sound(r.val, r.pos - 0) BY <1>5, <2>1 DEF SoundRead
        <3> QED BY <3>1, <3>2
    <2> QED BY <2>1
<1> QED BY <1>3, <1>6, <1>8, <1>9 DEF DecodesTo, n

DepthOf(v, m) ==
    IF v.items = <<>> THEN 0
    ELSE IF \A i \in DOMAIN v.items : v.items[i].items = <<>> THEN 1
    ELSE m \div 2

DeepAs(v, m) ==
    /\ v \in Value[DepthOf(v, m)] /\ DepthOf(v, m) \in Nat
    /\ Keeps(v, m, DepthOf(v, m))

LEMMA FlatIsFlat ==
    ASSUME NEW d \in Nat, NEW v \in Value[d], v.items = <<>>
    PROVE  v \in Value[0]
<1> DEFINE w == Triple(v.type, v.bytes, <<>>)
<1>1. IsValue(v, d) BY ValueHas
<1>2. v = w /\ v.type \in DOMAIN TagOf /\ v.bytes \in Seq(Byte) /\ Fits(v)
    BY <1>1 DEF IsValue
<1>3. <<>> \in Seq(Below(0)) OBVIOUS
<1>4. Fits(w) BY <1>2
<1>5. w \in Value[0] BY <1>2, <1>3, <1>4, ValueFrom
<1> QED BY <1>2, <1>5

LEMMA ListOfFlat ==
    ASSUME NEW d \in Nat, NEW v \in Value[d],
           \A i \in DOMAIN v.items : v.items[i].items = <<>>
    PROVE  v \in Value[1]
<1> DEFINE s == v.items
           w == Triple(v.type, v.bytes, s)
           B == Below(d)
           F == Below(1)
<1>1. IsValue(v, d) BY ValueHas
<1>2. v = w /\ v.type \in DOMAIN TagOf /\ v.bytes \in Seq(Byte) /\ Fits(v) /\ s \in Seq(B)
    BY <1>1 DEF IsValue
<1>3. F = Value[0] BY DEF Below
<1>4. ASSUME NEW x \in B, x.items = <<>> PROVE x \in F
    <2>1. d - 1 \in Nat /\ x \in Value[d - 1] BY BelowMeans DEF BelowHas
    <2>2. x \in Value[0] BY <1>4, <2>1, FlatIsFlat
    <2> QED BY <1>3, <2>2
<1>5. \A i \in DOMAIN s : s[i].items = <<>> OBVIOUS
<1> HIDE DEF s, B, F
<1>6. \A i \in DOMAIN s : s[i] \in B BY <1>2
<1>7. \A i \in DOMAIN s : s[i] \in F BY <1>4, <1>5, <1>6
<1>8. s \in Seq(F) BY <1>2, <1>7
<1>9. Fits(w) BY <1>2
<1> HIDE DEF w
<1>10. 1 \in Nat OBVIOUS
<1>11. w \in Value[1] BY <1>2, <1>8, <1>9, <1>10, ValueFrom DEF F, w
<1> QED BY <1>2, <1>11

LEMMA SoundIsDeep ==
    ASSUME NEW v, NEW k \in Nat, Sound(v, k), NEW m \in Nat, k <= m
    PROVE  DeepAs(v, m)
<1> DEFINE a == k \div 2
           b == m \div 2
           t == DepthOf(v, m)
<1>1. a \in Nat /\ b \in Nat /\ a <= b OBVIOUS
<1>2. v \in Value[a] BY DEF Sound
<1>3. t \in Nat BY <1>1 DEF DepthOf
<1> HIDE DEF a, b
<1>4. v \in Value[b] BY <1>1, <1>2, ValueGrowsTo
<1>5. IsValue(v, b) BY <1>1, <1>4, ValueHas
<1>6. v \in Value[t]
    <2> DEFINE flat == \A i \in DOMAIN v.items : v.items[i].items = <<>>
    <2>1. t = IF v.items = <<>> THEN 0 ELSE IF flat THEN 1 ELSE b BY DEF DepthOf, b
    <2>2. CASE v.items = <<>>
        <3>1. v \in Value[0] BY <1>1, <1>4, <2>2, FlatIsFlat
        <3> QED BY <2>1, <2>2, <3>1
    <2>3. CASE v.items # <<>> /\ flat
        <3>1. v \in Value[1] BY <1>1, <1>4, <2>3, ListOfFlat
        <3> QED BY <2>1, <2>3, <3>1
    <2>4. CASE v.items # <<>> /\ ~flat
        <3>1. t = b BY <2>1, <2>4
        <3> QED BY <1>4, <3>1
    <2> QED BY <2>2, <2>3, <2>4
<1>7. Keeps(v, k, t) BY <1>3, <1>6 DEF Sound
<1>8. Contents[t][v] \in Seq(Byte) BY <1>3, <1>6, ContentsIs DEF ContentsAt
<1>9. Len(Contents[t][v]) \in Nat BY <1>8, LenIs
<1> HIDE DEF t
<1>10. Len(Contents[t][v]) < m
    <2> DEFINE c == Len(Contents[t][v])
    <2>1. c \in Nat /\ c < k BY <1>7, <1>9 DEF Keeps
    <2> HIDE DEF c
    <2>2. c < m BY <2>1
    <2> QED BY <2>2 DEF c
<1>11. Keeps(v, m, t) BY <1>7, <1>10 DEF Keeps
<1> QED BY <1>3, <1>6, <1>11 DEF DeepAs, t

(***************************************************************************)
(* Decoding any bytes gives a value of its depth, which decode gives again *)
(* from the bytes that encode writes for it, and which holds fewer bytes   *)
(* than there were.                                                        *)
(***************************************************************************)
THEOREM DecodedValueIsSound ==
    ASSUME NEW data \in Seq(Byte), Len(data) <= Huge \div 8, Decode(data).ok,
           NEW d \in Nat, d = DepthOf(Decode(data).val, Len(data))
    PROVE  /\ Decode(data).val \in Value[d]
           /\ Decode(Encoding[d][Decode(data).val]).val = Decode(data).val
           /\ Len(Contents[d][Decode(data).val]) < Len(data)
<1> DEFINE r == Decode(data)
           v == r.val
           m == Len(data)
           c == Encoding[d][v]
           x == Contents[d][v]
<1>1. m \in Nat BY LenIs
<1>2. m < Huge /\ 4 * (m + 5) + 5 < Huge BY <1>1, BriefIsHuge
<1>3. DecodesTo(r, data) BY <1>2, DecodeType
<1> HIDE DEF r
<1>4. r.ok BY DEF r
<1>5. Sound(v, r.pos) /\ r.pos \in Nat /\ r.pos <= m BY <1>3, <1>4 DEF DecodesTo
<1> HIDE DEF v, m
<1>6. DeepAs(v, m) BY <1>1, <1>5, SoundIsDeep
<1>7. d = DepthOf(v, m) BY DEF v, m, r
<1>8. v \in Value[d] /\ Keeps(v, m, d) BY <1>6, <1>7 DEF DeepAs
<1>9. Len(x) < m /\ AsDecoded[d][v] = v BY <1>8 DEF Keeps
<1>10. Brief(v, d) BY <1>8, EncodingIsBrief
<1>11. c \in Seq(Byte) /\ x \in Seq(Byte)
    BY <1>8, EncodingIs, ContentsIs DEF EncodingAt, ContentsAt
<1>12. Len(c) <= 5 + 5 * Len(x) BY <1>10 DEF Brief
<1>13. Len(c) \in Nat /\ Len(x) \in Nat BY <1>11, LenIs
<1>14. Len(c) < Huge
    <2> DEFINE i == Len(c)
               j == Len(x)
               e == Huge \div 8
               h == Huge
    <2>1. e \in Nat /\ h \in Nat /\ 8 * e <= h
        <3>1. h \in Nat BY HugeIs
        <3> HIDE DEF h
        <3>2. 8 * (h \div 8) <= h /\ h \div 8 \in Nat BY <3>1
        <3> QED BY <3>1, <3>2 DEF h
    <2>2. m <= e BY DEF m
    <2>3. i \in Nat /\ j \in Nat /\ i <= 5 + 5 * j /\ j < m BY <1>9, <1>12, <1>13
    <2> HIDE DEF i, j, e, h
    <2>4. i < h BY <1>1, <2>1, <2>2, <2>3
    <2> QED BY <2>4 DEF i, h
<1>15. Holds(c, 0, c) BY <1>11, HoldsItself
<1>16. Decode(c) = Got(AsDecoded[d][v], Len(Encoding[d][v]))
    BY <1>8, <1>11, <1>14, <1>15, ValueIsRead
<1>17. Decode(c).val = v
    <2> DEFINE k == Decode(c)
    <2> HIDE DEF k
    <2>1. k = Got(AsDecoded[d][v], Len(Encoding[d][v])) BY <1>16 DEF k
    <2>2. k.val = AsDecoded[d][v] BY <2>1 DEF Got
    <2> QED BY <1>9, <2>2 DEF k
<1>18. Decode(Encoding[d][v]).val = v BY <1>17
<1>19. Len(Contents[d][v]) < m BY <1>9
<1> QED BY <1>8, <1>18, <1>19 DEF v, m, r

(***************************************************************************)
(* The messages of each format, and what is written for them.              *)
(***************************************************************************)
MessageOf(f, m) ==
    \/ f = "axdr" /\ m \in Values
    \/ f = "aarq" /\ m \in Aarqs
    \/ f = "aare" /\ m \in Aares
    \/ f = "ber" /\ m \in Elements
    \/ f = "block" /\ m \in Texts
    \/ f = "sm4" /\ m \in Secrets
    \/ f = "control" /\ m \in Controls
    \/ f = "obis" /\ m \in Codes

Secret == {m \in [key : Block, nonce : Seq(Byte), aad : Seq(Byte),
                  text : Seq(Byte), length : Nat \ {0}] : Len(m.nonce) <= 16}

LEMMA MessagesAre ==
    /\ MaxDepth \in Nat
    /\ \A m \in Values : m \in Value[MaxDepth]
    /\ \A m \in Aarqs : m \in AarqValue
    /\ \A m \in Aares : m \in AareValue
    /\ \A m \in Elements : m \in Seq(Tlvs)
    /\ \A m \in Texts : m.key \in Block /\ m.text \in Block
    /\ \A m \in Secrets : m \in Secret
    /\ \A m \in Controls : m \in Control
    /\ \A m \in Codes : m \in ObisCodes
    /\ \A t \in Tails : t \in Seq(Byte)
<1>1. MaxDepth \in Nat BY MessagesAssumption
<1>2. \A m \in Values : m \in Value[MaxDepth] BY MessagesAssumption
<1>3. \A m \in Aarqs : m \in AarqValue BY MessagesAssumption DEF AarqValue
<1>4. \A m \in Aares : m \in AareValue BY MessagesAssumption DEF AareValue
<1>5. \A m \in Elements : m \in Seq(Tlvs) BY MessagesAssumption DEF Tlvs
<1>6. \A m \in Texts : m.key \in Block /\ m.text \in Block
    <2>1. Texts \subseteq [key : Block, text : Block] BY MessagesAssumption
    <2> QED BY <2>1
<1>7. \A m \in Secrets : m \in Secret BY MessagesAssumption DEF Secret
<1>8. \A m \in Controls : m \in Control
    <2>1. Controls \subseteq [security_suite : 0 .. 15, flags : SUBSET DOMAIN Bit]
        BY MessagesAssumption
    <2>2. DOMAIN Bit = Protections BY BitIs
    <2> QED BY <2>1, <2>2 DEF Control
<1>9. \A m \in Codes : m \in ObisCodes BY MessagesAssumption DEF ObisCodes
<1>10. \A t \in Tails : t \in Seq(Byte) BY MessagesAssumption
<1> QED BY <1>1, <1>2, <1>3, <1>4, <1>5, <1>6, <1>7, <1>8, <1>9, <1>10

LEMMA SecretIs ==
    ASSUME NEW m \in Secret
    PROVE  /\ RoundKeys(m.key) \in Seq(Quad)
           /\ m.nonce \in Seq(Byte) /\ m.aad \in Seq(Byte) /\ m.text \in Seq(Byte)
           /\ m.length \in Nat \ {0} /\ m.length \in Nat
           /\ Len(m.nonce) <= 16
<1>1. m.key \in Block /\ m.nonce \in Seq(Byte) /\ m.aad \in Seq(Byte)
      /\ m.text \in Seq(Byte) /\ m.length \in Nat \ {0} /\ Len(m.nonce) <= 16
    BY DEF Secret
<1>2. RoundKeys(m.key) \in Seq(Quad) BY <1>1, RoundKeysType
<1> QED BY <1>1, <1>2

LEMMA GcmEncryptType ==
    ASSUME NEW keys \in Seq(Quad), NEW nonce \in Seq(Byte), NEW aad \in Seq(Byte),
           NEW text \in Seq(Byte), NEW length \in Nat
    PROVE  /\ GcmEncrypt(keys, nonce, aad, text, length) \in Seq(Byte)
           /\ Len(GcmEncrypt(keys, nonce, aad, text, length)) = Len(text) + length
<1> DEFINE out == GcmEncrypt(keys, nonce, aad, text, length)
           cipher == CounterMode(keys, nonce, text)
           tag == Tag(text, aad, length)
<1>1. Sealed(out, cipher, tag, Len(text), length) BY GcmEncryptIs
<1> HIDE DEF out, cipher, tag
<1>2. out \in Seq(Byte) /\ Len(out) = Len(text) + length BY <1>1 DEF Sealed
<1> QED BY <1>2 DEF out

WrittenNow(f, m, w) ==
    /\ f = "axdr" => w = Encoding[MaxDepth][m]
    /\ f = "aarq" => w = EncodeApdu(Aarq, m)
    /\ f = "aare" => w = EncodeApdu(Aare, m)
    /\ f = "ber"  => w = WriteAll(m)
    /\ f = "block" => w = EncryptBlock(RoundKeys(m.key), m.text)
    /\ f = "sm4" => w = GcmEncrypt(RoundKeys(m.key), m.nonce, m.aad, m.text, m.length)
    /\ f = "control" => w = <<ToByte(m)>>
    /\ f = "obis" => w = ToCanonical(m)

LEMMA WrittenFor ==
    ASSUME NEW f, NEW m
    PROVE  WrittenNow(f, m, Written(f, m))
BY DEF Written, WrittenNow

ReadNow(f, m, data, r) ==
    /\ f = "axdr" => r = Decode(data)
    /\ f = "aarq" => r = DecodeApdu(Aarq, data)
    /\ f = "aare" => r = DecodeApdu(Aare, data)
    /\ f = "ber"  => r = ReadAll(data)
    /\ f = "block" => r = Got(DecryptBlock(RoundKeys(m.key), data), 16)
    /\ f = "sm4" => r = GcmDecrypt(RoundKeys(m.key), m.nonce, m.aad, data, m.length)
    /\ f = "control" => r = Got(FromByte(data[1]), 1)
    /\ f = "obis" => r \in FromString(data)

LEMMA ReadFrom ==
    ASSUME NEW f, NEW m, NEW data, NEW r \in Readings(f, m, data)
    PROVE  ReadNow(f, m, data, r)
BY DEF Readings, ReadNow

(***************************************************************************)
(* The lengths of what is written are numbers, whatever they are.          *)
(***************************************************************************)
LEMMA AarqLength ==
    ASSUME NEW v \in AarqValue
    PROVE  Len(EncodeApdu(Aarq, v)) \in Nat
<1> DEFINE c1 == EncodeField(v, Aarq.fields[1])
           c2 == EncodeField(v, Aarq.fields[2])
           c3 == EncodeField(v, Aarq.fields[3])
           c4 == EncodeField(v, Aarq.fields[4])
           out == EncodeApdu(Aarq, v)
<1>1. /\ v["context"] \in Seq(Byte) /\ v["mechanism"] \in Seq(Byte)
      /\ v["auth"] \in Seq(Byte) /\ v["user"] \in Seq(Byte)
    BY DEF AarqValue
<1>2. /\ Aarq.fields[1] = Field(161, "context") /\ Aarq.fields[2] = Field(167, "mechanism")
      /\ Aarq.fields[3] = Field(136, "auth") /\ Aarq.fields[4] = Field(190, "user")
      /\ Aarq.tag \in Byte
      /\ 161 \in Byte /\ 167 \in Byte /\ 136 \in Byte /\ 190 \in Byte
    BY AarqFieldsAre, TagsAreBytes
<1>3. c1 \in Seq(Nat) BY <1>1, <1>2, AnyField
<1>4. c2 \in Seq(Nat) BY <1>1, <1>2, AnyField
<1>5. c3 \in Seq(Nat) BY <1>1, <1>2, AnyField
<1>6. c4 \in Seq(Nat) BY <1>1, <1>2, AnyField
<1>7. out = Tlv(Aarq.tag, c1 \o c2 \o c3 \o c4) BY DEF EncodeApdu
<1> HIDE DEF c1, c2, c3, c4, out
<1>8. c1 \o c2 \o c3 \o c4 \in Seq(Nat) BY <1>3, <1>4, <1>5, <1>6
<1>9. out \in Seq(Nat) BY <1>2, <1>7, <1>8, AnyTlv
<1> QED BY <1>9, LenIs DEF out

LEMMA AareLength ==
    ASSUME NEW v \in AareValue
    PROVE  Len(EncodeApdu(Aare, v)) \in Nat
<1> DEFINE c1 == EncodeField(v, Aare.fields[1])
           c2 == EncodeField(v, Aare.fields[2])
           c3 == EncodeField(v, Aare.fields[3])
           c4 == EncodeField(v, Aare.fields[4])
           out == EncodeApdu(Aare, v)
<1>1. /\ v["result"] \in Seq(Byte) /\ v["context"] \in Seq(Byte)
      /\ v["auth"] \in Seq(Byte) /\ v["user"] \in Seq(Byte)
    <2>1. v["result"] \in Results BY DEF AareValue, Results
    <2>2. v["result"] \in Seq(Byte) BY <2>1, ResultsAre
    <2>3. v["context"] \in Seq(Byte) /\ v["auth"] \in Seq(Byte) /\ v["user"] \in Seq(Byte)
        BY DEF AareValue
    <2> QED BY <2>2, <2>3
<1>2. /\ Aare.fields[1] = Field(130, "result") /\ Aare.fields[2] = Field(161, "context")
      /\ Aare.fields[3] = Field(137, "auth") /\ Aare.fields[4] = Field(190, "user")
      /\ Aare.tag \in Byte
      /\ 130 \in Byte /\ 161 \in Byte /\ 137 \in Byte /\ 190 \in Byte
    BY AareFieldsAre, TagsAreBytes
<1>3. c1 \in Seq(Nat) BY <1>1, <1>2, AnyField
<1>4. c2 \in Seq(Nat) BY <1>1, <1>2, AnyField
<1>5. c3 \in Seq(Nat) BY <1>1, <1>2, AnyField
<1>6. c4 \in Seq(Nat) BY <1>1, <1>2, AnyField
<1>7. out = Tlv(Aare.tag, c1 \o c2 \o c3 \o c4) BY DEF EncodeApdu
<1> HIDE DEF c1, c2, c3, c4, out
<1>8. c1 \o c2 \o c3 \o c4 \in Seq(Nat) BY <1>3, <1>4, <1>5, <1>6
<1>9. out \in Seq(Nat) BY <1>2, <1>7, <1>8, AnyTlv
<1> QED BY <1>9, LenIs DEF out

LEMMA ElementsLength ==
    ASSUME NEW elements \in Seq(Tlvs)
    PROVE  Len(WriteAll(elements)) \in Nat
<1> DEFINE n == Len(elements)
           codes == Codes1(elements)
           S == Seq(Nat)
<1>1. n \in Nat /\ DOMAIN elements = 1 .. n OBVIOUS
<1>2. ASSUME NEW i \in 1 .. n PROVE codes[i] \in S
    <2> DEFINE x == elements[i]
    <2>1. x \in Tlvs BY <1>1
    <2>2. codes[i] = Tlv(x.tag, x.value) BY <1>1 DEF Codes1
    <2> HIDE DEF x
    <2>3. x.tag \in Byte /\ x.value \in Seq(Byte) BY <2>1 DEF Tlvs
    <2>4. x.value \in Seq(Nat) BY <2>3, ByteSeqIsNat
    <2> QED BY <2>2, <2>3, <2>4, AnyTlv
<1>3. WriteAll(elements) = FlattenSeq(codes) BY DEF WriteAll, Codes1
<1>4. codes = [i \in 1 .. n |-> codes[i]] BY <1>1 DEF Codes1
<1> HIDE DEF codes, n, S
<1>5. codes \in Seq(S) BY <1>1, <1>2, <1>4
<1>6. FlattenSeq(codes) \in Seq(Nat) BY <1>5, FlatType DEF S
<1> QED BY <1>3, <1>6, LenIs

LEMMA ApduBytes ==
    ASSUME NEW apdu, NEW S, ApduIs(apdu, S), NEW value, FieldsAre(apdu, value),
           Len(EncodeApdu(apdu, value)) < Huge, Len(EncodeApdu(apdu, value)) \in Nat
    PROVE  EncodeApdu(apdu, value) \in Seq(Byte)
<1> DEFINE code == EncodeApdu(apdu, value)
           tag == apdu.tag
<1>1. PICK s : InnerIs(apdu, value, s)
    <2>1. \E s : InnerIs(apdu, value, s) BY InnerExists
    <2> QED BY <2>1
<1> DEFINE inner == WriteAll(s)
<1>2. code = Tlv(tag, inner) /\ inner \in Seq(Byte) /\ Len(inner) <= Len(code)
    BY <1>1 DEF InnerIs
<1>3. tag \in Byte BY DEF ApduIs
<1>4. Len(code) < Huge /\ Len(code) \in Nat OBVIOUS
<1> HIDE DEF code, inner, tag
<1>5. Len(inner) \in Nat /\ Huge \in Nat BY <1>2, LenIs, HugeIs
<1>6. Len(inner) < Huge
    <2> DEFINE h == Huge
    <2>1. Len(code) < h /\ h \in Nat BY <1>4, <1>5
    <2> HIDE DEF h
    <2>2. Len(inner) < h BY <1>2, <1>4, <1>5, <2>1
    <2> QED BY <2>2 DEF h
<1>7. code \in Seq(Byte) BY <1>2, <1>3, <1>6, TlvType
<1> QED BY <1>7 DEF code

LEMMA BelowLimit ==
    ASSUME NEW k \in Nat, k <= Limit
    PROVE  k < Huge
<1> DEFINE l == Limit
           h == Huge
           e == Huge \div 8
<1>1. h \in Nat /\ l \in Nat /\ e = 2 * l /\ e < h BY LimitIs
<1>2. k <= l OBVIOUS
<1> HIDE DEF l, h, e
<1>3. k < h BY <1>1, <1>2
<1> QED BY <1>3 DEF h

Codecs == {"axdr", "aarq", "aare", "ber"}

Fitting(f, m, w) ==
    /\ f \in Codecs => w \in Seq(Byte) /\ Len(w) <= Limit
    /\ f \in {"sm4", "block", "control"} => w \in Seq(Byte)
    /\ f = "obis" => w \in Seq(Nat)
    /\ Len(w) \in Nat

LEMMA WrittenIs ==
    ASSUME NEW f, NEW m, MessageOf(f, m)
    PROVE  Fitting(f, m, Written(f, m))
<1> DEFINE w == Written(f, m)
<1>1. WrittenNow(f, m, w) BY WrittenFor
<1> HIDE DEF w
<1>4. CASE f = "axdr"
    <2>1. m \in Values BY <1>4 DEF MessageOf
    <2>2. w = Encoding[MaxDepth][m] BY <1>1, <1>4 DEF WrittenNow
    <2>3. w \in Seq(Byte)
        <3>1. m \in Value[MaxDepth] /\ MaxDepth \in Nat BY <2>1, MessagesAre
        <3>2. EncodingAt(MaxDepth) BY <3>1, EncodingIs
        <3> QED BY <2>2, <3>1, <3>2 DEF EncodingAt
    <2>4. Len(w) <= Limit BY <2>1, <1>4, LengthsAssumption DEF w
    <2>5. Len(w) \in Nat BY <2>3, LenIs
    <2>6. Fitting(f, m, w) BY <1>4, <2>3, <2>4, <2>5 DEF Fitting
    <2> QED BY <2>6 DEF w
<1>5. CASE f = "aarq"
    <2>1. m \in Aarqs BY <1>5 DEF MessageOf
    <2>2. w = EncodeApdu(Aarq, m) BY <1>1, <1>5 DEF WrittenNow
    <2>3. m \in AarqValue BY <2>1, MessagesAre
    <2>4. Len(w) <= Limit BY <2>1, <1>5, LengthsAssumption DEF w
    <2>5. Len(w) \in Nat BY <2>2, <2>3, AarqLength
    <2>6. Len(w) < Huge BY <2>4, <2>5, BelowLimit
    <2>7. FieldsAre(Aarq, m) BY <2>2, <2>3, <2>6, AarqIsBrief, AarqFieldsOf
    <2>8. w \in Seq(Byte) BY <2>2, <2>5, <2>6, <2>7, BothApdus, ApduBytes
    <2>9. Fitting(f, m, w) BY <1>5, <2>4, <2>5, <2>8 DEF Fitting
    <2> QED BY <2>9 DEF w
<1>6. CASE f = "aare"
    <2>1. m \in Aares BY <1>6 DEF MessageOf
    <2>2. w = EncodeApdu(Aare, m) BY <1>1, <1>6 DEF WrittenNow
    <2>3. m \in AareValue BY <2>1, MessagesAre
    <2>4. Len(w) <= Limit BY <2>1, <1>6, LengthsAssumption DEF w
    <2>5. Len(w) \in Nat BY <2>2, <2>3, AareLength
    <2>6. Len(w) < Huge BY <2>4, <2>5, BelowLimit
    <2>7. FieldsAre(Aare, m) BY <2>2, <2>3, <2>6, AareIsBrief, AareFieldsOf
    <2>8. w \in Seq(Byte) BY <2>2, <2>5, <2>6, <2>7, BothApdus, ApduBytes
    <2>9. Fitting(f, m, w) BY <1>6, <2>4, <2>5, <2>8 DEF Fitting
    <2> QED BY <2>9 DEF w
<1>7. CASE f = "ber"
    <2>1. m \in Elements BY <1>7 DEF MessageOf
    <2>2. w = WriteAll(m) BY <1>1, <1>7 DEF WrittenNow
    <2>3. m \in Seq(Tlvs) BY <2>1, MessagesAre
    <2>4. Len(w) <= Limit BY <2>1, <1>7, LengthsAssumption DEF w
    <2>5. Len(w) \in Nat BY <2>2, <2>3, ElementsLength
    <2>6. Len(w) < Huge BY <2>4, <2>5, BelowLimit
    <2>7. m \in Seq(Short(Huge)) BY <2>2, <2>3, <2>6, ElementsAreShort
    <2>8. w \in Seq(Byte) BY <2>2, <2>7, WriteAllType
    <2>9. Fitting(f, m, w) BY <1>7, <2>4, <2>5, <2>8 DEF Fitting
    <2> QED BY <2>9 DEF w
<1>8. CASE f = "block"
    <2>1. m \in Texts BY <1>8 DEF MessageOf
    <2>2. w = EncryptBlock(RoundKeys(m.key), m.text) BY <1>1, <1>8 DEF WrittenNow
    <2>3. m.key \in Block /\ m.text \in Block BY <2>1, MessagesAre
    <2>4. RoundKeys(m.key) \in Seq(Quad) BY <2>3, RoundKeysType
    <2>5. w \in Block BY <2>2, <2>3, <2>4, BlockIsDecrypted
    <2>6. w \in Seq(Byte) BY <2>5 DEF Block
    <2>7. Len(w) \in Nat BY <2>6, LenIs
    <2>8. Fitting(f, m, w) BY <1>8, <2>6, <2>7 DEF Fitting, Codecs
    <2> QED BY <2>8 DEF w
<1>9. CASE f = "sm4"
    <2>1. m \in Secrets BY <1>9 DEF MessageOf
    <2>2. w = GcmEncrypt(RoundKeys(m.key), m.nonce, m.aad, m.text, m.length)
        BY <1>1, <1>9 DEF WrittenNow
    <2>3. m \in Secret BY <2>1, MessagesAre
    <2>4. /\ RoundKeys(m.key) \in Seq(Quad)
          /\ m.nonce \in Seq(Byte) /\ m.aad \in Seq(Byte) /\ m.text \in Seq(Byte)
          /\ m.length \in Nat
        BY <2>3, SecretIs
    <2>5. w \in Seq(Byte) BY <2>2, <2>4, GcmEncryptType
    <2>6. Len(w) \in Nat BY <2>5, LenIs
    <2>7. Fitting(f, m, w) BY <1>9, <2>5, <2>6 DEF Fitting, Codecs
    <2> QED BY <2>7 DEF w
<1>10. CASE f = "control"
    <2>1. m \in Controls BY <1>10 DEF MessageOf
    <2>2. w = <<ToByte(m)>> BY <1>1, <1>10 DEF WrittenNow
    <2>3. m \in Control BY <2>1, MessagesAre
    <2>4. ToByte(m) \in Byte BY <2>3, ControlIsRead
    <2>5. w \in Seq(Byte) /\ Len(w) = 1 BY <2>2, <2>4
    <2>6. Fitting(f, m, w) BY <1>10, <2>5 DEF Fitting, Codecs
    <2> QED BY <2>6 DEF w
<1>11. CASE f = "obis"
    <2>1. m \in Codes BY <1>11 DEF MessageOf
    <2>2. w = ToCanonical(m) BY <1>1, <1>11 DEF WrittenNow
    <2>3. m \in ObisCodes BY <2>1, MessagesAre
    <2>4. w \in Seq(Nat)
        <3>1. w \in Seq(Char) BY <2>2, <2>3, CanonicalType
        <3> HIDE DEF w
        <3>2. \A i \in 1 .. Len(w) : w[i] \in Nat
            <4> TAKE i \in 1 .. Len(w)
            <4>1. w[i] \in Char BY <3>1, ElementType
            <4> QED BY <4>1 DEF Char
        <3> QED BY <3>1, <3>2
    <2>5. Fitting(f, m, w) BY <1>11, <2>4 DEF Fitting, Codecs
    <2> QED BY <2>5 DEF w
<1> QED BY <1>4, <1>5, <1>6, <1>7, <1>8, <1>9, <1>10, <1>11 DEF MessageOf

(***************************************************************************)
(* What a reader answers: a value, or one of the errors of the code.       *)
(***************************************************************************)
Answers(f, data, r) ==
    /\ ~r.ok => r.err \in Failures
    /\ f = "axdr" /\ r.ok => r.val \in Value[DepthOf(r.val, Len(data))]

LEMMA ObisAnswers ==
    ASSUME NEW text, NEW r \in FromString(text)
    PROVE  ~r.ok => r.err \in Failures
<1> DEFINE s == Scan(text)
           read == Append(s.numbers, s.number)
           Taking(numbers) == IF \A i \in 1 .. 6 : numbers[i] \in Byte
                              THEN Got(numbers, Len(text)) ELSE Error("InvalidObis")
           Rest == [1 .. 6 - Len(read) -> Leftovers]
<1>0. FromString(text) = IF s.at \in {"due", "error"} THEN {Error("InvalidObis")}
                         ELSE {Taking(read \o rest) : rest \in Rest}
    BY DEF FromString
<1>4. \A v : Taking(v) = Error("InvalidObis") \/ Taking(v) = Got(v, Len(text)) OBVIOUS
<1> HIDE DEF s, read, Taking, Rest
<1>5. r = Error("InvalidObis") \/ \E v : r = Taking(v) BY <1>0
<1>1. r = Error("InvalidObis") \/ \E v, n : r = Got(v, n) BY <1>4, <1>5
<1>2. CASE r = Error("InvalidObis")
    <2>1. r.err = "InvalidObis" BY <1>2, ErrorIs
    <2> QED BY <2>1 DEF Failures
<1>3. CASE \E v, n : r = Got(v, n) BY <1>3 DEF Got
<1> QED BY <1>1, <1>2, <1>3

LEMMA AarqAnswers ==
    ASSUME NEW data \in Seq(Byte), NEW r, r = DecodeApdu(Aarq, data)
    PROVE  ~r.ok => r.err \in Failures
<1> DEFINE m == Len(data)
           d == DecodeApdu(Aarq, data)
<1>1. m \in Nat BY LenIs
<1>2. Takes(Aarq, AarqBrief(m), Short(m)) BY <1>1, AarqTakes
<1>3. m > 0 => Aarq.blank \in AarqBrief(m) BY <1>1, AarqTakes
<1>4. d \in Result(AarqBrief(m)) BY <1>2, <1>3, ApduType
<1>5. r = d OBVIOUS
<1> HIDE DEF d, m
<1>6. r \in Result(AarqBrief(m)) BY <1>4, <1>5
<1> QED BY <1>6, ResultIs

LEMMA AareAnswers ==
    ASSUME NEW data \in Seq(Byte), NEW r, r = DecodeApdu(Aare, data)
    PROVE  ~r.ok => r.err \in Failures
<1> DEFINE m == Len(data)
           d == DecodeApdu(Aare, data)
<1>1. m \in Nat BY LenIs
<1>2. Takes(Aare, AareBrief(m), Short(m)) BY <1>1, AareTakes
<1>3. m > 0 => Aare.blank \in AareBrief(m) BY <1>1, AareTakes
<1>4. d \in Result(AareBrief(m)) BY <1>2, <1>3, ApduType
<1>5. r = d OBVIOUS
<1> HIDE DEF d, m
<1>6. r \in Result(AareBrief(m)) BY <1>4, <1>5
<1> QED BY <1>6, ResultIs

LEMMA AllAnswer ==
    ASSUME NEW f, NEW m, MessageOf(f, m), NEW data,
           f \in Codecs => data \in Seq(Byte) /\ Len(data) < Huge,
           NEW r \in Readings(f, m, data)
    PROVE  Answers(f, data, r)
<1>1. ReadNow(f, m, data, r) BY ReadFrom
<1>2. CASE f = "axdr"
    <2>1. data \in Seq(Byte) /\ Len(data) < Huge BY <1>2 DEF Codecs
    <2>2. r = Decode(data) BY <1>1, <1>2 DEF ReadNow
    <2>3. DecodesTo(r, data) BY <2>1, <2>2, DecodeType
    <2>4. ~r.ok => r.err \in Failures BY <2>3 DEF DecodesTo
    <2>5. ASSUME r.ok PROVE r.val \in Value[DepthOf(r.val, Len(data))]
        <3>1. Sound(r.val, r.pos) /\ r.pos \in Nat /\ r.pos <= Len(data)
            BY <2>3, <2>5 DEF DecodesTo
        <3>2. Len(data) \in Nat BY <2>1, LenIs
        <3>3. DeepAs(r.val, Len(data)) BY <3>1, <3>2, SoundIsDeep
        <3> QED BY <3>3 DEF DeepAs
    <2> QED BY <2>4, <2>5 DEF Answers
<1>3. CASE f = "aarq"
    <2>1. data \in Seq(Byte) BY <1>3 DEF Codecs
    <2>2. r = DecodeApdu(Aarq, data) BY <1>1, <1>3 DEF ReadNow
    <2>4. ~r.ok => r.err \in Failures BY <2>1, <2>2, AarqAnswers
    <2> QED BY <1>3, <2>4 DEF Answers
<1>4. CASE f = "aare"
    <2>1. data \in Seq(Byte) BY <1>4 DEF Codecs
    <2>2. r = DecodeApdu(Aare, data) BY <1>1, <1>4 DEF ReadNow
    <2>4. ~r.ok => r.err \in Failures BY <2>1, <2>2, AareAnswers
    <2> QED BY <1>4, <2>4 DEF Answers
<1>5. CASE f = "ber"
    <2>1. data \in Seq(Byte) BY <1>5 DEF Codecs
    <2>2. r = ReadAll(data) BY <1>1, <1>5 DEF ReadNow
    <2>3. ListWasRead(r, data) BY <2>1, <2>2, ReadAllType
    <2>4. ~r.ok => r.err \in Failures BY <2>3, ResultIs DEF ListWasRead
    <2> QED BY <1>5, <2>4 DEF Answers
<1>6. CASE f = "block"
    <2>1. r = Got(DecryptBlock(RoundKeys(m.key), data), 16) BY <1>1, <1>6 DEF ReadNow
    <2>2. r.ok BY <2>1, GotIs
    <2> QED BY <1>6, <2>2 DEF Answers
<1>7. CASE f = "sm4"
    <2>1. r = GcmDecrypt(RoundKeys(m.key), m.nonce, m.aad, data, m.length)
        BY <1>1, <1>7 DEF ReadNow
    <2>2. r = Error("DecryptionError") \/ \E v, n : r = Got(v, n) BY <2>1 DEF GcmDecrypt
    <2>3. CASE r = Error("DecryptionError")
        <3>1. r.err = "DecryptionError" BY <2>3, ErrorIs
        <3>2. ~r.ok => r.err \in Failures BY <3>1 DEF Failures
        <3> QED BY <1>7, <3>2 DEF Answers
    <2>4. CASE \E v, n : r = Got(v, n)
        <3>1. r.ok BY <2>4 DEF Got
        <3> QED BY <1>7, <3>1 DEF Answers
    <2> QED BY <2>2, <2>3, <2>4
<1>8. CASE f = "control"
    <2>1. r = Got(FromByte(data[1]), 1) BY <1>1, <1>8 DEF ReadNow
    <2>2. r.ok BY <2>1, GotIs
    <2> QED BY <1>8, <2>2 DEF Answers
<1>9. CASE f = "obis"
    <2>1. r \in FromString(data) BY <1>1, <1>9 DEF ReadNow
    <2>2. ~r.ok => r.err \in Failures BY <2>1, ObisAnswers
    <2> QED BY <1>9, <2>2 DEF Answers
<1> QED BY <1>2, <1>3, <1>4, <1>5, <1>6, <1>7, <1>8, <1>9 DEF MessageOf

(***************************************************************************)
(* The start of what is on the stream.                                     *)
(***************************************************************************)
Started(given1, data, E, n) ==
    /\ given1 \in Seq(E) /\ Len(given1) = n /\ IsPrefix(given1, data)
    /\ \A i \in 1 .. n : given1[i] = data[i]

LEMMA StartIs ==
    ASSUME NEW E, NEW data \in Seq(E), NEW n \in 0 .. Len(data)
    PROVE  Started(SubSeq(data, 1, n), data, E, n)
<1> DEFINE s == SubSeq(data, 1, n)
<1>1. n \in Nat /\ Len(data) \in Nat /\ n <= Len(data) /\ 0 + n <= Len(data) BY LenIs
<1>2. /\ SubSeq(data, 0 + 1, 0 + n) \in Seq(E)
      /\ Len(SubSeq(data, 0 + 1, 0 + n)) = n
      /\ \A j \in 1 .. n : SubSeq(data, 0 + 1, 0 + n)[j] = data[0 + j]
    BY <1>1, Part
<1>3. 0 + 1 = 1 /\ 0 + n = n BY <1>1
<1>4. s \in Seq(E) /\ Len(s) = n /\ \A j \in 1 .. n : s[j] = data[0 + j] BY <1>2, <1>3
<1>5. s = SubSeq(data, 1, n) OBVIOUS
<1> HIDE DEF s
<1>6. \A j \in 1 .. n : s[j] = data[j] BY <1>1, <1>4
<1>7. SubSeq(s, 1, Len(s)) = s BY <1>4
<1>8. Len(s) <= Len(data) BY <1>1, <1>4
<1>9. SubSeq(s, 1, Len(s)) = SubSeq(data, 1, Len(s)) BY <1>4, <1>5, <1>7
<1>10. IsPrefix(s, data) BY <1>8, <1>9 DEF IsPrefix
<1> QED BY <1>4, <1>6, <1>10 DEF Started, s

(***************************************************************************)
(* The stream is what was written, or that and a tail.                     *)
(***************************************************************************)
Followed(s, w) == s = w \/ \E bytes \in Tails : s = w \o bytes

StartsAs(s, w) ==
    /\ s \in Seq(Byte) /\ Holds(s, 0, w) /\ Len(w) <= Len(s)
    /\ Len(s) <= Huge \div 8 /\ Len(s) < Huge /\ Len(s) \in Nat
    /\ Len(s) = Len(w) => s = w

LEMMA FollowedIs ==
    ASSUME NEW w \in Seq(Byte), Len(w) <= Limit, NEW s, Followed(s, w)
    PROVE  StartsAs(s, w)
<1> DEFINE l == Limit
           h == Huge
           e == Huge \div 8
<1>1. h \in Nat /\ l \in Nat /\ e = 2 * l /\ e < h BY LimitIs
<1>2. Len(w) \in Nat /\ Len(w) <= l BY LenIs
<1>3. CASE s = w
    <2> HIDE DEF l, h, e
    <2>1. Len(s) <= e /\ Len(s) < h /\ Len(w) <= Len(s) /\ Len(s) \in Nat BY <1>1, <1>2, <1>3
    <2>2. Holds(s, 0, w) BY <1>3, HoldsItself
    <2> QED BY <1>3, <2>1, <2>2 DEF StartsAs, e, h
<1>4. CASE \E bytes \in Tails : s = w \o bytes
    <2>1. PICK t \in Tails : s = w \o t BY <1>4
    <2>2. t \in Seq(Byte) BY MessagesAre
    <2>3. Len(t) <= l /\ Len(t) \in Nat BY <2>2, LengthsAssumption, LenIs
    <2> HIDE DEF l, h, e
    <2>4. IsJoin(w \o t, Byte, w, t) BY <2>2, JoinIs
    <2>5. s \in Seq(Byte) /\ Len(s) = Len(w) + Len(t) /\ \A i \in 1 .. Len(w) : s[i] = w[i]
        BY <2>1, <2>4 DEF IsJoin
    <2>6. Len(s) <= e /\ Len(s) < h /\ Len(w) <= Len(s) /\ Len(s) \in Nat
        BY <1>1, <1>2, <2>3, <2>5
    <2>7. Holds(s, 0, w)
        <3>1. \A i \in 1 .. Len(w) : s[0 + i] = w[i] BY <1>2, <2>5
        <3> QED BY <1>2, <2>6, <3>1 DEF Holds
    <2>8. Len(s) = Len(w) => s = w BY <2>5, SameElements
    <2> QED BY <2>5, <2>6, <2>7, <2>8 DEF StartsAs, e, h
<1> QED BY <1>3, <1>4 DEF Followed

(***************************************************************************)
(* The invariant: the stream is what was written, with a tail or with one  *)
(* bit flipped, and what was read is a reading of its first bytes.         *)
(***************************************************************************)
Flipped(bytes, i, weight) == [bytes EXCEPT ![i] = FlipBit(@, weight)]

DamagedFormats == {"axdr", "aarq", "aare", "ber", "sm4"}

Streamed ==
    IF damaged
    THEN /\ format \in DamagedFormats
         /\ \E i \in 1 .. whole, weight \in Weights :
                stream = Flipped(Written(format, message), i, weight)
    ELSE /\ Followed(stream, Written(format, message))
         /\ format \notin {"axdr", "aarq", "aare"} => stream = Written(format, message)

ReadOf ==
    \E n \in 0 .. Len(stream) :
        /\ damaged => n = whole
        /\ format \in {"block", "control"} => n = whole
        /\ given = SubSeq(stream, 1, n)
        /\ got \in Readings(format, message, given)

WireInv ==
    /\ MessageOf(format, message)
    /\ damaged \in BOOLEAN
    /\ whole = Len(Written(format, message))
    /\ Streamed
    /\ IF got = Nothing THEN given = <<>> ELSE ReadOf

LEMMA FlippedIs ==
    ASSUME NEW w \in Seq(Byte), NEW i \in 1 .. Len(w), NEW weight \in Weights
    PROVE  /\ Flipped(w, i, weight) \in Seq(Byte)
           /\ Len(Flipped(w, i, weight)) = Len(w)
           /\ Flipped(w, i, weight)[i] # w[i]
           /\ \A k \in 1 .. Len(w) : k # i => Flipped(w, i, weight)[k] = w[k]
<1> DEFINE b == FlipBit(w[i], weight)
           s == Flipped(w, i, weight)
<1>1. w[i] \in Byte BY ElementType
<1>2. b \in Byte /\ b # w[i] BY <1>1, FlippedIsByte DEF Weights
<1>3. s = [w EXCEPT ![i] = b] BY DEF Flipped
<1> HIDE DEF b, s
<1>4. /\ s \in Seq(Byte) /\ Len(s) = Len(w) /\ s[i] = b
      /\ \A k \in 1 .. Len(w) : k # i => s[k] = w[k]
    BY <1>2, <1>3
<1> QED BY <1>2, <1>4 DEF s

(***************************************************************************)
(* What the invariant says of the stream of each format.                   *)
(***************************************************************************)
OnStream ==
    /\ whole \in Nat /\ whole <= Len(stream) /\ Len(stream) \in Nat
    /\ format \in Codecs => /\ stream \in Seq(Byte)
                            /\ Len(stream) <= Huge \div 8 /\ Len(stream) < Huge
    /\ format # "obis" => stream \in Seq(Byte)
    /\ format = "obis" => stream \in Seq(Nat)
    /\ ~damaged /\ Len(stream) = whole => stream = Written(format, message)
    /\ ~damaged /\ format \in Codecs => Holds(stream, 0, Written(format, message))

LEMMA StreamIs ==
    ASSUME MessageOf(format, message), whole = Len(Written(format, message)),
           damaged \in BOOLEAN, Streamed
    PROVE  OnStream
<1> DEFINE w == Written(format, message)
<1>1. Fitting(format, message, w) BY WrittenIs
<1>2. whole = Len(w) /\ (damaged \/ Followed(stream, w)) BY DEF Streamed
<1>3. ~damaged /\ format \notin {"axdr", "aarq", "aare"} => stream = w BY DEF Streamed
<1>4. damaged => /\ format \in DamagedFormats
                 /\ \E i \in 1 .. Len(w), weight \in Weights : stream = Flipped(w, i, weight)
    BY <1>2 DEF Streamed
<1>5. w = Written(format, message) OBVIOUS
<1> HIDE DEF w
<1>6. Len(w) \in Nat BY <1>1 DEF Fitting
<1>7. CASE damaged
    <2>1. format \in DamagedFormats BY <1>4, <1>7
    <2>2. w \in Seq(Byte) /\ format # "obis" BY <1>1, <2>1 DEF Fitting, DamagedFormats, Codecs
    <2>3. PICK i \in 1 .. Len(w), weight \in Weights : stream = Flipped(w, i, weight)
        BY <1>4, <1>7
    <2>4. stream \in Seq(Byte) /\ Len(stream) = Len(w) BY <2>2, <2>3, FlippedIs
    <2>5. ASSUME format \in Codecs PROVE Len(stream) <= Huge \div 8 /\ Len(stream) < Huge
        <3>1. Len(w) <= Limit BY <1>1, <2>5 DEF Fitting
        <3>2. Followed(w, w) BY DEF Followed
        <3>3. StartsAs(w, w) BY <2>2, <3>1, <3>2, FollowedIs
        <3>4. Len(w) <= Huge \div 8 /\ Len(w) < Huge BY <3>3 DEF StartsAs
        <3> QED BY <2>4, <3>4
    <2> QED BY <1>2, <1>6, <1>7, <2>2, <2>4, <2>5 DEF OnStream
<1>8. CASE ~damaged /\ format \in Codecs
    <2>1. w \in Seq(Byte) /\ Len(w) <= Limit BY <1>1, <1>8 DEF Fitting
    <2>2. StartsAs(stream, w) BY <1>2, <1>8, <2>1, FollowedIs
    <2>3. format # "obis" BY <1>8 DEF Codecs
    <2> QED BY <1>2, <1>5, <1>6, <1>8, <2>2, <2>3 DEF OnStream, StartsAs
<1>9. CASE ~damaged /\ format \notin Codecs
    <2>1. stream = w BY <1>3, <1>9 DEF Codecs
    <2>2. format \in {"sm4", "block", "control", "obis"} BY <1>9 DEF MessageOf, Codecs
    <2>3. /\ format # "obis" => w \in Seq(Byte)
          /\ format = "obis" => w \in Seq(Nat)
        BY <1>1, <2>2 DEF Fitting
    <2> QED BY <1>2, <1>5, <1>6, <1>9, <2>1, <2>3 DEF OnStream
<1> QED BY <1>7, <1>8, <1>9

LEMMA InvOnStream ==
    ASSUME WireInv
    PROVE  OnStream
BY StreamIs DEF WireInv

LEMMA StreamStarts ==
    ASSUME OnStream, NEW n \in 0 .. Len(stream)
    PROVE  /\ IsPrefix(SubSeq(stream, 1, n), stream) /\ Len(SubSeq(stream, 1, n)) = n
           /\ \A i \in 1 .. n : SubSeq(stream, 1, n)[i] = stream[i]
           /\ format # "obis" => SubSeq(stream, 1, n) \in Seq(Byte)
<1> DEFINE s == SubSeq(stream, 1, n)
<1>1. CASE format # "obis"
    <2>1. stream \in Seq(Byte) BY <1>1 DEF OnStream
    <2>2. Started(s, stream, Byte, n) BY <2>1, StartIs
    <2> QED BY <2>2 DEF Started
<1>2. CASE format = "obis"
    <2>1. stream \in Seq(Nat) BY <1>2 DEF OnStream
    <2>2. Started(s, stream, Nat, n) BY <2>1, StartIs
    <2> QED BY <1>2, <2>2 DEF Started
<1> QED BY <1>1, <1>2

LEMMA WireInvInit == Init => WireInv
<1> SUFFICES ASSUME Init PROVE WireInv
    OBVIOUS
<1>1. PICK f, m : MessageOf(f, m) /\ Write(f, m)
    <2>1. \E f, m : MessageOf(f, m) /\ Write(f, m)
        <3>1. \E m : \/ m \in Values /\ Write("axdr", m)
                     \/ m \in Aarqs /\ Write("aarq", m)
                     \/ m \in Aares /\ Write("aare", m)
                     \/ m \in Elements /\ Write("ber", m)
                     \/ m \in Texts /\ Write("block", m)
                     \/ m \in Secrets /\ Write("sm4", m)
                     \/ m \in Controls /\ Write("control", m)
                     \/ m \in Codes /\ Write("obis", m)
            BY DEF Init
        <3> QED BY <3>1 DEF MessageOf
    <2> QED BY <2>1
<1>2. MessageOf(format, message) /\ stream = Written(format, message)
    BY <1>1 DEF Write
<1>3. whole = Len(stream) /\ damaged = FALSE /\ given = <<>> /\ got = Nothing
    BY DEF Init
<1> QED BY <1>2, <1>3 DEF WireInv, Streamed, Followed

LEMMA WireInvNext == WireInv /\ [Next]_vars => WireInv'
<1> SUFFICES ASSUME WireInv, [Next]_vars PROVE WireInv'
    OBVIOUS
<1>0. OnStream BY InvOnStream
<1>1. ASSUME NEW bytes \in Tails, Follow(bytes) PROVE WireInv'
    <2>1. /\ format' = format /\ message' = message /\ whole' = whole
          /\ damaged' = damaged /\ ~damaged /\ got' = got /\ got = Nothing
          /\ format \in {"axdr", "aarq", "aare"} /\ Len(stream) = whole
          /\ stream' = stream \o bytes /\ given' = <<>>
        BY <1>1 DEF Follow
    <2>2. stream = Written(format, message) BY <1>0, <2>1 DEF OnStream
    <2>3. Followed(stream', Written(format', message')) BY <2>1, <2>2 DEF Followed
    <2>4. Streamed' BY <2>1, <2>3 DEF Streamed
    <2> QED BY <2>1, <2>4 DEF WireInv
<1>2. ASSUME NEW i \in 1 .. whole, NEW weight \in Weights, Damage(i, weight) PROVE WireInv'
    <2>1. /\ format' = format /\ message' = message /\ whole' = whole
          /\ damaged' = TRUE /\ ~damaged /\ got' = got /\ got = Nothing
          /\ format \in DamagedFormats /\ Len(stream) = whole
          /\ stream' = Flipped(stream, i, weight) /\ given' = given
        BY <1>2 DEF Damage, DamagedFormats, Flipped
    <2>2. stream = Written(format, message) BY <1>0, <2>1 DEF OnStream
    <2>3. stream' = Flipped(Written(format', message'), i, weight) BY <2>1, <2>2
    <2>4. Streamed' BY <2>1, <2>3 DEF Streamed
    <2> QED BY <2>1, <2>4 DEF WireInv
<1>3. ASSUME NEW n \in 0 .. Len(stream), Read(n) PROVE WireInv'
    <2>1. /\ format' = format /\ message' = message /\ whole' = whole
          /\ damaged' = damaged /\ stream' = stream
          /\ damaged => n = whole
          /\ format \in {"block", "control"} => n = whole
          /\ given' = SubSeq(stream, 1, n) /\ got' \in Readings(format, message, given')
        BY <1>3 DEF Read
    <2>2. Streamed' BY <2>1 DEF Streamed, WireInv
    <2>3. format \in Codecs => given' \in Seq(Byte) /\ Len(given') < Huge
        <3> SUFFICES ASSUME format \in Codecs PROVE given' \in Seq(Byte) /\ Len(given') < Huge
            OBVIOUS
        <3>1. format # "obis" BY DEF Codecs
        <3>2. given' \in Seq(Byte) /\ Len(given') = n BY <1>0, <2>1, <3>1, StreamStarts
        <3>3. n < Huge
            <4> DEFINE h == Huge
            <4>1. h \in Nat BY HugeIs
            <4>2. Len(stream) < h /\ Len(stream) \in Nat BY <1>0 DEF OnStream
            <4> HIDE DEF h
            <4>3. n < h BY <4>1, <4>2
            <4> QED BY <4>3 DEF h
        <3> QED BY <3>2, <3>3
    <2>4. Answers(format, given', got') BY <2>1, <2>3, AllAnswer DEF WireInv
    <2>5. got' # Nothing
        <3>1. ASSUME got' = Nothing PROVE FALSE
            <4>1. got'.ok = FALSE /\ got'.err = "nothing read" BY <3>1, ErrorIs DEF Nothing
            <4>2. "nothing read" \in Failures BY <2>4, <4>1 DEF Answers
            <4> QED BY <4>2 DEF Failures
        <3> QED BY <3>1
    <2>6. ReadOf' BY <2>1 DEF ReadOf
    <2> QED BY <2>1, <2>2, <2>5, <2>6 DEF WireInv
<1>4. CASE UNCHANGED vars
    BY <1>4 DEF WireInv, Streamed, ReadOf, vars
<1> QED BY <1>1, <1>2, <1>3, <1>4 DEF Next

LEMMA WireInvAlways == Spec => []WireInv
<1>1. Init => WireInv BY WireInvInit
<1>2. WireInv /\ [Next]_vars => WireInv' BY WireInvNext
<1> QED BY <1>1, <1>2, PTL DEF Spec

(***************************************************************************)
(* What the invariant says of what was read.                               *)
(***************************************************************************)
WasGiven(n) ==
    /\ n \in 0 .. Len(stream) /\ n \in Nat /\ Len(given) = n
    /\ damaged => n = whole
    /\ format \in {"block", "control"} => n = whole
    /\ given = SubSeq(stream, 1, n) /\ IsPrefix(given, stream)
    /\ \A i \in 1 .. n : given[i] = stream[i]
    /\ format # "obis" => given \in Seq(Byte)
    /\ format \in Codecs => Len(given) <= Huge \div 8 /\ Len(given) < Huge
    /\ got \in Readings(format, message, given)

LEMMA GivenIs ==
    ASSUME WireInv, got # Nothing
    PROVE  \E n : WasGiven(n)
<1>1. OnStream BY InvOnStream
<1>2. PICK n \in 0 .. Len(stream) :
          /\ damaged => n = whole
          /\ format \in {"block", "control"} => n = whole
          /\ given = SubSeq(stream, 1, n)
          /\ got \in Readings(format, message, given)
    BY DEF WireInv, ReadOf
<1>3. /\ IsPrefix(given, stream) /\ Len(given) = n
      /\ \A i \in 1 .. n : given[i] = stream[i]
      /\ format # "obis" => given \in Seq(Byte)
    BY <1>1, <1>2, StreamStarts
<1>4. n \in Nat BY <1>2
<1>5. ASSUME format \in Codecs PROVE n <= Huge \div 8 /\ n < Huge
    <2> DEFINE h == Huge
               e == Huge \div 8
    <2>1. h \in Nat /\ e \in Nat BY HugeIs
    <2>2. Len(stream) <= e /\ Len(stream) < h /\ Len(stream) \in Nat
        BY <1>1, <1>5 DEF OnStream
    <2> HIDE DEF h, e
    <2>3. n <= e /\ n < h BY <2>1, <2>2
    <2> QED BY <2>3 DEF h, e
<1>6. WasGiven(n) BY <1>2, <1>3, <1>4, <1>5 DEF WasGiven
<1> QED BY <1>6

LEMMA ErrorsAre == \A e \in Failures : e \in Errors
BY DEF Failures, Errors

(***************************************************************************)
(* The reader answers with a value of the bytes it was given, no deeper    *)
(* than half of them, or with one of the errors of the code.               *)
(***************************************************************************)
LEMMA InvTypeOK == WireInv => TypeOK
<1> SUFFICES ASSUME WireInv PROVE TypeOK
    OBVIOUS
<1>1. OnStream BY InvOnStream
<1>2. damaged \in BOOLEAN /\ whole <= Len(stream) BY <1>1 DEF WireInv, OnStream
<1>3. CASE got = Nothing
    <2>1. given = <<>> BY <1>3 DEF WireInv
    <2>2. 0 \in 0 .. Len(stream) BY <1>1 DEF OnStream
    <2>3. IsPrefix(SubSeq(stream, 1, 0), stream) /\ Len(SubSeq(stream, 1, 0)) = 0
        BY <1>1, <2>2, StreamStarts
    <2>4. SubSeq(stream, 1, 0) = <<>>
        <3> DEFINE s == SubSeq(stream, 1, 0)
        <3>1. \E E : stream \in Seq(E) BY <1>1 DEF OnStream
        <3>2. PICK E : stream \in Seq(E) BY <3>1
        <3>3. s \in Seq(E) /\ Len(s) = 0 BY <2>2, <3>2, StartIs DEF Started
        <3> HIDE DEF s
        <3>4. s = <<>> BY <3>3
        <3> QED BY <3>4 DEF s
    <2>5. IsPrefix(given, stream) BY <2>1, <2>3, <2>4
    <2>6. got.ok = FALSE /\ got.err = "nothing read" BY <1>3, ErrorIs DEF Nothing
    <2>7. got.err \in Errors BY <2>6 DEF Errors
    <2> QED BY <1>2, <2>5, <2>6, <2>7 DEF TypeOK
<1>4. CASE got # Nothing
    <2>1. \E n : WasGiven(n) BY <1>4, GivenIs
    <2>2. PICK n : WasGiven(n) BY <2>1
    <2>3. format \in Codecs => given \in Seq(Byte) /\ Len(given) < Huge
        BY <2>2 DEF WasGiven, Codecs
    <2>4. got \in Readings(format, message, given) /\ IsPrefix(given, stream)
        BY <2>2 DEF WasGiven
    <2>5. Answers(format, given, got) BY <2>3, <2>4, AllAnswer DEF WireInv
    <2>6. ~got.ok => got.err \in Errors BY <2>5, ErrorsAre DEF Answers
    <2>7. got.ok /\ format = "axdr" => got.val \in Value[DepthRead]
        BY <2>5 DEF Answers, DepthRead, DepthOf
    <2> QED BY <1>2, <2>4, <2>6, <2>7 DEF TypeOK
<1> QED BY <1>3, <1>4

(***************************************************************************)
(* Every state has the types of the model: what is read is a value the     *)
(* format has, or an error of the code.                                    *)
(***************************************************************************)
THEOREM TypeIsOK == Spec => []TypeOK
<1>1. Spec => []WireInv BY WireInvAlways
<1>2. WireInv => TypeOK BY InvTypeOK
<1> QED BY <1>1, <1>2, PTL

(***************************************************************************)
(* What was given holds the message that was written, or is cut of it.     *)
(***************************************************************************)
Given(n, w) ==
    /\ whole = Len(w) /\ w = Written(format, message)
    /\ n >= whole /\ format \in Codecs => Holds(given, 0, w)
    /\ n >= whole /\ format \notin Codecs => given = w /\ n = whole
    /\ n < whole => CutTo(given, w)
    /\ given = SubSeq(stream, 1, n)
    /\ format \notin Codecs => stream = w

LEMMA GivenOf ==
    ASSUME WireInv, NEW n, WasGiven(n), ~damaged
    PROVE  Given(n, Written(format, message))
<1> DEFINE w == Written(format, message)
<1>1. OnStream BY InvOnStream
<1>2. whole = Len(w) /\ whole \in Nat BY <1>1 DEF WireInv, OnStream
<1>3. /\ n \in 0 .. Len(stream) /\ n \in Nat /\ Len(given) = n /\ given = SubSeq(stream, 1, n)
      /\ \A i \in 1 .. n : given[i] = stream[i]
    BY DEF WasGiven
<1>4. w = Written(format, message) OBVIOUS
<1>5. format \notin Codecs => stream = w BY DEF WireInv, Streamed, Codecs
<1>6. whole <= Len(stream) /\ Len(stream) \in Nat BY <1>1 DEF OnStream
<1>7. format \in Codecs => Holds(stream, 0, w) BY <1>1 DEF OnStream
<1>8. \A i \in 1 .. whole : stream[i] = w[i]
    <2>1. CASE format \in Codecs
        <3>1. \A i \in 1 .. whole : stream[0 + i] = w[i] BY <1>2, <1>7, <2>1 DEF Holds
        <3> QED BY <1>2, <3>1
    <2>2. CASE format \notin Codecs BY <1>5, <2>2
    <2> QED BY <2>1, <2>2
<1> HIDE DEF w
<1>9. ASSUME n >= whole, format \in Codecs PROVE Holds(given, 0, w)
    <2>1. \A i \in 1 .. Len(w) : given[0 + i] = w[i] BY <1>2, <1>3, <1>8, <1>9
    <2> QED BY <1>2, <1>3, <1>9, <2>1 DEF Holds
<1>10. ASSUME n >= whole, format \notin Codecs PROVE given = w /\ n = whole
    <2>1. stream = w /\ n = Len(stream) BY <1>2, <1>3, <1>5, <1>6, <1>10
    <2>2. \E E : stream \in Seq(E) BY <1>1 DEF OnStream
    <2>3. PICK E : stream \in Seq(E) BY <2>2
    <2>4. SubSeq(stream, 1, Len(stream)) = stream BY <2>3
    <2> QED BY <1>2, <1>3, <2>1, <2>4
<1>11. ASSUME n < whole PROVE CutTo(given, w)
    <2>1. \A i \in 1 .. n : given[i] = w[i] BY <1>2, <1>3, <1>8, <1>11
    <2> QED BY <1>2, <1>3, <1>11, <2>1 DEF CutTo
<1> QED BY <1>2, <1>3, <1>4, <1>5, <1>9, <1>10, <1>11 DEF Given

(***************************************************************************)
(* A message that arrived in full is read as it was written, whatever its  *)
(* format, its lengths and its depth, and whatever follows it.             *)
(***************************************************************************)
LEMMA InvWholeIsRead == WireInv => WholeIsRead
<1> SUFFICES ASSUME WireInv, got # Nothing, ~damaged, Len(given) >= whole
             PROVE  got = Got(Expected, whole)
    BY DEF WholeIsRead
<1> DEFINE w == Written(format, message)
           m == message
<1>1. \E n : WasGiven(n) BY GivenIs
<1>2. PICK n : WasGiven(n) BY <1>1
<1>3. Given(n, w) BY <1>2, GivenOf
<1>4. /\ got \in Readings(format, m, given) /\ Len(given) = n
      /\ format # "obis" => given \in Seq(Byte)
      /\ format \in Codecs => Len(given) < Huge
    BY <1>2 DEF WasGiven
<1>5. /\ whole = Len(w) /\ n >= whole
      /\ format \in Codecs => Holds(given, 0, w)
      /\ format \notin Codecs => given = w /\ n = whole
    BY <1>3, <1>4 DEF Given
<1>6. WrittenNow(format, m, w) BY WrittenFor
<1>7. ReadNow(format, m, given, got) BY <1>4, ReadFrom
<1>8. MessageOf(format, m) BY DEF WireInv
<1>9. Fitting(format, m, w) BY <1>8, WrittenIs
<1> HIDE DEF w
<1>10. CASE format = "axdr"
    <2>1. m \in Value[MaxDepth] /\ MaxDepth \in Nat BY <1>8, <1>10, MessagesAre DEF MessageOf
    <2>2. w = Encoding[MaxDepth][m] /\ got = Decode(given) BY <1>6, <1>7, <1>10 DEF WrittenNow, ReadNow
    <2>3. Holds(given, 0, Encoding[MaxDepth][m]) /\ given \in Seq(Byte) /\ Len(given) < Huge
        BY <1>4, <1>5, <1>10, <2>2 DEF Codecs
    <2>4. Decode(given) = Got(AsDecoded[MaxDepth][m], Len(Encoding[MaxDepth][m]))
        BY <2>1, <2>3, ValueIsRead
    <2>5. Expected = AsDecoded[MaxDepth][m] BY <1>10 DEF Expected
    <2> QED BY <1>5, <2>2, <2>4, <2>5
<1>11. CASE format = "aarq"
    <2>1. m \in AarqValue BY <1>8, <1>11, MessagesAre DEF MessageOf
    <2>2. w = EncodeApdu(Aarq, m) /\ got = DecodeApdu(Aarq, given)
        BY <1>6, <1>7, <1>11 DEF WrittenNow, ReadNow
    <2>3. Holds(given, 0, EncodeApdu(Aarq, m)) /\ given \in Seq(Byte)
        BY <1>4, <1>5, <1>11, <2>2 DEF Codecs
    <2>4. Len(EncodeApdu(Aarq, m)) < Huge BY <1>9, <1>11, <2>2, BelowLimit DEF Fitting, Codecs
    <2>5. DecodeApdu(Aarq, given) = Got(m, Len(EncodeApdu(Aarq, m)))
        BY <2>1, <2>3, <2>4, AarqIsRead
    <2>6. Expected = m BY <1>11 DEF Expected
    <2> QED BY <1>5, <2>2, <2>5, <2>6
<1>12. CASE format = "aare"
    <2>1. m \in AareValue BY <1>8, <1>12, MessagesAre DEF MessageOf
    <2>2. w = EncodeApdu(Aare, m) /\ got = DecodeApdu(Aare, given)
        BY <1>6, <1>7, <1>12 DEF WrittenNow, ReadNow
    <2>3. Holds(given, 0, EncodeApdu(Aare, m)) /\ given \in Seq(Byte)
        BY <1>4, <1>5, <1>12, <2>2 DEF Codecs
    <2>4. Len(EncodeApdu(Aare, m)) < Huge BY <1>9, <1>12, <2>2, BelowLimit DEF Fitting, Codecs
    <2>5. DecodeApdu(Aare, given)
            = Got([m EXCEPT !.mechanism = <<>>], Len(EncodeApdu(Aare, m)))
        BY <2>1, <2>3, <2>4, AareIsRead
    <2>6. Expected = [m EXCEPT !.mechanism = <<>>] BY <1>12 DEF Expected
    <2> QED BY <1>5, <2>2, <2>5, <2>6
<1>13. CASE format = "ber"
    <2>1. m \in Seq(Tlvs) BY <1>8, <1>13, MessagesAre DEF MessageOf
    <2>2. w = WriteAll(m) /\ got = ReadAll(given) BY <1>6, <1>7, <1>13 DEF WrittenNow, ReadNow
    <2>3. given = w
        <3>1. stream = w /\ given = SubSeq(stream, 1, n) /\ n \in 0 .. Len(stream)
            BY <1>2, <1>13 DEF WireInv, Streamed, WasGiven, w
        <3>2. w \in Seq(Byte) BY <1>9, <1>13 DEF Fitting, Codecs
        <3>3. n = Len(w) /\ Len(w) \in Nat BY <1>5, <3>1, <3>2, LenIs
        <3>4. SubSeq(w, 1, Len(w)) = w BY <3>2
        <3> QED BY <3>1, <3>3, <3>4
    <2>4. Len(WriteAll(m)) < Huge BY <1>9, <1>13, <2>2, BelowLimit DEF Fitting, Codecs
    <2>5. m \in Seq(Short(Huge)) BY <2>1, <2>4, ElementsAreShort
    <2>6. ReadAll(WriteAll(m)) = Got(m, Len(WriteAll(m))) BY <2>4, <2>5, AllAreRead
    <2>7. Expected = m BY <1>13 DEF Expected
    <2> QED BY <1>5, <2>2, <2>3, <2>6, <2>7
<1>14. CASE format = "block"
    <2>1. m.key \in Block /\ m.text \in Block BY <1>8, <1>14, MessagesAre DEF MessageOf
    <2>2. w = EncryptBlock(RoundKeys(m.key), m.text)
          /\ got = Got(DecryptBlock(RoundKeys(m.key), given), 16)
        BY <1>6, <1>7, <1>14 DEF WrittenNow, ReadNow
    <2>3. given = w BY <1>5, <1>14 DEF Codecs
    <2>4. RoundKeys(m.key) \in Seq(Quad) BY <2>1, RoundKeysType
    <2>5. /\ EncryptBlock(RoundKeys(m.key), m.text) \in Block
          /\ DecryptBlock(RoundKeys(m.key), EncryptBlock(RoundKeys(m.key), m.text)) = m.text
        BY <2>1, <2>4, BlockIsDecrypted
    <2>6. Len(w) = 16 BY <2>2, <2>5 DEF Block
    <2>7. Expected = m.text BY <1>14 DEF Expected
    <2> QED BY <1>5, <2>2, <2>3, <2>5, <2>6, <2>7
<1>15. CASE format = "sm4"
    <2>1. m \in Secret BY <1>8, <1>15, MessagesAre DEF MessageOf
    <2>2. w = GcmEncrypt(RoundKeys(m.key), m.nonce, m.aad, m.text, m.length)
          /\ got = GcmDecrypt(RoundKeys(m.key), m.nonce, m.aad, given, m.length)
        BY <1>6, <1>7, <1>15 DEF WrittenNow, ReadNow
    <2>3. given = w BY <1>5, <1>15 DEF Codecs
    <2>4. /\ RoundKeys(m.key) \in Seq(Quad)
          /\ m.nonce \in Seq(Byte) /\ m.aad \in Seq(Byte) /\ m.text \in Seq(Byte)
          /\ m.length \in Nat \ {0} /\ Len(m.nonce) <= 16
        BY <2>1, SecretIs
    <2> DEFINE k == RoundKeys(m.key)
    <2>5. LET out == GcmEncrypt(k, m.nonce, m.aad, m.text, m.length)
          IN  GcmDecrypt(k, m.nonce, m.aad, out, m.length) = Got(m.text, Len(out))
        BY <2>4, MessageIsDecrypted
    <2>6. GcmDecrypt(k, m.nonce, m.aad, w, m.length) = Got(m.text, Len(w)) BY <2>2, <2>5
    <2>7. Expected = m.text BY <1>15 DEF Expected
    <2> QED BY <1>5, <2>2, <2>3, <2>6, <2>7
<1>16. CASE format = "control"
    <2>1. m \in Control BY <1>8, <1>16, MessagesAre DEF MessageOf
    <2>2. w = <<ToByte(m)>> /\ got = Got(FromByte(given[1]), 1)
        BY <1>6, <1>7, <1>16 DEF WrittenNow, ReadNow
    <2>3. given = w BY <1>5, <1>16 DEF Codecs
    <2>4. given[1] = ToByte(m) /\ Len(w) = 1 BY <2>2, <2>3
    <2>5. FromByte(ToByte(m)) = m BY <2>1, ControlIsRead
    <2>6. Expected = m BY <1>16 DEF Expected
    <2> QED BY <1>5, <2>2, <2>4, <2>5, <2>6
<1>17. CASE format = "obis"
    <2>1. m \in ObisCodes BY <1>8, <1>17, MessagesAre DEF MessageOf
    <2>2. w = ToCanonical(m) /\ got \in FromString(given)
        BY <1>6, <1>7, <1>17 DEF WrittenNow, ReadNow
    <2>3. given = w BY <1>5, <1>17 DEF Codecs
    <2>4. w \in Seq(Char) BY <2>1, <2>2, CanonicalType
    <2> DEFINE k == Len(w)
    <2>5. k \in Nat /\ k \in 0 .. k /\ SubSeq(w, 1, k) = w BY <2>4
    <2>6. k = Len(ToCanonical(m)) BY <2>2
    <2>7. got \in FromString(SubSeq(ToCanonical(m), 1, k)) BY <2>2, <2>3, <2>5
    <2> HIDE DEF k
    <2>8. k \in 0 .. Len(ToCanonical(m)) BY <2>5, <2>6
    <2>9. got = Got(m, k) BY <2>1, <2>6, <2>7, <2>8, ObisIsRead
    <2>10. Expected = m BY <1>17 DEF Expected
    <2> QED BY <1>5, <2>9, <2>10 DEF k
<1> QED BY <1>8, <1>10, <1>11, <1>12, <1>13, <1>14, <1>15, <1>16, <1>17 DEF MessageOf

(***************************************************************************)
(* A message that arrived in full is read as it was written, whatever its  *)
(* format, its lengths, its depth and whatever follows it.                 *)
(***************************************************************************)
THEOREM WholeMessagesAreRead == Spec => []WholeIsRead
<1>1. Spec => []WireInv BY WireInvAlways
<1>2. WireInv => WholeIsRead BY InvWholeIsRead
<1> QED BY <1>1, <1>2, PTL

(***************************************************************************)
(* A message that is cut is refused, or what is read is a beginning of it. *)
(***************************************************************************)
LEMMA InvCutIsABeginning == WireInv => CutIsABeginning
<1> SUFFICES ASSUME WireInv, ~damaged, Len(given) < whole, got.ok
             PROVE  CASE format = "axdr" -> CutOf[MaxDepth][<<got.val, Expected>>]
                      [] format \in {"ber", "sm4"} -> IsStrictPrefix(got.val, Expected)
                      [] format = "obis" -> IsPrefix(given, ToCanonical(got.val))
                      [] format \in {"aarq", "aare"} -> FALSE
    BY DEF CutIsABeginning
<1> DEFINE w == Written(format, message)
           m == message
<1>0. got # Nothing
    <2>1. ASSUME got = Nothing PROVE FALSE
        <3>1. got.ok = FALSE BY <2>1, ErrorIs DEF Nothing
        <3> QED BY <3>1
    <2> QED BY <2>1
<1>1. \E n : WasGiven(n) BY <1>0, GivenIs
<1>2. PICK n : WasGiven(n) BY <1>1
<1>3. Given(n, w) BY <1>2, GivenOf
<1>4. /\ got \in Readings(format, m, given) /\ Len(given) = n /\ n \in Nat
      /\ format # "obis" => given \in Seq(Byte)
      /\ format \in Codecs => Len(given) < Huge
      /\ format \in {"block", "control"} => n = whole
      /\ given = SubSeq(stream, 1, n)
    BY <1>2 DEF WasGiven
<1>5. whole = Len(w) /\ n < whole /\ CutTo(given, w) /\ (format \notin Codecs => stream = w)
    BY <1>3, <1>4 DEF Given
<1>6. WrittenNow(format, m, w) BY WrittenFor
<1>7. ReadNow(format, m, given, got) BY <1>4, ReadFrom
<1>8. MessageOf(format, m) BY DEF WireInv
<1>9. Fitting(format, m, w) BY <1>8, WrittenIs
<1> HIDE DEF w
<1>10. CASE format = "axdr"
    <2>1. m \in Value[MaxDepth] /\ MaxDepth \in Nat BY <1>8, <1>10, MessagesAre DEF MessageOf
    <2>2. w = Encoding[MaxDepth][m] /\ got = Decode(given) BY <1>6, <1>7, <1>10 DEF WrittenNow, ReadNow
    <2>3. given \in Seq(Byte) /\ Len(given) < Huge BY <1>4, <1>10 DEF Codecs
    <2>4. CutTo(given, Encoding[MaxDepth][m]) /\ Len(given) < Len(Encoding[MaxDepth][m])
        BY <1>4, <1>5, <2>2
    <2>5. Decode(given).ok BY <2>2
    <2>6. CutOf[MaxDepth][<<Decode(given).val, AsDecoded[MaxDepth][m]>>]
        BY <2>1, <2>3, <2>4, <2>5, ValueOnCut
    <2>7. Expected = AsDecoded[MaxDepth][m] BY <1>10 DEF Expected
    <2>8. CutOf[MaxDepth][<<got.val, Expected>>] BY <2>2, <2>6, <2>7
    <2> QED BY <1>10, <2>8
<1>11. CASE format = "aarq"
    <2>1. m \in AarqValue BY <1>8, <1>11, MessagesAre DEF MessageOf
    <2>2. w = EncodeApdu(Aarq, m) /\ got = DecodeApdu(Aarq, given)
        BY <1>6, <1>7, <1>11 DEF WrittenNow, ReadNow
    <2>3. given \in Seq(Byte) BY <1>4, <1>11
    <2>4. Len(EncodeApdu(Aarq, m)) < Huge BY <1>9, <1>11, <2>2, BelowLimit DEF Fitting, Codecs
    <2>5. CutTo(given, EncodeApdu(Aarq, m)) /\ Len(given) < Len(EncodeApdu(Aarq, m))
        BY <1>4, <1>5, <2>2
    <2>6. ~DecodeApdu(Aarq, given).ok BY <2>1, <2>3, <2>4, <2>5, AarqOnCut
    <2> QED BY <2>2, <2>6
<1>12. CASE format = "aare"
    <2>1. m \in AareValue BY <1>8, <1>12, MessagesAre DEF MessageOf
    <2>2. w = EncodeApdu(Aare, m) /\ got = DecodeApdu(Aare, given)
        BY <1>6, <1>7, <1>12 DEF WrittenNow, ReadNow
    <2>3. given \in Seq(Byte) BY <1>4, <1>12
    <2>4. Len(EncodeApdu(Aare, m)) < Huge BY <1>9, <1>12, <2>2, BelowLimit DEF Fitting, Codecs
    <2>5. CutTo(given, EncodeApdu(Aare, m)) /\ Len(given) < Len(EncodeApdu(Aare, m))
        BY <1>4, <1>5, <2>2
    <2>6. ~DecodeApdu(Aare, given).ok BY <2>1, <2>3, <2>4, <2>5, AareOnCut
    <2> QED BY <2>2, <2>6
<1>13. CASE format = "ber"
    <2>1. m \in Seq(Tlvs) BY <1>8, <1>13, MessagesAre DEF MessageOf
    <2>2. w = WriteAll(m) /\ got = ReadAll(given) BY <1>6, <1>7, <1>13 DEF WrittenNow, ReadNow
    <2>3. given \in Seq(Byte) BY <1>4, <1>13
    <2>4. Len(WriteAll(m)) < Huge BY <1>9, <1>13, <2>2, BelowLimit DEF Fitting, Codecs
    <2>5. m \in Seq(Short(Huge)) BY <2>1, <2>4, ElementsAreShort
    <2>6. CutTo(given, WriteAll(m)) /\ Len(given) < Len(WriteAll(m)) BY <1>4, <1>5, <2>2
    <2>7. ReadAll(given).ok BY <2>2
    <2>8. IsStrictPrefix(ReadAll(given).val, m) BY <2>3, <2>4, <2>5, <2>6, <2>7, AllOnCut
    <2>9. Expected = m BY <1>13 DEF Expected
    <2>10. IsStrictPrefix(got.val, Expected) BY <2>2, <2>8, <2>9
    <2> QED BY <1>13, <2>10
<1>14. CASE format \in {"block", "control"}
    <2>1. n = whole BY <1>4, <1>14
    <2> QED BY <1>4, <1>5, <2>1
<1>15. CASE format = "obis"
    <2>1. m \in ObisCodes BY <1>8, <1>15, MessagesAre DEF MessageOf
    <2>2. w = ToCanonical(m) /\ got \in FromString(given)
        BY <1>6, <1>7, <1>15 DEF WrittenNow, ReadNow
    <2>3. given = SubSeq(w, 1, n) BY <1>4, <1>5, <1>15 DEF Codecs
    <2>5. n \in 0 .. Len(ToCanonical(m))
        <3>1. w \in Seq(Char) BY <2>1, <2>2, CanonicalType
        <3>2. Len(w) \in Nat BY <3>1
        <3> QED BY <1>4, <1>5, <2>2, <3>2
    <2>6. got \in FromString(SubSeq(ToCanonical(m), 1, n)) BY <2>2, <2>3
    <2>7. IsPrefix(SubSeq(ToCanonical(m), 1, n), ToCanonical(got.val))
        BY <2>1, <2>5, <2>6, ObisIsRead
    <2>8. IsPrefix(given, ToCanonical(got.val)) BY <2>2, <2>3, <2>7
    <2> QED BY <1>15, <2>8
<1>16. CASE format = "sm4"
    <2>1. m \in Secret BY <1>8, <1>16, MessagesAre DEF MessageOf
    <2> DEFINE k == RoundKeys(m.key)
    <2>2. w = GcmEncrypt(k, m.nonce, m.aad, m.text, m.length)
          /\ got = GcmDecrypt(k, m.nonce, m.aad, given, m.length)
        BY <1>6, <1>7, <1>16 DEF WrittenNow, ReadNow
    <2>3. given \in Seq(Byte) BY <1>4, <1>16
    <2>4. /\ k \in Seq(Quad)
          /\ m.nonce \in Seq(Byte) /\ m.aad \in Seq(Byte) /\ m.text \in Seq(Byte)
          /\ m.length \in Nat \ {0} /\ Len(m.nonce) <= 16
        BY <2>1, SecretIs
    <2> HIDE DEF k
    <2>5. CutTo(given, GcmEncrypt(k, m.nonce, m.aad, m.text, m.length))
          /\ Len(given) < Len(GcmEncrypt(k, m.nonce, m.aad, m.text, m.length))
        BY <1>4, <1>5, <2>2
    <2>6. GcmDecrypt(k, m.nonce, m.aad, given, m.length).ok BY <2>2
    <2>7. IsStrictPrefix(GcmDecrypt(k, m.nonce, m.aad, given, m.length).val, m.text)
        BY <2>3, <2>4, <2>5, <2>6, CutIsABeginningOfText
    <2>8. Expected = m.text BY <1>16 DEF Expected
    <2>9. IsStrictPrefix(got.val, Expected) BY <2>2, <2>7, <2>8
    <2> QED BY <1>16, <2>9
<1> QED BY <1>8, <1>10, <1>11, <1>12, <1>13, <1>14, <1>15, <1>16 DEF MessageOf

(***************************************************************************)
(* A message that is cut is refused, or what is read of it is a beginning  *)
(* of it: fewer items or elements, a shorter text of the counter mode, or  *)
(* an OBIS code whose text begins as what arrived; never anything else.    *)
(***************************************************************************)
THEOREM CutsAreBeginnings == Spec => []CutIsABeginning
<1>1. Spec => []WireInv BY WireInvAlways
<1>2. WireInv => CutIsABeginning BY InvCutIsABeginning
<1> QED BY <1>1, <1>2, PTL

(***************************************************************************)
(* Whatever bytes arrive, what they are decoded to can be written and is   *)
(* read as itself, and it holds less than arrived.                         *)
(***************************************************************************)
LEMMA InvDecodedIsSound == WireInv => DecodedIsSound
<1> SUFFICES ASSUME WireInv, got.ok PROVE DecodedIsSound
    BY DEF DecodedIsSound
<1> DEFINE m == message
           d == DepthRead
<1>0. got # Nothing
    <2>1. ASSUME got = Nothing PROVE FALSE
        <3>1. got.ok = FALSE BY <2>1, ErrorIs DEF Nothing
        <3> QED BY <3>1
    <2> QED BY <2>1
<1>1. \E n : WasGiven(n) BY <1>0, GivenIs
<1>2. PICK n : WasGiven(n) BY <1>1
<1>3. got \in Readings(format, m, given) BY <1>2 DEF WasGiven
<1>4. format \in Codecs => given \in Seq(Byte) /\ Len(given) <= Huge \div 8
    BY <1>2 DEF WasGiven, Codecs
<1>5. ReadNow(format, m, given, got) BY <1>3, ReadFrom
<1>6. ASSUME format = "axdr"
      PROVE  Decode(Encoding[d][got.val]).val = got.val /\ Len(Contents[d][got.val]) < Len(given)
    <2>1. got = Decode(given) BY <1>5, <1>6 DEF ReadNow
    <2>2. given \in Seq(Byte) /\ Len(given) <= Huge \div 8 BY <1>4, <1>6 DEF Codecs
    <2>3. Len(given) \in Nat BY <2>2, LenIs
    <2>4. d = DepthOf(got.val, Len(given)) BY DEF DepthRead, DepthOf
    <2>5. d \in Nat BY <2>3, <2>4 DEF DepthOf
    <2> HIDE DEF d
    <2>6. Decode(given).ok /\ d = DepthOf(Decode(given).val, Len(given)) BY <2>1, <2>4
    <2>7. /\ Decode(Encoding[d][Decode(given).val]).val = Decode(given).val
          /\ Len(Contents[d][Decode(given).val]) < Len(given)
        BY <2>2, <2>5, <2>6, DecodedValueIsSound
    <2> QED BY <2>1, <2>7
<1>7. ASSUME format = "aarq"
      PROVE  DecodeApdu(Aarq, EncodeApdu(Aarq, got.val)).val = got.val
    <2>1. got = DecodeApdu(Aarq, given) BY <1>5, <1>7 DEF ReadNow
    <2>2. given \in Seq(Byte) /\ Len(given) <= Huge \div 8 BY <1>4, <1>7 DEF Codecs
    <2>3. DecodeApdu(Aarq, given).ok BY <2>1
    <2>4. DecodeApdu(Aarq, EncodeApdu(Aarq, DecodeApdu(Aarq, given).val)).val
             = DecodeApdu(Aarq, given).val
        BY <2>2, <2>3, AarqIsSound
    <2> QED BY <2>1, <2>4
<1>8. ASSUME format = "aare"
      PROVE  DecodeApdu(Aare, EncodeApdu(Aare, got.val)).val = got.val
    <2>1. got = DecodeApdu(Aare, given) BY <1>5, <1>8 DEF ReadNow
    <2>2. given \in Seq(Byte) /\ Len(given) <= Huge \div 8 BY <1>4, <1>8 DEF Codecs
    <2>3. DecodeApdu(Aare, given).ok BY <2>1
    <2>4. DecodeApdu(Aare, EncodeApdu(Aare, DecodeApdu(Aare, given).val)).val
             = DecodeApdu(Aare, given).val
        BY <2>2, <2>3, AareIsSound
    <2> QED BY <2>1, <2>4
<1> QED BY <1>6, <1>7, <1>8 DEF DecodedIsSound

(***************************************************************************)
(* What any bytes are decoded to, damaged or not, is read as itself once   *)
(* it is written, and holds less than arrived.                             *)
(***************************************************************************)
THEOREM DecodedValuesAreSound == Spec => []DecodedIsSound
<1>1. Spec => []WireInv BY WireInvAlways
<1>2. WireInv => DecodedIsSound BY InvDecodedIsSound
<1> QED BY <1>1, <1>2, PTL

(***************************************************************************)
(* A message of the counter mode with a bit flipped, wherever, is refused. *)
(***************************************************************************)
LEMMA InvDamageRefused == WireInv => DamageRefused
<1> SUFFICES ASSUME WireInv, damaged, format = "sm4" PROVE ~got.ok
    BY DEF DamageRefused
<1> DEFINE m == message
           k == RoundKeys(m.key)
           w == Written(format, message)
<1>1. CASE got = Nothing
    <2>1. got.ok = FALSE BY <1>1, ErrorIs DEF Nothing
    <2> QED BY <2>1
<1>2. CASE got # Nothing
    <2>1. \E n : WasGiven(n) BY <1>2, GivenIs
    <2>2. PICK n : WasGiven(n) BY <2>1
    <2>3. /\ n = whole /\ Len(given) = n /\ given \in Seq(Byte)
          /\ \A i \in 1 .. n : given[i] = stream[i]
          /\ got \in Readings(format, m, given)
        BY <2>2 DEF WasGiven
    <2>4. m \in Secrets BY DEF WireInv, MessageOf
    <2>5. m \in Secret BY <2>4, MessagesAre
    <2>6. /\ k \in Seq(Quad)
          /\ m.nonce \in Seq(Byte) /\ m.aad \in Seq(Byte) /\ m.text \in Seq(Byte)
          /\ m.length \in Nat \ {0} /\ m.length \in Nat /\ Len(m.nonce) <= 16
        BY <2>5, SecretIs
    <2>7. WrittenNow(format, m, w) BY WrittenFor
    <2>8. w = GcmEncrypt(k, m.nonce, m.aad, m.text, m.length) BY <2>7 DEF WrittenNow
    <2>9. ReadNow(format, m, given, got) BY <2>3, ReadFrom
    <2>10. got = GcmDecrypt(k, m.nonce, m.aad, given, m.length) BY <2>9 DEF ReadNow
    <2>11. whole = Len(w) /\ \E i \in 1 .. whole, weight \in Weights :
                                 stream = Flipped(w, i, weight)
        BY DEF WireInv, Streamed
    <2>12. PICK i \in 1 .. Len(w), weight \in Weights : stream = Flipped(w, i, weight)
        BY <2>11
    <2>13. OneChanged(given, w)
        <3>1. w \in Seq(Byte)
            <4>1. GcmEncrypt(k, m.nonce, m.aad, m.text, m.length) \in Seq(Byte)
                <5> HIDE DEF k
                <5> QED BY <2>6, GcmEncryptType
            <4> QED BY <2>8, <4>1
        <3> HIDE DEF w
        <3>2. /\ Flipped(w, i, weight)[i] # w[i]
              /\ \A j \in 1 .. Len(w) : j # i => Flipped(w, i, weight)[j] = w[j]
            BY <3>1, FlippedIs
        <3>3. Len(given) = Len(w) BY <2>3, <2>11
        <3>4. \A j \in 1 .. Len(w) : given[j] = Flipped(w, i, weight)[j]
            BY <2>3, <2>11, <2>12
        <3> QED BY <3>2, <3>3, <3>4 DEF OneChanged
    <2> HIDE DEF w, k
    <2>14. OneChanged(given, GcmEncrypt(k, m.nonce, m.aad, m.text, m.length))
        BY <2>8, <2>13
    <2>17. GcmDecrypt(k, m.nonce, m.aad, given, m.length) = Error("DecryptionError")
        BY <2>3, <2>6, <2>14, ChangeIsRefused
    <2>18. got = Error("DecryptionError") BY <2>10, <2>17
    <2>19. got.ok = FALSE BY <2>18, ErrorIs
    <2> QED BY <2>19
<1> QED BY <1>1, <1>2

(***************************************************************************)
(* A message of the counter mode with any bit flipped is refused.          *)
(***************************************************************************)
THEOREM DamageIsRefused == Spec => []DamageRefused
<1>1. Spec => []WireInv BY WireInvAlways
<1>2. WireInv => DamageRefused BY InvDamageRefused
<1> QED BY <1>1, <1>2, PTL

(***************************************************************************)
(* The counters of a message are its nonce plus 0, 1, 2 and so on, with    *)
(* every carry of the four last bytes.                                     *)
(***************************************************************************)
LEMMA InvCounterCarries == WireInv => CounterCarries
<1> SUFFICES ASSUME WireInv, format = "sm4" PROVE CounterCarries
    BY DEF CounterCarries
<1>1. message \in Secrets BY DEF WireInv, MessageOf
<1>2. message \in Secret BY <1>1, MessagesAre
<1>3. message.nonce \in Seq(Byte) /\ message.text \in Seq(Byte) BY <1>2, SecretIs
<1>4. BlocksOf(message.text) \in Nat
    <2> DEFINE n == Len(message.text)
    <2>1. n \in Nat BY <1>3, LenIs
    <2> HIDE DEF n
    <2>2. (n + 15) \div 16 \in Nat BY <2>1
    <2> QED BY <2>2 DEF BlocksOf, n
<1> QED BY <1>3, <1>4, CountersCarry DEF CounterCarries

(***************************************************************************)
(* The counters of a message carry through all of the last four bytes, for *)
(* every nonce and every length of the text.                               *)
(***************************************************************************)
THEOREM CountersAlwaysCarry == Spec => []CounterCarries
<1>1. Spec => []WireInv BY WireInvAlways
<1>2. WireInv => CounterCarries BY InvCounterCarries
<1> QED BY <1>1, <1>2, PTL
=============================================================================
