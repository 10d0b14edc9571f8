---------------------------- MODULE Codec_proofs ----------------------------
(***************************************************************************)
(* Theorems about the codecs, for every input: the block cipher and its    *)
(* counter mode, then lengths, the decoders' loops, BER elements and the   *)
(* APDUs made of them.                                                     *)
(***************************************************************************)
EXTENDS BerCodec, Sm4, Octets_proofs

(***************************************************************************)
(* Words of 32 bits: their exclusive or is one, in any order.              *)
(***************************************************************************)
IsWord(w) == /\ w[1] \in Byte /\ w[2] \in Byte /\ w[3] \in Byte /\ w[4] \in Byte
             /\ w = <<w[1], w[2], w[3], w[4]>>

Quad == {w \in Seq(Byte) : Len(w) = 4}

LEMMA ElementType ==
    ASSUME NEW E, NEW s \in Seq(E), NEW i \in 1 .. Len(s)
    PROVE  s[i] \in E
OBVIOUS

LEMMA QuadBytes ==
    ASSUME NEW w \in Quad
    PROVE  w \in Seq(Byte) /\ Len(w) = 4 /\ \A i \in 1 .. 4 : w[i] \in Byte
<1>1. w \in Seq(Byte) /\ Len(w) = 4 BY DEF Quad
<1> HIDE DEF Byte
<1>2. \A i \in 1 .. Len(w) : w[i] \in Byte BY <1>1, ElementType
<1> QED BY <1>1, <1>2

LEMMA QuadIsWord ==
    ASSUME NEW w \in Quad
    PROVE  IsWord(w)
BY DEF Quad, IsWord

LEMMA SameWords ==
    ASSUME NEW v \in Quad, NEW w \in Quad, \A j \in 1 .. 4 : v[j] = w[j]
    PROVE  v = w
BY DEF Quad

LEMMA WordIsQuad ==
    ASSUME NEW a \in Byte, NEW b \in Byte, NEW c \in Byte, NEW d \in Byte
    PROVE  <<a, b, c, d>> \in Quad
BY DEF Quad

LEMMA XorWordIs ==
    ASSUME NEW v \in Quad, NEW w \in Quad
    PROVE  /\ XorWord(v, w) \in Quad
           /\ XorWord(v, w) = XorWord(w, v)
           /\ XorWord(XorWord(v, w), w) = v
<1>1. IsWord(v) /\ IsWord(w) BY QuadIsWord
<1>2. \A i \in 1 .. 4 : /\ v[i] \in Byte /\ w[i] \in Byte
                        /\ XorByte(v[i], w[i]) \in Byte
                        /\ XorByte(v[i], w[i]) = XorByte(w[i], v[i])
                        /\ XorByte(XorByte(v[i], w[i]), w[i]) = v[i]
    <2> TAKE i \in 1 .. 4
    <2>1. v[i] \in Byte /\ w[i] \in Byte BY QuadBytes
    <2> QED BY <2>1, XorUndoes
<1>3. XorWord(v, w) \in Quad BY <1>2, WordIsQuad DEF XorWord
<1>4. XorWord(v, w) = XorWord(w, v) BY <1>2 DEF XorWord
<1>5. XorWord(XorWord(v, w), w) = <<v[1], v[2], v[3], v[4]>> BY <1>2 DEF XorWord
<1> QED BY <1>1, <1>3, <1>4, <1>5 DEF IsWord

LEMMA XorWordAssociates ==
    ASSUME NEW u \in Quad, NEW v \in Quad, NEW w \in Quad
    PROVE  XorWord(XorWord(u, v), w) = XorWord(u, XorWord(v, w))
<1>1. \A i \in 1 .. 4 : XorByte(XorByte(u[i], v[i]), w[i])
                           = XorByte(u[i], XorByte(v[i], w[i]))
    <2> TAKE i \in 1 .. 4
    <2>1. u[i] \in Byte /\ v[i] \in Byte /\ w[i] \in Byte BY QuadBytes
    <2> QED BY <2>1, XorAssociates
<1> QED BY <1>1 DEF XorWord

-----------------------------------------------------------------------------
(***************************************************************************)
(* The tables hold bytes, a word of bytes stays one in every step.         *)
(***************************************************************************)
LEMMA TablesAreBytes ==
    /\ \A b \in Byte : SBox[b + 1] \in Byte
    /\ \A i \in 1 .. 32 : CK[i] \in Byte
    /\ \A i \in 1 .. 4 : FK[i] \in Quad
<1>1. SBox \in Seq(Byte) /\ Len(SBox) = 256 BY DEF SBox, Byte
<1>2. CK \in Seq(Byte) /\ Len(CK) = 32 BY DEF CK, Byte
<1>3. \A i \in 1 .. 4 : FK[i] \in Quad
    <2>1. FK[1] = <<163, 177, 186, 198>> BY DEF FK
    <2>2. FK[2] = <<86, 170, 51, 80>> BY DEF FK
    <2>3. FK[3] = <<103, 125, 145, 151>> BY DEF FK
    <2>4. FK[4] = <<178, 112, 34, 220>> BY DEF FK
    <2>5. FK[1] \in Quad
        <3>1. 163 \in Byte /\ 177 \in Byte /\ 186 \in Byte /\ 198 \in Byte BY DEF Byte
        <3> QED BY <2>1, <3>1, WordIsQuad
    <2>6. FK[2] \in Quad
        <3>1. 86 \in Byte /\ 170 \in Byte /\ 51 \in Byte /\ 80 \in Byte BY DEF Byte
        <3> QED BY <2>2, <3>1, WordIsQuad
    <2>7. FK[3] \in Quad
        <3>1. 103 \in Byte /\ 125 \in Byte /\ 145 \in Byte /\ 151 \in Byte BY DEF Byte
        <3> QED BY <2>3, <3>1, WordIsQuad
    <2>8. FK[4] \in Quad
        <3>1. 178 \in Byte /\ 112 \in Byte /\ 34 \in Byte /\ 220 \in Byte BY DEF Byte
        <3> QED BY <2>4, <3>1, WordIsQuad
    <2> QED BY <2>5, <2>6, <2>7, <2>8
<1> HIDE DEF Byte, SBox, CK
<1>4. \A i \in 1 .. Len(SBox) : SBox[i] \in Byte
    <2> DEFINE s == SBox
    <2>1. s \in Seq(Byte) BY <1>1
    <2> HIDE DEF s
    <2>2. \A i \in 1 .. Len(s) : s[i] \in Byte BY <2>1, ElementType
    <2> QED BY <2>2 DEF s
<1>5. \A i \in 1 .. 32 : CK[i] \in Byte BY <1>2, ElementType
<1>6. ASSUME NEW b \in Byte PROVE SBox[b + 1] \in Byte
    <2>1. b + 1 \in 1 .. Len(SBox) BY <1>1 DEF Byte
    <2> QED BY <1>4, <2>1
<1> QED BY <1>3, <1>5, <1>6

LEMMA TauType ==
    ASSUME NEW w \in Quad
    PROVE  Tau(w) \in Quad
<1>1. IsWord(w) BY QuadIsWord
<1> QED BY <1>1, TablesAreBytes, WordIsQuad DEF Tau, IsWord

LEMMA RotatedByte ==
    ASSUME NEW a \in Byte, NEW b \in Byte, NEW weight \in {1, 4, 32, 128}
    PROVE  ((a * weight) % 256) + (b \div (256 \div weight)) \in Byte
<1>1. CASE weight = 1 BY <1>1 DEF Byte
<1>2. CASE weight = 4 BY <1>2 DEF Byte
<1>3. CASE weight = 32 BY <1>3 DEF Byte
<1>4. CASE weight = 128 BY <1>4 DEF Byte
<1> QED BY <1>1, <1>2, <1>3, <1>4

LEMMA RotlType ==
    ASSUME NEW w \in Quad, NEW bytes \in Nat, NEW weight \in {1, 4, 32, 128}
    PROVE  Rotl(w, bytes, weight) \in Quad
<1> DEFINE byte(i) == w[((i - 1 + bytes) % 4) + 1]
           shifted(i) == ((byte(i) * weight) % 256)
                           + (byte(i + 1) \div (256 \div weight))
<1>1. \A i \in 1 .. 5 : byte(i) \in Byte
    <2> TAKE i \in 1 .. 5
    <2>1. ((i - 1 + bytes) % 4) + 1 \in 1 .. 4 OBVIOUS
    <2>2. \A j \in 1 .. 4 : w[j] \in Byte BY QuadBytes
    <2> QED BY <2>1, <2>2
<1> HIDE DEF byte
<1>2. \A i \in 1 .. 4 : shifted(i) \in Byte
    <2> TAKE i \in 1 .. 4
    <2>1. byte(i) \in Byte /\ byte(i + 1) \in Byte BY <1>1
    <2> QED BY <2>1, RotatedByte
<1>3. Rotl(w, bytes, weight) = <<shifted(1), shifted(2), shifted(3), shifted(4)>>
    BY DEF Rotl, byte
<1> HIDE DEF shifted
<1> QED BY <1>2, <1>3, WordIsQuad

LEMMA FeistelType ==
    ASSUME NEW w \in Quad
    PROVE  Feistel(w) \in Quad
<1>1. Tau(w) \in Quad BY TauType
<1>2. Rotl(Tau(w), 1, 32) \in Quad /\ Rotl(Tau(w), 2, 128) \in Quad BY <1>1, RotlType
<1>3. XorWord(Rotl(Tau(w), 1, 32), Rotl(Tau(w), 2, 128)) \in Quad BY <1>2, XorWordIs
<1> QED BY <1>1, <1>3, XorWordIs DEF Feistel

LEMMA LTransformType ==
    ASSUME NEW w \in Quad
    PROVE  LTransform(w) \in Quad
<1> DEFINE b == Tau(w)
<1>1. b \in Quad BY TauType
<1> HIDE DEF b
<1>2. /\ Rotl(b, 0, 4) \in Quad /\ Rotl(b, 1, 4) \in Quad
      /\ Rotl(b, 2, 4) \in Quad /\ Rotl(b, 3, 1) \in Quad
    BY <1>1, RotlType
<1>3. /\ XorWord(b, Rotl(b, 0, 4)) \in Quad
      /\ XorWord(Rotl(b, 1, 4), Rotl(b, 2, 4)) \in Quad
    BY <1>1, <1>2, XorWordIs
<1>4. XorWord(XorWord(b, Rotl(b, 0, 4)), XorWord(Rotl(b, 1, 4), Rotl(b, 2, 4))) \in Quad
    BY <1>3, XorWordIs
<1> QED BY <1>2, <1>4, XorWordIs DEF LTransform, b

-----------------------------------------------------------------------------
(***************************************************************************)
(* A round and its inverse.  The state is four words; seen in the mirror,  *)
(* the round with the same key takes the state back.                       *)
(***************************************************************************)
State == {x \in Seq(Quad) : Len(x) = 4}

Mirror(x) == <<x[4], x[3], x[2], x[1]>>

LEMMA StateWords ==
    ASSUME NEW x \in State
    PROVE  /\ x[1] \in Quad /\ x[2] \in Quad /\ x[3] \in Quad /\ x[4] \in Quad
           /\ x = <<x[1], x[2], x[3], x[4]>>
<1>1. x \in Seq(Quad) /\ Len(x) = 4 BY DEF State
<1> HIDE DEF Quad
<1>2. \A i \in 1 .. Len(x) : x[i] \in Quad BY <1>1, ElementType
<1>3. x[1] \in Quad /\ x[2] \in Quad /\ x[3] \in Quad /\ x[4] \in Quad
    BY <1>1, <1>2
<1> QED BY <1>1, <1>3

LEMMA WordsAreState ==
    ASSUME NEW a \in Quad, NEW b \in Quad, NEW c \in Quad, NEW d \in Quad
    PROVE  <<a, b, c, d>> \in State
BY DEF State

LEMMA MirrorIs ==
    ASSUME NEW x \in State
    PROVE  Mirror(x) \in State /\ Mirror(Mirror(x)) = x
<1>1. /\ x[1] \in Quad /\ x[2] \in Quad /\ x[3] \in Quad /\ x[4] \in Quad
      /\ x = <<x[1], x[2], x[3], x[4]>>
    BY StateWords
<1> QED BY <1>1, WordsAreState DEF Mirror

LEMMA MixType ==
    ASSUME NEW x \in State, NEW k \in Quad
    PROVE  Mix(x, k) \in Quad
<1>1. x[2] \in Quad /\ x[3] \in Quad /\ x[4] \in Quad BY StateWords
<1>2. XorWord(x[2], x[3]) \in Quad /\ XorWord(x[4], k) \in Quad BY <1>1, XorWordIs
<1> QED BY <1>2, XorWordIs DEF Mix

LEMMA RoundType ==
    ASSUME NEW x \in State, NEW k \in Quad
    PROVE  Round(x, k) \in State
<1>1. x[1] \in Quad /\ x[2] \in Quad /\ x[3] \in Quad /\ x[4] \in Quad
    BY StateWords
<1>2. Feistel(Mix(x, k)) \in Quad BY MixType, FeistelType
<1>3. XorWord(x[1], Feistel(Mix(x, k))) \in Quad BY <1>1, <1>2, XorWordIs
<1> QED BY <1>1, <1>3, WordsAreState DEF Round

LEMMA MixedEitherWay ==
    ASSUME NEW a \in Quad, NEW b \in Quad, NEW c \in Quad, NEW k \in Quad
    PROVE  XorWord(XorWord(c, b), XorWord(a, k)) = XorWord(XorWord(a, b), XorWord(c, k))
<1> DEFINE ck == XorWord(c, k)
           ak == XorWord(a, k)
           bc == XorWord(b, c)
<1>1. ck \in Quad /\ ak \in Quad /\ bc \in Quad BY XorWordIs
<1>2. XorWord(XorWord(a, b), ck) = XorWord(a, XorWord(b, ck))
    BY <1>1, XorWordAssociates
<1>3. XorWord(b, ck) = XorWord(bc, k) BY XorWordAssociates
<1>4. XorWord(bc, k) = XorWord(k, bc) BY <1>1, XorWordIs
<1>5. XorWord(a, XorWord(k, bc)) = XorWord(ak, bc) BY <1>1, XorWordAssociates
<1>6. XorWord(ak, bc) = XorWord(bc, ak) BY <1>1, XorWordIs
<1>7. XorWord(c, b) = bc BY XorWordIs
<1> QED BY <1>2, <1>3, <1>4, <1>5, <1>6, <1>7

LEMMA RoundBack ==
    ASSUME NEW x \in State, NEW k \in Quad
    PROVE  Round(Mirror(Round(x, k)), k) = Mirror(x)
<1> DEFINE f == Feistel(Mix(x, k))
           n == XorWord(x[1], f)
           z == Round(x, k)
           m == Mirror(z)
<1>1. x[1] \in Quad /\ x[2] \in Quad /\ x[3] \in Quad /\ x[4] \in Quad
    BY StateWords
<1>2. f \in Quad BY MixType, FeistelType
<1>3. z = <<x[2], x[3], x[4], n>> BY DEF Round
<1>4. m = <<n, x[4], x[3], x[2]>> BY <1>3 DEF Mirror
<1>5. Mix(m, k) = XorWord(XorWord(x[4], x[3]), XorWord(x[2], k)) BY <1>4 DEF Mix
<1>6. Mix(x, k) = XorWord(XorWord(x[2], x[3]), XorWord(x[4], k)) BY DEF Mix
<1>7. Mix(m, k) = Mix(x, k) BY <1>1, <1>5, <1>6, MixedEitherWay
<1>8. XorWord(n, f) = x[1] BY <1>1, <1>2, XorWordIs
<1>9. Round(m, k) = <<x[4], x[3], x[2], XorWord(n, Feistel(Mix(m, k)))>>
    BY <1>4 DEF Round
<1> QED BY <1>7, <1>8, <1>9 DEF Mirror

(***************************************************************************)
(* All rounds, one after the other, and back with the keys reversed.       *)
(***************************************************************************)
RoundStep == [p \in State \X Quad |-> Round(p[1], p[2])]

LEMMA RoundStepIs ==
    /\ RoundStep \in FoldSteps(State, Quad)
    /\ \A x \in State, k \in Quad : RoundStep[<<x, k>>] = Round(x, k)
<1>1. ASSUME NEW p \in State \X Quad PROVE Round(p[1], p[2]) \in State
    <2>1. p[1] \in State /\ p[2] \in Quad OBVIOUS
    <2> QED BY <2>1, RoundType
<1>2. RoundStep \in [State \X Quad -> State] BY <1>1 DEF RoundStep
<1>3. \A x \in State, k \in Quad : RoundStep[<<x, k>>] = Round(x, k) BY DEF RoundStep
<1> QED BY <1>2, <1>3 DEF FoldSteps

LEMMA RoundsAreFold ==
    ASSUME NEW x0 \in State, NEW s \in Seq(Quad)
    PROVE  FoldLeft(Round, x0, s) = Fold(RoundStep, x0, s)
<1> DEFINE Eqn(it) ==
        it = [x \in SUBSET DOMAIN s |->
                IF x = {} THEN x0 ELSE Round(it[x \ {Max(x)}], s[Max(x)])]
    jt == CHOOSE it : Eqn(it)
<1>0. x0 \in State OBVIOUS
<1>1. FoldLeft(Round, x0, s) = jt[DOMAIN s]
    BY DEF FoldLeft, MapThenFoldSet
<1>2. \E it : Eqn(it)
    <2>1. PICK it : /\ FoldsTo(it, RoundStep, x0, s)
                    /\ \A x \in SUBSET DOMAIN s : it[x] \in State
        BY <1>0, RoundStepIs, FoldExists
    <2>2. ASSUME NEW x \in SUBSET DOMAIN s, x # {}
          PROVE  RoundStep[<<it[x \ {Max(x)}], s[Max(x)]>>]
                    = Round(it[x \ {Max(x)}], s[Max(x)])
        <3>1. x \ {Max(x)} \in SUBSET DOMAIN s /\ s[Max(x)] \in Quad BY <2>2, PrefixSets
        <3>2. it[x \ {Max(x)}] \in State BY <2>1, <3>1
        <3> QED BY RoundStepIs, <3>1, <3>2
    <2>3. Eqn(it) BY <2>1, <2>2 DEF FoldsTo
    <2> QED BY <2>3
<1>3. Eqn(jt) BY <1>2
<1> HIDE DEF jt
<1>4. \A x \in SUBSET DOMAIN s :
        jt[x] = IF x = {} THEN x0 ELSE Round(jt[x \ {Max(x)}], s[Max(x)])
    BY <1>3
<1>5. jt[{}] = x0 BY <1>4
<1>6. ASSUME NEW x \in SUBSET DOMAIN s, x # {}, jt[x \ {Max(x)}] \in State
      PROVE  jt[x] = RoundStep[<<jt[x \ {Max(x)}], s[Max(x)]>>]
    <2>1. s[Max(x)] \in Quad BY PrefixSets, <1>6
    <2> QED BY RoundStepIs, <1>4, <1>6, <2>1
<1> HIDE DEF Eqn
<1>7. Solves(jt, State, RoundStep, x0, s) BY <1>5, <1>6 DEF Solves
<1>8. jt[DOMAIN s] = Fold(RoundStep, x0, s)
    BY <1>0, RoundStepIs, <1>7, FoldSolution
<1> QED BY <1>1, <1>8

AllRounds(x, keys) == FoldLeft(Round, x, keys)

LEMMA RoundsAlong ==
    ASSUME NEW x \in State, NEW s \in Seq(Quad)
    PROVE  /\ AllRounds(x, s) \in State
           /\ \A t \in Seq(Quad) : Len(t) = 0 => AllRounds(x, t) = x
           /\ \A k \in Quad : AllRounds(x, Append(s, k)) = Round(AllRounds(x, s), k)
           /\ \A t \in Seq(Quad) : AllRounds(x, s \o t) = AllRounds(AllRounds(x, s), t)
<1>1. AllRounds(x, s) = Fold(RoundStep, x, s) BY RoundsAreFold DEF AllRounds
<1>2. AllRounds(x, s) \in State BY <1>1, RoundStepIs, FoldType
<1>3. ASSUME NEW t \in Seq(Quad), Len(t) = 0 PROVE AllRounds(x, t) = x
    <2>1. AllRounds(x, t) = Fold(RoundStep, x, t) BY RoundsAreFold DEF AllRounds
    <2> QED BY <1>3, <2>1, RoundStepIs, FoldNothing
<1>4. ASSUME NEW k \in Quad
      PROVE  AllRounds(x, Append(s, k)) = Round(AllRounds(x, s), k)
    <2>1. Append(s, k) \in Seq(Quad) OBVIOUS
    <2>2. AllRounds(x, Append(s, k)) = Fold(RoundStep, x, Append(s, k))
        BY <2>1, RoundsAreFold DEF AllRounds
    <2>3. Fold(RoundStep, x, Append(s, k)) = RoundStep[<<Fold(RoundStep, x, s), k>>]
        BY RoundStepIs, FoldAppend
    <2> QED BY <1>1, <1>2, <2>2, <2>3, RoundStepIs
<1>5. ASSUME NEW t \in Seq(Quad)
      PROVE  AllRounds(x, s \o t) = AllRounds(AllRounds(x, s), t)
    <2>1. s \o t \in Seq(Quad) OBVIOUS
    <2>2. AllRounds(x, s \o t) = Fold(RoundStep, x, s \o t)
        BY <2>1, RoundsAreFold DEF AllRounds
    <2>3. Fold(RoundStep, x, s \o t) = Fold(RoundStep, Fold(RoundStep, x, s), t)
        BY RoundStepIs, FoldConcat
    <2>4. AllRounds(AllRounds(x, s), t) = Fold(RoundStep, AllRounds(x, s), t)
        BY <1>2, RoundsAreFold DEF AllRounds
    <2> QED BY <1>1, <2>2, <2>3, <2>4
<1> QED BY <1>2, <1>3, <1>4, <1>5

LEMMA RoundsOfKeys ==
    ASSUME NEW x \in State, NEW k \in Quad, NEW s \in Seq(Quad)
    PROVE  /\ AllRounds(x, <<>>) = x
           /\ AllRounds(x, <<k>> \o s) = AllRounds(Round(x, k), s)
<1> DEFINE nil == <<>>
           one == <<k>>
<1>1. /\ nil \in Seq(Quad) /\ Len(nil) = 0 /\ Append(nil, k) = one
      /\ one \in Seq(Quad)
    OBVIOUS
<1> HIDE DEF nil, one
<1>2. AllRounds(x, nil) = x BY <1>1, RoundsAlong
<1>3. \A j \in Quad : AllRounds(x, Append(nil, j)) = Round(AllRounds(x, nil), j)
    BY <1>1, RoundsAlong
<1>4. AllRounds(x, one) = Round(x, k) BY <1>1, <1>2, <1>3
<1>5. \A t \in Seq(Quad) : AllRounds(x, one \o t) = AllRounds(AllRounds(x, one), t)
    BY <1>1, RoundsAlong
<1>6. AllRounds(x, one \o s) = AllRounds(Round(x, k), s) BY <1>4, <1>5
<1> QED BY <1>2, <1>6 DEF nil, one

LEMMA ReverseLast ==
    ASSUME NEW E, NEW s \in Seq(E), NEW e \in E
    PROVE  /\ Reverse(s) \in Seq(E) /\ Len(Reverse(s)) = Len(s)
           /\ Reverse(Append(s, e)) = <<e>> \o Reverse(s)
<1> DEFINE n == Len(s)
           a == Append(s, e)
           r == Reverse(s)
           ra == Reverse(a)
           c == <<e>> \o r
<1>1. /\ n \in Nat /\ a \in Seq(E) /\ Len(a) = n + 1 /\ a[n + 1] = e
      /\ \A i \in 1 .. n : a[i] = s[i] /\ s[i] \in E
    OBVIOUS
<1>2. r \in Seq(E) /\ Len(r) = n /\ \A i \in 1 .. n : r[i] = s[n - i + 1]
    <2>1. r = [i \in 1 .. n |-> s[(n - i) + 1]] BY DEF Reverse
    <2>2. \A i \in 1 .. n : (n - i) + 1 \in 1 .. n BY <1>1
    <2>3. \A i \in 1 .. n : s[(n - i) + 1] \in E BY <1>1, <2>2
    <2> HIDE DEF r, n
    <2> QED BY <1>1, <2>1, <2>3
<1>3. ra \in Seq(E) /\ Len(ra) = n + 1
      /\ \A i \in 1 .. (n + 1) : ra[i] = a[(n + 1) - i + 1]
    <2>1. ra = [i \in 1 .. Len(a) |-> a[(Len(a) - i) + 1]] BY DEF Reverse
    <2>2. ra = [i \in 1 .. (n + 1) |-> a[((n + 1) - i) + 1]] BY <1>1, <2>1
    <2>3. \A i \in 1 .. (n + 1) : ((n + 1) - i) + 1 \in 1 .. (n + 1) BY <1>1
    <2>4. \A i \in 1 .. (n + 1) : a[i] \in E BY <1>1
    <2>5. \A i \in 1 .. (n + 1) : a[((n + 1) - i) + 1] \in E BY <2>3, <2>4
    <2> HIDE DEF ra, n, a
    <2> QED BY <1>1, <2>2, <2>5
<1> HIDE DEF r, ra, n, a
<1>4. c \in Seq(E) /\ Len(c) = n + 1 /\ c[1] = e
      /\ \A i \in 1 .. n : c[1 + i] = r[i]
    BY <1>1, <1>2
<1> HIDE DEF c
<1>5. ASSUME NEW i \in 1 .. (n + 1) PROVE ra[i] = c[i]
    <2>1. ra[i] = a[(n + 1) - i + 1] BY <1>3
    <2>2. CASE i = 1 BY <1>1, <1>4, <2>1, <2>2
    <2>3. CASE i # 1
        <3>1. i - 1 \in 1 .. n /\ 1 + (i - 1) = i BY <1>1, <2>3
        <3>2. c[i] = r[i - 1] BY <1>4, <3>1
        <3>3. r[i - 1] = s[n - (i - 1) + 1] BY <1>2, <3>1
        <3>4. n - (i - 1) + 1 = (n + 1) - i + 1 /\ (n + 1) - i + 1 \in 1 .. n
            BY <1>1, <3>1
        <3> QED BY <1>1, <2>1, <3>2, <3>3, <3>4
    <2> QED BY <2>2, <2>3
<1>6. ra = c BY <1>1, <1>3, <1>4, <1>5, SameElements
<1> QED BY <1>2, <1>6 DEF r, ra, n, a, c

LEMMA RoundsBack ==
    ASSUME NEW x \in State, NEW keys \in Seq(Quad)
    PROVE  AllRounds(Mirror(AllRounds(x, keys)), Reverse(keys)) = Mirror(x)
<1> DEFINE T == {s \in Seq(Quad) :
                    AllRounds(Mirror(AllRounds(x, s)), Reverse(s)) = Mirror(x)}
<1>1. <<>> \in T
    <2> DEFINE nil == <<>>
    <2>1. nil \in Seq(Quad) /\ Len(nil) = 0 OBVIOUS
    <2>2. Reverse(nil) \in Seq(Quad) /\ Len(Reverse(nil)) = 0
        <3>1. \A i \in 1 .. 0 : FALSE OBVIOUS
        <3> QED BY <3>1 DEF Reverse
    <2> HIDE DEF nil
    <2>3. AllRounds(x, nil) = x BY <2>1, RoundsAlong
    <2>4. Mirror(x) \in State BY MirrorIs
    <2>5. AllRounds(Mirror(x), Reverse(nil)) = Mirror(x) BY <2>2, <2>4, RoundsAlong
    <2>6. nil \in T BY <2>1, <2>3, <2>5
    <2> QED BY <2>6 DEF nil
<1>2. ASSUME NEW s \in Seq(Quad), NEW k \in Quad, s \in T PROVE Append(s, k) \in T
    <2> DEFINE y == AllRounds(x, s)
               one == <<k>>
               rs == Reverse(s)
               w == Mirror(Round(y, k))
    <2>1. Append(s, k) \in Seq(Quad) /\ one \in Seq(Quad) OBVIOUS
    <2>2. y \in State /\ AllRounds(x, Append(s, k)) = Round(y, k) BY RoundsAlong
    <2>3. rs \in Seq(Quad) /\ Reverse(Append(s, k)) = one \o rs BY ReverseLast
    <2>4. Round(y, k) \in State BY <2>2, RoundType
    <2>5. w \in State BY <2>4, MirrorIs
    <2> HIDE DEF y, rs, w
    <2>6. AllRounds(w, <<k>> \o rs) = AllRounds(Round(w, k), rs)
        BY <2>3, <2>5, RoundsOfKeys
    <2>7. Round(w, k) = Mirror(y) BY <2>2, RoundBack DEF w
    <2>8. AllRounds(Mirror(y), rs) = Mirror(x) BY <1>2 DEF y, rs
    <2>9. AllRounds(Mirror(AllRounds(x, Append(s, k))), Reverse(Append(s, k))) = Mirror(x)
        BY <2>2, <2>3, <2>6, <2>7, <2>8 DEF w, one
    <2> QED BY <2>1, <2>9
<1> HIDE DEF T
<1>3. keys \in T BY <1>1, <1>2, SeqSetInduction
<1> QED BY <1>3 DEF T

(***************************************************************************)
(* A block is its four words, joined.                                      *)
(***************************************************************************)
Chain(p, q, r, s) == p \o q \o r \o s

Joint(x) == Chain(x[1], x[2], x[3], x[4])

LEMMA WordPart ==
    ASSUME NEW b \in Block, NEW i \in {0, 4, 8, 12}
    PROVE  /\ SubSeq(b, i + 1, i + 4) \in Quad
           /\ \A j \in 1 .. 4 : SubSeq(b, i + 1, i + 4)[j] = b[i + j]
<1> DEFINE u == SubSeq(b, i + 1, i + 4)
<1> HIDE DEF Byte, u
<1>1. b \in Seq(Byte) /\ Len(b) = 16 BY DEF Block
<1>a. i \in Nat /\ 4 \in Nat /\ i + 4 <= Len(b) BY <1>1
<1> USE DEF u
<1>2. u \in Seq(Byte) /\ Len(u) = 4 /\ \A j \in 1 .. 4 : u[j] = b[i + j] BY <1>1, <1>a, Part, ZenonT(60)
<1> HIDE DEF u
<1>3. u \in Quad BY <1>2 DEF Quad
<1> QED BY <1>2, <1>3 DEF u

Chained(c, p, q, r, s) ==
    /\ c \in Block
    /\ \A j \in 1 .. 4 : /\ c[j] = p[j] /\ c[4 + j] = q[j]
                        /\ c[8 + j] = r[j] /\ c[12 + j] = s[j]

LEMMA FourJoined ==
    ASSUME NEW p \in Quad, NEW q \in Quad, NEW r \in Quad, NEW s \in Quad
    PROVE  Chained(Chain(p, q, r, s), p, q, r, s)
<1> DEFINE pq == p \o q
           pqr == pq \o r
           c == pqr \o s
<1>1. p \in Seq(Byte) /\ q \in Seq(Byte) /\ r \in Seq(Byte) /\ s \in Seq(Byte)
    BY DEF Quad
<1>2. Len(p) = 4 /\ Len(q) = 4 /\ Len(r) = 4 /\ Len(s) = 4 BY DEF Quad
<1>3. /\ pq \in Seq(Byte) /\ Len(pq) = Len(p) + Len(q)
      /\ \A j \in 1 .. Len(p) : pq[j] = p[j]
      /\ \A j \in 1 .. Len(q) : pq[Len(p) + j] = q[j]
    BY <1>1, Joined
<1> HIDE DEF pq
<1>4. /\ pqr \in Seq(Byte) /\ Len(pqr) = Len(pq) + Len(r)
      /\ \A j \in 1 .. Len(pq) : pqr[j] = pq[j]
      /\ \A j \in 1 .. Len(r) : pqr[Len(pq) + j] = r[j]
    <2>1. pq \in Seq(Byte) BY <1>3
    <2> QED BY <1>1, <2>1, Joined
<1> HIDE DEF pqr
<1>5. /\ c \in Seq(Byte) /\ Len(c) = Len(pqr) + Len(s)
      /\ \A j \in 1 .. Len(pqr) : c[j] = pqr[j]
      /\ \A j \in 1 .. Len(s) : c[Len(pqr) + j] = s[j]
    <2>1. pqr \in Seq(Byte) BY <1>4
    <2> QED BY <1>1, <2>1, Joined
<1>6. c = Chain(p, q, r, s) BY DEF Chain, c, pqr, pq
<1> HIDE DEF c
<1>7. Len(pq) = 8 /\ \A j \in 1 .. 4 : pq[j] = p[j] /\ pq[4 + j] = q[j]
    BY <1>2, <1>3
<1>8. /\ Len(pqr) = 12 /\ \A j \in 1 .. 8 : pqr[j] = pq[j]
      /\ \A j \in 1 .. 4 : pqr[8 + j] = r[j]
    BY <1>2, <1>4, <1>7
<1>9. /\ Len(c) = 16 /\ \A j \in 1 .. 12 : c[j] = pqr[j]
      /\ \A j \in 1 .. 4 : c[12 + j] = s[j]
    BY <1>2, <1>5, <1>8
<1>10. \A j \in 1 .. 4 : c[j] = p[j] /\ c[4 + j] = q[j] /\ c[8 + j] = r[j]
    BY <1>7, <1>8, <1>9
<1>11. c \in Block BY <1>5, <1>9 DEF Block
<1> QED BY <1>6, <1>9, <1>10, <1>11 DEF Chained

LEMMA JointIs ==
    ASSUME NEW x \in State
    PROVE  Chained(Joint(x), x[1], x[2], x[3], x[4])
<1>1. x[1] \in Quad /\ x[2] \in Quad /\ x[3] \in Quad /\ x[4] \in Quad
    BY StateWords
<1> QED BY <1>1, FourJoined DEF Joint

LEMMA JointOfWords ==
    ASSUME NEW b \in Block
    PROVE  Words(b) \in State /\ Joint(Words(b)) = b
<1> DEFINE p == SubSeq(b, 1, 4)
           q == SubSeq(b, 5, 8)
           r == SubSeq(b, 9, 12)
           s == SubSeq(b, 13, 16)
           w == Words(b)
           c == Joint(w)
<1>1. p \in Quad /\ \A j \in 1 .. 4 : p[j] = b[j] BY WordPart
<1>2. q \in Quad /\ \A j \in 1 .. 4 : q[j] = b[4 + j] BY WordPart
<1>3. r \in Quad /\ \A j \in 1 .. 4 : r[j] = b[8 + j] BY WordPart
<1>4. s \in Quad /\ \A j \in 1 .. 4 : s[j] = b[12 + j] BY WordPart
<1>5. w = <<p, q, r, s>> BY DEF Words
<1> HIDE DEF p, q, r, s
<1>6. w \in State BY <1>1, <1>2, <1>3, <1>4, <1>5, WordsAreState
<1> HIDE DEF w
<1>7. /\ c \in Block
      /\ \A j \in 1 .. 4 : /\ c[j] = w[1][j] /\ c[4 + j] = w[2][j]
                          /\ c[8 + j] = w[3][j] /\ c[12 + j] = w[4][j]
    BY <1>6, JointIs DEF Chained
<1> HIDE DEF c
<1>8. /\ b \in Seq(Byte) /\ Len(b) = 16 /\ c \in Seq(Byte) /\ Len(c) = 16
    BY <1>7 DEF Block
<1>9. \A j \in 1 .. 4 : /\ c[j] = b[j] /\ c[4 + j] = b[4 + j]
                       /\ c[8 + j] = b[8 + j] /\ c[12 + j] = b[12 + j]
    BY <1>1, <1>2, <1>3, <1>4, <1>5, <1>7
<1>10. \A i \in 1 .. 16 : c[i] = b[i]
    <2> TAKE i \in 1 .. 16
    <2>1. CASE i <= 4 BY <1>9, <2>1
    <2>2. CASE 4 < i /\ i <= 8
        <3>1. i - 4 \in 1 .. 4 /\ 4 + (i - 4) = i BY <2>2
        <3> QED BY <1>9, <3>1
    <2>3. CASE 8 < i /\ i <= 12
        <3>1. i - 8 \in 1 .. 4 /\ 8 + (i - 8) = i BY <2>3
        <3> QED BY <1>9, <3>1
    <2>4. CASE 12 < i
        <3>1. i - 12 \in 1 .. 4 /\ 12 + (i - 12) = i BY <2>4
        <3> QED BY <1>9, <3>1
    <2> QED BY <2>1, <2>2, <2>3, <2>4
<1>11. c = b BY <1>8, <1>10, SameElements
<1> QED BY <1>6, <1>11 DEF c, w

LEMMA WordsOfJoint ==
    ASSUME NEW x \in State
    PROVE  Words(Joint(x)) = x
<1> DEFINE c == Joint(x)
           w == Words(c)
<1>1. /\ c \in Block
      /\ \A j \in 1 .. 4 : /\ c[j] = x[1][j] /\ c[4 + j] = x[2][j]
                          /\ c[8 + j] = x[3][j] /\ c[12 + j] = x[4][j]
    BY JointIs DEF Chained
<1> HIDE DEF c
<1>2. /\ x[1] \in Quad /\ x[2] \in Quad /\ x[3] \in Quad /\ x[4] \in Quad
      /\ x = <<x[1], x[2], x[3], x[4]>>
    BY StateWords
<1>3. SubSeq(c, 1, 4) = x[1]
    <2> DEFINE v == SubSeq(c, 1, 4)
    <2>1. v \in Quad /\ \A j \in 1 .. 4 : v[j] = c[j] BY <1>1, WordPart
    <2> HIDE DEF v
    <2>2. v = x[1] BY <1>1, <1>2, <2>1, SameWords
    <2> QED BY <2>2 DEF v
<1>4. SubSeq(c, 5, 8) = x[2]
    <2> DEFINE v == SubSeq(c, 5, 8)
    <2>1. v \in Quad /\ \A j \in 1 .. 4 : v[j] = c[4 + j] BY <1>1, WordPart
    <2> HIDE DEF v
    <2>2. v = x[2] BY <1>1, <1>2, <2>1, SameWords
    <2> QED BY <2>2 DEF v
<1>5. SubSeq(c, 9, 12) = x[3]
    <2> DEFINE v == SubSeq(c, 9, 12)
    <2>1. v \in Quad /\ \A j \in 1 .. 4 : v[j] = c[8 + j] BY <1>1, WordPart
    <2> HIDE DEF v
    <2>2. v = x[3] BY <1>1, <1>2, <2>1, SameWords
    <2> QED BY <2>2 DEF v
<1>6. SubSeq(c, 13, 16) = x[4]
    <2> DEFINE v == SubSeq(c, 13, 16)
    <2>1. v \in Quad /\ \A j \in 1 .. 4 : v[j] = c[12 + j] BY <1>1, WordPart
    <2> HIDE DEF v
    <2>2. v = x[4] BY <1>1, <1>2, <2>1, SameWords
    <2> QED BY <2>2 DEF v
<1>7. w = <<x[1], x[2], x[3], x[4]>> BY <1>3, <1>4, <1>5, <1>6 DEF Words
<1> QED BY <1>2, <1>7 DEF c

LEMMA RoundsIsJoint ==
    ASSUME NEW b \in Block, NEW keys \in Seq(Quad)
    PROVE  /\ AllRounds(Words(b), keys) \in State
           /\ Rounds(b, keys) = Joint(Mirror(AllRounds(Words(b), keys)))
           /\ Rounds(b, keys) \in Block
<1> DEFINE x == AllRounds(Words(b), keys)
<1>1. Words(b) \in State BY JointOfWords
<1>2. x \in State BY <1>1, RoundsAlong
<1>3. Rounds(b, keys) = x[4] \o x[3] \o x[2] \o x[1] BY DEF Rounds, AllRounds
<1> HIDE DEF x
<1>4. Mirror(x) \in State BY <1>2, MirrorIs
<1>5. Rounds(b, keys) = Joint(Mirror(x)) BY <1>3 DEF Joint, Chain, Mirror
<1>6. Joint(Mirror(x)) \in Block BY <1>4, JointIs DEF Chained
<1> QED BY <1>2, <1>5, <1>6 DEF x

(***************************************************************************)
(* A block that was encrypted is decrypted to itself, for any round keys:  *)
(* the rounds undo themselves when the keys are reversed (encrypt_block and*)
(* decrypt_block of sm4.cpp).                                              *)
(***************************************************************************)
THEOREM BlockIsDecrypted ==
    ASSUME NEW b \in Block, NEW keys \in Seq(Quad)
    PROVE  /\ EncryptBlock(keys, b) \in Block
           /\ DecryptBlock(keys, EncryptBlock(keys, b)) = b
<1> DEFINE w == Words(b)
           x == AllRounds(w, keys)
           r == Reverse(keys)
           c == EncryptBlock(keys, b)
<1>1. w \in State /\ Joint(w) = b BY JointOfWords
<1>2. x \in State /\ c = Joint(Mirror(x)) /\ c \in Block
    BY RoundsIsJoint DEF EncryptBlock
<1>3. r \in Seq(Quad)
    <2>1. r = [i \in 1 .. Len(keys) |-> keys[(Len(keys) - i) + 1]] BY DEF Reverse
    <2>2. Len(keys) \in Nat /\ \A i \in 1 .. Len(keys) : keys[i] \in Quad BY ElementType
    <2>3. \A i \in 1 .. Len(keys) : (Len(keys) - i) + 1 \in 1 .. Len(keys) BY <2>2
    <2>4. \A i \in 1 .. Len(keys) : keys[(Len(keys) - i) + 1] \in Quad BY <2>2, <2>3
    <2> HIDE DEF r
    <2> QED BY <2>1, <2>2, <2>4
<1>4. AllRounds(Mirror(x), r) = Mirror(w) BY <1>1, RoundsBack
<1>5. Mirror(x) \in State /\ Mirror(Mirror(w)) = w BY <1>1, <1>2, MirrorIs
<1>6. Words(c) = Mirror(x) BY <1>2, <1>5, WordsOfJoint
<1> HIDE DEF w, x, r, c
<1>7. Rounds(c, r) = Joint(Mirror(AllRounds(Words(c), r)))
    BY <1>2, <1>3, RoundsIsJoint
<1>8. Rounds(c, r) = b BY <1>1, <1>4, <1>5, <1>6, <1>7
<1>9. DecryptBlock(keys, c) = b BY <1>8 DEF DecryptBlock, r
<1> QED BY <1>2, <1>9 DEF c

-----------------------------------------------------------------------------
(***************************************************************************)
(* The round keys of every key of one block are words.                     *)
(***************************************************************************)
Expansion == [words : State, keys : Seq(Quad)]

ExpandStep == [p \in Expansion \X (1 .. 32) |-> ExpandKey(p[1], p[2])]

LEMMA ExpandType ==
    ASSUME NEW k \in Expansion, NEW i \in 1 .. 32
    PROVE  ExpandKey(k, i) \in Expansion
<1> DEFINE w == k.words
           c == <<0, 0, 0, CK[i]>>
           next == XorWord(w[1], LTransform(Mix(w, c)))
<1>1. w \in State /\ k.keys \in Seq(Quad) BY DEF Expansion
<1>2. c \in Quad
    <2>1. 0 \in Byte BY DEF Byte
    <2>2. CK[i] \in Byte BY TablesAreBytes
    <2> QED BY <2>1, <2>2, WordIsQuad
<1> HIDE DEF w, c
<1>3. w[1] \in Quad /\ w[2] \in Quad /\ w[3] \in Quad /\ w[4] \in Quad
    BY <1>1, StateWords
<1>4. next \in Quad
    <2>1. Mix(w, c) \in Quad BY <1>1, <1>2, MixType
    <2>2. LTransform(Mix(w, c)) \in Quad BY <2>1, LTransformType
    <2> QED BY <1>3, <2>2, XorWordIs
<1>5. ExpandKey(k, i) = [words |-> <<w[2], w[3], w[4], next>>,
                         keys |-> Append(k.keys, next)]
    BY DEF ExpandKey, w, c
<1> HIDE DEF next
<1>6. <<w[2], w[3], w[4], next>> \in State BY <1>3, <1>4, WordsAreState
<1>7. Append(k.keys, next) \in Seq(Quad)
    <2> DEFINE keys == k.keys
    <2>1. keys \in Seq(Quad) BY <1>1
    <2> HIDE DEF keys
    <2>2. Append(keys, next) \in Seq(Quad) BY <1>4, <2>1
    <2> QED BY <2>2 DEF keys
<1> QED BY <1>5, <1>6, <1>7 DEF Expansion

LEMMA ExpandStepIs ==
    /\ ExpandStep \in FoldSteps(Expansion, 1 .. 32)
    /\ \A k \in Expansion, i \in 1 .. 32 : ExpandStep[<<k, i>>] = ExpandKey(k, i)
<1>1. ASSUME NEW p \in Expansion \X (1 .. 32) PROVE ExpandKey(p[1], p[2]) \in Expansion
    <2>1. p[1] \in Expansion /\ p[2] \in 1 .. 32 OBVIOUS
    <2> QED BY <2>1, ExpandType
<1>2. ExpandStep \in [Expansion \X (1 .. 32) -> Expansion] BY <1>1 DEF ExpandStep
<1>3. \A k \in Expansion, i \in 1 .. 32 : ExpandStep[<<k, i>>] = ExpandKey(k, i)
    BY DEF ExpandStep
<1> QED BY <1>2, <1>3 DEF FoldSteps

LEMMA ExpansionIsFold ==
    ASSUME NEW start \in Expansion, NEW s \in Seq(1 .. 32)
    PROVE  FoldLeft(ExpandKey, start, s) = Fold(ExpandStep, start, s)
<1> DEFINE Eqn(it) ==
        it = [x \in SUBSET DOMAIN s |->
                IF x = {} THEN start ELSE ExpandKey(it[x \ {Max(x)}], s[Max(x)])]
    jt == CHOOSE it : Eqn(it)
<1>0. start \in Expansion OBVIOUS
<1>1. FoldLeft(ExpandKey, start, s) = jt[DOMAIN s]
    BY DEF FoldLeft, MapThenFoldSet
<1>2. \E it : Eqn(it)
    <2>1. PICK it : /\ FoldsTo(it, ExpandStep, start, s)
                    /\ \A x \in SUBSET DOMAIN s : it[x] \in Expansion
        BY <1>0, ExpandStepIs, FoldExists
    <2>2. ASSUME NEW x \in SUBSET DOMAIN s, x # {}
          PROVE  ExpandStep[<<it[x \ {Max(x)}], s[Max(x)]>>]
                    = ExpandKey(it[x \ {Max(x)}], s[Max(x)])
        <3>1. x \ {Max(x)} \in SUBSET DOMAIN s /\ s[Max(x)] \in (1 .. 32) BY <2>2, PrefixSets
        <3>2. it[x \ {Max(x)}] \in Expansion BY <2>1, <3>1
        <3> QED BY ExpandStepIs, <3>1, <3>2
    <2>3. Eqn(it) BY <2>1, <2>2 DEF FoldsTo
    <2> QED BY <2>3
<1>3. Eqn(jt) BY <1>2
<1> HIDE DEF jt
<1>4. \A x \in SUBSET DOMAIN s :
        jt[x] = IF x = {} THEN start ELSE ExpandKey(jt[x \ {Max(x)}], s[Max(x)])
    BY <1>3
<1>5. jt[{}] = start BY <1>4
<1>6. ASSUME NEW x \in SUBSET DOMAIN s, x # {}, jt[x \ {Max(x)}] \in Expansion
      PROVE  jt[x] = ExpandStep[<<jt[x \ {Max(x)}], s[Max(x)]>>]
    <2>1. s[Max(x)] \in (1 .. 32) BY PrefixSets, <1>6
    <2> QED BY ExpandStepIs, <1>4, <1>6, <2>1
<1> HIDE DEF Eqn
<1>7. Solves(jt, Expansion, ExpandStep, start, s) BY <1>5, <1>6 DEF Solves
<1>8. jt[DOMAIN s] = Fold(ExpandStep, start, s)
    BY <1>0, ExpandStepIs, <1>7, FoldSolution
<1> QED BY <1>1, <1>8

LEMMA RoundKeysType ==
    ASSUME NEW key \in Block
    PROVE  RoundKeys(key) \in Seq(Quad)
<1> DEFINE w == Words(key)
           words == <<XorWord(w[1], FK[1]), XorWord(w[2], FK[2]),
                      XorWord(w[3], FK[3]), XorWord(w[4], FK[4])>>
           start == [words |-> words, keys |-> <<>>]
           index == [i \in 1 .. 32 |-> i]
<1>1. w[1] \in Quad /\ w[2] \in Quad /\ w[3] \in Quad /\ w[4] \in Quad
    BY JointOfWords, StateWords
<1>2. FK[1] \in Quad /\ FK[2] \in Quad /\ FK[3] \in Quad /\ FK[4] \in Quad
    BY TablesAreBytes
<1> HIDE DEF w
<1>3. words \in State
    <2>1. /\ XorWord(w[1], FK[1]) \in Quad /\ XorWord(w[2], FK[2]) \in Quad
          /\ XorWord(w[3], FK[3]) \in Quad /\ XorWord(w[4], FK[4]) \in Quad
        BY <1>1, <1>2, XorWordIs
    <2> QED BY <2>1, WordsAreState
<1> HIDE DEF words
<1>4. start \in Expansion BY <1>3 DEF Expansion
<1>5. index \in Seq(1 .. 32) OBVIOUS
<1>6. RoundKeys(key) = FoldLeft(ExpandKey, start, index).keys
    BY DEF RoundKeys, w, words
<1> HIDE DEF start, index
<1>7. FoldLeft(ExpandKey, start, index) = Fold(ExpandStep, start, index)
    BY <1>4, <1>5, ExpansionIsFold
<1>8. Fold(ExpandStep, start, index) \in Expansion
    BY <1>4, <1>5, ExpandStepIs, FoldType
<1> QED BY <1>6, <1>7, <1>8 DEF Expansion

-----------------------------------------------------------------------------
(***************************************************************************)
(* Counters are blocks, the first of the nonce and each the next of the one*)
(* before.                                                                 *)
(***************************************************************************)
LEMMA FirstCounterIs ==
    ASSUME NEW nonce \in Seq(Byte)
    PROVE  /\ FirstCounter(nonce) \in Block
           /\ \A i \in 1 .. 16 : FirstCounter(nonce)[i] \in Byte
<1> DEFINE c == FirstCounter(nonce)
<1>1. \A i \in 1 .. 16 : (IF i <= Len(nonce) THEN nonce[i] ELSE 0) \in Byte
    <2> TAKE i \in 1 .. 16
    <2>1. 0 \in Byte BY DEF Byte
    <2>2. Len(nonce) \in Nat /\ \A j \in 1 .. Len(nonce) : nonce[j] \in Byte BY ElementType
    <2>3. CASE i <= Len(nonce) BY <2>2, <2>3
    <2>4. CASE ~ (i <= Len(nonce)) BY <2>1, <2>4
    <2> QED BY <2>3, <2>4
<1>2. c = [i \in 1 .. 16 |-> IF i <= Len(nonce) THEN nonce[i] ELSE 0]
    BY DEF FirstCounter
<1> HIDE DEF c
<1>3. c \in Seq(Byte) /\ Len(c) = 16 /\ \A i \in 1 .. 16 : c[i] \in Byte
    BY <1>1, <1>2
<1> QED BY <1>3 DEF Block, c

LEMMA IncrementIs ==
    ASSUME NEW c \in Block
    PROVE  /\ Increment(c) \in Block
           /\ \A j \in 1 .. 12 : Increment(c)[j] = c[j]
           /\ Increment(c)[16] = (c[16] + 1) % 256
           /\ Increment(c)[15] = IF c[16] = 255 THEN (c[15] + 1) % 256 ELSE c[15]
           /\ Increment(c)[14] = IF c[16] = 255 /\ c[15] = 255
                                 THEN (c[14] + 1) % 256 ELSE c[14]
           /\ Increment(c)[13] = IF c[16] = 255 /\ c[15] = 255 /\ c[14] = 255
                                 THEN (c[13] + 1) % 256 ELSE c[13]
<1> DEFINE u == SubSeq(c, 1, 12)
           v == [i \in 1 .. 4 |-> IF \A j \in 13 + i .. 16 : c[j] = 255
                                  THEN (c[12 + i] + 1) % 256 ELSE c[12 + i]]
           r == u \o v
<1>1. c \in Seq(Byte) /\ Len(c) = 16 BY DEF Block
<1>2. \A i \in 1 .. 16 : c[i] \in Byte BY <1>1, ElementType
<1>3. u \in Seq(Byte) /\ Len(u) = 12 /\ \A j \in 1 .. 12 : u[j] = c[j]
    <2>1. 0 \in Nat /\ 12 \in Nat /\ 0 + 12 <= Len(c) BY <1>1
    <2>2. u = SubSeq(c, 0 + 1, 0 + 12) OBVIOUS
    <2> HIDE DEF u, v, r
    <2>3. /\ SubSeq(c, 0 + 1, 0 + 12) \in Seq(Byte)
          /\ Len(SubSeq(c, 0 + 1, 0 + 12)) = 12
          /\ \A j \in 1 .. 12 : SubSeq(c, 0 + 1, 0 + 12)[j] = c[0 + j]
        BY <1>1, <2>1, Part, ZenonT(60)
    <2>4. \A j \in 1 .. 12 : c[0 + j] = c[j] OBVIOUS
    <2> QED BY <2>2, <2>3, <2>4
<1> HIDE DEF u
<1>4. ASSUME NEW i \in 1 .. 4 PROVE v[i] \in Byte
    <2>1. c[12 + i] \in Byte BY <1>2
    <2>2. (c[12 + i] + 1) % 256 \in Byte BY <2>1 DEF Byte
    <2> QED BY <2>1, <2>2
<1>5. /\ v[4] = (c[16] + 1) % 256
      /\ v[3] = IF c[16] = 255 THEN (c[15] + 1) % 256 ELSE c[15]
      /\ v[2] = IF c[16] = 255 /\ c[15] = 255 THEN (c[14] + 1) % 256 ELSE c[14]
      /\ v[1] = IF c[16] = 255 /\ c[15] = 255 /\ c[14] = 255
                THEN (c[13] + 1) % 256 ELSE c[13]
    <2>1. v[4] = (c[16] + 1) % 256 OBVIOUS
    <2>2. v[3] = IF c[16] = 255 THEN (c[15] + 1) % 256 ELSE c[15] OBVIOUS
    <2>3. v[2] = IF c[16] = 255 /\ c[15] = 255 THEN (c[14] + 1) % 256 ELSE c[14]
        <3>1. (\A j \in 13 + 2 .. 16 : c[j] = 255) <=> c[16] = 255 /\ c[15] = 255
            OBVIOUS
        <3> QED BY <3>1
    <2>4. v[1] = IF c[16] = 255 /\ c[15] = 255 /\ c[14] = 255
                 THEN (c[13] + 1) % 256 ELSE c[13]
        <3>1. (\A j \in 13 + 1 .. 16 : c[j] = 255)
                <=> c[16] = 255 /\ c[15] = 255 /\ c[14] = 255
            OBVIOUS
        <3> QED BY <3>1
    <2> QED BY <2>1, <2>2, <2>3, <2>4
<1>6. v \in Seq(Byte) /\ Len(v) = 4
    <2>1. v = [i \in 1 .. 4 |-> v[i]] OBVIOUS
    <2> HIDE DEF v
    <2> QED BY <1>4, <2>1
<1> HIDE DEF v
<1>7. /\ r \in Seq(Byte) /\ Len(r) = Len(u) + Len(v)
      /\ \A i \in 1 .. Len(u) : r[i] = u[i]
      /\ \A i \in 1 .. Len(v) : r[Len(u) + i] = v[i]
    <2>1. u \in Seq(Byte) /\ v \in Seq(Byte) BY <1>3, <1>6
    <2> QED BY <2>1, Joined
<1>8. Increment(c) = r BY DEF Increment, r, u, v
<1> HIDE DEF r
<1>9. /\ Len(r) = 16 /\ \A j \in 1 .. 12 : r[j] = c[j]
      /\ r[13] = v[1] /\ r[14] = v[2] /\ r[15] = v[3] /\ r[16] = v[4]
    <2>1. Len(r) = 16 BY <1>3, <1>6, <1>7
    <2>2. \A j \in 1 .. 12 : r[j] = c[j] BY <1>3, <1>7
    <2>3. \A i \in 1 .. 4 : r[12 + i] = v[i] BY <1>3, <1>6, <1>7
    <2> QED BY <2>1, <2>2, <2>3
<1>10. r \in Block BY <1>7, <1>9 DEF Block
<1> QED BY <1>5, <1>8, <1>9, <1>10

LEMMA CountersAre ==
    ASSUME NEW nonce \in Seq(Byte), NEW n \in Nat
    PROVE  /\ Counters(nonce, n) \in Seq(Block) /\ Len(Counters(nonce, n)) = n
           /\ \A i \in 1 .. n :
                 Counters(nonce, n)[i] = IF i = 1 THEN FirstCounter(nonce)
                                         ELSE Increment(Counters(nonce, n)[i - 1])
<1> DEFINE first == FirstCounter(nonce)
           Eqn(f) == f = [i \in Nat |-> IF i = 0 THEN first ELSE Increment(f[i - 1])]
           ct == CHOOSE f : Eqn(f)
           step == [p \in Nat \X Block |-> Increment(p[2])]
           c == [i \in 1 .. n |-> ct[i - 1]]
<1>1. first \in Block BY FirstCounterIs
<1>2. Counters(nonce, n) = c BY DEF Counters
<1> HIDE DEF first
<1>3. step \in Steps(Block)
    <2>1. ASSUME NEW p \in Nat \X Block PROVE Increment(p[2]) \in Block
        <3>1. p[2] \in Block OBVIOUS
        <3> QED BY <3>1, IncrementIs
    <2> QED BY <2>1 DEF Steps
<1>4. \A k \in Nat, b \in Block : step[<<k, b>>] = Increment(b) OBVIOUS
<1> HIDE DEF step
<1>5. PICK g : Recurs(g, Block, first, step) BY <1>1, <1>3, Recursion
<1>6. g \in [Nat -> Block] /\ g[0] = first BY <1>5 DEF Recurs
<1>7. ASSUME NEW k \in Nat PROVE g[k + 1] = Increment(g[k])
    <2>1. g[k + 1] = step[<<k, g[k]>>] /\ g[k] \in Block BY <1>5, <1>6 DEF Recurs
    <2> QED BY <1>4, <2>1
<1>8. Eqn(g)
    <2>1. \A i \in Nat : g[i] = IF i = 0 THEN first ELSE Increment(g[i - 1])
        <3> TAKE i \in Nat
        <3>1. CASE i = 0 BY <1>6, <3>1
        <3>2. CASE i # 0
            <4>1. i - 1 \in Nat /\ (i - 1) + 1 = i BY <3>2
            <4>2. g[(i - 1) + 1] = Increment(g[i - 1]) BY <1>7, <4>1
            <4> QED BY <3>2, <4>1, <4>2
        <3> QED BY <3>1, <3>2
    <2>2. g = [i \in Nat |-> g[i]] BY <1>6
    <2> QED BY <2>1, <2>2
<1>9. Eqn(ct) BY <1>8
<1> HIDE DEF ct
<1>10. \A i \in Nat : ct[i] = IF i = 0 THEN first ELSE Increment(ct[i - 1]) BY <1>9
<1> HIDE DEF Eqn
<1> DEFINE T == {k \in Nat : ct[k] \in Block}
<1>11. 0 \in T BY <1>1, <1>10
<1>12. ASSUME NEW k \in Nat, k \in T PROVE k + 1 \in T
    <2>1. k + 1 \in Nat /\ k + 1 # 0 /\ (k + 1) - 1 = k OBVIOUS
    <2>2. ct[k + 1] = Increment(ct[k]) BY <1>10, <2>1
    <2>3. ct[k] \in Block BY <1>12
    <2> QED BY <2>2, <2>3, IncrementIs
<1> HIDE DEF T
<1>13. Nat \subseteq T BY <1>11, <1>12, NatSetInduction
<1>14. \A k \in Nat : ct[k] \in Block BY <1>13 DEF T
<1>15. \A i \in 1 .. n : i - 1 \in Nat OBVIOUS
<1>16. c \in Seq(Block) /\ Len(c) = n /\ \A i \in 1 .. n : c[i] = ct[i - 1]
    BY <1>14, <1>15
<1> HIDE DEF c
<1>17. ASSUME NEW i \in 1 .. n
       PROVE  c[i] = IF i = 1 THEN first ELSE Increment(c[i - 1])
    <2>1. CASE i = 1
        <3>1. c[i] = ct[0] BY <1>16, <2>1
        <3>2. ct[0] = first BY <1>10
        <3> QED BY <2>1, <3>1, <3>2
    <2>2. CASE i # 1
        <3>1. i - 1 \in 1 .. n /\ i - 1 \in Nat /\ i - 1 # 0 BY <2>2
        <3>2. c[i] = ct[i - 1] /\ c[i - 1] = ct[(i - 1) - 1] BY <1>16, <3>1
        <3>3. ct[i - 1] = Increment(ct[(i - 1) - 1]) BY <1>10, <3>1
        <3> QED BY <2>2, <3>2, <3>3
    <2> QED BY <2>1, <2>2
<1> QED BY <1>2, <1>16, <1>17 DEF first

(***************************************************************************)
(* The stream has a block for each counter.                                *)
(***************************************************************************)
LEMMA FlatBlocks ==
    ASSUME NEW blocks \in Seq(Block)
    PROVE  FlattenSeq(blocks) \in Seq(Byte) /\ Len(FlattenSeq(blocks)) = 16 * Len(blocks)
<1> DEFINE T == {s \in Seq(Block) : /\ FlattenSeq(s) \in Seq(Byte)
                                   /\ Len(FlattenSeq(s)) = 16 * Len(s)}
<1>0. Block \subseteq Seq(Byte) BY DEF Block
<1> HIDE DEF Block
<1>1. <<>> \in T
    <2> DEFINE nil == <<>>
    <2>1. nil \in Seq(Block) /\ Len(nil) = 0 /\ nil \in Seq(Seq(Byte)) /\ nil \in Seq(Byte)
        OBVIOUS
    <2>2. FlattenSeq(nil) = nil BY <2>1, FlatType
    <2> HIDE DEF nil
    <2>3. FlattenSeq(nil) \in Seq(Byte) /\ Len(FlattenSeq(nil)) = 16 * Len(nil)
        <3>1. Len(nil) = 16 * Len(nil) BY <2>1
        <3> QED BY <2>1, <2>2, <3>1
    <2>4. nil \in T BY <2>1, <2>3
    <2> QED BY <2>4 DEF nil
<1>2. ASSUME NEW s \in Seq(Block), NEW b \in Block, s \in T PROVE Append(s, b) \in T
    <2> DEFINE t == Append(s, b)
               f == FlattenSeq(s)
    <2>1. /\ t \in Seq(Block) /\ Len(t) = Len(s) + 1 /\ t[Len(t)] = b
          /\ \A i \in 1 .. Len(s) : t[i] = s[i]
          /\ Len(s) \in Nat
        OBVIOUS
    <2> HIDE DEF t
    <2>2. s \in Seq(Seq(Byte)) /\ t \in Seq(Seq(Byte)) BY <1>0, <2>1
    <2>3. FlattenSeq(t) = f \o t[Len(t)] BY <2>1, <2>2, FlatAlong
    <2>4. f \in Seq(Byte) /\ Len(f) = 16 * Len(s) BY <1>2
    <2>5. b \in Seq(Byte) /\ Len(b) = 16 BY DEF Block
    <2> HIDE DEF f
    <2>6. f \o b \in Seq(Byte) /\ Len(f \o b) = Len(f) + Len(b) BY <2>4, <2>5, Joined, ZenonT(60)
    <2>7. Len(f) + Len(b) = 16 * Len(t) BY <2>1, <2>4, <2>5
    <2>8. t \in T BY <2>1, <2>3, <2>6, <2>7
    <2> QED BY <2>8 DEF t
<1> HIDE DEF T
<1>3. blocks \in T BY <1>1, <1>2, SeqSetInduction
<1> QED BY <1>3 DEF T

LEMMA KeystreamType ==
    ASSUME NEW keys \in Seq(Quad), NEW nonce \in Seq(Byte), NEW n \in Nat
    PROVE  /\ Keystream(keys, nonce, n) \in Seq(Byte)
           /\ Len(Keystream(keys, nonce, n)) = 16 * n
<1> DEFINE c == Counters(nonce, n)
           b == [i \in 1 .. n |-> EncryptBlock(keys, c[i])]
<1>1. c \in Seq(Block) /\ Len(c) = n BY CountersAre
<1> HIDE DEF c
<1>2. \A i \in 1 .. n : c[i] \in Block BY <1>1, ElementType
<1>3. \A i \in 1 .. n : EncryptBlock(keys, c[i]) \in Block BY <1>2, BlockIsDecrypted
<1>4. b \in Seq(Block) /\ Len(b) = n BY <1>3
<1>5. Keystream(keys, nonce, n) = FlattenSeq(b) BY DEF Keystream, c
<1> HIDE DEF b
<1>6. FlattenSeq(b) \in Seq(Byte) /\ Len(FlattenSeq(b)) = 16 * Len(b)
    BY <1>4, FlatBlocks
<1> QED BY <1>4, <1>5, <1>6

(***************************************************************************)
(* The counter mode keeps the length, and undoes itself.                   *)
(***************************************************************************)
LEMMA CounterModeIs ==
    ASSUME NEW keys \in Seq(Quad), NEW nonce \in Seq(Byte), NEW text \in Seq(Byte)
    PROVE  LET stream == Keystream(keys, nonce, BlocksOf(text))
               out == CounterMode(keys, nonce, text)
           IN  /\ out \in Seq(Byte) /\ Len(out) = Len(text)
               /\ \A i \in 1 .. Len(text) : /\ stream[i] \in Byte
                                           /\ out[i] = XorByte(text[i], stream[i])
<1> DEFINE n == BlocksOf(text)
           stream == Keystream(keys, nonce, n)
           out == CounterMode(keys, nonce, text)
           f == [i \in DOMAIN text |-> XorByte(text[i], stream[i])]
<1>1. Len(text) \in Nat /\ DOMAIN text = 1 .. Len(text) OBVIOUS
<1>2. n \in Nat /\ Len(text) <= 16 * n
    <2>1. n = (Len(text) + 15) \div 16 BY DEF BlocksOf
    <2> HIDE DEF n
    <2> QED BY <1>1, <2>1
<1>3. out = <<>> \o f BY DEF CounterMode
<1> HIDE DEF n, out
<1>4. stream \in Seq(Byte) /\ Len(stream) = 16 * n BY <1>2, KeystreamType
<1> HIDE DEF stream
<1>5. \A i \in 1 .. Len(text) : stream[i] \in Byte
    <2>1. \A i \in 1 .. Len(text) : i \in 1 .. Len(stream) BY <1>1, <1>2, <1>4
    <2> QED BY <1>4, <2>1, ElementType
<1>6. \A i \in 1 .. Len(text) : text[i] \in Byte BY ElementType
<1>7. \A i \in 1 .. Len(text) : XorByte(text[i], stream[i]) \in Byte
    BY <1>5, <1>6, XorUndoes
<1>8. f \in Seq(Byte) /\ Len(f) = Len(text)
      /\ \A i \in 1 .. Len(text) : f[i] = XorByte(text[i], stream[i])
    BY <1>1, <1>7
<1> HIDE DEF f
<1>9. out = f BY <1>3, <1>8
<1> QED BY <1>5, <1>8, <1>9 DEF out, stream, n

LEMMA CounterModeBack ==
    ASSUME NEW keys \in Seq(Quad), NEW nonce \in Seq(Byte), NEW text \in Seq(Byte)
    PROVE  CounterMode(keys, nonce, CounterMode(keys, nonce, text)) = text
<1> DEFINE c == CounterMode(keys, nonce, text)
           stream == Keystream(keys, nonce, BlocksOf(text))
           back == CounterMode(keys, nonce, c)
<1>1. /\ c \in Seq(Byte) /\ Len(c) = Len(text)
      /\ \A i \in 1 .. Len(text) : stream[i] \in Byte /\ c[i] = XorByte(text[i], stream[i])
    BY CounterModeIs
<1>2. BlocksOf(c) = BlocksOf(text) BY <1>1 DEF BlocksOf
<1> HIDE DEF c
<1>3. /\ back \in Seq(Byte) /\ Len(back) = Len(c)
      /\ \A i \in 1 .. Len(c) :
            back[i] = XorByte(c[i], Keystream(keys, nonce, BlocksOf(c))[i])
    BY <1>1, CounterModeIs
<1>4. \A i \in 1 .. Len(text) : back[i] = XorByte(c[i], stream[i]) BY <1>1, <1>2, <1>3
<1> HIDE DEF stream, back
<1>5. \A i \in 1 .. Len(text) : back[i] = text[i]
    <2> TAKE i \in 1 .. Len(text)
    <2>1. text[i] \in Byte BY ElementType
    <2> QED BY <1>1, <1>4, <2>1, XorUndoes
<1>6. back = text BY <1>1, <1>3, <1>5, SameElements
<1> QED BY <1>6 DEF back, c

-----------------------------------------------------------------------------
(***************************************************************************)
(* The exclusive or of all bytes of a sequence differs when one byte does. *)
(***************************************************************************)
XorStep == [p \in Byte \X Byte |-> XorByte(p[1], p[2])]

LEMMA XorStepIs ==
    /\ XorStep \in FoldSteps(Byte, Byte)
    /\ \A a \in Byte, b \in Byte : XorStep[<<a, b>>] = XorByte(a, b)
<1>1. ASSUME NEW p \in Byte \X Byte PROVE XorByte(p[1], p[2]) \in Byte
    <2>1. p[1] \in Byte /\ p[2] \in Byte OBVIOUS
    <2> QED BY <2>1, XorUndoes
<1>2. XorStep \in [Byte \X Byte -> Byte] BY <1>1 DEF XorStep
<1>3. \A a \in Byte, b \in Byte : XorStep[<<a, b>>] = XorByte(a, b) BY DEF XorStep
<1> QED BY <1>2, <1>3 DEF FoldSteps

LEMMA XorIsFold ==
    ASSUME NEW x0 \in Byte, NEW s \in Seq(Byte)
    PROVE  FoldLeft(XorByte, x0, s) = Fold(XorStep, x0, s)
<1> DEFINE Eqn(it) ==
        it = [x \in SUBSET DOMAIN s |->
                IF x = {} THEN x0 ELSE XorByte(it[x \ {Max(x)}], s[Max(x)])]
    jt == CHOOSE it : Eqn(it)
<1>0. x0 \in Byte OBVIOUS
<1>1. FoldLeft(XorByte, x0, s) = jt[DOMAIN s]
    BY DEF FoldLeft, MapThenFoldSet
<1>2. \E it : Eqn(it)
    <2>1. PICK it : /\ FoldsTo(it, XorStep, x0, s)
                    /\ \A x \in SUBSET DOMAIN s : it[x] \in Byte
        BY <1>0, XorStepIs, FoldExists
    <2>2. ASSUME NEW x \in SUBSET DOMAIN s, x # {}
          PROVE  XorStep[<<it[x \ {Max(x)}], s[Max(x)]>>]
                    = XorByte(it[x \ {Max(x)}], s[Max(x)])
        <3>1. x \ {Max(x)} \in SUBSET DOMAIN s /\ s[Max(x)] \in Byte BY <2>2, PrefixSets
        <3>2. it[x \ {Max(x)}] \in Byte BY <2>1, <3>1
        <3> QED BY XorStepIs, <3>1, <3>2
    <2>3. Eqn(it) BY <2>1, <2>2 DEF FoldsTo
    <2> QED BY <2>3
<1>3. Eqn(jt) BY <1>2
<1> HIDE DEF jt
<1>4. \A x \in SUBSET DOMAIN s :
        jt[x] = IF x = {} THEN x0 ELSE XorByte(jt[x \ {Max(x)}], s[Max(x)])
    BY <1>3
<1>5. jt[{}] = x0 BY <1>4
<1>6. ASSUME NEW x \in SUBSET DOMAIN s, x # {}, jt[x \ {Max(x)}] \in Byte
      PROVE  jt[x] = XorStep[<<jt[x \ {Max(x)}], s[Max(x)]>>]
    <2>1. s[Max(x)] \in Byte BY PrefixSets, <1>6
    <2> QED BY XorStepIs, <1>4, <1>6, <2>1
<1> HIDE DEF Eqn
<1>7. Solves(jt, Byte, XorStep, x0, s) BY <1>5, <1>6 DEF Solves
<1>8. jt[DOMAIN s] = Fold(XorStep, x0, s)
    BY <1>0, XorStepIs, <1>7, FoldSolution
<1> QED BY <1>1, <1>8

LEMMA XorAllIsFold ==
    ASSUME NEW s \in Seq(Byte)
    PROVE  0 \in Byte /\ XorAll(s) = Fold(XorStep, 0, s) /\ XorAll(s) \in Byte
<1>1. 0 \in Byte BY DEF Byte
<1>2. XorAll(s) = Fold(XorStep, 0, s) BY <1>1, XorIsFold DEF XorAll
<1>3. Fold(XorStep, 0, s) \in Byte BY <1>1, XorStepIs, FoldType
<1> QED BY <1>1, <1>2, <1>3

LEMMA XorsStayApart ==
    ASSUME NEW a \in Byte, NEW b \in Byte, a # b, NEW s \in Seq(Byte)
    PROVE  Fold(XorStep, a, s) # Fold(XorStep, b, s)
<1> DEFINE T == {u \in Seq(Byte) : Fold(XorStep, a, u) # Fold(XorStep, b, u)}
<1>1. <<>> \in T
    <2> DEFINE nil == <<>>
    <2>1. nil \in Seq(Byte) /\ Len(nil) = 0 OBVIOUS
    <2> HIDE DEF nil
    <2>2. Fold(XorStep, a, nil) = a /\ Fold(XorStep, b, nil) = b
        BY <2>1, XorStepIs, FoldNothing
    <2>3. nil \in T BY <2>1, <2>2
    <2> QED BY <2>3 DEF nil
<1>2. ASSUME NEW u \in Seq(Byte), NEW e \in Byte, u \in T PROVE Append(u, e) \in T
    <2>1. Append(u, e) \in Seq(Byte) OBVIOUS
    <2>2. /\ Fold(XorStep, a, Append(u, e)) = XorStep[<<Fold(XorStep, a, u), e>>]
          /\ Fold(XorStep, b, Append(u, e)) = XorStep[<<Fold(XorStep, b, u), e>>]
        BY XorStepIs, FoldAppend
    <2>3. Fold(XorStep, a, u) \in Byte /\ Fold(XorStep, b, u) \in Byte
        BY XorStepIs, FoldType
    <2>4. Fold(XorStep, a, u) # Fold(XorStep, b, u) BY <1>2
    <2>5. XorByte(Fold(XorStep, a, u), e) # XorByte(Fold(XorStep, b, u), e)
        BY <2>3, <2>4, XorInjective
    <2> QED BY <2>1, <2>2, <2>3, <2>5, XorStepIs
<1> HIDE DEF T
<1>3. s \in T BY <1>1, <1>2, SeqSetInduction
<1> QED BY <1>3 DEF T

LEMMA XorAllTellsApart ==
    ASSUME NEW s \in Seq(Byte), NEW t \in Seq(Byte), Len(s) = Len(t),
           NEW i \in 1 .. Len(s), s[i] # t[i],
           \A k \in 1 .. Len(s) : k # i => s[k] = t[k]
    PROVE  XorAll(s) # XorAll(t)
<1> DEFINE n == Len(s)
           p == SubSeq(s, 1, i - 1)
           q == SubSeq(s, i + 1, n)
           h == Append(p, s[i])
           k == Append(p, t[i])
           v == Fold(XorStep, 0, p)
<1>1. i \in 1 .. n /\ n \in Nat /\ s[i] \in Byte /\ t[i] \in Byte OBVIOUS
<1>2. p \in Seq(Byte) /\ q \in Seq(Byte) /\ h \in Seq(Byte) /\ k \in Seq(Byte) OBVIOUS
<1>3. s = h \o q BY <1>1, SplitAt
<1>4. t = k \o q
    <2>1. SubSeq(t, 1, i - 1) = p
        <3>1. \A j \in 1 .. i - 1 : s[j] = t[j] BY <1>1
        <3> QED BY <1>1, <3>1
    <2>2. SubSeq(t, i + 1, n) = q
        <3>1. \A j \in i + 1 .. n : s[j] = t[j] BY <1>1
        <3> QED BY <1>1, <3>1
    <2>3. t = Append(SubSeq(t, 1, i - 1), t[i]) \o SubSeq(t, i + 1, n)
        BY <1>1, SplitAt
    <2> QED BY <2>1, <2>2, <2>3
<1>5. 0 \in Byte BY DEF Byte
<1> HIDE DEF p, q, h, k
<1>6. v \in Byte BY <1>2, <1>5, XorStepIs, FoldType
<1>7. Fold(XorStep, 0, h) = XorByte(v, s[i]) /\ Fold(XorStep, 0, k) = XorByte(v, t[i])
    <2>1. /\ Fold(XorStep, 0, h) = XorStep[<<v, s[i]>>]
          /\ Fold(XorStep, 0, k) = XorStep[<<v, t[i]>>]
        BY <1>1, <1>2, <1>5, XorStepIs, FoldAppend DEF h, k
    <2> HIDE DEF v
    <2> QED BY <1>1, <1>6, <2>1, XorStepIs
<1>8. /\ Fold(XorStep, 0, h \o q) = Fold(XorStep, Fold(XorStep, 0, h), q)
      /\ Fold(XorStep, 0, k \o q) = Fold(XorStep, Fold(XorStep, 0, k), q)
    BY <1>2, <1>5, XorStepIs, FoldConcat
<1> HIDE DEF v
<1>9. XorByte(v, s[i]) \in Byte /\ XorByte(v, t[i]) \in Byte
      /\ XorByte(v, s[i]) # XorByte(v, t[i])
    BY <1>1, <1>6, XorUndoes, XorInjective
<1>10. Fold(XorStep, 0, s) # Fold(XorStep, 0, t)
    BY <1>2, <1>3, <1>4, <1>7, <1>8, <1>9, XorsStayApart
<1> QED BY <1>10, XorAllIsFold

(***************************************************************************)
(* The bytes that go to place j of a tag.                                  *)
(***************************************************************************)
Placed(text, aad, length, j) ==
    [i \in DOMAIN text |-> IF (i - 1) % length = j - 1 THEN text[i] ELSE 0]
      \o [i \in DOMAIN aad |-> IF aad[i] % length = j - 1 THEN aad[i] ELSE 0]

LEMMA ChosenBytes ==
    ASSUME NEW s \in Seq(Byte), NEW C
    PROVE  LET f == [i \in DOMAIN s |-> IF i \in C THEN s[i] ELSE 0]
           IN  f \in Seq(Byte) /\ Len(f) = Len(s)
<1>1. 0 \in Byte BY DEF Byte
<1>2. Len(s) \in Nat /\ DOMAIN s = 1 .. Len(s) OBVIOUS
<1>3. \A i \in DOMAIN s : (IF i \in C THEN s[i] ELSE 0) \in Byte BY <1>1, <1>2, ElementType
<1> QED BY <1>2, <1>3

Placement(c, text, aad, length, j) ==
    /\ c \in Seq(Byte) /\ Len(c) = Len(text) + Len(aad)
    /\ \A i \in 1 .. Len(text) :
          c[i] = IF (i - 1) % length = j - 1 THEN text[i] ELSE 0
    /\ \A i \in 1 .. Len(aad) :
          c[Len(text) + i] = IF aad[i] % length = j - 1 THEN aad[i] ELSE 0

LEMMA PlacedType ==
    ASSUME NEW text \in Seq(Byte), NEW aad \in Seq(Byte), NEW length, NEW j
    PROVE  Placement(Placed(text, aad, length, j), text, aad, length, j)
<1> DEFINE C == {i \in DOMAIN text : (i - 1) % length = j - 1}
           D == {i \in DOMAIN aad : aad[i] % length = j - 1}
           f == [i \in DOMAIN text |-> IF i \in C THEN text[i] ELSE 0]
           g == [i \in DOMAIN aad |-> IF i \in D THEN aad[i] ELSE 0]
           c == f \o g
<1>1. f = [i \in DOMAIN text |-> IF (i - 1) % length = j - 1 THEN text[i] ELSE 0]
    OBVIOUS
<1>2. g = [i \in DOMAIN aad |-> IF aad[i] % length = j - 1 THEN aad[i] ELSE 0]
    OBVIOUS
<1>3. Placed(text, aad, length, j) = c BY <1>1, <1>2 DEF Placed
<1> HIDE DEF C, D
<1>4. f \in Seq(Byte) /\ Len(f) = Len(text) BY ChosenBytes
<1>5. g \in Seq(Byte) /\ Len(g) = Len(aad) BY ChosenBytes
<1>6. /\ \A i \in 1 .. Len(text) : f[i] = IF (i - 1) % length = j - 1 THEN text[i] ELSE 0
      /\ \A i \in 1 .. Len(aad) : g[i] = IF aad[i] % length = j - 1 THEN aad[i] ELSE 0
    <2>1. DOMAIN text = 1 .. Len(text) /\ DOMAIN aad = 1 .. Len(aad) OBVIOUS
    <2> HIDE DEF f, g
    <2> QED BY <1>1, <1>2, <2>1
<1> HIDE DEF f, g
<1>7. /\ c \in Seq(Byte) /\ Len(c) = Len(f) + Len(g)
      /\ \A i \in 1 .. Len(f) : c[i] = f[i]
      /\ \A i \in 1 .. Len(g) : c[Len(f) + i] = g[i]
    <2>1. f \in Seq(Byte) BY <1>4
    <2>2. g \in Seq(Byte) BY <1>5
    <2> QED BY <2>1, <2>2, Joined
<1> HIDE DEF c
<1> QED BY <1>3, <1>4, <1>5, <1>6, <1>7 DEF Placement

LEMMA TagIs ==
    ASSUME NEW text \in Seq(Byte), NEW aad \in Seq(Byte), NEW length \in Nat
    PROVE  /\ Tag(text, aad, length) \in Seq(Byte)
           /\ Len(Tag(text, aad, length)) = length
           /\ \A j \in 1 .. length :
                 Tag(text, aad, length)[j] = XorAll(Placed(text, aad, length, j))
<1> DEFINE x(j) == XorAll(Placed(text, aad, length, j))
           t == [j \in 1 .. length |-> x(j)]
<1>1. Tag(text, aad, length) = t BY DEF Tag, Placed
<1>2. \A j \in 1 .. length : x(j) \in Byte
    <2> TAKE j \in 1 .. length
    <2>1. Placed(text, aad, length, j) \in Seq(Byte) BY PlacedType DEF Placement
    <2> QED BY <2>1, XorAllIsFold
<1> HIDE DEF x
<1>3. t \in Seq(Byte) /\ Len(t) = length /\ \A j \in 1 .. length : t[j] = x(j) BY <1>2
<1> HIDE DEF t
<1> QED BY <1>1, <1>3 DEF x

LEMMA TagTellsApart ==
    ASSUME NEW text \in Seq(Byte), NEW other \in Seq(Byte), NEW aad \in Seq(Byte),
           NEW length \in Nat \ {0}, Len(text) = Len(other),
           NEW i \in 1 .. Len(text), text[i] # other[i],
           \A k \in 1 .. Len(text) : k # i => text[k] = other[k]
    PROVE  Tag(text, aad, length) # Tag(other, aad, length)
<1> DEFINE j == ((i - 1) % length) + 1
           s == Placed(text, aad, length, j)
           t == Placed(other, aad, length, j)
           m == Len(text)
           n == Len(aad)
<1>0. Len(other) = m OBVIOUS
<1>1. j \in 1 .. length /\ j - 1 = (i - 1) % length
    <2>1. i - 1 \in Nat /\ length \in Nat /\ length > 0 OBVIOUS
    <2>2. (i - 1) % length \in 0 .. (length - 1) BY <2>1
    <2> QED BY <2>1, <2>2
<1> HIDE DEF j
<1>a. Placement(s, text, aad, length, j) /\ Placement(t, other, aad, length, j)
    BY PlacedType
<1>b. m \in Nat /\ n \in Nat /\ i \in 1 .. m OBVIOUS
<1> HIDE DEF s, t
<1>2. /\ s \in Seq(Byte) /\ Len(s) = m + n
      /\ \A k \in 1 .. m : s[k] = IF (k - 1) % length = j - 1 THEN text[k] ELSE 0
      /\ \A k \in 1 .. n : s[m + k] = IF aad[k] % length = j - 1 THEN aad[k] ELSE 0
    BY <1>a DEF Placement
<1>3. /\ t \in Seq(Byte) /\ Len(t) = m + n
      /\ \A k \in 1 .. m : t[k] = IF (k - 1) % length = j - 1 THEN other[k] ELSE 0
      /\ \A k \in 1 .. n : t[m + k] = IF aad[k] % length = j - 1 THEN aad[k] ELSE 0
    BY <1>0, <1>a DEF Placement
<1>4. m \in Nat /\ n \in Nat /\ i \in 1 .. m BY <1>b
<1> HIDE DEF m, n
<1>5. i \in 1 .. Len(s) /\ s[i] # t[i]
    <2>1. i \in 1 .. Len(s) BY <1>2, <1>4
    <2>2. s[i] = text[i] /\ t[i] = other[i] BY <1>1, <1>2, <1>3, <1>4
    <2> QED BY <2>1, <2>2
<1>6. ASSUME NEW k \in 1 .. Len(s), k # i PROVE s[k] = t[k]
    <2>1. CASE k \in 1 .. m
        <3>1. text[k] = other[k] BY <1>6, <2>1 DEF m
        <3> QED BY <1>2, <1>3, <2>1, <3>1
    <2>2. CASE k \notin 1 .. m
        <3>1. k - m \in 1 .. n /\ m + (k - m) = k BY <1>2, <1>4, <2>2
        <3> QED BY <1>2, <1>3, <3>1
    <2> QED BY <2>1, <2>2
<1>7. XorAll(s) # XorAll(t) BY <1>2, <1>3, <1>5, <1>6, XorAllTellsApart
<1>8. Tag(text, aad, length)[j] = XorAll(s) /\ Tag(other, aad, length)[j] = XorAll(t)
    BY <1>1, TagIs DEF s, t
<1> QED BY <1>7, <1>8

-----------------------------------------------------------------------------
(***************************************************************************)
(* Messages of the counter mode with a tag.                                *)
(***************************************************************************)
Sealed(out, cipher, tag, n, length) ==
    /\ cipher \in Seq(Byte) /\ Len(cipher) = n
    /\ tag \in Seq(Byte) /\ Len(tag) = length
    /\ out \in Seq(Byte) /\ Len(out) = n + length
    /\ SubSeq(out, 1, n) = cipher
    /\ SubSeq(out, n + 1, Len(out)) = tag

LEMMA GcmEncryptIs ==
    ASSUME NEW keys \in Seq(Quad), NEW nonce \in Seq(Byte), NEW aad \in Seq(Byte),
           NEW text \in Seq(Byte), NEW length \in Nat
    PROVE  Sealed(GcmEncrypt(keys, nonce, aad, text, length),
                  CounterMode(keys, nonce, text), Tag(text, aad, length),
                  Len(text), length)
<1> DEFINE cipher == CounterMode(keys, nonce, text)
           tag == Tag(text, aad, length)
           out == GcmEncrypt(keys, nonce, aad, text, length)
<1>1. cipher \in Seq(Byte) /\ Len(cipher) = Len(text) BY CounterModeIs
<1>2. tag \in Seq(Byte) /\ Len(tag) = length BY TagIs
<1>3. out = cipher \o tag BY DEF GcmEncrypt
<1> HIDE DEF cipher, tag, out
<1>4. out \in Seq(Byte) /\ Len(out) = Len(cipher) + Len(tag) BY <1>1, <1>2, <1>3, Joined
<1>5. SubSeq(out, 1, Len(cipher)) = cipher BY <1>1, <1>2, <1>3, FirstPart
<1>6. SubSeq(out, Len(cipher) + 1, Len(cipher) + Len(tag)) = tag
    BY <1>1, <1>2, <1>3, LastPart
<1> QED BY <1>1, <1>2, <1>4, <1>5, <1>6 DEF Sealed, cipher, tag, out

(***************************************************************************)
(* What gcm_encrypt wrote, gcm_decrypt reads as the text.  (A nonce of more*)
(* than 16 bytes overruns the counter, and a tag of none divides by zero:  *)
(* there the code has no result, and what the model has says nothing.)     *)
(***************************************************************************)
THEOREM MessageIsDecrypted ==
    ASSUME NEW keys \in Seq(Quad), NEW nonce \in Seq(Byte), NEW aad \in Seq(Byte),
           NEW text \in Seq(Byte), NEW length \in Nat \ {0}, Len(nonce) <= 16
    PROVE  LET out == GcmEncrypt(keys, nonce, aad, text, length)
           IN  GcmDecrypt(keys, nonce, aad, out, length) = Got(text, Len(out))
<1> DEFINE cipher == CounterMode(keys, nonce, text)
           tag == Tag(text, aad, length)
           out == GcmEncrypt(keys, nonce, aad, text, length)
           n == Len(out) - length
<1>a. length \in Nat OBVIOUS
<1>0. Sealed(out, cipher, tag, Len(text), length) BY <1>a, GcmEncryptIs
<1>2. CounterMode(keys, nonce, cipher) = text BY CounterModeBack
<1>3. tag = Tag(text, aad, length) OBVIOUS
<1> HIDE DEF cipher, tag, out
<1>1. /\ cipher \in Seq(Byte) /\ Len(cipher) = Len(text)
      /\ tag \in Seq(Byte) /\ Len(tag) = length
      /\ out \in Seq(Byte) /\ Len(out) = Len(text) + length
      /\ SubSeq(out, 1, Len(text)) = cipher
      /\ SubSeq(out, Len(text) + 1, Len(out)) = tag
    BY <1>0 DEF Sealed
<1>4. n = Len(text) /\ ~ (Len(out) < length) BY <1>a, <1>1
<1> HIDE DEF n
<1>5. TagMatches(text, aad, tag) BY <1>1, <1>3 DEF TagMatches
<1>6. GcmDecrypt(keys, nonce, aad, out, length) = Got(text, Len(out))
    BY <1>1, <1>2, <1>4, <1>5 DEF GcmDecrypt, n
<1> QED BY <1>6 DEF out

(***************************************************************************)
(* The two differ in one place, and are of one length.                     *)
(***************************************************************************)
OneChanged(data, out) ==
    /\ Len(data) = Len(out)
    /\ \E i \in 1 .. Len(data) :
          /\ data[i] # out[i]
          /\ \A k \in 1 .. Len(data) : k # i => data[k] = out[k]

(***************************************************************************)
(* With any one byte changed, of the text or of the tag, it is refused.    *)
(***************************************************************************)
THEOREM ChangeIsRefused ==
    ASSUME NEW keys \in Seq(Quad), NEW nonce \in Seq(Byte), NEW aad \in Seq(Byte),
           NEW text \in Seq(Byte), NEW length \in Nat \ {0}, NEW data \in Seq(Byte),
           Len(nonce) <= 16,
           OneChanged(data, GcmEncrypt(keys, nonce, aad, text, length))
    PROVE  GcmDecrypt(keys, nonce, aad, data, length) = Error("DecryptionError")
<1> DEFINE cipher == CounterMode(keys, nonce, text)
           tag == Tag(text, aad, length)
           out == GcmEncrypt(keys, nonce, aad, text, length)
           m == Len(text)
           first == SubSeq(data, 1, m)
           last == SubSeq(data, m + 1, Len(data))
           read == CounterMode(keys, nonce, first)
           stream == Keystream(keys, nonce, BlocksOf(text))
<1>0. Sealed(out, cipher, tag, m, length)
    <2>1. length \in Nat OBVIOUS
    <2> QED BY <2>1, GcmEncryptIs
<1>a. OneChanged(data, out) OBVIOUS
<1>b. PICK i \in 1 .. Len(data) : /\ data[i] # out[i]
                                  /\ \A k \in 1 .. Len(data) : k # i => data[k] = out[k]
    <2> HIDE DEF out
    <2> QED BY <1>a DEF OneChanged
<1>2. Len(data) = Len(out) /\ data[i] # out[i] /\ i \in 1 .. Len(data)
      /\ \A k \in 1 .. Len(data) : k # i => data[k] = out[k]
    <2> HIDE DEF out
    <2> QED BY <1>a, <1>b DEF OneChanged
<1>3. /\ m \in Nat /\ length \in Nat /\ length > 0
    OBVIOUS
<1>4. CounterMode(keys, nonce, cipher) = text BY CounterModeBack
<1>5. \A k \in 1 .. m : stream[k] \in Byte /\ cipher[k] = XorByte(text[k], stream[k])
    BY CounterModeIs
<1>6. tag = Tag(text, aad, length) OBVIOUS
<1> HIDE DEF cipher, tag, out, m, stream
<1>1. /\ cipher \in Seq(Byte) /\ Len(cipher) = m
      /\ tag \in Seq(Byte) /\ Len(tag) = length
      /\ out \in Seq(Byte) /\ Len(out) = m + length
      /\ SubSeq(out, 1, m) = cipher
      /\ SubSeq(out, m + 1, Len(out)) = tag
    BY <1>0 DEF Sealed
<1>7. /\ \A k \in 1 .. m : out[k] = cipher[k]
      /\ \A k \in 1 .. length : out[m + k] = tag[k]
    <2>1. 0 + m <= Len(out) /\ m + length <= Len(out) /\ 0 \in Nat BY <1>1, <1>3
    <2>2. \A k \in 1 .. m : SubSeq(out, 0 + 1, 0 + m)[k] = out[0 + k]
        BY <1>1, <1>3, <2>1, Part
    <2>3. \A k \in 1 .. length : SubSeq(out, m + 1, m + length)[k] = out[m + k]
        BY <1>1, <1>3, <2>1, Part, SMTT(40)
    <2>4. SubSeq(out, 0 + 1, 0 + m) = cipher BY <1>1, <1>3
    <2>5. SubSeq(out, m + 1, m + length) = tag BY <1>1, <1>3
    <2>6. \A k \in 1 .. m : 0 + k = k OBVIOUS
    <2> QED BY <2>2, <2>3, <2>4, <2>5, <2>6
<1>8. /\ first \in Seq(Byte) /\ Len(first) = m
      /\ \A k \in 1 .. m : first[k] = data[k]
    <2>1. 0 + m <= Len(data) /\ 0 \in Nat BY <1>1, <1>2, <1>3
    <2> DEFINE u == SubSeq(data, 0 + 1, 0 + m)
    <2>2. u \in Seq(Byte) /\ Len(u) = m /\ \A k \in 1 .. m : u[k] = data[0 + k]
        BY <1>3, <2>1, Part
    <2>3. u = first BY <1>3
    <2>4. \A k \in 1 .. m : 0 + k = k OBVIOUS
    <2> HIDE DEF u, first
    <2> QED BY <2>2, <2>3, <2>4
<1>9. /\ last \in Seq(Byte) /\ Len(last) = length
      /\ \A k \in 1 .. length : last[k] = data[m + k]
    <2>1. m + length <= Len(data) /\ m + length = Len(data) BY <1>1, <1>2, <1>3
    <2> DEFINE u == SubSeq(data, m + 1, m + length)
    <2>2. u \in Seq(Byte) /\ Len(u) = length /\ \A k \in 1 .. length : u[k] = data[m + k]
        BY <1>3, <2>1, Part
    <2>3. u = last BY <2>1
    <2> HIDE DEF u, last
    <2> QED BY <2>2, <2>3
<1> HIDE DEF first, last, read
<1>10. read \in Seq(Byte) /\ Len(read) = m BY <1>8, CounterModeIs DEF read
<1>11. ~TagMatches(read, aad, last)
    <2>1. CASE i \in 1 .. m
        <3>1. \A k \in 1 .. length : last[k] = tag[k]
            <4> TAKE k \in 1 .. length
            <4>1. m + k \in 1 .. Len(data) /\ m + k # i BY <1>1, <1>2, <1>3, <2>1
            <4> QED BY <1>2, <1>7, <1>9, <4>1
        <3>2. last = tag BY <1>1, <1>9, <3>1, SameElements
        <3>3. BlocksOf(first) = BlocksOf(text) BY <1>8 DEF BlocksOf, m
        <3>4. \A k \in 1 .. m : read[k] = XorByte(first[k], stream[k])
            <4>1. \A k \in 1 .. Len(first) :
                    CounterMode(keys, nonce, first)[k]
                       = XorByte(first[k], Keystream(keys, nonce, BlocksOf(first))[k])
                BY <1>8, CounterModeIs
            <4> QED BY <1>8, <3>3, <4>1 DEF read, stream
        <3>5. \A k \in 1 .. m : /\ text[k] \in Byte /\ cipher[k] \in Byte
                                /\ first[k] \in Byte
                                /\ text[k] = XorByte(cipher[k], stream[k])
            <4> TAKE k \in 1 .. m
            <4>1. text[k] \in Byte /\ cipher[k] \in Byte /\ first[k] \in Byte
                <5>1. \A j \in 1 .. Len(text) : text[j] \in Byte BY ElementType
                <5>2. \A j \in 1 .. Len(cipher) : cipher[j] \in Byte BY <1>1, ElementType
                <5>3. \A j \in 1 .. Len(first) : first[j] \in Byte BY <1>8, ElementType
                <5> QED BY <1>1, <1>8, <5>1, <5>2, <5>3 DEF m
            <4> QED BY <1>5, <4>1, XorUndoes
        <3>6. text[i] # read[i]
            <4>1. first[i] # cipher[i] BY <1>2, <1>7, <1>8, <2>1
            <4>2. /\ text[i] = XorByte(cipher[i], stream[i])
                  /\ read[i] = XorByte(first[i], stream[i])
                  /\ cipher[i] \in Byte /\ first[i] \in Byte /\ stream[i] \in Byte
                BY <1>5, <2>1, <3>4, <3>5
            <4> QED BY <4>1, <4>2, XorInjective
        <3>7. \A k \in 1 .. m : k # i => text[k] = read[k]
            <4> SUFFICES ASSUME NEW k \in 1 .. m, k # i PROVE text[k] = read[k]
                OBVIOUS
            <4>1. k \in 1 .. Len(data) BY <1>1, <1>2, <1>3
            <4>2. first[k] = cipher[k] BY <1>2, <1>7, <1>8, <4>1
            <4> QED BY <3>4, <3>5, <4>2
        <3>8. Tag(text, aad, length) # Tag(read, aad, length)
            BY <1>3, <1>10, <2>1, <3>6, <3>7, TagTellsApart DEF m
        <3> QED BY <1>6, <1>9, <3>2, <3>8 DEF TagMatches
    <2>2. CASE i \notin 1 .. m
        <3>1. i - m \in 1 .. length /\ m + (i - m) = i BY <1>1, <1>2, <1>3, <2>2
        <3>2. \A k \in 1 .. m : first[k] = cipher[k]
            <4> TAKE k \in 1 .. m
            <4>1. k \in 1 .. Len(data) /\ k # i BY <1>1, <1>2, <1>3, <2>2
            <4> QED BY <1>2, <1>7, <1>8, <4>1
        <3>3. first = cipher BY <1>1, <1>8, <3>2, SameElements
        <3>4. read = text BY <1>4, <3>3 DEF read
        <3>5. last[i - m] # tag[i - m] BY <1>2, <1>7, <1>9, <3>1
        <3> QED BY <1>6, <1>9, <3>4, <3>5 DEF TagMatches
    <2> QED BY <2>1, <2>2
<1>12. Len(data) - length = m /\ ~ (Len(data) < length) BY <1>1, <1>2, <1>3
<1> QED BY <1>11, <1>12 DEF GcmDecrypt, read, first, last

(***************************************************************************)
(* Results: an error of the code, or a value and the next position.        *)
(***************************************************************************)
Failures == {"BufferUnderflow", "InvalidLength", "InvalidTag",
             "DecryptionError", "InvalidObis"}

Result(V) == [ok : {FALSE}, err : Failures]
               \union [ok : {TRUE}, val : V, pos : Nat]

LEMMA ErrorIs ==
    ASSUME NEW e
    PROVE  Error(e).ok = FALSE /\ Error(e).err = e
BY DEF Error

LEMMA ErrorType ==
    ASSUME NEW e \in Failures, NEW V
    PROVE  Error(e) \in Result(V)
BY DEF Error, Result

LEMMA GotIs ==
    ASSUME NEW v, NEW n
    PROVE  Got(v, n).ok = TRUE /\ Got(v, n).val = v /\ Got(v, n).pos = n
BY DEF Got

LEMMA GotType ==
    ASSUME NEW V, NEW v \in V, NEW n \in Nat
    PROVE  Got(v, n) \in Result(V)
BY DEF Got, Result

LEMMA ResultIs ==
    ASSUME NEW V, NEW r \in Result(V)
    PROVE  /\ r.ok \in BOOLEAN
           /\ r.ok => r = Got(r.val, r.pos) /\ r.val \in V /\ r.pos \in Nat
           /\ ~r.ok => r = Error(r.err) /\ r.err \in Failures /\ \A W : r \in Result(W)
BY DEF Got, Error, Result

IsJoin(c, E, s, t) ==
    /\ c \in Seq(E) /\ Len(c) = Len(s) + Len(t)
    /\ \A i \in 1 .. Len(s) : c[i] = s[i]
    /\ \A i \in 1 .. Len(t) : c[Len(s) + i] = t[i]

LEMMA JoinIs ==
    ASSUME NEW E, NEW s \in Seq(E), NEW t \in Seq(E)
    PROVE  IsJoin(s \o t, E, s, t)
BY DEF IsJoin

-----------------------------------------------------------------------------
(***************************************************************************)
(* Recursion where each step has a set of its own.                         *)
(***************************************************************************)
RecursAlong(f, D, base, step) ==
    /\ f = [n \in Nat |-> f[n]]
    /\ f[0] = base
    /\ \A n \in Nat : f[n] \in D[n] /\ f[n + 1] = step[n][f[n]]

(***************************************************************************)
(* The recursion has a function, whose value for each n is in the set of   *)
(* n, if every step leads from the set of n to that of n + 1.              *)
(***************************************************************************)
THEOREM RecursionAlong ==
    ASSUME NEW D, NEW base \in D[0], NEW step,
           \A n \in Nat : \A x \in D[n] : step[n][x] \in D[n + 1]
    PROVE  \E f : RecursAlong(f, D, base, step)
<1> DEFINE S == UNION {D[n] : n \in Nat}
           next == [p \in Nat \X S |-> IF p[2] \in D[p[1]] THEN step[p[1]][p[2]]
                                       ELSE base]
<1>1. base \in S OBVIOUS
<1>2. next \in Steps(S)
    <2>1. ASSUME NEW p \in Nat \X S
          PROVE  (IF p[2] \in D[p[1]] THEN step[p[1]][p[2]] ELSE base) \in S
        <3>1. p[1] \in Nat /\ p[1] + 1 \in Nat OBVIOUS
        <3>2. CASE p[2] \in D[p[1]]
            <4>1. step[p[1]][p[2]] \in D[p[1] + 1] BY <3>1, <3>2
            <4> QED BY <3>1, <3>2, <4>1
        <3> QED BY <1>1, <3>2
    <2> HIDE DEF S
    <2> QED BY <2>1 DEF Steps
<1>3. \A n \in Nat, x \in S : next[<<n, x>>] = IF x \in D[n] THEN step[n][x] ELSE base
    OBVIOUS
<1>4. \A n \in Nat : D[n] \subseteq S OBVIOUS
<1> HIDE DEF S, next
<1>5. PICK f : Recurs(f, S, base, next) BY <1>1, <1>2, Recursion
<1>6. f \in [Nat -> S] /\ f[0] = base /\ \A n \in Nat : f[n + 1] = next[<<n, f[n]>>]
    BY <1>5 DEF Recurs
<1> DEFINE T == {n \in Nat : f[n] \in D[n]}
<1>7. 0 \in T BY <1>6
<1>8. ASSUME NEW n \in Nat, f[n] \in D[n] PROVE f[n + 1] = step[n][f[n]]
    BY <1>3, <1>4, <1>6, <1>8
<1>9. ASSUME NEW n \in Nat, n \in T PROVE n + 1 \in T
    BY <1>8, <1>9
<1> HIDE DEF T
<1>10. Nat \subseteq T BY <1>7, <1>9, NatSetInduction
<1>11. \A n \in Nat : f[n] \in D[n] BY <1>10 DEF T
<1>12. f = [n \in Nat |-> f[n]] BY <1>6
<1> QED BY <1>6, <1>8, <1>11, <1>12 DEF RecursAlong

-----------------------------------------------------------------------------
(***************************************************************************)
(* Where bytes are: at a position of the data, or cut off at its end.      *)
(***************************************************************************)
Holds(data, pos, s) ==
    /\ pos + Len(s) <= Len(data)
    /\ \A i \in 1 .. Len(s) : data[pos + i] = s[i]

CutTo(part, data) ==
    /\ Len(part) <= Len(data)
    /\ \A i \in 1 .. Len(part) : part[i] = data[i]

LEMMA HoldsBoth ==
    ASSUME NEW data \in Seq(Byte), NEW pos \in Nat, NEW s \in Seq(Byte),
           NEW t \in Seq(Byte), Holds(data, pos, s \o t)
    PROVE  Holds(data, pos, s) /\ Holds(data, pos + Len(s), t)
<1> DEFINE c == s \o t
<1>1. /\ c \in Seq(Byte) /\ Len(c) = Len(s) + Len(t)
      /\ \A i \in 1 .. Len(s) : c[i] = s[i]
      /\ \A i \in 1 .. Len(t) : c[Len(s) + i] = t[i]
    BY Joined
<1>2. Len(s) \in Nat /\ Len(t) \in Nat /\ Len(data) \in Nat OBVIOUS
<1>3. pos + Len(c) <= Len(data) /\ \A i \in 1 .. Len(c) : data[pos + i] = c[i]
    BY DEF Holds
<1> HIDE DEF c
<1>4. Holds(data, pos, s) BY <1>1, <1>2, <1>3 DEF Holds
<1>5. pos + Len(s) + Len(t) <= Len(data) BY <1>1, <1>2, <1>3
<1>6. ASSUME NEW i \in 1 .. Len(t) PROVE data[pos + Len(s) + i] = t[i]
    <2>1. Len(s) + i \in 1 .. Len(c) /\ pos + (Len(s) + i) = pos + Len(s) + i
        BY <1>1, <1>2
    <2> QED BY <1>1, <1>3, <2>1
<1> QED BY <1>4, <1>5, <1>6 DEF Holds

WasRead(r, data, pos, n) ==
    /\ pos + n > Len(data) => r = Error("BufferUnderflow") /\ r.ok = FALSE
    /\ pos + n <= Len(data) =>
          /\ r = Got(r.val, pos + n) /\ r.ok = TRUE /\ r.pos = pos + n
          /\ r.val \in Seq(Byte) /\ Len(r.val) = n
          /\ \A i \in 1 .. n : r.val[i] = data[pos + i]

LEMMA ReadBytesIs ==
    ASSUME NEW data \in Seq(Byte), NEW pos \in Nat, NEW n \in Nat
    PROVE  WasRead(ReadBytes(data, pos, n), data, pos, n)
<1>1. CASE pos + n > Len(data)
    <2>1. ReadBytes(data, pos, n) = Error("BufferUnderflow") BY <1>1 DEF ReadBytes
    <2>2. ~ (pos + n <= Len(data)) BY <1>1
    <2> QED BY <2>1, <2>2, ErrorIs DEF WasRead
<1>2. CASE ~ (pos + n > Len(data))
    <2> DEFINE u == SubSeq(data, pos + 1, pos + n)
    <2>1. pos + n <= Len(data) BY <1>2
    <2>2. u \in Seq(Byte) /\ Len(u) = n /\ \A i \in 1 .. n : u[i] = data[pos + i]
        BY <2>1, Part
    <2>3. ReadBytes(data, pos, n) = Got(u, pos + n) BY <1>2 DEF ReadBytes
    <2> HIDE DEF u
    <2>4. /\ Got(u, pos + n).ok = TRUE /\ Got(u, pos + n).val = u
          /\ Got(u, pos + n).pos = pos + n
        BY GotIs, ZenonT(60)
    <2> QED BY <1>2, <2>1, <2>2, <2>3, <2>4 DEF WasRead
<1> QED BY <1>1, <1>2

LEMMA ReadBytesType ==
    ASSUME NEW data \in Seq(Byte), NEW pos \in Nat, NEW n \in Nat
    PROVE  ReadBytes(data, pos, n) \in Result(Seq(Byte))
<1> DEFINE r == ReadBytes(data, pos, n)
<1>1. /\ pos + n > Len(data) => r = Error("BufferUnderflow")
      /\ pos + n <= Len(data) => r = Got(r.val, pos + n) /\ r.val \in Seq(Byte)
    BY ReadBytesIs DEF WasRead
<1>2. pos + n > Len(data) \/ pos + n <= Len(data) OBVIOUS
<1>3. pos + n \in Nat /\ "BufferUnderflow" \in Failures BY DEF Failures
<1> HIDE DEF r
<1>4. CASE pos + n > Len(data) BY <1>1, <1>3, <1>4, ErrorType DEF r
<1>5. CASE pos + n <= Len(data) BY <1>1, <1>3, <1>5, GotType DEF r
<1> QED BY <1>2, <1>4, <1>5

LEMMA HeldIsRead ==
    ASSUME NEW data \in Seq(Byte), NEW pos \in Nat, NEW s \in Seq(Byte),
           Holds(data, pos, s)
    PROVE  ReadBytes(data, pos, Len(s)) = Got(s, pos + Len(s))
<1> DEFINE r == ReadBytes(data, pos, Len(s))
<1>1. pos + Len(s) <= Len(data) /\ \A i \in 1 .. Len(s) : data[pos + i] = s[i]
    BY DEF Holds
<1>2. Len(s) \in Nat OBVIOUS
<1>3. /\ r = Got(r.val, pos + Len(s)) /\ r.val \in Seq(Byte) /\ Len(r.val) = Len(s)
      /\ \A i \in 1 .. Len(s) : r.val[i] = data[pos + i]
    BY <1>1, <1>2, ReadBytesIs DEF WasRead
<1> HIDE DEF r
<1>4. r.val = s
    <2> DEFINE v == r.val
    <2>1. v \in Seq(Byte) /\ Len(v) = Len(s) /\ \A i \in 1 .. Len(v) : v[i] = s[i]
        BY <1>1, <1>3
    <2> HIDE DEF v
    <2>2. v = s BY <2>1, SameElements
    <2> QED BY <2>2 DEF v
<1> QED BY <1>3, <1>4 DEF r

LEMMA ReadBytesOnCut ==
    ASSUME NEW data \in Seq(Byte), NEW part \in Seq(Byte), CutTo(part, data),
           NEW pos \in Nat, NEW n \in Nat, ReadBytes(part, pos, n).ok
    PROVE  ReadBytes(data, pos, n) = ReadBytes(part, pos, n)
<1> DEFINE r == ReadBytes(data, pos, n)
           q == ReadBytes(part, pos, n)
<1>1. Len(part) \in Nat /\ Len(data) \in Nat /\ Len(part) <= Len(data)
      /\ \A i \in 1 .. Len(part) : part[i] = data[i]
    BY DEF CutTo
<1>2. pos + n <= Len(part)
    <2>1. pos + n > Len(part) => q.ok = FALSE BY ReadBytesIs DEF WasRead
    <2> QED BY <1>1, <2>1
<1>3. /\ q = Got(q.val, pos + n) /\ q.val \in Seq(Byte) /\ Len(q.val) = n
      /\ \A i \in 1 .. n : q.val[i] = part[pos + i]
    BY <1>2, ReadBytesIs DEF WasRead
<1>4. pos + n <= Len(data) BY <1>1, <1>2
<1>5. /\ r = Got(r.val, pos + n) /\ r.val \in Seq(Byte) /\ Len(r.val) = n
      /\ \A i \in 1 .. n : r.val[i] = data[pos + i]
    BY <1>4, ReadBytesIs DEF WasRead
<1> DEFINE u == q.val
           v == r.val
<1>6. /\ u \in Seq(Byte) /\ v \in Seq(Byte) /\ Len(u) = n /\ Len(v) = n
      /\ \A i \in 1 .. n : u[i] = v[i]
    <2>1. \A i \in 1 .. n : pos + i \in 1 .. Len(part) BY <1>1, <1>2
    <2> QED BY <1>1, <1>3, <1>5, <2>1
<1>7. q = Got(u, pos + n) /\ r = Got(v, pos + n) BY <1>3, <1>5
<1> HIDE DEF q, r, u, v
<1>8. u = v BY <1>6, SameElements
<1> QED BY <1>7, <1>8 DEF q, r

(***************************************************************************)
(* The stream of fewer blocks is a beginning of that of more.              *)
(***************************************************************************)
LEMMA KeystreamNext ==
    ASSUME NEW keys \in Seq(Quad), NEW nonce \in Seq(Byte), NEW n \in Nat
    PROVE  \A i \in 1 .. 16 * n :
              Keystream(keys, nonce, n + 1)[i] = Keystream(keys, nonce, n)[i]
<1> DEFINE c == Counters(nonce, n)
           e == Counters(nonce, n + 1)
           b == [i \in 1 .. n |-> EncryptBlock(keys, c[i])]
           d == [i \in 1 .. n + 1 |-> EncryptBlock(keys, e[i])]
           short == FlattenSeq(b)
           long == FlattenSeq(d)
<1>1. /\ c \in Seq(Block) /\ Len(c) = n
      /\ e \in Seq(Block) /\ Len(e) = n + 1
    BY CountersAre
<1>2. \A i \in 1 .. n : e[i] = c[i] BY DEF Counters
<1> HIDE DEF c, e
<1>3. (\A i \in 1 .. n : c[i] \in Block) /\ \A i \in 1 .. n + 1 : e[i] \in Block
    BY <1>1, ElementType
<1>4. /\ \A i \in 1 .. n : EncryptBlock(keys, c[i]) \in Block
      /\ \A i \in 1 .. n + 1 : EncryptBlock(keys, e[i]) \in Block
    BY <1>3, BlockIsDecrypted
<1>5. b \in Seq(Block) /\ Len(b) = n BY <1>4
<1>6. d \in Seq(Block) /\ Len(d) = n + 1 BY <1>4
<1>7. \A i \in 1 .. n : d[i] = b[i] BY <1>2
<1>8. Keystream(keys, nonce, n) = short BY DEF Keystream, c
<1>9. Keystream(keys, nonce, n + 1) = long BY DEF Keystream, e
<1> HIDE DEF b, d
<1>10. short \in Seq(Byte) /\ Len(short) = 16 * n BY <1>5, FlatBlocks
<1>11. Block \subseteq Seq(Byte) BY DEF Block
<1>12. b \in Seq(Seq(Byte)) /\ d \in Seq(Seq(Byte)) BY <1>5, <1>6, <1>11
<1> DEFINE last == d[n + 1]
<1>13. last \in Seq(Byte) BY <1>6, <1>11
<1>14. long = short \o last BY <1>5, <1>6, <1>7, <1>12, FlatAlong
<1> HIDE DEF short, last
<1>15. \A i \in 1 .. Len(short) : (short \o last)[i] = short[i]
    BY <1>10, <1>13, Joined
<1> HIDE DEF long
<1> QED BY <1>8, <1>9, <1>10, <1>14, <1>15

LEMMA KeystreamGrows ==
    ASSUME NEW keys \in Seq(Quad), NEW nonce \in Seq(Byte), NEW n \in Nat, NEW m \in Nat,
           n <= m
    PROVE  \A i \in 1 .. 16 * n : Keystream(keys, nonce, m)[i] = Keystream(keys, nonce, n)[i]
<1> DEFINE P(k) == \A i \in 1 .. 16 * n :
                     Keystream(keys, nonce, n + k)[i] = Keystream(keys, nonce, n)[i]
           T == {k \in Nat : P(k)}
<1>1. 0 \in T
    <2>1. n + 0 = n OBVIOUS
    <2> QED BY <2>1
<1>2. ASSUME NEW k \in Nat, k \in T PROVE k + 1 \in T
    <2> SUFFICES P(k + 1) OBVIOUS
    <2> DEFINE h == n + k
    <2>1. h \in Nat /\ n + (k + 1) = h + 1 /\ 16 * n <= 16 * h OBVIOUS
    <2>2. P(k) BY <1>2
    <2> HIDE DEF h
    <2>3. ASSUME NEW i \in 1 .. 16 * n
          PROVE  Keystream(keys, nonce, h + 1)[i] = Keystream(keys, nonce, n)[i]
        <3>1. i \in 1 .. 16 * h BY <2>1
        <3>2. Keystream(keys, nonce, h + 1)[i] = Keystream(keys, nonce, h)[i]
            BY <2>1, <3>1, KeystreamNext
        <3> QED BY <2>2, <3>2 DEF h
    <2> QED BY <2>1, <2>3
<1> HIDE DEF T
<1>3. Nat \subseteq T BY <1>1, <1>2, NatSetInduction
<1>4. m - n \in Nat /\ n + (m - n) = m OBVIOUS
<1>5. P(m - n)
    <2>1. m - n \in T BY <1>3, <1>4
    <2> HIDE DEF P
    <2> QED BY <2>1 DEF T
<1> QED BY <1>4, <1>5

(***************************************************************************)
(* A message that is cut is read as a beginning of its text, when the bytes*)
(* that come to stand for the tag are, by chance, that of the beginning.   *)
(***************************************************************************)
THEOREM CutIsABeginningOfText ==
    ASSUME NEW keys \in Seq(Quad), NEW nonce \in Seq(Byte), NEW aad \in Seq(Byte),
           NEW text \in Seq(Byte), NEW length \in Nat \ {0}, NEW data \in Seq(Byte),
           Len(nonce) <= 16,
           CutTo(data, GcmEncrypt(keys, nonce, aad, text, length)),
           Len(data) < Len(GcmEncrypt(keys, nonce, aad, text, length)),
           GcmDecrypt(keys, nonce, aad, data, length).ok
    PROVE  IsStrictPrefix(GcmDecrypt(keys, nonce, aad, data, length).val, text)
<1> DEFINE cipher == CounterMode(keys, nonce, text)
           tag == Tag(text, aad, length)
           out == GcmEncrypt(keys, nonce, aad, text, length)
           m == Len(text)
           n == Len(data) - length
           first == SubSeq(data, 1, n)
           read == CounterMode(keys, nonce, first)
           r == GcmDecrypt(keys, nonce, aad, data, length)
           blocks == BlocksOf(text)
           fewer == BlocksOf(first)
<1>1. length \in Nat /\ m \in Nat /\ Len(data) \in Nat OBVIOUS
<1>2. Sealed(out, cipher, tag, m, length) BY <1>1, GcmEncryptIs
<1>3. Len(data) < Len(out) /\ \A i \in 1 .. Len(data) : data[i] = out[i]
    BY DEF CutTo
<1>4. ~ (Len(data) < length) /\ r.val = read
    <2> DEFINE e == Error("DecryptionError")
               g == Got(read, Len(data))
    <2>1. r = e \/ (~ (Len(data) < length) /\ r = g) BY DEF GcmDecrypt
    <2>2. ~ e.ok BY ErrorIs
    <2>3. g.val = read BY GotIs
    <2>4. r.ok OBVIOUS
    <2> HIDE DEF e, g, r, read
    <2> QED BY <2>1, <2>2, <2>3, <2>4
<1>5. \A k \in 1 .. m : /\ Keystream(keys, nonce, blocks)[k] \in Byte
                        /\ cipher[k] = XorByte(text[k], Keystream(keys, nonce, blocks)[k])
    BY CounterModeIs
<1> HIDE DEF out, cipher, tag, r
<1>6. /\ cipher \in Seq(Byte) /\ Len(cipher) = m
      /\ out \in Seq(Byte) /\ Len(out) = m + length
      /\ SubSeq(out, 1, m) = cipher
    BY <1>2 DEF Sealed
<1>7. n \in Nat /\ n < m /\ n <= Len(data) BY <1>1, <1>3, <1>4, <1>6
<1> HIDE DEF n
<1>8. first \in Seq(Byte) /\ Len(first) = n /\ \A k \in 1 .. n : first[k] = data[k]
    BY <1>1, <1>7
<1> HIDE DEF first
<1>9. ASSUME NEW k \in 1 .. n PROVE first[k] = cipher[k] /\ k \in 1 .. m
    <2>1. k \in 1 .. m /\ k \in 1 .. Len(data) BY <1>1, <1>7
    <2>2. out[k] = SubSeq(out, 1, m)[k] BY <1>1, <1>6, <2>1
    <2> QED BY <1>3, <1>6, <1>8, <2>1, <2>2
<1>10. fewer \in Nat /\ blocks \in Nat /\ fewer <= blocks /\ n <= 16 * fewer
    <2>1. fewer = (n + 15) \div 16 /\ blocks = (m + 15) \div 16 BY <1>8 DEF BlocksOf
    <2> HIDE DEF fewer, blocks, m
    <2> QED BY <1>1, <1>7, <2>1
<1>11. /\ read \in Seq(Byte) /\ Len(read) = n
       /\ \A k \in 1 .. n : read[k] = XorByte(first[k], Keystream(keys, nonce, fewer)[k])
    BY <1>8, CounterModeIs
<1> HIDE DEF read, fewer, blocks
<1>12. ASSUME NEW k \in 1 .. n PROVE text[k] = read[k]
    <2> DEFINE x == Keystream(keys, nonce, blocks)[k]
               t == text[k]
    <2>1. k \in 1 .. 16 * fewer BY <1>7, <1>10
    <2>2. Keystream(keys, nonce, fewer)[k] = x BY <1>10, <2>1, KeystreamGrows
    <2>3. first[k] = XorByte(t, x) /\ x \in Byte /\ k \in 1 .. m BY <1>5, <1>9
    <2>4. t \in Byte BY <2>3, ElementType DEF m
    <2>5. read[k] = XorByte(first[k], x) BY <1>11, <2>2
    <2> HIDE DEF t, x
    <2>6. XorByte(XorByte(t, x), x) = t BY <2>3, <2>4, XorUndoes
    <2>7. read[k] = t BY <2>3, <2>5, <2>6
    <2> QED BY <2>7 DEF t
<1>13. SubSeq(text, 1, Len(read)) = read
    <2>1. \A k \in 1 .. Len(read) : text[k] = read[k] BY <1>11, <1>12
    <2>2. Len(read) <= Len(text) BY <1>7, <1>11 DEF m
    <2> QED BY <1>11, <2>1, <2>2, BeginningIs
<1>14. SubSeq(read, 1, Len(read)) = read BY <1>11, BeginningIs
<1>15. Len(read) <= Len(text) /\ read # text BY <1>7, <1>11 DEF m
<1>16. IsStrictPrefix(read, text) BY <1>13, <1>14, <1>15 DEF IsStrictPrefix, IsPrefix
<1> QED BY <1>4, <1>16 DEF r

-----------------------------------------------------------------------------
(***************************************************************************)
(* Numbers of bytes, lengths and counts.                                   *)
(***************************************************************************)
Size == {n \in Nat : n <= Huge}

DigitStep == [p \in Size \X Byte |-> NextDigit(p[1], p[2])]

LEMMA DigitType ==
    ASSUME NEW n \in Size, NEW b \in Byte
    PROVE  NextDigit(n, b) \in Size
BY SMT DEF NextDigit, Size, Byte, Huge

LEMMA DigitStepIs ==
    /\ DigitStep \in FoldSteps(Size, Byte)
    /\ \A n \in Size, b \in Byte : DigitStep[<<n, b>>] = NextDigit(n, b)
<1>1. ASSUME NEW p \in Size \X Byte PROVE NextDigit(p[1], p[2]) \in Size
    <2>1. p[1] \in Size /\ p[2] \in Byte OBVIOUS
    <2> QED BY <2>1, DigitType
<1>2. DigitStep \in [Size \X Byte -> Size] BY <1>1 DEF DigitStep
<1>3. \A n \in Size, b \in Byte : DigitStep[<<n, b>>] = NextDigit(n, b)
    BY DEF DigitStep
<1> QED BY <1>2, <1>3 DEF FoldSteps

LEMMA DigitsAreFold ==
    ASSUME NEW n0 \in Size, NEW s \in Seq(Byte)
    PROVE  FoldLeft(NextDigit, n0, s) = Fold(DigitStep, n0, s)
<1> DEFINE Eqn(it) ==
        it = [x \in SUBSET DOMAIN s |->
                IF x = {} THEN n0 ELSE NextDigit(it[x \ {Max(x)}], s[Max(x)])]
    jt == CHOOSE it : Eqn(it)
<1>0. n0 \in Size OBVIOUS
<1>1. FoldLeft(NextDigit, n0, s) = jt[DOMAIN s]
    BY DEF FoldLeft, MapThenFoldSet
<1>2. \E it : Eqn(it)
    <2>1. PICK it : /\ FoldsTo(it, DigitStep, n0, s)
                    /\ \A x \in SUBSET DOMAIN s : it[x] \in Size
        BY <1>0, DigitStepIs, FoldExists
    <2>2. ASSUME NEW x \in SUBSET DOMAIN s, x # {}
          PROVE  DigitStep[<<it[x \ {Max(x)}], s[Max(x)]>>]
                    = NextDigit(it[x \ {Max(x)}], s[Max(x)])
        <3>1. x \ {Max(x)} \in SUBSET DOMAIN s /\ s[Max(x)] \in Byte BY <2>2, PrefixSets
        <3>2. it[x \ {Max(x)}] \in Size BY <2>1, <3>1
        <3> QED BY DigitStepIs, <3>1, <3>2
    <2>3. Eqn(it) BY <2>1, <2>2 DEF FoldsTo
    <2> QED BY <2>3
<1>3. Eqn(jt) BY <1>2
<1> HIDE DEF jt
<1>4. \A x \in SUBSET DOMAIN s :
        jt[x] = IF x = {} THEN n0 ELSE NextDigit(jt[x \ {Max(x)}], s[Max(x)])
    BY <1>3
<1>5. jt[{}] = n0 BY <1>4
<1>6. ASSUME NEW x \in SUBSET DOMAIN s, x # {}, jt[x \ {Max(x)}] \in Size
      PROVE  jt[x] = DigitStep[<<jt[x \ {Max(x)}], s[Max(x)]>>]
    <2>1. s[Max(x)] \in Byte BY PrefixSets, <1>6
    <2> QED BY DigitStepIs, <1>4, <1>6, <2>1
<1> HIDE DEF Eqn
<1>7. Solves(jt, Size, DigitStep, n0, s) BY <1>5, <1>6 DEF Solves
<1>8. jt[DOMAIN s] = Fold(DigitStep, n0, s)
    BY <1>0, DigitStepIs, <1>7, FoldSolution
<1> QED BY <1>1, <1>8

LEMMA NumberType ==
    ASSUME NEW s \in Seq(Byte)
    PROVE  0 \in Size /\ Number(s) = Fold(DigitStep, 0, s) /\ Number(s) \in Size
<1>1. 0 \in Size BY SMT DEF Size, Huge
<1>2. Number(s) = Fold(DigitStep, 0, s) BY <1>1, DigitsAreFold DEF Number
<1> QED BY <1>1, <1>2, DigitStepIs, FoldType

LEMMA NumberNext ==
    ASSUME NEW s \in Seq(Byte), NEW b \in Byte
    PROVE  Number(Append(s, b)) = NextDigit(Number(s), b)
<1>1. Append(s, b) \in Seq(Byte) OBVIOUS
<1>2. Number(s) = Fold(DigitStep, 0, s) /\ Number(s) \in Size /\ 0 \in Size
      /\ Number(Append(s, b)) = Fold(DigitStep, 0, Append(s, b))
    BY <1>1, NumberType
<1>3. Fold(DigitStep, 0, Append(s, b)) = DigitStep[<<Fold(DigitStep, 0, s), b>>]
    BY <1>2, DigitStepIs, FoldAppend
<1> QED BY <1>2, <1>3, DigitStepIs

LEMMA NumberOfOne ==
    ASSUME NEW a \in Byte
    PROVE  Number(<<a>>) = a
<1> DEFINE nil == <<>>
           one == <<a>>
<1>1. nil \in Seq(Byte) /\ Len(nil) = 0 /\ one = Append(nil, a) OBVIOUS
<1> HIDE DEF nil, one
<1>2. Number(nil) = 0
    <2>1. Number(nil) = Fold(DigitStep, 0, nil) /\ 0 \in Size BY <1>1, NumberType
    <2> QED BY <1>1, <2>1, DigitStepIs, FoldNothing
<1>3. Number(one) = NextDigit(Number(nil), a) BY <1>1, NumberNext
<1>4. Number(one) = a BY <1>2, <1>3, SMT DEF NextDigit, Byte, Huge
<1> QED BY <1>4 DEF one

LEMMA NumberOfTwo ==
    ASSUME NEW a \in Byte, NEW b \in Byte
    PROVE  Number(<<a, b>>) = 256 * a + b
<1> DEFINE one == <<a>>
           two == <<a, b>>
<1>1. one \in Seq(Byte) /\ two = Append(one, b) OBVIOUS
<1>2. Number(one) = a BY NumberOfOne
<1> HIDE DEF one, two
<1>3. Number(two) = NextDigit(Number(one), b) BY <1>1, NumberNext
<1>4. Number(two) = 256 * a + b BY <1>2, <1>3, SMT DEF NextDigit, Byte, Huge
<1> QED BY <1>4 DEF two

LEMMA NumberOfThree ==
    ASSUME NEW a \in Byte, NEW b \in Byte, NEW c \in Byte
    PROVE  Number(<<a, b, c>>) = 65536 * a + 256 * b + c
<1> DEFINE two == <<a, b>>
           three == <<a, b, c>>
<1>1. two \in Seq(Byte) /\ three = Append(two, c) OBVIOUS
<1>2. Number(two) = 256 * a + b BY NumberOfTwo
<1> HIDE DEF two, three
<1>3. Number(three) = NextDigit(Number(two), c) BY <1>1, NumberNext
<1>4. Number(three) = 65536 * a + 256 * b + c
    BY <1>2, <1>3, SMT DEF NextDigit, Byte, Huge
<1> QED BY <1>4 DEF three

LEMMA MarkIs ==
    ASSUME NEW k \in 1 .. 3
    PROVE  /\ 128 + k \in Byte /\ (128 + k) % 128 = k /\ ~ (128 + k < 128)
           /\ k \in 1 .. 4
BY SMT DEF Byte

(***************************************************************************)
(* A length is a small number, or a mark and the digits of the number.     *)
(***************************************************************************)
LEMMA LengthBytesAre ==
    ASSUME NEW n \in Nat, n < Huge
    PROVE  /\ LengthBytes(n) \in Seq(Byte) /\ Len(LengthBytes(n)) \in 1 .. 3
           /\ Number(LengthBytes(n)) = n
<1>1. CASE n < 256
    <2> DEFINE l == <<n>>
    <2>1. n \in Byte BY <1>1, SMT DEF Byte
    <2>2. LengthBytes(n) = l BY <1>1, SMT DEF LengthBytes
    <2>3. Number(l) = n BY <2>1, NumberOfOne
    <2>4. l \in Seq(Byte) /\ Len(l) = 1 BY <2>1
    <2> QED BY <2>2, <2>3, <2>4
<1>2. CASE ~ (n < 256) /\ n < 65536
    <2> DEFINE a == n \div 256
               b == n % 256
               l == <<a, b>>
    <2>1. a \in Byte /\ b \in Byte /\ n = 256 * a + b BY <1>2, SMT DEF Byte
    <2>2. LengthBytes(n) = l BY <1>2, SMT DEF LengthBytes
    <2> HIDE DEF a, b
    <2>3. Number(l) = 256 * a + b BY <2>1, NumberOfTwo
    <2>4. l \in Seq(Byte) /\ Len(l) = 2 BY <2>1
    <2> HIDE DEF l
    <2> QED BY <2>1, <2>2, <2>3, <2>4
<1>3. CASE ~ (n < 256) /\ ~ (n < 65536)
    <2> DEFINE a == n \div 65536
               b == (n \div 256) % 256
               c == n % 256
               l == <<a, b, c>>
    <2>1. a \in Byte /\ b \in Byte /\ c \in Byte /\ n = 65536 * a + 256 * b + c
        BY <1>3, SMT DEF Byte, Huge
    <2>2. LengthBytes(n) = l BY <1>3, SMT DEF LengthBytes
    <2> HIDE DEF a, b, c
    <2>3. Number(l) = 65536 * a + 256 * b + c BY <2>1, NumberOfThree
    <2>4. l \in Seq(Byte) /\ Len(l) = 3 BY <2>1
    <2> HIDE DEF l
    <2> QED BY <2>1, <2>2, <2>3, <2>4, SMT
<1> QED BY <1>1, <1>2, <1>3

LEMMA LengthIsWritten ==
    ASSUME NEW n \in Nat, n < Huge
    PROVE  /\ WriteVariableLength(n) \in Seq(Byte)
           /\ Len(WriteVariableLength(n)) >= 1
<1>1. CASE n <= 127
    <2>1. n \in Byte /\ WriteVariableLength(n) = <<n>>
        BY <1>1, SMT DEF Byte, WriteVariableLength
    <2> QED BY <2>1
<1>2. CASE ~ (n <= 127)
    <2> DEFINE l == LengthBytes(n)
               h == <<128 + Len(l)>>
    <2>1. l \in Seq(Byte) /\ Len(l) \in 1 .. 3 BY LengthBytesAre
    <2>2. WriteVariableLength(n) = h \o l BY <1>2 DEF WriteVariableLength
    <2> HIDE DEF l
    <2>3. h \in Seq(Byte) /\ Len(h) = 1
        <3>1. 128 + Len(l) \in Byte BY <2>1, MarkIs
        <3> QED BY <3>1
    <2> HIDE DEF h
    <2>4. h \o l \in Seq(Byte) /\ Len(h \o l) = Len(h) + Len(l) BY <2>1, <2>3, Joined
    <2>5. Len(h) + Len(l) >= 1 BY <2>1, <2>3
    <2> QED BY <2>2, <2>4, <2>5
<1> QED BY <1>1, <1>2

LengthWasRead(r, data, pos) ==
    /\ r \in Result(Size)
    /\ r.ok => r.pos > pos /\ r.pos <= Len(data)

LEMMA FirstByte ==
    ASSUME NEW data \in Seq(Byte), NEW pos \in Nat
    PROVE  LET r == ReadBytes(data, pos, 1)
           IN  /\ r.ok \in BOOLEAN
               /\ r.ok <=> pos < Len(data)
               /\ ~ r.ok => r = Error("BufferUnderflow")
               /\ r.ok => r.val[1] \in Byte /\ r.pos = pos + 1
<1> DEFINE r == ReadBytes(data, pos, 1)
<1>1. 1 \in Nat /\ Len(data) \in Nat OBVIOUS
<1>2. WasRead(r, data, pos, 1) BY <1>1, ReadBytesIs
<1> HIDE DEF r
<1>3. CASE pos + 1 > Len(data)
    <2>1. r = Error("BufferUnderflow") /\ r.ok = FALSE /\ ~ (pos < Len(data))
        BY <1>1, <1>2, <1>3 DEF WasRead
    <2> QED BY <2>1 DEF r
<1>4. CASE pos + 1 <= Len(data)
    <2>1. /\ r.ok = TRUE /\ r.pos = pos + 1 /\ r.val \in Seq(Byte) /\ Len(r.val) = 1
          /\ pos < Len(data)
        BY <1>1, <1>2, <1>4 DEF WasRead
    <2> DEFINE v == r.val
    <2>2. v \in Seq(Byte) /\ 1 \in 1 .. Len(v) BY <2>1
    <2> HIDE DEF v
    <2>3. v[1] \in Byte BY <2>2, ElementType
    <2> QED BY <2>1, <2>3 DEF v, r
<1> QED BY <1>1, <1>3, <1>4

LEMMA LengthType ==
    ASSUME NEW data \in Seq(Byte), NEW pos \in Nat
    PROVE  LengthWasRead(ReadVariableLength(data, pos), data, pos)
<1> DEFINE first == ReadBytes(data, pos, 1)
           b == first.val[1]
           count == b % 128
           rest == ReadBytes(data, pos + 1, count)
           r == ReadVariableLength(data, pos)
<1>1. /\ first.ok \in BOOLEAN /\ (first.ok <=> pos < Len(data))
      /\ ~ first.ok => first = Error("BufferUnderflow")
      /\ first.ok => b \in Byte /\ first.pos = pos + 1
    BY FirstByte
<1>2. r = IF ~first.ok THEN first
          ELSE IF b < 128 THEN Got(b, pos + 1)
          ELSE IF count \notin 1 .. 4 THEN Error("InvalidLength")
          ELSE IF ~rest.ok THEN rest
          ELSE Got(Number(rest.val), rest.pos)
    BY DEF ReadVariableLength
<1> HIDE DEF first, b, r
<1>3. Len(data) \in Nat /\ pos + 1 \in Nat OBVIOUS
<1>4. CASE ~first.ok
    <2>1. r = Error("BufferUnderflow") /\ "BufferUnderflow" \in Failures
        BY <1>1, <1>2, <1>4 DEF Failures
    <2> QED BY <2>1, ErrorIs, ErrorType DEF LengthWasRead, r
<1>5. CASE first.ok /\ b < 128
    <2>1. r = Got(b, pos + 1) BY <1>2, <1>5
    <2>2. b \in Size
        <3>1. \A i \in Byte : i \in Size BY SMT DEF Size, Byte, Huge
        <3> QED BY <1>1, <1>5, <3>1
    <2>3. r \in Result(Size) BY <1>3, <2>1, <2>2, GotType
    <2>4. r.pos = pos + 1 BY <2>1 DEF Got
    <2>5. r.pos > pos /\ r.pos <= Len(data) BY <1>1, <1>3, <1>5, <2>4
    <2> QED BY <2>3, <2>5 DEF LengthWasRead, r
<1>6. CASE first.ok /\ ~ (b < 128) /\ count \notin 1 .. 4
    <2>1. r = Error("InvalidLength") BY <1>2, <1>6
    <2>2. "InvalidLength" \in Failures BY DEF Failures
    <2> QED BY <2>1, <2>2, ErrorIs, ErrorType DEF LengthWasRead, r
<1>7. CASE first.ok /\ ~ (b < 128) /\ count \in 1 .. 4
    <2>1. count \in Nat /\ count >= 1 BY <1>7
    <2> HIDE DEF count
    <2>2. WasRead(rest, data, pos + 1, count) BY <1>3, <2>1, ReadBytesIs
    <2>3. rest \in Result(Seq(Byte)) BY <1>3, <2>1, ReadBytesType
    <2> HIDE DEF rest
    <2>4. CASE ~rest.ok
        <3>1. r = rest BY <1>2, <1>7, <2>4
        <3>2. rest \in Result(Size) BY <2>3, <2>4, ResultIs
        <3> QED BY <2>4, <3>1, <3>2 DEF LengthWasRead, r
    <2>5. CASE rest.ok
        <3>1. /\ rest.pos = pos + 1 + count /\ rest.val \in Seq(Byte)
              /\ pos + 1 + count <= Len(data)
            BY <1>3, <2>1, <2>2, <2>5 DEF WasRead
        <3>2. r = Got(Number(rest.val), rest.pos) BY <1>2, <1>7, <2>5
        <3>3. Number(rest.val) \in Size /\ rest.pos \in Nat
            BY <1>3, <2>1, <3>1, NumberType
        <3>4. r \in Result(Size) BY <3>2, <3>3, GotType
        <3>5. r.pos = rest.pos BY <3>2 DEF Got
        <3>6. r.pos > pos /\ r.pos <= Len(data) BY <1>3, <2>1, <3>1, <3>5
        <3> QED BY <3>4, <3>6 DEF LengthWasRead, r
    <2>6. rest.ok \in BOOLEAN BY <2>3, ResultIs
    <2> QED BY <2>4, <2>5, <2>6
<1> QED BY <1>1, <1>4, <1>5, <1>6, <1>7

(***************************************************************************)
(* The length that was written is read, and takes the bytes written for it.*)
(***************************************************************************)
LEMMA LengthIsRead ==
    ASSUME NEW n \in Nat, n < Huge, NEW data \in Seq(Byte), NEW pos \in Nat,
           Holds(data, pos, WriteVariableLength(n))
    PROVE  ReadVariableLength(data, pos) = Got(n, pos + Len(WriteVariableLength(n)))
<1> DEFINE first == ReadBytes(data, pos, 1)
           w == WriteVariableLength(n)
<1>1. CASE n <= 127
    <2>1. n \in Byte /\ w = <<n>> BY <1>1, SMT DEF Byte, WriteVariableLength
    <2>2. w \in Seq(Byte) /\ Len(w) = 1 /\ w[1] = n BY <2>1
    <2>3. Holds(data, pos, w) OBVIOUS
    <2> HIDE DEF w
    <2>4. ReadBytes(data, pos, Len(w)) = Got(w, pos + Len(w)) BY <2>2, <2>3, HeldIsRead
    <2>5. first.ok = TRUE /\ first.val = w BY <2>2, <2>4 DEF Got
    <2>6. ReadVariableLength(data, pos) = Got(n, pos + 1)
        BY <1>1, <2>2, <2>5 DEF ReadVariableLength
    <2> QED BY <2>2, <2>6 DEF w
<1>2. CASE ~ (n <= 127)
    <2> DEFINE l == LengthBytes(n)
               h == <<128 + Len(l)>>
               k == Len(l)
               rest == ReadBytes(data, pos + 1, k)
    <2>1. l \in Seq(Byte) /\ k \in 1 .. 3 /\ Number(l) = n BY LengthBytesAre
    <2>2. w = h \o l BY <1>2 DEF WriteVariableLength
    <2>3. Holds(data, pos, w) OBVIOUS
    <2> HIDE DEF l, w
    <2>4. h \in Seq(Byte) /\ Len(h) = 1 /\ h[1] = 128 + k
        <3>1. 128 + k \in Byte BY <2>1, MarkIs
        <3> QED BY <3>1
    <2> HIDE DEF h
    <2>5. Holds(data, pos, h) /\ Holds(data, pos + Len(h), l)
        BY <2>1, <2>2, <2>3, <2>4, HoldsBoth
    <2>6. ReadBytes(data, pos, Len(h)) = Got(h, pos + Len(h)) BY <2>4, <2>5, HeldIsRead
    <2>7. first.ok = TRUE /\ first.val = h BY <2>4, <2>6 DEF Got
    <2>8. pos + Len(h) = pos + 1 /\ pos + 1 \in Nat BY <2>4
    <2>9. rest = Got(l, pos + 1 + Len(l)) BY <2>1, <2>5, <2>8, HeldIsRead
    <2>10. rest.ok = TRUE /\ rest.val = l /\ rest.pos = pos + 1 + k BY <2>9 DEF Got
    <2>11. Len(w) = 1 + k
        <3>1. Len(h \o l) = Len(h) + Len(l) BY <2>1, <2>4, Joined, ZenonT(60)
        <3> QED BY <2>2, <2>4, <3>1
    <2> HIDE DEF k
    <2>12. (128 + k) % 128 = k /\ ~ (128 + k < 128) /\ k \in 1 .. 4 BY <2>1, MarkIs
    <2> HIDE DEF first, rest
    <2>13. first.val[1] = 128 + k BY <2>4, <2>7
    <2>14. ReadVariableLength(data, pos)
            = IF ~first.ok THEN first
              ELSE IF first.val[1] < 128 THEN Got(first.val[1], pos + 1)
              ELSE IF first.val[1] % 128 \notin 1 .. 4 THEN Error("InvalidLength")
              ELSE IF ~ReadBytes(data, pos + 1, first.val[1] % 128).ok
              THEN ReadBytes(data, pos + 1, first.val[1] % 128)
              ELSE Got(Number(ReadBytes(data, pos + 1, first.val[1] % 128).val),
                       ReadBytes(data, pos + 1, first.val[1] % 128).pos)
        BY DEF ReadVariableLength, first
    <2>15. ReadVariableLength(data, pos)
            = IF ~rest.ok THEN rest ELSE Got(Number(rest.val), rest.pos)
        BY <2>7, <2>12, <2>13, <2>14 DEF rest
    <2>16. ReadVariableLength(data, pos) = Got(n, pos + 1 + k) BY <2>1, <2>10, <2>15
    <2>17. pos + 1 + k = pos + Len(w) BY <2>1, <2>11
    <2> QED BY <2>16, <2>17 DEF w
<1> QED BY <1>1, <1>2

LEMMA LengthOnCut ==
    ASSUME NEW data \in Seq(Byte), NEW part \in Seq(Byte), CutTo(part, data),
           NEW pos \in Nat, ReadVariableLength(part, pos).ok
    PROVE  ReadVariableLength(data, pos) = ReadVariableLength(part, pos)
<1> DEFINE first(d) == ReadBytes(d, pos, 1)
           count(d) == first(d).val[1] % 128
           rest(d) == ReadBytes(d, pos + 1, count(d))
           r(d) == ReadVariableLength(d, pos)
<1>1. \A d : r(d) = IF ~first(d).ok THEN first(d)
                    ELSE IF first(d).val[1] < 128 THEN Got(first(d).val[1], pos + 1)
                    ELSE IF count(d) \notin 1 .. 4 THEN Error("InvalidLength")
                    ELSE IF ~rest(d).ok THEN rest(d)
                    ELSE Got(Number(rest(d).val), rest(d).pos)
    BY DEF ReadVariableLength
<1>2. r(part).ok OBVIOUS
<1> HIDE DEF r
<1>3. first(part).ok BY <1>1, <1>2
<1>4. 1 \in Nat /\ pos + 1 \in Nat OBVIOUS
<1>5. first(data) = first(part) BY <1>3, <1>4, ReadBytesOnCut
<1> HIDE DEF first
<1>6. CASE first(part).val[1] < 128 BY <1>1, <1>3, <1>5, <1>6 DEF r
<1>7. CASE ~ (first(part).val[1] < 128)
    <2>1. count(part) \in 1 .. 4
        <3> HIDE DEF count, rest
        <3>1. SUFFICES ASSUME count(part) \notin 1 .. 4 PROVE FALSE
            OBVIOUS
        <3>2. r(part) = Error("InvalidLength") BY <1>1, <1>3, <1>7, <3>1
        <3> QED BY <1>2, <3>2, ErrorIs
    <2>2. count(data) = count(part) /\ count(part) \in Nat BY <1>5, <2>1
    <2> HIDE DEF count
    <2>3. rest(part).ok BY <1>1, <1>2, <1>3, <1>7, <2>1
    <2>4. rest(data) = rest(part) BY <1>4, <2>2, <2>3, ReadBytesOnCut
    <2> HIDE DEF rest
    <2> QED BY <1>1, <1>3, <1>5, <1>7, <2>1, <2>2, <2>3, <2>4 DEF r
<1> QED BY <1>6, <1>7

-----------------------------------------------------------------------------
(***************************************************************************)
(* The decoders' loops.                                                    *)
(***************************************************************************)
ManyAt(data, item, rest, p) ==
    IF p >= Len(data) THEN Got(<<>>, p)
    ELSE IF ~item[p].ok THEN item[p]
    ELSE IF ~rest[item[p].pos].ok THEN rest[item[p].pos]
    ELSE Got(<<item[p].val>> \o rest[item[p].pos].val, rest[item[p].pos].pos)

LEMMA ManyAtType ==
    ASSUME NEW V, NEW data \in Seq(Byte), NEW item \in [Nat -> Result(V)],
           NEW rest \in [Nat -> Result(Seq(V))], NEW p \in Nat
    PROVE  ManyAt(data, item, rest, p) \in Result(Seq(V))
<1> DEFINE r == ManyAt(data, item, rest, p)
           a == item[p]
           b == rest[a.pos]
<1>1. a \in Result(V) OBVIOUS
<1>2. r = IF p >= Len(data) THEN Got(<<>>, p) ELSE IF ~a.ok THEN a
          ELSE IF ~b.ok THEN b ELSE Got(<<a.val>> \o b.val, b.pos)
    BY DEF ManyAt
<1>3. a.ok => b \in Result(Seq(V)) BY <1>1, ResultIs
<1>4. Len(data) \in Nat OBVIOUS
<1> HIDE DEF r, a, b
<1>5. CASE p >= Len(data)
    <2> DEFINE nil == <<>>
    <2>1. nil \in Seq(V) OBVIOUS
    <2>2. r = Got(nil, p) BY <1>2, <1>5
    <2> HIDE DEF nil
    <2> QED BY <2>1, <2>2, GotType DEF r
<1>6. CASE ~ (p >= Len(data)) /\ ~a.ok
    <2>1. r = a BY <1>2, <1>6
    <2>2. a \in Result(Seq(V)) BY <1>1, <1>6, ResultIs
    <2> QED BY <2>1, <2>2 DEF r
<1>7. CASE ~ (p >= Len(data)) /\ a.ok
    <2>1. CASE ~b.ok BY <1>2, <1>3, <1>7, <2>1 DEF r
    <2>2. CASE b.ok
        <3> DEFINE x == a.val
                   y == b.val
        <3>1. r = Got(<<x>> \o y, b.pos) BY <1>2, <1>7, <2>2
        <3>2. x \in V BY <1>1, <1>7, ResultIs
        <3>3. y \in Seq(V) /\ b.pos \in Nat BY <1>3, <1>7, <2>2, ResultIs
        <3> HIDE DEF x, y
        <3>4. <<x>> \in Seq(V) BY <3>2
        <3>5. <<x>> \o y \in Seq(V) BY <3>3, <3>4, Joined
        <3> QED BY <3>1, <3>3, <3>5, GotType DEF r
    <2> QED BY <2>1, <2>2
<1> QED BY <1>5, <1>6, <1>7

ManyFrom(f, V, data, item) ==
    /\ \A n \in Nat : f[n] \in [Nat -> Result(Seq(V))]
    /\ \A p \in Nat : f[0][p] = Got(<<>>, p)
    /\ \A n \in Nat : \A p \in Nat : f[n + 1][p] = ManyAt(data, item, f[n], p)
    /\ \A n \in Nat : \A p \in Nat : ReadMany(data, item, n, p) = f[n][p]

(***************************************************************************)
(* One item after the other: f[n] reads n of them.                         *)
(***************************************************************************)
OneByOne(f, V, data, item) ==
    /\ f \in [Nat -> [Nat -> Result(Seq(V))]]
    /\ \A p \in Nat : f[0][p] = Got(<<>>, p)
    /\ \A n \in Nat : f[n + 1] = [p \in Nat |-> ManyAt(data, item, f[n], p)]

LEMMA OneByOneExists ==
    ASSUME NEW V, NEW data \in Seq(Byte), NEW item \in [Nat -> Result(V)]
    PROVE  \E f : OneByOne(f, V, data, item)
<1> DEFINE S == [Nat -> Result(Seq(V))]
           base == [p \in Nat |-> Got(<<>>, p)]
           step == [q \in Nat \X S |-> [p \in Nat |-> ManyAt(data, item, q[2], p)]]
<1>1. base \in S
    <2> DEFINE nil == <<>>
    <2>1. nil \in Seq(V) OBVIOUS
    <2> HIDE DEF nil
    <2>2. \A p \in Nat : Got(nil, p) \in Result(Seq(V)) BY <2>1, GotType
    <2> QED BY <2>2 DEF nil
<1>2. step \in Steps(S)
    <2>1. ASSUME NEW q \in Nat \X S
          PROVE  [p \in Nat |-> ManyAt(data, item, q[2], p)] \in S
        <3>1. q[2] \in [Nat -> Result(Seq(V))] OBVIOUS
        <3>2. \A p \in Nat : ManyAt(data, item, q[2], p) \in Result(Seq(V))
            BY <3>1, ManyAtType
        <3> QED BY <3>2
    <2> HIDE DEF S
    <2> QED BY <2>1 DEF Steps
<1>3. \A k \in Nat, x \in S : step[<<k, x>>] = [p \in Nat |-> ManyAt(data, item, x, p)]
    OBVIOUS
<1> HIDE DEF step
<1>4. PICK g : Recurs(g, S, base, step) BY <1>1, <1>2, Recursion
<1>5. g \in [Nat -> S] /\ g[0] = base BY <1>4 DEF Recurs
<1>6. ASSUME NEW k \in Nat PROVE g[k + 1] = [p \in Nat |-> ManyAt(data, item, g[k], p)]
    <2>1. g[k + 1] = step[<<k, g[k]>>] /\ g[k] \in S BY <1>4, <1>5 DEF Recurs
    <2> HIDE DEF S
    <2> QED BY <1>3, <2>1
<1>7. \A p \in Nat : g[0][p] = Got(<<>>, p) BY <1>5
<1>8. OneByOne(g, V, data, item) BY <1>5, <1>6, <1>7, ZenonT(60) DEF OneByOne
<1> QED BY <1>8

(***************************************************************************)
(* Reading m + n of them is reading m and then n from there on, so the     *)
(* loop in halves reads as the one of single items does.                   *)
(***************************************************************************)
Continued(a, h) ==
    IF ~a.ok THEN a
    ELSE IF ~h[a.pos].ok THEN h[a.pos]
    ELSE Got(a.val \o h[a.pos].val, h[a.pos].pos)

LEMMA JoinAssociates ==
    ASSUME NEW E, NEW s \in Seq(E), NEW t \in Seq(E), NEW u \in Seq(E)
    PROVE  (s \o t) \o u = s \o (t \o u)
OBVIOUS

LEMMA NothingFirst ==
    ASSUME NEW E, NEW s \in Seq(E)
    PROVE  <<>> \o s = s
OBVIOUS

LEMMA ChainFromNothing ==
    ASSUME NEW V, NEW p \in Nat, NEW h, h[p] \in Result(Seq(V))
    PROVE  Continued(Got(<<>>, p), h) = h[p]
<1> DEFINE nil == <<>>
           a == Got(nil, p)
           b == h[p]
<1> HIDE DEF nil
<1>1. a.ok = TRUE /\ a.val = nil /\ a.pos = p BY DEF Got
<1> HIDE DEF a
<1>2. Continued(a, h) = IF ~b.ok THEN b ELSE Got(nil \o b.val, b.pos)
    BY <1>1 DEF Continued
<1>3. b.ok \in BOOLEAN /\ (b.ok => b = Got(b.val, b.pos) /\ b.val \in Seq(V))
    BY ResultIs
<1> HIDE DEF b
<1>4. b.ok => nil \o b.val = b.val BY <1>3, NothingFirst DEF nil
<1>5. Continued(a, h) = b BY <1>2, <1>3, <1>4
<1> QED BY <1>5 DEF a, b, nil

LEMMA ChainedOnce ==
    ASSUME NEW V, NEW a \in Result(V), NEW b, NEW h,
           a.ok => b \in Result(Seq(V)),
           \A q \in Nat : h[q] \in Result(Seq(V))
    PROVE  Continued(IF ~a.ok THEN a ELSE IF ~b.ok THEN b
                 ELSE Got(<<a.val>> \o b.val, b.pos), h)
            = IF ~a.ok THEN a ELSE IF ~Continued(b, h).ok THEN Continued(b, h)
              ELSE Got(<<a.val>> \o Continued(b, h).val, Continued(b, h).pos)
<1> DEFINE c == IF ~a.ok THEN a ELSE IF ~b.ok THEN b
                ELSE Got(<<a.val>> \o b.val, b.pos)
           x == <<a.val>>
           y == b.val
           e == h[b.pos]
           z == e.val
           rest == Continued(b, h)
<1>1. rest = IF ~b.ok THEN b ELSE IF ~e.ok THEN e ELSE Got(y \o z, e.pos) BY DEF Continued
<1>2. a.ok => b.ok \in BOOLEAN /\ (b.ok => y \in Seq(V) /\ b.pos \in Nat)
    BY ResultIs
<1>3. a.ok /\ b.ok => e.ok \in BOOLEAN /\ (e.ok => z \in Seq(V)) BY <1>2, ResultIs
<1>4. a.ok \in BOOLEAN /\ (a.ok => a.val \in V) BY ResultIs
<1>5. a.ok => x \in Seq(V) BY <1>4
<1>6. CASE ~a.ok BY <1>6 DEF Continued
<1>7. CASE a.ok /\ ~b.ok
    <2>1. c = b /\ rest = b BY <1>1, <1>7
    <2>2. Continued(c, h) = b BY <1>7, <2>1 DEF Continued
    <2> HIDE DEF c, rest
    <2> QED BY <1>7, <2>1, <2>2 DEF c, rest
<1>8. CASE a.ok /\ b.ok
    <2>1. c = Got(x \o y, b.pos) BY <1>8
    <2> HIDE DEF c, rest, x, y, e, z
    <2>2. c.ok = TRUE /\ c.val = x \o y /\ c.pos = b.pos BY <2>1 DEF Got
    <2>3. Continued(c, h) = IF ~e.ok THEN e ELSE Got((x \o y) \o z, e.pos)
        BY <2>2 DEF Continued, e, z
    <2>4. CASE ~e.ok
        <3>1. rest = e /\ Continued(c, h) = e BY <1>1, <1>8, <2>3, <2>4
        <3> QED BY <1>8, <2>4, <3>1 DEF c, rest
    <2>5. CASE e.ok
        <3>1. rest = Got(y \o z, e.pos) BY <1>1, <1>8, <2>5
        <3>2. rest.ok = TRUE /\ rest.val = y \o z /\ rest.pos = e.pos BY <3>1 DEF Got
        <3>3. x \in Seq(V) /\ y \in Seq(V) /\ z \in Seq(V)
            BY <1>2, <1>3, <1>5, <1>8, <2>5
        <3>4. (x \o y) \o z = x \o (y \o z) BY <3>3, SMTT(40)
        <3>5. Continued(c, h) = Got(x \o rest.val, rest.pos) BY <2>3, <2>5, <3>2, <3>4
        <3> QED BY <1>8, <3>2, <3>5 DEF c, rest, x
    <2> QED BY <1>3, <1>8, <2>4, <2>5
<1> QED BY <1>4, <1>6, <1>7, <1>8

LEMMA PastTheEnd ==
    ASSUME NEW V, NEW data, NEW item, NEW f, OneByOne(f, V, data, item),
           NEW n \in Nat, NEW p \in Nat, p >= Len(data)
    PROVE  f[n][p] = Got(<<>>, p)
<1>1. CASE n = 0 BY <1>1 DEF OneByOne
<1>2. CASE n # 0
    <2>1. n - 1 \in Nat /\ (n - 1) + 1 = n BY <1>2
    <2>2. f[(n - 1) + 1] = [q \in Nat |-> ManyAt(data, item, f[n - 1], q)]
        BY <2>1 DEF OneByOne
    <2>3. f[n][p] = ManyAt(data, item, f[n - 1], p) BY <2>1, <2>2
    <2>4. ManyAt(data, item, f[n - 1], p) = Got(<<>>, p) BY DEF ManyAt
    <2> QED BY <2>3, <2>4
<1> QED BY <1>1, <1>2

LEMMA OneByOneChains ==
    ASSUME NEW V, NEW data \in Seq(Byte), NEW item \in [Nat -> Result(V)],
           NEW f, OneByOne(f, V, data, item), NEW n \in Nat
    PROVE  \A m, p \in Nat : f[m + n][p] = Continued(f[m][p], f[n])
<1> DEFINE T == {m \in Nat : \A p \in Nat : f[m + n][p] = Continued(f[m][p], f[n])}
           R == Result(Seq(V))
<1>1. \A k \in Nat : f[k] \in [Nat -> R] BY DEF OneByOne
<1>2. \A k, p \in Nat : f[k + 1][p] = ManyAt(data, item, f[k], p) BY DEF OneByOne
<1>3. \A p \in Nat : f[0][p] = Got(<<>>, p) BY DEF OneByOne
<1>4. \A q \in Nat : f[n][q] \in R BY <1>1
<1>5. 0 \in T
    <2>1. 0 + n = n OBVIOUS
    <2>2. ASSUME NEW p \in Nat PROVE f[n][p] = Continued(f[0][p], f[n])
        <3>1. f[n][p] \in Result(Seq(V)) BY <1>4
        <3>2. Continued(Got(<<>>, p), f[n]) = f[n][p] BY <3>1, ChainFromNothing
        <3> QED BY <1>3, <3>2
    <2> QED BY <2>1, <2>2
<1>6. ASSUME NEW m \in Nat, m \in T PROVE m + 1 \in T
    <2>1. (m + 1) + n = (m + n) + 1 /\ m + n \in Nat /\ m + 1 \in Nat OBVIOUS
    <2>2. \A q \in Nat : f[m + n][q] = Continued(f[m][q], f[n]) BY <1>6
    <2>3. ASSUME NEW p \in Nat PROVE f[(m + n) + 1][p] = Continued(f[m + 1][p], f[n])
        <3> DEFINE a == item[p]
                   b == f[m][a.pos]
                   whole == f[m + n][a.pos]
        <3>1. f[(m + n) + 1][p] = ManyAt(data, item, f[m + n], p) BY <1>2, <2>1
        <3>2. f[m + 1][p] = ManyAt(data, item, f[m], p) BY <1>2
        <3>3. CASE p >= Len(data)
            <4>1. f[n][p] = Got(<<>>, p) BY <3>3, PastTheEnd
            <4>2. Continued(Got(<<>>, p), f[n]) = f[n][p] BY <1>4, ChainFromNothing
            <4>3. f[(m + n) + 1][p] = Got(<<>>, p) BY <3>1, <3>3 DEF ManyAt
            <4>4. f[m + 1][p] = Got(<<>>, p) BY <3>2, <3>3 DEF ManyAt
            <4> QED BY <4>1, <4>2, <4>3, <4>4
        <3>4. CASE ~(p >= Len(data))
            <4>1. a \in Result(V) OBVIOUS
            <4>2. a.ok => a.pos \in Nat BY <4>1, ResultIs
            <4>3. a.ok => b \in Result(Seq(V)) BY <1>1, <4>2
            <4>4. a.ok => whole = Continued(b, f[n]) BY <2>2, <4>2
            <4>5. f[(m + n) + 1][p] = IF ~a.ok THEN a ELSE IF ~whole.ok THEN whole
                                      ELSE Got(<<a.val>> \o whole.val, whole.pos)
                BY <3>1, <3>4 DEF ManyAt
            <4>6. f[m + 1][p] = IF ~a.ok THEN a ELSE IF ~b.ok THEN b
                                ELSE Got(<<a.val>> \o b.val, b.pos)
                BY <3>2, <3>4 DEF ManyAt
            <4> HIDE DEF a, b, whole
            <4>7. Continued(IF ~a.ok THEN a ELSE IF ~b.ok THEN b
                        ELSE Got(<<a.val>> \o b.val, b.pos), f[n])
                    = IF ~a.ok THEN a ELSE IF ~Continued(b, f[n]).ok THEN Continued(b, f[n])
                      ELSE Got(<<a.val>> \o Continued(b, f[n]).val, Continued(b, f[n]).pos)
                BY <1>4, <4>1, <4>3, ChainedOnce
            <4>8. CASE ~a.ok BY <4>5, <4>6, <4>7, <4>8
            <4>9. CASE a.ok
                <5>1. whole = Continued(b, f[n]) BY <4>4, <4>9
                <5> QED BY <4>5, <4>6, <4>7, <5>1, ZenonT(60)
            <4> QED BY <4>8, <4>9
        <3> QED BY <3>3, <3>4
    <2>4. \A p \in Nat : f[(m + 1) + n][p] = Continued(f[m + 1][p], f[n]) BY <2>1, <2>3
    <2> QED BY <2>1, <2>4
<1> HIDE DEF T
<1>7. Nat \subseteq T BY <1>5, <1>6, NatSetInduction
<1> QED BY <1>7 DEF T

InHalves(f, data, item, k, p) ==
    IF k = 0 \/ p >= Len(data) THEN Got(<<>>, p)
    ELSE IF k = 1
    THEN IF item[p].ok THEN Got(<<item[p].val>>, item[p].pos) ELSE item[p]
    ELSE Continued(f[k \div 2][p], f[k - k \div 2])

LEMMA HalvesAre ==
    ASSUME NEW k \in Nat, k >= 2
    PROVE  /\ k \div 2 \in Nat /\ k \div 2 < k
           /\ k - k \div 2 \in Nat /\ k - k \div 2 < k
           /\ k \div 2 + (k - k \div 2) = k
OBVIOUS

LEMMA OneByOneInHalves ==
    ASSUME NEW V, NEW data \in Seq(Byte), NEW item \in [Nat -> Result(V)],
           NEW f, OneByOne(f, V, data, item), NEW k \in Nat, NEW p \in Nat
    PROVE  f[k][p] = InHalves(f, data, item, k, p)
<1>1. CASE k = 0 \/ p >= Len(data)
    <2>1. f[k][p] = Got(<<>>, p)
        <3>1. CASE k = 0 BY <3>1 DEF OneByOne
        <3>2. CASE p >= Len(data) BY <3>2, PastTheEnd
        <3> QED BY <1>1, <3>1, <3>2
    <2> QED BY <1>1, <2>1 DEF InHalves
<1>2. CASE k = 1 /\ ~(p >= Len(data))
    <2> DEFINE a == item[p]
               b == f[0][a.pos]
               nil == <<>>
    <2>1. f[0 + 1] = [q \in Nat |-> ManyAt(data, item, f[0], q)] BY DEF OneByOne
    <2>2. f[1][p] = ManyAt(data, item, f[0], p) BY <2>1
    <2>3. f[k][p] = IF ~a.ok THEN a ELSE IF ~b.ok THEN b
                    ELSE Got(<<a.val>> \o b.val, b.pos)
        BY <1>2, <2>2 DEF ManyAt
    <2>4. a \in Result(V) OBVIOUS
    <2>5. a.ok => a.val \in V /\ a.pos \in Nat BY <2>4, ResultIs
    <2>6. a.ok => b = Got(nil, a.pos) BY <2>5 DEF OneByOne
    <2>7. InHalves(f, data, item, k, p) = IF a.ok THEN Got(<<a.val>>, a.pos) ELSE a
        BY <1>2 DEF InHalves
    <2> HIDE DEF a, b, nil
    <2>8. CASE ~a.ok BY <2>3, <2>7, <2>8
    <2>9. CASE a.ok
        <3> DEFINE s == <<a.val>>
        <3>1. b.ok = TRUE /\ b.val = nil /\ b.pos = a.pos BY <2>6, <2>9 DEF Got
        <3>2. s \in Seq(V) BY <2>5, <2>9
        <3>3. f[k][p] = Got(s \o nil, a.pos) BY <2>3, <2>9, <3>1
        <3> HIDE DEF s
        <3>4. s \o nil = s BY <3>2 DEF nil
        <3> QED BY <2>7, <2>9, <3>3, <3>4 DEF s
    <2> QED BY <2>8, <2>9
<1>3. CASE k >= 2 /\ ~(p >= Len(data))
    <2> DEFINE m == k \div 2
               n == k - k \div 2
    <2>1. m \in Nat /\ n \in Nat /\ m + n = k BY <1>3, HalvesAre
    <2>2. InHalves(f, data, item, k, p) = Continued(f[m][p], f[n]) BY <1>3 DEF InHalves
    <2> HIDE DEF m, n
    <2>3. \A i, q \in Nat : f[i + n][q] = Continued(f[i][q], f[n])
        BY <2>1, OneByOneChains, SMTT(40)
    <2>4. f[m + n][p] = Continued(f[m][p], f[n]) BY <2>1, <2>3
    <2> QED BY <2>1, <2>2, <2>4
<1> QED BY <1>1, <1>2, <1>3

Halving(f, data, item) ==
    f = [k \in Nat |-> [p \in Nat |-> InHalves(f, data, item, k, p)]]

LEMMA SameByHalves ==
    ASSUME NEW V, NEW data \in Seq(Byte), NEW item \in [Nat -> Result(V)],
           NEW g, OneByOne(g, V, data, item), NEW f, Halving(f, data, item)
    PROVE  \A k \in Nat : f[k] = g[k]
<1> DEFINE T == {k \in Nat : \A j \in 0 .. k : f[j] = g[j]}
<1>1. ASSUME NEW k \in Nat, \A j \in Nat : j < k => f[j] = g[j]
      PROVE  f[k] = g[k]
    <2>1. ASSUME NEW p \in Nat
          PROVE  InHalves(f, data, item, k, p) = InHalves(g, data, item, k, p)
        <3>1. CASE k < 2
            <4>1. k = 0 \/ k = 1 BY <3>1
            <4> QED BY <4>1 DEF InHalves
        <3>2. CASE k >= 2
            <4>1. f[k \div 2] = g[k \div 2] /\ f[k - k \div 2] = g[k - k \div 2]
                BY <1>1, <3>2, HalvesAre
            <4> QED BY <4>1 DEF InHalves
        <3> QED BY <3>1, <3>2
    <2>2. f[k] = [p \in Nat |-> InHalves(f, data, item, k, p)] BY DEF Halving
    <2>3. \A p \in Nat : g[k][p] = InHalves(g, data, item, k, p) BY OneByOneInHalves
    <2>4. g[k] \in [Nat -> Result(Seq(V))] BY DEF OneByOne
    <2>5. g[k] = [p \in Nat |-> g[k][p]] BY <2>4
    <2> QED BY <2>1, <2>2, <2>3, <2>5
<1>2. 0 \in T
    <2>1. \A j \in Nat : j < 0 => f[j] = g[j] OBVIOUS
    <2>2. f[0] = g[0] BY <1>1, <2>1
    <2> QED BY <2>2
<1>3. ASSUME NEW k \in Nat, k \in T PROVE k + 1 \in T
    <2>1. k + 1 \in Nat /\ \A j \in Nat : j < k + 1 => j \in 0 .. k OBVIOUS
    <2>2. \A j \in Nat : j < k + 1 => f[j] = g[j] BY <1>3, <2>1
    <2>3. f[k + 1] = g[k + 1] BY <1>1, <2>1, <2>2
    <2>4. \A j \in 0 .. k + 1 : j = k + 1 \/ (j \in Nat /\ j < k + 1) OBVIOUS
    <2>5. \A j \in 0 .. k + 1 : f[j] = g[j] BY <2>2, <2>3, <2>4
    <2> QED BY <2>1, <2>5
<1> HIDE DEF T
<1>4. Nat \subseteq T BY <1>2, <1>3, NatSetInduction
<1>5. ASSUME NEW k \in Nat PROVE f[k] = g[k]
    <2>1. \A j \in 0 .. k : f[j] = g[j] BY <1>4 DEF T
    <2> QED BY <2>1
<1> QED BY <1>5

LEMMA ManyExists ==
    ASSUME NEW V, NEW data \in Seq(Byte), NEW item \in [Nat -> Result(V)]
    PROVE  \E f : ManyFrom(f, V, data, item)
<1> DEFINE Body(f, k, p) ==
             LET half == f[k \div 2][p]
                 rest == f[k - k \div 2][half.pos]
             IN  IF k = 0 \/ p >= Len(data) THEN Got(<<>>, p)
                 ELSE IF k = 1
                 THEN IF item[p].ok THEN Got(<<item[p].val>>, item[p].pos)
                      ELSE item[p]
                 ELSE IF ~half.ok THEN half
                 ELSE IF ~rest.ok THEN rest
                 ELSE Got(half.val \o rest.val, rest.pos)
           Eqn(f) == f = [k \in Nat |-> [p \in Nat |-> Body(f, k, p)]]
           loop == CHOOSE f : Eqn(f)
<1>1. ASSUME NEW f PROVE Eqn(f) <=> Halving(f, data, item)
    <2>1. ASSUME NEW k \in Nat, NEW p \in Nat
          PROVE  InHalves(f, data, item, k, p) = Body(f, k, p)
        BY DEF InHalves, Continued
    <2> HIDE DEF Body
    <2>2. [k \in Nat |-> [p \in Nat |-> InHalves(f, data, item, k, p)]]
            = [k \in Nat |-> [p \in Nat |-> Body(f, k, p)]]
        BY <2>1, ZenonT(60)
    <2> QED BY <2>2 DEF Halving
<1>2. PICK g : OneByOne(g, V, data, item) BY OneByOneExists
<1>3. Halving(g, data, item)
    <2>1. ASSUME NEW k \in Nat PROVE g[k] = [p \in Nat |-> InHalves(g, data, item, k, p)]
        <3>1. g[k] \in [Nat -> Result(Seq(V))] BY <1>2 DEF OneByOne
        <3>2. g[k] = [p \in Nat |-> g[k][p]] BY <3>1
        <3>3. \A p \in Nat : g[k][p] = InHalves(g, data, item, k, p)
            BY <1>2, OneByOneInHalves
        <3> QED BY <3>2, <3>3
    <2>2. g \in [Nat -> [Nat -> Result(Seq(V))]] BY <1>2, ZenonT(60) DEF OneByOne
    <2>3. g = [k \in Nat |-> g[k]] BY <2>2, ZenonT(60)
    <2> QED BY <2>1, <2>3 DEF Halving
<1>4. Eqn(g) BY <1>1, <1>3
<1>5. Eqn(loop) BY <1>4, ZenonT(60)
<1>6. \A n, p : ReadMany(data, item, n, p) = loop[n][p] BY DEF ReadMany
<1> HIDE DEF Body, Eqn, loop
<1>7. Halving(loop, data, item) BY <1>1, <1>5
<1>8. \A k \in Nat : loop[k] = g[k] BY <1>2, <1>7, SameByHalves
<1>9. \A n \in Nat : loop[n] \in [Nat -> Result(Seq(V))] BY <1>2, <1>8 DEF OneByOne
<1>10. \A p \in Nat : loop[0][p] = Got(<<>>, p) BY <1>2, <1>8 DEF OneByOne
<1>11. \A n \in Nat : \A p \in Nat : loop[n + 1][p] = ManyAt(data, item, loop[n], p)
    <2> TAKE n \in Nat
    <2> TAKE p \in Nat
    <2>1. loop[n + 1] = g[n + 1] /\ loop[n] = g[n] BY <1>8
    <2>2. g[n + 1] = [q \in Nat |-> ManyAt(data, item, g[n], q)] BY <1>2 DEF OneByOne
    <2> QED BY <2>1, <2>2
<1>12. ManyFrom(loop, V, data, item) BY <1>6, <1>9, <1>10, <1>11 DEF ManyFrom
<1> QED BY <1>12

(***************************************************************************)
(* No item, one more item.                                                 *)
(***************************************************************************)
LEMMA ManyType ==
    ASSUME NEW V, NEW data \in Seq(Byte), NEW item \in [Nat -> Result(V)],
           NEW n \in Nat, NEW p \in Nat
    PROVE  ReadMany(data, item, n, p) \in Result(Seq(V))
<1>1. PICK f : ManyFrom(f, V, data, item) BY ManyExists
<1> QED BY <1>1, ZenonT(60) DEF ManyFrom

Ended(r, p) == r = Got(<<>>, p) /\ r.ok = TRUE /\ r.val = <<>> /\ r.pos = p

LEMMA NoMore ==
    ASSUME NEW V, NEW data \in Seq(Byte), NEW item \in [Nat -> Result(V)],
           NEW n \in Nat, NEW p \in Nat, n = 0 \/ p >= Len(data)
    PROVE  Ended(ReadMany(data, item, n, p), p)
<1> DEFINE r == ReadMany(data, item, n, p)
<1>1. PICK f : ManyFrom(f, V, data, item) BY ManyExists
<1>2. r = f[n][p] BY <1>1 DEF ManyFrom
<1> HIDE DEF r
<1>3. r = Got(<<>>, p)
    <2>1. CASE n = 0 BY <1>1, <1>2, <2>1 DEF ManyFrom
    <2>2. CASE n # 0
        <3>1. n - 1 \in Nat /\ (n - 1) + 1 = n /\ p >= Len(data) BY <2>2
        <3>2. f[(n - 1) + 1][p] = ManyAt(data, item, f[n - 1], p) BY <1>1, <3>1 DEF ManyFrom
        <3> QED BY <1>2, <3>1, <3>2 DEF ManyAt
    <2> QED BY <2>1, <2>2
<1>4. r.ok = TRUE /\ r.val = <<>> /\ r.pos = p BY <1>3 DEF Got
<1>5. Ended(r, p) BY <1>3, <1>4 DEF Ended
<1> QED BY <1>5 DEF r

OneMore(r, a, m) ==
    /\ ~a.ok => r = a
    /\ a.ok /\ ~m.ok => r = m
    /\ a.ok /\ m.ok => r = Got(<<a.val>> \o m.val, m.pos)

LEMMA OneMoreIs ==
    ASSUME NEW V, NEW data \in Seq(Byte), NEW item \in [Nat -> Result(V)],
           NEW n \in Nat, NEW p \in Nat, p < Len(data)
    PROVE  OneMore(ReadMany(data, item, n + 1, p), item[p],
                   ReadMany(data, item, n, item[p].pos))
<1> DEFINE a == item[p]
           m == ReadMany(data, item, n, a.pos)
<1>1. PICK f : ManyFrom(f, V, data, item) BY ManyExists
<1>2. n + 1 \in Nat /\ ~ (p >= Len(data)) OBVIOUS
<1>3. ReadMany(data, item, n + 1, p) = ManyAt(data, item, f[n], p)
    BY <1>1, <1>2 DEF ManyFrom
<1>4. a \in Result(V) OBVIOUS
<1>5. a.ok => m = f[n][a.pos] BY <1>1, <1>4, ResultIs DEF ManyFrom
<1>6. ManyAt(data, item, f[n], p)
        = IF ~a.ok THEN a ELSE IF ~f[n][a.pos].ok THEN f[n][a.pos]
          ELSE Got(<<a.val>> \o f[n][a.pos].val, f[n][a.pos].pos)
    BY <1>2 DEF ManyAt
<1> HIDE DEF a, m
<1> QED BY <1>3, <1>5, <1>6 DEF OneMore, a, m

LEMMA LenIs ==
    ASSUME NEW V, NEW s \in Seq(V)
    PROVE  Len(s) \in Nat
OBVIOUS

(***************************************************************************)
(* Where the loop ends: items that take bytes are no more than the bytes.  *)
(***************************************************************************)
Advances(item, data) ==
    \A p \in Nat : item[p].ok => item[p].pos > p /\ item[p].pos <= Len(data)

Bounded(r, data, n, p) ==
    r.ok => /\ r.pos >= p /\ (r.pos = p \/ r.pos <= Len(data))
            /\ Len(r.val) <= n /\ Len(r.val) <= r.pos - p

LEMMA ManyBounds ==
    ASSUME NEW V, NEW data \in Seq(Byte), NEW item \in [Nat -> Result(V)],
           Advances(item, data), NEW n \in Nat, NEW p \in Nat
    PROVE  Bounded(ReadMany(data, item, n, p), data, n, p)
<1> DEFINE T == {k \in Nat : \A q \in Nat :
                    Bounded(ReadMany(data, item, k, q), data, k, q)}
<1>1. \A k \in Nat, q \in Nat : k = 0 \/ q >= Len(data) =>
        Bounded(ReadMany(data, item, k, q), data, k, q)
    <2> TAKE k \in Nat, q \in Nat
    <2> HAVE k = 0 \/ q >= Len(data)
    <2> DEFINE r == ReadMany(data, item, k, q)
               nil == <<>>
    <2>2. r.val = nil /\ r.pos = q
        <3> HIDE DEF T
        <3>1. Ended(ReadMany(data, item, k, q), q) BY NoMore
        <3> QED BY <3>1 DEF Ended
    <2>3. Len(nil) = 0 OBVIOUS
    <2> HIDE DEF r, nil
    <2>4. Len(r.val) = 0 BY <2>2, <2>3
    <2>5. Bounded(r, data, k, q) BY <2>2, <2>4 DEF Bounded
    <2> QED BY <2>5 DEF r
<1>2. 0 \in T BY <1>1
<1>3. ASSUME NEW k \in Nat, k \in T PROVE k + 1 \in T
    <2> SUFFICES ASSUME NEW q \in Nat
                 PROVE  Bounded(ReadMany(data, item, k + 1, q), data, k + 1, q)
        OBVIOUS
    <2>1. Len(data) \in Nat /\ k + 1 \in Nat OBVIOUS
    <2>2. CASE q >= Len(data) BY <1>1, <2>1, <2>2
    <2>3. CASE q < Len(data)
        <3> DEFINE r == ReadMany(data, item, k + 1, q)
                   a == item[q]
                   m == ReadMany(data, item, k, a.pos)
        <3>1. OneMore(r, a, m) BY <2>3, OneMoreIs
        <3>2. a \in Result(V) /\ (a.ok => a.pos > q /\ a.pos <= Len(data))
            BY DEF Advances
        <3> HIDE DEF r, a
        <3>3. a.ok => a.val \in V /\ a.pos \in Nat BY <3>2, ResultIs
        <3>4. a.ok => m \in Result(Seq(V)) /\ Bounded(m, data, k, a.pos)
            BY <1>3, <3>3, ManyType
        <3> HIDE DEF m
        <3>5. SUFFICES ASSUME r.ok PROVE Bounded(r, data, k + 1, q)
            BY DEF Bounded, r
        <3>6. a.ok /\ m.ok
            <4>1. a.ok \in BOOLEAN BY <3>2, ResultIs
            <4>2. a.ok BY <3>1, <3>5, <4>1 DEF OneMore
            <4>3. m.ok \in BOOLEAN BY <3>4, <4>2, ResultIs
            <4> QED BY <3>1, <3>5, <4>2, <4>3 DEF OneMore
        <3> DEFINE x == a.val
                   s == m.val
        <3>7. r = Got(<<x>> \o s, m.pos) BY <3>1, <3>6 DEF OneMore
        <3>8. s \in Seq(V) /\ m.pos \in Nat /\ x \in V
            BY <3>3, <3>4, <3>6, ResultIs
        <3> HIDE DEF x, s
        <3>9. <<x>> \in Seq(V) /\ Len(<<x>>) = 1 BY <3>8
        <3>10. Len(<<x>> \o s) = 1 + Len(s) /\ Len(s) \in Nat
            BY <3>8, <3>9, Joined
        <3>11. r.val = <<x>> \o s /\ r.pos = m.pos BY <3>7 DEF Got
        <3>12. /\ m.pos >= a.pos /\ (m.pos = a.pos \/ m.pos <= Len(data))
               /\ Len(s) <= k /\ Len(s) <= m.pos - a.pos
            BY <3>4, <3>6 DEF Bounded, s
        <3>13. Len(r.val) = 1 + Len(s) BY <3>10, <3>11
        <3>14. a.pos > q /\ a.pos <= Len(data) /\ a.pos \in Nat BY <3>2, <3>3, <3>6
        <3> QED BY <2>1, <3>8, <3>10, <3>11, <3>12, <3>13, <3>14 DEF Bounded
    <2> QED BY <2>1, <2>2, <2>3
<1> HIDE DEF T
<1>4. Nat \subseteq T BY <1>2, <1>3, NatSetInduction
<1> QED BY <1>4 DEF T

(***************************************************************************)
(* Items that are laid one after the other are read.                       *)
(***************************************************************************)
Laid(item, vals, e) ==
    \A i \in 1 .. Len(vals) : item[e[i - 1]] = Got(vals[i], e[i])

LEMMA TailIs ==
    ASSUME NEW V, NEW s \in Seq(V), NEW j \in Nat, j < Len(s)
    PROVE  SubSeq(s, j + 1, Len(s)) = <<s[j + 1]>> \o SubSeq(s, j + 2, Len(s))
<1> DEFINE n == Len(s)
           t == SubSeq(s, j + 2, n)
           u == SubSeq(s, j + 1, n)
           h == <<s[j + 1]>>
           c == h \o t
<1>1. n \in Nat /\ s[j + 1] \in V OBVIOUS
<1>2. /\ SubSeq(s, (j + 1) + 1, (j + 1) + (n - (j + 1))) \in Seq(V)
      /\ Len(SubSeq(s, (j + 1) + 1, (j + 1) + (n - (j + 1)))) = n - (j + 1)
      /\ \A i \in 1 .. n - (j + 1) :
            SubSeq(s, (j + 1) + 1, (j + 1) + (n - (j + 1)))[i] = s[j + 1 + i]
    <2>1. j + 1 \in Nat /\ n - (j + 1) \in Nat /\ (j + 1) + (n - (j + 1)) <= Len(s)
        BY <1>1
    <2> QED BY <2>1, Part
<1>3. (j + 1) + 1 = j + 2 /\ (j + 1) + (n - (j + 1)) = n BY <1>1
<1>4. t \in Seq(V) /\ Len(t) = n - (j + 1) /\ \A i \in 1 .. Len(t) : t[i] = s[j + 1 + i]
    BY <1>2, <1>3, SMTT(40)
<1>5. u \in Seq(V) /\ Len(u) = n - j /\ \A i \in 1 .. n - j : u[i] = s[j + i]
    <2>1. n - j \in Nat /\ j + (n - j) = n /\ j + (n - j) <= Len(s) BY <1>1, SMTT(40)
    <2>2. /\ SubSeq(s, j + 1, j + (n - j)) \in Seq(V)
          /\ Len(SubSeq(s, j + 1, j + (n - j))) = n - j
          /\ \A i \in 1 .. n - j : SubSeq(s, j + 1, j + (n - j))[i] = s[j + i]
        BY <2>1, Part, ZenonT(60)
    <2> HIDE DEF t
    <2> QED BY <2>1, <2>2
<1>6. h \in Seq(V) /\ Len(h) = 1 /\ h[1] = s[j + 1] BY <1>1
<1>12. t \in Seq(V) BY <1>4
<1>13. h \in Seq(V) BY <1>6
<1> HIDE DEF t, u, h, n
<1>7. /\ c \in Seq(V) /\ Len(c) = Len(h) + Len(t)
      /\ \A i \in 1 .. Len(h) : c[i] = h[i]
      /\ \A i \in 1 .. Len(t) : c[Len(h) + i] = t[i]
    BY <1>12, <1>13, Joined
<1> HIDE DEF c
<1>8. Len(c) = n - j BY <1>1, <1>4, <1>6, <1>7
<1>9. j < n BY DEF n
<1>10. ASSUME NEW i \in 1 .. Len(u) PROVE u[i] = c[i]
    <2>1. i \in 1 .. n - j BY <1>5
    <2>2. CASE i = 1 BY <1>5, <1>6, <1>7, <2>1, <2>2
    <2>3. CASE i # 1
        <3>1. i - 1 \in 1 .. Len(t) /\ Len(h) + (i - 1) = i /\ j + 1 + (i - 1) = j + i
            BY <1>1, <1>4, <1>6, <1>9, <2>1, <2>3
        <3>2. c[i] = t[i - 1] BY <1>7, <3>1
        <3>3. t[i - 1] = s[j + i] BY <1>4, <3>1
        <3> QED BY <1>5, <2>1, <3>2, <3>3
    <2> QED BY <2>2, <2>3
<1>11. u = c BY <1>5, <1>7, <1>8, <1>10, SameElements
<1> QED BY <1>11 DEF u, c, h, t, n

LEMMA ManyAreRead ==
    ASSUME NEW V, NEW data \in Seq(Byte), NEW item \in [Nat -> Result(V)],
           NEW vals \in Seq(V), NEW e \in [Nat -> Nat], Laid(item, vals, e),
           \A i \in 1 .. Len(vals) : e[i - 1] < Len(data),
           NEW n \in Nat, n >= Len(vals),
           n = Len(vals) \/ e[Len(vals)] >= Len(data)
    PROVE  ReadMany(data, item, n, e[0]) = Got(vals, e[Len(vals)])
<1> DEFINE L == Len(vals)
           From(j) == SubSeq(vals, j + 1, L)
           Enough(m, k) == m >= k /\ (m = k \/ e[L] >= Len(data))
           T == {k \in Nat : \A j \in Nat, m \in Nat : j + k = L /\ Enough(m, k) =>
                    ReadMany(data, item, m, e[j]) = Got(From(j), e[L])}
<1>1. L \in Nat /\ Len(data) \in Nat BY LenIs, SMTT(40)
<1>2. 0 \in T
    <2> SUFFICES ASSUME NEW j \in Nat, NEW m \in Nat, j + 0 = L, Enough(m, 0)
                 PROVE  ReadMany(data, item, m, e[j]) = Got(From(j), e[L])
        OBVIOUS
    <2>1. j = L /\ e[L] \in Nat OBVIOUS
    <2>2. m = 0 \/ e[L] >= Len(data) OBVIOUS
    <2>3. ReadMany(data, item, m, e[L]) = Got(<<>>, e[L])
        <3> HIDE DEF L, T, From, Enough
        <3>1. Ended(ReadMany(data, item, m, e[L]), e[L]) BY <2>1, <2>2, NoMore
        <3> QED BY <3>1 DEF Ended
    <2>4. From(L) = <<>> OBVIOUS
    <2> QED BY <2>1, <2>3, <2>4
<1>3. ASSUME NEW k \in Nat, k \in T PROVE k + 1 \in T
    <2> SUFFICES ASSUME NEW j \in Nat, NEW m \in Nat, j + (k + 1) = L, Enough(m, k + 1)
                 PROVE  ReadMany(data, item, m, e[j]) = Got(From(j), e[L])
        OBVIOUS
    <2>1. /\ j + 1 \in Nat /\ m - 1 \in Nat /\ (m - 1) + 1 = m /\ j < L
          /\ (j + 1) + k = L /\ Enough(m - 1, k) /\ j + 1 \in 1 .. L /\ (j + 1) - 1 = j
        <3> DEFINE E == e[L] >= Len(data)
        <3>1. m >= k + 1 /\ (m = k + 1 \/ E) /\ j + (k + 1) = L OBVIOUS
        <3> HIDE DEF L, E, T
        <3>2. m - 1 >= k /\ (m - 1 = k \/ E) BY <3>1
        <3>3. Enough(m - 1, k) BY <3>2 DEF E
        <3> HIDE DEF Enough
        <3> QED BY <1>1, <3>1, <3>3
    <2> DEFINE q == e[j]
               w == vals[j + 1]
               f == e[j + 1]
    <2>2. q \in Nat /\ q < Len(data) /\ f \in Nat /\ w \in V BY <2>1
    <2>3. item[q] = Got(w, f) BY <2>1 DEF Laid
    <2>4. ReadMany(data, item, m - 1, f) = Got(From(j + 1), e[L])
        BY <1>3, <2>1
    <2>5. OneMore(ReadMany(data, item, (m - 1) + 1, q), item[q],
                  ReadMany(data, item, m - 1, item[q].pos))
        BY <2>1, <2>2, OneMoreIs
    <2>6. item[q].pos = f /\ item[q].ok = TRUE /\ item[q].val = w BY <2>3 DEF Got
    <2> DEFINE t == From(j + 1)
               mm == ReadMany(data, item, m - 1, f)
    <2>7. mm.ok = TRUE /\ mm.val = t /\ mm.pos = e[L]
        <3>1. mm = Got(t, e[L]) BY <2>4
        <3> HIDE DEF mm, t, L, T, Enough
        <3> QED BY <3>1 DEF Got
    <2>8. OneMore(ReadMany(data, item, m, q), item[q], mm) BY <2>1, <2>5, <2>6
    <2>9. From(j) = <<w>> \o t
        <3>1. (j + 1) + 1 = j + 2 OBVIOUS
        <3> QED BY <2>1, <3>1, TailIs
    <2> HIDE DEF mm, t, q, w, f, From
    <2>10. ReadMany(data, item, m, q) = Got(<<w>> \o t, e[L])
        BY <2>6, <2>7, <2>8 DEF OneMore
    <2> QED BY <2>9, <2>10 DEF q
<1> HIDE DEF T
<1>4. Nat \subseteq T BY <1>2, <1>3, NatSetInduction
<1>5. L \in T BY <1>1, <1>4
<1>6. 0 + L = L /\ Enough(n, L) BY SMTT(40)
<1>7. ReadMany(data, item, n, e[0]) = Got(From(0), e[L])
    BY <1>5, <1>6 DEF T
<1>8. From(0) = vals
    <2>1. 0 + 1 = 1 OBVIOUS
    <2> QED BY <2>1
<1> QED BY <1>7, <1>8

(***************************************************************************)
(* Of a list that is cut, the items before the cut are read, the last one  *)
(* perhaps as a part of what it was (C relates a part to the whole).       *)
(***************************************************************************)
ItemCut(a, part, value, next, C) ==
    a.ok => \/ a = Got(value, next)
            \/ <<a.val, value>> \in C /\ a.pos >= Len(part)

LaidCut(item, part, vals, e, C) ==
    \A i \in 1 .. Len(vals) : ItemCut(item[e[i - 1]], part, vals[i], e[i], C)

ListCut(r, part, vals, e, C, j, n) ==
    r.ok =>
        LET l == Len(r.val)
        IN  /\ j + l <= Len(vals)
            /\ \A i \in 1 .. l - 1 : r.val[i] = vals[j + i]
            /\ l > 0 => \/ r.val[l] = vals[j + l] /\ r.pos = e[j + l]
                        \/ <<r.val[l], vals[j + l]>> \in C /\ r.pos >= Len(part)
            /\ l = 0 => r.pos = e[j]
            /\ l = n \/ r.pos >= Len(part)

Inside(j, L, k, x, n) ==
    /\ j < L /\ j + 1 \in 1 .. L /\ (j + 1) - 1 = j /\ j + 1 \in 0 .. L
    /\ (j + 1) + k <= L \/ n <= x

LEMMA NotAtEnd ==
    ASSUME NEW j \in Nat, NEW L \in Nat, NEW k \in Nat, NEW x \in Nat, NEW y \in Nat,
           NEW n \in Nat, j <= L, j = L => y = x, j + (k + 1) <= L \/ n <= x, y < n
    PROVE  Inside(j, L, k, x, n)
BY DEF Inside

LEMMA CutManyAreRead ==
    ASSUME NEW V, NEW part \in Seq(Byte), NEW item \in [Nat -> Result(V)],
           NEW vals \in Seq(V), NEW e \in [Nat -> Nat], NEW C,
           LaidCut(item, part, vals, e, C),
           NEW n \in Nat, n <= Len(vals) \/ Len(part) <= e[Len(vals)]
    PROVE  ListCut(ReadMany(part, item, n, e[0]), part, vals, e, C, 0, n)
<1> DEFINE L == Len(vals)
           R(k, j) == ReadMany(part, item, k, e[j])
           Enough(k, j) == j + k <= L \/ Len(part) <= e[L]
           T == {k \in Nat : \A j \in 0 .. L : Enough(k, j) =>
                    ListCut(R(k, j), part, vals, e, C, j, k)}
<1>1. L \in Nat /\ Len(part) \in Nat BY LenIs
<1>2. ASSUME NEW k \in Nat, NEW j \in 0 .. L, k = 0 \/ e[j] >= Len(part)
      PROVE  ListCut(R(k, j), part, vals, e, C, j, k)
    <2> DEFINE r == R(k, j)
    <2>1. j \in Nat /\ e[j] \in Nat BY <1>1
    <2>2. Ended(r, e[j]) BY <1>2, <2>1, NoMore
    <2> HIDE DEF r, T
    <2>3. r.val = <<>> /\ r.pos = e[j] BY <2>2 DEF Ended
    <2>4. Len(r.val) = 0 BY <2>3
    <2>5. ListCut(r, part, vals, e, C, j, k) BY <1>1, <1>2, <2>1, <2>3, <2>4 DEF ListCut
    <2> QED BY <2>5 DEF r
<1>3. 0 \in T BY <1>2
<1>4. ASSUME NEW k \in Nat, k \in T PROVE k + 1 \in T
    <2> SUFFICES ASSUME NEW j \in 0 .. L, Enough(k + 1, j)
                 PROVE  ListCut(R(k + 1, j), part, vals, e, C, j, k + 1)
        OBVIOUS
    <2>1. k + 1 \in Nat /\ j \in Nat /\ e[j] \in Nat BY <1>1
    <2>2. CASE e[j] >= Len(part) BY <1>2, <2>1, <2>2
    <2>3. CASE e[j] < Len(part)
        <3> DEFINE p == e[j]
                   r == R(k + 1, j)
                   a == item[p]
                   m == ReadMany(part, item, k, a.pos)
                   w == vals[j + 1]
                   f == e[j + 1]
        <3>1. /\ j < L /\ j + 1 \in 1 .. L /\ (j + 1) - 1 = j /\ j + 1 \in 0 .. L
              /\ (j + 1) + k <= L \/ Len(part) <= e[L]
            <4>1. j + (k + 1) <= L \/ Len(part) <= e[L] OBVIOUS
            <4>2. j = L => e[j] = e[L] OBVIOUS
            <4>3. e[L] \in Nat /\ e[j] \in Nat BY <1>1, <2>1
            <4>4. e[j] < Len(part) BY <2>3
            <4> HIDE DEF L, T, R, Enough
            <4>5. j <= L BY <1>1
            <4> DEFINE x == e[L]
                       y == e[j]
                       q == Len(part)
            <4>6. x \in Nat /\ y \in Nat /\ q \in Nat /\ L \in Nat BY <1>1, <4>3
            <4>7. y < q /\ (j = L => y = x) /\ (j + (k + 1) <= L \/ q <= x)
                BY <4>1, <4>2, <4>4
            <4> HIDE DEF x, y, q
            <4>8. Inside(j, L, k, x, q) BY <2>1, <4>5, <4>6, <4>7, NotAtEnd
            <4> QED BY <4>8 DEF Inside, x, q
        <3>2. f \in Nat /\ w \in V
            <4>1. j + 1 \in Nat BY <2>1
            <4>2. w \in V BY <3>1, ElementType
            <4> QED BY <4>1, <4>2
        <3>3. ItemCut(a, part, w, f, C) BY <3>1 DEF LaidCut
        <3>4. OneMore(r, a, m) BY <2>1, <2>3, OneMoreIs
        <3>5. a \in Result(V) BY <2>1
        <3>6. a.ok => a.val \in V /\ a.pos \in Nat BY <3>5, ResultIs
        <3>7. a.ok => m \in Result(Seq(V)) BY <3>6, ManyType
        <3>8. Enough(k, j + 1) BY <3>1
        <3>9. ListCut(R(k, j + 1), part, vals, e, C, j + 1, k)
            BY <1>4, <3>1, <3>8
        <3>10. a.ok /\ a.pos = f => m = R(k, j + 1) OBVIOUS
        <3>11. a.ok /\ a.pos >= Len(part) => Ended(m, a.pos) BY <3>6, NoMore
        <3> HIDE DEF T, R, Enough
        <3> HIDE DEF r, a
        <3>12. SUFFICES ASSUME r.ok PROVE ListCut(r, part, vals, e, C, j, k + 1)
            BY DEF ListCut, r
        <3> HIDE DEF m
        <3>13. a.ok /\ m.ok
            <4>1. a.ok \in BOOLEAN BY <3>5, ResultIs
            <4>2. a.ok BY <3>4, <3>12, <4>1 DEF OneMore
            <4>3. m.ok \in BOOLEAN BY <3>7, <4>2, ResultIs
            <4> QED BY <3>4, <3>12, <4>2, <4>3 DEF OneMore
        <3> DEFINE x == a.val
                   s == m.val
                   l == Len(s)
        <3>14. r = Got(<<x>> \o s, m.pos) BY <3>4, <3>13 DEF OneMore
        <3>15. s \in Seq(V) /\ x \in V BY <3>6, <3>7, <3>13, ResultIs
        <3>16. r.val = <<x>> \o s /\ r.pos = m.pos BY <3>14 DEF Got
        <3> HIDE DEF x, s
        <3> DEFINE h == <<x>>
        <3>17. h \in Seq(V) /\ Len(h) = 1 /\ h[1] = x BY <3>15
        <3>18. h \in Seq(V) BY <3>17
        <3>19. l \in Nat /\ s \in Seq(V) BY <3>15, LenIs
        <3> DEFINE c == h \o s
        <3>24. r.val = c BY <3>16
        <3> HIDE DEF h, l
        <3>25. IsJoin(c, V, h, s) BY <3>18, <3>19, JoinIs
        <3> HIDE DEF c
        <3>26. /\ Len(c) = 1 + l /\ c[1] = x
               /\ \A i \in 1 .. l : c[1 + i] = s[i]
            <4>1. /\ Len(c) = Len(h) + Len(s)
                  /\ \A i \in 1 .. Len(h) : c[i] = h[i]
                  /\ \A i \in 1 .. Len(s) : c[Len(h) + i] = s[i]
                BY <3>25 DEF IsJoin
            <4>2. 1 \in 1 .. Len(h) BY <3>17
            <4>3. c[1] = x BY <3>17, <4>1, <4>2
            <4> QED BY <3>17, <4>1, <4>3 DEF l
        <3>20. /\ Len(r.val) = 1 + l /\ r.val[1] = x
               /\ \A i \in 1 .. l : r.val[1 + i] = s[i]
            BY <3>24, <3>26
        <3> HIDE DEF L
        <3> DEFINE y == r.val
        <3>21. Len(y) = 1 + l /\ y[1] = x /\ \A i \in 1 .. l : y[1 + i] = s[i]
            BY <3>20
        <3> HIDE DEF y
        <3>22. CASE a = Got(w, f)
            <4>1. a.pos = f /\ x = w BY <3>22 DEF Got, x
            <4>2. ListCut(m, part, vals, e, C, j + 1, k) BY <3>9, <3>10, <3>13, <4>1
            <4>3. /\ j + 1 + l <= L
                  /\ \A i \in 1 .. l - 1 : s[i] = vals[j + 1 + i]
                  /\ l > 0 => \/ s[l] = vals[j + 1 + l] /\ m.pos = e[j + 1 + l]
                              \/ <<s[l], vals[j + 1 + l]>> \in C /\ m.pos >= Len(part)
                  /\ l = 0 => m.pos = e[j + 1]
                  /\ l = k \/ m.pos >= Len(part)
                BY <3>13, <4>2 DEF ListCut, s, l, L
            <4>4. j + (1 + l) <= L BY <1>1, <2>1, <3>19, <4>3
            <4>5. ASSUME NEW i \in 1 .. (1 + l) - 1 PROVE y[i] = vals[j + i]
                <5>1. CASE i = 1 BY <3>21, <4>1, <5>1 DEF w
                <5>2. CASE i # 1
                    <6>1. i - 1 \in 1 .. l - 1 /\ i - 1 \in 1 .. l /\ 1 + (i - 1) = i
                          /\ j + 1 + (i - 1) = j + i
                        BY <2>1, <3>19, <5>2
                    <6>2. y[1 + (i - 1)] = s[i - 1] BY <3>21, <6>1
                    <6>3. s[i - 1] = vals[j + 1 + (i - 1)] BY <4>3, <6>1
                    <6> QED BY <6>1, <6>2, <6>3
                <5> QED BY <5>1, <5>2
            <4>6. \/ y[1 + l] = vals[j + (1 + l)] /\ m.pos = e[j + (1 + l)]
                  \/ <<y[1 + l], vals[j + (1 + l)]>> \in C /\ m.pos >= Len(part)
                <5>1. CASE l = 0
                    <6>1. 1 + l = 1 /\ j + (1 + l) = j + 1 BY <3>19, <5>1
                    <6> QED BY <3>21, <4>1, <4>3, <5>1, <6>1 DEF w
                <5>2. CASE l # 0
                    <6>1. l > 0 /\ l \in 1 .. l /\ j + (1 + l) = j + 1 + l BY <2>1, <3>19, <5>2
                    <6>2. y[1 + l] = s[l] BY <3>21, <6>1
                    <6> QED BY <4>3, <6>1, <6>2
                <5> QED BY <5>1, <5>2
            <4>7. 1 + l = k + 1 \/ m.pos >= Len(part) BY <3>19, <4>3
            <4>8. 1 + l # 0 /\ 1 + l > 0 BY <3>19
            <4> QED BY <3>16, <3>21, <4>4, <4>5, <4>6, <4>7, <4>8 DEF ListCut, y, L
        <3>23. CASE ~ (a = Got(w, f))
            <4>1. <<x, w>> \in C /\ a.pos >= Len(part)
                BY <3>3, <3>13, <3>23 DEF ItemCut, x
            <4>2. m.val = <<>> /\ m.pos = a.pos BY <3>11, <3>13, <4>1 DEF Ended
            <4>3. l = 0 BY <4>2 DEF l, s
            <4>4. 1 + l = 1 /\ m.pos >= Len(part) BY <4>1, <4>2, <4>3
            <4>5. j + (1 + l) <= L /\ j + (1 + l) = j + 1 /\ (1 + l) - 1 = 0
                BY <1>1, <2>1, <3>1, <4>3
            <4>6. <<y[1 + l], vals[j + (1 + l)]>> \in C BY <3>21, <4>1, <4>4, <4>5 DEF w
            <4>7. 1 + l # 0 BY <4>4
            <4>8. 1 .. (1 + l) - 1 = {} BY <4>5
            <4> QED BY <3>16, <3>21, <4>4, <4>5, <4>6, <4>7, <4>8 DEF ListCut, y, L
        <3> QED BY <3>22, <3>23
    <2> QED BY <1>1, <2>1, <2>2, <2>3
<1> HIDE DEF T
<1>5. Nat \subseteq T BY <1>3, <1>4, NatSetInduction
<1>6. n \in T /\ 0 \in 0 .. L BY <1>1, <1>5
<1>7. Enough(n, 0)
    <2> DEFINE x == e[L]
    <2>1. n <= L \/ Len(part) <= x OBVIOUS
    <2> HIDE DEF x, L
    <2>2. 0 + n <= L \/ Len(part) <= x BY <1>1, <2>1
    <2> QED BY <2>2 DEF x
<1> HIDE DEF L, Enough
<1>8. ListCut(R(n, 0), part, vals, e, C, 0, n) BY <1>6, <1>7 DEF T
<1> QED BY <1>8

(***************************************************************************)
(* The encodings of a list, one after the other, and where each begins.    *)
(***************************************************************************)
Ends(e, data, pos, codes) ==
    /\ e \in [Nat -> Nat] /\ e[0] = pos
    /\ e[Len(codes)] = pos + Len(FlattenSeq(codes))
    /\ \A i \in 1 .. Len(codes) :
          Holds(data, e[i - 1], codes[i]) /\ e[i] = e[i - 1] + Len(codes[i])

LEMMA EndsExist ==
    ASSUME NEW data \in Seq(Byte), NEW pos \in Nat, NEW codes \in Seq(Seq(Byte)),
           Holds(data, pos, FlattenSeq(codes))
    PROVE  \E e : Ends(e, data, pos, codes)
<1> DEFINE S == Seq(Byte)
           T == {s \in Seq(S) : Holds(data, pos, FlattenSeq(s)) =>
                                    \E e : Ends(e, data, pos, s)}
<1>1. <<>> \in T
    <2> DEFINE nil == <<>>
               e == [i \in Nat |-> pos]
    <2>1. nil \in Seq(S) /\ Len(nil) = 0 OBVIOUS
    <2>2. FlattenSeq(nil) = <<>> BY <2>1, FlatType
    <2>3. Len(FlattenSeq(nil)) = 0 BY <2>2
    <2>4. e \in [Nat -> Nat] /\ e[0] = pos OBVIOUS
    <2> HIDE DEF nil, e
    <2>5. Ends(e, data, pos, nil) BY <2>1, <2>3, <2>4 DEF Ends
    <2>6. nil \in T BY <2>1, <2>5
    <2> QED BY <2>6 DEF nil
<1>2. ASSUME NEW s \in Seq(S), NEW c \in S, s \in T PROVE Append(s, c) \in T
    <2> DEFINE t == Append(s, c)
               n == Len(s)
               fs == FlattenSeq(s)
    <2>1. /\ t \in Seq(S) /\ Len(t) = n + 1 /\ n \in Nat /\ t[n + 1] = c
          /\ \A i \in 1 .. n : t[i] = s[i]
        OBVIOUS
    <2> HIDE DEF t
    <2>2. FlattenSeq(t) = fs \o t[Len(t)] BY <2>1, FlatAlong
    <2>3. FlattenSeq(t) = fs \o c BY <2>1, <2>2
    <2>4. fs \in Seq(Byte) BY FlatType
    <2> SUFFICES ASSUME Holds(data, pos, FlattenSeq(t))
                 PROVE  \E e : Ends(e, data, pos, t)
        BY <2>1 DEF t
    <2>5. Holds(data, pos, fs \o c) BY <2>3
    <2> HIDE DEF fs
    <2>6. Holds(data, pos, fs) /\ Holds(data, pos + Len(fs), c)
        BY <2>4, <2>5, HoldsBoth
    <2>7. PICK e : Ends(e, data, pos, s) BY <1>2, <2>6 DEF fs
    <2>8. /\ e \in [Nat -> Nat] /\ e[0] = pos /\ e[n] = pos + Len(fs)
          /\ \A i \in 1 .. n : Holds(data, e[i - 1], s[i]) /\ e[i] = e[i - 1] + Len(s[i])
        BY <2>7 DEF Ends, fs
    <2> DEFINE g == [i \in Nat |-> IF i = n + 1 THEN e[n] + Len(c) ELSE e[i]]
    <2>9. Len(c) \in Nat /\ Len(fs) \in Nat BY <2>4, LenIs
    <2> HIDE DEF n
    <2>17. n \in Nat /\ e \in [Nat -> Nat] BY <2>1, <2>8
    <2>18. e[n] \in Nat BY <2>17
    <2>16. e[n] + Len(c) \in Nat /\ 0 # n + 1 /\ n \in Nat
        <3> DEFINE x == e[n]
                   y == Len(c)
        <3>1. x \in Nat /\ y \in Nat BY <2>9, <2>18
        <3>2. n \in Nat BY <2>17
        <3> HIDE DEF x, y
        <3>3. x + y \in Nat BY <3>1
        <3>4. 0 # n + 1 BY <3>2
        <3> QED BY <3>2, <3>3, <3>4 DEF x, y
    <2>10. g \in [Nat -> Nat] /\ g[0] = pos
        <3> DEFINE top == e[n] + Len(c)
        <3>1. top \in Nat /\ e \in [Nat -> Nat] /\ e[0] = pos BY <2>8, <2>16
        <3> HIDE DEF top
        <3> QED BY <2>16, <3>1
    <2>11. g[n + 1] = e[n] + Len(c) /\ \A i \in 0 .. n : g[i] = e[i] BY <2>1
    <2>12. Len(FlattenSeq(t)) = Len(fs) + Len(c) BY <2>3, <2>4, Joined
    <2>13. g[n + 1] = pos + Len(FlattenSeq(t)) BY <2>8, <2>9, <2>11, <2>12
    <2> HIDE DEF g
    <2>14. ASSUME NEW i \in 1 .. n + 1
           PROVE  Holds(data, g[i - 1], t[i]) /\ g[i] = g[i - 1] + Len(t[i])
        <3>1. CASE i = n + 1
            <4>1. i - 1 = n /\ n \in 0 .. n BY <2>1, <3>1
            <4>2. g[i - 1] = e[n] /\ g[i] = e[n] + Len(c) /\ t[i] = c
                BY <2>1, <2>11, <3>1, <4>1
            <4> QED BY <2>6, <2>8, <4>2
        <3>2. CASE i # n + 1
            <4>1. i \in 1 .. n /\ i \in 0 .. n /\ i - 1 \in 0 .. n BY <2>1, <3>2
            <4>2. g[i - 1] = e[i - 1] /\ g[i] = e[i] /\ t[i] = s[i]
                BY <2>1, <2>11, <4>1
            <4> QED BY <2>8, <4>1, <4>2
        <3> QED BY <3>1, <3>2
    <2>15. Ends(g, data, pos, t) BY <2>1, <2>10, <2>13, <2>14 DEF Ends
    <2> QED BY <2>15
<1> HIDE DEF T, S
<1>3. Seq(S) \subseteq T BY <1>1, <1>2, SeqSetInduction
<1> QED BY <1>3 DEF T, S

-----------------------------------------------------------------------------
(***************************************************************************)
(* Elements of a tag, a length and a value.                                *)
(***************************************************************************)
Tlvs == [tag : Byte, value : Seq(Byte)]

LEMMA TlvType ==
    ASSUME NEW tag \in Byte, NEW value \in Seq(Byte), Len(value) < Huge
    PROVE  /\ Tlv(tag, value) \in Seq(Byte)
           /\ Len(Tlv(tag, value))
                 = 1 + Len(WriteVariableLength(Len(value))) + Len(value)
           /\ Len(Tlv(tag, value)) >= 2 + Len(value)
<1> DEFINE h == <<tag>>
           w == WriteVariableLength(Len(value))
           hw == h \o w
           c == hw \o value
<1>1. h \in Seq(Byte) /\ Len(h) = 1 OBVIOUS
<1>2. Len(value) \in Nat BY LenIs
<1>3. w \in Seq(Byte) /\ Len(w) >= 1 BY <1>2, LengthIsWritten
<1>4. Len(w) \in Nat BY <1>3, LenIs
<1>5. Tlv(tag, value) = c BY DEF Tlv
<1> HIDE DEF h, w
<1>6. hw \in Seq(Byte) /\ Len(hw) = Len(h) + Len(w) BY <1>1, <1>3, Joined
<1> HIDE DEF hw
<1>7. c \in Seq(Byte) /\ Len(c) = Len(hw) + Len(value) BY <1>6, Joined
<1> HIDE DEF c
<1>8. Len(c) = 1 + Len(w) + Len(value) BY <1>1, <1>6, <1>7
<1>9. Len(c) >= 2 + Len(value) BY <1>2, <1>3, <1>4, <1>8
<1> QED BY <1>5, <1>7, <1>8, <1>9 DEF w

TlvWasRead(r, data, pos) ==
    /\ r \in Result(Tlvs)
    /\ r.ok => r.pos > pos /\ r.pos <= Len(data) /\ Len(r.val.value) < Len(data)

LEMMA ReadTlvType ==
    ASSUME NEW data \in Seq(Byte), NEW pos \in Nat
    PROVE  TlvWasRead(ReadTlv(data, pos), data, pos)
<1> DEFINE tag == ReadBytes(data, pos, 1)
           b == tag.val[1]
           length == ReadVariableLength(data, tag.pos)
           value == ReadBytes(data, length.pos, length.val)
           r == ReadTlv(data, pos)
<1>1. r = IF ~tag.ok THEN tag ELSE IF ~length.ok THEN length
          ELSE IF ~value.ok THEN value
          ELSE Got([tag |-> b, value |-> value.val], value.pos)
    BY DEF ReadTlv
<1>2. /\ tag.ok \in BOOLEAN
      /\ ~tag.ok => tag = Error("BufferUnderflow")
      /\ tag.ok => b \in Byte /\ tag.pos = pos + 1
    BY FirstByte
<1>3. Len(data) \in Nat /\ pos + 1 \in Nat BY LenIs
<1> HIDE DEF r, tag, b
<1>4. CASE ~tag.ok
    <2>1. r = Error("BufferUnderflow") /\ "BufferUnderflow" \in Failures
        BY <1>1, <1>2, <1>4 DEF Failures
    <2> QED BY <2>1, ErrorIs, ErrorType DEF TlvWasRead, r
<1>5. CASE tag.ok
    <2>1. LengthWasRead(length, data, pos + 1) BY <1>2, <1>3, <1>5, LengthType
    <2> HIDE DEF length
    <2>2. length \in Result(Size) BY <2>1 DEF LengthWasRead
    <2>3. length.ok \in BOOLEAN BY <2>2, ResultIs
    <2>4. CASE ~length.ok
        <3>1. r = length /\ length \in Result(Tlvs) BY <1>1, <1>5, <2>2, <2>4, ResultIs
        <3> QED BY <2>4, <3>1 DEF TlvWasRead, r
    <2>5. CASE length.ok
        <3>1. length.val \in Nat /\ length.pos \in Nat
            <4>1. length.val \in Size BY <2>2, <2>5, ResultIs
            <4> QED BY <2>2, <2>5, <4>1, ResultIs DEF Size
        <3>2. length.pos > pos + 1 BY <2>1, <2>5 DEF LengthWasRead
        <3>3. value \in Result(Seq(Byte)) BY <3>1, ReadBytesType
        <3>4. WasRead(value, data, length.pos, length.val) BY <3>1, ReadBytesIs
        <3> HIDE DEF value
        <3>5. CASE ~value.ok
            <4>1. r = value /\ value \in Result(Tlvs)
                BY <1>1, <1>5, <2>5, <3>3, <3>5, ResultIs
            <4> QED BY <3>5, <4>1 DEF TlvWasRead, r
        <3>6. CASE value.ok
            <4> DEFINE v == value.val
                       t == [tag |-> b, value |-> v]
            <4>1. r = Got(t, value.pos) BY <1>1, <1>5, <2>5, <3>6
            <4>2. v \in Seq(Byte) /\ value.pos \in Nat BY <3>3, <3>6, ResultIs
            <4>3. /\ value.pos = length.pos + length.val /\ Len(v) = length.val
                  /\ length.pos + length.val <= Len(data)
                <5>1. ~ (length.pos + length.val > Len(data))
                    BY <3>4, <3>6 DEF WasRead
                <5>2. length.pos + length.val <= Len(data) BY <1>3, <3>1, <5>1
                <5> QED BY <3>4, <5>2 DEF WasRead
            <4> HIDE DEF v
            <4>4. t \in Tlvs BY <1>2, <1>5, <4>2 DEF Tlvs
            <4>5. r \in Result(Tlvs) BY <4>1, <4>2, <4>4, GotType
            <4>6. t.value = v OBVIOUS
            <4> HIDE DEF t
            <4>7. r.pos = value.pos /\ r.val = t BY <4>1 DEF Got
            <4>8. value.pos > pos /\ value.pos <= Len(data) /\ Len(v) < Len(data)
                BY <1>3, <3>1, <3>2, <4>3
            <4> QED BY <4>5, <4>6, <4>7, <4>8 DEF TlvWasRead, r
        <3>7. value.ok \in BOOLEAN BY <3>3, ResultIs
        <3> QED BY <3>5, <3>6, <3>7
    <2> QED BY <2>3, <2>4, <2>5
<1> QED BY <1>2, <1>4, <1>5

(***************************************************************************)
(* An element that was written is read as it was written.                  *)
(***************************************************************************)
LEMMA TlvIsRead ==
    ASSUME NEW tag \in Byte, NEW value \in Seq(Byte), Len(value) < Huge,
           NEW data \in Seq(Byte), NEW pos \in Nat,
           Holds(data, pos, Tlv(tag, value))
    PROVE  ReadTlv(data, pos) = Got([tag |-> tag, value |-> value],
                                    pos + Len(Tlv(tag, value)))
<1> DEFINE h == <<tag>>
           n == Len(value)
           w == WriteVariableLength(n)
           hw == h \o w
           x == ReadBytes(data, pos, 1)
           y == ReadVariableLength(data, x.pos)
           z == ReadBytes(data, y.pos, y.val)
           end == pos + 1 + Len(w) + n
<1>1. h \in Seq(Byte) /\ Len(h) = 1 /\ h[1] = tag OBVIOUS
<1>2. n \in Nat BY LenIs
<1>3. w \in Seq(Byte) /\ Len(w) >= 1 BY <1>2, LengthIsWritten
<1>4. Len(w) \in Nat BY <1>3, LenIs
<1>5. Tlv(tag, value) = hw \o value BY DEF Tlv
<1>6. Len(Tlv(tag, value)) = 1 + Len(w) + n BY TlvType
<1>7. Holds(data, pos, hw \o value) BY <1>5
<1> HIDE DEF h, w
<1>8. hw \in Seq(Byte) /\ Len(hw) = Len(h) + Len(w) BY <1>1, <1>3, Joined
<1> HIDE DEF hw
<1>9. Holds(data, pos, hw) /\ Holds(data, pos + Len(hw), value)
    BY <1>7, <1>8, HoldsBoth
<1>10. Holds(data, pos, h \o w) BY <1>9 DEF hw
<1>11. Holds(data, pos, h) /\ Holds(data, pos + Len(h), w)
    BY <1>1, <1>3, <1>10, HoldsBoth
<1>12. ReadBytes(data, pos, Len(h)) = Got(h, pos + Len(h))
    BY <1>1, <1>11, HeldIsRead
<1>13. x = Got(h, pos + 1) BY <1>1, <1>12
<1>14. x.ok = TRUE /\ x.val = h /\ x.pos = pos + 1 BY <1>13 DEF Got
<1> HIDE DEF x
<1>15. Holds(data, pos + 1, w) /\ pos + 1 \in Nat BY <1>1, <1>11
<1>16. ReadVariableLength(data, pos + 1) = Got(n, pos + 1 + Len(w))
    <2> HIDE DEF n
    <2> QED BY <1>2, <1>15, LengthIsRead DEF w, n
<1>17. y = Got(n, pos + 1 + Len(w)) BY <1>14, <1>16
<1>18. y.ok = TRUE /\ y.val = n /\ y.pos = pos + 1 + Len(w) BY <1>17 DEF Got
<1> HIDE DEF y
<1>19. pos + Len(hw) = pos + 1 + Len(w) /\ pos + 1 + Len(w) \in Nat
    BY <1>1, <1>4, <1>8
<1>20. Holds(data, pos + 1 + Len(w), value) BY <1>9, <1>19
<1>21. z = Got(value, end)
    BY <1>18, <1>19, <1>20, HeldIsRead
<1>22. z.ok = TRUE /\ z.val = value /\ z.pos = end BY <1>21 DEF Got
<1> HIDE DEF z
<1>23. ReadTlv(data, pos) = IF ~x.ok THEN x ELSE IF ~y.ok THEN y ELSE IF ~z.ok THEN z
                            ELSE Got([tag |-> x.val[1], value |-> z.val], z.pos)
    BY DEF ReadTlv, x, y, z
<1>24. ReadTlv(data, pos) = Got([tag |-> tag, value |-> value], end)
    BY <1>1, <1>14, <1>18, <1>22, <1>23
<1>25. end = pos + Len(Tlv(tag, value)) BY <1>2, <1>4, <1>6
<1> QED BY <1>24, <1>25

LEMMA TlvOnCut ==
    ASSUME NEW data \in Seq(Byte), NEW part \in Seq(Byte), CutTo(part, data),
           NEW pos \in Nat, ReadTlv(part, pos).ok
    PROVE  ReadTlv(data, pos) = ReadTlv(part, pos)
<1> DEFINE tag(d) == ReadBytes(d, pos, 1)
           length(d) == ReadVariableLength(d, tag(d).pos)
           value(d) == ReadBytes(d, length(d).pos, length(d).val)
           r(d) == ReadTlv(d, pos)
<1>1. \A d : r(d) = IF ~tag(d).ok THEN tag(d) ELSE IF ~length(d).ok THEN length(d)
                    ELSE IF ~value(d).ok THEN value(d)
                    ELSE Got([tag |-> tag(d).val[1], value |-> value(d).val],
                             value(d).pos)
    BY DEF ReadTlv
<1>2. r(part).ok OBVIOUS
<1> HIDE DEF r
<1>3. tag(part).ok
    <2> HIDE DEF tag, length, value
    <2> QED BY <1>1, <1>2
<1>4. 1 \in Nat OBVIOUS
<1>5. tag(data) = tag(part) BY <1>3, <1>4, ReadBytesOnCut
<1>6. tag(part).pos \in Nat
    <2>1. tag(part) \in Result(Seq(Byte)) BY <1>4, ReadBytesType
    <2> QED BY <1>3, <2>1, ResultIs
<1> HIDE DEF tag
<1>7. length(part).ok
    <2> HIDE DEF length, value
    <2> QED BY <1>1, <1>2, <1>3
<1>8. length(data) = length(part) BY <1>5, <1>6, <1>7, LengthOnCut
<1>9. length(part).pos \in Nat /\ length(part).val \in Nat
    <2>1. length(part) \in Result(Size) BY <1>6, LengthType DEF LengthWasRead
    <2> HIDE DEF length
    <2>2. length(part).val \in Size /\ length(part).pos \in Nat
        BY <1>7, <2>1, ResultIs
    <2> QED BY <2>2 DEF Size
<1> HIDE DEF length
<1>10. value(part).ok
    <2> HIDE DEF value
    <2> QED BY <1>1, <1>2, <1>3, <1>7
<1>11. value(data) = value(part) BY <1>8, <1>9, <1>10, ReadBytesOnCut
<1> HIDE DEF value
<1> QED BY <1>1, <1>3, <1>5, <1>7, <1>8, <1>10, <1>11 DEF r

(***************************************************************************)
(* Lists of elements.                                                      *)
(***************************************************************************)
Short(m) == {t \in Tlvs : Len(t.value) < m}

Tlving(data) == [pos \in Nat |-> ReadTlv(data, pos)]

LEMMA TlvingType ==
    ASSUME NEW data \in Seq(Byte)
    PROVE  /\ Tlving(data) \in [Nat -> Result(Short(Len(data)))]
           /\ Advances(Tlving(data), data)
           /\ \A pos \in Nat : Tlving(data)[pos] = ReadTlv(data, pos)
<1> DEFINE V == Short(Len(data))
           f == Tlving(data)
<1>1. ASSUME NEW pos \in Nat
      PROVE  ReadTlv(data, pos) \in Result(V)
    <2> DEFINE r == ReadTlv(data, pos)
    <2>1. TlvWasRead(r, data, pos) BY ReadTlvType
    <2> HIDE DEF r
    <2>2. r \in Result(Tlvs) BY <2>1 DEF TlvWasRead
    <2>3. CASE ~r.ok BY <2>2, <2>3, ResultIs DEF r
    <2>4. CASE r.ok
        <3>1. r = Got(r.val, r.pos) /\ r.val \in Tlvs /\ r.pos \in Nat
            BY <2>2, <2>4, ResultIs
        <3>2. Len(r.val.value) < Len(data) BY <2>1, <2>4 DEF TlvWasRead
        <3>3. r.val \in V BY <3>1, <3>2 DEF Short
        <3> HIDE DEF V
        <3>4. Got(r.val, r.pos) \in Result(V) BY <3>1, <3>3, GotType
        <3> QED BY <3>1, <3>4 DEF r
    <2>5. r.ok \in BOOLEAN BY <2>2, ResultIs
    <2> QED BY <2>3, <2>4, <2>5
<1>2. \A pos \in Nat : f[pos] = ReadTlv(data, pos) BY DEF Tlving
<1>3. f \in [Nat -> Result(V)] BY <1>1 DEF Tlving
<1>4. Advances(f, data)
    <2>1. ASSUME NEW pos \in Nat, f[pos].ok
          PROVE  f[pos].pos > pos /\ f[pos].pos <= Len(data)
        <3>1. TlvWasRead(f[pos], data, pos) BY <1>2, ReadTlvType
        <3> QED BY <2>1, <3>1 DEF TlvWasRead
    <2> QED BY <2>1 DEF Advances
<1> QED BY <1>2, <1>3, <1>4

ListWasRead(r, data) ==
    /\ r \in Result(Seq(Short(Len(data))))
    /\ r.ok => r.pos <= Len(data) /\ Len(r.val) <= Len(data)

LEMMA ReadAllType ==
    ASSUME NEW data \in Seq(Byte)
    PROVE  ListWasRead(ReadAll(data), data)
<1> DEFINE item == Tlving(data)
           V == Short(Len(data))
           n == Len(data)
           r == ReadAll(data)
<1>1. item \in [Nat -> Result(V)] /\ Advances(item, data) BY TlvingType
<1>2. n \in Nat /\ 0 \in Nat BY LenIs
<1>3. r = ReadMany(data, item, n, 0) BY DEF ReadAll, Tlving
<1> HIDE DEF item, V, n, r
<1>4. r \in Result(Seq(V)) BY <1>1, <1>2, <1>3, ManyType
<1>5. Bounded(r, data, n, 0) BY <1>1, <1>2, <1>3, ManyBounds
<1>6. r.ok => r.pos <= Len(data) /\ Len(r.val) <= Len(data)
    BY <1>2, <1>5 DEF Bounded, n
<1> QED BY <1>4, <1>6 DEF ListWasRead, r, V

Codes1(elements) ==
    [i \in DOMAIN elements |-> Tlv(elements[i].tag, elements[i].value)]

LEMMA CodesType ==
    ASSUME NEW elements \in Seq(Short(Huge))
    PROVE  /\ Codes1(elements) \in Seq(Seq(Byte))
           /\ Len(Codes1(elements)) = Len(elements)
           /\ \A i \in 1 .. Len(elements) :
                 Codes1(elements)[i] = Tlv(elements[i].tag, elements[i].value)
<1>1. ASSUME NEW i \in DOMAIN elements
      PROVE  Tlv(elements[i].tag, elements[i].value) \in Seq(Byte)
    <2>1. i \in 1 .. Len(elements) OBVIOUS
    <2>2. elements[i] \in Short(Huge) BY <2>1, ElementType
    <2>3. /\ elements[i].tag \in Byte /\ elements[i].value \in Seq(Byte)
          /\ Len(elements[i].value) < Huge
        BY <2>2 DEF Short, Tlvs
    <2> QED BY <2>3, TlvType
<1>2. DOMAIN elements = 1 .. Len(elements) /\ Len(elements) \in Nat OBVIOUS
<1> DEFINE S == Seq(Byte)
<1>3. Codes1(elements) \in [1 .. Len(elements) -> S] BY <1>1, <1>2 DEF Codes1
<1> HIDE DEF S
<1>4. Codes1(elements) \in Seq(S) /\ Len(Codes1(elements)) = Len(elements)
    BY <1>2, <1>3
<1>5. \A i \in 1 .. Len(elements) :
        Codes1(elements)[i] = Tlv(elements[i].tag, elements[i].value)
    BY <1>2 DEF Codes1
<1> QED BY <1>4, <1>5 DEF S

LEMMA WriteAllType ==
    ASSUME NEW elements \in Seq(Short(Huge))
    PROVE  /\ WriteAll(elements) \in Seq(Byte)
           /\ WriteAll(elements) = FlattenSeq(Codes1(elements))
           /\ Len(elements) = 0 => WriteAll(elements) = <<>>
<1>1. WriteAll(elements) = FlattenSeq(Codes1(elements)) BY DEF WriteAll, Codes1
<1>2. /\ Codes1(elements) \in Seq(Seq(Byte))
      /\ Len(Codes1(elements)) = Len(elements)
    BY CodesType
<1> QED BY <1>1, <1>2, FlatType

LEMMA WriteAppend ==
    ASSUME NEW s \in Seq(Short(Huge)), NEW t \in Short(Huge)
    PROVE  WriteAll(Append(s, t)) = WriteAll(s) \o Tlv(t.tag, t.value)
<1> DEFINE a == Append(s, t)
           cs == Codes1(s)
           ca == Codes1(a)
           n == Len(s)
<1>1. a \in Seq(Short(Huge)) /\ Len(a) = n + 1 /\ a[n + 1] = t /\ n \in Nat
    OBVIOUS
<1>2. \A i \in 1 .. n : a[i] = s[i] OBVIOUS
<1> HIDE DEF a
<1>3. /\ cs \in Seq(Seq(Byte)) /\ Len(cs) = n
      /\ \A i \in 1 .. n : cs[i] = Tlv(s[i].tag, s[i].value)
    BY CodesType
<1>4. /\ ca \in Seq(Seq(Byte)) /\ Len(ca) = n + 1
      /\ \A i \in 1 .. n + 1 : ca[i] = Tlv(a[i].tag, a[i].value)
    BY <1>1, CodesType
<1>5. WriteAll(s) = FlattenSeq(cs) BY WriteAllType
<1>6. WriteAll(a) = FlattenSeq(ca) BY <1>1, WriteAllType
<1> HIDE DEF cs, ca, n
<1>7. \A i \in 1 .. Len(cs) : ca[i] = cs[i]
    <2> TAKE i \in 1 .. Len(cs)
    <2>1. i \in 1 .. n /\ i \in 1 .. n + 1 BY <1>1, <1>3
    <2> QED BY <1>2, <1>3, <1>4, <2>1
<1>8. Len(ca) = Len(cs) + 1 BY <1>3, <1>4
<1>9. cs \in Seq(Seq(Byte)) BY <1>3
<1>10. ca \in Seq(Seq(Byte)) BY <1>4
<1>11. FlattenSeq(ca) = FlattenSeq(cs) \o ca[Len(ca)]
    BY <1>7, <1>8, <1>9, <1>10, FlatAlong
<1>12. ca[Len(ca)] = Tlv(t.tag, t.value)
    <2>1. n + 1 \in 1 .. n + 1 BY <1>1
    <2> QED BY <1>1, <1>4, <2>1
<1> QED BY <1>5, <1>6, <1>11, <1>12 DEF a

(***************************************************************************)
(* The elements that were written are read, and of those that are cut the  *)
(* ones before the cut.                                                    *)
(***************************************************************************)
AllEnds(e, elements, data) ==
    /\ e \in [Nat -> Nat] /\ e[0] = 0
    /\ e[Len(elements)] = Len(data)
    /\ \A i \in 1 .. Len(elements) :
          /\ ReadTlv(data, e[i - 1]) = Got(elements[i], e[i])
          /\ e[i - 1] < Len(data)

LEMMA AllEndsExist ==
    ASSUME NEW elements \in Seq(Short(Huge)), Len(WriteAll(elements)) < Huge
    PROVE  \E e : AllEnds(e, elements, WriteAll(elements))
<1> DEFINE data == WriteAll(elements)
           codes == Codes1(elements)
<1>1. data \in Seq(Byte) /\ data = FlattenSeq(codes) BY WriteAllType
<1>2. /\ codes \in Seq(Seq(Byte)) /\ Len(codes) = Len(elements)
      /\ \A i \in 1 .. Len(elements) : codes[i] = Tlv(elements[i].tag, elements[i].value)
    BY CodesType
<1>3. Len(data) \in Nat BY <1>1, LenIs
<1> HIDE DEF data, codes
<1>4. Holds(data, 0, data)
    <2>1. 0 + Len(data) <= Len(data) BY <1>3
    <2>2. \A i \in 1 .. Len(data) : data[0 + i] = data[i] BY <1>3
    <2> QED BY <2>1, <2>2 DEF Holds
<1>5. \E e : Ends(e, data, 0, codes)
    <2>1. Holds(data, 0, FlattenSeq(codes)) BY <1>1, <1>4
    <2>2. data \in Seq(Byte) BY <1>1
    <2>3. codes \in Seq(Seq(Byte)) BY <1>2
    <2>4. 0 \in Nat OBVIOUS
    <2> QED BY <2>1, <2>2, <2>3, <2>4, EndsExist
<1>6. PICK e : Ends(e, data, 0, codes) BY <1>5
<1>7. /\ e \in [Nat -> Nat] /\ e[0] = 0
      /\ e[Len(elements)] = 0 + Len(data)
      /\ \A i \in 1 .. Len(elements) :
            Holds(data, e[i - 1], codes[i]) /\ e[i] = e[i - 1] + Len(codes[i])
    BY <1>1, <1>2, <1>6 DEF Ends
<1>8. ASSUME NEW i \in 1 .. Len(elements)
      PROVE  ReadTlv(data, e[i - 1]) = Got(elements[i], e[i]) /\ e[i - 1] < Len(data)
    <2> DEFINE t == elements[i].tag
               v == elements[i].value
    <2>1. elements[i] \in Short(Huge) BY ElementType
    <2>2. t \in Byte /\ v \in Seq(Byte) /\ Len(v) < Huge
          /\ elements[i] = [tag |-> t, value |-> v]
        BY <2>1 DEF Short, Tlvs
    <2>3. codes[i] = Tlv(t, v) BY <1>2
    <2> HIDE DEF t, v
    <2>4. i - 1 \in Nat OBVIOUS
    <2>5. e[i - 1] \in Nat BY <1>7, <2>4
    <2>6. Holds(data, e[i - 1], Tlv(t, v)) /\ e[i] = e[i - 1] + Len(Tlv(t, v))
        BY <1>7, <2>3
    <2>7. data \in Seq(Byte) BY <1>1
    <2>8. ReadTlv(data, e[i - 1])
            = Got([tag |-> t, value |-> v], e[i - 1] + Len(Tlv(t, v)))
        BY <2>2, <2>5, <2>6, <2>7, TlvIsRead
    <2>9. Len(Tlv(t, v)) >= 2 + Len(v) /\ Len(v) \in Nat BY <2>2, TlvType, LenIs
    <2>10. Len(Tlv(t, v)) \in Nat BY <2>2, TlvType, LenIs
    <2>11. e[i - 1] + Len(Tlv(t, v)) <= Len(data) BY <2>6 DEF Holds
    <2> DEFINE x == e[i - 1]
               y == Len(Tlv(t, v))
    <2>12. x \in Nat /\ y \in Nat /\ y >= 2 + Len(v) /\ x + y <= Len(data)
        BY <2>5, <2>9, <2>10, <2>11
    <2> HIDE DEF x, y
    <2>13. x < Len(data) BY <1>3, <2>9, <2>12
    <2> QED BY <2>2, <2>6, <2>8, <2>13 DEF x
<1>9. e[Len(elements)] = Len(data) BY <1>3, <1>7
<1>10. AllEnds(e, elements, data) BY <1>7, <1>8, <1>9 DEF AllEnds
<1> QED BY <1>10 DEF data

LEMMA ElementsType ==
    ASSUME NEW elements \in Seq(Short(Huge)), NEW data \in Seq(Byte)
    PROVE  /\ elements \in Seq(Tlvs)
           /\ Tlving(data) \in [Nat -> Result(Tlvs)]
<1>1. Short(Huge) \subseteq Tlvs BY DEF Short
<1>2. elements \in Seq(Tlvs)
    <2> DEFINE S == Short(Huge)
    <2> HIDE DEF S
    <2>1. S \subseteq Tlvs BY <1>1 DEF S
    <2>2. elements \in Seq(S) BY DEF S
    <2> QED BY <2>1, <2>2
<1>3. \A pos \in Nat : ReadTlv(data, pos) \in Result(Tlvs)
    BY ReadTlvType DEF TlvWasRead
<1>4. Tlving(data) \in [Nat -> Result(Tlvs)] BY <1>3 DEF Tlving
<1> QED BY <1>2, <1>4

(***************************************************************************)
(* Of elements that arrived in full, all are read as they were written     *)
(* (ber::encode, ber::decode_all).                                         *)
(***************************************************************************)
THEOREM AllAreRead ==
    ASSUME NEW elements \in Seq(Short(Huge)), Len(WriteAll(elements)) < Huge
    PROVE  ReadAll(WriteAll(elements)) = Got(elements, Len(WriteAll(elements)))
<1> DEFINE data == WriteAll(elements)
           item == Tlving(data)
           n == Len(data)
           L == Len(elements)
<1>1. data \in Seq(Byte) BY WriteAllType
<1>2. n \in Nat /\ L \in Nat BY <1>1, LenIs
<1>3. PICK e : AllEnds(e, elements, data) BY AllEndsExist
<1> HIDE DEF data
<1>4. /\ e \in [Nat -> Nat] /\ e[0] = 0 /\ e[L] = n
      /\ \A i \in 1 .. L : /\ ReadTlv(data, e[i - 1]) = Got(elements[i], e[i])
                           /\ e[i - 1] < Len(data)
    BY <1>3 DEF AllEnds
<1>5. /\ elements \in Seq(Tlvs)
      /\ item \in [Nat -> Result(Tlvs)]
    BY <1>1, ElementsType
<1>6. \A pos \in Nat : item[pos] = ReadTlv(data, pos) BY <1>1, TlvingType
<1>7. ReadAll(data) = ReadMany(data, item, n, 0) BY DEF ReadAll, Tlving
<1> HIDE DEF item
<1>8. Laid(item, elements, e)
    <2>1. ASSUME NEW i \in 1 .. L PROVE item[e[i - 1]] = Got(elements[i], e[i])
        <3>1. i - 1 \in Nat OBVIOUS
        <3>2. e[i - 1] \in Nat BY <1>4, <3>1
        <3> QED BY <1>4, <1>6, <3>2
    <2> QED BY <2>1 DEF Laid
<1>9. elements \in Seq(Tlvs) BY <1>5
<1>10. item \in [Nat -> Result(Tlvs)] BY <1>5
<1>11. e \in [Nat -> Nat] BY <1>4
<1>12. \A i \in 1 .. Len(elements) : e[i - 1] < Len(data) BY <1>4
<1>13. n >= L
    <2>1. Bounded(ReadMany(data, item, L, 0), data, L, 0)
        <3>1. Advances(item, data) BY <1>1, TlvingType DEF item
        <3>2. 0 \in Nat OBVIOUS
        <3> QED BY <1>1, <1>2, <1>10, <3>1, <3>2, ManyBounds
    <2>2. ReadMany(data, item, L, e[0]) = Got(elements, e[L])
        <3>1. L >= Len(elements) /\ (L = Len(elements) \/ e[Len(elements)] >= Len(data))
            BY <1>2
        <3> QED BY <1>1, <1>2, <1>8, <1>9, <1>10, <1>11, <1>12, <3>1, ManyAreRead
    <2> DEFINE r == ReadMany(data, item, L, 0)
    <2>3. r = Got(elements, n) BY <1>4, <2>2
    <2> HIDE DEF r
    <2>4. r.ok = TRUE /\ r.val = elements /\ r.pos = n BY <2>3 DEF Got
    <2>5. Len(r.val) <= r.pos - 0 BY <2>1, <2>4 DEF Bounded, r
    <2> QED BY <1>2, <2>4, <2>5
<1>14. n = Len(elements) \/ e[Len(elements)] >= Len(data)
    BY <1>2, <1>4
<1>15. ReadMany(data, item, n, e[0]) = Got(elements, e[Len(elements)])
    <2>1. n >= Len(elements) BY <1>13
    <2> HIDE DEF n
    <2> QED BY <1>1, <1>2, <1>8, <1>9, <1>10, <1>11, <1>12, <1>14, <2>1, ManyAreRead, ZenonT(60)
<1>16. ReadAll(data) = Got(elements, n) BY <1>4, <1>7, <1>15
<1> QED BY <1>16 DEF data

LEMMA StrictPrefixIs ==
    ASSUME NEW V, NEW s \in Seq(V), NEW t \in Seq(V), Len(s) < Len(t),
           \A i \in 1 .. Len(s) : s[i] = t[i]
    PROVE  IsStrictPrefix(s, t)
<1> DEFINE n == Len(s)
           u == SubSeq(s, 1, n)
           v == SubSeq(t, 1, n)
<1>1. n \in Nat /\ Len(t) \in Nat BY LenIs
<1>2. u \in Seq(V) /\ Len(u) = n /\ \A i \in 1 .. n : u[i] = s[i] BY <1>1
<1>3. v \in Seq(V) /\ Len(v) = n /\ \A i \in 1 .. n : v[i] = t[i] BY <1>1
<1>4. Len(u) = Len(v) /\ \A i \in 1 .. Len(u) : u[i] = v[i] BY <1>2, <1>3
<1> HIDE DEF u, v
<1>5. u = v BY <1>2, <1>3, <1>4, SameElements
<1>6. s # t BY <1>1
<1>7. n <= Len(t) BY <1>1
<1> QED BY <1>5, <1>6, <1>7 DEF u, v, IsStrictPrefix, IsPrefix

(***************************************************************************)
(* Of a list of elements that is cut, decode_all gives an error, or the    *)
(* elements before the cut and less than all of them.                      *)
(***************************************************************************)
THEOREM AllOnCut ==
    ASSUME NEW elements \in Seq(Short(Huge)), Len(WriteAll(elements)) < Huge,
           NEW part \in Seq(Byte), CutTo(part, WriteAll(elements)),
           Len(part) < Len(WriteAll(elements)), ReadAll(part).ok
    PROVE  IsStrictPrefix(ReadAll(part).val, elements)
<1> DEFINE data == WriteAll(elements)
           item == Tlving(part)
           n == Len(part)
           L == Len(elements)
           r == ReadAll(part)
           s == r.val
<1>1. data \in Seq(Byte) BY WriteAllType
<1>2. n \in Nat /\ L \in Nat /\ Len(data) \in Nat BY <1>1, LenIs
<1>3. PICK e : AllEnds(e, elements, data) BY AllEndsExist
<1>4. CutTo(part, data) /\ n < Len(data) /\ r.ok OBVIOUS
<1> HIDE DEF data
<1>5. /\ e \in [Nat -> Nat] /\ e[0] = 0 /\ e[L] = Len(data)
      /\ \A i \in 1 .. L : ReadTlv(data, e[i - 1]) = Got(elements[i], e[i])
    BY <1>3 DEF AllEnds
<1>6. /\ elements \in Seq(Tlvs)
      /\ item \in [Nat -> Result(Tlvs)]
    BY ElementsType
<1>7. Advances(item, part) /\ \A pos \in Nat : item[pos] = ReadTlv(part, pos)
    BY TlvingType
<1>8. r = ReadMany(part, item, n, 0) BY DEF ReadAll, Tlving
<1> HIDE DEF item, r
<1>9. LaidCut(item, part, elements, e, {})
    <2>1. ASSUME NEW i \in 1 .. L
          PROVE  ItemCut(item[e[i - 1]], part, elements[i], e[i], {})
        <3>1. i - 1 \in Nat OBVIOUS
        <3>2. e[i - 1] \in Nat BY <1>5, <3>1
        <3> DEFINE p == e[i - 1]
        <3>3. item[p] = ReadTlv(part, p) BY <1>7, <3>2
        <3>4. ReadTlv(data, p) = Got(elements[i], e[i]) BY <1>5
        <3>5. ReadTlv(part, p).ok => ReadTlv(data, p) = ReadTlv(part, p)
            BY <1>1, <1>4, <3>2, TlvOnCut
        <3> HIDE DEF p
        <3>6. ItemCut(item[p], part, elements[i], e[i], {}) BY <3>3, <3>4, <3>5 DEF ItemCut
        <3> QED BY <3>6 DEF p
    <2> QED BY <2>1 DEF LaidCut
<1>10. elements \in Seq(Tlvs) BY <1>6
<1>11. item \in [Nat -> Result(Tlvs)] BY <1>6
<1>12. e \in [Nat -> Nat] BY <1>5
<1>13. n <= Len(elements) \/ Len(part) <= e[Len(elements)]
    BY <1>2, <1>4, <1>5
<1>14. ListCut(ReadMany(part, item, n, e[0]), part, elements, e, {}, 0, n)
    <2> HIDE DEF n
    <2> QED BY <1>2, <1>9, <1>10, <1>11, <1>12, <1>13, CutManyAreRead
<1>15. ListCut(r, part, elements, e, {}, 0, n) BY <1>5, <1>8, <1>14
<1>16. Bounded(r, part, n, 0) BY <1>2, <1>7, <1>8, <1>11, ManyBounds
<1>17. r \in Result(Seq(Tlvs)) BY <1>2, <1>8, <1>11, ManyType
<1>18. s \in Seq(Tlvs) /\ r.pos \in Nat BY <1>4, <1>17, ResultIs
<1> DEFINE l == Len(s)
<1>19. l \in Nat BY <1>18, LenIs
<1>20. /\ 0 + l <= L
       /\ \A i \in 1 .. l - 1 : s[i] = elements[0 + i]
       /\ l > 0 => s[l] = elements[0 + l] /\ r.pos = e[0 + l]
    BY <1>4, <1>15 DEF ListCut
<1>21. r.pos <= n
    <2>1. r.pos = 0 \/ r.pos <= n BY <1>4, <1>16 DEF Bounded
    <2> QED BY <1>2, <2>1
<1> HIDE DEF s, l, L, n
<1>22. l # L
    <2>1. SUFFICES ASSUME l = L PROVE FALSE
        OBVIOUS
    <2>2. CASE l = 0
        <3>1. Len(data) = 0
            BY <1>5, <2>1, <2>2
        <3> QED BY <1>2, <1>4, <3>1 DEF n
    <2>3. CASE l # 0
        <3>1. l > 0 /\ 0 + l = l BY <1>19, <2>3
        <3>2. r.pos = Len(data) BY <1>5, <1>20, <2>1, <3>1
        <3> QED BY <1>2, <1>4, <1>21, <3>2 DEF n
    <2> QED BY <2>2, <2>3
<1>23. l < L BY <1>2, <1>19, <1>20, <1>22
<1>24. \A i \in 1 .. l : s[i] = elements[i]
    <2> TAKE i \in 1 .. l
    <2>1. 0 + i = i /\ (i = l \/ i \in 1 .. l - 1) /\ l > 0 BY <1>19
    <2>2. CASE i = l BY <1>20, <2>1, <2>2
    <2>3. CASE i \in 1 .. l - 1 BY <1>20, <2>1, <2>3
    <2> QED BY <2>1, <2>2, <2>3
<1>25. IsStrictPrefix(s, elements)
    <2>1. s \in Seq(Tlvs) BY <1>18
    <2>2. Len(s) < Len(elements) BY <1>23 DEF l, L
    <2>3. \A i \in 1 .. Len(s) : s[i] = elements[i] BY <1>24 DEF l
    <2> QED BY <1>10, <2>1, <2>2, <2>3, StrictPrefixIs
<1> QED BY <1>25 DEF s, r

-----------------------------------------------------------------------------
(***************************************************************************)
(* The fields that are taken from a list of elements.                      *)
(***************************************************************************)
Takes(apdu, S, E) == \A v \in S, t \in E : TakeField(v, t, apdu) \in S

Taken(apdu, v0, s) == FoldLeft(LAMBDA v, e : TakeField(v, e, apdu), v0, s)

TakeStep(apdu, S, E) == [p \in S \X E |-> TakeField(p[1], p[2], apdu)]

TakesBy(apdu, S, E) ==
    /\ TakeStep(apdu, S, E) \in FoldSteps(S, E)
    /\ \A v \in S, t \in E : TakeStep(apdu, S, E)[<<v, t>>] = TakeField(v, t, apdu)

LEMMA TakeStepIs ==
    ASSUME NEW apdu, NEW S, NEW E, Takes(apdu, S, E)
    PROVE  TakesBy(apdu, S, E)
<1>1. ASSUME NEW p \in S \X E PROVE TakeField(p[1], p[2], apdu) \in S
    <2>1. p[1] \in S /\ p[2] \in E OBVIOUS
    <2> QED BY <2>1 DEF Takes
<1>2. TakeStep(apdu, S, E) \in [S \X E -> S] BY <1>1 DEF TakeStep
<1>3. \A v \in S, t \in E : TakeStep(apdu, S, E)[<<v, t>>] = TakeField(v, t, apdu)
    BY DEF TakeStep
<1> QED BY <1>2, <1>3 DEF FoldSteps, TakesBy

LEMMA TakesAreFold ==
    ASSUME NEW apdu, NEW S, NEW E, Takes(apdu, S, E), NEW v0 \in S, NEW s \in Seq(E)
    PROVE  Taken(apdu, v0, s) = Fold(TakeStep(apdu, S, E), v0, s)
<1> DEFINE step == TakeStep(apdu, S, E)
           Take(v, t) == TakeField(v, t, apdu)
           Eqn(it) ==
             it = [x \in SUBSET DOMAIN s |->
                     IF x = {} THEN v0 ELSE Take(it[x \ {Max(x)}], s[Max(x)])]
           jt == CHOOSE it : Eqn(it)
<1>0. step \in FoldSteps(S, E) /\ \A v \in S, t \in E : step[<<v, t>>] = Take(v, t)
    BY TakeStepIs DEF TakesBy
<1>1. Taken(apdu, v0, s) = jt[DOMAIN s]
    BY DEF Taken, FoldLeft, MapThenFoldSet
<1> HIDE DEF step, Take
<1>2. \E it : Eqn(it)
    <2>1. PICK it : /\ FoldsTo(it, step, v0, s)
                    /\ \A x \in SUBSET DOMAIN s : it[x] \in S
        BY <1>0, FoldExists
    <2>2. ASSUME NEW x \in SUBSET DOMAIN s, x # {}
          PROVE  step[<<it[x \ {Max(x)}], s[Max(x)]>>]
                    = Take(it[x \ {Max(x)}], s[Max(x)])
        <3>1. x \ {Max(x)} \in SUBSET DOMAIN s /\ s[Max(x)] \in E BY <2>2, PrefixSets
        <3>2. it[x \ {Max(x)}] \in S BY <2>1, <3>1
        <3> QED BY <1>0, <3>1, <3>2
    <2>3. Eqn(it) BY <2>1, <2>2 DEF FoldsTo
    <2> QED BY <2>3
<1>3. Eqn(jt) BY <1>2
<1> HIDE DEF jt
<1>4. \A x \in SUBSET DOMAIN s :
        jt[x] = IF x = {} THEN v0 ELSE Take(jt[x \ {Max(x)}], s[Max(x)])
    BY <1>3
<1>5. jt[{}] = v0 BY <1>4
<1>6. ASSUME NEW x \in SUBSET DOMAIN s, x # {}, jt[x \ {Max(x)}] \in S
      PROVE  jt[x] = step[<<jt[x \ {Max(x)}], s[Max(x)]>>]
    <2>1. s[Max(x)] \in E BY PrefixSets, <1>6
    <2> QED BY <1>0, <1>4, <1>6, <2>1
<1> HIDE DEF Eqn
<1>7. Solves(jt, S, step, v0, s) BY <1>5, <1>6 DEF Solves
<1>8. jt[DOMAIN s] = Fold(step, v0, s)
    BY <1>0, <1>7, FoldSolution
<1> QED BY <1>1, <1>8 DEF step

LEMMA TakenType ==
    ASSUME NEW apdu, NEW S, NEW E, Takes(apdu, S, E), NEW v0 \in S, NEW s \in Seq(E)
    PROVE  Taken(apdu, v0, s) \in S
<1>1. TakeStep(apdu, S, E) \in FoldSteps(S, E) BY TakeStepIs DEF TakesBy
<1>2. Taken(apdu, v0, s) = Fold(TakeStep(apdu, S, E), v0, s) BY TakesAreFold
<1> QED BY <1>1, <1>2, FoldType

LEMMA TakenNone ==
    ASSUME NEW apdu, NEW S, NEW E, Takes(apdu, S, E), NEW v0 \in S
    PROVE  Taken(apdu, v0, <<>>) = v0
<1> DEFINE nil == <<>>
<1>1. nil \in Seq(E) /\ Len(nil) = 0 OBVIOUS
<1> HIDE DEF nil
<1>2. TakeStep(apdu, S, E) \in FoldSteps(S, E) BY TakeStepIs DEF TakesBy
<1>3. Taken(apdu, v0, nil) = Fold(TakeStep(apdu, S, E), v0, nil) BY <1>1, TakesAreFold
<1>4. Fold(TakeStep(apdu, S, E), v0, nil) = v0 BY <1>1, <1>2, FoldNothing
<1> QED BY <1>3, <1>4 DEF nil

LEMMA TakenAppend ==
    ASSUME NEW apdu, NEW S, NEW E, Takes(apdu, S, E), NEW v0 \in S, NEW s \in Seq(E),
           NEW t \in E
    PROVE  Taken(apdu, v0, Append(s, t)) = TakeField(Taken(apdu, v0, s), t, apdu)
<1> DEFINE step == TakeStep(apdu, S, E)
           a == Append(s, t)
<1>1. step \in FoldSteps(S, E)
    BY TakeStepIs DEF TakesBy
<1>2. \A v \in S : step[<<v, t>>] = TakeField(v, t, apdu)
    BY TakeStepIs DEF TakesBy
<1>3. a \in Seq(E) OBVIOUS
<1>4. Taken(apdu, v0, s) = Fold(step, v0, s) BY TakesAreFold
<1>5. Taken(apdu, v0, s) \in S BY TakenType
<1> HIDE DEF step
<1>6. Taken(apdu, v0, a) = Fold(step, v0, a)
    <2> HIDE DEF a
    <2> QED BY <1>3, TakesAreFold DEF step
<1>7. Fold(step, v0, a) = step[<<Fold(step, v0, s), t>>] BY <1>1, FoldAppend
<1> HIDE DEF a
<1>8. step[<<Taken(apdu, v0, s), t>>] = TakeField(Taken(apdu, v0, s), t, apdu)
    BY <1>2, <1>5
<1> QED BY <1>4, <1>6, <1>7, <1>8 DEF a

(***************************************************************************)
(* One more field: nothing if it is empty, else one more element.          *)
(***************************************************************************)
FieldPart(bytes, tag) == IF bytes = <<>> THEN <<>> ELSE <<[tag |-> tag, value |-> bytes]>>

Extended(t, s, bytes, tag, code, apdu, v0) ==
    /\ t \in Seq(Short(Huge))
    /\ WriteAll(t) = WriteAll(s) \o code
    /\ Taken(apdu, v0, t)
         = IF bytes = <<>> THEN Taken(apdu, v0, s)
           ELSE TakeField(Taken(apdu, v0, s), [tag |-> tag, value |-> bytes], apdu)

LEMMA OneField ==
    ASSUME NEW apdu, NEW S, Takes(apdu, S, Tlvs), NEW v0 \in S, NEW s \in Seq(Short(Huge)),
           NEW value, NEW name, NEW tag \in Byte, value[name] \in Seq(Byte),
           Len(value[name]) < Huge
    PROVE  Extended(s \o FieldPart(value[name], tag), s, value[name], tag,
                    EncodeField(value, Field(tag, name)), apdu, v0)
<1> DEFINE bytes == value[name]
           code == EncodeField(value, Field(tag, name))
           V == Short(Huge)
           x == [tag |-> tag, value |-> bytes]
           h == <<x>>
<1>1. code = IF bytes = <<>> THEN <<>> ELSE Tlv(tag, bytes) BY DEF EncodeField, Field
<1>2. bytes \in Seq(Byte) /\ Len(bytes) < Huge OBVIOUS
<1>3. WriteAll(s) \in Seq(Byte) BY WriteAllType
<1> HIDE DEF bytes, code
<1>4. CASE bytes = <<>>
    <2>1. FieldPart(bytes, tag) = <<>> /\ code = <<>> BY <1>1, <1>4 DEF FieldPart
    <2>2. s \o <<>> = s OBVIOUS
    <2>3. WriteAll(s) \o <<>> = WriteAll(s) BY <1>3
    <2>4. Extended(s, s, bytes, tag, code, apdu, v0)
        BY <1>4, <2>1, <2>3 DEF Extended
    <2> QED BY <2>1, <2>2, <2>4 DEF bytes, code
<1>5. CASE bytes # <<>>
    <2>1. FieldPart(bytes, tag) = h /\ code = Tlv(tag, bytes) BY <1>1, <1>5 DEF FieldPart
    <2>2. x \in V BY <1>2 DEF Short, Tlvs
    <2>3. x \in Tlvs BY <2>2 DEF Short
    <2>4. x.tag = tag /\ x.value = bytes OBVIOUS
    <2>5. s \in Seq(Tlvs)
        <3>1. \A t \in V : t \in Tlvs BY DEF Short
        <3>2. s \in Seq(V) OBVIOUS
        <3> HIDE DEF V
        <3> QED BY <3>1, <3>2
    <2> HIDE DEF V, x
    <2>6. s \in Seq(V) BY DEF V
    <2>7. s \o h = Append(s, x) /\ Append(s, x) \in Seq(V) BY <2>2, <2>6
    <2>8. WriteAll(Append(s, x)) = WriteAll(s) \o Tlv(x.tag, x.value)
        BY <2>2, <2>6, WriteAppend DEF V
    <2>9. Taken(apdu, v0, Append(s, x)) = TakeField(Taken(apdu, v0, s), x, apdu)
        BY <2>3, <2>5, TakenAppend
    <2>10. Extended(Append(s, x), s, bytes, tag, code, apdu, v0)
        <3>1. Append(s, x) \in Seq(Short(Huge)) BY <2>7 DEF V
        <3>2. WriteAll(Append(s, x)) = WriteAll(s) \o code BY <2>1, <2>4, <2>8
        <3>3. Taken(apdu, v0, Append(s, x))
                = TakeField(Taken(apdu, v0, s), [tag |-> tag, value |-> bytes], apdu)
            BY <2>9 DEF x
        <3> QED BY <1>5, <3>1, <3>2, <3>3 DEF Extended
    <2> HIDE DEF h
    <2> QED BY <2>1, <2>7, <2>10 DEF bytes, code
<1> QED BY <1>4, <1>5

(***************************************************************************)
(* What each tag takes.                                                    *)
(***************************************************************************)
AarqValue == [context : Seq(Byte), mechanism : Seq(Byte), auth : Seq(Byte),
              user : Seq(Byte)]

AareValue == [result : {<<b>> : b \in Byte}, context : Seq(Byte),
              mechanism : Seq(Byte), auth : Seq(Byte), user : Seq(Byte)]

TagsAre(S) ==
    /\ Range(S) = {S[1], S[2], S[3], S[4]}

LEMMA FieldRange ==
    TagsAre(AarqFields) /\ TagsAre(AareFields)
<1>1. DOMAIN AarqFields = {1, 2, 3, 4} BY DEF AarqFields
<1>2. DOMAIN AareFields = {1, 2, 3, 4} BY DEF AareFields
<1> QED BY <1>1, <1>2 DEF TagsAre, Range

LEMMA TakeAarq ==
    ASSUME NEW v \in AarqValue, NEW t \in Tlvs
    PROVE  TakeField(v, t, Aarq)
             = [context |-> IF t.tag = 161 THEN t.value ELSE v.context,
                mechanism |-> IF t.tag = 167 THEN t.value ELSE v.mechanism,
                auth |-> IF t.tag = 136 THEN t.value ELSE v.auth,
                user |-> IF t.tag = 190 THEN t.value ELSE v.user]
<1> DEFINE names == {field.name : field \in {f \in Range(Aarq.fields) : f.tag = t.tag}}
           u == [name \in DOMAIN v |->
                    IF name \notin names THEN v[name]
                    ELSE IF name # "result" THEN t.value
                    ELSE IF t.value = <<>> THEN v[name]
                    ELSE <<t.value[1]>>]
<1>1. TakeField(v, t, Aarq) = u BY DEF TakeField
<1>2. Range(Aarq.fields) = {AarqFields[1], AarqFields[2], AarqFields[3], AarqFields[4]}
    BY FieldRange DEF TagsAre, Aarq
<1>3. \A name : name \in names <=> \E i \in {1, 2, 3, 4} :
                    AarqFields[i].tag = t.tag /\ AarqFields[i].name = name
    BY <1>2
<1>4. /\ AarqFields[1].tag = 161 /\ AarqFields[1].name = "context"
      /\ AarqFields[2].tag = 167 /\ AarqFields[2].name = "mechanism"
      /\ AarqFields[3].tag = 136 /\ AarqFields[3].name = "auth"
      /\ AarqFields[4].tag = 190 /\ AarqFields[4].name = "user"
    BY DEF AarqFields, Field
<1> HIDE DEF names
<1>5. /\ "context" \in names <=> t.tag = 161
      /\ "mechanism" \in names <=> t.tag = 167
      /\ "auth" \in names <=> t.tag = 136
      /\ "user" \in names <=> t.tag = 190
    BY <1>3, <1>4
<1>6. DOMAIN v = {"context", "mechanism", "auth", "user"} BY DEF AarqValue
<1>7. u = [context |-> IF t.tag = 161 THEN t.value ELSE v.context,
           mechanism |-> IF t.tag = 167 THEN t.value ELSE v.mechanism,
           auth |-> IF t.tag = 136 THEN t.value ELSE v.auth,
           user |-> IF t.tag = 190 THEN t.value ELSE v.user]
    BY <1>5, <1>6
<1> QED BY <1>1, <1>7

FirstOr(bytes, other) == IF bytes = <<>> THEN other ELSE <<bytes[1]>>

LEMMA TakeAare ==
    ASSUME NEW v \in AareValue, NEW t \in Tlvs
    PROVE  TakeField(v, t, Aare)
             = [result |-> IF t.tag = 130 THEN FirstOr(t.value, v.result) ELSE v.result,
                context |-> IF t.tag = 161 THEN t.value ELSE v.context,
                mechanism |-> v.mechanism,
                auth |-> IF t.tag = 137 THEN t.value ELSE v.auth,
                user |-> IF t.tag = 190 THEN t.value ELSE v.user]
<1> DEFINE names == {field.name : field \in {f \in Range(Aare.fields) : f.tag = t.tag}}
           u == [name \in DOMAIN v |->
                    IF name \notin names THEN v[name]
                    ELSE IF name # "result" THEN t.value
                    ELSE IF t.value = <<>> THEN v[name]
                    ELSE <<t.value[1]>>]
           r == FirstOr(t.value, v.result)
<1>1. TakeField(v, t, Aare) = u BY DEF TakeField
<1>2. Range(Aare.fields) = {AareFields[1], AareFields[2], AareFields[3], AareFields[4]}
    BY FieldRange DEF TagsAre, Aare
<1>3. \A name : name \in names <=> \E i \in {1, 2, 3, 4} :
                    AareFields[i].tag = t.tag /\ AareFields[i].name = name
    BY <1>2
<1>4. /\ AareFields[1].tag = 130 /\ AareFields[1].name = "result"
      /\ AareFields[2].tag = 161 /\ AareFields[2].name = "context"
      /\ AareFields[3].tag = 137 /\ AareFields[3].name = "auth"
      /\ AareFields[4].tag = 190 /\ AareFields[4].name = "user"
    BY DEF AareFields, Field
<1> HIDE DEF names
<1>5. /\ "result" \in names <=> t.tag = 130
      /\ "context" \in names <=> t.tag = 161
      /\ "mechanism" \notin names
      /\ "auth" \in names <=> t.tag = 137
      /\ "user" \in names <=> t.tag = 190
    BY <1>3, <1>4
<1>6. DOMAIN v = {"result", "context", "mechanism", "auth", "user"} BY DEF AareValue
<1>8. u["result"] = IF t.tag = 130 THEN r ELSE v.result BY <1>5, <1>6 DEF FirstOr
<1> HIDE DEF r
<1>7. u = [result |-> IF t.tag = 130 THEN r ELSE v.result,
           context |-> IF t.tag = 161 THEN t.value ELSE v.context,
           mechanism |-> v.mechanism,
           auth |-> IF t.tag = 137 THEN t.value ELSE v.auth,
           user |-> IF t.tag = 190 THEN t.value ELSE v.user]
    <2>1. /\ u["context"] = IF t.tag = 161 THEN t.value ELSE v.context
          /\ u["mechanism"] = v.mechanism
          /\ u["auth"] = IF t.tag = 137 THEN t.value ELSE v.auth
          /\ u["user"] = IF t.tag = 190 THEN t.value ELSE v.user
        BY <1>5, <1>6
    <2>2. u = [name \in DOMAIN v |-> u[name]] OBVIOUS
    <2> HIDE DEF u
    <2> QED BY <1>6, <1>8, <2>1, <2>2
<1> QED BY <1>1, <1>7 DEF r

LEMMA TakesType ==
    Takes(Aarq, AarqValue, Tlvs) /\ Takes(Aare, AareValue, Tlvs)
<1>1. ASSUME NEW v \in AarqValue, NEW t \in Tlvs
      PROVE  TakeField(v, t, Aarq) \in AarqValue
    <2>1. t.value \in Seq(Byte) BY DEF Tlvs
    <2> QED BY <2>1, TakeAarq, SMTT(40) DEF AarqValue
<1>2. ASSUME NEW v \in AareValue, NEW t \in Tlvs
      PROVE  TakeField(v, t, Aare) \in AareValue
    <2>1. t.value \in Seq(Byte) BY DEF Tlvs
    <2>2. FirstOr(t.value, v.result) \in {<<b>> : b \in Byte}
        <3> DEFINE s == t.value
        <3>1. v.result \in {<<b>> : b \in Byte} BY DEF AareValue
        <3>2. s \in Seq(Byte) BY <2>1
        <3> HIDE DEF s
        <3>3. s # <<>> => s[1] \in Byte BY <3>2
        <3> QED BY <3>1, <3>3 DEF FirstOr, s
    <2> DEFINE R == {<<b>> : b \in Byte}
               r == FirstOr(t.value, v.result)
               w == TakeField(v, t, Aare)
    <2>3. AareValue = [result : R, context : Seq(Byte), mechanism : Seq(Byte),
                       auth : Seq(Byte), user : Seq(Byte)]
        BY DEF AareValue
    <2>4. r \in R BY <2>2
    <2>5. w = [result |-> IF t.tag = 130 THEN r ELSE v.result,
               context |-> IF t.tag = 161 THEN t.value ELSE v.context,
               mechanism |-> v.mechanism,
               auth |-> IF t.tag = 137 THEN t.value ELSE v.auth,
               user |-> IF t.tag = 190 THEN t.value ELSE v.user]
        BY TakeAare
    <2> HIDE DEF R, r, w
    <2>6. w \in AareValue BY <2>1, <2>3, <2>4, <2>5
    <2> QED BY <2>6 DEF w
<1> QED BY <1>1, <1>2 DEF Takes

(***************************************************************************)
(* The lengths of what is written, whatever they are.                      *)
(***************************************************************************)
LEMMA ByteSeqIsNat ==
    ASSUME NEW s \in Seq(Byte)
    PROVE  s \in Seq(Nat)
<1> DEFINE n == Len(s)
<1>1. n \in Nat /\ \A i \in 1 .. n : s[i] \in Byte BY LenIs, ElementType
<1>5. \A b \in Byte : b \in Nat BY DEF Byte
<1>2. \A i \in 1 .. n : s[i] \in Nat BY <1>1, <1>5
<1>3. s = [i \in 1 .. n |-> s[i]] OBVIOUS
<1>4. s \in [1 .. n -> Nat] BY <1>2, <1>3
<1> HIDE DEF n
<1> QED BY <1>1, <1>4

LEMMA AnyLength ==
    ASSUME NEW n \in Nat
    PROVE  WriteVariableLength(n) \in Seq(Nat)
<1> DEFINE l == LengthBytes(n)
           h == <<128 + Len(l)>>
<1>1. l \in Seq(Nat)
    <2>1. n \div 65536 \in Nat /\ (n \div 256) % 256 \in Nat /\ n % 256 \in Nat
          /\ n \div 256 \in Nat
        BY SMT
    <2> DEFINE a == n \div 65536
               b == (n \div 256) % 256
               c == n % 256
               d == n \div 256
    <2>2. l = IF n < 256 THEN <<n>> ELSE IF n < 65536 THEN <<d, c>> ELSE <<a, b, c>>
        BY DEF LengthBytes
    <2>3. a \in Nat /\ b \in Nat /\ c \in Nat /\ d \in Nat BY <2>1
    <2> HIDE DEF a, b, c, d, l
    <2>4. <<n>> \in Seq(Nat) /\ <<d, c>> \in Seq(Nat) /\ <<a, b, c>> \in Seq(Nat)
        BY <2>3
    <2>5. l = <<n>> \/ l = <<d, c>> \/ l = <<a, b, c>> BY <2>2
    <2> QED BY <2>4, <2>5
<1>2. h \in Seq(Nat)
    <2>1. Len(l) \in Nat BY <1>1, LenIs
    <2> HIDE DEF l
    <2>2. 128 + Len(l) \in Nat BY <2>1
    <2> QED BY <2>2
<1>3. WriteVariableLength(n) = IF n <= 127 THEN <<n>> ELSE h \o l
    BY DEF WriteVariableLength
<1>4. <<n>> \in Seq(Nat) OBVIOUS
<1> HIDE DEF l, h
<1>5. h \o l \in Seq(Nat) BY <1>1, <1>2, Joined
<1> QED BY <1>3, <1>4, <1>5

LEMMA AnyTlv ==
    ASSUME NEW tag \in Byte, NEW value \in Seq(Nat)
    PROVE  /\ Tlv(tag, value) \in Seq(Nat)
           /\ Len(Tlv(tag, value)) >= Len(value)
<1> DEFINE h == <<tag>>
           w == WriteVariableLength(Len(value))
           hw == h \o w
           c == hw \o value
<1>1. h \in Seq(Nat)
    <2>1. tag \in Nat BY DEF Byte
    <2> QED BY <2>1
<1>2. Len(value) \in Nat BY LenIs
<1>3. w \in Seq(Nat) BY <1>2, AnyLength
<1>4. Tlv(tag, value) = c BY DEF Tlv
<1> HIDE DEF h, w
<1>5. hw \in Seq(Nat) BY <1>1, <1>3, Joined
<1>6. Len(hw) \in Nat BY <1>5, LenIs
<1> HIDE DEF hw
<1>7. c \in Seq(Nat) /\ Len(c) = Len(hw) + Len(value) BY <1>5, Joined
<1> HIDE DEF c
<1> QED BY <1>2, <1>4, <1>6, <1>7

LEMMA AnyField ==
    ASSUME NEW value, NEW name, NEW tag \in Byte, value[name] \in Seq(Byte)
    PROVE  /\ EncodeField(value, Field(tag, name)) \in Seq(Nat)
           /\ Len(EncodeField(value, Field(tag, name))) >= Len(value[name])
<1> DEFINE bytes == value[name]
           code == EncodeField(value, Field(tag, name))
<1>1. code = IF bytes = <<>> THEN <<>> ELSE Tlv(tag, bytes) BY DEF EncodeField, Field
<1>2. bytes \in Seq(Nat) BY ByteSeqIsNat
<1> HIDE DEF bytes, code
<1>3. Tlv(tag, bytes) \in Seq(Nat) /\ Len(Tlv(tag, bytes)) >= Len(bytes) BY <1>2, AnyTlv
<1>4. CASE bytes = <<>>
    <2>1. code = <<>> BY <1>1, <1>4
    <2> QED BY <1>4, <2>1 DEF code, bytes
<1>5. CASE bytes # <<>>
    <2>1. code = Tlv(tag, bytes) BY <1>1, <1>5
    <2> QED BY <1>3, <2>1 DEF code, bytes
<1> QED BY <1>4, <1>5

AtMost(a, b, c, d, n) == Len(a) <= n /\ Len(b) <= n /\ Len(c) <= n /\ Len(d) <= n

LEMMA FourCodes ==
    ASSUME NEW a \in Seq(Nat), NEW b \in Seq(Nat), NEW c \in Seq(Nat), NEW d \in Seq(Nat),
           NEW tag \in Byte
    PROVE  /\ a \o b \o c \o d \in Seq(Nat)
           /\ Len(a \o b \o c \o d) = Len(a) + Len(b) + Len(c) + Len(d)
           /\ AtMost(a, b, c, d, Len(Tlv(tag, a \o b \o c \o d)))
           /\ Len(a \o b \o c \o d) <= Len(Tlv(tag, a \o b \o c \o d))
<1> DEFINE ab == a \o b
           abc == ab \o c
           abcd == abc \o d
           t == Tlv(tag, abcd)
<1>1. ab \in Seq(Nat) /\ Len(ab) = Len(a) + Len(b) BY Joined
<1> HIDE DEF ab
<1>2. abc \in Seq(Nat) /\ Len(abc) = Len(ab) + Len(c) BY <1>1, Joined
<1> HIDE DEF abc
<1>3. abcd \in Seq(Nat) /\ Len(abcd) = Len(abc) + Len(d) BY <1>2, Joined
<1>4. Len(a) \in Nat /\ Len(b) \in Nat /\ Len(c) \in Nat /\ Len(d) \in Nat BY LenIs
<1> HIDE DEF abcd
<1>5. Len(abcd) = Len(a) + Len(b) + Len(c) + Len(d) BY <1>1, <1>2, <1>3
<1>6. t \in Seq(Nat) /\ Len(t) >= Len(abcd) BY <1>3, AnyTlv
<1>7. Len(t) \in Nat BY <1>6, LenIs
<1> HIDE DEF t
<1>8. AtMost(a, b, c, d, Len(t)) /\ Len(abcd) <= Len(t)
    BY <1>4, <1>5, <1>6, <1>7 DEF AtMost
<1> QED BY <1>3, <1>5, <1>8 DEF t, abcd, abc, ab

(***************************************************************************)
(* The four fields of an APDU.                                             *)
(***************************************************************************)
Take1(apdu, v, tag, bytes) ==
    IF bytes = <<>> THEN v ELSE TakeField(v, [tag |-> tag, value |-> bytes], apdu)

Four(s, apdu, v0, value, f, w) ==
    /\ s \in Seq(Short(Huge))
    /\ WriteAll(s) = EncodeField(value, f[1]) \o EncodeField(value, f[2])
                       \o EncodeField(value, f[3]) \o EncodeField(value, f[4])
    /\ Taken(apdu, v0, s) = w

Takes4(apdu, v0, value, f) ==
    LET bytes(i) == value[f[i].name]
    IN  Take1(apdu, Take1(apdu, Take1(apdu, Take1(apdu, v0,
            f[1].tag, bytes(1)), f[2].tag, bytes(2)),
            f[3].tag, bytes(3)), f[4].tag, bytes(4))

FieldIs(g, value) ==
    /\ g = Field(g.tag, g.name) /\ g.tag \in Byte
    /\ value[g.name] \in Seq(Byte) /\ Len(value[g.name]) < Huge

OneTaken(t, s, g, value, apdu, v0) ==
    /\ t \in Seq(Short(Huge))
    /\ WriteAll(t) = WriteAll(s) \o EncodeField(value, g)
    /\ Taken(apdu, v0, t) = Take1(apdu, Taken(apdu, v0, s), g.tag, value[g.name])

LEMMA NextField ==
    ASSUME NEW apdu, NEW S, Takes(apdu, S, Tlvs), NEW v0 \in S, NEW s \in Seq(Short(Huge)),
           NEW value, NEW g, FieldIs(g, value)
    PROVE  OneTaken(s \o FieldPart(value[g.name], g.tag), s, g, value, apdu, v0)
<1> DEFINE name == g.name
           tag == g.tag
           t == s \o FieldPart(value[name], tag)
<1>1. /\ g = Field(tag, name) /\ tag \in Byte
      /\ value[name] \in Seq(Byte) /\ Len(value[name]) < Huge
    BY DEF FieldIs
<1> HIDE DEF name, tag
<1>2. Extended(t, s, value[name], tag, EncodeField(value, Field(tag, name)), apdu, v0)
    BY <1>1, OneField
<1> HIDE DEF t
<1> QED BY <1>1, <1>2 DEF Extended, Take1, OneTaken, t, name, tag

LEMMA FourFields ==
    ASSUME NEW apdu, NEW S, Takes(apdu, S, Tlvs), NEW v0 \in S, NEW value, NEW f,
           FieldIs(f[1], value), FieldIs(f[2], value), FieldIs(f[3], value),
           FieldIs(f[4], value)
    PROVE  \E s : Four(s, apdu, v0, value, f, Takes4(apdu, v0, value, f))
<1> DEFINE nil == <<>>
           part(i) == FieldPart(value[f[i].name], f[i].tag)
           code(i) == EncodeField(value, f[i])
           take(i, v) == Take1(apdu, v, f[i].tag, value[f[i].name])
           s1 == nil \o part(1)
           s2 == s1 \o part(2)
           s3 == s2 \o part(3)
           s4 == s3 \o part(4)
<1>1. nil \in Seq(Short(Huge)) /\ Len(nil) = 0 OBVIOUS
<1>2. WriteAll(nil) = <<>> BY <1>1, WriteAllType
<1>3. Taken(apdu, v0, nil) = v0 BY TakenNone
<1> HIDE DEF nil
<1>4. /\ s1 \in Seq(Short(Huge)) /\ WriteAll(s1) = WriteAll(nil) \o code(1)
      /\ Taken(apdu, v0, s1) = take(1, Taken(apdu, v0, nil))
    <2>1. OneTaken(s1, nil, f[1], value, apdu, v0) BY <1>1, NextField
    <2> HIDE DEF s1
    <2> QED BY <2>1 DEF OneTaken
<1> HIDE DEF s1
<1>5. /\ s2 \in Seq(Short(Huge)) /\ WriteAll(s2) = WriteAll(s1) \o code(2)
      /\ Taken(apdu, v0, s2) = take(2, Taken(apdu, v0, s1))
    <2>1. OneTaken(s2, s1, f[2], value, apdu, v0) BY <1>4, NextField
    <2> HIDE DEF s2
    <2> QED BY <2>1 DEF OneTaken
<1> HIDE DEF s2
<1>6. /\ s3 \in Seq(Short(Huge)) /\ WriteAll(s3) = WriteAll(s2) \o code(3)
      /\ Taken(apdu, v0, s3) = take(3, Taken(apdu, v0, s2))
    <2>1. OneTaken(s3, s2, f[3], value, apdu, v0) BY <1>5, NextField
    <2> HIDE DEF s3
    <2> QED BY <2>1 DEF OneTaken
<1> HIDE DEF s3
<1>7. /\ s4 \in Seq(Short(Huge)) /\ WriteAll(s4) = WriteAll(s3) \o code(4)
      /\ Taken(apdu, v0, s4) = take(4, Taken(apdu, v0, s3))
    <2>1. OneTaken(s4, s3, f[4], value, apdu, v0) BY <1>6, NextField
    <2> HIDE DEF s4
    <2> QED BY <2>1 DEF OneTaken
<1> HIDE DEF s4
<1>8. code(1) \in Seq(Nat)
    <2> DEFINE g == f[1]
    <2>1. /\ g = Field(g.tag, g.name) /\ g.tag \in Byte
          /\ value[g.name] \in Seq(Byte)
        BY DEF FieldIs
    <2> HIDE DEF g
    <2>2. EncodeField(value, Field(g.tag, g.name)) \in Seq(Nat) BY <2>1, AnyField
    <2> QED BY <2>1, <2>2 DEF g
<1>9. <<>> \o code(1) = code(1)
    <2> HIDE DEF code
    <2> QED BY <1>8
<1> HIDE DEF code, take, part
<1>10. WriteAll(s4) = code(1) \o code(2) \o code(3) \o code(4)
    BY <1>2, <1>4, <1>5, <1>6, <1>7, <1>9
<1>11. Taken(apdu, v0, s4) = take(4, take(3, take(2, take(1, v0))))
    BY <1>3, <1>4, <1>5, <1>6, <1>7
<1>12. Four(s4, apdu, v0, value, f, Takes4(apdu, v0, value, f))
    BY <1>7, <1>10, <1>11 DEF Four, Takes4, code, take
<1> QED BY <1>12

(***************************************************************************)
(* An APDU that was written is read: each field as it was, from a blank.   *)
(***************************************************************************)
ApduIs(apdu, S) ==
    /\ apdu.tag \in Byte /\ apdu.blank \in S /\ Takes(apdu, S, Tlvs)

FieldsAre(apdu, value) ==
    /\ FieldIs(apdu.fields[1], value) /\ FieldIs(apdu.fields[2], value)
    /\ FieldIs(apdu.fields[3], value) /\ FieldIs(apdu.fields[4], value)

InnerIs(apdu, value, s) ==
    /\ s \in Seq(Short(Huge))
    /\ EncodeApdu(apdu, value) = Tlv(apdu.tag, WriteAll(s))
    /\ WriteAll(s) \in Seq(Byte)
    /\ Len(WriteAll(s)) <= Len(EncodeApdu(apdu, value))
    /\ Taken(apdu, apdu.blank, s) = Takes4(apdu, apdu.blank, value, apdu.fields)

LEMMA InnerExists ==
    ASSUME NEW apdu, NEW S, ApduIs(apdu, S), NEW value, FieldsAre(apdu, value)
    PROVE  \E s : InnerIs(apdu, value, s)
<1> DEFINE f == apdu.fields
           v0 == apdu.blank
           bytes(i) == EncodeField(value, apdu.fields[i])
           inner == bytes(1) \o bytes(2) \o bytes(3) \o bytes(4)
           tag == apdu.tag
<1>1. tag \in Byte /\ v0 \in S BY DEF ApduIs
<1>2. Takes(apdu, S, Tlvs) BY DEF ApduIs
<1>3. FieldIs(f[1], value) /\ FieldIs(f[2], value) /\ FieldIs(f[3], value)
      /\ FieldIs(f[4], value)
    BY DEF FieldsAre
<1>4. \E s : Four(s, apdu, v0, value, f, Takes4(apdu, v0, value, f))
    <2> HIDE DEF f, v0
    <2> QED BY <1>1, <1>2, <1>3, FourFields
<1>5. PICK s : Four(s, apdu, v0, value, f, Takes4(apdu, v0, value, f)) BY <1>4
<1>6. /\ s \in Seq(Short(Huge)) /\ WriteAll(s) = inner
      /\ Taken(apdu, v0, s) = Takes4(apdu, v0, value, f)
    BY <1>5 DEF Four
<1>7. WriteAll(s) \in Seq(Byte) BY <1>6, WriteAllType
<1>8. EncodeApdu(apdu, value) = Tlv(tag, inner) BY DEF EncodeApdu
<1> HIDE DEF inner, tag, f, v0
<1>9. inner \in Seq(Nat) BY <1>6, <1>7, ByteSeqIsNat
<1>10. Len(Tlv(tag, inner)) >= Len(inner) /\ Tlv(tag, inner) \in Seq(Nat)
    BY <1>1, <1>9, AnyTlv
<1>11. Len(Tlv(tag, inner)) \in Nat /\ Len(inner) \in Nat BY <1>9, <1>10, LenIs
<1>12. Len(inner) <= Len(Tlv(tag, inner)) BY <1>10, <1>11
<1>13. InnerIs(apdu, value, s)
    BY <1>6, <1>7, <1>8, <1>12 DEF InnerIs, tag, f, v0
<1> QED BY <1>13

(***************************************************************************)
(* An APDU of at most four fields is read as its fields' elements were     *)
(* written, in the order of its table, whatever follows it.                *)
(***************************************************************************)
THEOREM ApduIsRead ==
    ASSUME NEW apdu, NEW S, ApduIs(apdu, S), NEW value, FieldsAre(apdu, value),
           Len(EncodeApdu(apdu, value)) < Huge,
           NEW data \in Seq(Byte), Holds(data, 0, EncodeApdu(apdu, value))
    PROVE  /\ EncodeApdu(apdu, value) \in Seq(Byte)
           /\ DecodeApdu(apdu, data)
                = Got(Takes4(apdu, apdu.blank, value, apdu.fields),
                      Len(EncodeApdu(apdu, value)))
<1> DEFINE code == EncodeApdu(apdu, value)
           tag == apdu.tag
<1>1. \E s : InnerIs(apdu, value, s) BY InnerExists
<1>2. PICK s : InnerIs(apdu, value, s) BY <1>1
<1> DEFINE inner == WriteAll(s)
           t == [tag |-> tag, value |-> inner]
           w == Takes4(apdu, apdu.blank, value, apdu.fields)
           outer == ReadTlv(data, 0)
           list == ReadAll(inner)
<1>3. /\ s \in Seq(Short(Huge)) /\ code = Tlv(tag, inner) /\ inner \in Seq(Byte)
      /\ Len(inner) <= Len(code) /\ Taken(apdu, apdu.blank, s) = w
    BY <1>2 DEF InnerIs
<1>4. tag \in Byte BY DEF ApduIs
<1>5. Holds(data, 0, code) /\ Len(code) < Huge OBVIOUS
<1> HIDE DEF code, inner, tag, w
<1>6. Len(inner) \in Nat /\ Huge \in Nat BY <1>3, LenIs DEF Huge
<1>7. Len(code) \in Nat
    <2>1. code \in Seq(Nat) BY <1>3, <1>4, AnyTlv, ByteSeqIsNat
    <2> QED BY <2>1, LenIs
<1>8. Len(inner) < Huge BY <1>3, <1>5, <1>6, <1>7
<1>9. code \in Seq(Byte) BY <1>3, <1>4, <1>8, TlvType
<1>10. outer = Got(t, 0 + Len(code))
    <2>1. 0 \in Nat /\ Holds(data, 0, Tlv(tag, inner)) BY <1>3, <1>5
    <2>2. inner \in Seq(Byte) BY <1>3
    <2>3. ReadTlv(data, 0) = Got([tag |-> tag, value |-> inner], 0 + Len(Tlv(tag, inner)))
        BY <1>4, <1>8, <2>1, <2>2, TlvIsRead
    <2> QED BY <1>3, <2>3
<1>11. outer.ok = TRUE /\ outer.val = t /\ outer.pos = Len(code)
    BY <1>7, <1>10 DEF Got
<1>12. list = Got(s, Len(inner))
    <2>1. s \in Seq(Short(Huge)) BY <1>3
    <2> QED BY <1>8, <2>1, AllAreRead DEF inner
<1>13. list.ok = TRUE /\ list.val = s
    <2> HIDE DEF list
    <2> QED BY <1>12 DEF Got
<1>14. t.tag = tag /\ t.value = inner OBVIOUS
<1>15. DecodeApdu(apdu, data)
        = IF ~outer.ok THEN outer
          ELSE IF outer.val.tag # tag THEN Error("InvalidTag")
          ELSE IF ~ReadAll(outer.val.value).ok THEN ReadAll(outer.val.value)
          ELSE Got(Taken(apdu, apdu.blank, ReadAll(outer.val.value).val), outer.pos)
    BY DEF DecodeApdu, Taken, tag
<1> HIDE DEF outer, t
<1>16. ReadAll(outer.val.value) = list BY <1>11, <1>14
<1> HIDE DEF list
<1>17. DecodeApdu(apdu, data) = Got(w, Len(code))
    BY <1>3, <1>11, <1>13, <1>14, <1>15, <1>16
<1> QED BY <1>9, <1>17 DEF code, w

(***************************************************************************)
(* An APDU that is cut is refused.                                         *)
(***************************************************************************)
THEOREM ApduOnCut ==
    ASSUME NEW apdu, NEW S, ApduIs(apdu, S), NEW value, FieldsAre(apdu, value),
           Len(EncodeApdu(apdu, value)) < Huge,
           NEW part \in Seq(Byte), CutTo(part, EncodeApdu(apdu, value)),
           Len(part) < Len(EncodeApdu(apdu, value))
    PROVE  ~DecodeApdu(apdu, part).ok
<1> DEFINE code == EncodeApdu(apdu, value)
           tag == apdu.tag
           outer == ReadTlv(part, 0)
<1>1. \E s : InnerIs(apdu, value, s) BY InnerExists
<1>2. PICK s : InnerIs(apdu, value, s) BY <1>1
<1> DEFINE inner == WriteAll(s)
<1>3. /\ code = Tlv(tag, inner) /\ inner \in Seq(Byte) /\ Len(inner) <= Len(code)
    BY <1>2 DEF InnerIs
<1>4. tag \in Byte BY DEF ApduIs
<1>5. CutTo(part, code) /\ Len(code) < Huge /\ Len(part) < Len(code) OBVIOUS
<1> HIDE DEF code, inner, tag
<1>6. Len(inner) \in Nat /\ Huge \in Nat BY <1>3, LenIs DEF Huge
<1>7. Len(code) \in Nat
    <2>1. code \in Seq(Nat) BY <1>3, <1>4, AnyTlv, ByteSeqIsNat
    <2> QED BY <2>1, LenIs
<1>8. Len(inner) < Huge BY <1>3, <1>5, <1>6, <1>7
<1>9. code \in Seq(Byte) BY <1>3, <1>4, <1>8, TlvType
<1>10. Holds(code, 0, Tlv(tag, inner))
    <2>1. 0 + Len(code) <= Len(code) BY <1>7
    <2>2. \A i \in 1 .. Len(code) : code[0 + i] = code[i] BY <1>7
    <2> QED BY <1>3, <2>1, <2>2 DEF Holds
<1>11. ReadTlv(code, 0) = Got([tag |-> tag, value |-> inner], 0 + Len(Tlv(tag, inner)))
    <2>1. inner \in Seq(Byte) /\ 0 \in Nat BY <1>3
    <2> QED BY <1>4, <1>8, <1>9, <1>10, <2>1, TlvIsRead
<1>12. ReadTlv(code, 0).pos = Len(code) BY <1>3, <1>7, <1>11 DEF Got
<1>13. 0 \in Nat OBVIOUS
<1>14. TlvWasRead(outer, part, 0) BY <1>13, ReadTlvType
<1>15. outer.ok => ReadTlv(code, 0) = outer BY <1>5, <1>9, <1>13, TlvOnCut
<1> HIDE DEF outer
<1>16. ~outer.ok
    <2>1. SUFFICES ASSUME outer.ok PROVE FALSE
        OBVIOUS
    <2>2. outer.pos <= Len(part) /\ outer.pos = Len(code)
        BY <1>12, <1>14, <1>15, <2>1 DEF TlvWasRead
    <2>3. Len(part) \in Nat BY LenIs
    <2> QED BY <1>5, <1>7, <2>2, <2>3
<1>17. DecodeApdu(apdu, part) = outer BY <1>16 DEF DecodeApdu, outer
<1> QED BY <1>16, <1>17

(***************************************************************************)
(* What is read of any bytes: fields shorter than they are.                *)
(***************************************************************************)
THEOREM ApduType ==
    ASSUME NEW apdu, NEW data \in Seq(Byte), NEW S,
           Len(data) > 0 => apdu.blank \in S, Takes(apdu, S, Short(Len(data)))
    PROVE  /\ DecodeApdu(apdu, data) \in Result(S)
           /\ DecodeApdu(apdu, data).ok => DecodeApdu(apdu, data).pos <= Len(data)
<1> DEFINE outer == ReadTlv(data, 0)
           bytes == outer.val.value
           list == ReadAll(bytes)
           r == DecodeApdu(apdu, data)
           n == Len(data)
           w == Taken(apdu, apdu.blank, list.val)
<1>1. r = IF ~outer.ok THEN outer
          ELSE IF outer.val.tag # apdu.tag THEN Error("InvalidTag")
          ELSE IF ~list.ok THEN list
          ELSE Got(w, outer.pos)
    BY DEF DecodeApdu, Taken
<1>2. 0 \in Nat /\ n \in Nat BY LenIs
<1>3. TlvWasRead(outer, data, 0) BY <1>2, ReadTlvType
<1> HIDE DEF r, outer, w
<1>4. outer \in Result(Tlvs) BY <1>3 DEF TlvWasRead
<1>5. outer.ok \in BOOLEAN BY <1>4, ResultIs
<1>6. CASE ~outer.ok
    <2>1. r = outer /\ r \in Result(S) BY <1>1, <1>4, <1>6, ResultIs
    <2> QED BY <1>6, <2>1 DEF r
<1>7. CASE outer.ok /\ outer.val.tag # apdu.tag
    <2>1. r = Error("InvalidTag") BY <1>1, <1>7
    <2>2. "InvalidTag" \in Failures BY DEF Failures
    <2> QED BY <2>1, <2>2, ErrorIs, ErrorType DEF r
<1>8. CASE outer.ok /\ ~ (outer.val.tag # apdu.tag)
    <2>1. outer.val \in Tlvs /\ outer.pos \in Nat BY <1>4, <1>8, ResultIs
    <2>2. bytes \in Seq(Byte) BY <2>1 DEF Tlvs
    <2>3. outer.pos <= n /\ Len(bytes) < n BY <1>3, <1>8 DEF TlvWasRead
    <2>4. Len(bytes) \in Nat BY <2>2, LenIs
    <2>5. ListWasRead(list, bytes) BY <2>2, ReadAllType
    <2> HIDE DEF list
    <2>6. list \in Result(Seq(Short(Len(bytes)))) BY <2>5 DEF ListWasRead
    <2>7. list.ok \in BOOLEAN BY <2>6, ResultIs
    <2>8. CASE ~list.ok
        <3>1. r = list /\ list \in Result(S) BY <1>1, <1>8, <2>6, <2>8, ResultIs
        <3> QED BY <2>8, <3>1 DEF r
    <2>9. CASE list.ok
        <3> DEFINE s == list.val
                   m == Len(bytes)
        <3>1. s \in Seq(Short(m)) BY <2>6, <2>9, ResultIs
        <3>2. \A t \in Short(m) : t \in Short(n)
            <4>1. ASSUME NEW t \in Short(m) PROVE t \in Short(n)
                <5>1. t \in Tlvs /\ Len(t.value) < m BY DEF Short
                <5>2. Len(t.value) \in Nat BY <5>1, LenIs DEF Tlvs
                <5> HIDE DEF m, n
                <5>3. Len(t.value) < n
                    <6>1. m < n /\ m \in Nat /\ n \in Nat BY <1>2, <2>3, <2>4 DEF m
                    <6> QED BY <5>1, <5>2, <6>1
                <5> QED BY <5>1, <5>3 DEF Short
            <4> QED BY <4>1
        <3>3. s \in Seq(Short(n))
            <4> DEFINE A == Short(m)
                       B == Short(n)
            <4>1. s \in Seq(A) BY <3>1
            <4>2. \A t \in A : t \in B BY <3>2
            <4> HIDE DEF A, B, s
            <4>3. s \in Seq(B) BY <4>1, <4>2
            <4> QED BY <4>3 DEF B
        <3>4. apdu.blank \in S BY <1>2, <2>3, <2>4
        <3> HIDE DEF s, n
        <3>5. Taken(apdu, apdu.blank, s) \in S BY <3>3, <3>4, TakenType DEF n
        <3>6. w \in S BY <3>5 DEF w, s
        <3>7. r = Got(w, outer.pos) BY <1>1, <1>8, <2>9
        <3>8. r \in Result(S) BY <2>1, <3>6, <3>7, GotType
        <3>9. r.pos = outer.pos BY <3>7 DEF Got
        <3> QED BY <2>3, <3>8, <3>9 DEF r, n
    <2> QED BY <2>7, <2>8, <2>9
<1> QED BY <1>5, <1>6, <1>7, <1>8

(***************************************************************************)
(* AARQ and AARE.                                                          *)
(***************************************************************************)
LEMMA AarqFieldsAre ==
    /\ Aarq.tag = 96 /\ Aarq.fields = AarqFields
    /\ AarqFields[1] = Field(161, "context") /\ AarqFields[2] = Field(167, "mechanism")
    /\ AarqFields[3] = Field(136, "auth") /\ AarqFields[4] = Field(190, "user")
    /\ Aarq.blank = [context |-> <<>>, mechanism |-> <<>>, auth |-> <<>>, user |-> <<>>]
BY DEF Aarq, AarqFields

LEMMA AareFieldsAre ==
    /\ Aare.tag = 97 /\ Aare.fields = AareFields
    /\ AareFields[1] = Field(130, "result") /\ AareFields[2] = Field(161, "context")
    /\ AareFields[3] = Field(137, "auth") /\ AareFields[4] = Field(190, "user")
    /\ Aare.blank = [result |-> <<0>>, context |-> <<>>, mechanism |-> <<>>,
                     auth |-> <<>>, user |-> <<>>]
BY DEF Aare, AareFields

LEMMA FieldNames ==
    ASSUME NEW tag, NEW name
    PROVE  Field(tag, name).tag = tag /\ Field(tag, name).name = name
BY DEF Field

LEMMA TagsAreBytes ==
    /\ 96 \in Byte /\ 97 \in Byte /\ 130 \in Byte /\ 136 \in Byte /\ 137 \in Byte
    /\ 161 \in Byte /\ 167 \in Byte /\ 190 \in Byte
BY SMT DEF Byte

NoBytes == <<>>

LEMMA NoBytesIs ==
    NoBytes = <<>> /\ NoBytes \in Seq(Byte) /\ Len(NoBytes) = 0
BY DEF NoBytes

Results == {<<b>> : b \in Byte}

LEMMA ResultsAre ==
    /\ <<0>> \in Results
    /\ \A r \in Results : r \in Seq(Byte) /\ Len(r) = 1 /\ r # <<>> /\ r = <<r[1]>>
<1>1. 0 \in Byte BY DEF Byte
<1>2. <<0>> \in Results BY <1>1 DEF Results
<1>3. ASSUME NEW r \in Results
      PROVE  r \in Seq(Byte) /\ Len(r) = 1 /\ r # <<>> /\ r = <<r[1]>>
    <2>1. PICK b \in Byte : r = <<b>> BY DEF Results
    <2> QED BY <2>1
<1> QED BY <1>2, <1>3

(***************************************************************************)
(* Fields of less than m bytes.                                            *)
(***************************************************************************)
AarqBrief(m) ==
    {v \in AarqValue : /\ Len(v.context) < m /\ Len(v.mechanism) < m
                       /\ Len(v.auth) < m /\ Len(v.user) < m}

AareBrief(m) ==
    {v \in AareValue : /\ Len(v.context) < m /\ v.mechanism = <<>>
                       /\ Len(v.auth) < m /\ Len(v.user) < m}

LEMMA AarqTakes ==
    ASSUME NEW m \in Nat
    PROVE  /\ Takes(Aarq, AarqBrief(m), Short(m))
           /\ m > 0 => Aarq.blank \in AarqBrief(m)
<1>1. ASSUME NEW v \in AarqBrief(m), NEW t \in Short(m)
      PROVE  TakeField(v, t, Aarq) \in AarqBrief(m)
    <2> DEFINE w == TakeField(v, t, Aarq)
    <2>1. v \in AarqValue /\ t \in Tlvs BY DEF AarqBrief, Short
    <2>2. w = [context |-> IF t.tag = 161 THEN t.value ELSE v.context,
               mechanism |-> IF t.tag = 167 THEN t.value ELSE v.mechanism,
               auth |-> IF t.tag = 136 THEN t.value ELSE v.auth,
               user |-> IF t.tag = 190 THEN t.value ELSE v.user]
        BY <2>1, TakeAarq
    <2>3. w \in AarqValue BY <2>1, TakesType DEF Takes
    <2>4. Len(t.value) < m BY DEF Short
    <2>5. /\ Len(v.context) < m /\ Len(v.mechanism) < m
          /\ Len(v.auth) < m /\ Len(v.user) < m
        BY DEF AarqBrief
    <2> HIDE DEF w
    <2>6. /\ Len(w.context) < m /\ Len(w.mechanism) < m
          /\ Len(w.auth) < m /\ Len(w.user) < m
        BY <2>2, <2>4, <2>5
    <2>7. w \in AarqBrief(m) BY <2>3, <2>6 DEF AarqBrief
    <2> QED BY <2>7 DEF w
<1>2. ASSUME m > 0 PROVE Aarq.blank \in AarqBrief(m)
    <2> DEFINE b == [context |-> NoBytes, mechanism |-> NoBytes, auth |-> NoBytes,
                     user |-> NoBytes]
    <2>1. Aarq.blank = b BY AarqFieldsAre, NoBytesIs
    <2>2. b \in AarqValue BY NoBytesIs DEF AarqValue
    <2>3. b \in AarqBrief(m) BY <1>2, <2>2, NoBytesIs DEF AarqBrief
    <2> QED BY <2>1, <2>3
<1> QED BY <1>1, <1>2 DEF Takes

LEMMA AareTakes ==
    ASSUME NEW m \in Nat
    PROVE  /\ Takes(Aare, AareBrief(m), Short(m))
           /\ m > 0 => Aare.blank \in AareBrief(m)
<1>1. ASSUME NEW v \in AareBrief(m), NEW t \in Short(m)
      PROVE  TakeField(v, t, Aare) \in AareBrief(m)
    <2> DEFINE w == TakeField(v, t, Aare)
               r == FirstOr(t.value, v.result)
    <2>1. v \in AareValue /\ t \in Tlvs BY DEF AareBrief, Short
    <2>2. w = [result |-> IF t.tag = 130 THEN r ELSE v.result,
               context |-> IF t.tag = 161 THEN t.value ELSE v.context,
               mechanism |-> v.mechanism,
               auth |-> IF t.tag = 137 THEN t.value ELSE v.auth,
               user |-> IF t.tag = 190 THEN t.value ELSE v.user]
        BY <2>1, TakeAare
    <2>3. w \in AareValue BY <2>1, TakesType DEF Takes
    <2>4. Len(t.value) < m BY DEF Short
    <2>5. /\ Len(v.context) < m /\ v.mechanism = <<>>
          /\ Len(v.auth) < m /\ Len(v.user) < m
        BY DEF AareBrief
    <2> HIDE DEF w, r
    <2>6. /\ Len(w.context) < m /\ w.mechanism = <<>>
          /\ Len(w.auth) < m /\ Len(w.user) < m
        BY <2>2, <2>4, <2>5
    <2>7. w \in AareBrief(m) BY <2>3, <2>6 DEF AareBrief
    <2> QED BY <2>7 DEF w
<1>2. ASSUME m > 0 PROVE Aare.blank \in AareBrief(m)
    <2> DEFINE zero == <<0>>
               b == [result |-> zero, context |-> NoBytes, mechanism |-> NoBytes,
                     auth |-> NoBytes, user |-> NoBytes]
    <2>1. Aare.blank = b BY AareFieldsAre, NoBytesIs
    <2>2. zero \in Results BY ResultsAre
    <2> HIDE DEF zero
    <2>3. b \in AareValue BY <2>2, NoBytesIs DEF AareValue, Results
    <2>4. b \in AareBrief(m) BY <1>2, <2>3, NoBytesIs DEF AareBrief
    <2> QED BY <2>1, <2>4
<1> QED BY <1>1, <1>2 DEF Takes

LEMMA BothApdus ==
    ApduIs(Aarq, AarqValue) /\ ApduIs(Aare, AareValue)
<1>1. 1 \in Nat /\ 1 > 0 OBVIOUS
<1>2. Aarq.blank \in AarqValue /\ Aare.blank \in AareValue
    BY <1>1, AarqTakes, AareTakes DEF AarqBrief, AareBrief
<1> QED BY <1>2, AarqFieldsAre, AareFieldsAre, TakesType, TagsAreBytes DEF ApduIs

LEMMA HugeIs ==
    /\ Huge \in Nat /\ 1 < Huge /\ Huge \div 8 \in Nat /\ Huge \div 8 < Huge
    /\ 4 * ((Huge \div 8) + 5) + 5 < Huge
BY SMT DEF Huge

LEMMA AarqFieldsOf ==
    ASSUME NEW v \in AarqBrief(Huge)
    PROVE  FieldsAre(Aarq, v)
<1>1. v \in AarqValue BY DEF AarqBrief
<1>2. FieldIs(Aarq.fields[1], v)
    <2> DEFINE g == Aarq.fields[1]
    <2>1. g = Field(161, "context") /\ 161 \in Byte BY AarqFieldsAre, TagsAreBytes
    <2>2. g.tag = 161 /\ g.name = "context" BY <2>1, FieldNames
    <2>3. v["context"] \in Seq(Byte) /\ Len(v["context"]) < Huge
        BY <1>1 DEF AarqValue, AarqBrief
    <2> HIDE DEF g
    <2>4. FieldIs(g, v) BY <2>1, <2>2, <2>3 DEF FieldIs
    <2> QED BY <2>4 DEF g
<1>3. FieldIs(Aarq.fields[2], v)
    <2> DEFINE g == Aarq.fields[2]
    <2>1. g = Field(167, "mechanism") /\ 167 \in Byte BY AarqFieldsAre, TagsAreBytes
    <2>2. g.tag = 167 /\ g.name = "mechanism" BY <2>1, FieldNames
    <2>3. v["mechanism"] \in Seq(Byte) /\ Len(v["mechanism"]) < Huge
        BY <1>1 DEF AarqValue, AarqBrief
    <2> HIDE DEF g
    <2>4. FieldIs(g, v) BY <2>1, <2>2, <2>3 DEF FieldIs
    <2> QED BY <2>4 DEF g
<1>4. FieldIs(Aarq.fields[3], v)
    <2> DEFINE g == Aarq.fields[3]
    <2>1. g = Field(136, "auth") /\ 136 \in Byte BY AarqFieldsAre, TagsAreBytes
    <2>2. g.tag = 136 /\ g.name = "auth" BY <2>1, FieldNames
    <2>3. v["auth"] \in Seq(Byte) /\ Len(v["auth"]) < Huge
        BY <1>1 DEF AarqValue, AarqBrief
    <2> HIDE DEF g
    <2>4. FieldIs(g, v) BY <2>1, <2>2, <2>3 DEF FieldIs
    <2> QED BY <2>4 DEF g
<1>5. FieldIs(Aarq.fields[4], v)
    <2> DEFINE g == Aarq.fields[4]
    <2>1. g = Field(190, "user") /\ 190 \in Byte BY AarqFieldsAre, TagsAreBytes
    <2>2. g.tag = 190 /\ g.name = "user" BY <2>1, FieldNames
    <2>3. v["user"] \in Seq(Byte) /\ Len(v["user"]) < Huge
        BY <1>1 DEF AarqValue, AarqBrief
    <2> HIDE DEF g
    <2>4. FieldIs(g, v) BY <2>1, <2>2, <2>3 DEF FieldIs
    <2> QED BY <2>4 DEF g
<1> QED BY <1>2, <1>3, <1>4, <1>5 DEF FieldsAre

AareBytes(m) ==
    {v \in AareValue : Len(v.context) < m /\ Len(v.auth) < m /\ Len(v.user) < m}

LEMMA AareFieldsOf ==
    ASSUME NEW v \in AareBytes(Huge)
    PROVE  FieldsAre(Aare, v)
<1>1. v \in AareValue BY DEF AareBytes
<1>2. FieldIs(Aare.fields[1], v)
    <2> DEFINE g == Aare.fields[1]
    <2>1. g = Field(130, "result") /\ 130 \in Byte BY AareFieldsAre, TagsAreBytes
    <2>2. g.tag = 130 /\ g.name = "result" BY <2>1, FieldNames
    <2>3. v["result"] \in Seq(Byte) /\ Len(v["result"]) < Huge
        <3>1. v.result \in Results BY <1>1 DEF AareValue, Results
        <3>2. v.result \in Seq(Byte) /\ Len(v.result) = 1 BY <3>1, ResultsAre
        <3> QED BY <3>2, HugeIs
    <2> HIDE DEF g
    <2>4. FieldIs(g, v) BY <2>1, <2>2, <2>3 DEF FieldIs
    <2> QED BY <2>4 DEF g
<1>3. FieldIs(Aare.fields[2], v)
    <2> DEFINE g == Aare.fields[2]
    <2>1. g = Field(161, "context") /\ 161 \in Byte BY AareFieldsAre, TagsAreBytes
    <2>2. g.tag = 161 /\ g.name = "context" BY <2>1, FieldNames
    <2>3. v["context"] \in Seq(Byte) /\ Len(v["context"]) < Huge
        BY <1>1 DEF AareValue, AareBytes
    <2> HIDE DEF g
    <2>4. FieldIs(g, v) BY <2>1, <2>2, <2>3 DEF FieldIs
    <2> QED BY <2>4 DEF g
<1>4. FieldIs(Aare.fields[3], v)
    <2> DEFINE g == Aare.fields[3]
    <2>1. g = Field(137, "auth") /\ 137 \in Byte BY AareFieldsAre, TagsAreBytes
    <2>2. g.tag = 137 /\ g.name = "auth" BY <2>1, FieldNames
    <2>3. v["auth"] \in Seq(Byte) /\ Len(v["auth"]) < Huge
        BY <1>1 DEF AareValue, AareBytes
    <2> HIDE DEF g
    <2>4. FieldIs(g, v) BY <2>1, <2>2, <2>3 DEF FieldIs
    <2> QED BY <2>4 DEF g
<1>5. FieldIs(Aare.fields[4], v)
    <2> DEFINE g == Aare.fields[4]
    <2>1. g = Field(190, "user") /\ 190 \in Byte BY AareFieldsAre, TagsAreBytes
    <2>2. g.tag = 190 /\ g.name = "user" BY <2>1, FieldNames
    <2>3. v["user"] \in Seq(Byte) /\ Len(v["user"]) < Huge
        BY <1>1 DEF AareValue, AareBytes
    <2> HIDE DEF g
    <2>4. FieldIs(g, v) BY <2>1, <2>2, <2>3 DEF FieldIs
    <2> QED BY <2>4 DEF g
<1> QED BY <1>2, <1>3, <1>4, <1>5 DEF FieldsAre

LEMMA AarqTaken ==
    ASSUME NEW v \in AarqValue
    PROVE  Takes4(Aarq, Aarq.blank, v, Aarq.fields) = v
<1> DEFINE e == NoBytes
           W(a, b, c, d) == [context |-> a, mechanism |-> b, auth |-> c, user |-> d]
           v0 == W(e, e, e, e)
           v1 == W(v.context, e, e, e)
           v2 == W(v.context, v.mechanism, e, e)
           v3 == W(v.context, v.mechanism, v.auth, e)
           v4 == W(v.context, v.mechanism, v.auth, v.user)
           take(w, tag, bytes) == Take1(Aarq, w, tag, bytes)
<1>1. e = <<>> /\ e \in Seq(Byte) BY NoBytesIs
<1>2. /\ v.context \in Seq(Byte) /\ v.mechanism \in Seq(Byte) /\ v.auth \in Seq(Byte)
      /\ v.user \in Seq(Byte)
    BY DEF AarqValue
<1>3. v4 = v BY DEF AarqValue
<1>4. Aarq.blank = v0 BY <1>1, AarqFieldsAre
<1> HIDE DEF e
<1>5. v0 \in AarqValue /\ v1 \in AarqValue /\ v2 \in AarqValue /\ v3 \in AarqValue
    BY <1>1, <1>2 DEF AarqValue
<1>6. ASSUME NEW w \in AarqValue, NEW tag \in Byte, NEW bytes \in Seq(Byte), bytes # <<>>
      PROVE  take(w, tag, bytes)
               = W(IF tag = 161 THEN bytes ELSE w.context,
                   IF tag = 167 THEN bytes ELSE w.mechanism,
                   IF tag = 136 THEN bytes ELSE w.auth,
                   IF tag = 190 THEN bytes ELSE w.user)
    <2> DEFINE t == [tag |-> tag, value |-> bytes]
    <2>1. t \in Tlvs /\ t.tag = tag /\ t.value = bytes BY DEF Tlvs
    <2> HIDE DEF t
    <2>2. TakeField(w, t, Aarq)
            = W(IF t.tag = 161 THEN t.value ELSE w.context,
                IF t.tag = 167 THEN t.value ELSE w.mechanism,
                IF t.tag = 136 THEN t.value ELSE w.auth,
                IF t.tag = 190 THEN t.value ELSE w.user)
        BY <2>1, TakeAarq
    <2>3. take(w, tag, bytes) = TakeField(w, t, Aarq) BY <1>6 DEF Take1, t
    <2> QED BY <2>1, <2>2, <2>3
<1>7. \A w, tag, bytes : bytes = <<>> => take(w, tag, bytes) = w BY DEF Take1
<1>8. take(v0, 161, v.context) = v1
    <2> DEFINE x == v.context
    <2>1. x \in Seq(Byte) /\ 161 \in Byte BY <1>2, TagsAreBytes
    <2> HIDE DEF x, take
    <2>2. CASE x = <<>>
        <3>1. take(v0, 161, x) = v0 BY <1>7, <2>2
        <3>2. v0 = v1 BY <1>1, <2>2 DEF x
        <3> QED BY <3>1, <3>2 DEF x
    <2>3. CASE x # <<>>
        <3>1. take(v0, 161, x)
                = W(IF 161 = 161 THEN x ELSE v0.context,
                    IF 161 = 167 THEN x ELSE v0.mechanism,
                    IF 161 = 136 THEN x ELSE v0.auth,
                    IF 161 = 190 THEN x ELSE v0.user)
            BY <1>5, <1>6, <2>1, <2>3
        <3> QED BY <3>1 DEF x
    <2> QED BY <2>2, <2>3
<1>9. take(v1, 167, v.mechanism) = v2
    <2> DEFINE x == v.mechanism
    <2>1. x \in Seq(Byte) /\ 167 \in Byte BY <1>2, TagsAreBytes
    <2> HIDE DEF x, take
    <2>2. CASE x = <<>>
        <3>1. take(v1, 167, x) = v1 BY <1>7, <2>2
        <3>2. v1 = v2 BY <1>1, <2>2 DEF x
        <3> QED BY <3>1, <3>2 DEF x
    <2>3. CASE x # <<>>
        <3>1. take(v1, 167, x)
                = W(IF 167 = 161 THEN x ELSE v1.context,
                    IF 167 = 167 THEN x ELSE v1.mechanism,
                    IF 167 = 136 THEN x ELSE v1.auth,
                    IF 167 = 190 THEN x ELSE v1.user)
            BY <1>5, <1>6, <2>1, <2>3
        <3> QED BY <3>1 DEF x
    <2> QED BY <2>2, <2>3
<1>10. take(v2, 136, v.auth) = v3
    <2> DEFINE x == v.auth
    <2>1. x \in Seq(Byte) /\ 136 \in Byte BY <1>2, TagsAreBytes
    <2> HIDE DEF x, take
    <2>2. CASE x = <<>>
        <3>1. take(v2, 136, x) = v2 BY <1>7, <2>2
        <3>2. v2 = v3 BY <1>1, <2>2 DEF x
        <3> QED BY <3>1, <3>2 DEF x
    <2>3. CASE x # <<>>
        <3>1. take(v2, 136, x)
                = W(IF 136 = 161 THEN x ELSE v2.context,
                    IF 136 = 167 THEN x ELSE v2.mechanism,
                    IF 136 = 136 THEN x ELSE v2.auth,
                    IF 136 = 190 THEN x ELSE v2.user)
            BY <1>5, <1>6, <2>1, <2>3
        <3> QED BY <3>1 DEF x
    <2> QED BY <2>2, <2>3
<1>11. take(v3, 190, v.user) = v4
    <2> DEFINE x == v.user
    <2>1. x \in Seq(Byte) /\ 190 \in Byte BY <1>2, TagsAreBytes
    <2> HIDE DEF x, take
    <2>2. CASE x = <<>>
        <3>1. take(v3, 190, x) = v3 BY <1>7, <2>2
        <3>2. v3 = v4 BY <1>1, <2>2 DEF x
        <3> QED BY <3>1, <3>2 DEF x
    <2>3. CASE x # <<>>
        <3>1. take(v3, 190, x)
                = W(IF 190 = 161 THEN x ELSE v3.context,
                    IF 190 = 167 THEN x ELSE v3.mechanism,
                    IF 190 = 136 THEN x ELSE v3.auth,
                    IF 190 = 190 THEN x ELSE v3.user)
            BY <1>5, <1>6, <2>1, <2>3
        <3> QED BY <3>1 DEF x
    <2> QED BY <2>2, <2>3
<1>12. Takes4(Aarq, v0, v, Aarq.fields)
        = take(take(take(take(v0, 161, v["context"]), 167, v["mechanism"]),
                    136, v["auth"]), 190, v["user"])
    BY AarqFieldsAre, FieldNames DEF Takes4
<1> HIDE DEF v0, v1, v2, v3, v4, take, W
<1>13. Takes4(Aarq, v0, v, Aarq.fields) = v4 BY <1>8, <1>9, <1>10, <1>11, <1>12
<1> QED BY <1>3, <1>4, <1>13

LEMMA AareTaken ==
    ASSUME NEW v \in AareValue
    PROVE  Takes4(Aare, Aare.blank, v, Aare.fields) = [v EXCEPT !.mechanism = <<>>]
<1> DEFINE e == NoBytes
           zero == <<0>>
           W(r, a, c, d) == [result |-> r, context |-> a, mechanism |-> e, auth |-> c,
                             user |-> d]
           v0 == W(zero, e, e, e)
           v1 == W(v.result, e, e, e)
           v2 == W(v.result, v.context, e, e)
           v3 == W(v.result, v.context, v.auth, e)
           v4 == W(v.result, v.context, v.auth, v.user)
           take(w, tag, bytes) == Take1(Aare, w, tag, bytes)
<1>1. e = <<>> /\ e \in Seq(Byte) BY NoBytesIs
<1>2. /\ v.context \in Seq(Byte) /\ v.auth \in Seq(Byte)
      /\ v.user \in Seq(Byte) /\ v.result \in Results
    BY DEF AareValue, Results
<1>3. v4 = [v EXCEPT !.mechanism = <<>>]
    <2> DEFINE R == Results
    <2>1. v \in [result : R, context : Seq(Byte), mechanism : Seq(Byte),
                 auth : Seq(Byte), user : Seq(Byte)]
        BY DEF AareValue, Results
    <2> HIDE DEF R, e
    <2> QED BY <1>1, <2>1
<1>4. Aare.blank = v0 BY <1>1, AareFieldsAre
<1>14. zero \in Results BY ResultsAre
<1>15. v.result \in Seq(Byte) /\ v.result # <<>> /\ v.result = <<v.result[1]>>
    BY <1>2, ResultsAre
<1> HIDE DEF e, zero
<1>5. v0 \in AareValue /\ v1 \in AareValue /\ v2 \in AareValue /\ v3 \in AareValue
    <2> DEFINE R == Results
    <2>1. AareValue = [result : R, context : Seq(Byte), mechanism : Seq(Byte),
                       auth : Seq(Byte), user : Seq(Byte)]
        BY DEF AareValue, Results
    <2>2. zero \in R /\ v.result \in R BY <1>2, <1>14
    <2> HIDE DEF R
    <2> QED BY <1>1, <1>2, <2>1, <2>2
<1>6. ASSUME NEW w \in AareValue, w.mechanism = e, NEW tag \in Byte,
             NEW bytes \in Seq(Byte), bytes # <<>>
      PROVE  take(w, tag, bytes)
               = W(IF tag = 130 THEN <<bytes[1]>> ELSE w.result,
                   IF tag = 161 THEN bytes ELSE w.context,
                   IF tag = 137 THEN bytes ELSE w.auth,
                   IF tag = 190 THEN bytes ELSE w.user)
    <2> DEFINE t == [tag |-> tag, value |-> bytes]
               r == <<bytes[1]>>
               q == FirstOr(t.value, w.result)
               u == TakeField(w, t, Aare)
    <2>1. t \in Tlvs /\ t.tag = tag /\ t.value = bytes BY DEF Tlvs
    <2>4. q = r BY <1>6 DEF FirstOr
    <2> HIDE DEF t, r
    <2>2. u = [result |-> IF t.tag = 130 THEN q ELSE w.result,
               context |-> IF t.tag = 161 THEN t.value ELSE w.context,
               mechanism |-> w.mechanism,
               auth |-> IF t.tag = 137 THEN t.value ELSE w.auth,
               user |-> IF t.tag = 190 THEN t.value ELSE w.user]
        BY <2>1, TakeAare
    <2>3. take(w, tag, bytes) = u BY <1>6 DEF Take1, t
    <2> HIDE DEF q, u, take
    <2>5. take(w, tag, bytes)
            = W(IF tag = 130 THEN r ELSE w.result,
                IF tag = 161 THEN bytes ELSE w.context,
                IF tag = 137 THEN bytes ELSE w.auth,
                IF tag = 190 THEN bytes ELSE w.user)
        BY <1>6, <2>1, <2>2, <2>3, <2>4
    <2> QED BY <2>5 DEF r
<1>7. \A w, tag, bytes : bytes = <<>> => take(w, tag, bytes) = w BY DEF Take1
<1>8. take(v0, 130, v.result) = v1
    <2> DEFINE x == v.result
               r == <<x[1]>>
    <2>1. x \in Seq(Byte) /\ 130 \in Byte BY <1>2, <1>15, TagsAreBytes
    <2>4. v0.mechanism = e OBVIOUS
    <2>5. x # <<>> /\ r = x BY <1>15
    <2> HIDE DEF x, take, r
    <2>3. CASE x # <<>>
        <3>1. take(v0, 130, x)
                = W(IF 130 = 130 THEN r ELSE v0.result,
                    IF 130 = 161 THEN x ELSE v0.context,
                    IF 130 = 137 THEN x ELSE v0.auth,
                    IF 130 = 190 THEN x ELSE v0.user)
            BY <1>5, <1>6, <2>1, <2>3, <2>4, SMTT(40) DEF r
        <3> QED BY <3>1, <2>5 DEF x
    <2> QED BY <2>5, <2>3
<1>9. take(v1, 161, v.context) = v2
    <2> DEFINE x == v.context
               r == <<x[1]>>
    <2>1. x \in Seq(Byte) /\ 161 \in Byte BY <1>2, <1>15, TagsAreBytes
    <2>4. v1.mechanism = e OBVIOUS
    <2> HIDE DEF x, take, r
    <2>2. CASE x = <<>>
        <3>1. take(v1, 161, x) = v1 BY <1>7, <2>2
        <3>2. v1 = v2 BY <1>1, <2>2 DEF x
        <3> QED BY <3>1, <3>2 DEF x
    <2>3. CASE x # <<>>
        <3>1. take(v1, 161, x)
                = W(IF 161 = 130 THEN r ELSE v1.result,
                    IF 161 = 161 THEN x ELSE v1.context,
                    IF 161 = 137 THEN x ELSE v1.auth,
                    IF 161 = 190 THEN x ELSE v1.user)
            BY <1>5, <1>6, <2>1, <2>3, <2>4, SMTT(40) DEF r
        <3> QED BY <3>1 DEF x
    <2> QED BY <2>2, <2>3
<1>10. take(v2, 137, v.auth) = v3
    <2> DEFINE x == v.auth
               r == <<x[1]>>
    <2>1. x \in Seq(Byte) /\ 137 \in Byte BY <1>2, <1>15, TagsAreBytes
    <2>4. v2.mechanism = e OBVIOUS
    <2> HIDE DEF x, take, r
    <2>2. CASE x = <<>>
        <3>1. take(v2, 137, x) = v2 BY <1>7, <2>2
        <3>2. v2 = v3 BY <1>1, <2>2 DEF x
        <3> QED BY <3>1, <3>2 DEF x
    <2>3. CASE x # <<>>
        <3>1. take(v2, 137, x)
                = W(IF 137 = 130 THEN r ELSE v2.result,
                    IF 137 = 161 THEN x ELSE v2.context,
                    IF 137 = 137 THEN x ELSE v2.auth,
                    IF 137 = 190 THEN x ELSE v2.user)
            BY <1>5, <1>6, <2>1, <2>3, <2>4 DEF r
        <3> QED BY <3>1 DEF x
    <2> QED BY <2>2, <2>3
<1>11. take(v3, 190, v.user) = v4
    <2> DEFINE x == v.user
               r == <<x[1]>>
    <2>1. x \in Seq(Byte) /\ 190 \in Byte BY <1>2, <1>15, TagsAreBytes
    <2>4. v3.mechanism = e OBVIOUS
    <2> HIDE DEF x, take, r
    <2>2. CASE x = <<>>
        <3>1. take(v3, 190, x) = v3 BY <1>7, <2>2
        <3>2. v3 = v4 BY <1>1, <2>2 DEF x
        <3> QED BY <3>1, <3>2 DEF x
    <2>3. CASE x # <<>>
        <3>1. take(v3, 190, x)
                = W(IF 190 = 130 THEN r ELSE v3.result,
                    IF 190 = 161 THEN x ELSE v3.context,
                    IF 190 = 137 THEN x ELSE v3.auth,
                    IF 190 = 190 THEN x ELSE v3.user)
            BY <1>5, <1>6, <2>1, <2>3, <2>4 DEF r
        <3> QED BY <3>1 DEF x
    <2> QED BY <2>2, <2>3
<1>12. Takes4(Aare, v0, v, Aare.fields)
        = take(take(take(take(v0, 130, v["result"]), 161, v["context"]),
                    137, v["auth"]), 190, v["user"])
    BY AareFieldsAre, FieldNames DEF Takes4
<1> HIDE DEF v0, v1, v2, v3, v4, take, W
<1>13. Takes4(Aare, v0, v, Aare.fields) = v4 BY <1>8, <1>9, <1>10, <1>11, <1>12
<1> QED BY <1>3, <1>4, <1>13

(***************************************************************************)
(* What is written bounds what it is written of, and the other way round.  *)
(***************************************************************************)
LEMMA AarqIsBrief ==
    ASSUME NEW v \in AarqValue, Len(EncodeApdu(Aarq, v)) < Huge
    PROVE  v \in AarqBrief(Huge)
<1> DEFINE c1 == EncodeField(v, Aarq.fields[1])
<1> DEFINE c2 == EncodeField(v, Aarq.fields[2])
<1> DEFINE c3 == EncodeField(v, Aarq.fields[3])
<1> DEFINE c4 == EncodeField(v, Aarq.fields[4])
<1> DEFINE out == EncodeApdu(Aarq, v)
<1>1. c1 \in Seq(Nat) /\ Len(c1) >= Len(v["context"])
    <2>1. Aarq.fields[1] = Field(161, "context") /\ 161 \in Byte
        BY AarqFieldsAre, TagsAreBytes
    <2>2. v["context"] \in Seq(Byte) BY DEF AarqValue
    <2> QED BY <2>1, <2>2, AnyField
<1>2. c2 \in Seq(Nat) /\ Len(c2) >= Len(v["mechanism"])
    <2>1. Aarq.fields[2] = Field(167, "mechanism") /\ 167 \in Byte
        BY AarqFieldsAre, TagsAreBytes
    <2>2. v["mechanism"] \in Seq(Byte) BY DEF AarqValue
    <2> QED BY <2>1, <2>2, AnyField
<1>3. c3 \in Seq(Nat) /\ Len(c3) >= Len(v["auth"])
    <2>1. Aarq.fields[3] = Field(136, "auth") /\ 136 \in Byte
        BY AarqFieldsAre, TagsAreBytes
    <2>2. v["auth"] \in Seq(Byte) BY DEF AarqValue
    <2> QED BY <2>1, <2>2, AnyField
<1>4. c4 \in Seq(Nat) /\ Len(c4) >= Len(v["user"])
    <2>1. Aarq.fields[4] = Field(190, "user") /\ 190 \in Byte
        BY AarqFieldsAre, TagsAreBytes
    <2>2. v["user"] \in Seq(Byte) BY DEF AarqValue
    <2> QED BY <2>1, <2>2, AnyField
<1>5. out = Tlv(Aarq.tag, c1 \o c2 \o c3 \o c4) /\ Aarq.tag \in Byte
    BY AarqFieldsAre, TagsAreBytes DEF EncodeApdu
<1> HIDE DEF c1, c2, c3, c4, out
<1>6. AtMost(c1, c2, c3, c4, Len(out)) BY <1>1, <1>2, <1>3, <1>4, <1>5, FourCodes
<1>7. Len(out) \in Nat /\ Len(c1) \in Nat /\ Len(c2) \in Nat /\ Len(c3) \in Nat
      /\ Len(c4) \in Nat
    BY <1>1, <1>2, <1>3, <1>4, <1>5, FourCodes, AnyTlv, LenIs
<1>8. Len(out) < Huge BY DEF out
<1>9. Huge \in Nat BY HugeIs
<1>10. Len(v.context) < Huge
    <2> DEFINE n == Len(v["context"])
    <2>1. n \in Nat
        <3>1. v["context"] \in Seq(Byte) BY DEF AarqValue
        <3> QED BY <3>1, LenIs
    <2>2. Len(c1) >= n BY <1>1
    <2>3. Len(c1) <= Len(out) BY <1>6 DEF AtMost
    <2> HIDE DEF n
    <2>4. n < Huge BY <1>7, <1>8, <1>9, <2>1, <2>2, <2>3
    <2> QED BY <2>4 DEF n
<1>11. Len(v.mechanism) < Huge
    <2> DEFINE n == Len(v["mechanism"])
    <2>1. n \in Nat
        <3>1. v["mechanism"] \in Seq(Byte) BY DEF AarqValue
        <3> QED BY <3>1, LenIs
    <2>2. Len(c2) >= n BY <1>2
    <2>3. Len(c2) <= Len(out) BY <1>6 DEF AtMost
    <2> HIDE DEF n
    <2>4. n < Huge BY <1>7, <1>8, <1>9, <2>1, <2>2, <2>3
    <2> QED BY <2>4 DEF n
<1>12. Len(v.auth) < Huge
    <2> DEFINE n == Len(v["auth"])
    <2>1. n \in Nat
        <3>1. v["auth"] \in Seq(Byte) BY DEF AarqValue
        <3> QED BY <3>1, LenIs
    <2>2. Len(c3) >= n BY <1>3
    <2>3. Len(c3) <= Len(out) BY <1>6 DEF AtMost
    <2> HIDE DEF n
    <2>4. n < Huge BY <1>7, <1>8, <1>9, <2>1, <2>2, <2>3
    <2> QED BY <2>4 DEF n
<1>13. Len(v.user) < Huge
    <2> DEFINE n == Len(v["user"])
    <2>1. n \in Nat
        <3>1. v["user"] \in Seq(Byte) BY DEF AarqValue
        <3> QED BY <3>1, LenIs
    <2>2. Len(c4) >= n BY <1>4
    <2>3. Len(c4) <= Len(out) BY <1>6 DEF AtMost
    <2> HIDE DEF n
    <2>4. n < Huge BY <1>7, <1>8, <1>9, <2>1, <2>2, <2>3
    <2> QED BY <2>4 DEF n
<1> QED BY <1>10, <1>11, <1>12, <1>13 DEF AarqBrief

LEMMA AareIsBrief ==
    ASSUME NEW v \in AareValue, Len(EncodeApdu(Aare, v)) < Huge
    PROVE  v \in AareBytes(Huge)
<1> DEFINE c1 == EncodeField(v, Aare.fields[1])
<1> DEFINE c2 == EncodeField(v, Aare.fields[2])
<1> DEFINE c3 == EncodeField(v, Aare.fields[3])
<1> DEFINE c4 == EncodeField(v, Aare.fields[4])
<1> DEFINE out == EncodeApdu(Aare, v)
<1>1. c1 \in Seq(Nat) /\ Len(c1) >= Len(v["result"])
    <2>1. Aare.fields[1] = Field(130, "result") /\ 130 \in Byte
        BY AareFieldsAre, TagsAreBytes
    <2>2. v["result"] \in Results BY DEF AareValue, Results
    <2>3. v["result"] \in Seq(Byte) BY <2>2, ResultsAre
    <2> QED BY <2>1, <2>3, AnyField
<1>2. c2 \in Seq(Nat) /\ Len(c2) >= Len(v["context"])
    <2>1. Aare.fields[2] = Field(161, "context") /\ 161 \in Byte
        BY AareFieldsAre, TagsAreBytes
    <2>2. v["context"] \in Seq(Byte) BY DEF AareValue
    <2> QED BY <2>1, <2>2, AnyField
<1>3. c3 \in Seq(Nat) /\ Len(c3) >= Len(v["auth"])
    <2>1. Aare.fields[3] = Field(137, "auth") /\ 137 \in Byte
        BY AareFieldsAre, TagsAreBytes
    <2>2. v["auth"] \in Seq(Byte) BY DEF AareValue
    <2> QED BY <2>1, <2>2, AnyField
<1>4. c4 \in Seq(Nat) /\ Len(c4) >= Len(v["user"])
    <2>1. Aare.fields[4] = Field(190, "user") /\ 190 \in Byte
        BY AareFieldsAre, TagsAreBytes
    <2>2. v["user"] \in Seq(Byte) BY DEF AareValue
    <2> QED BY <2>1, <2>2, AnyField
<1>5. out = Tlv(Aare.tag, c1 \o c2 \o c3 \o c4) /\ Aare.tag \in Byte
    BY AareFieldsAre, TagsAreBytes DEF EncodeApdu
<1> HIDE DEF c1, c2, c3, c4, out
<1>6. AtMost(c1, c2, c3, c4, Len(out)) BY <1>1, <1>2, <1>3, <1>4, <1>5, FourCodes
<1>7. Len(out) \in Nat /\ Len(c1) \in Nat /\ Len(c2) \in Nat /\ Len(c3) \in Nat
      /\ Len(c4) \in Nat
    BY <1>1, <1>2, <1>3, <1>4, <1>5, FourCodes, AnyTlv, LenIs
<1>8. Len(out) < Huge BY DEF out
<1>9. Huge \in Nat BY HugeIs
<1>11. Len(v.context) < Huge
    <2> DEFINE n == Len(v["context"])
    <2>1. n \in Nat
        <3>1. v["context"] \in Seq(Byte) BY DEF AareValue
        <3> QED BY <3>1, LenIs
    <2>2. Len(c2) >= n BY <1>2
    <2>3. Len(c2) <= Len(out) BY <1>6 DEF AtMost
    <2> HIDE DEF n
    <2>4. n < Huge BY <1>7, <1>8, <1>9, <2>1, <2>2, <2>3
    <2> QED BY <2>4 DEF n
<1>12. Len(v.auth) < Huge
    <2> DEFINE n == Len(v["auth"])
    <2>1. n \in Nat
        <3>1. v["auth"] \in Seq(Byte) BY DEF AareValue
        <3> QED BY <3>1, LenIs
    <2>2. Len(c3) >= n BY <1>3
    <2>3. Len(c3) <= Len(out) BY <1>6 DEF AtMost
    <2> HIDE DEF n
    <2>4. n < Huge BY <1>7, <1>8, <1>9, <2>1, <2>2, <2>3
    <2> QED BY <2>4 DEF n
<1>13. Len(v.user) < Huge
    <2> DEFINE n == Len(v["user"])
    <2>1. n \in Nat
        <3>1. v["user"] \in Seq(Byte) BY DEF AareValue
        <3> QED BY <3>1, LenIs
    <2>2. Len(c4) >= n BY <1>4
    <2>3. Len(c4) <= Len(out) BY <1>6 DEF AtMost
    <2> HIDE DEF n
    <2>4. n < Huge BY <1>7, <1>8, <1>9, <2>1, <2>2, <2>3
    <2> QED BY <2>4 DEF n
<1> QED BY <1>11, <1>12, <1>13 DEF AareBytes

LEMMA LengthIsBrief ==
    ASSUME NEW n \in Nat, n < Huge
    PROVE  Len(WriteVariableLength(n)) <= 4
<1> DEFINE b == LengthBytes(n)
           m == <<128 + Len(b)>>
<1>1. b \in Seq(Byte) /\ Len(b) \in 1 .. 3 BY LengthBytesAre
<1> HIDE DEF b
<1>2. CASE n <= 127 BY <1>2 DEF WriteVariableLength
<1>3. CASE ~(n <= 127)
    <2>1. m \in Seq(Nat) /\ Len(m) = 1 BY <1>1
    <2>2. WriteVariableLength(n) = m \o b BY <1>3 DEF WriteVariableLength, b
    <2>3. b \in Seq(Nat) BY <1>1, ByteSeqIsNat
    <2> HIDE DEF m
    <2>4. IsJoin(m \o b, Nat, m, b) BY <2>1, <2>3, JoinIs
    <2>5. Len(m \o b) = Len(m) + Len(b) BY <2>4 DEF IsJoin
    <2>6. Len(WriteVariableLength(n)) = 1 + Len(b) BY <2>1, <2>2, <2>5
    <2> DEFINE k == Len(b)
    <2>7. k \in 1 .. 3 BY <1>1
    <2> HIDE DEF k
    <2>8. 1 + k <= 4 BY <2>7
    <2> QED BY <2>6, <2>8 DEF k
<1> QED BY <1>2, <1>3

LEMMA TlvIsBrief ==
    ASSUME NEW tag \in Byte, NEW value \in Seq(Byte), Len(value) < Huge
    PROVE  Len(Tlv(tag, value)) <= Len(value) + 5
<1> DEFINE n == Len(value)
           l == Len(WriteVariableLength(n))
           t == Len(Tlv(tag, value))
<1>1. n \in Nat BY LenIs
<1>2. l \in Nat /\ l <= 4
    <2>1. WriteVariableLength(n) \in Seq(Byte) BY <1>1, LengthIsWritten
    <2> QED BY <1>1, <2>1, LengthIsBrief, LenIs
<1>3. t = 1 + l + n BY TlvType
<1> HIDE DEF n, l, t
<1>4. t <= n + 5 BY <1>1, <1>2, <1>3
<1> QED BY <1>4 DEF n, t

FieldBrief(c, m) == c \in Seq(Byte) /\ Len(c) <= m + 5

LEMMA FieldIsBrief ==
    ASSUME NEW value, NEW g, FieldIs(g, value), NEW m \in Nat, Len(value[g.name]) <= m
    PROVE  FieldBrief(EncodeField(value, g), m)
<1> DEFINE x == value[g.name]
           c == EncodeField(value, g)
<1>1. x \in Seq(Byte) /\ Len(x) < Huge /\ g.tag \in Byte BY DEF FieldIs
<1>2. CASE x = <<>>
    <2>1. c = <<>> BY <1>2 DEF EncodeField
    <2> QED BY <2>1 DEF FieldBrief
<1>3. CASE x # <<>>
    <2>1. c = Tlv(g.tag, x) BY <1>3 DEF EncodeField
    <2>2. Len(x) <= m OBVIOUS
    <2> HIDE DEF x
    <2>3. Tlv(g.tag, x) \in Seq(Byte) BY <1>1, TlvType
    <2>4. Len(Tlv(g.tag, x)) <= Len(x) + 5 BY <1>1, TlvIsBrief
    <2>5. Len(x) \in Nat /\ Len(Tlv(g.tag, x)) \in Nat BY <1>1, <2>3, LenIs
    <2> HIDE DEF c
    <2>6. Len(c) <= m + 5 BY <2>1, <2>2, <2>4, <2>5
    <2>7. c \in Seq(Byte) BY <2>1, <2>3
    <2>8. FieldBrief(c, m) BY <2>6, <2>7 DEF FieldBrief
    <2> QED BY <2>8 DEF c
<1> QED BY <1>2, <1>3

LEMMA ApduIsBrief ==
    ASSUME NEW apdu, apdu.tag \in Byte, NEW value, NEW m \in Nat, 4 * (m + 5) + 5 < Huge,
           FieldBrief(EncodeField(value, apdu.fields[1]), m),
           FieldBrief(EncodeField(value, apdu.fields[2]), m),
           FieldBrief(EncodeField(value, apdu.fields[3]), m),
           FieldBrief(EncodeField(value, apdu.fields[4]), m)
    PROVE  Len(EncodeApdu(apdu, value)) < Huge
<1> DEFINE c1 == EncodeField(value, apdu.fields[1])
           c2 == EncodeField(value, apdu.fields[2])
           c3 == EncodeField(value, apdu.fields[3])
           c4 == EncodeField(value, apdu.fields[4])
           c == c1 \o c2 \o c3 \o c4
<1>1. /\ c1 \in Seq(Byte) /\ Len(c1) <= m + 5 /\ c2 \in Seq(Byte) /\ Len(c2) <= m + 5
      /\ c3 \in Seq(Byte) /\ Len(c3) <= m + 5 /\ c4 \in Seq(Byte) /\ Len(c4) <= m + 5
    BY DEF FieldBrief
<1>2. EncodeApdu(apdu, value) = Tlv(apdu.tag, c) BY DEF EncodeApdu
<1> HIDE DEF c1, c2, c3, c4
<1>3. c1 \in Seq(Nat) /\ c2 \in Seq(Nat) /\ c3 \in Seq(Nat) /\ c4 \in Seq(Nat)
    BY <1>1, ByteSeqIsNat
<1>4. Len(c) = Len(c1) + Len(c2) + Len(c3) + Len(c4) BY <1>3, FourCodes
<1>5. c \in Seq(Byte) BY <1>1
<1>6. /\ Len(c1) \in Nat /\ Len(c2) \in Nat /\ Len(c3) \in Nat /\ Len(c4) \in Nat
      /\ Len(c) \in Nat
    BY <1>1, <1>5, LenIs
<1>7. Huge \in Nat BY HugeIs
<1> HIDE DEF c
<1>8. Len(c) + 5 < Huge /\ Len(c) < Huge BY <1>1, <1>4, <1>6, <1>7
<1>9. Len(Tlv(apdu.tag, c)) <= Len(c) + 5 BY <1>5, <1>8, TlvIsBrief
<1>10. Tlv(apdu.tag, c) \in Seq(Byte) BY <1>5, <1>8, TlvType
<1>11. Len(Tlv(apdu.tag, c)) \in Nat BY <1>10, LenIs
<1> QED BY <1>2, <1>6, <1>7, <1>8, <1>9, <1>11

LEMMA HoldsItself ==
    ASSUME NEW s \in Seq(Byte)
    PROVE  Holds(s, 0, s)
BY DEF Holds

(***************************************************************************)
(* An AARQ that arrived in full is read as it was written, whatever follows*)
(* (AarqApdu::encode, decode), and one that is cut is refused.             *)
(***************************************************************************)
THEOREM AarqIsRead ==
    ASSUME NEW v \in AarqValue, Len(EncodeApdu(Aarq, v)) < Huge,
           NEW data \in Seq(Byte), Holds(data, 0, EncodeApdu(Aarq, v))
    PROVE  /\ EncodeApdu(Aarq, v) \in Seq(Byte)
           /\ DecodeApdu(Aarq, data) = Got(v, Len(EncodeApdu(Aarq, v)))
<1>1. FieldsAre(Aarq, v) BY AarqIsBrief, AarqFieldsOf
<1>2. ApduIs(Aarq, AarqValue) BY BothApdus
<1>3. Takes4(Aarq, Aarq.blank, v, Aarq.fields) = v BY AarqTaken
<1> QED BY <1>1, <1>2, <1>3, ApduIsRead

(***************************************************************************)
(* An AARQ that is cut, wherever, is refused.                              *)
(***************************************************************************)
THEOREM AarqOnCut ==
    ASSUME NEW v \in AarqValue, Len(EncodeApdu(Aarq, v)) < Huge,
           NEW part \in Seq(Byte), CutTo(part, EncodeApdu(Aarq, v)),
           Len(part) < Len(EncodeApdu(Aarq, v))
    PROVE  ~DecodeApdu(Aarq, part).ok
<1>1. FieldsAre(Aarq, v) BY AarqIsBrief, AarqFieldsOf
<1>2. ApduIs(Aarq, AarqValue) BY BothApdus
<1> QED BY <1>1, <1>2, ApduOnCut

(***************************************************************************)
(* The same of an AARE, which has no mechanism name on the wire.           *)
(***************************************************************************)
THEOREM AareIsRead ==
    ASSUME NEW v \in AareValue, Len(EncodeApdu(Aare, v)) < Huge,
           NEW data \in Seq(Byte), Holds(data, 0, EncodeApdu(Aare, v))
    PROVE  /\ EncodeApdu(Aare, v) \in Seq(Byte)
           /\ DecodeApdu(Aare, data)
                = Got([v EXCEPT !.mechanism = <<>>], Len(EncodeApdu(Aare, v)))
<1>1. FieldsAre(Aare, v) BY AareIsBrief, AareFieldsOf
<1>2. ApduIs(Aare, AareValue) BY BothApdus
<1>3. Takes4(Aare, Aare.blank, v, Aare.fields) = [v EXCEPT !.mechanism = <<>>]
    BY AareTaken
<1> QED BY <1>1, <1>2, <1>3, ApduIsRead

(***************************************************************************)
(* An AARE that is cut, wherever, is refused.                              *)
(***************************************************************************)
THEOREM AareOnCut ==
    ASSUME NEW v \in AareValue, Len(EncodeApdu(Aare, v)) < Huge,
           NEW part \in Seq(Byte), CutTo(part, EncodeApdu(Aare, v)),
           Len(part) < Len(EncodeApdu(Aare, v))
    PROVE  ~DecodeApdu(Aare, part).ok
<1>1. FieldsAre(Aare, v) BY AareIsBrief, AareFieldsOf
<1>2. ApduIs(Aare, AareValue) BY BothApdus
<1> QED BY <1>1, <1>2, ApduOnCut

LEMMA BriefIsHuge ==
    ASSUME NEW m \in Nat, m <= Huge \div 8
    PROVE  4 * (m + 5) + 5 < Huge /\ m < Huge
<1> DEFINE e == Huge \div 8
           h == Huge
<1>1. /\ e \in Nat /\ h \in Nat /\ 4 * (e + 5) + 5 < h /\ e < h BY HugeIs
<1> HIDE DEF e, h
<1>2. m <= e BY DEF e
<1>3. 4 * (m + 5) + 5 < h /\ m < h BY <1>1, <1>2
<1> QED BY <1>3 DEF h

LEMMA FieldOfBrief ==
    ASSUME NEW value, NEW g, NEW m \in Nat, FieldIs(g, value), Len(value[g.name]) < m
    PROVE  FieldBrief(EncodeField(value, g), m)
<1>1. value[g.name] \in Seq(Byte) BY DEF FieldIs
<1>2. Len(value[g.name]) \in Nat BY <1>1, LenIs
<1>3. Len(value[g.name]) <= m BY <1>2
<1> QED BY <1>3, FieldIsBrief

(***************************************************************************)
(* An element has two bytes at least.                                      *)
(***************************************************************************)
LEMMA TlvNotShort ==
    ASSUME NEW data \in Seq(Byte), ReadTlv(data, 0).ok
    PROVE  1 < Len(data)
<1> DEFINE a == ReadBytes(data, 0, 1)
           l == ReadVariableLength(data, a.pos)
<1>1. a.ok /\ l.ok BY DEF ReadTlv
<1>2. /\ a.ok \in BOOLEAN
      /\ a.ok => a.pos = 0 + 1
    BY FirstByte
<1>3. a.pos = 1 BY <1>1, <1>2
<1>4. LengthWasRead(ReadVariableLength(data, 1), data, 1) BY LengthType
<1> HIDE DEF a
<1>5. l \in Result(Size) /\ l.pos > 1 /\ l.pos <= Len(data)
    BY <1>1, <1>3, <1>4 DEF LengthWasRead
<1> HIDE DEF l
<1>6. l.pos \in Nat BY <1>1, <1>5, ResultIs
<1>7. Len(data) \in Nat BY LenIs
<1> QED BY <1>5, <1>6, <1>7

LEMMA ApduIsBytes ==
    ASSUME NEW apdu, NEW S, ApduIs(apdu, S), NEW value, FieldsAre(apdu, value),
           Len(EncodeApdu(apdu, value)) < Huge
    PROVE  EncodeApdu(apdu, value) \in Seq(Byte)
<1> DEFINE out == EncodeApdu(apdu, value)
<1>1. PICK s : InnerIs(apdu, value, s) BY InnerExists
<1> DEFINE w == WriteAll(s)
<1>2. out = Tlv(apdu.tag, w) /\ w \in Seq(Byte) /\ Len(w) <= Len(out)
      /\ apdu.tag \in Byte
    BY <1>1 DEF InnerIs, ApduIs
<1>3. Len(w) \in Nat /\ Huge \in Nat BY <1>2, LenIs, HugeIs
<1>4. Len(out) < Huge OBVIOUS
<1> HIDE DEF w, out
<1>5. Len(out) \in Nat
    <2>1. w \in Seq(Nat) BY <1>2, ByteSeqIsNat
    <2> QED BY <1>2, <2>1, AnyTlv, LenIs
<1>6. Len(w) < Huge BY <1>2, <1>3, <1>4, <1>5
<1>7. out \in Seq(Byte) BY <1>2, <1>6, TlvType
<1> QED BY <1>7 DEF out

LEMMA AarqOfBriefIsBrief ==
    ASSUME NEW m \in Nat, 1 < m, m <= Huge \div 8, NEW v \in AarqBrief(m)
    PROVE  Len(EncodeApdu(Aarq, v)) < Huge
<1> DEFINE h == Huge
<1>1. 4 * (m + 5) + 5 < h /\ m < h /\ h \in Nat BY BriefIsHuge, HugeIs
<1>2. v \in AarqValue BY DEF AarqBrief
<1>3. v.context \in Seq(Byte) /\ Len(v.context) < m /\ Len(v.context) \in Nat
    <2>1. v.context \in Seq(Byte) BY <1>2 DEF AarqValue
    <2>2. Len(v.context) < m BY DEF AarqBrief
    <2> QED BY <2>1, <2>2, LenIs
<1>4. v.mechanism \in Seq(Byte) /\ Len(v.mechanism) < m /\ Len(v.mechanism) \in Nat
    <2>1. v.mechanism \in Seq(Byte) BY <1>2 DEF AarqValue
    <2>2. Len(v.mechanism) < m BY DEF AarqBrief
    <2> QED BY <2>1, <2>2, LenIs
<1>5. v.auth \in Seq(Byte) /\ Len(v.auth) < m /\ Len(v.auth) \in Nat
    <2>1. v.auth \in Seq(Byte) BY <1>2 DEF AarqValue
    <2>2. Len(v.auth) < m BY DEF AarqBrief
    <2> QED BY <2>1, <2>2, LenIs
<1>6. v.user \in Seq(Byte) /\ Len(v.user) < m /\ Len(v.user) \in Nat
    <2>1. v.user \in Seq(Byte) BY <1>2 DEF AarqValue
    <2>2. Len(v.user) < m BY DEF AarqBrief
    <2> QED BY <2>1, <2>2, LenIs
<1> HIDE DEF h
<1>7. FieldsAre(Aarq, v)
    <2>1. Len(v.context) < h
        <3> DEFINE n == Len(v.context)
        <3>1. n \in Nat /\ n < m BY <1>3
        <3> HIDE DEF n
        <3>2. n < h BY <1>1, <3>1
        <3> QED BY <3>2 DEF n
    <2>2. Len(v.mechanism) < h
        <3> DEFINE n == Len(v.mechanism)
        <3>1. n \in Nat /\ n < m BY <1>4
        <3> HIDE DEF n
        <3>2. n < h BY <1>1, <3>1
        <3> QED BY <3>2 DEF n
    <2>3. Len(v.auth) < h
        <3> DEFINE n == Len(v.auth)
        <3>1. n \in Nat /\ n < m BY <1>5
        <3> HIDE DEF n
        <3>2. n < h BY <1>1, <3>1
        <3> QED BY <3>2 DEF n
    <2>4. Len(v.user) < h
        <3> DEFINE n == Len(v.user)
        <3>1. n \in Nat /\ n < m BY <1>6
        <3> HIDE DEF n
        <3>2. n < h BY <1>1, <3>1
        <3> QED BY <3>2 DEF n
    <2>5. v \in AarqBrief(Huge) BY <1>2, <2>1, <2>2, <2>3, <2>4 DEF AarqBrief, h
    <2> QED BY <2>5, AarqFieldsOf
<1>8. FieldBrief(EncodeField(v, Aarq.fields[1]), m)
    <2> DEFINE g == Aarq.fields[1]
    <2>1. FieldIs(g, v) BY <1>7 DEF FieldsAre
    <2>2. g.name = "context" BY AarqFieldsAre, FieldNames
    <2> HIDE DEF g
    <2>3. Len(v[g.name]) < m BY <2>2, <1>3
    <2>4. FieldBrief(EncodeField(v, g), m) BY <2>1, <2>3, FieldOfBrief
    <2> QED BY <2>4 DEF g
<1>9. FieldBrief(EncodeField(v, Aarq.fields[2]), m)
    <2> DEFINE g == Aarq.fields[2]
    <2>1. FieldIs(g, v) BY <1>7 DEF FieldsAre
    <2>2. g.name = "mechanism" BY AarqFieldsAre, FieldNames
    <2> HIDE DEF g
    <2>3. Len(v[g.name]) < m BY <2>2, <1>4
    <2>4. FieldBrief(EncodeField(v, g), m) BY <2>1, <2>3, FieldOfBrief
    <2> QED BY <2>4 DEF g
<1>10. FieldBrief(EncodeField(v, Aarq.fields[3]), m)
    <2> DEFINE g == Aarq.fields[3]
    <2>1. FieldIs(g, v) BY <1>7 DEF FieldsAre
    <2>2. g.name = "auth" BY AarqFieldsAre, FieldNames
    <2> HIDE DEF g
    <2>3. Len(v[g.name]) < m BY <2>2, <1>5
    <2>4. FieldBrief(EncodeField(v, g), m) BY <2>1, <2>3, FieldOfBrief
    <2> QED BY <2>4 DEF g
<1>11. FieldBrief(EncodeField(v, Aarq.fields[4]), m)
    <2> DEFINE g == Aarq.fields[4]
    <2>1. FieldIs(g, v) BY <1>7 DEF FieldsAre
    <2>2. g.name = "user" BY AarqFieldsAre, FieldNames
    <2> HIDE DEF g
    <2>3. Len(v[g.name]) < m BY <2>2, <1>6
    <2>4. FieldBrief(EncodeField(v, g), m) BY <2>1, <2>3, FieldOfBrief
    <2> QED BY <2>4 DEF g
<1>12. Aarq.tag \in Byte BY BothApdus DEF ApduIs
<1> QED BY <1>1, <1>8, <1>9, <1>10, <1>11, <1>12, ApduIsBrief DEF h

(***************************************************************************)
(* What any bytes are decoded to as an AARQ can be written and is then     *)
(* read the same.                                                          *)
(***************************************************************************)
THEOREM AarqIsSound ==
    ASSUME NEW data \in Seq(Byte), Len(data) <= Huge \div 8,
           DecodeApdu(Aarq, data).ok
    PROVE  DecodeApdu(Aarq, EncodeApdu(Aarq, DecodeApdu(Aarq, data).val)).val
             = DecodeApdu(Aarq, data).val
<1> DEFINE m == Len(data)
           r == DecodeApdu(Aarq, data)
           v == r.val
           out == EncodeApdu(Aarq, v)
<1>1. m \in Nat BY LenIs
<1>2. r \in Result(AarqBrief(m))
    <2>1. Takes(Aarq, AarqBrief(m), Short(m)) BY <1>1, AarqTakes
    <2>2. m > 0 => Aarq.blank \in AarqBrief(m) BY <1>1, AarqTakes
    <2> QED BY <2>1, <2>2, ApduType
<1>3. v \in AarqBrief(m) /\ r.pos \in Nat
    <2> HIDE DEF r, m
    <2>1. r.ok BY DEF r
    <2> QED BY <1>2, <2>1, ResultIs
<1>4. 1 < m
    <2>1. r = ReadTlv(data, 0) \/ ReadTlv(data, 0).ok
        BY DEF DecodeApdu
    <2>2. ReadTlv(data, 0).ok
        BY <2>1
    <2>3. TlvWasRead(ReadTlv(data, 0), data, 0) BY ReadTlvType
    <2> QED BY <2>2, <2>3, TlvNotShort
<1>5. v \in AarqValue BY <1>3 DEF AarqBrief
<1>6. m <= Huge \div 8 OBVIOUS
<1> HIDE DEF m, v
<1>7. Len(out) < Huge BY <1>1, <1>3, <1>4, <1>6, AarqOfBriefIsBrief
<1>8. FieldsAre(Aarq, v) BY <1>5, <1>7, AarqIsBrief, AarqFieldsOf
<1>9. out \in Seq(Byte) BY <1>7, <1>8, BothApdus, ApduIsBytes
<1>10. Holds(out, 0, out) BY <1>9, HoldsItself
<1>11. DecodeApdu(Aarq, out) = Got(v, Len(out))
    BY <1>5, <1>7, <1>9, <1>10, AarqIsRead
<1>12. DecodeApdu(Aarq, out).val = v
    <2> DEFINE q == DecodeApdu(Aarq, out)
               n == Len(out)
    <2>1. q = Got(v, n) BY <1>11
    <2> HIDE DEF q, n
    <2>2. q.val = v BY <2>1 DEF Got
    <2> QED BY <2>2 DEF q
<1> QED BY <1>12 DEF v

LEMMA AareOfBriefIsBrief ==
    ASSUME NEW m \in Nat, 1 < m, m <= Huge \div 8, NEW v \in AareBrief(m)
    PROVE  Len(EncodeApdu(Aare, v)) < Huge
<1> DEFINE h == Huge
<1>1. 4 * (m + 5) + 5 < h /\ m < h /\ h \in Nat BY BriefIsHuge, HugeIs
<1>2. v \in AareValue BY DEF AareBrief
<1>3. v.result \in Seq(Byte) /\ Len(v.result) < m /\ Len(v.result) \in Nat
    <2>1. v.result \in Results BY <1>2 DEF AareValue, Results
    <2>2. v.result \in Seq(Byte) /\ Len(v.result) = 1 BY <2>1, ResultsAre
    <2> QED BY <2>2
<1>4. v.context \in Seq(Byte) /\ Len(v.context) < m /\ Len(v.context) \in Nat
    <2>1. v.context \in Seq(Byte) BY <1>2 DEF AareValue
    <2>2. Len(v.context) < m BY DEF AareBrief
    <2> QED BY <2>1, <2>2, LenIs
<1>5. v.auth \in Seq(Byte) /\ Len(v.auth) < m /\ Len(v.auth) \in Nat
    <2>1. v.auth \in Seq(Byte) BY <1>2 DEF AareValue
    <2>2. Len(v.auth) < m BY DEF AareBrief
    <2> QED BY <2>1, <2>2, LenIs
<1>6. v.user \in Seq(Byte) /\ Len(v.user) < m /\ Len(v.user) \in Nat
    <2>1. v.user \in Seq(Byte) BY <1>2 DEF AareValue
    <2>2. Len(v.user) < m BY DEF AareBrief
    <2> QED BY <2>1, <2>2, LenIs
<1> HIDE DEF h
<1>7. FieldsAre(Aare, v)
    <2>2. Len(v.context) < h
        <3> DEFINE n == Len(v.context)
        <3>1. n \in Nat /\ n < m BY <1>4
        <3> HIDE DEF n
        <3>2. n < h BY <1>1, <3>1
        <3> QED BY <3>2 DEF n
    <2>3. Len(v.auth) < h
        <3> DEFINE n == Len(v.auth)
        <3>1. n \in Nat /\ n < m BY <1>5
        <3> HIDE DEF n
        <3>2. n < h BY <1>1, <3>1
        <3> QED BY <3>2 DEF n
    <2>4. Len(v.user) < h
        <3> DEFINE n == Len(v.user)
        <3>1. n \in Nat /\ n < m BY <1>6
        <3> HIDE DEF n
        <3>2. n < h BY <1>1, <3>1
        <3> QED BY <3>2 DEF n
    <2>5. v \in AareBytes(Huge) BY <1>2, <2>2, <2>3, <2>4 DEF AareBytes, h
    <2> QED BY <2>5, AareFieldsOf
<1>8. FieldBrief(EncodeField(v, Aare.fields[1]), m)
    <2> DEFINE g == Aare.fields[1]
    <2>1. FieldIs(g, v) BY <1>7 DEF FieldsAre
    <2>2. g.name = "result" BY AareFieldsAre, FieldNames
    <2> HIDE DEF g
    <2>3. Len(v[g.name]) < m BY <2>2, <1>3
    <2>4. FieldBrief(EncodeField(v, g), m) BY <2>1, <2>3, FieldOfBrief
    <2> QED BY <2>4 DEF g
<1>9. FieldBrief(EncodeField(v, Aare.fields[2]), m)
    <2> DEFINE g == Aare.fields[2]
    <2>1. FieldIs(g, v) BY <1>7 DEF FieldsAre
    <2>2. g.name = "context" BY AareFieldsAre, FieldNames
    <2> HIDE DEF g
    <2>3. Len(v[g.name]) < m BY <2>2, <1>4
    <2>4. FieldBrief(EncodeField(v, g), m) BY <2>1, <2>3, FieldOfBrief
    <2> QED BY <2>4 DEF g
<1>10. FieldBrief(EncodeField(v, Aare.fields[3]), m)
    <2> DEFINE g == Aare.fields[3]
    <2>1. FieldIs(g, v) BY <1>7 DEF FieldsAre
    <2>2. g.name = "auth" BY AareFieldsAre, FieldNames
    <2> HIDE DEF g
    <2>3. Len(v[g.name]) < m BY <2>2, <1>5
    <2>4. FieldBrief(EncodeField(v, g), m) BY <2>1, <2>3, FieldOfBrief
    <2> QED BY <2>4 DEF g
<1>11. FieldBrief(EncodeField(v, Aare.fields[4]), m)
    <2> DEFINE g == Aare.fields[4]
    <2>1. FieldIs(g, v) BY <1>7 DEF FieldsAre
    <2>2. g.name = "user" BY AareFieldsAre, FieldNames
    <2> HIDE DEF g
    <2>3. Len(v[g.name]) < m BY <2>2, <1>6
    <2>4. FieldBrief(EncodeField(v, g), m) BY <2>1, <2>3, FieldOfBrief
    <2> QED BY <2>4 DEF g
<1>12. Aare.tag \in Byte BY BothApdus DEF ApduIs
<1> QED BY <1>1, <1>8, <1>9, <1>10, <1>11, <1>12, ApduIsBrief DEF h

(***************************************************************************)
(* What any bytes are decoded to as an AARE can be written and is then     *)
(* read the same.                                                          *)
(***************************************************************************)
THEOREM AareIsSound ==
    ASSUME NEW data \in Seq(Byte), Len(data) <= Huge \div 8,
           DecodeApdu(Aare, data).ok
    PROVE  DecodeApdu(Aare, EncodeApdu(Aare, DecodeApdu(Aare, data).val)).val
             = DecodeApdu(Aare, data).val
<1> DEFINE m == Len(data)
           r == DecodeApdu(Aare, data)
           v == r.val
           out == EncodeApdu(Aare, v)
<1>1. m \in Nat BY LenIs
<1>2. r \in Result(AareBrief(m))
    <2>1. Takes(Aare, AareBrief(m), Short(m)) BY <1>1, AareTakes
    <2>2. m > 0 => Aare.blank \in AareBrief(m) BY <1>1, AareTakes
    <2> QED BY <2>1, <2>2, ApduType
<1>3. v \in AareBrief(m) /\ r.pos \in Nat
    <2> HIDE DEF r, m
    <2>1. r.ok BY DEF r
    <2> QED BY <1>2, <2>1, ResultIs
<1>4. 1 < m
    <2>1. r = ReadTlv(data, 0) \/ ReadTlv(data, 0).ok
        BY DEF DecodeApdu
    <2>2. ReadTlv(data, 0).ok
        BY <2>1
    <2>3. TlvWasRead(ReadTlv(data, 0), data, 0) BY ReadTlvType
    <2> QED BY <2>2, <2>3, TlvNotShort
<1>5. v \in AareValue BY <1>3 DEF AareBrief
<1>6. m <= Huge \div 8 OBVIOUS
<1> HIDE DEF m, v
<1>7. Len(out) < Huge BY <1>1, <1>3, <1>4, <1>6, AareOfBriefIsBrief
<1>8. FieldsAre(Aare, v) BY <1>5, <1>7, AareIsBrief, AareFieldsOf
<1>9. out \in Seq(Byte) BY <1>7, <1>8, BothApdus, ApduIsBytes
<1>10. Holds(out, 0, out) BY <1>9, HoldsItself
<1>11. DecodeApdu(Aare, out) = Got([v EXCEPT !.mechanism = <<>>], Len(out))
    BY <1>5, <1>7, <1>9, <1>10, AareIsRead
<1>13. [v EXCEPT !.mechanism = <<>>] = v
    <2>1. v.mechanism = <<>> BY <1>3 DEF AareBrief
    <2>2. v = [result |-> v.result, context |-> v.context,
               mechanism |-> v.mechanism, auth |-> v.auth, user |-> v.user]
        <3> DEFINE R == Results
        <3>1. v \in [result : R, context : Seq(Byte), mechanism : Seq(Byte),
                     auth : Seq(Byte), user : Seq(Byte)]
            BY <1>5 DEF AareValue, Results
        <3> HIDE DEF R
        <3> QED BY <3>1
    <2> QED BY <2>1, <2>2
<1>12. DecodeApdu(Aare, out).val = v
    <2> DEFINE q == DecodeApdu(Aare, out)
               n == Len(out)
    <2>1. q = Got(v, n) BY <1>11, <1>13
    <2> HIDE DEF q, n
    <2>2. q.val = v BY <2>1 DEF Got
    <2> QED BY <2>2 DEF q
<1> QED BY <1>12 DEF v

(***************************************************************************)
(* A list is no shorter than each of its parts.                            *)
(***************************************************************************)
PartsFit(codes) ==
    \A i \in 1 .. Len(codes) : Len(codes[i]) <= Len(FlattenSeq(codes))

LEMMA PartsFitIn ==
    ASSUME NEW E, NEW codes \in Seq(Seq(E))
    PROVE  PartsFit(codes)
<1> DEFINE S == Seq(E)
           T == {s \in Seq(S) : PartsFit(s)}
<1>1. <<>> \in T
    <2> DEFINE nil == <<>>
    <2>1. nil \in Seq(S) /\ Len(nil) = 0 OBVIOUS
    <2> HIDE DEF nil
    <2>2. PartsFit(nil) BY <2>1 DEF PartsFit
    <2>3. nil \in T BY <2>1, <2>2
    <2> QED BY <2>3 DEF nil
<1>2. ASSUME NEW s \in Seq(S), NEW c \in S, s \in T PROVE Append(s, c) \in T
    <2> DEFINE t == Append(s, c)
               n == Len(s)
               fs == FlattenSeq(s)
               ft == FlattenSeq(t)
    <2>1. /\ t \in Seq(S) /\ Len(t) = n + 1 /\ n \in Nat /\ t[n + 1] = c
          /\ \A i \in 1 .. n : t[i] = s[i]
        OBVIOUS
    <2> HIDE DEF t
    <2>2. ft = fs \o t[Len(t)] BY <2>1, FlatAlong
    <2>3. ft = fs \o c BY <2>1, <2>2
    <2>4. fs \in Seq(E) BY FlatType
    <2> HIDE DEF fs, ft
    <2>5. Len(ft) = Len(fs) + Len(c) BY <2>3, <2>4, Joined
    <2>6. Len(fs) \in Nat /\ Len(c) \in Nat BY <2>4, LenIs
    <2>7. ASSUME NEW i \in 1 .. n + 1 PROVE Len(t[i]) <= Len(ft)
        <3>1. CASE i = n + 1
            <4>1. t[i] = c BY <2>1, <3>1
            <4> QED BY <2>5, <2>6, <4>1
        <3>2. CASE i # n + 1
            <4>1. i \in 1 .. n /\ t[i] = s[i] BY <2>1, <3>2
            <4>2. Len(s[i]) <= Len(fs) BY <1>2, <4>1 DEF PartsFit, fs
            <4>3. s[i] \in S BY <4>1
            <4>4. Len(s[i]) \in Nat BY <4>3, LenIs
            <4> QED BY <2>5, <2>6, <4>1, <4>2, <4>4
        <3> QED BY <3>1, <3>2
    <2>8. PartsFit(t) BY <2>1, <2>7 DEF PartsFit, ft
    <2> QED BY <2>1, <2>8 DEF t
<1> HIDE DEF T, S
<1>3. Seq(S) \subseteq T BY <1>1, <1>2, SeqSetInduction
<1> QED BY <1>3 DEF T, S

LEMMA ElementsAreShort ==
    ASSUME NEW elements \in Seq(Tlvs), Len(WriteAll(elements)) < Huge
    PROVE  elements \in Seq(Short(Huge))
<1> DEFINE n == Len(elements)
           codes == Codes1(elements)
           out == WriteAll(elements)
           S == Seq(Nat)
<1>1. n \in Nat /\ DOMAIN elements = 1 .. n OBVIOUS
<1>2. ASSUME NEW i \in 1 .. n
      PROVE  /\ elements[i] \in Tlvs /\ codes[i] = Tlv(elements[i].tag, elements[i].value)
             /\ codes[i] \in S /\ Len(codes[i]) >= Len(elements[i].value)
             /\ Len(elements[i].value) \in Nat
    <2> DEFINE x == elements[i]
    <2>1. x \in Tlvs BY <1>1
    <2>2. codes[i] = Tlv(x.tag, x.value) BY <1>1 DEF Codes1
    <2> HIDE DEF x
    <2>3. x.tag \in Byte /\ x.value \in Seq(Byte) BY <2>1 DEF Tlvs
    <2>4. x.value \in Seq(Nat) BY <2>3, ByteSeqIsNat
    <2>5. /\ Tlv(x.tag, x.value) \in Seq(Nat)
          /\ Len(Tlv(x.tag, x.value)) >= Len(x.value)
        BY <2>3, <2>4, AnyTlv
    <2>6. Len(x.value) \in Nat BY <2>3, LenIs
    <2> QED BY <2>1, <2>2, <2>5, <2>6 DEF x
<1>3. out = FlattenSeq(codes) BY DEF WriteAll, Codes1
<1>4. codes = [i \in 1 .. n |-> codes[i]] BY <1>1 DEF Codes1
<1> HIDE DEF codes, n, S, out
<1>5. codes \in Seq(S) /\ Len(codes) = n BY <1>1, <1>2, <1>4
<1>6. PartsFit(codes) BY <1>5, PartsFitIn DEF S
<1>7. out \in Seq(Nat) BY <1>3, <1>5, FlatType DEF S
<1>8. Len(out) \in Nat /\ Len(out) < Huge /\ Huge \in Nat BY <1>7, LenIs, HugeIs DEF out
<1>9. ASSUME NEW i \in 1 .. n PROVE elements[i] \in Short(Huge)
    <2> DEFINE k == Len(elements[i].value)
               c == Len(codes[i])
               o == Len(out)
               h == Huge
    <2>1. k \in Nat /\ c >= k /\ elements[i] \in Tlvs BY <1>2
    <2>2. c <= o BY <1>3, <1>5, <1>6 DEF PartsFit
    <2>3. c \in Nat
        <3>1. codes[i] \in Seq(Nat) BY <1>2 DEF S
        <3> QED BY <3>1, LenIs
    <2>4. o \in Nat /\ o < h /\ h \in Nat BY <1>8
    <2> HIDE DEF k, c, o, h
    <2>5. k < h BY <2>1, <2>2, <2>3, <2>4
    <2> QED BY <2>1, <2>5 DEF Short, k, h
<1> DEFINE H == Short(Huge)
<1>10. \A i \in 1 .. n : elements[i] \in H BY <1>9
<1> HIDE DEF H
<1>11. elements \in Seq(H) BY <1>1, <1>10 DEF n
<1> QED BY <1>11 DEF H
=============================================================================
