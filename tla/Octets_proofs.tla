---------------------------- MODULE Octets_proofs ----------------------------
(***************************************************************************)
(* What the proofs about bytes rest on: induction and recursion over data, *)
(* in the form the provers can use (the property is a set, the step of a   *)
(* recursion is a function), how FoldLeft goes along a sequence, and that  *)
(* the exclusive or undoes itself.                                         *)
(***************************************************************************)
EXTENDS Octets, Sequences, SequencesExt, WellFoundedInduction, TLAPS

(***************************************************************************)
(* A set of numbers that is not empty has a least element.                 *)
(***************************************************************************)
LEMMA LeastExists ==
    ASSUME NEW S, S \subseteq Nat, S # {}
    PROVE  \E x \in S : \A y \in S : x <= y
<1>1. PICK x \in S : \A y \in S : ~ (<<y, x>> \in OpToRel(<, Nat))
    BY NatLessThanWellFounded, WFMin
<1>2. \A y \in S : ~ (y < x) BY <1>1 DEF OpToRel
<1>3. \A y \in S : x <= y BY <1>2
<1> QED BY <1>3

(***************************************************************************)
(* A set that has 0 and the successor of each of its numbers has them all. *)
(***************************************************************************)
THEOREM NatSetInduction ==
    ASSUME NEW T, 0 \in T, \A n \in Nat : n \in T => n + 1 \in T
    PROVE  Nat \subseteq T
<1> DEFINE S == Nat \ T
<1> SUFFICES ASSUME S # {} PROVE FALSE
    OBVIOUS
<1>1. PICK x \in S : \A y \in S : x <= y
    <2> S \subseteq Nat OBVIOUS
    <2> HIDE DEF S
    <2> QED BY LeastExists
<1>2. \A y \in S : ~ (y < x)
    BY <1>1
<1>3. x \in Nat /\ x # 0
    OBVIOUS
<1>4. x - 1 \in Nat /\ x - 1 \notin S
    BY <1>2, <1>3
<1>5. x - 1 \in T BY <1>4
<1>6. (x - 1) + 1 \in T BY <1>4, <1>5
<1> QED BY <1>6, <1>3

(***************************************************************************)
(* A set that has the empty sequence and, with a sequence, the one that is *)
(* longer by any element, has every sequence.                              *)
(***************************************************************************)
THEOREM SeqSetInduction ==
    ASSUME NEW E, NEW T, <<>> \in T,
           \A s \in Seq(E), e \in E : s \in T => Append(s, e) \in T
    PROVE  Seq(E) \subseteq T
<1> DEFINE L == {n \in Nat : \A s \in Seq(E) : Len(s) = n => s \in T}
<1>1. 0 \in L
    OBVIOUS
<1>2. ASSUME NEW n \in Nat, n \in L PROVE n + 1 \in L
    <2> SUFFICES ASSUME NEW s \in Seq(E), Len(s) = n + 1 PROVE s \in T
        OBVIOUS
    <2> DEFINE f == SubSeq(s, 1, n)
    <2>1. f \in Seq(E) /\ Len(f) = n /\ s[n + 1] \in E
        OBVIOUS
    <2>2. s = Append(f, s[n + 1])
        OBVIOUS
    <2>3. f \in T BY <1>2, <2>1
    <2> HIDE DEF f
    <2> QED BY <2>1, <2>2, <2>3
<1> HIDE DEF L
<1>3. Nat \subseteq L BY <1>1, <1>2, NatSetInduction
<1> USE DEF L
<1> QED BY <1>3

(***************************************************************************)
(* Primitive recursion: a function with the given first value and step.    *)
(***************************************************************************)
Steps(S) == [Nat \X S -> S]

Recurs(f, S, base, step) ==
    /\ f \in [Nat -> S]
    /\ f[0] = base
    /\ \A n \in Nat : f[n + 1] = step[<<n, f[n]>>]

THEOREM Recursion ==
    ASSUME NEW S, NEW base \in S, NEW step \in Steps(S)
    PROVE  \E f : Recurs(f, S, base, step)
<1> USE DEF Steps
<1> DEFINE Upto(f, n) == f[0] = base /\ \A i \in 0 .. n - 1 : f[i + 1] = step[<<i, f[i]>>]
           T == {n \in Nat : \E f \in [Nat -> S] : Upto(f, n)}
           U == {n \in Nat : \A f, g \in [Nat -> S] : \A m \in Nat :
                                Upto(f, n) /\ Upto(g, m) /\ n <= m => f[n] = g[n]}
<1>1. Nat \subseteq T
    <2>1. 0 \in T
        <3> DEFINE f == [n \in Nat |-> base]
        <3>1. f \in [Nat -> S] /\ Upto(f, 0) OBVIOUS
        <3> QED BY <3>1
    <2>2. ASSUME NEW n \in Nat, n \in T PROVE n + 1 \in T
        <3>1. PICK f \in [Nat -> S] : Upto(f, n) BY <2>2
        <3> DEFINE g == [i \in Nat |-> IF i = n + 1 THEN step[<<n, f[n]>>] ELSE f[i]]
        <3>2. g \in [Nat -> S] OBVIOUS
        <3>3. Upto(g, n + 1)
            <4>1. g[0] = base BY <3>1
            <4>2. ASSUME NEW i \in 0 .. n PROVE g[i + 1] = step[<<i, g[i]>>]
                BY <3>1
            <4> QED BY <4>1, <4>2
        <3> HIDE DEF g
        <3> QED BY <3>2, <3>3
    <2> HIDE DEF T
    <2> QED BY <2>1, <2>2, NatSetInduction
<1>2. Nat \subseteq U
    <2>1. 0 \in U OBVIOUS
    <2>2. ASSUME NEW n \in Nat, n \in U PROVE n + 1 \in U
        <3> SUFFICES ASSUME NEW f \in [Nat -> S], NEW g \in [Nat -> S], NEW m \in Nat,
                            Upto(f, n + 1), Upto(g, m), n + 1 <= m
                     PROVE  f[n + 1] = g[n + 1]
            OBVIOUS
        <3>1. Upto(f, n) OBVIOUS
        <3>2. f[n] = g[n] BY <2>2, <3>1
        <3>3. f[n + 1] = step[<<n, f[n]>>] /\ g[n + 1] = step[<<n, g[n]>>] OBVIOUS
        <3> QED BY <3>2, <3>3
    <2> HIDE DEF U
    <2> QED BY <2>1, <2>2, NatSetInduction
<1> DEFINE F(n) == CHOOSE f \in [Nat -> S] : Upto(f, n)
           h == [n \in Nat |-> F(n)[n]]
<1>3. \A n \in Nat : F(n) \in [Nat -> S] /\ Upto(F(n), n)
    BY <1>1
<1> HIDE DEF F
<1>4. h \in [Nat -> S] BY <1>3
<1>5. h[0] = base BY <1>3
<1>6. ASSUME NEW n \in Nat PROVE h[n + 1] = step[<<n, h[n]>>]
    <2>1. F(n + 1)[n + 1] = step[<<n, F(n + 1)[n]>>] BY <1>3
    <2>2. /\ F(n) \in [Nat -> S] /\ F(n + 1) \in [Nat -> S]
          /\ Upto(F(n), n) /\ Upto(F(n + 1), n + 1)
        BY <1>3
    <2>3. F(n + 1)[n] = F(n)[n]
        <3> HIDE DEF Upto
        <3>1. n \in U BY <1>2
        <3>2. n + 1 \in Nat /\ n <= n + 1 OBVIOUS
        <3> QED BY <3>1, <3>2, <2>2
    <2> QED BY <2>1, <2>3
<1> QED BY <1>4, <1>5, <1>6 DEF Recurs

(***************************************************************************)
(* A sequence is what comes before one of its elements, the element and    *)
(* what comes after it.                                                    *)
(***************************************************************************)
LEMMA SplitAt ==
    ASSUME NEW E, NEW s \in Seq(E), NEW i \in 1 .. Len(s)
    PROVE  s = Append(SubSeq(s, 1, i - 1), s[i]) \o SubSeq(s, i + 1, Len(s))
<1> DEFINE n == Len(s)
           a == SubSeq(s, 1, i - 1)
           h == Append(a, s[i])
           b == SubSeq(s, i + 1, n)
           c == h \o b
<1>1. n \in Nat /\ i \in Nat /\ i >= 1 /\ i <= n /\ s[i] \in E OBVIOUS
<1>2. a \in Seq(E) /\ Len(a) = i - 1 /\ \A j \in 1 .. i - 1 : a[j] = s[j]
    BY <1>1
<1>3. b \in Seq(E) /\ Len(b) = n - i /\ \A j \in 1 .. n - i : b[j] = s[i + j]
    BY <1>1
<1> HIDE DEF a
<1>4. h \in Seq(E) /\ Len(h) = i /\ \A j \in 1 .. i : h[j] = s[j]
    BY <1>1, <1>2
<1> HIDE DEF h, b
<1>5. c \in Seq(E) /\ Len(c) = n
    <2>1. h \in Seq(E) /\ b \in Seq(E) BY <1>3, <1>4
    <2>2. c \in Seq(E) /\ Len(c) = Len(h) + Len(b) BY <2>1
    <2> HIDE DEF c, n
    <2> QED BY <1>1, <1>3, <1>4, <2>2
<1>6. ASSUME NEW j \in 1 .. n PROVE c[j] = s[j]
    <2>1. CASE j <= i BY <1>1, <1>3, <1>4, <2>1
    <2>2. CASE j > i
        <3>1. c[j] = b[j - i] BY <1>1, <1>3, <1>4, <2>2
        <3>2. j - i \in 1 .. n - i /\ i + (j - i) = j BY <1>1, <2>2
        <3> QED BY <1>3, <3>1, <3>2
    <2>3. j <= i \/ j > i
        <3> HIDE DEF n
        <3> QED BY <1>1
    <2> QED BY <2>1, <2>2, <2>3
<1> HIDE DEF c
<1>7. c = s BY <1>5, <1>6
<1> QED BY <1>7 DEF a, b, c, h

(***************************************************************************)
(* The elements of two sequences joined, and the two taken out again.      *)
(***************************************************************************)
LEMMA Joined ==
    ASSUME NEW E, NEW s \in Seq(E), NEW t \in Seq(E)
    PROVE  /\ s \o t \in Seq(E) /\ Len(s \o t) = Len(s) + Len(t)
           /\ \A i \in 1 .. Len(s) : (s \o t)[i] = s[i]
           /\ \A i \in 1 .. Len(t) : (s \o t)[Len(s) + i] = t[i]
OBVIOUS

LEMMA SameElements ==
    ASSUME NEW E, NEW s \in Seq(E), NEW t \in Seq(E), Len(s) = Len(t),
           \A i \in 1 .. Len(s) : s[i] = t[i]
    PROVE  s = t
OBVIOUS

LEMMA BeginningIs ==
    ASSUME NEW E, NEW s \in Seq(E), NEW t \in Seq(E), Len(t) <= Len(s),
           \A i \in 1 .. Len(t) : t[i] = s[i]
    PROVE  SubSeq(s, 1, Len(t)) = t
<1> DEFINE u == SubSeq(s, 1, Len(t))
<1>1. u \in Seq(E) /\ Len(u) = Len(t) /\ \A i \in 1 .. Len(t) : u[i] = s[i] OBVIOUS
<1> HIDE DEF u
<1>2. \A i \in 1 .. Len(u) : u[i] = t[i] BY <1>1
<1>3. u = t BY <1>1, <1>2, SameElements
<1> QED BY <1>3 DEF u

LEMMA Part ==
    ASSUME NEW E, NEW s \in Seq(E), NEW i \in Nat, NEW n \in Nat, i + n <= Len(s)
    PROVE  /\ SubSeq(s, i + 1, i + n) \in Seq(E)
           /\ Len(SubSeq(s, i + 1, i + n)) = n
           /\ \A j \in 1 .. n : SubSeq(s, i + 1, i + n)[j] = s[i + j]
<1> DEFINE u == SubSeq(s, i + 1, i + n)
<1>1. Len(s) \in Nat /\ \A j \in 1 .. Len(s) : s[j] \in E OBVIOUS
<1>2. \A j \in i + 1 .. i + n : s[j] \in E BY <1>1
<1>3. u \in Seq(E) BY <1>1, <1>2
<1>4. Len(u) = n BY <1>1
<1>5. \A j \in 1 .. n : u[j] = s[i + j] BY <1>1
<1> QED BY <1>3, <1>4, <1>5

LEMMA FirstPart ==
    ASSUME NEW E, NEW s \in Seq(E), NEW t \in Seq(E)
    PROVE  SubSeq(s \o t, 1, Len(s)) = s
<1> DEFINE c == s \o t
           u == SubSeq(c, 1, Len(s))
<1>1. /\ c \in Seq(E) /\ Len(c) = Len(s) + Len(t)
      /\ \A i \in 1 .. Len(s) : c[i] = s[i]
      /\ Len(s) \in Nat /\ Len(t) \in Nat
    BY Joined
<1> HIDE DEF c
<1>2. u \in Seq(E) /\ Len(u) = Len(s) /\ \A i \in 1 .. Len(s) : u[i] = c[i] BY <1>1
<1> HIDE DEF u
<1>3. u = s BY <1>1, <1>2, SameElements
<1> QED BY <1>3 DEF u, c

LEMMA PartOfFirst ==
    ASSUME NEW E, NEW s \in Seq(E), NEW t \in Seq(E), NEW i \in Nat, i >= 1
    PROVE  SubSeq(s \o t, i, Len(s)) = SubSeq(s, i, Len(s))
<1> DEFINE c == s \o t
           u == SubSeq(c, i, Len(s))
           v == SubSeq(s, i, Len(s))
<1>1. /\ c \in Seq(E) /\ Len(c) = Len(s) + Len(t)
      /\ \A j \in 1 .. Len(s) : c[j] = s[j]
      /\ Len(s) \in Nat /\ Len(t) \in Nat
    BY Joined
<1> HIDE DEF c
<1>2. /\ u \in Seq(E) /\ Len(u) = IF i <= Len(s) THEN Len(s) - i + 1 ELSE 0
      /\ \A j \in 1 .. Len(u) : u[j] = c[i + j - 1]
    BY <1>1
<1>3. /\ v \in Seq(E) /\ Len(v) = IF i <= Len(s) THEN Len(s) - i + 1 ELSE 0
      /\ \A j \in 1 .. Len(v) : v[j] = s[i + j - 1]
    BY <1>1
<1> HIDE DEF u, v
<1>4. Len(u) = Len(v) BY <1>2, <1>3
<1>5. ASSUME NEW j \in 1 .. Len(u) PROVE u[j] = v[j]
    <2>1. i + j - 1 \in 1 .. Len(s) BY <1>1, <1>2
    <2> QED BY <1>1, <1>2, <1>3, <1>4, <2>1
<1>6. u = v BY <1>2, <1>3, <1>4, <1>5, SameElements
<1> QED BY <1>6 DEF u, v, c

LEMMA LastPart ==
    ASSUME NEW E, NEW s \in Seq(E), NEW t \in Seq(E)
    PROVE  SubSeq(s \o t, Len(s) + 1, Len(s) + Len(t)) = t
<1> DEFINE c == s \o t
           u == SubSeq(c, Len(s) + 1, Len(s) + Len(t))
<1>1. /\ c \in Seq(E) /\ Len(c) = Len(s) + Len(t)
      /\ \A i \in 1 .. Len(t) : c[Len(s) + i] = t[i]
      /\ Len(s) \in Nat /\ Len(t) \in Nat
    BY Joined
<1> HIDE DEF c
<1>2. u \in Seq(E) /\ Len(u) = Len(t) /\ \A i \in 1 .. Len(t) : u[i] = c[Len(s) + i]
    BY <1>1
<1> HIDE DEF u
<1>3. u = t BY <1>1, <1>2, SameElements
<1> QED BY <1>3 DEF u, c

-----------------------------------------------------------------------------
FoldSteps(S, E) == [S \X E -> S]

(***************************************************************************)
(* FoldLeft.  The iteration it is defined by, over the subsets of the      *)
(* sequence's indices, with the step as a function.                        *)
(***************************************************************************)
FoldsTo(it, step, base, s) ==
    it = [x \in SUBSET DOMAIN s |->
            IF x = {} THEN base
            ELSE step[<<it[x \ {Max(x)}], s[Max(x)]>>]]

LEMMA MaxIsLast ==
    ASSUME NEW n \in Nat, NEW x \in SUBSET (1 .. n), x # {}
    PROVE  Max(x) \in x /\ \A i \in x : i <= Max(x)
<1> DEFINE U == {k \in Nat : \A y \in SUBSET (1 .. k) :
                     y # {} => \E m \in y : \A i \in y : m >= i}
<1>1. 0 \in U
    <2>1. 1 .. 0 = {} OBVIOUS
    <2>2. \A y \in SUBSET (1 .. 0) : y = {} BY <2>1
    <2> QED BY <2>2
<1>2. ASSUME NEW k \in Nat, k \in U PROVE k + 1 \in U
    <2> SUFFICES ASSUME NEW y \in SUBSET (1 .. k + 1), y # {}
                 PROVE  \E m \in y : \A i \in y : m >= i
        OBVIOUS
    <2>1. CASE k + 1 \in y
        BY <2>1
    <2>2. CASE k + 1 \notin y
        <3>1. y \in SUBSET (1 .. k) BY <2>2
        <3> QED BY <1>2, <3>1
    <2> QED BY <2>1, <2>2
<1> HIDE DEF U
<1>3. n \in U BY <1>1, <1>2, NatSetInduction
<1> USE DEF U
<1>4. \E m \in x : \A i \in x : m >= i BY <1>3
<1>5. Max(x) \in x /\ \A i \in x : Max(x) >= i BY <1>4 DEF Max
<1> QED BY <1>5

LEMMA FoldExists ==
    ASSUME NEW S, NEW E, NEW base \in S, NEW step \in FoldSteps(S, E),
           NEW s \in Seq(E)
    PROVE  \E it : /\ FoldsTo(it, step, base, s)
                   /\ \A x \in SUBSET DOMAIN s : it[x] \in S
<1> DEFINE n == Len(s)
           Partial(x, h) == /\ h \in [Nat -> S] /\ h[0] = base
                            /\ \A i \in Nat : h[i + 1] =
                                  IF i + 1 \in x THEN step[<<h[i], s[i + 1]>>] ELSE h[i]
           H(x) == CHOOSE h : Partial(x, h)
<1>0. n \in Nat /\ DOMAIN s = 1 .. n /\ \A i \in 1 .. n : s[i] \in E
    OBVIOUS
<1>a. \A v \in S, e \in E : step[<<v, e>>] \in S
    BY DEF FoldSteps
<1>1. ASSUME NEW x \in SUBSET (1 .. n) PROVE Partial(x, H(x))
    <2> DEFINE st == [p \in Nat \X S |-> IF p[1] + 1 \in x THEN step[<<p[2], s[p[1] + 1]>>]
                                         ELSE p[2]]
    <2>1. ASSUME NEW p \in Nat \X S PROVE st[p] \in S
        BY <1>0, <1>a
    <2>2. st \in Steps(S) BY <2>1 DEF Steps
    <2>3. \A i \in Nat, v \in S :
            st[<<i, v>>] = IF i + 1 \in x THEN step[<<v, s[i + 1]>>] ELSE v
        OBVIOUS
    <2> HIDE DEF st
    <2>4. PICK h : Recurs(h, S, base, st)
        BY <2>2, Recursion
    <2>5. h \in [Nat -> S] /\ h[0] = base
        BY <2>4 DEF Recurs
    <2>6. ASSUME NEW i \in Nat
          PROVE  h[i + 1] = IF i + 1 \in x THEN step[<<h[i], s[i + 1]>>] ELSE h[i]
        <3>1. h[i + 1] = st[<<i, h[i]>>] /\ h[i] \in S
            BY <2>4 DEF Recurs
        <3> QED BY <2>3, <3>1
    <2>7. Partial(x, h) BY <2>5, <2>6
    <2> HIDE DEF Partial
    <2> QED BY <2>7
<1> HIDE DEF H
<1>2. ASSUME NEW x \in SUBSET (1 .. n), NEW y \in SUBSET (1 .. n), NEW j \in Nat,
             \A i \in 1 .. j : i \in x <=> i \in y
      PROVE  H(x)[j] = H(y)[j]
    <2> DEFINE U == {k \in Nat : k <= j => H(x)[k] = H(y)[k]}
    <2>1. 0 \in U BY <1>1
    <2>2. ASSUME NEW k \in Nat, k \in U PROVE k + 1 \in U
        <3> SUFFICES ASSUME k + 1 <= j PROVE H(x)[k + 1] = H(y)[k + 1]
            OBVIOUS
        <3>1. H(x)[k] = H(y)[k] BY <2>2
        <3>2. k + 1 \in x <=> k + 1 \in y BY <1>2
        <3>3. H(x)[k + 1] = IF k + 1 \in x THEN step[<<H(x)[k], s[k + 1]>>] ELSE H(x)[k]
            BY <1>1
        <3>4. H(y)[k + 1] = IF k + 1 \in y THEN step[<<H(y)[k], s[k + 1]>>] ELSE H(y)[k]
            BY <1>1
        <3> QED BY <3>1, <3>2, <3>3, <3>4
    <2> HIDE DEF U
    <2>3. j \in U BY <2>1, <2>2, NatSetInduction
    <2> QED BY <2>3 DEF U
<1>3. ASSUME NEW x \in SUBSET (1 .. n), NEW j \in 0 .. n, \A i \in x : i <= j
      PROVE  H(x)[n] = H(x)[j]
    <2> DEFINE U == {k \in Nat : H(x)[j + k] = H(x)[j]}
    <2>1. 0 \in U BY <1>0
    <2>2. ASSUME NEW k \in Nat, k \in U PROVE k + 1 \in U
        <3>1. j + k \in Nat /\ (j + k) + 1 \notin x /\ (j + k) + 1 = j + (k + 1)
            BY <1>0, <1>3
        <3>2. H(x)[(j + k) + 1] = H(x)[j + k] BY <1>1, <3>1
        <3> QED BY <2>2, <3>1, <3>2
    <2> HIDE DEF U
    <2>3. n - j \in U BY <1>0, <2>1, <2>2, NatSetInduction
    <2>4. j + (n - j) = n BY <1>0
    <2> USE DEF U
    <2> QED BY <2>3, <2>4
<1> DEFINE it == [x \in SUBSET DOMAIN s |-> H(x)[n]]
<1>4. ASSUME NEW x \in SUBSET (1 .. n)
      PROVE  H(x)[n] = IF x = {} THEN base
                       ELSE step[<<H(x \ {Max(x)})[n], s[Max(x)]>>]
    <2>1. CASE x = {}
        <3>1. H(x)[n] = H(x)[0] BY <1>0, <1>3, <2>1
        <3> QED BY <1>1, <2>1, <3>1
    <2>2. CASE x # {}
        <3> DEFINE m == Max(x)
                   y == x \ {m}
        <3>1. m \in 1 .. n /\ m \in x /\ \A i \in x : i <= m
            BY <1>0, <2>2, MaxIsLast
        <3> HIDE DEF m
        <3>2. H(x)[n] = H(x)[m] BY <1>0, <1>3, <3>1
        <3>3. m - 1 \in Nat /\ m - 1 \in 0 .. n /\ (m - 1) + 1 = m BY <1>0, <3>1
        <3>4. H(x)[m] = step[<<H(x)[m - 1], s[m]>>]
            BY <1>1, <3>1, <3>3
        <3>5. y \in SUBSET (1 .. n) /\ (\A i \in y : i <= m - 1)
              /\ \A i \in 1 .. m - 1 : i \in x <=> i \in y
            BY <1>0, <3>1
        <3>6. H(y)[n] = H(y)[m - 1] BY <1>3, <3>3, <3>5
        <3>7. H(x)[m - 1] = H(y)[m - 1] BY <1>2, <3>3, <3>5
        <3> QED BY <2>2, <3>2, <3>4, <3>6, <3>7 DEF m
    <2> QED BY <2>1, <2>2
<1>5. \A x \in SUBSET DOMAIN s : it[x] = H(x)[n] OBVIOUS
<1>6. \A x \in SUBSET DOMAIN s : x \ {Max(x)} \in SUBSET DOMAIN s OBVIOUS
<1>7. it = [x \in SUBSET DOMAIN s |->
              IF x = {} THEN base ELSE step[<<it[x \ {Max(x)}], s[Max(x)]>>]]
    BY <1>0, <1>4, <1>5, <1>6
<1>8. \A x \in SUBSET DOMAIN s : it[x] \in S
    BY <1>0, <1>1
<1> QED BY <1>7, <1>8 DEF FoldsTo

LEMMA PrefixSets ==
    ASSUME NEW E, NEW s \in Seq(E)
    PROVE  /\ DOMAIN s = 1 .. Len(s)
           /\ 1 .. 0 = {} /\ {} \in SUBSET DOMAIN s
           /\ \A i \in 1 .. Len(s) :
                 /\ 1 .. i \in SUBSET DOMAIN s /\ 1 .. i # {}
                 /\ 1 .. (i - 1) \in SUBSET DOMAIN s
                 /\ Max(1 .. i) = i /\ (1 .. i) \ {i} = 1 .. (i - 1)
                 /\ s[i] \in E
           /\ \A x \in SUBSET DOMAIN s : x # {} =>
                 /\ x \ {Max(x)} \in SUBSET DOMAIN s
                 /\ Max(x) \in DOMAIN s /\ s[Max(x)] \in E
<1>1. DOMAIN s = 1 .. Len(s) /\ Len(s) \in Nat /\ 1 .. 0 = {} OBVIOUS
<1>2. ASSUME NEW i \in 1 .. Len(s)
      PROVE  /\ 1 .. i \in SUBSET DOMAIN s /\ 1 .. i # {}
             /\ Max(1 .. i) = i /\ (1 .. i) \ {i} = 1 .. (i - 1)
             /\ 1 .. (i - 1) \in SUBSET DOMAIN s /\ s[i] \in E
    <2>1. i \in Nat /\ i \in 1 .. i /\ \A k \in 1 .. i : k \in DOMAIN s BY <1>1
    <2>2. 1 .. i \in SUBSET DOMAIN s /\ 1 .. i # {} BY <2>1
    <2>3. 1 .. i \in SUBSET (1 .. i) OBVIOUS
    <2>4. Max(1 .. i) \in 1 .. i /\ \A k \in 1 .. i : k <= Max(1 .. i)
        BY <2>1, <2>2, <2>3, MaxIsLast
    <2>5. Max(1 .. i) = i BY <2>1, <2>4
    <2>6. (1 .. i) \ {i} = 1 .. (i - 1) BY <1>1
    <2> QED BY <2>2, <2>5, <2>6
<1>3. ASSUME NEW x \in SUBSET DOMAIN s, x # {}
      PROVE  Max(x) \in DOMAIN s /\ s[Max(x)] \in E
    <2>1. x \in SUBSET (1 .. Len(s)) /\ Len(s) \in Nat BY <1>1
    <2>2. Max(x) \in x BY <1>3, <2>1, MaxIsLast
    <2> QED BY <2>2
<1> QED BY <1>1, <1>2, <1>3

(***************************************************************************)
(* The value of a fold, and how it goes along the sequence.                *)
(***************************************************************************)
Fold(step, base, s) == (CHOOSE it : FoldsTo(it, step, base, s))[DOMAIN s]

Goes(it, S, step, base, s) ==
    /\ it[1 .. 0] = base
    /\ \A i \in 1 .. Len(s) : it[1 .. (i - 1)] \in S =>
          it[1 .. i] = step[<<it[1 .. (i - 1)], s[i]>>]

LEMMA FoldValue ==
    ASSUME NEW S, NEW E, NEW base \in S, NEW step \in FoldSteps(S, E),
           NEW s \in Seq(E), NEW it, Goes(it, S, step, base, s)
    PROVE  it[DOMAIN s] = Fold(step, base, s) /\ it[DOMAIN s] \in S
<1>a. \A v \in S, e \in E : step[<<v, e>>] \in S
    BY DEF FoldSteps
<1>c. /\ it[1 .. 0] = base
      /\ \A i \in 1 .. Len(s) : it[1 .. (i - 1)] \in S =>
            it[1 .. i] = step[<<it[1 .. (i - 1)], s[i]>>]
    BY DEF Goes
<1>b. Len(s) \in Nat /\ \A i \in 1 .. Len(s) : s[i] \in E
    OBVIOUS
<1> DEFINE jt == CHOOSE t : FoldsTo(t, step, base, s)
<1>1. FoldsTo(jt, step, base, s) BY FoldExists
<1> HIDE DEF jt
<1>2. \A x \in SUBSET DOMAIN s :
        jt[x] = IF x = {} THEN base ELSE step[<<jt[x \ {Max(x)}], s[Max(x)]>>]
    BY <1>1 DEF FoldsTo
<1>3. jt[1 .. 0] = base
    BY <1>2, PrefixSets
<1>4. ASSUME NEW i \in 1 .. Len(s) PROVE jt[1 .. i] = step[<<jt[1 .. (i - 1)], s[i]>>]
    <2>1. /\ 1 .. i \in SUBSET DOMAIN s /\ 1 .. i # {}
          /\ Max(1 .. i) = i /\ (1 .. i) \ {i} = 1 .. (i - 1)
        BY PrefixSets
    <2> QED BY <1>2, <2>1
<1> DEFINE U == {i \in Nat : i <= Len(s) => it[1 .. i] = jt[1 .. i] /\ it[1 .. i] \in S}
<1>5. 0 \in U BY <1>3, <1>c
<1>6. ASSUME NEW i \in Nat, i \in U PROVE i + 1 \in U
    <2> SUFFICES ASSUME i + 1 <= Len(s)
                 PROVE  it[1 .. (i + 1)] = jt[1 .. (i + 1)] /\ it[1 .. (i + 1)] \in S
        OBVIOUS
    <2>1. it[1 .. i] = jt[1 .. i] /\ it[1 .. i] \in S BY <1>6, <1>b
    <2>2. i + 1 \in 1 .. Len(s) /\ (i + 1) - 1 = i BY <1>b
    <2>3. it[1 .. (i + 1)] = step[<<it[1 .. i], s[i + 1]>>] BY <1>c, <2>1, <2>2
    <2>4. jt[1 .. (i + 1)] = step[<<jt[1 .. i], s[i + 1]>>] BY <1>4, <2>2
    <2>5. s[i + 1] \in E BY <1>b, <2>2
    <2> QED BY <2>1, <2>3, <2>4, <2>5, <1>a
<1> HIDE DEF U
<1>7. Len(s) \in U BY <1>5, <1>6, <1>b, NatSetInduction
<1>8. it[1 .. Len(s)] = jt[1 .. Len(s)] /\ it[1 .. Len(s)] \in S BY <1>7, <1>b DEF U
<1> QED BY <1>8, PrefixSets DEF Fold, jt

LEMMA FoldIteration ==
    ASSUME NEW S, NEW E, NEW base \in S, NEW step \in FoldSteps(S, E),
           NEW s \in Seq(E)
    PROVE  \E it : /\ Goes(it, S, step, base, s)
                   /\ \A i \in 1 .. Len(s) :
                         it[1 .. i] = step[<<it[1 .. (i - 1)], s[i]>>]
<1>1. PICK it : FoldsTo(it, step, base, s) BY FoldExists
<1>2. \A x \in SUBSET DOMAIN s :
        it[x] = IF x = {} THEN base ELSE step[<<it[x \ {Max(x)}], s[Max(x)]>>]
    BY <1>1 DEF FoldsTo
<1>3. it[1 .. 0] = base BY <1>2, PrefixSets
<1>4. ASSUME NEW i \in 1 .. Len(s) PROVE it[1 .. i] = step[<<it[1 .. (i - 1)], s[i]>>]
    <2>1. /\ 1 .. i \in SUBSET DOMAIN s /\ 1 .. i # {}
          /\ Max(1 .. i) = i /\ (1 .. i) \ {i} = 1 .. (i - 1)
        BY PrefixSets
    <2> QED BY <1>2, <2>1
<1> QED BY <1>3, <1>4 DEF Goes

LEMMA FoldType ==
    ASSUME NEW S, NEW E, NEW base \in S, NEW step \in FoldSteps(S, E),
           NEW s \in Seq(E)
    PROVE  Fold(step, base, s) \in S
<1>1. PICK it : Goes(it, S, step, base, s)
    BY FoldIteration
<1> QED BY <1>1, FoldValue

Solves(it, S, step, base, s) ==
    /\ it[{}] = base
    /\ \A x \in SUBSET DOMAIN s :
          x # {} /\ it[x \ {Max(x)}] \in S =>
              it[x] = step[<<it[x \ {Max(x)}], s[Max(x)]>>]

LEMMA FoldSolution ==
    ASSUME NEW S, NEW E, NEW base \in S, NEW step \in FoldSteps(S, E),
           NEW s \in Seq(E), NEW it, Solves(it, S, step, base, s)
    PROVE  it[DOMAIN s] = Fold(step, base, s)
<1>0. /\ it[{}] = base
      /\ \A x \in SUBSET DOMAIN s :
            x # {} /\ it[x \ {Max(x)}] \in S =>
                it[x] = step[<<it[x \ {Max(x)}], s[Max(x)]>>]
    BY DEF Solves
<1>1. it[1 .. 0] = base BY <1>0, PrefixSets
<1>2. ASSUME NEW i \in 1 .. Len(s), it[1 .. (i - 1)] \in S
      PROVE  it[1 .. i] = step[<<it[1 .. (i - 1)], s[i]>>]
    <2>1. /\ 1 .. i \in SUBSET DOMAIN s /\ 1 .. i # {}
          /\ Max(1 .. i) = i /\ (1 .. i) \ {i} = 1 .. (i - 1)
        BY PrefixSets
    <2>2. (1 .. i) \ {Max(1 .. i)} = 1 .. (i - 1) BY <2>1
    <2>3. it[1 .. i] = step[<<it[(1 .. i) \ {Max(1 .. i)}], s[Max(1 .. i)]>>]
        BY <1>0, <1>2, <2>1, <2>2
    <2> QED BY <2>1, <2>2, <2>3
<1>3. Goes(it, S, step, base, s) BY <1>1, <1>2 DEF Goes
<1> QED BY <1>3, FoldValue

LEMMA FoldNothing ==
    ASSUME NEW S, NEW E, NEW base \in S, NEW step \in FoldSteps(S, E),
           NEW s \in Seq(E)
    PROVE  Len(s) = 0 => Fold(step, base, s) = base
<1>1. PICK it : Goes(it, S, step, base, s)
    BY FoldIteration
<1>2. it[DOMAIN s] = Fold(step, base, s)
    BY <1>1, FoldValue
<1>3. Len(s) = 0 => DOMAIN s = 1 .. 0 OBVIOUS
<1>4. it[1 .. 0] = base BY <1>1 DEF Goes
<1> QED BY <1>2, <1>3, <1>4

LEMMA FoldEmpty ==
    ASSUME NEW S, NEW E, NEW base \in S, NEW step \in FoldSteps(S, E)
    PROVE  Fold(step, base, <<>>) = base
<1> DEFINE s == <<>>
<1>1. s \in Seq(E) /\ Len(s) = 0 OBVIOUS
<1> HIDE DEF s
<1>2. Fold(step, base, s) = base BY <1>1, FoldNothing
<1> QED BY <1>2 DEF s

LEMMA FoldAppend ==
    ASSUME NEW S, NEW E, NEW base \in S, NEW step \in FoldSteps(S, E),
           NEW s \in Seq(E), NEW e \in E
    PROVE  Fold(step, base, Append(s, e)) = step[<<Fold(step, base, s), e>>]
<1> DEFINE t == Append(s, e)
           n == Len(s)
<1>1. /\ t \in Seq(E) /\ Len(t) = n + 1 /\ n \in Nat /\ t[n + 1] = e
      /\ \A i \in 1 .. n : t[i] = s[i]
      /\ DOMAIN t = 1 .. (n + 1) /\ DOMAIN s = 1 .. n
    OBVIOUS
<1> HIDE DEF t
<1>2. PICK it : /\ Goes(it, S, step, base, t)
                /\ \A i \in 1 .. Len(t) :
                      it[1 .. i] = step[<<it[1 .. (i - 1)], t[i]>>]
    BY <1>1, FoldIteration
<1>3. it[DOMAIN t] = Fold(step, base, t)
    BY <1>1, <1>2, FoldValue
<1>4. it[DOMAIN s] = Fold(step, base, s)
    <2>1. \A i \in 1 .. n : i \in 1 .. Len(t) /\ t[i] = s[i] BY <1>1
    <2>2. \A i \in 1 .. n : it[1 .. i] = step[<<it[1 .. (i - 1)], s[i]>>]
        BY <1>2, <2>1
    <2>3. Goes(it, S, step, base, s) BY <1>2, <2>2 DEF Goes
    <2> QED BY <2>3, FoldValue
<1>5. it[1 .. (n + 1)] = step[<<it[1 .. n], e>>]
    <2>1. n + 1 \in 1 .. Len(t) /\ (n + 1) - 1 = n BY <1>1
    <2> QED BY <1>1, <1>2, <2>1
<1> QED BY <1>1, <1>3, <1>4, <1>5 DEF t

LEMMA FoldConcat ==
    ASSUME NEW S, NEW E, NEW base \in S, NEW step \in FoldSteps(S, E),
           NEW s \in Seq(E), NEW t \in Seq(E)
    PROVE  Fold(step, base, s \o t) = Fold(step, Fold(step, base, s), t)
<1> DEFINE U == {u \in Seq(E) :
                    Fold(step, base, s \o u) = Fold(step, Fold(step, base, s), u)}
<1>1. Fold(step, base, s) \in S BY FoldType
<1>2. <<>> \in U
    <2>1. <<>> \in Seq(E) /\ s \o <<>> = s OBVIOUS
    <2> QED BY <1>1, <2>1, FoldEmpty
<1>3. ASSUME NEW u \in Seq(E), NEW e \in E, u \in U PROVE Append(u, e) \in U
    <2> DEFINE su == s \o u
    <2>1. s \o Append(u, e) = Append(su, e) /\ su \in Seq(E) /\ Append(u, e) \in Seq(E)
        OBVIOUS
    <2> HIDE DEF su
    <2>2. Fold(step, base, Append(su, e)) = step[<<Fold(step, base, su), e>>]
        BY <2>1, FoldAppend
    <2>3. Fold(step, Fold(step, base, s), Append(u, e))
             = step[<<Fold(step, Fold(step, base, s), u), e>>]
        BY <1>1, FoldAppend
    <2> QED BY <1>3, <2>1, <2>2, <2>3 DEF su
<1> HIDE DEF U
<1>4. t \in U BY <1>2, <1>3, SeqSetInduction
<1> QED BY <1>4 DEF U

-----------------------------------------------------------------------------
(***************************************************************************)
(* FlattenSeq: joined one after the other, and so with one more sequence   *)
(* what it is without it, followed by that one.                            *)
(***************************************************************************)
Joins(f, E, seqs) ==
    /\ f \in [1 .. Len(seqs) -> Seq(E)]
    /\ f[1] = seqs[1]
    /\ \A i \in 2 .. Len(seqs) : f[i] = f[i - 1] \o seqs[i]

LEMMA FlatJoins ==
    ASSUME NEW E, NEW seqs \in Seq(Seq(E)), Len(seqs) # 0
    PROVE  \E f : Joins(f, E, seqs) /\ FlattenSeq(seqs) = f[Len(seqs)]
<1> DEFINE n == Len(seqs)
           next(k) == IF k + 2 <= n THEN seqs[k + 2] ELSE <<>>
           step == [p \in Nat \X Seq(E) |-> p[2] \o next(p[1])]
           Eqn(f) == f = [i \in 1 .. n |-> IF i = 1 THEN seqs[i]
                                          ELSE f[i - 1] \o seqs[i]]
           jt == CHOOSE f : Eqn(f)
<1>1. n \in Nat /\ n >= 1 /\ \A i \in 1 .. n : seqs[i] \in Seq(E) OBVIOUS
<1>2. \A k \in Nat : next(k) \in Seq(E)
    <2>1. \A k \in Nat : k + 2 <= n => k + 2 \in 1 .. n BY <1>1
    <2>2. <<>> \in Seq(E) OBVIOUS
    <2> QED BY <1>1, <2>1, <2>2
<1> HIDE DEF next
<1>3. step \in Steps(Seq(E))
    <2>1. ASSUME NEW p \in Nat \X Seq(E) PROVE p[2] \o next(p[1]) \in Seq(E)
        <3>1. p[1] \in Nat /\ p[2] \in Seq(E) OBVIOUS
        <3>2. next(p[1]) \in Seq(E) BY <1>2, <3>1
        <3> QED BY <3>1, <3>2
    <2> QED BY <2>1 DEF Steps
<1>4. \A k \in Nat, s \in Seq(E) : step[<<k, s>>] = s \o next(k) OBVIOUS
<1> HIDE DEF step
<1>5. PICK g : Recurs(g, Seq(E), seqs[1], step)
    <2>1. seqs[1] \in Seq(E) BY <1>1
    <2> QED BY <1>3, <2>1, Recursion
<1>6. g \in [Nat -> Seq(E)] /\ g[0] = seqs[1]
    BY <1>5 DEF Recurs
<1>7. ASSUME NEW k \in Nat PROVE g[k + 1] = g[k] \o next(k)
    <2>1. g[k + 1] = step[<<k, g[k]>>] /\ g[k] \in Seq(E) BY <1>5, <1>6 DEF Recurs
    <2> QED BY <1>4, <2>1
<1> DEFINE h == [i \in 1 .. n |-> g[i - 1]]
<1>8. h \in [1 .. n -> Seq(E)] /\ h[1] = seqs[1]
    <2>1. \A i \in 1 .. n : g[i - 1] \in Seq(E)
        <3>1. \A i \in 1 .. n : i - 1 \in Nat BY <1>1
        <3> QED BY <1>6, <3>1
    <2>2. 1 \in 1 .. n /\ 1 - 1 = 0 BY <1>1
    <2>3. h[1] = g[0] BY <2>2
    <2> QED BY <1>6, <2>1, <2>3
<1>9. ASSUME NEW i \in 1 .. n, i # 1 PROVE h[i] = h[i - 1] \o seqs[i]
    <2>1. /\ i - 2 \in Nat /\ i - 1 \in 1 .. n /\ (i - 2) + 1 = i - 1
          /\ (i - 2) + 2 = i /\ (i - 1) - 1 = i - 2 /\ i <= n
        BY <1>1, <1>9
    <2>2. g[i - 1] = g[i - 2] \o next(i - 2) BY <1>7, <2>1
    <2>3. next(i - 2) = seqs[i] BY <2>1 DEF next
    <2> QED BY <2>1, <2>2, <2>3
<1>10. Eqn(h)
    <2>1. \A i \in 1 .. n : h[i] = IF i = 1 THEN seqs[i] ELSE h[i - 1] \o seqs[i]
        BY <1>8, <1>9
    <2>2. h = [i \in 1 .. n |-> h[i]] BY SMTT(40)
    <2> HIDE DEF h
    <2> QED BY <2>1, <2>2
<1> HIDE DEF h
<1>11. Eqn(jt) BY <1>10
<1>12. FlattenSeq(seqs) = jt[n] BY DEF FlattenSeq
<1> HIDE DEF jt
<1>13. \A i \in 1 .. n : jt[i] = IF i = 1 THEN seqs[i] ELSE jt[i - 1] \o seqs[i]
    BY <1>11
<1>14. DOMAIN jt = 1 .. n /\ jt = [i \in 1 .. n |-> jt[i]] BY <1>11
<1> HIDE DEF Eqn
<1> DEFINE T == {k \in Nat : k + 1 \in 1 .. n => jt[k + 1] \in Seq(E)}
<1>15. 0 \in T
    <2>1. 1 \in 1 .. n BY <1>1
    <2> QED BY <1>1, <1>13, <2>1
<1>16. ASSUME NEW k \in Nat, k \in T PROVE k + 1 \in T
    <2> SUFFICES ASSUME (k + 1) + 1 \in 1 .. n PROVE jt[(k + 1) + 1] \in Seq(E)
        OBVIOUS
    <2>1. /\ k + 1 \in 1 .. n /\ ((k + 1) + 1) - 1 = k + 1 /\ (k + 1) + 1 # 1
        BY <1>1
    <2>2. jt[(k + 1) + 1] = jt[k + 1] \o seqs[(k + 1) + 1] BY <1>13, <2>1
    <2>3. jt[k + 1] \in Seq(E) BY <1>16, <2>1
    <2>4. seqs[(k + 1) + 1] \in Seq(E) BY <1>1
    <2> QED BY <2>2, <2>3, <2>4
<1> HIDE DEF T
<1>17. Nat \subseteq T BY <1>15, <1>16, NatSetInduction
<1>18. \A i \in 1 .. n : jt[i] \in Seq(E)
    <2> TAKE i \in 1 .. n
    <2>1. i - 1 \in Nat /\ (i - 1) + 1 = i BY <1>1
    <2> QED BY <1>17, <2>1 DEF T
<1>19. jt[1] = seqs[1]
    <2>1. 1 \in 1 .. n BY <1>1
    <2> QED BY <1>13, <2>1
<1>20. \A i \in 2 .. n : jt[i] = jt[i - 1] \o seqs[i]
    <2>1. \A i \in 2 .. n : i \in 1 .. n /\ i # 1 BY <1>1
    <2> QED BY <1>13, <2>1
<1>21. Joins(jt, E, seqs) BY <1>14, <1>18, <1>19, <1>20 DEF Joins
<1> QED BY <1>12, <1>21

LEMMA FlatType ==
    ASSUME NEW E, NEW seqs \in Seq(Seq(E))
    PROVE  /\ FlattenSeq(seqs) \in Seq(E)
           /\ Len(seqs) = 0 => FlattenSeq(seqs) = <<>>
<1>1. CASE Len(seqs) = 0
    <2>1. seqs = <<>> /\ <<>> \in Seq(E) BY <1>1
    <2> QED BY <1>1, <2>1 DEF FlattenSeq
<1>2. CASE Len(seqs) # 0
    <2>1. PICK f : Joins(f, E, seqs) /\ FlattenSeq(seqs) = f[Len(seqs)]
        BY <1>2, FlatJoins
    <2>2. Len(seqs) \in 1 .. Len(seqs) BY <1>2
    <2> QED BY <1>2, <2>1, <2>2 DEF Joins
<1> QED BY <1>1, <1>2

LEMMA FlatAlong ==
    ASSUME NEW E, NEW s \in Seq(Seq(E)), NEW t \in Seq(Seq(E)),
           Len(t) = Len(s) + 1, \A i \in 1 .. Len(s) : t[i] = s[i]
    PROVE  FlattenSeq(t) = FlattenSeq(s) \o t[Len(t)]
<1> DEFINE n == Len(s)
<1>1. n \in Nat /\ Len(t) = n + 1 /\ n + 1 \in 1 .. (n + 1) /\ t[n + 1] \in Seq(E)
    OBVIOUS
<1>2. PICK g : Joins(g, E, t) /\ FlattenSeq(t) = g[n + 1]
    <2>1. Len(t) # 0 BY <1>1
    <2>2. \E g : Joins(g, E, t) /\ FlattenSeq(t) = g[Len(t)]
        BY <2>1, FlatJoins
    <2> QED BY <1>1, <2>2
<1>3. CASE n = 0
    <2>1. FlattenSeq(s) = <<>> BY <1>3, FlatType
    <2>2. FlattenSeq(t) = t[1] BY <1>2, <1>3 DEF Joins
    <2>3. <<>> \o t[1] = t[1] BY <1>1, <1>3
    <2> QED BY <1>1, <1>3, <2>1, <2>2, <2>3
<1>4. CASE n # 0
    <2>1. PICK f : Joins(f, E, s) /\ FlattenSeq(s) = f[n]
        BY <1>4, FlatJoins
    <2> DEFINE T == {k \in Nat : k + 1 \in 1 .. n => f[k + 1] = g[k + 1]}
    <2>2. 0 \in T
        <3>1. 1 \in 1 .. n BY <1>1, <1>4
        <3>2. f[1] = s[1] /\ g[1] = t[1] BY <1>2, <2>1 DEF Joins
        <3> QED BY <3>1, <3>2
    <2>3. ASSUME NEW k \in Nat, k \in T PROVE k + 1 \in T
        <3> SUFFICES ASSUME (k + 1) + 1 \in 1 .. n
                     PROVE  f[(k + 1) + 1] = g[(k + 1) + 1]
            OBVIOUS
        <3>1. /\ k + 1 \in 1 .. n /\ ((k + 1) + 1) - 1 = k + 1
              /\ (k + 1) + 1 \in 2 .. n /\ (k + 1) + 1 \in 2 .. (n + 1)
            BY <1>1
        <3>2. /\ f[(k + 1) + 1] = f[k + 1] \o s[(k + 1) + 1]
              /\ g[(k + 1) + 1] = g[k + 1] \o t[(k + 1) + 1]
            BY <1>1, <1>2, <2>1, <3>1 DEF Joins
        <3>3. f[k + 1] = g[k + 1] BY <2>3, <3>1
        <3> QED BY <3>2, <3>3
    <2> HIDE DEF T
    <2>4. Nat \subseteq T BY <2>2, <2>3, NatSetInduction
    <2>5. n - 1 \in Nat /\ (n - 1) + 1 = n /\ n \in 1 .. n BY <1>1, <1>4
    <2>6. f[n] = g[n] BY <2>4, <2>5 DEF T
    <2>7. g[n + 1] = g[n] \o t[n + 1]
        <3>1. n + 1 \in 2 .. (n + 1) /\ (n + 1) - 1 = n BY <1>1, <1>4
        <3> QED BY <1>1, <1>2, <3>1 DEF Joins
    <2> QED BY <1>1, <1>2, <2>1, <2>6, <2>7
<1> QED BY <1>3, <1>4

-----------------------------------------------------------------------------
(***************************************************************************)
(* The exclusive or of two bytes is a byte, does not depend on their order *)
(* and undoes itself: four bits first, then bytes.                         *)
(***************************************************************************)
Bits(x, y, z, t) == x + 2 * y + 4 * z + 8 * t

LEMMA NibbleHasBits ==
    \A n \in Nibble : \E x, y, z, t \in {0, 1} : n = Bits(x, y, z, t)
BY DEF Nibble, Bits

LEMMA XorOfBits ==
    ASSUME NEW x \in {0, 1}, NEW y \in {0, 1}, NEW z \in {0, 1}, NEW t \in {0, 1},
           NEW p \in {0, 1}, NEW q \in {0, 1}, NEW r \in {0, 1}, NEW s \in {0, 1}
    PROVE  NibbleXor[Bits(x, y, z, t)][Bits(p, q, r, s)]
              = Bits((x + p) % 2, (y + q) % 2, (z + r) % 2, (t + s) % 2)
<1> DEFINE a == Bits(x, y, z, t)
           b == Bits(p, q, r, s)
<1>1. a \in Nibble /\ b \in Nibble
    BY DEF Nibble, Bits
<1>2. /\ a \div 1 = a /\ a \div 2 = y + 2 * z + 4 * t
      /\ a \div 4 = z + 2 * t /\ a \div 8 = t
    BY DEF Bits
<1>3. /\ b \div 1 = b /\ b \div 2 = q + 2 * r + 4 * s
      /\ b \div 4 = r + 2 * s /\ b \div 8 = s
    BY DEF Bits
<1>4. NibbleXor[a][b] = XorBit(a, b, 1) + XorBit(a, b, 2)
                          + XorBit(a, b, 4) + XorBit(a, b, 8)
    BY <1>1 DEF NibbleXor
<1>5. XorBit(a, b, 1) = (x + p) % 2 BY <1>2, <1>3 DEF XorBit, Bits
<1>6. XorBit(a, b, 2) = 2 * ((y + q) % 2) BY <1>2, <1>3 DEF XorBit
<1>7. XorBit(a, b, 4) = 4 * ((z + r) % 2) BY <1>2, <1>3 DEF XorBit
<1>8. XorBit(a, b, 8) = 8 * ((t + s) % 2) BY <1>2, <1>3 DEF XorBit
<1> HIDE DEF a, b
<1>9. NibbleXor[a][b] = Bits((x + p) % 2, (y + q) % 2, (z + r) % 2, (t + s) % 2)
    BY <1>4, <1>5, <1>6, <1>7, <1>8 DEF Bits
<1> QED BY <1>9 DEF a, b

LEMMA NibbleXorUndoes ==
    ASSUME NEW a \in Nibble, NEW b \in Nibble
    PROVE  /\ NibbleXor[a][b] \in Nibble
           /\ NibbleXor[a][b] = NibbleXor[b][a]
           /\ NibbleXor[NibbleXor[a][b]][b] = a
<1>1. PICK x, y, z, t \in {0, 1} : a = Bits(x, y, z, t) BY NibbleHasBits
<1>2. PICK p, q, r, s \in {0, 1} : b = Bits(p, q, r, s) BY NibbleHasBits
<1> DEFINE X == (x + p) % 2
           Y == (y + q) % 2
           Z == (z + r) % 2
           T == (t + s) % 2
<1>3. /\ X \in {0, 1} /\ Y \in {0, 1} /\ Z \in {0, 1} /\ T \in {0, 1}
      /\ (p + x) % 2 = X /\ (q + y) % 2 = Y /\ (r + z) % 2 = Z /\ (s + t) % 2 = T
      /\ (X + p) % 2 = x /\ (Y + q) % 2 = y /\ (Z + r) % 2 = z /\ (T + s) % 2 = t
    OBVIOUS
<1>4. NibbleXor[a][b] = Bits(X, Y, Z, T)
    <2>1. NibbleXor[Bits(x, y, z, t)][Bits(p, q, r, s)]
             = Bits((x + p) % 2, (y + q) % 2, (z + r) % 2, (t + s) % 2)
        BY XorOfBits
    <2> QED BY <1>1, <1>2, <2>1
<1>5. NibbleXor[b][a] = Bits((p + x) % 2, (q + y) % 2, (r + z) % 2, (s + t) % 2)
    BY <1>1, <1>2, XorOfBits
<1> HIDE DEF X, Y, Z, T
<1>6. NibbleXor[Bits(X, Y, Z, T)][b]
         = Bits((X + p) % 2, (Y + q) % 2, (Z + r) % 2, (T + s) % 2)
    BY <1>2, <1>3, XorOfBits
<1>7. Bits(X, Y, Z, T) \in Nibble BY <1>3 DEF Bits, Nibble
<1> QED BY <1>1, <1>3, <1>4, <1>5, <1>6, <1>7

LEMMA XorUndoes ==
    ASSUME NEW a \in Byte, NEW b \in Byte
    PROVE  /\ XorByte(a, b) \in Byte
           /\ XorByte(a, b) = XorByte(b, a)
           /\ XorByte(XorByte(a, b), b) = a
<1>1. \A n \in Byte : /\ n \div 16 \in Nibble /\ n % 16 \in Nibble
                      /\ n = 16 * (n \div 16) + (n % 16)
    BY DEF Byte, Nibble
<1>2. \A h, l \in Nibble : /\ 16 * h + l \in Byte
                           /\ (16 * h + l) \div 16 = h /\ (16 * h + l) % 16 = l
    BY DEF Byte, Nibble
<1>3. \A h, l \in Nibble : /\ NibbleXor[h][l] \in Nibble
                           /\ NibbleXor[h][l] = NibbleXor[l][h]
                           /\ NibbleXor[NibbleXor[h][l]][l] = h
    BY NibbleXorUndoes
<1> DEFINE ah == a \div 16
           al == a % 16
           bh == b \div 16
           bl == b % 16
<1>4. /\ ah \in Nibble /\ al \in Nibble /\ bh \in Nibble /\ bl \in Nibble
      /\ a = 16 * ah + al
    BY <1>1
<1>5. XorByte(a, b) = 16 * NibbleXor[ah][bh] + NibbleXor[al][bl] BY DEF XorByte
<1>6. XorByte(b, a) = 16 * NibbleXor[bh][ah] + NibbleXor[bl][al] BY DEF XorByte
<1> HIDE DEF ah, al, bh, bl
<1>7. /\ XorByte(a, b) \div 16 = NibbleXor[ah][bh]
      /\ XorByte(a, b) % 16 = NibbleXor[al][bl]
      /\ XorByte(a, b) \in Byte
    BY <1>2, <1>3, <1>4, <1>5
<1>8. XorByte(XorByte(a, b), b)
         = 16 * NibbleXor[NibbleXor[ah][bh]][bh] + NibbleXor[NibbleXor[al][bl]][bl]
    BY <1>7 DEF XorByte, bh, bl
<1> QED BY <1>3, <1>4, <1>5, <1>6, <1>7, <1>8

LEMMA NibbleXorAssociates ==
    ASSUME NEW a \in Nibble, NEW b \in Nibble, NEW c \in Nibble
    PROVE  NibbleXor[NibbleXor[a][b]][c] = NibbleXor[a][NibbleXor[b][c]]
<1>1. PICK x, y, z, t \in {0, 1} : a = Bits(x, y, z, t) BY NibbleHasBits
<1>2. PICK p, q, r, s \in {0, 1} : b = Bits(p, q, r, s) BY NibbleHasBits
<1>3. PICK k, l, m, n \in {0, 1} : c = Bits(k, l, m, n) BY NibbleHasBits
<1> DEFINE X == (x + p) % 2
           Y == (y + q) % 2
           Z == (z + r) % 2
           T == (t + s) % 2
           K == (p + k) % 2
           L == (q + l) % 2
           M == (r + m) % 2
           N == (s + n) % 2
<1>4. /\ X \in {0, 1} /\ Y \in {0, 1} /\ Z \in {0, 1} /\ T \in {0, 1}
      /\ K \in {0, 1} /\ L \in {0, 1} /\ M \in {0, 1} /\ N \in {0, 1}
    OBVIOUS
<1>5. /\ (X + k) % 2 = (x + K) % 2 /\ (Y + l) % 2 = (y + L) % 2
      /\ (Z + m) % 2 = (z + M) % 2 /\ (T + n) % 2 = (t + N) % 2
    OBVIOUS
<1>6. NibbleXor[a][b] = Bits(X, Y, Z, T) BY <1>1, <1>2, XorOfBits
<1>7. NibbleXor[b][c] = Bits(K, L, M, N) BY <1>2, <1>3, XorOfBits
<1> HIDE DEF X, Y, Z, T, K, L, M, N
<1>8. NibbleXor[Bits(X, Y, Z, T)][c]
         = Bits((X + k) % 2, (Y + l) % 2, (Z + m) % 2, (T + n) % 2)
    BY <1>3, <1>4, XorOfBits
<1>9. NibbleXor[a][Bits(K, L, M, N)]
         = Bits((x + K) % 2, (y + L) % 2, (z + M) % 2, (t + N) % 2)
    BY <1>1, <1>4, XorOfBits
<1> QED BY <1>5, <1>6, <1>7, <1>8, <1>9

LEMMA XorParts ==
    ASSUME NEW a \in Byte, NEW b \in Byte
    PROVE  /\ a \div 16 \in Nibble /\ a % 16 \in Nibble
           /\ XorByte(a, b) \div 16 = NibbleXor[a \div 16][b \div 16]
           /\ XorByte(a, b) % 16 = NibbleXor[a % 16][b % 16]
<1>1. \A n \in Byte : n \div 16 \in Nibble /\ n % 16 \in Nibble
    BY DEF Byte, Nibble
<1>2. \A h, l \in Nibble : (16 * h + l) \div 16 = h /\ (16 * h + l) % 16 = l
    BY DEF Nibble
<1>3. /\ NibbleXor[a \div 16][b \div 16] \in Nibble
      /\ NibbleXor[a % 16][b % 16] \in Nibble
    BY <1>1, NibbleXorUndoes
<1> QED BY <1>1, <1>2, <1>3 DEF XorByte

LEMMA XorAssociates ==
    ASSUME NEW a \in Byte, NEW b \in Byte, NEW c \in Byte
    PROVE  XorByte(XorByte(a, b), c) = XorByte(a, XorByte(b, c))
<1>1. XorByte(a, b) \in Byte /\ XorByte(b, c) \in Byte BY XorUndoes
<1>2. /\ XorByte(a, b) \div 16 = NibbleXor[a \div 16][b \div 16]
      /\ XorByte(a, b) % 16 = NibbleXor[a % 16][b % 16]
      /\ a \div 16 \in Nibble /\ a % 16 \in Nibble
    BY XorParts
<1>3. /\ XorByte(b, c) \div 16 = NibbleXor[b \div 16][c \div 16]
      /\ XorByte(b, c) % 16 = NibbleXor[b % 16][c % 16]
      /\ b \div 16 \in Nibble /\ b % 16 \in Nibble
    BY XorParts
<1>4. c \div 16 \in Nibble /\ c % 16 \in Nibble BY XorParts
<1>5. /\ NibbleXor[NibbleXor[a \div 16][b \div 16]][c \div 16]
            = NibbleXor[a \div 16][NibbleXor[b \div 16][c \div 16]]
      /\ NibbleXor[NibbleXor[a % 16][b % 16]][c % 16]
            = NibbleXor[a % 16][NibbleXor[b % 16][c % 16]]
    BY <1>2, <1>3, <1>4, NibbleXorAssociates
<1> QED BY <1>2, <1>3, <1>5 DEF XorByte

(***************************************************************************)
(* So it tells its operands apart.                                         *)
(***************************************************************************)
LEMMA XorInjective ==
    ASSUME NEW a \in Byte, NEW b \in Byte, NEW c \in Byte
    PROVE  /\ XorByte(a, c) = XorByte(b, c) => a = b
           /\ XorByte(c, a) = XorByte(c, b) => a = b
<1>1. /\ XorByte(XorByte(a, c), c) = a /\ XorByte(XorByte(b, c), c) = b
      /\ XorByte(c, a) = XorByte(a, c) /\ XorByte(c, b) = XorByte(b, c)
    BY XorUndoes
<1> QED BY <1>1

LEMMA FlippedIsByte ==
    ASSUME NEW n \in Byte, NEW weight \in {1, 2, 4, 8, 16, 32, 64, 128}
    PROVE  FlipBit(n, weight) \in Byte /\ FlipBit(n, weight) # n
BY DEF FlipBit, Flip, Byte

==============================================================================
