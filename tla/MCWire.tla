-------------------------------- MODULE MCWire --------------------------------
(***************************************************************************)
(* Wire with every type of value, strings and APDUs on both sides of the   *)
(* limits of the length forms, groups in groups, counters on both sides of *)
(* each carry, and the test vector of the block cipher.                    *)
(***************************************************************************)
EXTENDS Wire

Bytes(n) == <<>> \o [i \in 1 .. n |-> (37 * i) % 256]

Simple ==
    {Scalar(t, Bytes(Width[t])) : t \in DOMAIN Width \ {"bool"}}
      \union {None, Scalar("dontcare", <<>>),
              Scalar("bool", <<0>>), Scalar("bool", <<1>>)}

Sized == {Scalar(t, Bytes(n)) : t \in {"octets", "string"}, n \in {0, 3}}

Long == {Scalar("octets", Bytes(n)) : n \in {127, 128, 255, 256}}

Small == Scalar("u8", <<7>>)
Text == Scalar("string", <<97, 98>>)
Pair == Group("structure", <<Small, Text>>)

Grouped ==
    {Group(t, items) : t \in Groups,
        items \in {<<>>, <<None>>, <<Small, Text>>, <<Pair, Pair>>,
                   <<Pair, Small, Small>>}}
      \union {Group("array", <<Group("structure",
                                     <<Group("array", <<Small>>), Text>>), None>>),
              Group("array", [i \in 1 .. 130 |-> None])}

MCValues == Simple \union Sized \union Long \union Grouped

AnAarq(mechanism, auth, user) ==
    [context |-> Bytes(9), mechanism |-> mechanism,
     auth |-> auth, user |-> user]

MCAarqs ==
    {AnAarq(m, Bytes(n), Bytes(u)) :
        m \in {<<>>, Bytes(7)}, n \in {0, 8}, u \in {0, 14}}
      \union {AnAarq(<<>>, Bytes(8), Bytes(130))}

AnAare(result, context, mechanism, user) ==
    [result |-> <<result>>, context |-> context, mechanism |-> mechanism,
     auth |-> Bytes(8), user |-> user]

MCAares ==
    {AnAare(r, Bytes(c), m, Bytes(14)) :
        r \in {0, 1}, c \in {0, 9}, m \in {<<>>, Bytes(7)}}
      \union {AnAare(0, Bytes(9), <<>>, Bytes(230))}

Element(tag, n) == [tag |-> tag, value |-> Bytes(n)]

MCElements ==
    {<<>>, <<Element(2, 1)>>,
     <<Element(4, 0), Element(ContextTag(30, TRUE), 5)>>,
     <<Element(ContextTag(0, FALSE), 128), Element(2, 2)>>}

MCTexts ==
    {[key |-> StandardText, text |-> t] :
        t \in {StandardText, Bytes(16), [i \in 1 .. 16 |-> 255]}}
      \union {[key |-> Bytes(16), text |-> StandardText]}

Secret(nonce, aad, text) ==
    [key |-> StandardText, nonce |-> nonce, aad |-> aad, text |-> text,
     length |-> 12]

(***************************************************************************)
(* A message that is accepted when it is cut to its first byte: the byte is*)
(* encrypted to zero, the tag of no text.                                  *)
(***************************************************************************)
Passing ==
    LET mask == EncryptBlock(RoundKeys(StandardText), FirstCounter(Bytes(8)))
    IN  [key |-> StandardText, nonce |-> Bytes(8), aad |-> <<>>,
         text |-> SubSeq(mask, 1, 1) \o Bytes(2), length |-> 1]

Nonces == {Bytes(12) \o low : low \in
    {<<>>, <<0, 255, 255, 255>>, <<255, 255, 255, 255>>, <<1, 2, 3, 254>>}}

MCSecrets ==
    {Secret(n, <<5, 5, 17>>, Bytes(18)) : n \in Nonces}
      \union {Secret(Bytes(8), a, Bytes(t)) : a \in {<<>>, Bytes(5)}, t \in {0, 16}}
      \union {Passing}

MCControls ==
    {[security_suite |-> n, flags |-> f] :
        n \in {0, 2, 5, 15}, f \in SUBSET DOMAIN Bit}

MCCodes == {<<1, 0, 1, 8, 0, 255>>, <<0, 0, 77, 255, 128, 9>>}

MCTails == {<<0>>, <<2, 1, 17>>, <<126>>}
===============================================================================
