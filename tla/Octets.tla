-------------------------------- MODULE Octets --------------------------------
(***************************************************************************)
(* Bytes, their bits and their exclusive or, in arithmetic: a bit is named *)
(* by its weight, and the exclusive or goes by the tables of four bits.    *)
(***************************************************************************)
EXTENDS Integers

Byte == 0 .. 255
Nibble == 0 .. 15

Flip(n, weight) == weight * (1 - 2 * ((n \div weight) % 2))
FlipBit(n, weight) == n + Flip(n, weight)

XorBit(a, b, weight) == weight * ((a \div weight + b \div weight) % 2)

NibbleXor ==
    [a \in Nibble |-> [b \in Nibble |->
        XorBit(a, b, 1) + XorBit(a, b, 2) + XorBit(a, b, 4) + XorBit(a, b, 8)]]

XorByte(a, b) ==
    16 * NibbleXor[a \div 16][b \div 16] + NibbleXor[a % 16][b % 16]
===============================================================================
