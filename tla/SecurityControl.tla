---------------------------- MODULE SecurityControl ----------------------------
(***************************************************************************)
(* SecurityControlField (include/dlms/security/security.hpp): the byte that*)
(* names the suite and the protections of a ciphered message.              *)
(***************************************************************************)
EXTENDS ByteBuffer

Bit == [authenticated |-> 16, encrypted |-> 32,
        broadcast_key |-> 64, compressed |-> 128]

FlagsOf(byte) == {flag \in DOMAIN Bit : (byte \div Bit[flag]) % 2 = 1}

FromByte(byte) == [security_suite |-> byte % 16, flags |-> FlagsOf(byte)]

ToByte(field) ==
    LET bit(flag) == IF flag \in field.flags THEN Bit[flag] ELSE 0
    IN  (field.security_suite % 16) + bit("authenticated") + bit("encrypted")
          + bit("broadcast_key") + bit("compressed")
================================================================================
