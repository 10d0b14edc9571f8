------------------------------ MODULE HdlcCodec ------------------------------
(***************************************************************************)
(* HDLC frames and their bytes (src/dlms/hdlc): frame.cpp, address.cpp and *)
(* crc.cpp.  Bytes are numbers; a decoder returns [ok |-> TRUE, val |-> v] *)
(* or [ok |-> FALSE, err |-> e].                                           *)
(***************************************************************************)
EXTENDS Octets, Sequences, SequencesExt

Flag == 126    \* HDLC_FLAG_BYTE, 0x7E
Escape == 125  \* HDLC_ESCAPE_BYTE, 0x7D

Word == {n \in Nat : n < 65536}  \* uint16_t

HighByte(w) == (w \div 256) % 256
LowByte(w) == w % 256

Ok(v) == [ok |-> TRUE, val |-> v]
Error(e) == [ok |-> FALSE, err |-> e]

-----------------------------------------------------------------------------
(***************************************************************************)
(* Crc16: polynomial 0x1021, bits of a byte taken from the lowest, the     *)
(* result complemented and reversed byte by byte.  The reversals of the    *)
(* code cancel out when the register is kept reversed from the beginning;  *)
(* the polynomial is then 0x8408, and the byte the code calls lsb, its     *)
(* first, is the high byte of the reversed register.                       *)
(***************************************************************************)
Shift ==  \* one turn of table()'s inner loop
    [crc \in Word |->
        LET half == crc \div 2
        IN  IF crc % 2 = 1
            THEN half + 32768 + Flip(half, 1024) + Flip(half, 8) ELSE half]

Table == [b \in Byte |->
    Shift[Shift[Shift[Shift[Shift[Shift[Shift[Shift[b]]]]]]]]]

CrcOfByte(crc, b) ==
    LET entry == Table[XorByte(LowByte(crc), b)]
    IN  256 * HighByte(entry) + XorByte(HighByte(crc), LowByte(entry))

Register(crc, bytes) == FoldLeft(CrcOfByte, crc, bytes)

Crc(bytes) ==
    LET crc == Register(65535, bytes)
    IN  <<255 - HighByte(crc), 255 - LowByte(crc)>>

-----------------------------------------------------------------------------
(***************************************************************************)
(* Byte stuffing.  0x5E and 0x5D are escaped like the flag and the escape  *)
(* byte are, and so 0x5E becomes 0x7D 0x7E.  A trailing escape byte stands *)
(* for itself.                                                             *)
(***************************************************************************)
Escaped == {Flag, Escape, 94, 93}

StuffedFlagOnly(out, b) ==  \* mutation: the escape byte is not escaped
    out \o (IF b = Flag THEN <<Escape, XorByte(b, 32)>> ELSE <<b>>)

StuffByte(out, b) ==
    out \o (IF b \in Escaped THEN <<Escape, XorByte(b, 32)>> ELSE <<b>>)

Stuff(bytes) == FoldLeft(StuffByte, <<>>, bytes)  \* hdlc_escape

UnstuffByte(state, b) ==
    IF state.escaping
    THEN [out |-> Append(state.out, XorByte(b, 32)), escaping |-> FALSE]
    ELSE IF b = Escape THEN [state EXCEPT !.escaping = TRUE]
    ELSE [state EXCEPT !.out = Append(@, b)]

Unstuff(bytes) ==  \* hdlc_unescape
    LET end == FoldLeft(UnstuffByte, [out |-> <<>>, escaping |-> FALSE], bytes)
    IN  IF end.escaping THEN Append(end.out, Escape) ELSE end.out

-----------------------------------------------------------------------------
(***************************************************************************)
(* FrameFormat: two bytes, 0xA000 with the segmentation bit and an 11-bit  *)
(* length (which nothing sets, and nothing compares with the frame).       *)
(***************************************************************************)
FormatToBytes(format) ==
    LET w == 40960 + (format.length % 2048) + (IF format.segmented THEN 2048 ELSE 0)
    IN  <<HighByte(w), LowByte(w)>>

FormatFromBytes(bytes) ==
    IF Len(bytes) < 2 THEN Error("BufferUnderflow")
    ELSE IF bytes[1] \div 16 # 10 THEN Error("InvalidData")
    ELSE Ok([length |-> (bytes[1] % 8) * 256 + bytes[2],
             segmented |-> (bytes[1] \div 8) % 2 = 1])

(***************************************************************************)
(* ControlField.  (The field raw is left out: nothing reads it.)           *)
(***************************************************************************)
UCode == [SNRM |-> 131, UA |-> 99, Disconnect |-> 67, UI |-> 3]

ControlToByte(control) ==
    LET final == IF control.final THEN 16 ELSE 0
    IN  CASE control.type = "Information" ->
                (control.ns % 8) * 2 + final + (control.nr % 8) * 32
          [] control.type \in DOMAIN UCode -> UCode[control.type] + final
          [] control.type = "RR" -> (1 + control.nr * 32 + final) % 256
          [] control.type = "Unknown" -> 0

SendNumberUnmasked(b) == b \div 2  \* mutation: & 0x07 is missing
SendNumber(b) == (b \div 2) % 8

ControlFromByte(b) ==
    LET final == (b \div 16) % 2 = 1
        code == IF final THEN b - 16 ELSE b
        named == {t \in DOMAIN UCode : UCode[t] = code}
        nr == b \div 32
        control(t, s, r) == [type |-> t, ns |-> s, nr |-> r, final |-> final]
    IN  IF b % 2 = 0 THEN control("Information", SendNumber(b), nr)
        ELSE IF named # {} THEN control(CHOOSE t \in named : TRUE, 0, 0)
        ELSE IF b % 4 = 1 THEN control("RR", 0, nr)
        ELSE control("Unknown", 0, 0)

(***************************************************************************)
(* HdlcAddress: [type, logical, physical], physical a sequence of at most  *)
(* one number (std::optional).  to_bytes writes the high part first and    *)
(* unshifted, parse reads the low part first.                              *)
(***************************************************************************)
AddressToBytes(address) ==
    LET high(n) == IF (n \div 128) % 256 # 0 THEN <<(n \div 128) % 256>> ELSE <<>>
        low(n, last) == <<(n % 128) * 2 + last>>
        l == address.logical
    IN  CASE address.type = "Client" -> <<(2 * l + 1) % 256>>
          [] address.type = "Server" /\ address.physical = <<>> ->
                high(l) \o low(l, 1)
          [] address.type = "Server" /\ address.physical # <<>> ->
                LET p == address.physical[1]
                IN  high(l) \o low(l, 0) \o high(p) \o low(p, 1)

AddressParse(bytes, type) ==
    LET n == Len(bytes)
        seven(i) == bytes[i] \div 2
        ended(i) == bytes[i] % 2 = 1
        pair(i) == seven(i) + 128 * seven(i + 1)
    IN  [type |-> type,
         logical |-> IF n = 0 THEN 0
                     ELSE IF type = "Server" /\ ~ended(1) /\ n > 1 THEN pair(1)
                     ELSE seven(1),
         physical |-> IF type = "Server" /\ n > 3 /\ ~ended(1) /\ ~ended(2)
                      THEN <<pair(3)>> ELSE <<>>]

AddressBytes(bytes) ==  \* up to the first byte whose lowest bit is set
    SubSeq(bytes, 1,
           LET ends == {i \in DOMAIN bytes : bytes[i] % 2 = 1}
           IN  IF ends = {} THEN Len(bytes)
               ELSE CHOOSE i \in ends : \A j \in ends : i <= j)

-----------------------------------------------------------------------------
(***************************************************************************)
(* HdlcFrame and its constructors.                                         *)
(***************************************************************************)
ControlType == {"Information", "SNRM", "UA", "Disconnect", "UI", "RR", "Unknown"}

HdlcAddress ==
    [type : {"Client", "Server"}, logical : Word,
     physical : {<<>>} \union [1 .. 1 -> Word]]

HdlcFrame ==
    [format : [length : Nat, segmented : BOOLEAN],
     dest : HdlcAddress, source : HdlcAddress,
     control : [type : ControlType, ns : Nat, nr : Nat, final : BOOLEAN],
     information : Seq(Byte)]

Client(n) == [type |-> "Client", logical |-> n, physical |-> <<>>]
Server(n) == [type |-> "Server", logical |-> n, physical |-> <<>>]
Control(type, ns, nr) == [type |-> type, ns |-> ns, nr |-> nr, final |-> TRUE]

Frame(dest, source, control, information) ==
    [format |-> [length |-> 0, segmented |-> FALSE],
     dest |-> dest, source |-> source, control |-> control,
     information |-> information]

MakeSnrm(c, s) == Frame(Server(s), Client(c), Control("SNRM", 0, 0), <<>>)
MakeUa(c, s) == Frame(Client(c), Server(s), Control("UA", 0, 0), <<>>)
MakeRr(c, s, nr) == Frame(Client(c), Server(s), Control("RR", 0, nr), <<>>)
MakeInformation(c, s, ns, nr, payload) ==
    Frame(Server(s), Client(c), Control("Information", ns, nr), payload)
MakeDisconnect(c, s) ==
    Frame(Server(s), Client(c), Control("Disconnect", 0, 0), <<>>)

(***************************************************************************)
(* to_bytes: a header check sequence whenever there is information.        *)
(***************************************************************************)
ToBytes(frame) ==
    LET header == FormatToBytes(frame.format) \o AddressToBytes(frame.dest)
                    \o AddressToBytes(frame.source)
                    \o <<ControlToByte(frame.control)>>
        body == IF frame.information = <<>> THEN header
                ELSE header \o Crc(header) \o frame.information
    IN  <<Flag>> \o Stuff(body \o Crc(body)) \o <<Flag>>

(***************************************************************************)
(* from_bytes, on the content between the flags.  The two bytes of the     *)
(* header check sequence are skipped, by the type of the frame and whether *)
(* or not there is information; they are not verified.                     *)
(***************************************************************************)
Unchecked(content) == TRUE  \* mutation: the FCS is not compared
FcsMatches(content) ==
    LET n == Len(content)
    IN  Crc(SubSeq(content, 1, n - 2)) = SubSeq(content, n - 1, n)

ContentToFrame(content) ==
    LET format == FormatFromBytes(content)
        dest == AddressBytes(SubSeq(content, 3, Len(content)))
        source == AddressBytes(SubSeq(content, 3 + Len(dest), Len(content)))
        at == 3 + Len(dest) + Len(source)
        control == ControlFromByte(content[at])
        hasHcs == control.type \in {"Information", "UI"}
    IN  IF ~format.ok THEN format
        ELSE IF at > Len(content) THEN Error("BufferUnderflow")
        ELSE IF hasHcs /\ at + 2 > Len(content) THEN Error("BufferUnderflow")
        ELSE IF ~FcsMatches(content) THEN Error("CrcError")
        ELSE Ok([format |-> format.val,
                 dest |-> AddressParse(dest, "Client"),
                 source |-> AddressParse(source, "Server"),
                 control |-> control,
                 information |-> SubSeq(content, IF hasHcs THEN at + 3 ELSE at + 1,
                                        Len(content) - 2)])

Content(bytes) == Unstuff(SubSeq(bytes, 2, Len(bytes) - 1))

EndUnchecked(bytes) ==  \* mutation: the closing flag is not looked at
    IF Len(bytes) < 6 \/ bytes[1] # Flag THEN Error("InvalidData")
    ELSE ContentToFrame(Content(bytes))

FromBytes(bytes) ==
    LET n == Len(bytes)
    IN  IF n < 6 THEN Error("InvalidData")
        ELSE IF bytes[1] # Flag \/ bytes[n] # Flag THEN Error("InvalidData")
        ELSE ContentToFrame(Content(bytes))
=============================================================================
