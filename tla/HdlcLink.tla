------------------------------ MODULE HdlcLink ------------------------------
(***************************************************************************)
(* HDLC frames on a byte stream: the meter writes frames with to_bytes, the*)
(* stream cuts and joins them as it likes, one bit may be flipped on the   *)
(* way, and every read hands what arrived to HdlcFrame::from_bytes, as     *)
(* DlmsClient::connect does.  Nothing in the code looks for the flags that *)
(* end one frame and begin the next.                                       *)
(***************************************************************************)
EXTENDS HdlcCodec

CONSTANTS
    Frames,    \* the frames written
    MaxFrames  \* bound: frames written

ASSUME FramesAssumption == Frames \subseteq HdlcFrame

VARIABLES
    sent,    \* the frames written, in order
    wire,    \* the bytes not read yet
    damaged, \* a bit was flipped
    chunk,   \* the bytes of the last read
    got      \* what from_bytes made of them

vars == <<sent, wire, damaged, chunk, got>>

Nothing == Error("nothing read")

Init ==
    /\ sent = <<>>
    /\ wire = <<>>
    /\ damaged = FALSE
    /\ chunk = <<>>
    /\ got = Nothing

Write(frame) ==
    /\ Len(sent) < MaxFrames
    /\ chunk = <<>>
    /\ ~damaged
    /\ sent' = Append(sent, frame)
    /\ wire' = wire \o ToBytes(frame)
    /\ UNCHANGED <<damaged, chunk, got>>

Damage(i, weight) ==  \* one bit of the only frame written (external: the line)
    /\ ~damaged
    /\ Len(sent) = 1
    /\ chunk = <<>>
    /\ wire' = [wire EXCEPT ![i] = FlipBit(@, weight)]
    /\ damaged' = TRUE
    /\ UNCHANGED <<sent, chunk, got>>

Read(n) ==
    /\ damaged => n = Len(wire)
    /\ chunk' = SubSeq(wire, 1, n)
    /\ wire' = SubSeq(wire, n + 1, Len(wire))
    /\ got' = FromBytes(SubSeq(wire, 1, n))
    /\ UNCHANGED <<sent, damaged>>

Next ==
    \/ \E frame \in Frames : Write(frame)
    \/ \E i \in 1 .. Len(wire), weight \in {1, 2, 4, 8, 16, 32, 64, 128} :
           Damage(i, weight)
    \/ \E n \in 1 .. Len(wire) : Read(n)

Spec == Init /\ [][Next]_vars

-----------------------------------------------------------------------------
(***************************************************************************)
(* Frames as a meter answers them, which the decoder can take apart again: *)
(* one byte for each address, numbers of three bits, information in I and  *)
(* UI frames only.  (For the others see UFrameInformation and              *)
(* PhysicalAddressIsRead.)                                                 *)
(***************************************************************************)
OneByteAddress(type, address) ==
    /\ address.type = type
    /\ address.logical < 128
    /\ address.physical = <<>>

Answer ==
    {frame \in HdlcFrame :
        /\ frame.format.length < 2048
        /\ OneByteAddress("Client", frame.dest)
        /\ OneByteAddress("Server", frame.source)
        /\ frame.control.ns < 8 /\ frame.control.nr < 8
        /\ frame.control.type # "Unknown"
        /\ frame.control.type # "Information" => frame.control.ns = 0
        /\ frame.control.type \notin {"Information", "RR"} => frame.control.nr = 0
        /\ frame.information # <<>> => frame.control.type \in {"Information", "UI"}}

SentAs(bytes) == {i \in DOMAIN sent : ToBytes(sent[i]) = bytes}

(***************************************************************************)
(* A chunk that is one frame, whatever it holds, is decoded to the frame   *)
(* that was written, every field of it (to_bytes and from_bytes).          *)
(* ClientSession assumes this of from_bytes (ChunkIsFrame).                *)
(***************************************************************************)
FrameIsRead ==
    chunk # <<>> =>
        \A i \in SentAs(chunk) : sent[i] \in Answer => got = Ok(sent[i])

(***************************************************************************)
(* No part of a frame, no two frames read together and no end of one joined*)
(* to the beginning of the next is ever taken for a frame (ChunkIsFrame).  *)
(***************************************************************************)
OneFrameOnly ==
    ~damaged /\ chunk # <<>> /\ got.ok => SentAs(chunk) # {}

(***************************************************************************)
(* A frame with one bit flipped anywhere, in a flag, an escape byte or     *)
(* what it escapes, in the address, the header check or the payload, is    *)
(* never accepted (the HCS is not verified, but the FCS covers it).        *)
(***************************************************************************)
DamageDetected == damaged => ~got.ok

(***************************************************************************)
(* Bytes whose content is that of a frame but for one byte, in whatever    *)
(* bits, are never accepted: the CRC tells every two such contents apart,  *)
(* however long they are (Crc16::calculate, Crc16::verify).                *)
(***************************************************************************)
OneByteApart(s, t) ==
    /\ Len(s) = Len(t)
    /\ \E i \in DOMAIN s :
          /\ s[i] # t[i]
          /\ \A j \in DOMAIN s \ {i} : s[j] = t[j]

WrongByteDetected ==
    chunk # <<>> =>
        \A i \in DOMAIN sent :
            OneByteApart(Content(ToBytes(sent[i])), Content(chunk)) => ~got.ok

(***************************************************************************)
(* A frame with one byte changed on the line, into any other byte, is      *)
(* never accepted, as long as no escape byte is made or unmade: a flag that*)
(* is lost is missed, and inside the frame the bytes fall apart as before, *)
(* so that one byte of the content is wrong (from_bytes, hdlc_unescape,    *)
(* Crc16::verify).                                                         *)
(***************************************************************************)
EscapesAgree(s, t) == \A j \in DOMAIN s : s[j] = Escape <=> t[j] = Escape

WrongByteOnWireDetected ==
    chunk # <<>> =>
        \A i \in DOMAIN sent :
            LET bytes == ToBytes(sent[i])
            IN  OneByteApart(bytes, chunk) /\ EscapesAgree(bytes, chunk) => ~got.ok

(***************************************************************************)
(* Every read is answered by a frame or by one of the errors of the code,  *)
(* and a frame has addresses, numbers and information of the widths it can *)
(* hold.                                                                   *)
(***************************************************************************)
Decoded(answer) ==
    IF answer.ok
    THEN /\ answer.val.dest.logical \in 0 .. 127
         /\ answer.val.source.logical \in Nat /\ answer.val.source.logical < 16384
         /\ answer.val.control.ns \in 0 .. 7 /\ answer.val.control.nr \in 0 .. 7
         /\ answer.val.information \in Seq(Byte)
    ELSE answer.err \in {"nothing read", "InvalidData", "BufferUnderflow", "CrcError"}

TypeOK ==
    /\ sent \in Seq(Frames)
    /\ wire \in Seq(Byte)
    /\ chunk \in Seq(Byte)
    /\ damaged \in BOOLEAN
    /\ Decoded(got)

-----------------------------------------------------------------------------
(***************************************************************************)
(* frame.cpp, "HCS for I-frames and U-frames with info": the information of*)
(* a U frame is read after its header check.  (The condition asks whether  *)
(* information, not yet read, is empty, so the header check of an SNRM or  *)
(* UA with parameters becomes part of them.)                               *)
(***************************************************************************)
UFrameInformation ==
    ~damaged /\ got.ok =>
        \A i \in SentAs(chunk) : got.val.information = sent[i].information

(***************************************************************************)
(* address.cpp, "Read physical address if present": a server address with  *)
(* a physical part keeps it.  (to_bytes writes one byte for each part when *)
(* they are small, and parse takes the two for a long logical address.)    *)
(***************************************************************************)
PhysicalAddressIsRead ==
    ~damaged /\ got.ok =>
        \A i \in SentAs(chunk) : got.val.source = sent[i].source
=============================================================================
