------------------------------ MODULE ByteBuffer ------------------------------
(***************************************************************************)
(* ByteBuffer (include/dlms/core/byte_buffer.hpp) as operators: a reader is*)
(* given the bytes and the position pos_ and returns a value and the next  *)
(* position, or one of the code's errors; a writer returns what it appends.*)
(* Numbers are their bytes, high byte first, as write_u16 and the like put *)
(* them and read_u16 takes them.                                           *)
(***************************************************************************)
EXTENDS Octets, Sequences, SequencesExt

Error(e) == [ok |-> FALSE, err |-> e]
Got(value, next) == [ok |-> TRUE, val |-> value, pos |-> next]

ReadPadded(data, pos, n) ==  \* mutation: zeros from the end of the data on
    Got([i \in 1 .. n |-> IF pos + i <= Len(data) THEN data[pos + i] ELSE 0],
        pos + n)

ReadBytes(data, pos, n) ==
    IF pos + n > Len(data) THEN Error("BufferUnderflow")
    ELSE Got(SubSeq(data, pos + 1, pos + n), pos + n)

(***************************************************************************)
(* The decoders' loops: at most n items from a position on, as long as     *)
(* there are bytes and no error, with the item at each position.  A loop of*)
(* n items is written as two of half as many, one after the other, so that *)
(* a list of 130 items takes eight levels of evaluation and not 130.       *)
(***************************************************************************)
ReadMany(data, item, n, pos) ==
    LET loop[k \in Nat] ==
          [p \in Nat |->
              LET half == loop[k \div 2][p]
                  rest == loop[k - k \div 2][half.pos]
              IN  IF k = 0 \/ p >= Len(data) THEN Got(<<>>, p)
                  ELSE IF k = 1
                  THEN IF item[p].ok THEN Got(<<item[p].val>>, item[p].pos)
                       ELSE item[p]
                  ELSE IF ~half.ok THEN half
                  ELSE IF ~rest.ok THEN rest
                  ELSE Got(half.val \o rest.val, rest.pos)]
    IN  loop[n][pos]

(***************************************************************************)
(* Lengths and counts: one byte up to 127, else their number of bytes and  *)
(* the bytes.  Four bytes are read at most.  Huge stands for every number  *)
(* from 2^24 on: no buffer is that long.                                   *)
(***************************************************************************)
Huge == 16777216

NextDigit(n, b) == IF n >= 65536 THEN Huge ELSE n * 256 + b

Number(bytes) == FoldLeft(NextDigit, 0, bytes)

ReadVariableLength(data, pos) ==
    LET first == ReadBytes(data, pos, 1)
        count == first.val[1] % 128
        rest == ReadBytes(data, pos + 1, count)
    IN  IF ~first.ok THEN first
        ELSE IF first.val[1] < 128 THEN Got(first.val[1], pos + 1)
        ELSE IF count \notin 1 .. 4 THEN Error("InvalidLength")
        ELSE IF ~rest.ok THEN rest
        ELSE Got(Number(rest.val), rest.pos)

LengthBytes(n) ==
    IF n < 256 THEN <<n>>
    ELSE IF n < 65536 THEN <<n \div 256, n % 256>>
    ELSE <<n \div 65536, (n \div 256) % 256, n % 256>>

WriteOneByte(n) == <<n % 256>>  \* mutation: lengths of one byte only

WriteVariableLength(n) ==
    IF n <= 127 THEN <<n>>
    ELSE <<128 + Len(LengthBytes(n))>> \o LengthBytes(n)
=============================================================================
