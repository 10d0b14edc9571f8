------------------------------- MODULE ObisText -------------------------------
(***************************************************************************)
(* The text of an OBIS code (include/dlms/core/obis.hpp).  A character is  *)
(* a digit or Separator, which stands for "-", ":", "." and any other: the *)
(* reader takes every one of them.  (A sign where a number is due, which   *)
(* it would take as well, comes in no text of to_canonical, whole or cut.) *)
(***************************************************************************)
EXTENDS ByteBuffer

Digit == 0 .. 9
Separator == 10

Leftovers == {0, 77, 1001}  \* what an uninitialised int may hold

Digits(n) ==
    IF n < 10 THEN <<n>>
    ELSE IF n < 100 THEN <<n \div 10, n % 10>>
    ELSE <<n \div 100, (n \div 10) % 10, n % 10>>

UpTo(code) ==  \* its text up to the k-th number
    LET upTo[k \in 1 .. 6] ==
          IF k = 1 THEN Digits(code[1])
          ELSE Append(upTo[k - 1], Separator) \o Digits(code[k])
    IN  upTo

ToCanonical(code) == UpTo(code)[6]

(***************************************************************************)
(* The loop of from_string, by characters: the numbers it has gone beyond, *)
(* the one it is in, and whether a digit must come next, may come, or an   *)
(* error or the end of the sixth number has been met.                      *)
(***************************************************************************)
Scanned(s, char) ==
    IF s.at \in {"end", "error"} THEN s
    ELSE IF char \in Digit
    THEN [s EXCEPT !.at = "number", !.number = 10 * @ + char]
    ELSE IF s.at = "due" THEN [s EXCEPT !.at = "error"]
    ELSE IF Len(s.numbers) = 5 THEN [s EXCEPT !.at = "end"]
    ELSE [at |-> "due", numbers |-> Append(s.numbers, s.number), number |-> 0]

Scan(text) ==
    FoldLeft(Scanned, [at |-> "due", numbers |-> <<>>, number |-> 0], text)

(***************************************************************************)
(* Reading ends without an error where a separator is missing, and the     *)
(* numbers that were not read are what the stack holds: a set of results.  *)
(***************************************************************************)
FromString(text) ==
    LET s == Scan(text)
        read == Append(s.numbers, s.number)
        code(numbers) == IF \A i \in 1 .. 6 : numbers[i] \in Byte
                         THEN Got(numbers, Len(text)) ELSE Error("InvalidObis")
    IN  IF s.at \in {"due", "error"} THEN {Error("InvalidObis")}
        ELSE {code(read \o rest) : rest \in [1 .. 6 - Len(read) -> Leftovers]}
=============================================================================
