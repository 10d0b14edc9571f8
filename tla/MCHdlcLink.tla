---------------------------- MODULE MCHdlcLink ----------------------------
(***************************************************************************)
(* HdlcLink for TLC.  Answers of a meter: addresses of one byte, sequence  *)
(* numbers at their ends, payloads that hold every byte that is escaped,   *)
(* next to each other and last, and the empty payload.                     *)
(***************************************************************************)
EXTENDS HdlcLink

Payload(payload, ns, nr) ==
    Frame(Client(16), Server(1), Control("Information", ns, nr), payload)

Answers == {MakeUa(16, 1), MakeRr(63, 63, 7),
            Payload(<<>>, 7, 0), Payload(<<125, 94>>, 0, 1),
            Payload(<<126, 93, 125>>, 1, 7)}

ParameterUa == {[MakeUa(16, 1) EXCEPT !.information = <<129, 128>>]}

PhysicalUa == {[MakeUa(16, 1) EXCEPT !.source.physical = <<1>>]}
=============================================================================
