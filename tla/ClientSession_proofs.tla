------------------------ MODULE ClientSession_proofs ------------------------
(***************************************************************************)
(* Theorems about ClientSession, for every value of its constants.         *)
(***************************************************************************)
EXTENDS ClientSession, TLAPS

(***************************************************************************)
(* Type correctness: in particular send_seq_ stays within its three bits.  *)
(***************************************************************************)
LEMMA EmptyLogs == <<>> \in Seq(Request) /\ <<>> \in Seq(Piece)
  OBVIOUS

LEMMA InitType == Init => TypeOK
  <1> SUFFICES ASSUME Init PROVE TypeOK
    OBVIOUS
  <1>1. call \in [op : Ops, up : BOOLEAN, res : Results]
    BY DEF Init, Ops, Results, Services
  <1>2. sendSeq \in SeqNumbers /\ recvSeq \in SeqNumbers /\ readPos \in Nat
    BY SessionAssumption DEF Init, SeqNumbers
  <1> QED BY <1>1, <1>2, EmptyLogs DEF Init, TypeOK

LEMMA NewRequestType ==
  ASSUME TypeOK PROVE NewRequest \in Request
  <1>1. FrameOf(call.op) \in Frames
    BY DEF TypeOK, FrameOf, Frames, Ops, Services
  <1>2. (IF call.op \in Services THEN sendSeq ELSE 0) \in SeqNumbers
    BY SessionAssumption DEF TypeOK, SeqNumbers
  <1> QED BY <1>1, <1>2 DEF NewRequest, Request

LEMMA NextSeqType ==
  ASSUME NEW n \in SeqNumbers PROVE NextSeq(n) \in SeqNumbers
  BY SessionAssumption DEF NextSeq, SeqNumbers

LEMMA NoteAnswerType ==
  ASSUME TypeOK, Available > 0, NoteAnswer
  PROVE  requests' \in Seq(Request)
  <1> DEFINE req == stream[readPos + 1].req
             n == Len(requests)
             noted == [requests[n] EXCEPT !.from = req, !.whole = ChunkIsFrame]
  <1>1. req \in Nat
    <2>1. stream[readPos + 1] \in Piece
      BY DEF TypeOK, Available
    <2> QED BY <2>1 DEF Piece
  <1>2. ChunkIsFrame \in BOOLEAN
    BY DEF ChunkIsFrame, ChunkAligned
  <1>3. CASE requests = <<>>
    <2>1. requests' = requests
      BY <1>3 DEF NoteAnswer
    <2> QED BY <2>1 DEF TypeOK
  <1>4. CASE requests # <<>>
    <2>1. n \in 1 .. n /\ requests[n] \in Request
      BY <1>4 DEF TypeOK
    <2>2. noted \in Request
      BY <1>1, <1>2, <2>1 DEF Request
    <2>3. requests' = [requests EXCEPT ![n] = noted]
      BY <2>1 DEF NoteAnswer
    <2> QED BY <2>1, <2>2, <2>3 DEF TypeOK
  <1> QED BY <1>3, <1>4

LEMMA FinishDisconnectType ==
  ASSUME TypeOK, FinishDisconnect PROVE TypeOK'
  <1>1. requests' \in Seq(Request) /\ stream' \in Seq(Piece)
    BY EmptyLogs DEF FinishDisconnect, CloseSocket
  <1>2. call' \in [op : Ops, up : BOOLEAN, res : Results]
    BY DEF FinishDisconnect, TypeOK, Results
  <1>3. transport' \in {"null", "serial", "invalid", "open"}
    BY DEF FinishDisconnect, TransportAfter, TypeOK
  <1> QED
    BY <1>1, <1>2, <1>3 DEF FinishDisconnect, PhaseAfter, CloseSocket, TypeOK

LEMMA LastAnsweredType ==
  ASSUME TypeOK PROVE LastAnswered \in Nat
  <1>1. stream # <<>> => stream[Len(stream)] \in Piece
    BY DEF TypeOK
  <1>2. \A p \in Piece : p.req \in Nat
    BY DEF Piece
  <1> QED BY <1>1, <1>2 DEF LastAnswered

LEMMA NextType == TypeOK /\ [Next]_vars => TypeOK'
  <1> SUFFICES ASSUME TypeOK, [Next]_vars PROVE TypeOK'
    OBVIOUS
  <1> USE SessionAssumption DEF Ops, Services, Results, Errors
  <1>1. CASE ConnectSerial
    BY <1>1 DEF ConnectSerial, TypeOK, Refuse, socket
  <1>2. CASE ConnectFails
    BY <1>2 DEF ConnectFails, TypeOK, Refuse, CloseSocket
  <1>3. CASE ConnectOpens
    BY <1>3 DEF ConnectOpens, TypeOK, Start
  <1>4. ASSUME NEW op \in {"disconnect", "destroy"}, DisconnectNow(op)
        PROVE  TypeOK'
    <2>1. requests' \in Seq(Request) /\ stream' \in Seq(Piece)
      BY <1>4, EmptyLogs DEF DisconnectNow, CloseSocket
    <2>2. call' \in [op : Ops, up : BOOLEAN, res : Results]
      BY <1>4 DEF DisconnectNow, TypeOK
    <2>3. transport' \in {"null", "serial", "invalid", "open"}
      BY <1>4 DEF DisconnectNow, TransportAfter, TypeOK
    <2> QED
      BY <1>4, <2>1, <2>2, <2>3
         DEF DisconnectNow, PhaseAfter, CloseSocket, TypeOK
  <1>5. ASSUME NEW op \in {"disconnect", "destroy"}, DisconnectStart(op)
        PROVE  TypeOK'
    BY <1>5 DEF DisconnectStart, TypeOK, Start, client, socket
  <1>6. ASSUME NEW op \in Services, ServiceRefused(op)
        PROVE  TypeOK'
    BY <1>6 DEF ServiceRefused, TypeOK, Refuse, client, socket
  <1>7. ASSUME NEW op \in Services, ServiceStart(op)
        PROVE  TypeOK'
    BY <1>7 DEF ServiceStart, TypeOK, Start, client, socket
  <1>8. CASE Send
    BY <1>8, NewRequestType DEF Send, TypeOK, client, socket
  <1>9. ASSUME NEW err \in {"Timeout", "ConnectionError"}, Fail(err)
        PROVE  TypeOK'
    BY <1>9, FinishDisconnectType DEF Fail, Return, TypeOK, client, socket
  <1>10. CASE PollTimeout
    BY <1>9, <1>10 DEF PollTimeout
  <1>11. CASE RecvError
    BY <1>9, <1>11 DEF RecvError
  <1>12. CASE Recv
    <2> USE <1>12 DEF Recv
    <2>1. ChunkSize \in Nat
      BY DEF Available, ChunkSize, TypeOK
    <2>2. CASE RecvConnect
      <3>1. requests' \in Seq(Request)
        BY <2>2, NoteAnswerType DEF RecvConnect
      <3>2. /\ connected' \in BOOLEAN
            /\ sendSeq' \in SeqNumbers
            /\ recvSeq' \in SeqNumbers
        <4>1. 0 \in SeqNumbers
          BY DEF SeqNumbers
        <4>2. CASE ChunkIsFrame
          BY <2>2, <4>1, <4>2 DEF RecvConnect
        <4>3. CASE ~ChunkIsFrame
          BY <2>2, <4>3 DEF RecvConnect, TypeOK
        <4> QED BY <4>2, <4>3
      <3>3. /\ call' \in [op : Ops, up : BOOLEAN, res : Results]
            /\ phase' = "idle"
        BY <2>2 DEF RecvConnect, Return, TypeOK
      <3> QED
        BY <2>1, <2>2, <3>1, <3>2, <3>3 DEF RecvConnect, Consume, TypeOK
    <2>3. CASE RecvService
      <3>1. requests' \in Seq(Request)
        BY <2>3, NoteAnswerType DEF RecvService
      <3>2. sendSeq' \in SeqNumbers
        BY <2>3, NextSeqType DEF RecvService, TypeOK
      <3>3. ServiceResult(call.op) \subseteq Results
        BY <2>3 DEF RecvService, ServiceResult
      <3>4. call' \in [op : Ops, up : BOOLEAN, res : Results]
        BY <2>3, <3>3 DEF RecvService, Return, TypeOK
      <3> QED
        BY <2>1, <2>3, <3>1, <3>2, <3>4 DEF RecvService, Return, Consume, TypeOK
    <2>4. CASE RecvDisconnect
      BY <2>4, FinishDisconnectType DEF RecvDisconnect
    <2> QED BY <2>2, <2>3, <2>4
  <1>13. CASE Killed
    BY <1>13 DEF Killed, TypeOK, client, socket
  <1>14. CASE AnswerStarts
    <2>1. PICK r \in LastAnswered + 1 .. Len(requests) :
            \E f \in AnswerTo(requests[r].frame) :
               stream' = Append(stream, [req |-> r, part |-> 1, frame |-> f])
      BY <1>14 DEF AnswerStarts
    <2>2. LastAnswered \in Nat
      BY LastAnsweredType
    <2>3. r \in Nat \ {0} /\ r \in 1 .. Len(requests)
      BY <2>2 DEF TypeOK
    <2>4. requests[r].frame \in Frames
      <3>1. requests[r] \in Request
        BY <2>3 DEF TypeOK
      <3> QED BY <3>1 DEF Request
    <2>5. PICK f \in AnswerTo(requests[r].frame) :
               stream' = Append(stream, [req |-> r, part |-> 1, frame |-> f])
      BY <2>1
    <2>6. f \in {"UA", "DM", "I"}
      BY <2>4, <2>5 DEF AnswerTo, Frames
    <2>7. [req |-> r, part |-> 1, frame |-> f] \in Piece
      BY <2>3, <2>6 DEF Piece
    <2> QED BY <1>14, <2>5, <2>7 DEF AnswerStarts, TypeOK, client
  <1>15. CASE AnswerContinues
    <2>1. stream[Len(stream)] \in Piece /\ stream[Len(stream)].part < Parts
      BY <1>15 DEF AnswerContinues, MidFrame, TypeOK
    <2>2. [stream[Len(stream)] EXCEPT !.part = @ + 1] \in Piece
      BY <2>1 DEF Piece
    <2> QED BY <1>15, <2>2 DEF AnswerContinues, TypeOK, client
  <1>16. CASE PeerCloses \/ PeerResets
    BY <1>16 DEF PeerCloses, PeerResets, TypeOK, client
  <1>17. CASE Ended \/ UNCHANGED vars
    BY <1>17 DEF Ended, TypeOK, vars, client, socket
  <1> QED
    BY <1>1, <1>2, <1>3, <1>4, <1>5, <1>6, <1>7, <1>8, <1>10, <1>11, <1>12,
       <1>13, <1>14, <1>15, <1>16, <1>17
       DEF Next, ClientStep, Answer

THEOREM TypeCorrect == Spec => []TypeOK
  BY InitType, NextType, PTL DEF Spec

-----------------------------------------------------------------------------
(***************************************************************************)
(* The log of a socket: LogInv is preserved by each thing that can happen  *)
(* to it.                                                                  *)
(***************************************************************************)
LEMMA PieceType ==
  ASSUME TypeOK, NEW p \in 1 .. Len(stream)
  PROVE  stream[p].req \in Nat \ {0} /\ stream[p].part \in 1 .. Parts
  <1>1. stream[p] \in Piece
    BY DEF TypeOK
  <1> QED BY <1>1 DEF Piece

LEMMA LogReset ==
  ASSUME requests' = <<>>, stream' = <<>>, readPos' = 0, phase' # "wait"
  PROVE  LogInv'
  BY DEF LogInv, StreamShape, ReadSoFar, Waiting, InSync, AnswersInOrder,
         InStep, Exchanges, Pieces

LEMMA LogSame ==
  ASSUME LogInv, UNCHANGED <<requests, stream, readPos>>,
         peer' = "absent" => peer = "absent",
         phase = "wait" <=> phase' = "wait"
  PROVE  LogInv'
  <1>1. Exchanges' = Exchanges /\ Pieces' = Pieces
    BY DEF Exchanges, Pieces
  <1>2. \A i : Own(i)' <=> Own(i)
    BY DEF Own
  <1>3. \A i : Answered(i)' <=> Answered(i)
    BY DEF Answered
  <1>4. StreamShape'
    BY <1>1 DEF LogInv, StreamShape
  <1>5. ReadSoFar' /\ AnswersInOrder'
    BY <1>3 DEF LogInv, ReadSoFar, AnswersInOrder
  <1>6. InStep' /\ InSync'
    BY <1>1, <1>2 DEF LogInv, InStep, InSync
  <1>7. Waiting'
    BY <1>3 DEF LogInv, Waiting, Unanswered, Answered
  <1> QED BY <1>4, <1>5, <1>6, <1>7 DEF LogInv

LEMMA LogSend ==
  ASSUME TypeOK, LogInv, Send PROVE LogInv'
  <1> DEFINE n == Len(requests)
  <1>1. /\ n \in Nat
        /\ Len(requests') = n + 1
        /\ requests'[n + 1] = NewRequest
        /\ \A i \in 1 .. n : requests'[i] = requests[i]
    BY DEF Send, TypeOK
  <1>2. UNCHANGED <<stream, readPos, peer>> /\ phase = "send" /\ phase' = "wait"
    BY DEF Send, socket
  <1>3. Exchanges = n /\ Exchanges' = n
    BY <1>1, <1>2 DEF Exchanges
  <1>4. NewRequest.from = 0 /\ NewRequest.whole = FALSE
    BY DEF NewRequest
  <1>5. StreamShape'
    <2>1. \A p \in Pieces : stream[p].req \in Nat
      BY PieceType DEF Pieces
    <2>2. StreamShape /\ stream' = stream /\ readPos' = readPos /\ peer' = peer
      BY <1>2 DEF LogInv
    <2>3. \A p \in Pieces : stream[p].req <= Len(requests')
      <3>1. \A p \in Pieces : stream[p].req <= n
        BY <2>2 DEF StreamShape
      <3> HIDE DEF n
      <3> QED BY <1>1, <2>1, <3>1
    <2>4. Pieces' = Pieces
      BY <2>2 DEF Pieces
    <2> HIDE DEF n
    <2> QED BY <2>2, <2>3, <2>4 DEF StreamShape
  <1>6. \A i \in 1 .. n : (Own(i)' <=> Own(i)) /\ (Answered(i)' <=> Answered(i))
    BY <1>1 DEF Own, Answered
  <1>7. ReadSoFar'
    BY <1>1, <1>2, <1>4, <1>6 DEF LogInv, ReadSoFar, Answered
  <1>8. Waiting'
    BY <1>1, <1>4 DEF Waiting, Unanswered, Answered
  <1>9. InSync'
    BY <1>1, <1>2, <1>3, <1>6 DEF LogInv, InSync
  <1>10. AnswersInOrder'
    BY <1>1, <1>4, <1>6, SMTT(40) DEF LogInv, AnswersInOrder, Answered
  <1>11. InStep'
    BY <1>1, <1>4, <1>6 DEF LogInv, InStep
  <1> QED
    BY <1>5, <1>7, <1>8, <1>9, <1>10, <1>11 DEF LogInv

LEMMA LogUnanswered ==
  ASSUME TypeOK, LogInv, phase = "wait", phase' = "idle",
         UNCHANGED <<requests, stream, readPos, peer>>
  PROVE  LogInv'
  <1> DEFINE n == Len(requests)
  <1>1. n \in Nat /\ n > 0 /\ ~Answered(n)
    BY DEF LogInv, Waiting, Unanswered, TypeOK
  <1>2. Exchanges' = n
    BY DEF Exchanges
  <1>3. ~Own(n)'
    BY <1>1 DEF Own, Answered
  <1>4. InSync'
    BY <1>1, <1>2, <1>3 DEF InSync
  <1>5. \A i : (Own(i)' <=> Own(i)) /\ (Answered(i)' <=> Answered(i))
    BY DEF Own, Answered
  <1>6. StreamShape'
    BY DEF LogInv, StreamShape, Pieces
  <1>7. ReadSoFar' /\ AnswersInOrder'
    BY <1>5 DEF LogInv, ReadSoFar, AnswersInOrder
  <1>8. InStep' /\ Waiting'
    BY <1>5 DEF LogInv, InStep, Waiting
  <1> QED BY <1>4, <1>6, <1>7, <1>8 DEF LogInv

(***************************************************************************)
(* A piece arrives: the stream keeps its shape, and nothing read changes.  *)
(***************************************************************************)
LEMMA LogArrival ==
  ASSUME TypeOK, LogInv, NEW e \in Piece,
         stream' = Append(stream, e),
         UNCHANGED <<requests, readPos, phase, peer>>, peer # "absent",
         e.req <= Len(requests),
         \/ /\ ~MidFrame
            /\ e.part = 1
            /\ stream # <<>> => stream[Len(stream)].req < e.req
         \/ /\ MidFrame
            /\ e.part = stream[Len(stream)].part + 1
            /\ e.req = stream[Len(stream)].req
  PROVE  LogInv'
  <1> DEFINE n == Len(stream)
  <1>1. /\ n \in Nat
        /\ Len(stream') = n + 1
        /\ stream'[n + 1] = e
        /\ \A p \in 1 .. n : stream'[p] = stream[p]
    BY DEF TypeOK
  <1>2. \A p \in 1 .. n : stream[p].req \in Nat /\ stream[p].part \in 1 .. Parts
    BY PieceType
  <1>3. e.req \in Nat /\ e.part \in 1 .. Parts
    BY DEF Piece
  <1>4. StreamShape'
    <2> USE SessionAssumption
    <2>1. readPos' <= Len(stream') /\ (peer' = "absent" => stream' = <<>>)
      BY <1>1 DEF LogInv, StreamShape, TypeOK
    <2>2. \A p \in Pieces' : stream'[p].req <= Len(requests')
      BY <1>1 DEF LogInv, StreamShape, Pieces
    <2>3. ASSUME NEW p \in Pieces', NEW q \in Pieces', p < q
          PROVE  /\ stream'[p].req <= stream'[q].req
                 /\ stream'[p].part = Parts => stream'[p].req < stream'[q].req
      <3>1. p \in 1 .. n
        BY <1>1, <2>3 DEF Pieces
      <3>2. CASE q \in 1 .. n
        BY <1>1, <2>3, <3>1, <3>2 DEF LogInv, StreamShape, Pieces
      <3>3. CASE q = n + 1
        <4>1. stream # <<>> /\ n \in 1 .. n
          BY <1>1, <3>1
        <4>2. p < n => /\ stream[p].req <= stream[n].req
                       /\ stream[p].part = Parts => stream[p].req < stream[n].req
          BY <3>1, <4>1 DEF LogInv, StreamShape, Pieces
        <4>3. stream[n].req <= e.req
          BY <1>2, <1>3, <4>1
        <4>4. stream[n].part = Parts => stream[n].req < e.req
          BY <4>1 DEF MidFrame
        <4> QED BY <1>1, <1>2, <1>3, <3>1, <3>3, <4>1, <4>2, <4>3, <4>4
      <3> QED BY <1>1, <3>2, <3>3 DEF Pieces
    <2>4. ASSUME NEW p \in Pieces', NEW q \in Pieces',
                 p <= q, q - p <= Parts - stream'[p].part
          PROVE  /\ stream'[q].req = stream'[p].req
                 /\ stream'[q].part = stream'[p].part + (q - p)
      <3>1. CASE q \in 1 .. n
        <4>1. p \in 1 .. n
          BY <1>1, <2>4, <3>1 DEF Pieces
        <4> QED BY <1>1, <2>4, <3>1, <4>1 DEF LogInv, StreamShape, Pieces
      <3>2. CASE q = n + 1 /\ p = n + 1
        BY <1>1, <1>3, <3>2
      <3>3. CASE q = n + 1 /\ p \in 1 .. n
        <4>1. stream'[p] = stream[p] /\ n + 1 - p <= Parts - stream[p].part
          BY <1>1, <2>4, <3>3
        <4>2. n \in 1 .. n /\ stream # <<>>
          BY <1>1, <3>3
        <4>3. n - p <= Parts - stream[p].part
          BY <1>1, <1>2, <3>3, <4>1
        <4>4. /\ stream[n].req = stream[p].req
              /\ stream[n].part = stream[p].part + (n - p)
          BY <1>1, <3>3, <4>2, <4>3 DEF LogInv, StreamShape, Pieces
        <4>5. MidFrame
          BY <1>1, <1>2, <3>3, <4>1, <4>2, <4>4 DEF MidFrame
        <4>6. e.req = stream[n].req /\ e.part = stream[n].part + 1
          BY <4>5
        <4>7. stream'[q] = e /\ q = n + 1
          BY <1>1, <3>3
        <4>8. stream[p].part \in Int /\ p \in Int
          BY <1>2, <3>3
        <4> QED BY <1>1, <4>1, <4>4, <4>6, <4>7, <4>8
      <3> QED BY <1>1, <3>1, <3>2, <3>3 DEF Pieces
    <2> QED BY <2>1, <2>2, <2>3, <2>4 DEF StreamShape
  <1>5. readPos > 0 => readPos \in 1 .. n /\ stream'[readPos] = stream[readPos]
    BY <1>1 DEF LogInv, StreamShape, TypeOK
  <1>6. \A i : (Own(i)' <=> Own(i)) /\ (Answered(i)' <=> Answered(i))
    BY DEF Own, Answered
  <1>7. ReadSoFar'
    BY <1>5, <1>6 DEF LogInv, ReadSoFar
  <1>8. InSync'
    <2>1. Exchanges' = Exchanges
      BY DEF Exchanges
    <2> QED BY <1>5, <1>6, <2>1 DEF LogInv, InSync
  <1>9. AnswersInOrder' /\ InStep' /\ Waiting'
    BY <1>6 DEF LogInv, AnswersInOrder, InStep, Waiting, Unanswered
  <1> QED BY <1>4, <1>7, <1>8, <1>9 DEF LogInv

(***************************************************************************)
(* A call reads: the chunk starts after everything read before, and when   *)
(* it is one frame it ends with the last piece of that frame.              *)
(***************************************************************************)
LEMMA ChunkFacts ==
  ASSUME TypeOK, StreamShape, Available > 0
  PROVE  /\ readPos + 1 \in Pieces
         /\ readPos + ChunkSize \in Pieces
         /\ ChunkSize \in Nat \ {0}
         /\ stream[readPos + 1].req <= stream[readPos + ChunkSize].req
         /\ readPos > 0 =>
              /\ readPos \in Pieces
              /\ stream[readPos].req <= stream[readPos + 1].req
              /\ stream[readPos].part = Parts =>
                    stream[readPos].req < stream[readPos + 1].req
         /\ ChunkIsFrame =>
              /\ stream[readPos + ChunkSize].req = stream[readPos + 1].req
              /\ stream[readPos + ChunkSize].part = Parts
  <1> USE SessionAssumption
  <1>1. Len(stream) \in Nat /\ readPos \in Nat
    BY DEF TypeOK
  <1>2. ChunkSize \in 1 .. Available
    BY <1>1 DEF ChunkSize, Available
  <1>3. readPos + 1 \in Pieces /\ readPos + ChunkSize \in Pieces
    BY <1>1, <1>2 DEF Available, Pieces
  <1>4. \A p \in Pieces : stream[p].req \in Nat /\ stream[p].part \in 1 .. Parts
    BY PieceType DEF Pieces
  <1>5. stream[readPos + 1].req <= stream[readPos + ChunkSize].req
    <2>1. CASE ChunkSize = 1
      BY <1>3, <1>4, <2>1
    <2>2. CASE ChunkSize > 1
      <3>1. readPos + 1 < readPos + ChunkSize
        BY <1>1, <1>2, <2>2 DEF Available
      <3> QED BY <1>3, <3>1 DEF StreamShape
    <2> QED BY <1>1, <1>2, <2>1, <2>2 DEF Available
  <1>6. readPos > 0 =>
              /\ readPos \in Pieces
              /\ stream[readPos].req <= stream[readPos + 1].req
              /\ stream[readPos].part = Parts =>
                    stream[readPos].req < stream[readPos + 1].req
    <2> SUFFICES ASSUME readPos > 0
                 PROVE  /\ readPos \in Pieces
                        /\ stream[readPos].req <= stream[readPos + 1].req
                        /\ stream[readPos].part = Parts =>
                              stream[readPos].req < stream[readPos + 1].req
      OBVIOUS
    <2>1. readPos \in Pieces /\ readPos < readPos + 1
      BY <1>1, <1>3 DEF Pieces
    <2> QED BY <1>3, <2>1 DEF StreamShape
  <1>7. ChunkIsFrame =>
              /\ stream[readPos + ChunkSize].req = stream[readPos + 1].req
              /\ stream[readPos + ChunkSize].part = Parts
    <2> SUFFICES ASSUME ChunkIsFrame
                 PROVE  /\ stream[readPos + ChunkSize].req = stream[readPos + 1].req
                        /\ stream[readPos + ChunkSize].part = Parts
      OBVIOUS
    <2>1. ChunkSize = Parts /\ stream[readPos + 1].part = 1
      BY DEF ChunkIsFrame, ChunkAligned
    <2> DEFINE p == readPos + 1
               q == readPos + ChunkSize
    <2>2. p <= q /\ q - p = Parts - 1
      BY <1>1, <2>1
    <2>3. q - p <= Parts - stream[p].part
      BY <2>1, <2>2
    <2>4. p \in Pieces /\ q \in Pieces
      BY <1>3
    <2> HIDE DEF p, q
    <2>5. stream[q].req = stream[p].req /\ stream[q].part = stream[p].part + (q - p)
      BY <2>2, <2>3, <2>4 DEF StreamShape
    <2> QED BY <2>1, <2>2, <2>5 DEF p, q
  <1> QED BY <1>1, <1>2, <1>3, <1>5, <1>6, <1>7 DEF Available

LEMMA LogRead ==
  ASSUME TypeOK, LogInv, Available > 0, phase = "wait", phase' = "idle",
         NoteAnswer, Consume
  PROVE  LogInv'
  <1> DEFINE n == Len(requests)
             first == stream[readPos + 1].req
  <1>1. /\ n \in Nat \ {0}
        /\ Len(requests') = n
        /\ \A i \in 1 .. n : i # n => requests'[i] = requests[i]
        /\ requests'[n].from = first
        /\ requests'[n].whole = ChunkIsFrame
    <2>1. n \in 1 .. n /\ n \in Nat \ {0} /\ requests[n] \in Request
      BY DEF LogInv, Waiting, Unanswered, TypeOK
    <2> DEFINE noted == [requests[n] EXCEPT !.from = first, !.whole = ChunkIsFrame]
    <2>2. requests' = [requests EXCEPT ![n] = noted]
      BY <2>1 DEF NoteAnswer, TypeOK
    <2>3. noted.from = first /\ noted.whole = ChunkIsFrame
      BY <2>1 DEF Request
    <2>4. requests \in Seq(Request)
      BY DEF TypeOK
    <2> HIDE DEF noted
    <2> QED BY <2>1, <2>2, <2>3, <2>4
  <1>2. UNCHANGED <<stream, peer>> /\ readPos' = readPos + ChunkSize
    BY DEF Consume
  <1>3. StreamShape
    BY DEF LogInv
  <1>4. \A p \in Pieces : stream[p].req \in Nat \ {0} /\ stream[p].part \in 1 .. Parts
    BY PieceType DEF Pieces
  <1>5. /\ readPos + 1 \in Pieces
        /\ readPos' \in Pieces
        /\ first \in 1 .. n
        /\ first <= stream'[readPos'].req
        /\ stream'[readPos'].req \in Nat
        /\ readPos' > 0
    BY <1>1, <1>2, <1>3, <1>4, ChunkFacts DEF StreamShape, Pieces
  <1>6. readPos > 0 =>
          /\ stream[readPos].req \in Nat
          /\ stream[readPos].req <= first
          /\ stream[readPos].part = Parts => stream[readPos].req < first
    BY <1>3, <1>4, ChunkFacts
  <1>7. ChunkIsFrame => /\ stream'[readPos'].req = first
                        /\ stream'[readPos'].part = Parts
    BY <1>2, <1>3, ChunkFacts
  <1>8. \A i \in 1 .. n : i # n =>
          /\ Own(i)' <=> Own(i)
          /\ Answered(i)' <=> Answered(i)
          /\ requests[i].from \in Nat
    <2> SUFFICES ASSUME NEW i \in 1 .. n, i # n
                 PROVE  /\ Own(i)' <=> Own(i)
                        /\ Answered(i)' <=> Answered(i)
                        /\ requests[i].from \in Nat
      OBVIOUS
    <2>1. requests[i] \in Request
      BY DEF TypeOK
    <2> QED BY <1>1, <2>1 DEF Own, Answered, Request
  <1>9. Exchanges = n - 1 /\ Exchanges' = n
    BY <1>1 DEF Exchanges
  <1>10. StreamShape'
    BY <1>1, <1>2, <1>3, <1>5 DEF StreamShape, Pieces
  <1>11. \A i \in 1 .. n : i # n /\ Answered(i) =>
           /\ requests[i].from <= first
           /\ requests[i].whole => requests[i].from < first
    <2> SUFFICES ASSUME NEW i \in 1 .. n, i # n, Answered(i)
                 PROVE  /\ requests[i].from <= first
                        /\ requests[i].whole => requests[i].from < first
      OBVIOUS
    <2>1. /\ readPos > 0
          /\ requests[i].from <= stream[readPos].req
          /\ requests[i].whole => \/ requests[i].from < stream[readPos].req
                                  \/ stream[readPos].part = Parts
      BY DEF LogInv, ReadSoFar
    <2>2. requests[i].from \in Nat /\ first \in Nat
      BY <1>5, <1>8
    <2> QED BY <1>6, <2>1, <2>2
  <1>12. ReadSoFar'
    <2> SUFFICES ASSUME NEW i \in 1 .. n
                 PROVE  /\ requests'[i].whole => Answered(i)'
                        /\ Answered(i)' =>
                             /\ readPos' > 0
                             /\ requests'[i].from <= stream'[readPos'].req
                             /\ requests'[i].whole =>
                                   \/ requests'[i].from < stream'[readPos'].req
                                   \/ stream'[readPos'].part = Parts
      BY <1>1 DEF ReadSoFar
    <2>1. CASE i = n
      BY <1>1, <1>5, <1>7, <2>1 DEF Answered
    <2>2. CASE i # n
      <3>1. requests'[i] = requests[i] /\ (Answered(i)' <=> Answered(i))
        BY <1>1, <1>8, <2>2
      <3>2. requests[i].whole => Answered(i)
        BY DEF LogInv, ReadSoFar
      <3>3. Answered(i) => /\ requests[i].from <= first
                           /\ requests[i].whole => requests[i].from < first
        BY <1>11, <2>2
      <3>4. requests[i].from \in Nat /\ first \in Nat
        BY <1>5, <1>8, <2>2
      <3> QED BY <1>5, <3>1, <3>2, <3>3, <3>4
    <2> QED BY <2>1, <2>2
  <1>13. AnswersInOrder'
    <2>1. \A i \in 1 .. n : requests'[i].from <= i
      <3>1. requests'[n].from <= n
        BY <1>1, <1>5
      <3>2. \A i \in 1 .. n : i # n => requests'[i].from <= i
        BY <1>1 DEF LogInv, AnswersInOrder
      <3> QED BY <3>1, <3>2
    <2>2. ASSUME NEW i \in 1 .. n, NEW j \in i + 1 .. n,
                 Answered(i)', Answered(j)'
          PROVE  /\ requests'[i].from <= requests'[j].from
                 /\ requests'[i].whole => requests'[i].from < requests'[j].from
      <3>1. i # n /\ requests'[i] = requests[i] /\ Answered(i)
        BY <1>1, <1>8, <2>2
      <3>2. CASE j = n
        BY <1>1, <1>11, <3>1, <3>2
      <3>3. CASE j # n
        BY <1>1, <1>8, <2>2, <3>1, <3>3 DEF LogInv, AnswersInOrder
      <3> QED BY <3>2, <3>3
    <2> QED BY <1>1, <2>1, <2>2 DEF AnswersInOrder
  <1>14. (\A j \in 1 .. n - 1 : Own(j)) => first = n
    <2> SUFFICES ASSUME \A j \in 1 .. n - 1 : Own(j) PROVE first = n
      OBVIOUS
    <2>1. CASE n = 1
      BY <1>5, <2>1
    <2>2. CASE n # 1
      <3>1. readPos > 0 /\ stream[readPos].req = n - 1 /\ stream[readPos].part = Parts
        BY <1>1, <1>9, <2>2 DEF LogInv, InSync
      <3> QED BY <1>1, <1>5, <1>6, <3>1
    <2> QED BY <2>1, <2>2
  <1>15. InStep'
    <2> SUFFICES ASSUME NEW i \in 1 .. n, \A j \in 1 .. i - 1 : Own(j)'
                 PROVE  requests'[i].from \in {0, i}
      BY <1>1 DEF InStep
    <2>1. \A j \in 1 .. i - 1 : Own(j)
      BY <1>1, <1>8
    <2>2. CASE i = n
      BY <1>1, <1>14, <2>1, <2>2
    <2>3. CASE i # n
      BY <1>1, <2>1, <2>3 DEF LogInv, InStep
    <2> QED BY <2>2, <2>3
  <1>16. InSync'
    <2> SUFFICES ASSUME \A i \in 1 .. n : Own(i)'
                 PROVE  /\ readPos' > 0
                        /\ stream'[readPos'].req = n
                        /\ stream'[readPos'].part = Parts
      BY <1>1, <1>9 DEF InSync
    <2>1. requests'[n].from = n /\ requests'[n].whole
      BY <1>1 DEF Own
    <2> QED BY <1>1, <1>5, <1>7, <2>1
  <1>17. Waiting'
    BY DEF Waiting
  <1> QED
    BY <1>10, <1>12, <1>13, <1>15, <1>16, <1>17 DEF LogInv

-----------------------------------------------------------------------------
(***************************************************************************)
(* The inductive invariant, one step per action.                           *)
(***************************************************************************)
LEMMA InitInv == Init => IndInv
  <1> SUFFICES ASSUME Init PROVE IndInv
    OBVIOUS
  <1>1. TypeOK
    BY InitType
  <1>2. LogInv
    BY DEF Init, LogInv, StreamShape, ReadSoFar, Waiting, InSync,
           AnswersInOrder, InStep, Exchanges, Pieces
  <1>3. ByConfig /\ CallShape /\ FrameOrder /\ SequenceNumbers /\ DisconnectEndsSession
    BY DEF Init, ByConfig, CallShape, InCall, FrameOrder, SequenceNumbers,
           DisconnectEndsSession, Down
  <1> QED BY <1>1, <1>2, <1>3 DEF IndInv

LEMMA LogNext == IndInv /\ [Next]_vars => LogInv'
  <1> SUFFICES ASSUME IndInv, [Next]_vars PROVE LogInv'
    OBVIOUS
  <1> USE DEF IndInv
  <1>1. CASE ConnectSerial
    <2>1. UNCHANGED <<requests, stream, readPos, peer>> /\ phase = "idle" /\ phase' = "idle"
      BY <1>1 DEF ConnectSerial, Refuse, socket
    <2> QED BY <2>1, LogSame
  <1>2. CASE ConnectFails
    BY <1>2, LogReset DEF ConnectFails, CloseSocket, Refuse
  <1>3. CASE ConnectOpens
    BY <1>3, LogReset DEF ConnectOpens
  <1>4. ASSUME NEW op \in {"disconnect", "destroy"}, DisconnectNow(op)
        PROVE  LogInv'
    BY <1>4, LogReset DEF DisconnectNow, CloseSocket, PhaseAfter
  <1>5. ASSUME NEW op \in {"disconnect", "destroy"}, DisconnectStart(op)
        PROVE  LogInv'
    <2>1. UNCHANGED <<requests, stream, readPos, peer>> /\ phase = "idle" /\ phase' = "send"
      BY <1>5 DEF DisconnectStart, socket
    <2> QED BY <2>1, LogSame
  <1>6. ASSUME NEW op \in Services, ServiceRefused(op) \/ ServiceStart(op)
        PROVE  LogInv'
    <2>1. /\ UNCHANGED <<requests, stream, readPos, peer>>
          /\ phase = "idle" /\ phase' \in {"idle", "send"}
      BY <1>6 DEF ServiceRefused, ServiceStart, Refuse, socket
    <2> QED BY <2>1, LogSame
  <1>7. CASE Send
    BY <1>7, LogSend
  <1>8. ASSUME FinishDisconnect PROVE LogInv'
    BY <1>8, LogReset DEF FinishDisconnect, CloseSocket, PhaseAfter
  <1>9. ASSUME NEW err, Fail(err), phase = "wait" PROVE LogInv'
    <2>1. CASE FinishDisconnect
      BY <1>8, <2>1
    <2>2. CASE Return(err) /\ UNCHANGED <<client, requests, socket>>
      BY <1>9, <2>2, LogUnanswered DEF Return, socket
    <2> QED BY <1>9, <2>1, <2>2 DEF Fail
  <1>10. CASE PollTimeout \/ RecvError
    BY <1>9, <1>10 DEF PollTimeout, RecvError
  <1>11. CASE Recv
    <2>1. CASE RecvDisconnect
      BY <1>8, <2>1 DEF RecvDisconnect
    <2>2. CASE RecvConnect \/ RecvService
      BY <1>11, <2>2, LogRead DEF Recv, RecvConnect, RecvService, Return
    <2> QED BY <1>11, <2>1, <2>2 DEF Recv
  <1>12. CASE Killed
    <2>1. UNCHANGED <<requests, stream, readPos, peer>> /\ phase = "send" /\ phase' = "killed"
      BY <1>12 DEF Killed, socket
    <2> QED BY <2>1, LogSame
  <1>13. CASE AnswerStarts
    <2>1. PICK r \in LastAnswered + 1 .. Len(requests) :
            \E f \in AnswerTo(requests[r].frame) :
               stream' = Append(stream, [req |-> r, part |-> 1, frame |-> f])
      BY <1>13 DEF AnswerStarts
    <2>2. PICK f \in AnswerTo(requests[r].frame) :
               stream' = Append(stream, [req |-> r, part |-> 1, frame |-> f])
      BY <2>1
    <2> DEFINE e == [req |-> r, part |-> 1, frame |-> f]
    <2>3. TypeOK'
      BY NextType
    <2>4. e \in Piece
      <3>1. stream \in Seq(Piece) /\ stream' \in Seq(Piece)
        BY <2>3 DEF TypeOK
      <3>2. Len(stream) \in Nat
        BY <3>1
      <3>3. stream'[Len(stream) + 1] \in Piece /\ stream'[Len(stream) + 1] = e
        BY <2>2, <3>1
      <3> QED BY <3>3
    <2>5. stream # <<>> => stream[Len(stream)].req < r
      <3> SUFFICES ASSUME stream # <<>> PROVE stream[Len(stream)].req < r
        OBVIOUS
      <3>1. Len(stream) \in 1 .. Len(stream)
        BY DEF TypeOK
      <3>2. stream[Len(stream)].req \in Nat
        BY <3>1, PieceType
      <3> QED BY <3>2 DEF LastAnswered
    <2>6. r <= Len(requests)
      BY DEF TypeOK
    <2>7. UNCHANGED <<requests, readPos, phase, peer>> /\ peer # "absent" /\ ~MidFrame
      BY <1>13 DEF AnswerStarts
    <2>8. stream' = Append(stream, e) /\ e.req = r /\ e.part = 1
      BY <2>2
    <2> HIDE DEF e
    <2> QED BY <2>4, <2>5, <2>6, <2>7, <2>8, LogArrival
  <1>14. CASE AnswerContinues
    <2> DEFINE last == stream[Len(stream)]
               e == [last EXCEPT !.part = @ + 1]
    <2>1. MidFrame /\ stream' = Append(stream, e)
      BY <1>14 DEF AnswerContinues
    <2>2. last \in Piece /\ last.part < Parts /\ Len(stream) \in Pieces
      BY <2>1 DEF MidFrame, TypeOK, Pieces
    <2>3. e \in Piece /\ e.req = last.req /\ e.part = last.part + 1
      BY <2>2, SessionAssumption DEF Piece
    <2>4. e.req <= Len(requests)
      BY <2>2, <2>3 DEF LogInv, StreamShape
    <2>5. UNCHANGED <<requests, readPos, phase, peer>> /\ peer # "absent"
      BY <1>14 DEF AnswerContinues
    <2> HIDE DEF e
    <2> QED BY <2>1, <2>3, <2>4, <2>5, LogArrival
  <1>15. CASE PeerCloses \/ PeerResets
    BY <1>15, LogSame DEF PeerCloses, PeerResets
  <1>16. CASE Ended \/ UNCHANGED vars
    BY <1>16, LogSame DEF Ended, vars, socket
  <1> QED
    BY <1>1, <1>2, <1>3, <1>4, <1>5, <1>6, <1>7, <1>10, <1>11, <1>12,
       <1>13, <1>14, <1>15, <1>16
       DEF Next, ClientStep, Answer

(***************************************************************************)
(* Frames, calls and sequence numbers.                                     *)
(***************************************************************************)
SessionInv == CallShape /\ FrameOrder /\ SequenceNumbers /\ DisconnectEndsSession

LEMMA SessionReset ==  \* connect() and disconnect() leave an empty log
  ASSUME requests' = <<>>, stream' = <<>>, readPos' = 0,
         \/ phase' = "idle" /\ peer' = "absent"
         \/ phase' = "destroyed" /\ peer' = "absent"
         \/ /\ phase' = "send" /\ call'.op = "connect"
            /\ call'.res = "pending" /\ transport' = "open",
         phase' \in {"idle", "destroyed"} /\ call'.op \in {"disconnect", "destroy"}
            => ~connected' /\ transport' # "open",
         phase' \in {"idle", "destroyed"} => call'.res # "pending",
         transport' # "open" => peer' = "absent"
  PROVE  SessionInv'
  BY DEF SessionInv, CallShape, InCall, FrameOrder, SequenceNumbers,
         DisconnectEndsSession, Down

LEMMA SessionFinish ==
  ASSUME TypeOK, FinishDisconnect, call.op \in {"disconnect", "destroy"}
  PROVE  SessionInv'
  <1>1. transport' # "open" /\ ~connected' /\ phase' \in {"idle", "destroyed"}
    BY DEF FinishDisconnect, TransportAfter, PhaseAfter
  <1>2. call'.res = "ok"
    BY DEF FinishDisconnect, TypeOK
  <1> QED BY <1>1, <1>2, SessionReset DEF FinishDisconnect, CloseSocket

LEMMA SessionSame ==  \* a call starts, is refused, or is killed
  ASSUME SessionInv, UNCHANGED <<requests, stream, readPos, peer, sendSeq,
                                 transport, connected>>,
         \/ phase = "idle" /\ phase' = "idle"
         \/ /\ phase = "idle" /\ phase' = "send" /\ transport = "open"
            /\ call'.op # "connect" /\ call'.res = "pending"
         \/ phase = "send" /\ phase' = "killed",
         phase' = "idle" => /\ call'.op \notin {"disconnect", "destroy"}
                            /\ call'.res # "pending"
  PROVE  SessionInv'
  <1> USE DEF SessionInv
  <1>1. Exchanges' = Exchanges
    BY DEF Exchanges
  <1>2. CallShape'
    BY DEF CallShape, InCall
  <1>3. FrameOrder'
    BY DEF FrameOrder
  <1>4. SequenceNumbers'
    BY <1>1 DEF SequenceNumbers, NsAfter, Own, Answered
  <1>5. DisconnectEndsSession'
    BY DEF DisconnectEndsSession, Down
  <1> QED BY <1>2, <1>3, <1>4, <1>5

LEMMA SessionSend ==
  ASSUME TypeOK, SessionInv, Send PROVE SessionInv'
  <1> USE DEF SessionInv
  <1> DEFINE n == Len(requests)
  <1>1. /\ n \in Nat
        /\ requests = <<>> <=> n = 0
        /\ Len(requests') = n + 1
        /\ requests'[n + 1] = NewRequest
        /\ \A i \in 1 .. n : requests'[i] = requests[i]
        /\ requests' # <<>>
    BY DEF Send, TypeOK
  <1>2. /\ UNCHANGED <<transport, connected, sendSeq, call, stream, readPos, peer>>
        /\ phase = "send" /\ phase' = "wait"
    BY DEF Send, client, socket
  <1>3. Exchanges = n /\ Exchanges' = n
    BY <1>1, <1>2 DEF Exchanges
  <1>4. /\ NewRequest.from = 0
        /\ NewRequest.frame = FrameOf(call.op)
        /\ NewRequest.frame = "I" => NewRequest.ns = sendSeq
    BY DEF NewRequest, FrameOf, TypeOK, Ops, Services
  <1>5. CallShape'
    BY <1>1, <1>2, <1>4 DEF CallShape, InCall, FrameOf
  <1>6. FrameOrder'
    <2>1. peer # "absent" => (call.op = "connect" <=> n = 0)
      BY <1>1, <1>2 DEF CallShape
    <2>2. FrameOf(call.op) = "SNRM" <=> call.op = "connect"
      BY DEF FrameOf, TypeOK, Ops, Services
    <2> QED BY <1>1, <1>2, <1>4, <2>1, <2>2 DEF FrameOrder
  <1>7. SequenceNumbers'
    <2> SUFFICES ASSUME peer' # "absent", Own(1)'
                 PROVE  /\ \A i \in 2 .. n + 1 :
                             requests'[i].frame = "I" =>
                                requests'[i].ns = NsAfter(i - 1, requests'[i - 1])
                        /\ n > 0 => sendSeq' = NsAfter(n, requests'[n])
      BY <1>1, <1>3 DEF SequenceNumbers
    <2>1. n > 0 /\ Own(1)
      BY <1>1, <1>4 DEF Own
    <2>2. /\ \A i \in 2 .. n : requests[i].frame = "I" =>
                requests[i].ns = NsAfter(i - 1, requests[i - 1])
          /\ sendSeq = NsAfter(n, requests[n])
      BY <1>1, <1>2, <1>3, <2>1 DEF SequenceNumbers
    <2>3. requests'[n] = requests[n]
      BY <1>1, <2>1
    <2>4. ASSUME NEW i \in 2 .. n + 1, requests'[i].frame = "I"
          PROVE  requests'[i].ns = NsAfter(i - 1, requests'[i - 1])
      <3>1. CASE i \in 2 .. n
        BY <1>1, <2>2, <2>4, <3>1
      <3>2. CASE i = n + 1
        <4>1. requests'[i].ns = sendSeq
          BY <1>1, <1>4, <2>4, <3>2
        <4>2. i - 1 = n
          BY <1>1, <3>2
        <4> QED BY <2>2, <2>3, <4>1, <4>2
      <3> QED BY <1>1, <3>1, <3>2
    <2> QED BY <1>2, <2>2, <2>3, <2>4
  <1>8. DisconnectEndsSession'
    BY <1>2 DEF DisconnectEndsSession, Down, CallShape, InCall
  <1> QED BY <1>5, <1>6, <1>7, <1>8

LEMMA SessionUnanswered ==
  ASSUME TypeOK, SessionInv, Waiting, phase = "wait", phase' = "idle",
         call.op \notin {"disconnect", "destroy"}, call'.op = call.op,
         call'.res # "pending",
         UNCHANGED <<requests, stream, readPos, peer, sendSeq, transport, connected>>
  PROVE  SessionInv'
  <1> USE DEF SessionInv
  <1> DEFINE n == Len(requests)
  <1>1. n \in Nat \ {0} /\ requests # <<>> /\ requests[n].from = 0
    BY DEF Waiting, Unanswered, Answered, TypeOK
  <1>2. Exchanges = n - 1 /\ Exchanges' = n
    BY <1>1 DEF Exchanges
  <1>3. CallShape'
    BY <1>1 DEF CallShape, InCall
  <1>4. FrameOf(call.op) = "DISC" <=> call.op \in {"disconnect", "destroy"}
    BY DEF FrameOf, TypeOK, Ops, Services
  <1>5. requests[n].frame # "DISC" /\ requests[n].frame = FrameOf(call.op)
    BY <1>4 DEF CallShape
  <1>6. FrameOrder'
    BY <1>1, <1>5 DEF FrameOrder
  <1>7. SequenceNumbers'
    <2> SUFFICES ASSUME peer # "absent", Own(1)
                 PROVE  /\ \A i \in 2 .. n :
                             requests[i].frame = "I" =>
                                requests[i].ns = NsAfter(i - 1, requests[i - 1])
                        /\ sendSeq = NsAfter(n, requests[n])
      BY <1>1, <1>2 DEF SequenceNumbers, Own
    <2>1. n # 1
      BY <1>1 DEF Own
    <2>2. /\ \A i \in 2 .. n : requests[i].frame = "I" =>
                requests[i].ns = NsAfter(i - 1, requests[i - 1])
          /\ sendSeq = NsAfter(n - 1, requests[n - 1])
      BY <1>1, <1>2, <2>1 DEF SequenceNumbers
    <2>3. requests[n].frame = "I"
      <3>1. requests[n] \in Request
        BY <1>1 DEF TypeOK
      <3>2. requests[n].frame \in {"SNRM", "DISC", "I"}
        BY <3>1 DEF Request, Frames
      <3>3. n \in 1 .. Len(requests) /\ n # 1
        BY <1>1, <2>1
      <3>4. requests[n].frame = "SNRM" <=> n = 1
        BY <3>3 DEF FrameOrder
      <3> QED BY <1>5, <3>2, <3>3, <3>4
    <2>4. requests[n].ns = NsAfter(n - 1, requests[n - 1])
      <3>1. n \in Nat \ {0, 1}
        BY <1>1, <2>1
      <3>2. n \in 2 .. n
        <4> HIDE DEF n
        <4> QED BY <3>1
      <3> QED BY <2>2, <2>3, <3>2
    <2>5. NsAfter(n, requests[n]) = requests[n].ns
      BY <1>1, <2>1 DEF NsAfter
    <2> QED BY <2>2, <2>4, <2>5
  <1>8. DisconnectEndsSession'
    BY DEF DisconnectEndsSession, Down, CallShape, InCall
  <1> QED BY <1>3, <1>6, <1>7, <1>8

LEMMA SessionRead ==
  ASSUME TypeOK, SessionInv, LogInv, Available > 0, phase = "wait",
         RecvConnect \/ RecvService
  PROVE  SessionInv'
  <1> USE DEF SessionInv
  <1> DEFINE n == Len(requests)
             first == stream[readPos + 1].req
             noted == [requests[n] EXCEPT !.from = first, !.whole = ChunkIsFrame]
  <1>1. n \in 1 .. n /\ n \in Nat \ {0} /\ requests[n] \in Request
    BY DEF LogInv, Waiting, Unanswered, TypeOK
  <1>2. requests' = [requests EXCEPT ![n] = noted]
    BY <1>1 DEF RecvConnect, RecvService, NoteAnswer, TypeOK
  <1>3. /\ noted.from = first /\ noted.whole = ChunkIsFrame
        /\ noted.frame = requests[n].frame /\ noted.ns = requests[n].ns
    BY <1>1 DEF Request
  <1> HIDE DEF noted
  <1>4. /\ Len(requests') = n
        /\ requests'[n] = noted
        /\ \A i \in 1 .. n : i # n => requests'[i] = requests[i]
        /\ requests' # <<>>
    <2>1. requests \in Seq(Request)
      BY SMTT(40) DEF TypeOK
    <2>2. Len(requests') = n /\ requests'[n] = noted
          /\ \A i \in 1 .. n : i # n => requests'[i] = requests[i]
      BY <1>1, <1>2, <2>1, SMTT(40)
    <2>3. requests' # <<>>
      BY <1>1, <1>2, <2>1, <2>2
    <2> QED BY <2>2, <2>3
  <1>5. /\ UNCHANGED <<transport, peer>>
        /\ phase' = "idle" /\ call'.op = call.op /\ call'.res # "pending"
        /\ call.op \notin {"disconnect", "destroy"}
    BY SMTT(40) DEF RecvConnect, RecvService, ServiceResult, Return, Consume, Services, TypeOK
  <1>6. transport = "open"
    BY DEF CallShape, InCall
  <1>7. Exchanges = n - 1 /\ Exchanges' = n
    BY <1>1, <1>4, <1>5 DEF Exchanges
  <1>8. first # 0
    <2>1. readPos + 1 \in Pieces
      BY ChunkFacts DEF LogInv
    <2> QED BY <2>1, PieceType DEF Pieces
  <1>9. CallShape'
    BY <1>4, <1>5, <1>6 DEF CallShape, InCall
  <1>10. requests[n].frame # "DISC" /\ requests[n].frame = FrameOf(call.op)
    BY <1>5 DEF CallShape, FrameOf, TypeOK, Ops, Services
  <1>11. FrameOrder'
    <2>1. \A i \in 1 .. n : requests'[i].frame = requests[i].frame
      BY <1>3, <1>4
    <2> QED BY <1>1, <1>4, <1>5, <1>10, <2>1 DEF FrameOrder
  <1>12. DisconnectEndsSession'
    BY <1>5, <1>6 DEF DisconnectEndsSession, Down
  <1>13. CASE RecvConnect
    <2>1. n = 1
      BY <1>13 DEF RecvConnect, CallShape
    <2>2. Own(1)' => sendSeq' = 0
      BY <1>3, <1>4, <1>13, <2>1 DEF Own, RecvConnect
    <2>3. SequenceNumbers'
      BY <1>4, <1>7, <2>1, <2>2 DEF SequenceNumbers, NsAfter
    <2> QED BY <1>9, <1>11, <1>12, <2>3
  <1>14. CASE RecvService
    <2>1. FrameOf(call.op) = "I"
      BY <1>14 DEF RecvService, FrameOf, Services
    <2> SUFFICES ASSUME peer # "absent", Own(1)'
                 PROVE  /\ \A i \in 2 .. n :
                             requests'[i].frame = "I" =>
                                requests'[i].ns = NsAfter(i - 1, requests'[i - 1])
                        /\ sendSeq' = NsAfter(n, requests'[n])
      BY <1>4, <1>5, <1>7, <1>9, <1>11, <1>12 DEF SequenceNumbers
    <2>2. n # 1 /\ n - 1 \in 1 .. n
      BY <1>1, <1>10, <2>1 DEF FrameOrder
    <2>3. Own(1)
      BY <1>1, <1>4, <2>2 DEF Own
    <2>4. /\ \A i \in 2 .. n : requests[i].frame = "I" =>
                requests[i].ns = NsAfter(i - 1, requests[i - 1])
          /\ sendSeq = NsAfter(n - 1, requests[n - 1])
      BY <1>1, <1>7, <2>2, <2>3 DEF SequenceNumbers
    <2>5. \A i \in 2 .. n : /\ requests'[i].frame = requests[i].frame
                            /\ requests'[i].ns = requests[i].ns
                            /\ requests'[i - 1] = requests[i - 1]
      BY <1>1, <1>3, <1>4
    <2>6. requests[n].ns = sendSeq
      BY <1>1, <1>10, <2>1, <2>2, <2>4
    <2>7. sendSeq' = NextSeq(sendSeq)
      BY <1>14 DEF RecvService
    <2>8. NsAfter(n, requests'[n]) = NextSeq(requests[n].ns)
      BY <1>3, <1>4, <1>8, <2>2 DEF NsAfter
    <2> QED BY <2>4, <2>5, <2>6, <2>7, <2>8
  <1> QED BY <1>13, <1>14

LEMMA SessionNext == IndInv /\ [Next]_vars => SessionInv'
  <1> SUFFICES ASSUME IndInv, [Next]_vars PROVE SessionInv'
    OBVIOUS
  <1>1. TypeOK /\ LogInv /\ SessionInv
    BY DEF IndInv, SessionInv
  <1>2. CASE ConnectSerial
    <2>1. /\ UNCHANGED <<requests, stream, readPos, peer, sendSeq, connected>>
          /\ phase = "idle" /\ phase' = "idle" /\ call'.op = "connect"
          /\ transport' = "serial" /\ call'.res # "pending"
      BY <1>2 DEF ConnectSerial, Refuse, socket
    <2>2. transport # "open"
      BY <1>2 DEF ConnectSerial, IndInv, ByConfig
    <2> QED
      BY <1>1, <2>1, <2>2
         DEF SessionInv, CallShape, InCall, FrameOrder, SequenceNumbers,
             Exchanges, NsAfter, Own, DisconnectEndsSession, Down
  <1>3. CASE ConnectFails
    BY <1>3, SessionReset DEF ConnectFails, CloseSocket, Refuse
  <1>4. CASE ConnectOpens
    BY <1>4, SessionReset DEF ConnectOpens, Start
  <1>5. ASSUME NEW op \in {"disconnect", "destroy"}, DisconnectNow(op)
        PROVE  SessionInv'
    BY <1>5, SessionReset DEF DisconnectNow, CloseSocket, PhaseAfter, TransportAfter
  <1>6. ASSUME NEW op \in {"disconnect", "destroy"}, DisconnectStart(op)
        PROVE  SessionInv'
    BY <1>1, <1>6, SessionSame DEF DisconnectStart, Start, client, socket
  <1>7. ASSUME NEW op \in Services, ServiceRefused(op) \/ ServiceStart(op)
        PROVE  SessionInv'
    BY <1>1, <1>7, SessionSame
       DEF ServiceRefused, ServiceStart, Refuse, Start, Services, client, socket
  <1>8. CASE Send
    BY <1>1, <1>8, SessionSend
  <1>9. ASSUME NEW err \in {"Timeout", "ConnectionError"}, Fail(err), phase = "wait"
        PROVE  SessionInv'
    <2>1. CASE call.op \in {"disconnect", "destroy"} /\ FinishDisconnect
      BY <1>1, <2>1, SessionFinish
    <2>2. CASE /\ call.op \in {"connect"} \union Services
               /\ Return(err)
               /\ UNCHANGED <<client, requests, socket>>
      <3>1. call'.op = call.op /\ call'.res # "pending" /\ phase' = "idle"
        BY <1>1, <2>2 DEF Return, TypeOK
      <3> QED
        BY <1>1, <1>9, <2>2, <3>1, SessionUnanswered
           DEF Services, LogInv, client, socket
    <2> QED BY <1>9, <2>1, <2>2 DEF Fail
  <1>10. CASE PollTimeout \/ RecvError
    BY <1>9, <1>10 DEF PollTimeout, RecvError
  <1>11. CASE Recv
    <2>1. CASE RecvDisconnect
      BY <1>1, <2>1, SessionFinish DEF RecvDisconnect
    <2>2. CASE RecvConnect \/ RecvService
      BY <1>1, <1>11, <2>2, SessionRead DEF Recv
    <2> QED BY <1>11, <2>1, <2>2 DEF Recv
  <1>12. CASE Killed
    BY <1>1, <1>12, SessionSame DEF Killed, client, socket
  <1>13. ASSUME UNCHANGED <<client, phase, call, requests, readPos>>,
                peer # "absent", peer' # "absent"
         PROVE  SessionInv'
    <2>1. transport = "open" /\ UNCHANGED <<transport, connected, sendSeq, call, phase>>
      BY <1>1, <1>13 DEF SessionInv, CallShape, client
    <2>2. CallShape' /\ FrameOrder' /\ DisconnectEndsSession'
      BY <1>1, <1>13, <2>1
         DEF SessionInv, CallShape, InCall, FrameOrder, DisconnectEndsSession, Down
    <2>3. SequenceNumbers'
      BY <1>1, <1>13, <2>1 DEF SessionInv, SequenceNumbers, Exchanges, Own
    <2> QED BY <2>2, <2>3 DEF SessionInv
  <1>14. CASE AnswerStarts \/ AnswerContinues
    BY <1>13, <1>14 DEF AnswerStarts, AnswerContinues
  <1>15. CASE PeerCloses \/ PeerResets
    BY <1>13, <1>15 DEF PeerCloses, PeerResets
  <1>16. CASE Ended \/ UNCHANGED vars
    <2>1. UNCHANGED <<client, phase, call, requests, stream, readPos, peer>>
      BY <1>16 DEF Ended, vars, socket
    <2>2. UNCHANGED <<transport, connected, sendSeq>>
      BY <2>1 DEF client
    <2> QED
      BY <1>1, <2>1, <2>2
         DEF SessionInv, CallShape, InCall, FrameOrder, SequenceNumbers,
             Exchanges, Own, DisconnectEndsSession, Down
  <1> QED
    BY <1>2, <1>3, <1>4, <1>5, <1>6, <1>7, <1>8, <1>10, <1>11, <1>12,
       <1>14, <1>15, <1>16
       DEF Next, ClientStep, Answer

LEMMA ConfigNext == IndInv /\ [Next]_vars => ByConfig'
  <1> SUFFICES ASSUME IndInv, [Next]_vars PROVE ByConfig'
    OBVIOUS
  <1> USE DEF IndInv, ByConfig
  <1>1. CASE ConnectSerial \/ ConnectFails \/ ConnectOpens
    BY <1>1 DEF ConnectSerial, ConnectFails, ConnectOpens
  <1>2. ASSUME NEW op, DisconnectNow(op) \/ DisconnectStart(op) PROVE ByConfig'
    BY <1>2 DEF DisconnectNow, DisconnectStart, TransportAfter, client
  <1>3. ASSUME NEW op, ServiceRefused(op) \/ ServiceStart(op) PROVE ByConfig'
    BY <1>3 DEF ServiceRefused, ServiceStart, client
  <1>4. ASSUME NEW err, Fail(err) PROVE ByConfig'
    BY <1>4 DEF Fail, FinishDisconnect, TransportAfter, client
  <1>5. CASE PollTimeout \/ RecvError
    BY <1>4, <1>5 DEF PollTimeout, RecvError
  <1>6. CASE Recv
    <2>1. transport = "open"
      BY <1>6 DEF Recv, CallShape, InCall
    <2> QED
      BY <1>6, <2>1 DEF Recv, RecvConnect, RecvService, RecvDisconnect,
                        FinishDisconnect, TransportAfter
  <1>7. CASE Send \/ Killed \/ AnswerStarts \/ AnswerContinues \/ PeerCloses
             \/ PeerResets \/ Ended \/ UNCHANGED vars
    BY <1>7 DEF Send, Killed, AnswerStarts, AnswerContinues, PeerCloses,
                PeerResets, Ended, vars, client
  <1> QED BY <1>1, <1>2, <1>3, <1>5, <1>6, <1>7 DEF Next, ClientStep, Answer

(***************************************************************************)
(* IndInv holds in every reachable state.                                  *)
(***************************************************************************)
THEOREM Inductive == Spec => []IndInv
  <1>1. IndInv /\ [Next]_vars => IndInv'
    BY NextType, ConfigNext, LogNext, SessionNext DEF IndInv, SessionInv
  <1> QED BY <1>1, InitInv, PTL DEF Spec

-----------------------------------------------------------------------------
(***************************************************************************)
(* A call that follows only calls in step reads its own answer, or none    *)
(* (send_and_receive).                                                     *)
(***************************************************************************)
THEOREM InStepHolds == Spec => []InStep
  <1>1. IndInv => InStep
    BY DEF IndInv, LogInv
  <1> QED BY <1>1, Inductive, PTL

(***************************************************************************)
(* Answers are read in the order of their requests, and a whole answer is  *)
(* read once (send_and_receive).                                           *)
(***************************************************************************)
THEOREM AnswersInOrderHolds == Spec => []AnswersInOrder
  <1>1. IndInv => AnswersInOrder
    BY DEF IndInv, LogInv
  <1> QED BY <1>1, Inductive, PTL

(***************************************************************************)
(* N(S) counts the answered exchanges of the connection, modulo SeqMod     *)
(* (send_hdlc).                                                            *)
(***************************************************************************)
THEOREM SequenceNumbersHold == Spec => []SequenceNumbers
  <1>1. IndInv => SequenceNumbers
    BY DEF IndInv
  <1> QED BY <1>1, Inductive, PTL

(***************************************************************************)
(* SNRM first and once, DISC last (connect, disconnect).                   *)
(***************************************************************************)
THEOREM FrameOrderHolds == Spec => []FrameOrder
  <1>1. IndInv => FrameOrder
    BY DEF IndInv
  <1> QED BY <1>1, Inductive, PTL

(***************************************************************************)
(* Nothing of a session outlives disconnect() (disconnect, ~DlmsClient).   *)
(***************************************************************************)
THEOREM DisconnectEndsSessionHolds == Spec => []DisconnectEndsSession
  <1>1. IndInv => DisconnectEndsSession
    BY DEF IndInv
  <1> QED BY <1>1, Inductive, PTL

(***************************************************************************)
(* The client becomes connected only by reading, whole, the answer to the  *)
(* SNRM of the connection it has just opened (connect).                    *)
(***************************************************************************)
LEMMA ConnectedBy ==
  ASSUME IndInv, [Next]_vars, ~connected, connected' PROVE Recv /\ RecvConnect
  <1>1. TypeOK
    BY DEF IndInv
  <1>2. ASSUME FinishDisconnect PROVE FALSE
    BY <1>2 DEF FinishDisconnect
  <1>3. ASSUME UNCHANGED client PROVE FALSE
    BY <1>3 DEF client
  <1>4. ASSUME NEW err, Fail(err) PROVE FALSE
    BY <1>2, <1>3, <1>4 DEF Fail
  <1>5. ASSUME NEW op, DisconnectNow(op) \/ DisconnectStart(op)
                        \/ ServiceRefused(op) \/ ServiceStart(op)
        PROVE  FALSE
    BY <1>3, <1>5 DEF DisconnectNow, DisconnectStart, ServiceRefused, ServiceStart
  <1>6. ~(ConnectSerial \/ ConnectFails \/ ConnectOpens)
    BY DEF ConnectSerial, ConnectFails, ConnectOpens
  <1>7. ~(PollTimeout \/ RecvError)
    BY <1>4 DEF PollTimeout, RecvError
  <1>8. ~(Send \/ Killed \/ AnswerStarts \/ AnswerContinues \/ PeerCloses
             \/ PeerResets \/ Ended \/ UNCHANGED vars)
    BY <1>3 DEF Send, Killed, AnswerStarts, AnswerContinues, PeerCloses,
                PeerResets, Ended, vars
  <1>9. Recv => RecvConnect
    BY <1>2 DEF Recv, RecvService, RecvDisconnect
  <1> QED BY <1>5, <1>6, <1>7, <1>8, <1>9 DEF Next, ClientStep, Answer

THEOREM ConnectReadsItsAnswerHolds == Spec => ConnectReadsItsAnswer
  <1>1. ASSUME IndInv, [Next]_vars, ~connected, connected'
        PROVE  /\ call.op = "connect"
               /\ Len(requests') = 1 /\ Own(1)'
               /\ readPos' = Parts
    <2>1. Recv /\ RecvConnect
      BY <1>1, ConnectedBy
    <2>2. TypeOK /\ LogInv /\ CallShape
      BY <1>1 DEF IndInv
    <2>3. call.op = "connect" /\ Len(requests) = 1 /\ phase = "wait" /\ Available > 0
      BY <2>1, <2>2 DEF Recv, RecvConnect, CallShape
    <2>4. ChunkIsFrame
      BY <1>1, <2>1 DEF RecvConnect
    <2>5. readPos = 0
      BY <2>2, <2>3 DEF LogInv, InSync, Exchanges
    <2>6. readPos' = Parts
      BY <2>1, <2>4, <2>5, SessionAssumption
         DEF RecvConnect, Consume, ChunkIsFrame
    <2>7. stream[readPos + 1].req = 1
      <3>1. readPos + 1 \in Pieces
        BY <2>2, <2>3, ChunkFacts DEF LogInv
      <3>2. stream[readPos + 1].req <= 1
        BY <2>2, <2>3, <3>1 DEF LogInv, StreamShape
      <3>3. stream[readPos + 1].req \in Nat \ {0}
        BY <2>2, <3>1, PieceType DEF Pieces
      <3> QED BY <3>2, <3>3
    <2>8. requests[1] \in Request
      <3>1. 1 \in 1 .. Len(requests)
        BY <2>3
      <3> QED BY <2>2, <3>1 DEF TypeOK
    <2> DEFINE noted == [requests[1] EXCEPT !.from = 1, !.whole = TRUE]
    <2>9. requests' = [requests EXCEPT ![1] = noted]
      BY <2>1, <2>2, <2>3, <2>4, <2>7 DEF RecvConnect, NoteAnswer, TypeOK
    <2>10. noted.from = 1 /\ noted.whole
      BY <2>8 DEF Request
    <2> HIDE DEF noted
    <2>11. Len(requests') = 1 /\ requests'[1] = noted
      BY <2>2, <2>3, <2>9 DEF TypeOK
    <2> QED BY <2>3, <2>6, <2>10, <2>11 DEF Own
  <1>2. IndInv /\ [Next]_vars =>
          [~connected /\ connected' =>
             /\ call.op = "connect"
             /\ Len(requests') = 1 /\ Own(1)'
             /\ readPos' = Parts]_vars
    BY <1>1
  <1> QED BY <1>2, Inductive, PTL DEF Spec, ConnectReadsItsAnswer

-----------------------------------------------------------------------------
(***************************************************************************)
(* The client implements its interface: every step of ClientSession is a   *)
(* step of ClientApi or changes nothing that ClientApi sees.               *)
(***************************************************************************)
LEMMA ApiInit == Init => Api!Init
  BY DEF Init, Api!Init

LEMMA ApiFinish ==
  ASSUME IndInv, FinishDisconnect, InCall, call.op \in {"disconnect", "destroy"}
  PROVE  \E op \in Api!Endings : Api!EndingReturns(op)
  <1>1. call.op \in Api!Endings
    BY DEF Api!Endings
  <1>2. call \in [op : Ops, up : BOOLEAN, res : Results] /\ call.res = "pending"
    BY DEF IndInv, TypeOK, CallShape
  <1>3. Api!Pending(call.op)
    BY <1>2 DEF Api!Pending, InCall
  <1>4. Api!Ends(call.op)
    BY <1>2 DEF Api!Ends, Api!Returned, FinishDisconnect, TransportAfter, PhaseAfter
  <1> QED BY <1>1, <1>3, <1>4 DEF Api!EndingReturns

LEMMA ApiNext == IndInv /\ [Next]_vars => [Api!Next]_(Api!vars)
  <1> SUFFICES ASSUME IndInv, [Next]_vars
               PROVE  Api!Next \/ UNCHANGED Api!vars
    OBVIOUS
  <1>1. /\ call \in [op : Ops, up : BOOLEAN, res : Results]
        /\ InCall => call.res = "pending" /\ transport = "open"
        /\ phase = "idle" => call.res # "pending"
    BY DEF IndInv, TypeOK, CallShape
  <1>2. phase = "idle" => Api!Ready
    BY <1>1 DEF Api!Ready
  <1>3. CASE ConnectSerial
    <2>1. transport # "open" /\ ~connected
      BY <1>3 DEF ConnectSerial, IndInv, ByConfig
    <2>2. Api!ConnectFailsAtOnce
      BY <1>2, <1>3, <2>1
         DEF ConnectSerial, Refuse, Api!ConnectFailsAtOnce, Api!Returned
    <2> QED BY <2>2 DEF Api!Next
  <1>4. CASE ConnectFails
    <2>1. Api!ConnectFailsAtOnce
      BY <1>2, <1>4
         DEF ConnectFails, Refuse, Api!ConnectFailsAtOnce, Api!Returned
    <2> QED BY <2>1 DEF Api!Next
  <1>5. CASE ConnectOpens
    <2>1. Api!ConnectBegins
      BY <1>2, <1>5 DEF ConnectOpens, Start, Api!ConnectBegins, Api!Begins
    <2> QED BY <2>1 DEF Api!Next
  <1>6. ASSUME NEW op \in {"disconnect", "destroy"}, DisconnectNow(op)
        PROVE  Api!Next
    <2>1. op \in Api!Endings /\ Api!EndsAtOnce(op)
      BY <1>2, <1>6
         DEF DisconnectNow, TransportAfter, PhaseAfter,
             Api!Endings, Api!EndsAtOnce, Api!Ends, Api!Returned
    <2> QED BY <2>1 DEF Api!Next
  <1>7. ASSUME NEW op \in {"disconnect", "destroy"}, DisconnectStart(op)
        PROVE  Api!Next
    <2>1. op \in Api!Endings /\ Api!EndingBegins(op)
      BY <1>2, <1>7
         DEF DisconnectStart, Start, client,
             Api!Endings, Api!EndingBegins, Api!Begins
    <2> QED BY <2>1 DEF Api!Next
  <1>8. ASSUME NEW op \in Services, ServiceRefused(op)
        PROVE  Api!Next
    <2>1. op \in Api!Services /\ Api!ServiceRefused(op)
      BY <1>2, <1>8
         DEF ServiceRefused, Refuse, client, Services,
             Api!Services, Api!ServiceRefused, Api!Returned
    <2> QED BY <2>1 DEF Api!Next
  <1>9. ASSUME NEW op \in Services, ServiceStart(op)
        PROVE  Api!Next
    <2>1. op \in Api!Services /\ Api!ServiceBegins(op)
      BY <1>2, <1>9
         DEF ServiceStart, Start, client, Services,
             Api!Services, Api!ServiceBegins, Api!Begins
    <2> QED BY <2>1 DEF Api!Next
  <1>10. ASSUME NEW err \in {"Timeout", "ConnectionError"}, Fail(err), phase = "wait"
         PROVE  Api!Next
    <2>1. InCall
      BY <1>10 DEF InCall
    <2>2. CASE call.op \in {"disconnect", "destroy"} /\ FinishDisconnect
      BY <2>1, <2>2, ApiFinish DEF Api!Next, Api!Returns
    <2>3. CASE /\ call.op \in {"connect"} \union Services
               /\ Return(err)
               /\ UNCHANGED <<client, requests, socket>>
      <3>1. Api!Pending(call.op) /\ Api!Returned(call.op, err)
        BY <1>1, <2>1, <2>3 DEF Return, InCall, Api!Pending, Api!Returned
      <3>2. UNCHANGED <<connected, transport>> /\ phase' = "idle"
        BY <2>3 DEF Return, client
      <3>3. err \in Api!ExchangeErrors /\ err \in Api!ServiceResults(call.op)
        BY DEF Api!ExchangeErrors, Api!ServiceResults
      <3>4. CASE call.op = "connect"
        <4>1. Api!ConnectReturns
          BY <1>10, <3>1, <3>2, <3>3, <3>4 DEF Api!ConnectReturns
        <4> QED BY <4>1 DEF Api!Next, Api!Returns
      <3>5. CASE call.op \in Services
        <4>1. call.op \in Api!Services /\ Api!ServiceReturns(call.op)
          BY <1>10, <3>1, <3>2, <3>3, <3>5
             DEF Services, Api!Services, Api!ServiceReturns
        <4> QED BY <4>1 DEF Api!Next, Api!Returns
      <3> QED BY <2>3, <3>4, <3>5
    <2> QED BY <1>10, <2>2, <2>3 DEF Fail
  <1>11. CASE PollTimeout \/ RecvError
    BY <1>10, <1>11 DEF PollTimeout, RecvError
  <1>12. CASE Recv
    <2>1. InCall /\ phase = "wait"
      BY <1>12 DEF Recv, InCall
    <2>2. CASE RecvDisconnect
      BY <2>1, <2>2, ApiFinish DEF RecvDisconnect, Api!Next, Api!Returns
    <2>3. CASE RecvConnect
      <3>1. call.op = "connect" /\ transport' = transport
        BY <2>3 DEF RecvConnect
      <3>2. Api!Pending("connect")
        BY <1>1, <2>1, <3>1 DEF InCall, Api!Pending
      <3>3. CASE ChunkIsFrame
        <4>1. Api!Returned("connect", "ok") /\ connected' = TRUE /\ phase' = "idle"
          BY <1>1, <2>3, <3>1, <3>3 DEF RecvConnect, Return, Api!Returned
        <4>2. (phase' \in {"killed", "destroyed"}) = (phase \in {"killed", "destroyed"})
          BY <2>1, <4>1
        <4>3. (transport' = "open") = (transport = "open")
          BY <3>1
        <4>4. Api!ConnectReturns
          BY <3>2, <4>1, <4>2, <4>3 DEF Api!ConnectReturns
        <4> QED BY <4>4 DEF Api!Next, Api!Returns
      <3>4. CASE ~ChunkIsFrame
        <4>1. /\ Api!Returned("connect", "InvalidData")
              /\ connected' = connected /\ phase' = "idle"
          BY <1>1, <2>3, <3>1, <3>4 DEF RecvConnect, Return, Api!Returned
        <4>2. \E err \in Api!ExchangeErrors \union {"InvalidData"} :
                 Api!Returned("connect", err)
          BY <4>1
        <4>3. (phase' \in {"killed", "destroyed"}) = (phase \in {"killed", "destroyed"})
          BY <2>1, <4>1
        <4>4. Api!ConnectReturns
          BY <3>1, <3>2, <4>1, <4>2, <4>3 DEF Api!ConnectReturns
        <4> QED BY <4>4 DEF Api!Next, Api!Returns
      <3> QED BY <3>3, <3>4
    <2>4. CASE RecvService
      <3>1. PICK res \in ServiceResult(call.op) : Return(res)
        BY <2>4 DEF RecvService
      <3>2. /\ call.op \in Api!Services /\ res \in Api!ServiceResults(call.op)
            /\ transport' = transport /\ connected' = connected
        BY <2>4, <3>1
           DEF RecvService, ServiceResult, Services, Api!Services,
               Api!ServiceResults, Api!ExchangeErrors
      <3>3. Api!Pending(call.op) /\ Api!Returned(call.op, res) /\ phase' = "idle"
        BY <1>1, <2>1, <3>1 DEF InCall, Return, Api!Pending, Api!Returned
      <3>4. Api!ServiceReturns(call.op)
        BY <2>1, <3>2, <3>3 DEF Api!ServiceReturns
      <3> QED BY <3>2, <3>4 DEF Api!Next, Api!Returns
    <2> QED BY <1>12, <2>2, <2>3, <2>4 DEF Recv
  <1>13. CASE Killed
    <2>1. Api!Dies
      BY <1>1, <1>13 DEF Killed, InCall, client, Api!Dies
    <2> QED BY <2>1 DEF Api!Next
  <1>14. CASE Send
    BY <1>14 DEF Send, client, Api!vars
  <1>15. CASE AnswerStarts \/ AnswerContinues \/ PeerCloses \/ PeerResets
    BY <1>15
       DEF AnswerStarts, AnswerContinues, PeerCloses, PeerResets, client, Api!vars
  <1>16. CASE Ended \/ UNCHANGED vars
    BY <1>16 DEF Ended, vars, client, Api!vars
  <1> QED
    BY <1>3, <1>4, <1>5, <1>6, <1>7, <1>8, <1>9, <1>11, <1>12, <1>13, <1>14,
       <1>15, <1>16
       DEF Next, ClientStep, Answer

THEOREM ImplementsApi == Spec => ApiSpec
  <1> QED BY ApiInit, ApiNext, Inductive, PTL DEF Spec, ApiSpec, Api!Spec
=============================================================================
